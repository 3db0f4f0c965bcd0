\* What fs.c says of an answer that no request waits for.
SPECIFICATION Spec
CONSTANTS
    Uids = {u1}
    Tids = {t1, t2}
    Names = {n1}
    Data = {d1}
    Conns = {c1, c2}
    Ops <- MCEachOp
    FOP_E = FOP_E
    NoUid = NoUid
    NoTid = NoTid
    NoOp = NoOp
    NoData = NoData
    TIMEOUT = 1
    MAX_FILES = 1
    MaxPending = 1
    MaxIds = 2
PROPERTY IgnoresUnmatchedAnswers
