\* Uploads, deletions and removals; a fair server.
SPECIFICATION FairSpec
CONSTANTS
    Uids = {u1}
    Tids = {t1}
    Names = {n1}
    Data = {d1, d2}
    Conns = {c1, c2}
    Ops <- MCChanges
    FOP_E = FOP_E
    NoUid = NoUid
    NoTid = NoTid
    NoOp = NoOp
    NoData = NoData
    TIMEOUT = 1
    MAX_FILES = 1
    MaxPending = 1
    MaxIds = 2
INVARIANTS TypeOK UploadsKeptApart ListedDescriptors
PROPERTIES StoresWhatWasSent StoresWithinLimit RequestsAnswered
