\* What as.c says of resending.
CONSTANTS
    Uids = {u1}
    Passes = {p1}
    Conns = {c1, c2}
    Ops = {opX}
    NamelessOps = {opX}
    OpX = opX
    Rids = {r1}
    Vcs = {v1}
    Tids = {t1}
    Clear = Clear
    Fresh = Fresh
    NoUid = NoUid
    NoPass = NoPass
    NoOp = NoOp
    NREQUEST_TRIES = 1
    MaxPending = 1
    MaxInbox = 1
    MaxQueue = 2
    MaxReq = 1
SPECIFICATION FairSpec
PROPERTIES
    ResendsWhenSilent
