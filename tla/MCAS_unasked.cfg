\* What user_aux.h says of a ticket.
SPECIFICATION Spec
CONSTANTS
    Uids = {u1}
    Passes = {p1}
    Conns = {c1}
    Ops = {opX}
    NamelessOps = {opX}
    OpX = opX
    Rids = {r1}
    Vcs = {v1}
    Tids = {t1}
    Clear = Clear
    Fresh = Fresh
    NoUid = NoUid
    NoPass = NoPass
    NoOp = NoOp
    NREQUEST_TRIES = 1
    MaxPending = 1
    MaxInbox = 1
    MaxQueue = 1
    MaxReq = 1
INVARIANT TicketsAreAskedFor
