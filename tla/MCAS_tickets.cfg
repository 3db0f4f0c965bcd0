\* Two requests of one user, a removal among them; all that AS promises.
SPECIFICATION FairSpec
CONSTANTS
    Uids = {u1}
    Passes = {p1, p2}
    Conns = {c1}
    Ops = {opR, opX}
    NamelessOps = {opX}
    OpX = opX
    Rids = {r1}
    Vcs = {v1}
    Tids = {t1}
    Clear = Clear
    Fresh = Fresh
    NoUid = NoUid
    NoPass = NoPass
    NoOp = NoOp
    NREQUEST_TRIES = 1
    MaxPending = 1
    MaxInbox = 2
    MaxQueue = 2
    MaxReq = 2
INVARIANTS
    QueueRegistered
    SessionDescriptors
    TicketsOneTime
    UnwrittenOnce
PROPERTIES
    PasswordStable
    RegisteredWithPassword
    ImplementsAuthorisation
    QueueDrains
    ShutdownCompletes
