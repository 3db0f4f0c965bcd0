\* Two requests with one ticket, the AS and what is under way between.
SPECIFICATION AccessSpec
CONSTANTS
    Uids = {u1}
    Tids = {t1}
    Names = {"f"}
    Data = {}
    Conns = {c1, c2}
    Ops <- MCOps
    FOP_E = FOP_E
    NoUid = NoUid
    NoTid = NoTid
    NoOp = NoOp
    NoData = NoData
    TIMEOUT = 1
    MAX_FILES = 1
    MaxPending = 1
    MaxIds = 2
    Sessions = {s1}
    OpX <- MCRemove
    MaxGrants = 1
    MaxFlight = 2
INVARIANTS AccessTypeOK OneOperationPerTicket
PROPERTIES ExecutesWhatWasRequested FSBehaves
SYMMETRY MCSymmetry
