\* One user, retrievals of two files, and the other commands.
SPECIFICATION FairSpec
CONSTANTS
    n1 = n1  n2 = n2
    Uids = {u1}
    Tids = {t1}
    Names = {n1, n2}
    Ops <- MCOps
    NoUid = NoUid  NoTid = NoTid  NoName = NoName  NoOp = NoOp
    NREQUEST_TRIES = 1
    MaxLines = 1
    MaxPending = 2
INVARIANTS ConnectedIsOpen StoresUnderItsName
PROPERTIES WaitEnds AnswersRead EndsWithServer
