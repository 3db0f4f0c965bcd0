\* Two users, two tries: the waits, the sockets, the exit.
SPECIFICATION FairSpec
CONSTANTS
    u1 = u1  u2 = u2
    Uids = {u1, u2}
    Users <- MCUsers
    NoUser = NoUser
    NREQUEST_TRIES = 2
    MaxLines = 1
    MaxIn = 1
INVARIANTS WaitsForItsRequest ServesIffConnected ResendsBounded
PROPERTIES WaitEnds LeaveCompletes
