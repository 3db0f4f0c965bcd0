\* One device and one user: agreement, and what each side asks of the other.
SPECIFICATION Spec
CONSTANTS
    u1 = u1  p1 = p1
    Uids = {u1}
    Passes = {p1}
    Users <- MCOneUser
    Typed <- MCTyped
    NoUser = NoUser
    NoPass = NoPass
    NREQUEST_TRIES = 1
    MaxLines = 1
    MaxIn = 1
    MaxPending = 1
    MaxFlight = 1
INVARIANTS TypeOK RegisteredIsRegistered
PROPERTIES DeviceBehaves ServerBehaves
