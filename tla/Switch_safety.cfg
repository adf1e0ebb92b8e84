SPECIFICATION Spec
CONSTANTS
    Wild = Wild
    NwBits = 2
    Conns = {1, 2}
    Hosts = {"a", "b"}
    Group = "group"
    Filtered = "filtered"
    Ports = {1, 2, 3}
    Home <- MCHome
    Requests <- MCRequests
    MaxEvents = 3
INVARIANTS
    BufferHasAnswer
    SentWhereSeen
PROPERTY
    RolesKept
CHECK_DEADLOCK FALSE
