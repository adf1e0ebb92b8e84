SPECIFICATION Spec
CONSTANTS
    MaxConns = 2
    MaxEvents = 2
    PortNos = {1}
INVARIANTS
    InOrder
    StatsWhole
    PortsKnown
PROPERTY UpAfterSetup
CHECK_DEADLOCK FALSE
