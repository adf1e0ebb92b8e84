SPECIFICATION HeaderSpec
CONSTANTS
    Lens <- SomeLens
    Ttls <- SomeTtls
    Rests <- SomeRests
    Addrs <- SomeAddrs
    Payloads <- SomePayloads
    MaxHops = 3
    NoDatagram = NoDatagram
INVARIANTS
    ChecksumsDecide
    WrittenVerifies
CHECK_DEADLOCK FALSE
