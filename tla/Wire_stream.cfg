SPECIFICATION Spec
CONSTANTS
    MaxSent = 2
    Split = {4, 5, 13}
INVARIANTS
    InStep
    ReceivedAsSent
PROPERTY
    AllParsed
CHECK_DEADLOCK FALSE
