SPECIFICATION Spec
CONSTANT Setups <- MCSetups
INVARIANTS
    OnePlace
    ClosedNotSelected
PROPERTIES
    Served
    QuitEnds
CHECK_DEADLOCK FALSE
