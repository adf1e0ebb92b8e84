SPECIFICATION Spec
CONSTANTS
    Frames <- MCFrames
    Cuts <- MCCuts
INVARIANTS
    ConstructorContained
    RepackedAsParsed
    CutHidesNothing
CHECK_DEADLOCK FALSE
