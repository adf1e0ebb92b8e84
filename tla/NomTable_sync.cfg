SPECIFICATION Spec
CONSTANTS
    Wild = Wild
    NwBits = 2
    Entries <- MCEntries
    MaxAsked = 3
    NoBuffer <- MCNoBuffer
    MaxBreaks = 2
INVARIANTS
    SwitchFollowsRequests
    CopyNotAhead
CHECK_DEADLOCK FALSE
