SPECIFICATION FairSpec
CONSTANTS
    s1 = s1
    s2 = s2
    eth1 = eth1
    eth2 = eth2
    Session = {s1, s2}
    Interface = {eth1, eth2}
    MaxPackets = 1
    MaxSwitch = 2
    KeyFile = {s1, s2}
    RTable <- MCRTable
    Announced <- MCAnnounced
INVARIANT SessionsUnconfused
PROPERTIES
    
    SessionsAdvance
CHECK_DEADLOCK FALSE
