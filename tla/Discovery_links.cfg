SPECIFICATION HSpec
CONSTANTS
    Setups <- MCSetups
    MaxFlight = 1
    Mac = {"h1", "h2"}
    Ip = {i1, i2}
    pingLim = 1
INVARIANTS
    
    PathsFollowLinks
PROPERTIES
    HostsStayOutside
    TimerOutlivesArpHosts
CHECK_DEADLOCK FALSE
