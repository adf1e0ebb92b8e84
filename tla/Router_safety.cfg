SPECIFICATION Spec
CONSTANTS
    IP <- Addresses
    IfList <- Interfaces
    RT <- ShippedTable
    DefaultIf = "eth3"
    HostMac <- Macs
    HostIf <- Links
    Bcast = "ff"
    Zero = "00"
    Frame <- Frames
    MAX_TRIES = 2
    MaxQueue = 2
    Null = Null
INVARIANTS
    FramesReady
    ErrorsReachSender
    DeliveredToOwner
    RouteIsLongestMatch
