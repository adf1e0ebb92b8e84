SPECIFICATION FairSpec
CONSTANTS
    IP = {ip1, ip2}
    MAC = {m1}
    Packet = {p1, p2}
    ReqId = {r1, r2}
    SR_ARPCACHE_SZ = 2
    SR_ARPCACHE_TO = 1
    MAX_TRIES = 2
    Null = Null
INVARIANTS
    CacheInv
    PointerInv
    TriesInv
    PacketAccounting
PROPERTIES
    ThreadsProgress
    ImplementsResolver
