CONSTANTS
    p1 = p1
    p2 = p2
    p3 = p3
    c1 = c1
    c2 = c2
    c3 = c3
    c4 = c4
    c5 = c5
    Gc = Gc
    Nobody = Nobody
    CfgMaxPeers = 1
    Peers <- MCPeers
    Conns <- MCConns
    RemotePeer <- MCRemotePeer
SPECIFICATION Spec
INVARIANTS
    TypeOK
    CounterBounds
    NoUntrackedPeer
    NoStuckEntry
    NeverClosesTracked
    CacheExactWhenQuiet
PROPERTIES
    OnlyGcLosesSlots
    KeepsBudget
