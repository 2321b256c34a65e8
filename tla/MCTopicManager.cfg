CONSTANTS
    None = None
    Goroutines = {g1, g2, g3}
    Topics = {t1}
    Msgs = {m1, m2, bad}
    Undecodable = {bad}
    Handles = {h1, h2, h3, h4, h5}
    BufferSize = 2
SYMMETRY Symmetry
SPECIFICATION Spec
INVARIANTS
    TypeOK
    MapsMatchPubsub
    EveryEntryRead
    NoListenError
PROPERTY KeepsRegistry
