CONSTANTS
    None = None
    Goroutines = {g1, g2, g3}
    Topics = {t1, t2}
    Msgs = {m1}
    Undecodable = {}
    Handles = {h1, h2, h3, h4, h5, h6}
    BufferSize = 1
SYMMETRY Symmetry
SPECIFICATION Spec
INVARIANTS
    HandledOnce
