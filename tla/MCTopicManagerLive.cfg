CONSTANTS
    None = None
    Goroutines = {g1, g2, g3}
    Topics = {t1}
    Msgs = {m1}
    Undecodable = {}
    Handles = {h1, h2, h3, h4, h5}
    BufferSize = 1
SPECIFICATION FairSpec
PROPERTIES
    CallsReturn
    ListenersEnd
    BufferedHandled
