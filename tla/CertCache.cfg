SPECIFICATION Spec
CONSTANTS
    c1 = c1  c2 = c2  c3 = c3  c4 = c4
    h1 = h1  h2 = h2
    None = None
    Conn <- MCConn
    Hosts <- MCHosts
SYMMETRY Symmetric
INVARIANTS CacheInv NoUseAfterFree OneLeafPerHost
PROPERTY PublishedForever
