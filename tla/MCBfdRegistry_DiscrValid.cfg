CONSTANTS
    h1 = h1  h2 = h2  p1 = p1  p2 = p2  eth0 = eth0  l1 = l1  l2 = l2
    sd1 = sd1  sd2 = sd2  sd3 = sd3
    NoSession = NoSession  NoIf = NoIf  NoLabel = NoLabel  NoDiscr = NoDiscr
    IDBits = 2
    Socks <- MCSocksPerHandle
    Handles <- MCHandles
    Peers <- MCPeers
    Ports <- MCPorts
    Labels <- MCLabels
    ExplicitDiscrs <- MCExplicitDiscrs
SPECIFICATION Spec
SYMMETRY HandleSymmetry
INVARIANT DiscrValid
