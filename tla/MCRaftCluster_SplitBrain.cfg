CONSTANTS
    Node = {n1, n2, n3}
    None = None
    Call = {}
    Mesh = TRUE
    Peers <- MCPeers
    Transport = "direct"
    MaxTerm = 2
    MaxRestarts = 0
    MaxLate = 0
SPECIFICATION FairSpec
PROPERTY NoPersistentSplitBrain
