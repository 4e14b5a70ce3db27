CONSTANTS
    Node = {n1, n2, n3}
    None = None
    Call = {c1, c2}
    Mesh = TRUE
    Peers <- MCPeers
    Transport = "direct"
    MaxTerm = 1
    MaxRestarts = 0
    MaxLate = 1
SPECIFICATION Spec
SYMMETRY Symmetry
INVARIANT AckedIsStored
INVARIANT CommitWithinLog
