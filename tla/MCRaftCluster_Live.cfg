CONSTANTS
    Node = {n1, n2}
    None = None
    Call = {c1, c2}
    Mesh = TRUE
    Peers <- MCPeers
    Transport = "grpc"
    MaxTerm = 1
    MaxRestarts = 1
    MaxLate = 0
SPECIFICATION FairSpec
INVARIANT AppliedWithinLog
 
 
