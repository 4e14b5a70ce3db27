-------------------------- MODULE MCRaftCluster --------------------------
(* Small instances of RaftCluster. *)
EXTENDS RaftCluster, TLC

CONSTANTS Mesh   \* whether the nodes know each other

MCPeers == [n \in Node |-> IF Mesh THEN Node \ {n} ELSE {}]

Symmetry == Permutations(Node) \cup Permutations(Call)
============================================================================
