--------------------------- MODULE MCLockOrder ---------------------------
(***************************************************************************)
(* Four threads that call methods of the quota manager or of the key       *)
(* store, or three that call methods of the Raft node.                     *)
(***************************************************************************)
EXTENDS LockOrder, TLC

CONSTANT RaftThreads    \* number of threads that call methods of the Raft node

Callers == {t \in Thread : running[t] # Fresh}

MCNext == LockNext /\ (methods = RaftMethods => Cardinality(Callers') <= RaftThreads)

MCSpec == LockInit /\ [][MCNext]_lockVars

Symmetry == Permutations(Thread)
============================================================================
