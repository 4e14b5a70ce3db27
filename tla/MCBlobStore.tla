--------------------------- MODULE MCBlobStore ---------------------------
(* Small instances of BlobStore. *)
EXTENDS BlobStore, TLC

Symmetry == Permutations(Key) \cup Permutations(Val)
============================================================================
