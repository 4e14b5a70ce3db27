------------------------------ MODULE MCWal ------------------------------
(* The write-ahead log with two logged operations and MaxLog cells. *)
EXTENDS WalPromise
============================================================================
