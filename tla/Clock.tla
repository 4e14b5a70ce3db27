------------------------------ MODULE Clock ------------------------------
(***************************************************************************)
(* The monotonic clock (Instant::now) that the rate limiter and the quotas *)
(* read, in ticks.                                                         *)
(***************************************************************************)
EXTENDS Integers

CONSTANTS
    None,     \* no bucket, no quota, no usage
    MaxNow    \* bound: the last tick

ASSUME MaxNowAssumption == MaxNow \in Nat

VARIABLE now  \* the current tick
============================================================================
