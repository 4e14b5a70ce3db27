---------------------------- MODULE VolumeMap ----------------------------
(***************************************************************************)
(* What a volume promises the rest of the system: a map from keys to       *)
(* values with expiry that never invents a value.  While the volume is     *)
(* online only a put, a delete or the passing of a deadline changes what   *)
(* is stored under a key.  A restart may lose or bring back values, but    *)
(* only values that were put under that very key.                          *)
(***************************************************************************)
EXTENDS Naturals

CONSTANTS Key, Val, TTL, None

VARIABLES
    online,
    value,     \* the value stored under each key, or None
    expiry,    \* its deadline, or None
    now,
    requested  \* the values for which a put was ever issued, for each key

vars == <<online, value, expiry, now, requested>>

Nothing == [k \in Key |-> None]

Init ==
    /\ online = FALSE
    /\ value = Nothing
    /\ expiry = Nothing
    /\ now = 0
    /\ requested = [k \in Key |-> {}]

\* A put is issued; it may still fail.
Request(k, v) ==
    /\ online
    /\ requested' = [requested EXCEPT ![k] = @ \cup {v}]
    /\ UNCHANGED <<online, value, expiry, now>>

Put(k, v, ttl) ==
    /\ online
    /\ v \in requested[k]
    /\ value' = [value EXCEPT ![k] = v]
    /\ expiry' = [expiry EXCEPT ![k] = IF ttl = None THEN None ELSE now + ttl]
    /\ UNCHANGED <<online, now, requested>>

Delete(k) ==
    /\ online
    /\ value' = [value EXCEPT ![k] = None]
    /\ expiry' = [expiry EXCEPT ![k] = None]
    /\ UNCHANGED <<online, now, requested>>

\* Exactly the keys whose deadline has passed are dropped.
Expire ==
    LET Late == {k \in Key : expiry[k] # None /\ now > expiry[k]} IN
    /\ online
    /\ value' = [k \in Key |-> IF k \in Late THEN None ELSE value[k]]
    /\ expiry' = [k \in Key |-> IF k \in Late THEN None ELSE expiry[k]]
    /\ UNCHANGED <<online, now, requested>>

Stop ==
    /\ online' = FALSE
    /\ value' = Nothing
    /\ expiry' = Nothing
    /\ UNCHANGED <<now, requested>>

Start ==
    /\ ~online
    /\ online' = TRUE
    /\ \A k \in Key : value'[k] \in requested[k] \cup {None}
    /\ \A k \in Key : value'[k] = None => expiry'[k] = None
    /\ UNCHANGED <<now, requested>>

Tick ==
    /\ now' = now + 1
    /\ UNCHANGED <<online, value, expiry, requested>>

Next ==
    \/ \E k \in Key, v \in Val : Request(k, v)
    \/ \E k \in Key, v \in Val, ttl \in TTL \cup {None} : Put(k, v, ttl)
    \/ \E k \in Key : Delete(k)
    \/ Expire
    \/ Stop
    \/ Start
    \/ Tick

Spec == Init /\ [][Next]_vars
============================================================================
