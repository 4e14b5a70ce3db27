-------------------------- MODULE MCCoordinator --------------------------
(* The HTTP API with two keys and a few lists of operations. *)
EXTENDS Coordinator, TLC

Put(k) == [op |-> "put", key |-> k]
Delete(k) == [op |-> "delete", key |-> k]
Get(k) == [op |-> "get", key |-> k]
Invalid == [op |-> "invalid", key |-> 1]

MCKey == {1, 2}
MCTransactions == {<<Put(1), Put(2)>>, <<Delete(1), Invalid, Put(1)>>, <<Put(2), Delete(2)>>}
MCImports == {<<Put(2), Put(1)>>}
MCBatches == {<<Put(1), Get(1), Delete(2)>>, <<Delete(1), Invalid, Put(2)>>}
MCEvent ==
    [event : {"put"}, key : Key] \cup [event : {"revoke", "delete"}, key : KeyId]

\* Values and API keys share only the watch channel, so a behaviour here has
\* steps of one of the two kinds, and PUT requests in both.
DataOnly == issued = {} /\ \A w \in Watcher : stream[w] = "none"
KeysOnly == \A r \in Req : ~Running(r) /\ ~Listing(r)

MCNext ==
    \/ \E r \in Req : S3Steps(r)
    \/ DataOnly /\ \E r \in Req : OpsSteps(r) \/ ListingSteps(r)
    \/ KeysOnly /\ audit \cap {[event |-> "System", target |-> None]} = {}
                /\ ((\E r \in Req : KeySteps(r)) \/ WatchSteps \/ ClockStep)

MCSpec == Init /\ [][MCNext]_vars

Symmetry == Permutations(Req)
============================================================================
