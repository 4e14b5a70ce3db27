--------------------------- MODULE MCManagers ---------------------------
(***************************************************************************)
(* The managers with a few addresses, callers and volumes.                 *)
(***************************************************************************)
EXTENDS RateLimiter, Quota, Placement, TLC

rateVars == <<enabled, buckets, last, admitted>>
tenantVars == <<quotas, usage, call, live, log, ceiling>>

Limits(storage, objects, rate) ==
    [storage_limit |-> storage, object_limit |-> objects, rate_limit |-> rate, enabled |-> TRUE]

MCDefault == Limits(2, 2, 2)
MCQuotas == {Limits(3, 0, 1), Limits(0, 1, 0), [Limits(2, 2, 2) EXCEPT !.enabled = FALSE]}

\* For the key volumes 1 and 3 have the same weight, for the shard 3 and 4.
MCWeight == "k1" :> <<3, 1, 3, 2>> @@ "s1" :> <<3, 1, 2, 2>>

\* The rate limiter, the objects of a tenant, its request rate and the placement share
\* nothing but the clock and the quotas, so a behaviour here has steps of one of the four.
NoBuckets == enabled /\ \A ip \in IP : buckets[ip] = None /\ admitted[ip][0] = 0
NoQuotas == \A t \in Tenant : quotas[t] = None /\ usage[t] = None
NoObjects ==
    /\ \A c \in Caller : call[c] = NoCall
    /\ \A t \in Tenant : UsageOf(t).object_count = 0 /\ LiveObjects(t) = 0
NoRequests == now = 0 /\ \A t \in Tenant : log[t] = Never

NoLimits == now = 0 /\ NoBuckets /\ NoQuotas /\ NoObjects /\ NoRequests
NoVolumes ==
    /\ changes = 0 /\ balanced = {}
    /\ \A v \in Volume : volumes[v] = "absent"
    /\ \A p \in Put : put[p].at = "new"

RateSteps == Cleanup \/ \E ip \in IP : CheckAllowed(ip) \/ CheckLimited(ip)

QuotaSteps ==
    \/ Configures
    \/ NoRequests /\ Stores
    \/ NoObjects /\ Requests

LimiterSteps ==
    \/ NoQuotas /\ NoObjects /\ RateSteps /\ UNCHANGED tenantVars
    \/ NoObjects /\ Tick /\ UNCHANGED tenantVars
    \/ NoBuckets /\ QuotaSteps /\ UNCHANGED rateVars

MCNext ==
    \/ NoVolumes /\ LimiterSteps /\ UNCHANGED placementVars
    \/ NoLimits /\ PlacementNext /\ UNCHANGED <<vars, tenantVars>>

MCInit == Init /\ QuotaInit /\ PlacementInit

MCSpec == MCInit /\ [][MCNext]_<<vars, tenantVars, placementVars>>

Symmetry == Permutations(IP) \cup Permutations(Caller)
============================================================================
