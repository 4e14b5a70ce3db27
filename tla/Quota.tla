------------------------------ MODULE Quota ------------------------------
(***************************************************************************)
(* Tenant quotas (struct QuotaManager) and the callers that check and then *)
(* record.                                                                 *)
(*                                                                         *)
(* A method holds the locks it needs from its first read to its last       *)
(* write, so each is one action.  The manager leaves it to its callers to  *)
(* check, to store and to record afterwards (test_storage_limit does), so  *)
(* that a caller is several actions: check_storage, check_objects, the     *)
(* object appears, record_storage_add; or the object goes away and then    *)
(* record_storage_remove.  Identifiers and error texts are left out.  Of   *)
(* the timestamps of requests only the number at each tick is kept: the    *)
(* code never looks at their order.                                        *)
(***************************************************************************)
EXTENDS Clock, FiniteSetsExt

CONSTANTS
    Tenant,         \* tenants that make requests
    Caller,         \* concurrent requests that store or remove objects
    Size,           \* sizes of objects in bytes
    DefaultQuota,   \* QuotaManager::default_quota
    Quotas,         \* the quotas that set_quota is called with
    QuotaWindow,    \* DEFAULT_RATE_WINDOW in ticks
    MaxObjects,     \* bound: objects counted for a tenant
    MaxRequests     \* bound: requests of a tenant that are admitted

\* A limit of 0 is none at all.
TenantQuota == [storage_limit : Nat, object_limit : Nat, rate_limit : Nat, enabled : BOOLEAN]

TenantUsage == [storage_used : Nat, object_count : Nat, request_times : [0..MaxNow -> Nat]]

ASSUME CallerAssumption == IsFiniteSet(Caller) /\ Caller # {}
ASSUME SizeAssumption == Size \subseteq Nat /\ \E m \in Size : \A s \in Size : s <= m
ASSUME QuotaAssumption == {DefaultQuota} \cup Quotas \subseteq TenantQuota
ASSUME NoQuotaAssumption == None \notin TenantQuota \cup TenantUsage
ASSUME QuotaWindowAssumption == QuotaWindow \in Nat

VARIABLES
    quotas,     \* QuotaManager::quotas
    usage,      \* QuotaManager::usage
    call,       \* what each caller is doing
    live,       \* external: stored objects of a tenant, by size
    log,        \* history: the requests of a tenant admitted at each tick
    ceiling     \* history: the largest limits in force so far, per tenant

quotaVars == <<quotas, usage, now, call, live, log, ceiling>>

\* No requests: how many have each timestamp.
Never == [s \in 0..MaxNow |-> 0]

NoUsage == [storage_used |-> 0, object_count |-> 0, request_times |-> Never]
NoCall == [at |-> "idle"]

QuotaOf(t) == IF quotas[t] = None THEN DefaultQuota ELSE quotas[t]
UsageOf(t) == IF usage[t] = None THEN NoUsage ELSE usage[t]

----------------------------------------------------------------------------
(* Limits *)

Within(limit, total) == limit = 0 \/ total <= limit

\* Faulty variant: the limit is compared with what is used before the write.
check_storage_before(t, bytes) ==
    QuotaOf(t).enabled /\ Within(QuotaOf(t).storage_limit, UsageOf(t).storage_used)

check_storage(t, bytes) ==
    QuotaOf(t).enabled /\ Within(QuotaOf(t).storage_limit, UsageOf(t).storage_used + bytes)

check_objects(t) ==
    QuotaOf(t).enabled /\ Within(QuotaOf(t).object_limit, UsageOf(t).object_count + 1)

\* Faulty variant: a request at the start of the window is still counted.
InWindow_closed(times) == [s \in 0..MaxNow |-> IF s >= now - QuotaWindow THEN times[s] ELSE 0]

\* The timestamps that check_rate retains.
InWindow(times) == [s \in 0..MaxNow |-> IF s > now - QuotaWindow THEN times[s] ELSE 0]

\* The length of request_times.
Count(times) == SumFunction(times)

\* Faulty variant: a plain subtraction.
plain_sub(a, b) == a - b

saturating_sub(a, b) == IF a >= b THEN a - b ELSE 0

----------------------------------------------------------------------------
(* Configuration *)

QuotaInit ==
    /\ quotas = [t \in Tenant |-> None]
    /\ usage = [t \in Tenant |-> None]
    /\ now = 0
    /\ call = [c \in Caller |-> NoCall]
    /\ live = [t \in Tenant |-> [s \in Size |-> 0]]
    /\ log = [t \in Tenant |-> Never]
    /\ ceiling = [t \in Tenant |-> DefaultQuota]

Higher(a, b) == IF a = 0 \/ b = 0 THEN 0 ELSE Max({a, b})

\* set_quota and remove_quota: q is None when the quota is removed.
SetQuota(t, q) ==
    /\ quotas[t] # q
    /\ quotas' = [quotas EXCEPT ![t] = q]
    /\ LET in_force == IF q = None THEN DefaultQuota ELSE q IN
        ceiling' = [ceiling EXCEPT
            ![t].storage_limit = Higher(@, in_force.storage_limit),
            ![t].object_limit = Higher(@, in_force.object_limit)]
    /\ UNCHANGED <<usage, now, call, live, log>>

----------------------------------------------------------------------------
(* A caller that stores an object *)

Goto(c, state) == call' = [call EXCEPT ![c] = state]

\* check_storage allows the object; a refused caller gives up.
CheckStorage(c, t, bytes) ==
    /\ call[c].at = "idle"
    /\ check_storage(t, bytes)
    /\ Goto(c, [at |-> "storage_ok", tenant |-> t, bytes |-> bytes])
    /\ UNCHANGED <<quotas, usage, now, live, log, ceiling>>

CheckObjects(c) ==
    /\ call[c].at = "storage_ok"
    /\ IF check_objects(call[c].tenant) THEN Goto(c, [call[c] EXCEPT !.at = "admitted"])
       ELSE Goto(c, NoCall)
    /\ UNCHANGED <<quotas, usage, now, live, log, ceiling>>

\* External: the admitted object is stored and can be removed by others.
Store(c) ==
    /\ call[c].at = "admitted"
    /\ live' = [live EXCEPT ![call[c].tenant][call[c].bytes] = @ + 1]
    /\ Goto(c, [call[c] EXCEPT !.at = "stored"])
    /\ UNCHANGED <<quotas, usage, now, log, ceiling>>

\* Faulty variant: a tenant without an entry is skipped, as in the removal.
RecordStorageAdd_skips(c) ==
    /\ call[c].at = "stored"
    /\ LET t == call[c].tenant IN
        usage' = IF usage[t] = None THEN usage
                 ELSE [usage EXCEPT
                     ![t].storage_used = @ + call[c].bytes, ![t].object_count = @ + 1]
    /\ Goto(c, NoCall)
    /\ UNCHANGED <<quotas, now, live, log, ceiling>>

\* Faulty variant: the bytes are recorded twice, as by a retry.
RecordStorageAdd_twice(c) ==
    /\ call[c].at = "stored"
    /\ LET t == call[c].tenant IN
        usage' = [usage EXCEPT ![t] =
            [UsageOf(t) EXCEPT !.storage_used = @ + 2 * call[c].bytes, !.object_count = @ + 1]]
    /\ Goto(c, NoCall)
    /\ UNCHANGED <<quotas, now, live, log, ceiling>>

RecordStorageAdd(c) ==
    /\ call[c].at = "stored"
    /\ LET t == call[c].tenant IN
        usage' = [usage EXCEPT ![t] =
            [UsageOf(t) EXCEPT !.storage_used = @ + call[c].bytes, !.object_count = @ + 1]]
    /\ Goto(c, NoCall)
    /\ UNCHANGED <<quotas, now, live, log, ceiling>>

----------------------------------------------------------------------------
(* A caller that removes an object, perhaps one that is not recorded yet *)

\* External: the object is gone.
Remove(c, t, bytes) ==
    /\ call[c].at = "idle"
    /\ live[t][bytes] > 0
    /\ live' = [live EXCEPT ![t][bytes] = @ - 1]
    /\ Goto(c, [at |-> "removed", tenant |-> t, bytes |-> bytes])
    /\ UNCHANGED <<quotas, usage, now, log, ceiling>>

\* record_storage_remove: nothing to do for a tenant without an entry.
RecordStorageRemove(c) ==
    /\ call[c].at = "removed"
    /\ LET t == call[c].tenant IN
        usage' = IF usage[t] = None THEN usage
                 ELSE [usage EXCEPT
                     ![t].storage_used = saturating_sub(@, call[c].bytes),
                     ![t].object_count = saturating_sub(@, 1)]
    /\ Goto(c, NoCall)
    /\ UNCHANGED <<quotas, now, live, log, ceiling>>

----------------------------------------------------------------------------
(* Requests per window *)

\* The usage after check_rate: an unlimited tenant keeps every timestamp.
Pruned(t) ==
    IF QuotaOf(t).rate_limit = 0 THEN UsageOf(t)
    ELSE [UsageOf(t) EXCEPT !.request_times = InWindow(@)]

check_rate(t) ==
    \/ QuotaOf(t).rate_limit = 0
    \/ Count(Pruned(t).request_times) < QuotaOf(t).rate_limit

\* check_and_record_request: Allowed.
RequestAllowed(t) ==
    /\ QuotaOf(t).enabled
    /\ Count(log[t]) < MaxRequests
    /\ check_rate(t)
    /\ usage' = [usage EXCEPT ![t] = [Pruned(t) EXCEPT !.request_times[now] = @ + 1]]
    /\ log' = [log EXCEPT ![t][now] = @ + 1]
    /\ UNCHANGED <<quotas, now, call, live, ceiling>>

\* check_and_record_request: RateLimitExceeded.  The pruning stays.
RequestRefused(t) ==
    /\ QuotaOf(t).enabled
    /\ ~check_rate(t)
    /\ usage' = [usage EXCEPT ![t] = Pruned(t)]
    /\ UNCHANGED <<quotas, now, call, live, log, ceiling>>

QuotaTick ==
    /\ now < MaxNow
    /\ now' = now + 1
    /\ UNCHANGED <<quotas, usage, call, live, log, ceiling>>

\* The steps of a caller.
Calls(c) ==
    \/ \E t \in Tenant, s \in Size : UsageOf(t).object_count < MaxObjects /\ CheckStorage(c, t, s)
    \/ \E t \in Tenant, s \in Size : Remove(c, t, s)
    \/ CheckObjects(c) \/ Store(c) \/ RecordStorageAdd(c) \/ RecordStorageRemove(c)

Configures == \E t \in Tenant, q \in Quotas \cup {None} : SetQuota(t, q)
Stores == \E c \in Caller : Calls(c)
Requests == \E t \in Tenant : RequestAllowed(t) \/ RequestRefused(t)

QuotaNext == Configures \/ Stores \/ Requests \/ QuotaTick

QuotaSpec == QuotaInit /\ [][QuotaNext]_quotaVars

----------------------------------------------------------------------------
(* Properties *)

\* Every variable has its type, and totals are never negative.
QuotaTypeOK ==
    /\ quotas \in [Tenant -> Quotas \cup {None}]
    /\ usage \in [Tenant -> TenantUsage \cup {None}]
    /\ now \in 0..MaxNow
    /\ call \in [Caller -> {NoCall} \cup
           [at : {"storage_ok", "admitted", "stored", "removed"}, tenant : Tenant, bytes : Size]]
    /\ live \in [Tenant -> [Size -> Nat]]
    /\ log \in [Tenant -> [0..MaxNow -> Nat]]
    /\ ceiling \in [Tenant -> TenantQuota]

\* Callers that checked before the others recorded can exceed a limit, but
\* only by what they had in flight: one object for every other caller, however
\* checks, records and removals overlap (check_storage, check_objects,
\* record_storage_add).
OvershootBounded ==
    \A t \in Tenant :
        LET others == Cardinality(Caller) - 1 IN
        /\ Within(ceiling[t].storage_limit, UsageOf(t).storage_used - others * Max(Size))
        /\ Within(ceiling[t].object_limit, UsageOf(t).object_count - others)

Unrecorded(t, state) == {c \in Caller : call[c].at = state /\ call[c].tenant = t}

SumBytes(callers) == SumFunction([c \in callers |-> call[c].bytes])

LiveBytes(t) == SumFunction([s \in Size |-> s * live[t][s]])
LiveObjects(t) == SumFunction(live[t])

\* A tenant's totals, with the adds and removals still to be recorded, are never
\* below what the tenant really stores: a removal that is recorded before the
\* add it undoes (saturating_sub at 0, or no entry at all) only leaves too much
\* (record_storage_add, record_storage_remove).
UsageCovers ==
    \A t \in Tenant :
        LET adds == Unrecorded(t, "stored")
            removes == Unrecorded(t, "removed") IN
        /\ UsageOf(t).storage_used + SumBytes(adds) >= LiveBytes(t) + SumBytes(removes)
        /\ UsageOf(t).object_count + Cardinality(adds) >= LiveObjects(t) + Cardinality(removes)

\* What a tenant really stores exceeds a limit by no more than one object for
\* every other caller, although the manager only sees what callers record, late
\* and in any order (check_storage, check_objects, record_storage_add,
\* record_storage_remove).
StoredBounded ==
    \A t \in Tenant :
        LET others == Cardinality(Caller) - 1 IN
        /\ Within(ceiling[t].storage_limit, LiveBytes(t) - others * Max(Size))
        /\ Within(ceiling[t].object_limit, LiveObjects(t) - others)

Recent(t) == Count([s \in 0..MaxNow |-> IF now - s < QuotaWindow THEN log[t][s] ELSE 0])

\* The rate limit is exact in every window of time, also when the quota
\* changes and after unlimited phases: a request is admitted if and only if
\* fewer than rate_limit were admitted in the last window (check_rate, which
\* only keeps the timestamps that it has not pruned).
RateExact ==
    \A t \in Tenant :
        QuotaOf(t).rate_limit # 0 => (check_rate(t) <=> Recent(t) < QuotaOf(t).rate_limit)
============================================================================
