---------------------------- MODULE QuotaProofs ----------------------------
(***************************************************************************)
(* Proofs about the quotas: types, how far concurrent callers can exceed a *)
(* limit, that the request rate is exact, and that the totals cover what   *)
(* is really stored, so that it is bounded as well; for any number of      *)
(* tenants, callers and sizes, and whatever the quotas and their changes.  *)
(* What a sum over a finite set is, which the last part rests on, is       *)
(* proved here from the definition of SumFunctionOnSet.                    *)
(***************************************************************************)
EXTENDS Quota, FiniteSetTheorems, TLAPS

----------------------------------------------------------------------------
(* Quotas: types *)

\* The states of a caller between its first check and its record.
CallState == [at : {"storage_ok", "admitted", "stored", "removed"}, tenant : Tenant, bytes : Size]

LEMMA UsageTyped ==
    ASSUME QuotaTypeOK, NEW t \in Tenant
    PROVE  /\ UsageOf(t) \in TenantUsage /\ QuotaOf(t) \in TenantQuota
           /\ Pruned(t) \in TenantUsage
           /\ Pruned(t).storage_used = UsageOf(t).storage_used
           /\ Pruned(t).object_count = UsageOf(t).object_count
<1>1. NoUsage \in TenantUsage
  BY DEF NoUsage, Never, TenantUsage
<1>2. UsageOf(t) \in TenantUsage
  BY <1>1 DEF UsageOf, QuotaTypeOK
<1>3. QuotaOf(t) \in TenantQuota
  BY QuotaAssumption DEF QuotaOf, QuotaTypeOK
<1>4. InWindow(UsageOf(t).request_times) \in [0..MaxNow -> Nat]
  BY <1>2 DEF InWindow, TenantUsage
<1>5. /\ Pruned(t) \in TenantUsage
      /\ Pruned(t).storage_used = UsageOf(t).storage_used
      /\ Pruned(t).object_count = UsageOf(t).object_count
  <2>1. CASE QuotaOf(t).rate_limit = 0
    BY <1>2, <2>1 DEF Pruned
  <2>2. CASE QuotaOf(t).rate_limit # 0
    <3>1. Pruned(t) = [UsageOf(t) EXCEPT !.request_times = InWindow(UsageOf(t).request_times)]
      BY <2>2 DEF Pruned
    <3> QED
      BY <1>2, <1>4, <3>1 DEF TenantUsage
  <2> QED
    BY <2>1, <2>2
<1> QED
  BY <1>2, <1>3, <1>5

\* A caller that is not idle works for a tenant, with an object of some size.
LEMMA CallTyped ==
    ASSUME QuotaTypeOK, NEW c \in Caller
    PROVE  /\ call[c].at # "idle" => call[c] \in CallState /\ call[c].tenant \in Tenant /\ call[c].bytes \in Size
           /\ \A state \in {"storage_ok", "admitted", "stored", "removed"} :
                call[c].at # "idle" =>
                  [call[c] EXCEPT !.at = state] = [at |-> state, tenant |-> call[c].tenant, bytes |-> call[c].bytes]
<1>1. call[c] \in {NoCall} \cup CallState
  BY DEF QuotaTypeOK, CallState
<1>2. NoCall.at = "idle"
  BY DEF NoCall
<1>3. call[c].at # "idle" => call[c] \in CallState
  BY <1>1, <1>2
<1> QED
  BY <1>3 DEF CallState

\* How a step may change what a caller does.
LEMMA GotoTyped ==
    ASSUME QuotaTypeOK, NEW c \in Caller, NEW state \in {NoCall} \cup CallState, Goto(c, state)
    PROVE  /\ call' \in [Caller -> {NoCall} \cup CallState]
           /\ call'[c] = state /\ \A d \in Caller \ {c} : call'[d] = call[d]
BY DEF Goto, QuotaTypeOK, CallState

\* One more request at a tick.
LEMMA CountedTyped ==
    ASSUME NEW times \in [0..MaxNow -> Nat], NEW n \in 0..MaxNow
    PROVE  /\ [times EXCEPT ![n] = @ + 1] \in [0..MaxNow -> Nat]
           /\ \A s \in 0..MaxNow : [times EXCEPT ![n] = @ + 1][s] = IF s = n THEN times[s] + 1 ELSE times[s]
<1>1. times[n] + 1 \in Nat
  OBVIOUS
<1> QED
  BY <1>1

\* The usage with other totals, or with other timestamps.
LEMMA UsageChanged ==
    ASSUME NEW u \in TenantUsage, NEW a \in Nat, NEW b \in Nat, NEW times \in [0..MaxNow -> Nat]
    PROVE  /\ [u EXCEPT !.storage_used = a, !.object_count = b] \in TenantUsage
           /\ [u EXCEPT !.request_times = times] \in TenantUsage
<1>1. u.storage_used \in Nat /\ u.object_count \in Nat /\ u.request_times \in [0..MaxNow -> Nat]
  BY DEF TenantUsage
<1>2. [u EXCEPT !.storage_used = a, !.object_count = b]
        = [storage_used |-> a, object_count |-> b, request_times |-> u.request_times]
  <2>1. [u EXCEPT !.storage_used = a]
          = [storage_used |-> a, object_count |-> u.object_count, request_times |-> u.request_times]
    BY DEF TenantUsage
  <2>2. [[storage_used |-> a, object_count |-> u.object_count, request_times |-> u.request_times]
            EXCEPT !.object_count = b]
          = [storage_used |-> a, object_count |-> b, request_times |-> u.request_times]
    OBVIOUS
  <2> QED
    BY <2>1, <2>2, Zenon
<1>3. [u EXCEPT !.request_times = times]
        = [storage_used |-> u.storage_used, object_count |-> u.object_count, request_times |-> times]
  BY DEF TenantUsage
<1> QED
  BY <1>1, <1>2, <1>3 DEF TenantUsage

\* QuotaManager: every field keeps its type; no total ever falls below zero.
THEOREM QuotaTypes == QuotaSpec => []QuotaTypeOK
<1>1. QuotaInit => QuotaTypeOK
  <2> SUFFICES ASSUME QuotaInit PROVE QuotaTypeOK
    OBVIOUS
  <2>1. live \in [Tenant -> [Size -> Nat]] /\ log \in [Tenant -> [0..MaxNow -> Nat]]
    BY DEF QuotaInit, Never
  <2> QED
    BY <2>1, QuotaAssumption, MaxNowAssumption DEF QuotaInit, QuotaTypeOK
<1>2. QuotaTypeOK /\ [QuotaNext]_quotaVars => QuotaTypeOK'
  <2> SUFFICES ASSUME QuotaTypeOK, [QuotaNext]_quotaVars PROVE QuotaTypeOK'
    OBVIOUS
  <2>0. call \in [Caller -> {NoCall} \cup CallState]
    BY DEF QuotaTypeOK, CallState
  <2>1. ASSUME NEW t \in Tenant, NEW q \in Quotas \cup {None}, SetQuota(t, q) PROVE QuotaTypeOK'
    <3>1. \A a, b \in Nat : Higher(a, b) \in Nat
      <4>1. \A a, b \in Nat : Max({a, b}) \in Nat
        <5> SUFFICES ASSUME NEW a \in Nat, NEW b \in Nat PROVE Max({a, b}) \in Nat
          OBVIOUS
        <5>1. \E x \in {a, b} : \A y \in {a, b} : x >= y
          OBVIOUS
        <5> QED
          BY <5>1 DEF Max
      <4> QED
        BY <4>1 DEF Higher
    <3>2. PICK f : f = IF q = None THEN DefaultQuota ELSE q
      OBVIOUS
    <3>3. f \in TenantQuota
      BY <3>2, QuotaAssumption
    <3>4. ceiling' = [ceiling EXCEPT ![t].storage_limit = Higher(@, f.storage_limit),
                                     ![t].object_limit = Higher(@, f.object_limit)]
      BY <2>1, <3>2 DEF SetQuota
    <3>5. ceiling' \in [Tenant -> TenantQuota]
      <4>1. ceiling \in [Tenant -> TenantQuota]
        BY DEF QuotaTypeOK
      <4>2. /\ f.storage_limit \in Nat /\ f.object_limit \in Nat
            /\ ceiling[t].storage_limit \in Nat /\ ceiling[t].object_limit \in Nat
        BY <3>3, <4>1 DEF TenantQuota
      <4> QED
        BY <3>1, <3>4, <4>1, <4>2 DEF TenantQuota
    <3>6. quotas' \in [Tenant -> Quotas \cup {None}] /\ UNCHANGED <<usage, now, call, live, log>>
      BY <2>1 DEF SetQuota, QuotaTypeOK
    <3> QED
      BY <3>5, <3>6 DEF QuotaTypeOK
  <2>2. ASSUME NEW c \in Caller, NEW state \in {NoCall} \cup CallState, Goto(c, state),
               UNCHANGED <<quotas, now, log, ceiling>>,
               usage' \in [Tenant -> TenantUsage \cup {None}], live' \in [Tenant -> [Size -> Nat]]
        PROVE  QuotaTypeOK'
    <3>1. call' \in [Caller -> {NoCall} \cup CallState]
      BY <2>2, GotoTyped
    <3> QED
      BY <2>2, <3>1 DEF QuotaTypeOK, CallState
  <2>3. usage \in [Tenant -> TenantUsage \cup {None}] /\ live \in [Tenant -> [Size -> Nat]]
    BY DEF QuotaTypeOK
  <2>4. ASSUME NEW c \in Caller, NEW t \in Tenant, NEW b \in Size, CheckStorage(c, t, b) PROVE QuotaTypeOK'
    <3>1. [at |-> "storage_ok", tenant |-> t, bytes |-> b] \in CallState
      BY DEF CallState
    <3> QED
      BY <2>2, <2>3, <2>4, <3>1 DEF CheckStorage
  <2>5. ASSUME NEW c \in Caller, NEW t \in Tenant, NEW b \in Size, Remove(c, t, b) PROVE QuotaTypeOK'
    <3>1. [at |-> "removed", tenant |-> t, bytes |-> b] \in CallState
      BY DEF CallState
    <3>2. live' \in [Tenant -> [Size -> Nat]]
      BY <2>3, <2>5 DEF Remove
    <3> QED
      BY <2>2, <2>3, <2>5, <3>1, <3>2 DEF Remove
  <2>6. ASSUME NEW c \in Caller, CheckObjects(c) PROVE QuotaTypeOK'
    <3>1. call[c].at = "storage_ok"
      BY <2>6 DEF CheckObjects
    <3>2. [call[c] EXCEPT !.at = "admitted"] \in CallState
      BY <3>1, CallTyped DEF CallState
    <3> QED
      BY <2>2, <2>3, <2>6, <3>2 DEF CheckObjects
  <2>7. ASSUME NEW c \in Caller, Store(c) PROVE QuotaTypeOK'
    <3>1. call[c].at = "admitted" /\ call[c].tenant \in Tenant /\ call[c].bytes \in Size
      BY <2>7, CallTyped DEF Store
    <3>2. [call[c] EXCEPT !.at = "stored"] \in CallState
      BY <3>1, CallTyped DEF CallState
    <3>3. live' \in [Tenant -> [Size -> Nat]]
      BY <2>3, <2>7, <3>1 DEF Store
    <3> QED
      BY <2>2, <2>3, <2>7, <3>2, <3>3 DEF Store
  <2>8. ASSUME NEW c \in Caller, RecordStorageAdd(c) PROVE QuotaTypeOK'
    <3>1. call[c].tenant \in Tenant /\ call[c].bytes \in Nat
      BY <2>8, CallTyped, SizeAssumption DEF RecordStorageAdd
    <3>2. PICK t \in Tenant : t = call[c].tenant
      BY <3>1
    <3>3. UsageOf(t) \in TenantUsage
      BY UsageTyped
    <3>4. [UsageOf(t) EXCEPT !.storage_used = @ + call[c].bytes, !.object_count = @ + 1] \in TenantUsage
      <4>1. UsageOf(t).storage_used + call[c].bytes \in Nat /\ UsageOf(t).object_count + 1 \in Nat
        BY <3>1, <3>3 DEF TenantUsage
      <4> QED
        BY <3>1, <3>3, <4>1, UsageChanged DEF TenantUsage
    <3>5. usage' \in [Tenant -> TenantUsage \cup {None}]
      BY <2>3, <2>8, <3>2, <3>4 DEF RecordStorageAdd
    <3> QED
      BY <2>2, <2>3, <2>8, <3>5 DEF RecordStorageAdd
  <2>9. ASSUME NEW c \in Caller, RecordStorageRemove(c) PROVE QuotaTypeOK'
    <3>1. call[c].tenant \in Tenant /\ call[c].bytes \in Nat
      BY <2>9, CallTyped, SizeAssumption DEF RecordStorageRemove
    <3>2. PICK t \in Tenant : t = call[c].tenant
      BY <3>1
    <3>3. CASE usage[t] = None
      BY <2>2, <2>3, <2>9, <3>2, <3>3 DEF RecordStorageRemove
    <3>4. CASE usage[t] # None
      <4>1. usage[t] \in TenantUsage
        BY <2>3, <3>4
      <4>2. usage' = [usage EXCEPT ![t].storage_used = saturating_sub(@, call[c].bytes),
                                   ![t].object_count = saturating_sub(@, 1)]
        BY <2>9, <3>2, <3>4 DEF RecordStorageRemove
      <4>3. \A a, b \in Nat : saturating_sub(a, b) \in Nat
        BY DEF saturating_sub
      <4>4. usage[t].storage_used \in Nat /\ usage[t].object_count \in Nat
        BY <4>1 DEF TenantUsage
      <4>5. usage' \in [Tenant -> TenantUsage \cup {None}]
        BY <2>3, <3>1, <4>1, <4>2, <4>3, <4>4 DEF TenantUsage
      <4> QED
        BY <2>2, <2>3, <2>9, <4>5 DEF RecordStorageRemove
    <3> QED
      BY <3>3, <3>4
  <2>10. ASSUME NEW t \in Tenant, RequestAllowed(t) PROVE QuotaTypeOK'
    <3>1. Pruned(t) \in TenantUsage /\ now \in 0..MaxNow /\ log \in [Tenant -> [0..MaxNow -> Nat]]
      BY UsageTyped DEF QuotaTypeOK
    <3>2. [Pruned(t) EXCEPT !.request_times[now] = @ + 1] \in TenantUsage
      <4>1. Pruned(t).request_times \in [0..MaxNow -> Nat]
        BY <3>1 DEF TenantUsage
      <4>2. [Pruned(t).request_times EXCEPT ![now] = @ + 1] \in [0..MaxNow -> Nat]
        BY <3>1, <4>1, CountedTyped
      <4> QED
        BY <3>1, <4>2, UsageChanged
    <3>3. usage' \in [Tenant -> TenantUsage \cup {None}]
      BY <2>3, <2>10, <3>2 DEF RequestAllowed
    <3>4. log' \in [Tenant -> [0..MaxNow -> Nat]]
      <4>1. log[t] \in [0..MaxNow -> Nat]
        BY <3>1
      <4>2. [log[t] EXCEPT ![now] = @ + 1] \in [0..MaxNow -> Nat]
        BY <3>1, <4>1, CountedTyped
      <4>3. log' = [log EXCEPT ![t] = [log[t] EXCEPT ![now] = @ + 1]]
        BY <2>10 DEF RequestAllowed
      <4> QED
        BY <3>1, <4>2, <4>3
    <3> QED
      BY <2>10, <3>3, <3>4 DEF RequestAllowed, QuotaTypeOK
  <2>11. ASSUME NEW t \in Tenant, RequestRefused(t) PROVE QuotaTypeOK'
    <3>1. usage' \in [Tenant -> TenantUsage \cup {None}]
      BY <2>3, <2>11, UsageTyped DEF RequestRefused
    <3> QED
      BY <2>11, <3>1 DEF RequestRefused, QuotaTypeOK
  <2>12. CASE QuotaTick
    BY <2>12, MaxNowAssumption DEF QuotaTick, QuotaTypeOK
  <2>13. CASE UNCHANGED quotaVars
    BY <2>13 DEF quotaVars, QuotaTypeOK
  <2> QED
    BY <2>1, <2>4, <2>5, <2>6, <2>7, <2>8, <2>9, <2>10, <2>11, <2>12, <2>13
       DEF QuotaNext, Configures, Stores, Calls, Requests
<1> QED
  BY <1>1, <1>2, PTL DEF QuotaSpec, QuotaTypeOK

----------------------------------------------------------------------------
(* Quotas: how far a limit can be exceeded *)

Others == Cardinality(Caller) - 1
Largest == Max(Size)

LEMMA CallersCount ==
    /\ Cardinality(Caller) \in Nat /\ Others \in Nat
    /\ \A P \in SUBSET Caller : IsFiniteSet(P) /\ Cardinality(P) \in Nat /\ Cardinality(P) <= Others + 1
<1>1. Cardinality(Caller) \in Nat /\ Cardinality(Caller) # 0
  BY CallerAssumption, FS_CardinalityType, FS_EmptySet
<1>2. \A P \in SUBSET Caller : IsFiniteSet(P) /\ Cardinality(P) \in Nat /\ Cardinality(P) <= Cardinality(Caller)
  BY CallerAssumption, FS_Subset, FS_CardinalityType
<1> QED
  BY <1>1, <1>2 DEF Others

LEMMA LargestSize == Largest \in Nat /\ \A b \in Size : b \in Nat /\ b <= Largest
<1>1. \E m \in Size : \A s \in Size : m >= s
  BY SizeAssumption
<1>2. Largest \in Size /\ \A s \in Size : Largest >= s
  BY <1>1 DEF Max, Largest
<1> QED
  BY <1>2, SizeAssumption

\* What the callers in P can still add to a total keeps within the limit and one object
\* for every other caller: either all of them may be as large as objects are, or all but
\* one, which was small enough when it was checked.
Fits(used, calls, P, limit) ==
    \/ used + Cardinality(P) * Largest <= limit + Others * Largest
    \/ \E c \in P : used + calls[c].bytes + (Cardinality(P) - 1) * Largest <= limit + Others * Largest

LEMMA TimesUp == \A i, j, m \in Nat : i <= j => i * m <= j * m
OBVIOUS

LEMMA NothingAdded == 0 + 0 <= 0 + 0 /\ \A i, j \in Nat : i + 0 + j + 0 <= i + 0 + j + 0
OBVIOUS

\* A caller whose object fits is checked.
LEMMA FitsEnter ==
    ASSUME NEW used \in Nat, NEW limit \in Nat, NEW calls, NEW P \in SUBSET Caller, NEW c \in P,
           calls[c].bytes \in Nat, used + calls[c].bytes <= limit
    PROVE  Fits(used, calls, P, limit)
<1> DEFINE k == Cardinality(P) - 1
<1>1. k \in Nat /\ k <= Others /\ Others \in Nat /\ Largest \in Nat
  <2>1. IsFiniteSet(P) /\ Cardinality(P) \in Nat /\ Cardinality(P) <= Others + 1 /\ Others \in Nat
    BY CallersCount
  <2>2. Cardinality(P) # 0
    BY <2>1, FS_EmptySet
  <2> QED
    BY <2>1, <2>2, LargestSize
<1> HIDE DEF k
<1>2. k * Largest <= Others * Largest /\ k * Largest \in Nat /\ Others * Largest \in Nat
  BY <1>1, TimesUp
<1>3. used + calls[c].bytes + k * Largest <= limit + Others * Largest
  BY <1>2
<1> QED
  BY <1>3 DEF Fits, k

\* A caller gives up or records its object.
LEMMA FitsLeave ==
    ASSUME NEW used \in Nat, NEW limit \in Nat, NEW calls, NEW later, NEW P \in SUBSET Caller, NEW c \in P,
           \A d \in P : calls[d].bytes \in Size, \A d \in P \ {c} : later[d].bytes = calls[d].bytes,
           Fits(used, calls, P, limit)
    PROVE  Fits(used, later, P \ {c}, limit) /\ Fits(used + calls[c].bytes, later, P \ {c}, limit)
<1> DEFINE k == Cardinality(P) - 1
           b == calls[c].bytes
           bound == limit + Others * Largest
           part == k * Largest
<1>1. /\ Cardinality(P \ {c}) = k /\ k \in Nat /\ Others \in Nat /\ Largest \in Nat
      /\ b \in Nat /\ b <= Largest
  <2>1. IsFiniteSet(P) /\ Cardinality(P) \in Nat /\ Others \in Nat
    BY CallersCount
  <2>2. Cardinality(P \ {c}) = Cardinality(P) - 1 /\ Cardinality(P) # 0
    BY <2>1, FS_RemoveElement, FS_EmptySet
  <2>3. Largest \in Nat /\ b \in Nat /\ b <= Largest
    BY LargestSize
  <2> QED
    BY <2>1, <2>2, <2>3
<1>2. part \in Nat /\ bound \in Nat
  BY <1>1
<1>3. (k + 1) * Largest = part + Largest /\ (k - 1) * Largest = part - Largest /\ k + 1 = Cardinality(P)
  <2>1. k + 1 = Cardinality(P) /\ Cardinality(P) \in Nat
    BY CallersCount
  <2> HIDE DEF k
  <2> QED
    BY <1>1, <2>1
<1>4. CASE used + Cardinality(P) * Largest <= bound
  <2>1. used + (part + Largest) <= bound
    BY <1>3, <1>4
  <2>2. used + part <= bound /\ used + b + part <= bound
    <3> HIDE DEF part, bound, b, k
    <3> QED
      BY <1>1, <1>2, <2>1
  <2> QED
    BY <1>1, <2>2 DEF Fits
<1>5. CASE \E d \in P : used + calls[d].bytes + (Cardinality(P) - 1) * Largest <= bound
  <2>1. PICK d \in P : used + calls[d].bytes + part <= bound
    BY <1>5
  <2>2. CASE d = c
    <3>1. used + b + part <= bound
      BY <2>1, <2>2
    <3>2. used + part <= bound
      <4> HIDE DEF part, bound, b, k
      <4> QED
        BY <1>1, <1>2, <3>1
    <3> QED
      BY <1>1, <3>1, <3>2 DEF Fits
  <2>3. CASE d # c
    <3>1. later[d].bytes = calls[d].bytes /\ calls[d].bytes \in Nat /\ d \in P \ {c}
      BY <2>3, LargestSize
    <3>2. used + later[d].bytes + (part - Largest) <= bound /\ used + b + later[d].bytes + (part - Largest) <= bound
      <4> HIDE DEF part, bound, b, k
      <4> QED
        BY <1>1, <1>2, <2>1, <3>1
    <3>3. /\ used + later[d].bytes + (Cardinality(P \ {c}) - 1) * Largest <= bound
          /\ used + b + later[d].bytes + (Cardinality(P \ {c}) - 1) * Largest <= bound
      BY <1>1, <1>3, <3>2
    <3> QED
      BY <3>1, <3>3 DEF Fits
  <2> QED
    BY <2>2, <2>3
<1> QED
  BY <1>4, <1>5 DEF Fits

\* Less is used, or the limit is raised.
LEMMA FitsLess ==
    ASSUME NEW used \in Nat, NEW less \in 0..used, NEW limit \in Nat, NEW more \in Nat, limit <= more,
           NEW calls, NEW later, NEW P \in SUBSET Caller,
           \A d \in P : calls[d].bytes \in Size, \A d \in P : later[d].bytes = calls[d].bytes,
           Fits(used, calls, P, limit)
    PROVE  Fits(less, later, P, more)
<1> DEFINE all == Cardinality(P) * Largest
           allButOne == (Cardinality(P) - 1) * Largest
           slack == Others * Largest
<1>1. all \in Int /\ allButOne \in Int /\ slack \in Int
  BY CallersCount, LargestSize
<1>2. CASE used + all <= limit + slack
  <2>1. less + all <= more + slack
    <3> HIDE DEF all, slack
    <3> QED
      BY <1>1, <1>2
  <2> QED
    BY <2>1 DEF Fits
<1>3. CASE \E d \in P : used + calls[d].bytes + allButOne <= limit + slack
  <2>1. PICK d \in P : used + calls[d].bytes + allButOne <= limit + slack
    BY <1>3
  <2>2. later[d].bytes = calls[d].bytes /\ calls[d].bytes \in Nat
    BY LargestSize
  <2>3. less + later[d].bytes + allButOne <= more + slack
    <3> HIDE DEF allButOne, slack
    <3> QED
      BY <1>1, <2>1, <2>2
  <2> QED
    BY <2>3 DEF Fits
<1> QED
  BY <1>2, <1>3 DEF Fits

\* Nothing more is used than the limit and one object for every other caller.
LEMMA FitsBound ==
    ASSUME NEW used \in Nat, NEW limit \in Nat, NEW calls, NEW P \in SUBSET Caller,
           \A d \in P : calls[d].bytes \in Size, Fits(used, calls, P, limit)
    PROVE  used - Others * Largest <= limit
<1> DEFINE all == Cardinality(P) * Largest
           allButOne == (Cardinality(P) - 1) * Largest
           slack == Others * Largest
<1>1. all \in Nat /\ slack \in Nat
  BY CallersCount, LargestSize
<1>2. CASE used + all <= limit + slack
  <2> HIDE DEF all, slack
  <2>1. used - slack <= limit
    BY <1>1, <1>2
  <2> QED
    BY <2>1 DEF slack
<1>3. CASE \E d \in P : used + calls[d].bytes + allButOne <= limit + slack
  <2>1. PICK d \in P : used + calls[d].bytes + allButOne <= limit + slack
    BY <1>3
  <2>2. calls[d].bytes \in Nat
    BY LargestSize
  <2>3. allButOne \in Nat
    <3>1. IsFiniteSet(P) /\ Cardinality(P) \in Nat /\ Cardinality(P) # 0
      BY CallersCount, FS_EmptySet
    <3> QED
      BY <3>1, LargestSize
  <2>4. used - slack <= limit
    <3> HIDE DEF allButOne, slack
    <3> QED
      BY <1>1, <2>1, <2>2, <2>3
  <2> QED
    BY <2>4
<1> QED
  BY <1>2, <1>3 DEF Fits

\* The callers of a tenant whose bytes, and whose object, are checked and not recorded.
Checked(t) == {c \in Caller : call[c].at \in {"storage_ok", "admitted", "stored"} /\ call[c].tenant = t}
Counted(t) == {c \in Caller : call[c].at \in {"admitted", "stored"} /\ call[c].tenant = t}

\* No quota in force is above the ceiling.
InForce(t) ==
    /\ ceiling[t].storage_limit # 0 =>
         QuotaOf(t).storage_limit # 0 /\ QuotaOf(t).storage_limit <= ceiling[t].storage_limit
    /\ ceiling[t].object_limit # 0 =>
         QuotaOf(t).object_limit # 0 /\ QuotaOf(t).object_limit <= ceiling[t].object_limit

StorageFits(t) ==
    ceiling[t].storage_limit # 0 =>
        Fits(UsageOf(t).storage_used, call, Checked(t), ceiling[t].storage_limit)

ObjectsFit(t) ==
    ceiling[t].object_limit # 0 =>
        UsageOf(t).object_count + Cardinality(Counted(t)) <= ceiling[t].object_limit + Others

TenantFits(t) == InForce(t) /\ StorageFits(t) /\ ObjectsFit(t)

QInv == QuotaTypeOK /\ \A t \in Tenant : TenantFits(t)

LEMMA FitTypes ==
    ASSUME QuotaTypeOK, NEW t \in Tenant
    PROVE  /\ UsageOf(t).storage_used \in Nat /\ UsageOf(t).object_count \in Nat
           /\ ceiling[t].storage_limit \in Nat /\ ceiling[t].object_limit \in Nat
           /\ QuotaOf(t).storage_limit \in Nat /\ QuotaOf(t).object_limit \in Nat
           /\ Checked(t) \in SUBSET Caller /\ Counted(t) \in SUBSET Caller
           /\ \A d \in Checked(t) : call[d].bytes \in Size
           /\ Cardinality(Counted(t)) \in Nat
<1>1. UsageOf(t).storage_used \in Nat /\ UsageOf(t).object_count \in Nat
  BY UsageTyped DEF TenantUsage
<1>2. QuotaOf(t).storage_limit \in Nat /\ QuotaOf(t).object_limit \in Nat
  BY UsageTyped DEF TenantQuota
<1>3. ceiling[t].storage_limit \in Nat /\ ceiling[t].object_limit \in Nat
  BY DEF QuotaTypeOK, TenantQuota
<1>4. Checked(t) \in SUBSET Caller /\ Counted(t) \in SUBSET Caller
  BY DEF Checked, Counted
<1>5. \A d \in Checked(t) : call[d].bytes \in Size
  BY CallTyped DEF Checked
<1>6. Cardinality(Counted(t)) \in Nat
  BY <1>4, CallersCount
<1> QED
  BY <1>1, <1>2, <1>3, <1>4, <1>5, <1>6

\* A step that checks nothing and records no object of the tenant.
LEMMA KeepsFit ==
    ASSUME QInv, NEW u \in Tenant, ceiling'[u] = ceiling[u], quotas'[u] = quotas[u],
           Checked(u)' = Checked(u), \A d \in Checked(u) : call'[d].bytes = call[d].bytes,
           Counted(u)' = Counted(u),
           UsageOf(u)'.storage_used \in 0..UsageOf(u).storage_used,
           UsageOf(u)'.object_count \in 0..UsageOf(u).object_count
    PROVE  TenantFits(u)'
<1>1. QuotaTypeOK /\ TenantFits(u)
  BY DEF QInv
<1>2. InForce(u)'
  BY <1>1 DEF TenantFits, InForce, QuotaOf
<1>3. StorageFits(u)'
  <2>1. CASE ceiling[u].storage_limit = 0
    BY <2>1 DEF StorageFits
  <2>2. CASE ceiling[u].storage_limit # 0
    <3>1. Fits(UsageOf(u).storage_used, call, Checked(u), ceiling[u].storage_limit)
      BY <1>1, <2>2 DEF TenantFits, StorageFits
    <3>2. Fits(UsageOf(u)'.storage_used, call', Checked(u), ceiling[u].storage_limit)
      <4>1. /\ UsageOf(u).storage_used \in Nat /\ ceiling[u].storage_limit \in Nat
            /\ Checked(u) \in SUBSET Caller /\ \A d \in Checked(u) : call[d].bytes \in Size
        BY <1>1, FitTypes
      <4>2. ceiling[u].storage_limit <= ceiling[u].storage_limit
        BY <4>1
      <4> QED
        BY <3>1, <4>1, <4>2, FitsLess
    <3> QED
      BY <3>2 DEF StorageFits
  <2> QED
    BY <2>1, <2>2
<1>4. ObjectsFit(u)'
  <2>1. /\ UsageOf(u).object_count \in Nat /\ ceiling[u].object_limit \in Nat
        /\ Cardinality(Counted(u)) \in Nat /\ Others \in Nat
    BY <1>1, FitTypes, CallersCount
  <2>2. ceiling[u].object_limit # 0 =>
          UsageOf(u).object_count + Cardinality(Counted(u)) <= ceiling[u].object_limit + Others
    BY <1>1 DEF TenantFits, ObjectsFit
  <2>3. ceiling[u].object_limit # 0 =>
          UsageOf(u)'.object_count + Cardinality(Counted(u)) <= ceiling[u].object_limit + Others
    BY <2>1, <2>2
  <2> QED
    BY <2>3 DEF ObjectsFit
<1> QED
  BY <1>2, <1>3, <1>4 DEF TenantFits

\* The callers of a tenant when one caller goes on.
LEMMA CallersAfter ==
    ASSUME QuotaTypeOK, NEW c \in Caller, NEW state \in {NoCall} \cup CallState, Goto(c, state), NEW u \in Tenant
    PROVE  /\ Checked(u)' = IF state.at \in {"storage_ok", "admitted", "stored"} /\ state.tenant = u
                            THEN Checked(u) \cup {c} ELSE Checked(u) \ {c}
           /\ Counted(u)' = IF state.at \in {"admitted", "stored"} /\ state.tenant = u
                            THEN Counted(u) \cup {c} ELSE Counted(u) \ {c}
           /\ call'[c] = state /\ \A d \in Caller \ {c} : call'[d] = call[d]
<1>1. call'[c] = state /\ \A d \in Caller \ {c} : call'[d] = call[d]
  BY GotoTyped
<1> QED
  BY <1>1 DEF Checked, Counted

LEMMA CallersAfterState ==
    ASSUME QuotaTypeOK, NEW c \in Caller, NEW state \in CallState, Goto(c, state), NEW u \in Tenant
    PROVE  /\ Checked(u)' = IF state.at \in {"storage_ok", "admitted", "stored"} /\ state.tenant = u
                            THEN Checked(u) \cup {c} ELSE Checked(u) \ {c}
           /\ Counted(u)' = IF state.at \in {"admitted", "stored"} /\ state.tenant = u
                            THEN Counted(u) \cup {c} ELSE Counted(u) \ {c}
           /\ call'[c] = state /\ \A d \in Caller \ {c} : call'[d] = call[d]
<1>1. state \in {NoCall} \cup CallState
  OBVIOUS
<1> QED
  BY <1>1, CallersAfter

LEMMA InitQInv == QuotaInit /\ QuotaTypeOK => QInv
<1> SUFFICES ASSUME QuotaInit, QuotaTypeOK PROVE QInv
  OBVIOUS
<1>1. ASSUME NEW t \in Tenant PROVE TenantFits(t)
  <2>1. quotas[t] = None /\ ceiling[t] = DefaultQuota /\ usage[t] = None
    BY DEF QuotaInit
  <2>2. /\ QuotaOf(t) = DefaultQuota
        /\ UsageOf(t).storage_used = 0 /\ UsageOf(t).object_count = 0
    BY <2>1 DEF QuotaOf, UsageOf, NoUsage
  <2>3. Checked(t) = {} /\ Counted(t) = {} /\ Cardinality({}) = 0
    BY FS_EmptySet DEF Checked, Counted, QuotaInit, NoCall
  <2>4. ceiling[t].storage_limit \in Nat /\ ceiling[t].object_limit \in Nat
    BY FitTypes
  <2>5. InForce(t)
    BY <2>1, <2>2, <2>4 DEF InForce
  <2>6. 0 * Largest = 0 /\ Others * Largest \in Nat /\ Others \in Nat
    BY CallersCount, LargestSize
  <2>7. StorageFits(t)
    BY <2>2, <2>3, <2>4, <2>6 DEF StorageFits, Fits
  <2>8. ObjectsFit(t)
    BY <2>2, <2>3, <2>4, <2>6 DEF ObjectsFit
  <2> QED
    BY <2>5, <2>7, <2>8 DEF TenantFits
<1> QED
  BY <1>1 DEF QInv

\* set_quota and remove_quota: the ceiling never sinks.
LEMMA SetQuotaFits ==
    ASSUME QInv, NEW t \in Tenant, NEW q \in Quotas \cup {None}, SetQuota(t, q), NEW u \in Tenant
    PROVE  TenantFits(u)'
<1>1. QuotaTypeOK /\ TenantFits(u)
  BY DEF QInv
<1>2. UNCHANGED <<usage, call>> /\ quotas' = [quotas EXCEPT ![t] = q]
  BY DEF SetQuota
<1>3. /\ Checked(u)' = Checked(u) /\ Counted(u)' = Counted(u) /\ UsageOf(u)' = UsageOf(u)
      /\ \A d \in Checked(u) : call'[d].bytes = call[d].bytes
  BY <1>2 DEF Checked, Counted, UsageOf
<1>4. /\ UsageOf(u).storage_used \in Nat /\ UsageOf(u).object_count \in Nat
      /\ ceiling[u].storage_limit \in Nat /\ ceiling[u].object_limit \in Nat
      /\ Checked(u) \in SUBSET Caller /\ \A d \in Checked(u) : call[d].bytes \in Size
      /\ Cardinality(Counted(u)) \in Nat /\ Others \in Nat
  BY <1>1, FitTypes, CallersCount
<1>5. PICK f \in TenantQuota : f = IF q = None THEN DefaultQuota ELSE q
  BY QuotaAssumption
<1>6. ceiling' = [ceiling EXCEPT ![t].storage_limit = Higher(@, f.storage_limit),
                                 ![t].object_limit = Higher(@, f.object_limit)]
  BY <1>5 DEF SetQuota
<1>7. ceiling \in [Tenant -> TenantQuota] /\ quotas \in [Tenant -> Quotas \cup {None}]
  BY <1>1 DEF QuotaTypeOK
<1>8. CASE u # t
  <2>1. ceiling'[u] = ceiling[u] /\ quotas'[u] = quotas[u]
    BY <1>2, <1>6, <1>7, <1>8
  <2>2. /\ UsageOf(u)'.storage_used \in 0..UsageOf(u).storage_used
        /\ UsageOf(u)'.object_count \in 0..UsageOf(u).object_count
    BY <1>3, <1>4
  <2> QED
    BY <1>3, <2>1, <2>2, KeepsFit
<1>9. CASE u = t
  <2>1. /\ ceiling'[u].storage_limit = Higher(ceiling[u].storage_limit, f.storage_limit)
        /\ ceiling'[u].object_limit = Higher(ceiling[u].object_limit, f.object_limit)
    BY <1>6, <1>7, <1>9 DEF TenantQuota
  <2>2. QuotaOf(u)' = f
    BY <1>2, <1>5, <1>7, <1>9 DEF QuotaOf
  <2>3. f.storage_limit \in Nat /\ f.object_limit \in Nat
    BY DEF TenantQuota
  <2>4. \A a, b \in Nat : Higher(a, b) # 0 =>
            a # 0 /\ b # 0 /\ Higher(a, b) \in Nat /\ a <= Higher(a, b) /\ b <= Higher(a, b)
    <3> SUFFICES ASSUME NEW a \in Nat, NEW b \in Nat
                 PROVE  Max({a, b}) \in Nat /\ a <= Max({a, b}) /\ b <= Max({a, b})
      BY DEF Higher
    <3>1. \E x \in {a, b} : \A y \in {a, b} : x >= y
      OBVIOUS
    <3>2. Max({a, b}) \in {a, b} /\ \A y \in {a, b} : Max({a, b}) >= y
      BY <3>1 DEF Max
    <3> QED
      BY <3>2
  <2>5. /\ ceiling'[u].storage_limit # 0 =>
             /\ ceiling[u].storage_limit # 0 /\ f.storage_limit # 0 /\ ceiling'[u].storage_limit \in Nat
             /\ ceiling[u].storage_limit <= ceiling'[u].storage_limit
             /\ f.storage_limit <= ceiling'[u].storage_limit
        /\ ceiling'[u].object_limit # 0 =>
             /\ ceiling[u].object_limit # 0 /\ f.object_limit # 0 /\ ceiling'[u].object_limit \in Nat
             /\ ceiling[u].object_limit <= ceiling'[u].object_limit
             /\ f.object_limit <= ceiling'[u].object_limit
    BY <1>4, <2>1, <2>3, <2>4
  <2>6. InForce(u)'
    BY <2>2, <2>5 DEF InForce
  <2>7. StorageFits(u)'
    <3>1. ASSUME ceiling'[u].storage_limit # 0
          PROVE  Fits(UsageOf(u).storage_used, call, Checked(u), ceiling'[u].storage_limit)
      <4>1. Fits(UsageOf(u).storage_used, call, Checked(u), ceiling[u].storage_limit)
        BY <1>1, <2>5, <3>1 DEF TenantFits, StorageFits
      <4>2. UsageOf(u).storage_used \in 0..UsageOf(u).storage_used
        BY <1>4
      <4> QED
        BY <1>4, <2>5, <3>1, <4>1, <4>2, FitsLess
    <3> QED
      BY <1>2, <1>3, <3>1 DEF StorageFits
  <2>8. ObjectsFit(u)'
    <3>1. ASSUME ceiling'[u].object_limit # 0
          PROVE  UsageOf(u).object_count + Cardinality(Counted(u)) <= ceiling'[u].object_limit + Others
      <4>1. UsageOf(u).object_count + Cardinality(Counted(u)) <= ceiling[u].object_limit + Others
        BY <1>1, <2>5, <3>1 DEF TenantFits, ObjectsFit
      <4> QED
        BY <1>4, <2>5, <3>1, <4>1
    <3> QED
      BY <1>3, <3>1 DEF ObjectsFit
  <2> QED
    BY <2>6, <2>7, <2>8 DEF TenantFits
<1> QED
  BY <1>8, <1>9

\* check_storage: the object fits beside what is recorded.
LEMMA CheckStorageFits ==
    ASSUME QInv, NEW c \in Caller, NEW t \in Tenant, NEW b \in Size, CheckStorage(c, t, b), NEW u \in Tenant
    PROVE  TenantFits(u)'
<1> DEFINE state == [at |-> "storage_ok", tenant |-> t, bytes |-> b]
<1>1. QuotaTypeOK /\ TenantFits(u) /\ state \in CallState /\ Goto(c, state)
  BY DEF QInv, CallState, CheckStorage
<1>2. /\ Checked(u)' = IF t = u THEN Checked(u) \cup {c} ELSE Checked(u) \ {c}
      /\ Counted(u)' = Counted(u) \ {c}
      /\ call'[c] = state /\ \A d \in Caller \ {c} : call'[d] = call[d]
  BY <1>1, CallersAfter
<1>3. call[c].at = "idle" /\ UNCHANGED <<quotas, usage, ceiling>>
  BY DEF CheckStorage
<1>4. c \notin Checked(u) /\ c \notin Counted(u) /\ Checked(u) \in SUBSET Caller
  BY <1>3 DEF Checked, Counted
<1>5. /\ UsageOf(u).storage_used \in Nat /\ UsageOf(u).object_count \in Nat
      /\ ceiling[u].storage_limit \in Nat /\ QuotaOf(u).storage_limit \in Nat
  BY <1>1, FitTypes
<1>6. UsageOf(u)' = UsageOf(u) /\ Counted(u)' = Counted(u)
  BY <1>2, <1>3, <1>4 DEF UsageOf
<1>7. CASE t # u
  <2>1. Checked(u)' = Checked(u) /\ \A d \in Checked(u) : call'[d].bytes = call[d].bytes
    BY <1>2, <1>4, <1>7
  <2>2. /\ UsageOf(u)'.storage_used \in 0..UsageOf(u).storage_used
        /\ UsageOf(u)'.object_count \in 0..UsageOf(u).object_count
    BY <1>5, <1>6
  <2> QED
    BY <1>3, <1>6, <2>1, <2>2, KeepsFit
<1>8. CASE t = u
  <2>1. Checked(u)' = Checked(u) \cup {c} /\ call'[c].bytes = b /\ b \in Nat
    BY <1>2, <1>8, SizeAssumption
  <2>2. ASSUME ceiling[u].storage_limit # 0
        PROVE  Fits(UsageOf(u).storage_used, call', Checked(u) \cup {c}, ceiling[u].storage_limit)
    <3>1. QuotaOf(u).storage_limit # 0 /\ QuotaOf(u).storage_limit <= ceiling[u].storage_limit
      BY <1>1, <2>2 DEF TenantFits, InForce
    <3>2. UsageOf(u).storage_used + b <= QuotaOf(u).storage_limit
      BY <1>8, <3>1 DEF CheckStorage, check_storage, Within
    <3>3. UsageOf(u).storage_used + call'[c].bytes <= ceiling[u].storage_limit
      BY <1>5, <2>1, <3>1, <3>2
    <3>4. Checked(u) \cup {c} \in SUBSET Caller /\ c \in Checked(u) \cup {c}
      BY <1>4
    <3> QED
      BY <1>5, <2>1, <3>3, <3>4, FitsEnter
  <2>3. StorageFits(u)'
    BY <1>3, <1>6, <2>1, <2>2 DEF StorageFits
  <2>4. InForce(u)' /\ ObjectsFit(u)'
    BY <1>1, <1>3, <1>6 DEF TenantFits, InForce, ObjectsFit, QuotaOf
  <2> QED
    BY <2>3, <2>4 DEF TenantFits
<1> QED
  BY <1>7, <1>8

\* check_objects: one more object is within the limit, or the caller gives up.
LEMMA CheckObjectsFits ==
    ASSUME QInv, NEW c \in Caller, CheckObjects(c), NEW u \in Tenant
    PROVE  TenantFits(u)'
<1>1. QuotaTypeOK /\ TenantFits(u) /\ call[c].at = "storage_ok" /\ UNCHANGED <<quotas, usage, ceiling>>
  BY DEF QInv, CheckObjects
<1>2. PICK t \in Tenant, b \in Size : t = call[c].tenant /\ b = call[c].bytes
  BY <1>1, CallTyped
<1>3. c \notin Counted(u) /\ (c \in Checked(u) <=> t = u) /\ Checked(u) \in SUBSET Caller /\ Counted(u) \in SUBSET Caller
  BY <1>1, <1>2 DEF Checked, Counted
<1>4. /\ UsageOf(u).storage_used \in Nat /\ UsageOf(u).object_count \in Nat
      /\ ceiling[u].storage_limit \in Nat /\ ceiling[u].object_limit \in Nat /\ QuotaOf(u).object_limit \in Nat
      /\ \A d \in Checked(u) : call[d].bytes \in Size
  BY <1>1, FitTypes
<1>5. UsageOf(u)' = UsageOf(u) /\ QuotaOf(u)' = QuotaOf(u)
  BY <1>1 DEF UsageOf, QuotaOf
<1>6. /\ UsageOf(u)'.storage_used \in 0..UsageOf(u).storage_used
      /\ UsageOf(u)'.object_count \in 0..UsageOf(u).object_count
  BY <1>4, <1>5
<1>7. CASE check_objects(t)
  <2> DEFINE state == [at |-> "admitted", tenant |-> t, bytes |-> b]
  <2>1. state \in CallState /\ Goto(c, state)
    <3>1. [call[c] EXCEPT !.at = "admitted"] = state
      BY <1>1, <1>2, CallTyped
    <3> QED
      BY <1>2, <1>7, <3>1 DEF CallState, CheckObjects
  <2>2. /\ Checked(u)' = IF t = u THEN Checked(u) \cup {c} ELSE Checked(u) \ {c}
        /\ Counted(u)' = IF t = u THEN Counted(u) \cup {c} ELSE Counted(u) \ {c}
        /\ call'[c] = state /\ \A d \in Caller \ {c} : call'[d] = call[d]
    <3>1. state.at = "admitted" /\ state.tenant = t
      OBVIOUS
    <3> HIDE DEF state
    <3>2. /\ Checked(u)' = IF state.at \in {"storage_ok", "admitted", "stored"} /\ state.tenant = u
                           THEN Checked(u) \cup {c} ELSE Checked(u) \ {c}
          /\ Counted(u)' = IF state.at \in {"admitted", "stored"} /\ state.tenant = u
                           THEN Counted(u) \cup {c} ELSE Counted(u) \ {c}
          /\ call'[c] = state /\ \A d \in Caller \ {c} : call'[d] = call[d]
      BY <1>1, <2>1, CallersAfterState, Zenon
    <3> QED
      BY <3>1, <3>2
  <2>3. Checked(u)' = Checked(u) /\ \A d \in Checked(u) : call'[d].bytes = call[d].bytes
    <3>1. call'[c].bytes = call[c].bytes
      BY <1>2, <2>2
    <3> QED
      BY <1>3, <2>2, <3>1
  <2>4. CASE t # u
    <3>1. Counted(u)' = Counted(u)
      BY <1>3, <2>2, <2>4
    <3> QED
      BY <1>1, <1>6, <2>3, <3>1, KeepsFit
  <2>5. CASE t = u
    <3>1. ASSUME ceiling[u].object_limit # 0
          PROVE  UsageOf(u).object_count + Cardinality(Counted(u) \cup {c}) <= ceiling[u].object_limit + Others
      <4>1. QuotaOf(u).object_limit # 0 /\ QuotaOf(u).object_limit <= ceiling[u].object_limit
        BY <1>1, <3>1 DEF TenantFits, InForce
      <4>2. UsageOf(u).object_count + 1 <= QuotaOf(u).object_limit
        BY <1>7, <2>5, <4>1 DEF check_objects, Within
      <4>3. Counted(u) \cup {c} \in SUBSET Caller
        BY <1>3
      <4>4. Cardinality(Counted(u) \cup {c}) \in Nat /\ Cardinality(Counted(u) \cup {c}) <= Others + 1 /\ Others \in Nat
        BY <4>3, CallersCount
      <4> QED
        BY <1>4, <4>1, <4>2, <4>4
    <3>2. ObjectsFit(u)'
      BY <1>1, <1>5, <2>2, <2>5, <3>1 DEF ObjectsFit
    <3>3. InForce(u)'
      BY <1>1, <1>5 DEF TenantFits, InForce
    <3>4. ASSUME ceiling[u].storage_limit # 0
          PROVE  Fits(UsageOf(u).storage_used, call', Checked(u), ceiling[u].storage_limit)
      <4>1. Fits(UsageOf(u).storage_used, call, Checked(u), ceiling[u].storage_limit)
        BY <1>1, <3>4 DEF TenantFits, StorageFits
      <4>2. UsageOf(u).storage_used \in 0..UsageOf(u).storage_used /\ ceiling[u].storage_limit <= ceiling[u].storage_limit
        BY <1>4
      <4> QED
        BY <1>3, <1>4, <2>3, <4>1, <4>2, FitsLess
    <3>5. StorageFits(u)'
      BY <1>1, <1>5, <2>3, <3>4 DEF StorageFits
    <3> QED
      BY <3>2, <3>3, <3>5 DEF TenantFits
  <2> QED
    BY <2>4, <2>5
<1>8. CASE ~check_objects(t)
  <2>1. Goto(c, NoCall) /\ NoCall.at = "idle"
    BY <1>2, <1>8 DEF CheckObjects, NoCall
  <2>2. /\ Checked(u)' = Checked(u) \ {c} /\ Counted(u)' = Counted(u) \ {c}
        /\ \A d \in Caller \ {c} : call'[d] = call[d]
    BY <1>1, <2>1, CallersAfter
  <2>3. Counted(u)' = Counted(u)
    BY <1>3, <2>2
  <2>4. CASE t # u
    <3>1. Checked(u)' = Checked(u) /\ \A d \in Checked(u) : call'[d].bytes = call[d].bytes
      BY <1>3, <2>2, <2>4
    <3> QED
      BY <1>1, <1>6, <2>3, <3>1, KeepsFit
  <2>5. CASE t = u
    <3>1. ASSUME ceiling[u].storage_limit # 0
          PROVE  Fits(UsageOf(u).storage_used, call', Checked(u) \ {c}, ceiling[u].storage_limit)
      <4>1. Fits(UsageOf(u).storage_used, call, Checked(u), ceiling[u].storage_limit)
        BY <1>1, <3>1 DEF TenantFits, StorageFits
      <4>2. c \in Checked(u) /\ \A d \in Checked(u) \ {c} : call'[d].bytes = call[d].bytes
        BY <1>3, <2>2, <2>5
      <4> QED
        BY <1>3, <1>4, <4>1, <4>2, FitsLeave
    <3>2. StorageFits(u)'
      BY <1>1, <1>5, <2>2, <3>1 DEF StorageFits
    <3>3. InForce(u)' /\ ObjectsFit(u)'
      BY <1>1, <1>5, <2>3 DEF TenantFits, InForce, ObjectsFit
    <3> QED
      BY <3>2, <3>3 DEF TenantFits
  <2> QED
    BY <2>4, <2>5
<1> QED
  BY <1>7, <1>8

\* record_storage_add: what it adds to the totals.
LEMMA RecordAddTotals ==
    ASSUME QuotaTypeOK, NEW c \in Caller, RecordStorageAdd(c), NEW u \in Tenant
    PROVE  IF u = call[c].tenant
           THEN /\ UsageOf(u)'.storage_used = UsageOf(u).storage_used + call[c].bytes
                /\ UsageOf(u)'.object_count = UsageOf(u).object_count + 1
           ELSE UsageOf(u)' = UsageOf(u)
<1>0. PICK t \in Tenant, b \in Size : t = call[c].tenant /\ b = call[c].bytes
  BY CallTyped DEF RecordStorageAdd
<1>1. PICK r : r = [UsageOf(t) EXCEPT !.storage_used = @ + b, !.object_count = @ + 1]
  OBVIOUS
<1>2. usage' = [usage EXCEPT ![t] = r] /\ usage \in [Tenant -> TenantUsage \cup {None}]
  BY <1>0, <1>1 DEF RecordStorageAdd, QuotaTypeOK
<1>3. UsageOf(t) \in TenantUsage
  BY UsageTyped
<1>4. r \in TenantUsage
  <2>1. UsageOf(t).storage_used + b \in Nat /\ UsageOf(t).object_count + 1 \in Nat
    BY <1>3, SizeAssumption DEF TenantUsage
  <2> QED
    BY <1>1, <1>3, <2>1, UsageChanged DEF TenantUsage
<1>5. r.storage_used = UsageOf(t).storage_used + b /\ r.object_count = UsageOf(t).object_count + 1
  BY <1>1, <1>3 DEF TenantUsage
<1>6. CASE u # t
  BY <1>0, <1>2, <1>6 DEF UsageOf
<1>7. CASE u = t
  <2>1. usage'[u] = r /\ r # None
    BY <1>2, <1>4, <1>7, NoQuotaAssumption
  <2>2. UsageOf(u)' = r
    BY <2>1 DEF UsageOf
  <2> QED
    BY <1>0, <1>5, <1>7, <2>2
<1> QED
  BY <1>6, <1>7

\* record_storage_add: what was in flight is recorded.
LEMMA RecordAddFits ==
    ASSUME QInv, NEW c \in Caller, RecordStorageAdd(c), NEW u \in Tenant
    PROVE  TenantFits(u)'
<1>1. QuotaTypeOK /\ TenantFits(u) /\ call[c].at = "stored" /\ UNCHANGED <<quotas, ceiling>> /\ Goto(c, NoCall)
  BY DEF QInv, RecordStorageAdd
<1>2. PICK t \in Tenant, b \in Size : t = call[c].tenant /\ b = call[c].bytes
  BY <1>1, CallTyped
<1>3. (c \in Counted(u) <=> t = u) /\ (c \in Checked(u) <=> t = u) /\ Checked(u) \in SUBSET Caller /\ Counted(u) \in SUBSET Caller
  BY <1>1, <1>2 DEF Checked, Counted
<1>4. /\ UsageOf(u).storage_used \in Nat /\ UsageOf(u).object_count \in Nat
      /\ ceiling[u].storage_limit \in Nat /\ ceiling[u].object_limit \in Nat
      /\ \A d \in Checked(u) : call[d].bytes \in Size
      /\ Cardinality(Counted(u)) \in Nat /\ Others \in Nat
  BY <1>1, FitTypes, CallersCount
<1>5. /\ Checked(u)' = Checked(u) \ {c} /\ Counted(u)' = Counted(u) \ {c}
      /\ \A d \in Caller \ {c} : call'[d] = call[d]
  <2>1. NoCall.at = "idle"
    BY DEF NoCall
  <2> QED
    BY <1>1, <2>1, CallersAfter
<1>6. IF u = t THEN /\ UsageOf(u)'.storage_used = UsageOf(u).storage_used + b
                     /\ UsageOf(u)'.object_count = UsageOf(u).object_count + 1
      ELSE UsageOf(u)' = UsageOf(u)
  <2>1. IF u = call[c].tenant
        THEN /\ UsageOf(u)'.storage_used = UsageOf(u).storage_used + call[c].bytes
             /\ UsageOf(u)'.object_count = UsageOf(u).object_count + 1
        ELSE UsageOf(u)' = UsageOf(u)
    BY <1>1, RecordAddTotals, Zenon
  <2> QED
    BY <1>2, <2>1
<1>7. CASE t # u
  <2>1. Checked(u)' = Checked(u) /\ Counted(u)' = Counted(u) /\ \A d \in Checked(u) : call'[d].bytes = call[d].bytes
    BY <1>3, <1>5, <1>7
  <2>2. UsageOf(u)' = UsageOf(u)
    BY <1>6, <1>7
  <2>3. /\ UsageOf(u)'.storage_used \in 0..UsageOf(u).storage_used
        /\ UsageOf(u)'.object_count \in 0..UsageOf(u).object_count
    BY <1>4, <2>2
  <2> QED
    BY <1>1, <2>1, <2>3, KeepsFit
<1>8. CASE t = u
  <2>1. /\ UsageOf(u)'.storage_used = UsageOf(u).storage_used + call[c].bytes
        /\ UsageOf(u)'.object_count = UsageOf(u).object_count + 1
    BY <1>2, <1>6, <1>8
  <2>2. ASSUME ceiling[u].storage_limit # 0
        PROVE  Fits(UsageOf(u)'.storage_used, call', Checked(u) \ {c}, ceiling[u].storage_limit)
    <3>1. Fits(UsageOf(u).storage_used, call, Checked(u), ceiling[u].storage_limit)
      BY <1>1, <2>2 DEF TenantFits, StorageFits
    <3>2. c \in Checked(u) /\ \A d \in Checked(u) \ {c} : call'[d].bytes = call[d].bytes
      BY <1>3, <1>5, <1>8
    <3>3. Fits(UsageOf(u).storage_used + call[c].bytes, call', Checked(u) \ {c}, ceiling[u].storage_limit)
      BY <1>3, <1>4, <3>1, <3>2, FitsLeave
    <3> QED
      BY <2>1, <3>3
  <2>3. StorageFits(u)'
    BY <1>1, <1>5, <2>2 DEF StorageFits
  <2>4. ASSUME ceiling[u].object_limit # 0
        PROVE  UsageOf(u)'.object_count + Cardinality(Counted(u) \ {c}) <= ceiling[u].object_limit + Others
    <3>1. UsageOf(u).object_count + Cardinality(Counted(u)) <= ceiling[u].object_limit + Others
      BY <1>1, <2>4 DEF TenantFits, ObjectsFit
    <3>2. Cardinality(Counted(u) \ {c}) = Cardinality(Counted(u)) - 1
      <4>1. IsFiniteSet(Counted(u)) /\ c \in Counted(u)
        BY <1>3, <1>8, CallersCount
      <4> QED
        BY <4>1, FS_RemoveElement
    <3> QED
      BY <1>4, <2>1, <3>1, <3>2
  <2>5. ObjectsFit(u)'
    BY <1>1, <1>5, <2>4 DEF ObjectsFit
  <2>6. InForce(u)'
    BY <1>1 DEF TenantFits, InForce, QuotaOf
  <2> QED
    BY <2>3, <2>5, <2>6 DEF TenantFits
<1> QED
  BY <1>7, <1>8

\* record_storage_remove: what it takes off the totals.
LEMMA RecordRemoveTotals ==
    ASSUME QuotaTypeOK, NEW c \in Caller, RecordStorageRemove(c), NEW u \in Tenant
    PROVE  IF u = call[c].tenant
           THEN /\ UsageOf(u)'.storage_used = saturating_sub(UsageOf(u).storage_used, call[c].bytes)
                /\ UsageOf(u)'.object_count = saturating_sub(UsageOf(u).object_count, 1)
           ELSE UsageOf(u)' = UsageOf(u)
<1>0. PICK t \in Tenant, b \in Size : t = call[c].tenant /\ b = call[c].bytes
  BY CallTyped DEF RecordStorageRemove
<1>1. usage \in [Tenant -> TenantUsage \cup {None}] /\ b \in Nat
  BY SizeAssumption DEF QuotaTypeOK
<1>2. \A a, s \in Nat : saturating_sub(a, s) \in Nat
  BY DEF saturating_sub
<1>3. CASE usage[t] = None
  <2>1. UsageOf(u)' = UsageOf(u)
    BY <1>0, <1>3 DEF RecordStorageRemove, UsageOf
  <2>2. u = t => UsageOf(u).storage_used = 0 /\ UsageOf(u).object_count = 0
    BY <1>3 DEF UsageOf, NoUsage
  <2>3. saturating_sub(0, b) = 0 /\ saturating_sub(0, 1) = 0
    BY <1>1 DEF saturating_sub
  <2> QED
    BY <1>0, <2>1, <2>2, <2>3
<1>4. CASE usage[t] # None
  <2>1. PICK x \in TenantUsage : x = usage[t]
    BY <1>1, <1>4
  <2>2. usage' = [usage EXCEPT ![t].storage_used = saturating_sub(@, b),
                               ![t].object_count = saturating_sub(@, 1)]
    BY <1>0, <1>4 DEF RecordStorageRemove
  <2>3. PICK r : r = [x EXCEPT !.storage_used = saturating_sub(x.storage_used, b),
                               !.object_count = saturating_sub(x.object_count, 1)]
    OBVIOUS
  <2>4. x.storage_used \in Nat /\ x.object_count \in Nat
    BY DEF TenantUsage
  <2>5. /\ saturating_sub(x.storage_used, b) \in Nat
        /\ saturating_sub(x.object_count, 1) \in Nat
    BY <1>1, <1>2, <2>4
  <2>6. r \in TenantUsage
    <3>1. x.request_times \in [0..MaxNow -> Nat]
      BY DEF TenantUsage
    <3> QED
      BY <2>3, <2>5, <3>1, UsageChanged
  <2>7. /\ r.storage_used = saturating_sub(x.storage_used, b)
        /\ r.object_count = saturating_sub(x.object_count, 1)
    BY <2>3 DEF TenantUsage
  <2>8. usage'[t] = r
    BY <1>1, <2>1, <2>2, <2>3 DEF TenantUsage
  <2>9. CASE u = t
    <3>1. r # None /\ UsageOf(u) = x
      BY <1>4, <2>1, <2>6, <2>9, NoQuotaAssumption DEF UsageOf
    <3>2. UsageOf(u)' = r
      BY <2>8, <2>9, <3>1 DEF UsageOf
    <3> QED
      BY <1>0, <2>7, <2>9, <3>1, <3>2
  <2>10. CASE u # t
    <3>1. usage'[u] = usage[u]
      BY <1>1, <2>2, <2>10
    <3> QED
      BY <1>0, <2>10, <3>1 DEF UsageOf
  <2> QED
    BY <2>9, <2>10
<1> QED
  BY <1>3, <1>4

\* The caller of store stays checked and counted.
LEMMA StoreCallers ==
    ASSUME QuotaTypeOK, NEW c \in Caller, NEW u \in Tenant, Store(c)
    PROVE  /\ Checked(u)' = Checked(u) /\ Counted(u)' = Counted(u)
           /\ \A d \in Checked(u) : call'[d].bytes = call[d].bytes
<1>1. call[c].at = "admitted" /\ call[c].tenant \in Tenant /\ call[c].bytes \in Size
  BY CallTyped DEF Store
<1>2. PICK v \in Tenant, s \in Size : v = call[c].tenant /\ s = call[c].bytes
  BY <1>1
<1> DEFINE state == [at |-> "stored", tenant |-> v, bytes |-> s]
<1>3. state \in CallState /\ Goto(c, state)
  <2>1. [call[c] EXCEPT !.at = "stored"] = state
    BY <1>1, <1>2, CallTyped
  <2> QED
    BY <2>1 DEF CallState, Store
<1>4. /\ Checked(u)' = IF v = u THEN Checked(u) \cup {c} ELSE Checked(u) \ {c}
      /\ Counted(u)' = IF v = u THEN Counted(u) \cup {c} ELSE Counted(u) \ {c}
      /\ call'[c] = state /\ \A d \in Caller \ {c} : call'[d] = call[d]
  <2>1. state.at = "stored" /\ state.tenant = v
    OBVIOUS
  <2> HIDE DEF state
  <2>2. /\ Checked(u)' = IF state.at \in {"storage_ok", "admitted", "stored"} /\ state.tenant = u
                         THEN Checked(u) \cup {c} ELSE Checked(u) \ {c}
        /\ Counted(u)' = IF state.at \in {"admitted", "stored"} /\ state.tenant = u
                         THEN Counted(u) \cup {c} ELSE Counted(u) \ {c}
        /\ call'[c] = state /\ \A d \in Caller \ {c} : call'[d] = call[d]
    BY <1>3, CallersAfterState
  <2> QED
    BY <2>1, <2>2
<1>5. (c \in Checked(u) <=> v = u) /\ (c \in Counted(u) <=> v = u) /\ Checked(u) \in SUBSET Caller
  BY <1>1, <1>2 DEF Checked, Counted
<1>6. call'[c].bytes = call[c].bytes
  <2>1. state.bytes = s
    OBVIOUS
  <2>2. call'[c] = state
    BY <1>4
  <2> HIDE DEF state
  <2> QED
    BY <1>2, <2>1, <2>2
<1> QED
  BY <1>4, <1>5, <1>6

\* The caller of a step that neither checks nor records an add: store, remove and
\* record_storage_remove.
LEMMA OtherCallsFit ==
    ASSUME QInv, NEW c \in Caller, NEW t \in Tenant, NEW b \in Size, NEW u \in Tenant,
           Store(c) \/ Remove(c, t, b) \/ RecordStorageRemove(c)
    PROVE  TenantFits(u)'
<1>1. QuotaTypeOK /\ UNCHANGED <<quotas, ceiling>> /\ NoCall.at = "idle"
  BY DEF QInv, Store, Remove, RecordStorageRemove, NoCall
<1>2. UsageOf(u).storage_used \in Nat /\ UsageOf(u).object_count \in Nat
  BY <1>1, FitTypes
<1>3. /\ Checked(u)' = Checked(u) /\ Counted(u)' = Counted(u)
      /\ \A d \in Checked(u) : call'[d].bytes = call[d].bytes
  <2>1. CASE Store(c)
    BY <1>1, <2>1, StoreCallers
  <2>2. CASE Remove(c, t, b)
    <3> DEFINE state == [at |-> "removed", tenant |-> t, bytes |-> b]
    <3>1. state \in CallState /\ Goto(c, state) /\ call[c].at = "idle"
      BY <2>2 DEF CallState, Remove
    <3>2. /\ Checked(u)' = Checked(u) \ {c} /\ Counted(u)' = Counted(u) \ {c}
          /\ \A d \in Caller \ {c} : call'[d] = call[d]
      BY <1>1, <3>1, CallersAfter
    <3>3. c \notin Checked(u) /\ c \notin Counted(u) /\ Checked(u) \in SUBSET Caller
      BY <3>1 DEF Checked, Counted
    <3> QED
      BY <3>2, <3>3
  <2>3. CASE RecordStorageRemove(c)
    <3>1. Goto(c, NoCall) /\ call[c].at = "removed"
      BY <2>3 DEF RecordStorageRemove
    <3>2. /\ Checked(u)' = Checked(u) \ {c} /\ Counted(u)' = Counted(u) \ {c}
          /\ \A d \in Caller \ {c} : call'[d] = call[d]
      BY <1>1, <3>1, CallersAfter
    <3>3. c \notin Checked(u) /\ c \notin Counted(u) /\ Checked(u) \in SUBSET Caller
      BY <3>1 DEF Checked, Counted
    <3> QED
      BY <3>2, <3>3
  <2> QED
    BY <2>1, <2>2, <2>3
<1>4. /\ UsageOf(u)'.storage_used \in 0..UsageOf(u).storage_used
      /\ UsageOf(u)'.object_count \in 0..UsageOf(u).object_count
  <2>1. CASE UsageOf(u)' = UsageOf(u)
    BY <1>2, <2>1
  <2>2. CASE Store(c) \/ Remove(c, t, b)
    BY <2>1, <2>2 DEF Store, Remove, UsageOf
  <2>3. CASE RecordStorageRemove(c)
    <3>1. PICK v \in Tenant, s \in Size : v = call[c].tenant /\ s = call[c].bytes
      BY <1>1, <2>3, CallTyped DEF RecordStorageRemove
    <3>2. IF u = v THEN /\ UsageOf(u)'.storage_used = saturating_sub(UsageOf(u).storage_used, s)
                        /\ UsageOf(u)'.object_count = saturating_sub(UsageOf(u).object_count, 1)
          ELSE UsageOf(u)' = UsageOf(u)
      <4>1. IF u = call[c].tenant
            THEN /\ UsageOf(u)'.storage_used = saturating_sub(UsageOf(u).storage_used, call[c].bytes)
                 /\ UsageOf(u)'.object_count = saturating_sub(UsageOf(u).object_count, 1)
            ELSE UsageOf(u)' = UsageOf(u)
        BY <1>1, <2>3, RecordRemoveTotals, Zenon
      <4> QED
        BY <3>1, <4>1
    <3>3. \A x, y \in Nat : saturating_sub(x, y) \in 0..x
      BY DEF saturating_sub
    <3>4. s \in Nat /\ 1 \in Nat
      BY SizeAssumption
    <3>5. CASE u = v
      BY <1>2, <3>2, <3>3, <3>4, <3>5
    <3> QED
      BY <2>1, <3>2, <3>5
  <2> QED
    BY <2>2, <2>3
<1> QED
  BY <1>1, <1>3, <1>4, KeepsFit

\* check_and_record_request leaves the totals alone, and time changes nothing.
LEMMA RequestTotals ==
    ASSUME QuotaTypeOK, NEW u \in Tenant,
           \/ \E t \in Tenant : RequestAllowed(t) \/ RequestRefused(t)
           \/ QuotaTick
           \/ UNCHANGED quotaVars
    PROVE  /\ UNCHANGED <<quotas, ceiling, call, live>>
           /\ UsageOf(u)'.storage_used = UsageOf(u).storage_used
           /\ UsageOf(u)'.object_count = UsageOf(u).object_count
<1>1. UNCHANGED <<quotas, ceiling, call, live>>
  BY DEF RequestAllowed, RequestRefused, QuotaTick, quotaVars
<1>2. usage \in [Tenant -> TenantUsage \cup {None}]
  BY DEF QuotaTypeOK
<1>3. ASSUME NEW r \in TenantUsage, usage' = [usage EXCEPT ![u] = r],
             r.storage_used = UsageOf(u).storage_used, r.object_count = UsageOf(u).object_count
      PROVE  /\ UsageOf(u)'.storage_used = UsageOf(u).storage_used
             /\ UsageOf(u)'.object_count = UsageOf(u).object_count
  <2>1. usage'[u] = r /\ r # None
    BY <1>2, <1>3, NoQuotaAssumption
  <2> QED
    BY <1>3, <2>1 DEF UsageOf
<1>4. CASE usage'[u] = usage[u]
  BY <1>1, <1>4 DEF UsageOf
<1>5. CASE RequestAllowed(u)
  <2>1. /\ Pruned(u) \in TenantUsage
        /\ Pruned(u).storage_used = UsageOf(u).storage_used
        /\ Pruned(u).object_count = UsageOf(u).object_count
    BY UsageTyped
  <2>2. Pruned(u).request_times \in [0..MaxNow -> Nat] /\ now \in 0..MaxNow
    BY <2>1 DEF TenantUsage, QuotaTypeOK
  <2>3. PICK r : r = [Pruned(u) EXCEPT !.request_times[now] = @ + 1]
    OBVIOUS
  <2>4. r \in TenantUsage
    BY <2>1, <2>2, <2>3, CountedTyped, UsageChanged
  <2>5. r.storage_used = UsageOf(u).storage_used /\ r.object_count = UsageOf(u).object_count
    BY <2>1, <2>3 DEF TenantUsage
  <2>6. usage' = [usage EXCEPT ![u] = r]
    BY <1>5, <2>3 DEF RequestAllowed
  <2> QED
    BY <1>1, <1>3, <2>4, <2>5, <2>6
<1>6. CASE RequestRefused(u)
  <2>1. usage' = [usage EXCEPT ![u] = Pruned(u)]
    BY <1>6 DEF RequestRefused
  <2> QED
    BY <1>1, <1>3, <2>1, UsageTyped
<1>7. usage'[u] = usage[u] \/ RequestAllowed(u) \/ RequestRefused(u)
  BY <1>2 DEF RequestAllowed, RequestRefused, QuotaTick, quotaVars
<1> QED
  BY <1>4, <1>5, <1>6, <1>7

LEMMA RequestsFit ==
    ASSUME QInv, NEW u \in Tenant,
           \/ \E t \in Tenant : RequestAllowed(t) \/ RequestRefused(t)
           \/ QuotaTick
           \/ UNCHANGED quotaVars
    PROVE  TenantFits(u)'
<1>1. QuotaTypeOK
  BY DEF QInv
<1>2. /\ UNCHANGED <<quotas, ceiling, call>>
      /\ UsageOf(u)'.storage_used = UsageOf(u).storage_used
      /\ UsageOf(u)'.object_count = UsageOf(u).object_count
  BY <1>1, RequestTotals
<1>3. UsageOf(u).storage_used \in Nat /\ UsageOf(u).object_count \in Nat
  BY <1>1, FitTypes
<1>4. /\ Checked(u)' = Checked(u) /\ Counted(u)' = Counted(u)
      /\ \A d \in Checked(u) : call'[d].bytes = call[d].bytes
  BY <1>2 DEF Checked, Counted
<1>5. /\ UsageOf(u)'.storage_used \in 0..UsageOf(u).storage_used
      /\ UsageOf(u)'.object_count \in 0..UsageOf(u).object_count
  BY <1>2, <1>3
<1> QED
  BY <1>2, <1>4, <1>5, KeepsFit

LEMMA StepQInv == QInv /\ QuotaTypeOK' /\ [QuotaNext]_quotaVars => QInv'
<1> SUFFICES ASSUME QInv, QuotaTypeOK', [QuotaNext]_quotaVars, NEW u \in Tenant PROVE TenantFits(u)'
  BY DEF QInv
<1>1. ASSUME NEW c \in Caller, Calls(c) PROVE TenantFits(u)'
  <2>1. PICK b \in Size : TRUE
    BY SizeAssumption
  <2> QED
    BY <1>1, <2>1, CheckStorageFits, CheckObjectsFits, RecordAddFits, OtherCallsFit DEF Calls
<1> QED
  BY <1>1, SetQuotaFits, RequestsFit DEF QuotaNext, Configures, Stores, Requests

\* check_storage, check_objects and record_storage_add: however the calls overlap, a total
\* exceeds the largest limit so far by one object for every other caller at most.
THEOREM OvershootIsBounded == QuotaSpec => []OvershootBounded
<1>1. QInv => OvershootBounded
  <2> SUFFICES ASSUME QInv, NEW t \in Tenant
               PROVE  /\ Within(ceiling[t].storage_limit, UsageOf(t).storage_used - Others * Largest)
                      /\ Within(ceiling[t].object_limit, UsageOf(t).object_count - Others)
    BY DEF OvershootBounded, Others, Largest
  <2>1. QuotaTypeOK /\ TenantFits(t)
    BY DEF QInv
  <2>2. /\ UsageOf(t).storage_used \in Nat /\ UsageOf(t).object_count \in Nat
        /\ ceiling[t].storage_limit \in Nat /\ ceiling[t].object_limit \in Nat
        /\ Checked(t) \in SUBSET Caller /\ \A d \in Checked(t) : call[d].bytes \in Size
        /\ Cardinality(Counted(t)) \in Nat /\ Others \in Nat
    BY <2>1, FitTypes, CallersCount
  <2>3. ceiling[t].storage_limit # 0 => UsageOf(t).storage_used - Others * Largest <= ceiling[t].storage_limit
    BY <2>1, <2>2, FitsBound DEF TenantFits, StorageFits
  <2>4. ceiling[t].object_limit # 0 => UsageOf(t).object_count - Others <= ceiling[t].object_limit
    BY <2>1, <2>2 DEF TenantFits, ObjectsFit
  <2> QED
    BY <2>3, <2>4 DEF Within
<1> QED
  BY <1>1, InitQInv, StepQInv, QuotaTypes, PTL DEF QuotaSpec

----------------------------------------------------------------------------
(* Quotas: the request rate *)

\* The timestamps that are kept are those of the log within the window.
RateInv ==
    \A t \in Tenant : \A s \in 0..MaxNow :
        s > now - QuotaWindow => UsageOf(t).request_times[s] = log[t][s]

LEMMA PrunedTimes ==
    ASSUME QuotaTypeOK, NEW t \in Tenant, NEW s \in 0..MaxNow, s > now - QuotaWindow
    PROVE  Pruned(t).request_times[s] = UsageOf(t).request_times[s]
<1>1. UsageOf(t) \in TenantUsage
  BY UsageTyped
<1>2. CASE QuotaOf(t).rate_limit = 0
  BY <1>2 DEF Pruned
<1>3. CASE QuotaOf(t).rate_limit # 0
  <2>1. Pruned(t) = [UsageOf(t) EXCEPT !.request_times = InWindow(UsageOf(t).request_times)]
    BY <1>3 DEF Pruned
  <2>2. Pruned(t).request_times = InWindow(UsageOf(t).request_times)
    BY <1>1, <2>1 DEF TenantUsage
  <2> QED
    BY <2>2 DEF InWindow
<1> QED
  BY <1>2, <1>3

LEMMA StepRateInv == RateInv /\ QuotaTypeOK /\ QuotaTypeOK' /\ [QuotaNext]_quotaVars => RateInv'
<1> SUFFICES ASSUME RateInv, QuotaTypeOK, QuotaTypeOK', [QuotaNext]_quotaVars,
                    NEW t \in Tenant, NEW s \in 0..MaxNow, s > now' - QuotaWindow
             PROVE  UsageOf(t)'.request_times[s] = log'[t][s]
  BY DEF RateInv
<1>1. now \in Nat /\ now' \in Nat /\ QuotaWindow \in Nat /\ now <= now'
  <2>1. now \in 0..MaxNow /\ now' \in 0..MaxNow
    BY DEF QuotaTypeOK
  <2>2. now' = now \/ now' = now + 1
    BY DEF QuotaNext, quotaVars, Configures, Stores, Requests, Calls, SetQuota, CheckStorage,
           CheckObjects, Store, RecordStorageAdd, Remove, RecordStorageRemove,
           RequestAllowed, RequestRefused, QuotaTick
  <2> QED
    BY <2>1, <2>2, MaxNowAssumption, QuotaWindowAssumption
<1>2. s > now - QuotaWindow
  <2>1. s \in Int
    OBVIOUS
  <2>2. \A a, b, w, x \in Int : a <= b /\ x > b - w => x > a - w
    OBVIOUS
  <2>3. now \in Int /\ now' \in Int /\ QuotaWindow \in Int
    BY <1>1
  <2> QED
    BY <1>1, <2>1, <2>2, <2>3, Zenon
<1>3. UsageOf(t).request_times[s] = log[t][s] /\ UsageOf(t) \in TenantUsage
  BY <1>2, UsageTyped DEF RateInv
<1>4. usage \in [Tenant -> TenantUsage \cup {None}] /\ log \in [Tenant -> [0..MaxNow -> Nat]] /\ now \in 0..MaxNow
  BY DEF QuotaTypeOK
<1>5. CASE UsageOf(t)'.request_times = UsageOf(t).request_times /\ log'[t] = log[t]
  BY <1>3, <1>5
<1>6. CASE usage'[t] = usage[t] /\ log'[t] = log[t]
  BY <1>5, <1>6 DEF UsageOf
<1>7. ASSUME NEW c \in Caller, RecordStorageAdd(c)
      PROVE  UsageOf(t)'.request_times[s] = log'[t][s]
  <2>1. call[c].tenant \in Tenant /\ log' = log
    BY <1>7, CallTyped DEF RecordStorageAdd
  <2>2. CASE call[c].tenant # t
    BY <1>4, <1>6, <1>7, <2>1, <2>2 DEF RecordStorageAdd
  <2>3. CASE call[c].tenant = t
    <3>1. usage'[t] = [UsageOf(t) EXCEPT !.storage_used = @ + call[c].bytes, !.object_count = @ + 1]
      BY <1>4, <1>7, <2>3 DEF RecordStorageAdd
    <3>2. usage'[t].request_times = UsageOf(t).request_times
      BY <1>3, <3>1 DEF TenantUsage
    <3>3. usage'[t] # None
      <4>1. UsageOf(t).storage_used + call[c].bytes \in Nat /\ UsageOf(t).object_count + 1 \in Nat
            /\ UsageOf(t).request_times \in [0..MaxNow -> Nat]
        <5>1. call[c].bytes \in Nat
          BY <1>7, CallTyped, SizeAssumption DEF RecordStorageAdd
        <5> QED
          BY <1>3, <5>1 DEF TenantUsage
      <4>2. usage'[t] \in TenantUsage
        <5>1. PICK a \in Nat, b \in Nat : a = UsageOf(t).storage_used + call[c].bytes /\ b = UsageOf(t).object_count + 1
          BY <4>1
        <5>2. [UsageOf(t) EXCEPT !.storage_used = a, !.object_count = b] \in TenantUsage
          BY <1>3, <4>1, UsageChanged, Zenon
        <5> QED
          BY <3>1, <5>1, <5>2, Zenon
      <4> QED
        BY <4>2, NoQuotaAssumption
    <3> QED
      BY <1>5, <2>1, <3>2, <3>3 DEF UsageOf
  <2> QED
    BY <2>2, <2>3
<1>8. ASSUME NEW c \in Caller, RecordStorageRemove(c)
      PROVE  UsageOf(t)'.request_times[s] = log'[t][s]
  <2>1. call[c].tenant \in Tenant /\ log' = log
    BY <1>8, CallTyped DEF RecordStorageRemove
  <2>2. CASE call[c].tenant # t \/ usage[t] = None
    BY <1>4, <1>6, <1>8, <2>1, <2>2 DEF RecordStorageRemove
  <2>3. CASE call[c].tenant = t /\ usage[t] # None
    <3>1. usage[t] \in TenantUsage /\ UsageOf(t) = usage[t]
      BY <1>4, <2>3 DEF UsageOf
    <3>2. usage' = [usage EXCEPT ![t].storage_used = saturating_sub(@, call[c].bytes),
                                 ![t].object_count = saturating_sub(@, 1)]
      BY <1>8, <2>3 DEF RecordStorageRemove
    <3>3. usage'[t].request_times = usage[t].request_times
      BY <1>4, <3>1, <3>2 DEF TenantUsage
    <3>4. usage'[t] # None
      <4>1. usage' \in [Tenant -> TenantUsage \cup {None}]
        BY DEF QuotaTypeOK
      <4>2. usage'[t] = [[usage[t] EXCEPT !.storage_used = saturating_sub(usage[t].storage_used, call[c].bytes)]
                            EXCEPT !.object_count = saturating_sub(usage[t].object_count, 1)]
        BY <1>4, <3>1, <3>2 DEF TenantUsage
      <4>3. call[c].bytes \in Nat /\ usage[t].storage_used \in Nat /\ usage[t].object_count \in Nat
            /\ usage[t].request_times \in [0..MaxNow -> Nat]
        BY <1>8, <3>1, CallTyped, SizeAssumption DEF TenantUsage, RecordStorageRemove
      <4>4. saturating_sub(usage[t].storage_used, call[c].bytes) \in Nat /\ saturating_sub(usage[t].object_count, 1) \in Nat
        BY <4>3 DEF saturating_sub
      <4>5. usage'[t] \in TenantUsage
        <5>1. PICK a \in Nat, b \in Nat : /\ a = saturating_sub(usage[t].storage_used, call[c].bytes)
                                         /\ b = saturating_sub(usage[t].object_count, 1)
          BY <4>4
        <5>2. [usage[t] EXCEPT !.storage_used = a, !.object_count = b] \in TenantUsage
          BY <3>1, <4>3, UsageChanged, Zenon
        <5> QED
          BY <4>2, <5>1, <5>2, Zenon
      <4> QED
        BY <4>5, NoQuotaAssumption
    <3> QED
      BY <1>5, <2>1, <3>1, <3>3, <3>4 DEF UsageOf
  <2> QED
    BY <2>2, <2>3
<1>9. Pruned(t) \in TenantUsage /\ Pruned(t).request_times[s] = log[t][s]
  BY <1>2, <1>3, UsageTyped, PrunedTimes
<1>10. CASE RequestAllowed(t)
  <2>1. PICK r : r = [Pruned(t) EXCEPT !.request_times[now] = @ + 1]
    OBVIOUS
  <2>2. Pruned(t).request_times \in [0..MaxNow -> Nat]
    BY <1>9 DEF TenantUsage
  <2>3. PICK times : times = [Pruned(t).request_times EXCEPT ![now] = @ + 1]
    OBVIOUS
  <2>4. /\ times \in [0..MaxNow -> Nat]
        /\ times[s] = IF s = now THEN Pruned(t).request_times[s] + 1 ELSE Pruned(t).request_times[s]
    BY <1>4, <2>2, <2>3, CountedTyped
  <2>5. r = [Pruned(t) EXCEPT !.request_times = times]
    BY <2>1, <2>3
  <2>6. r \in TenantUsage /\ r.request_times = times
    BY <1>9, <2>4, <2>5, UsageChanged DEF TenantUsage
  <2>7. usage'[t] = r /\ r # None
    BY <1>4, <1>10, <2>1, <2>6, NoQuotaAssumption DEF RequestAllowed
  <2>8. log[t] \in [0..MaxNow -> Nat] /\ log'[t] = [log[t] EXCEPT ![now] = @ + 1]
    BY <1>4, <1>10 DEF RequestAllowed
  <2>9. log'[t][s] = IF s = now THEN log[t][s] + 1 ELSE log[t][s]
    BY <1>4, <2>8, CountedTyped
  <2>10. UsageOf(t)'.request_times = times
    BY <2>6, <2>7 DEF UsageOf
  <2> QED
    BY <1>9, <2>4, <2>9, <2>10
<1>11. CASE RequestRefused(t)
  <2>1. usage'[t] = Pruned(t) /\ Pruned(t) # None /\ log' = log
    BY <1>4, <1>9, <1>11, NoQuotaAssumption DEF RequestRefused
  <2> QED
    BY <1>9, <2>1 DEF UsageOf
<1>12. \/ usage'[t] = usage[t] /\ log'[t] = log[t]
       \/ RequestAllowed(t) \/ RequestRefused(t)
       \/ \E c \in Caller : RecordStorageAdd(c) \/ RecordStorageRemove(c)
  BY <1>4 DEF QuotaNext, quotaVars, Configures, Stores, Requests, Calls, SetQuota, CheckStorage,
              CheckObjects, Store, Remove, RequestAllowed, RequestRefused, QuotaTick
<1> QED
  BY <1>6, <1>7, <1>8, <1>10, <1>11, <1>12

\* check_and_record_request: pruning loses no request of the window, whatever the quota
\* was when it happened, so that the answer depends on the requests of the last window alone.
THEOREM RateIsExact == QuotaSpec => []RateExact
<1>1. QuotaInit => RateInv
  BY DEF QuotaInit, RateInv, UsageOf, NoUsage
<1>2. RateInv /\ QuotaTypeOK => RateExact
  <2> SUFFICES ASSUME RateInv, QuotaTypeOK, NEW t \in Tenant, QuotaOf(t).rate_limit # 0
               PROVE  check_rate(t) <=> Recent(t) < QuotaOf(t).rate_limit
    BY DEF RateExact
  <2> DEFINE inLog == [s \in 0..MaxNow |-> IF now - s < QuotaWindow THEN log[t][s] ELSE 0]
  <2>1. UsageOf(t) \in TenantUsage /\ now \in 0..MaxNow
    BY UsageTyped DEF QuotaTypeOK
  <2>2. Pruned(t).request_times = InWindow(UsageOf(t).request_times)
    BY <2>1 DEF Pruned, TenantUsage
  <2>3. \A s \in 0..MaxNow : (now - s < QuotaWindow) <=> (s > now - QuotaWindow)
    BY <2>1, MaxNowAssumption, QuotaWindowAssumption
  <2>4. InWindow(UsageOf(t).request_times) = inLog
    BY <2>3 DEF InWindow, RateInv
  <2>5. Count(Pruned(t).request_times) = Recent(t)
    BY <2>2, <2>4 DEF Recent
  <2> QED
    BY <2>5 DEF check_rate
<1> QED
  BY <1>1, <1>2, StepRateInv, QuotaTypes, PTL DEF QuotaSpec

----------------------------------------------------------------------------
(* Sums *)

\* A non-empty set of naturals has a least element.
LEMMA LeastNumber ==
    ASSUME NEW T \in SUBSET Nat, T # {}
    PROVE  \E n \in T : \A m \in T : n <= m
<1>1. PICK n \in T : \A m \in T : ~ (<<m, n>> \in OpToRel(<, Nat))
  BY NatLessThanWellFounded, WFMin
<1>2. \A m \in T : m < n => <<m, n>> \in OpToRel(<, Nat)
  BY Zenon DEF OpToRel
<1>3. \A m \in T : ~ (m < n)
  BY <1>1, <1>2, Zenon
<1> QED
  BY <1>3

\* Among the subsets of a finite set that are in B one contains no other.
LEMMA SmallestSet ==
    ASSUME NEW S, IsFiniteSet(S), NEW B \in SUBSET (SUBSET S), B # {}
    PROVE \E T \in B : \A U \in B : U \subseteq T => U = T
<1>1. B \subseteq FiniteSubsetsOf(S)
  BY FS_FiniteSubsetsOfFinite
<1>2. PICK T \in B : \A U \in B : ~ (<<U, T>> \in StrictSubsetOrdering(S))
  BY <1>1, FS_StrictSubsetOrderingWellFounded, WFMin, Zenon
<1> QED
  BY <1>2, Zenon DEF StrictSubsetOrdering

Pick(s) == CHOOSE x \in s : TRUE

LEMMA PickIn == \A s : s # {} => Pick(s) \in s
BY DEF Pick

\* g sums f over sets of numbers the way MapThenFoldSet does.
Adding(f, D, g) == g = [s \in D |-> IF s = {} THEN 0 ELSE f[Pick(s)] + g[s \ {Pick(s)}]]

LEMMA SumUnfolds ==
    ASSUME NEW f, NEW S
    PROVE SumFunctionOnSet(f, S) = (CHOOSE g : Adding(f, SUBSET S, g))[S]
BY DEF SumFunctionOnSet, FoldFunctionOnSet, MapThenFoldSet, Pick, Adding

Sums(f, S, g) == Adding(f, SUBSET S, g)

\* The sets of at most n elements.
UpTo(S, n) == {s \in SUBSET S : Cardinality(s) <= n}

LEMMA AddingExists ==
    ASSUME NEW f, NEW S, IsFiniteSet(S)
    PROVE \E g : Sums(f, S, g)
<1>0. \A s \in SUBSET S : IsFiniteSet(s) /\ Cardinality(s) \in Nat /\ Cardinality(s) <= Cardinality(S)
  BY FS_Subset, FS_CardinalityType
<1>1. \A s \in SUBSET S : \A x \in s : Cardinality(s \ {x}) = Cardinality(s) - 1
  BY <1>0, FS_RemoveElement
<1> DEFINE Bad == {n \in Nat : ~ \E g : Adding(f, UpTo(S, n), g)}
<1>2. ASSUME NEW n \in Bad, \A m \in Bad : n <= m PROVE FALSE
  <2>1. CASE n = 0
    <3>1. UpTo(S, n) = {{}}
      BY <1>0, <2>1, FS_EmptySet DEF UpTo
    <3>2. Adding(f, UpTo(S, n), [s \in {{}} |-> 0])
      BY <3>1 DEF Adding
    <3> QED
      BY <3>2
  <2>2. CASE n # 0
    <3>1. n - 1 \in Nat /\ n - 1 \notin Bad
      BY <1>2, <2>2
    <3>2. PICK g : Adding(f, UpTo(S, n - 1), g)
      BY <3>1
    <3> DEFINE next == [s \in UpTo(S, n) |-> IF s = {} THEN 0 ELSE f[Pick(s)] + g[s \ {Pick(s)}]]
    <3>3. ASSUME NEW s \in UpTo(S, n), s # {}
          PROVE s \ {Pick(s)} \in UpTo(S, n - 1) /\ s \ {Pick(s)} \in UpTo(S, n)
      <4>1. Cardinality(s \ {Pick(s)}) = Cardinality(s) - 1 /\ Cardinality(s) \in Nat
        BY <1>0, <1>1, <3>3, PickIn DEF UpTo
      <4> QED
        BY <4>1 DEF UpTo
    <3>4. ASSUME NEW u \in UpTo(S, n - 1) PROVE u \in UpTo(S, n) /\ next[u] = g[u]
      <4>1. u \in UpTo(S, n)
        BY <1>0, <3>1 DEF UpTo
      <4>2. g[u] = IF u = {} THEN 0 ELSE f[Pick(u)] + g[u \ {Pick(u)}]
        BY <3>2, Zenon DEF Adding
      <4> QED
        BY <4>1, <4>2
    <3>5. \A s \in UpTo(S, n) : s # {} => g[s \ {Pick(s)}] = next[s \ {Pick(s)}]
      BY <3>3, <3>4
    <3>6. Adding(f, UpTo(S, n), next)
      BY <3>5 DEF Adding
    <3> QED
      BY <3>6
  <2> QED
    BY <2>1, <2>2
<1>3. Bad = {}
  BY <1>2, LeastNumber
<1>4. UpTo(S, Cardinality(S)) = SUBSET S /\ Cardinality(S) \in Nat
  BY <1>0 DEF UpTo
<1> QED
  <2>1. Cardinality(S) \notin Bad
    BY <1>3, Zenon
  <2>2. \E g : Adding(f, UpTo(S, Cardinality(S)), g)
    BY <1>4, <2>1
  <2> QED
    BY <1>4, <2>2, Zenon DEF Sums

\* Two such sums agree where they are both defined, if the numbers do.
LEMMA AddingAgree ==
    ASSUME NEW f, NEW h, NEW S, NEW T \in SUBSET S, IsFiniteSet(S), \A x \in T : f[x] = h[x],
           NEW g, Sums(f, S, g), NEW k, Sums(h, T, k)
    PROVE g[T] = k[T]
<1>1. IsFiniteSet(T)
  BY FS_Subset
<1> DEFINE B == {s \in SUBSET T : g[s] # k[s]}
<1>2. ASSUME NEW s \in B, \A u \in B : u \subseteq s => u = s PROVE FALSE
  <2>1. /\ g[s] = IF s = {} THEN 0 ELSE f[Pick(s)] + g[s \ {Pick(s)}]
        /\ k[s] = IF s = {} THEN 0 ELSE h[Pick(s)] + k[s \ {Pick(s)}]
    BY Zenon DEF Sums, Adding
  <2>2. s # {} /\ Pick(s) \in s
    BY <2>1, PickIn
  <2>3. s \ {Pick(s)} \notin B
    BY <1>2, <2>2
  <2> QED
    BY <2>1, <2>2, <2>3
<1>3. B = {}
  <2>1. B \in SUBSET (SUBSET T)
    OBVIOUS
  <2> HIDE DEF B
  <2> QED
    BY <1>1, <1>2, <2>1, SmallestSet
<1> QED
  BY <1>3

LEMMA SumIs ==
    ASSUME NEW f, NEW S, IsFiniteSet(S), NEW g, Sums(f, S, g)
    PROVE \A T \in SUBSET S : SumFunctionOnSet(f, T) = g[T]
<1> SUFFICES ASSUME NEW T \in SUBSET S PROVE SumFunctionOnSet(f, T) = g[T]
  OBVIOUS
<1>1. IsFiniteSet(T)
  BY FS_Subset
<1>2. \E k : Sums(f, T, k)
  BY <1>1, AddingExists
<1> DEFINE k == CHOOSE e : Sums(f, T, e)
<1>3. Sums(f, T, k)
  BY <1>2, Zenon
<1>4. SumFunctionOnSet(f, T) = k[T]
  BY SumUnfolds, Zenon DEF Sums
<1> HIDE DEF k
<1>5. g[T] = k[T]
  <2>1. T \in SUBSET T /\ \A x \in T : f[x] = f[x]
    OBVIOUS
  <2> QED
    BY <1>3, <2>1, AddingAgree
<1> QED
  BY <1>4, <1>5

\* What the fold adds up does not depend on the order of the elements.
LEMMA SumOfRest ==
    ASSUME NEW f, NEW S, IsFiniteSet(S), \A x \in S : f[x] \in Nat
    PROVE /\ SumFunctionOnSet(f, {}) = 0
          /\ SumFunctionOnSet(f, S) \in Nat
          /\ \A x \in S : SumFunctionOnSet(f, S) = f[x] + SumFunctionOnSet(f, S \ {x})
<1>1. PICK g : Sums(f, S, g)
  BY AddingExists
<1>2. \A T \in SUBSET S : SumFunctionOnSet(f, T) = g[T]
  BY <1>1, SumIs
<1>3. \A s \in SUBSET S : g[s] = IF s = {} THEN 0 ELSE f[Pick(s)] + g[s \ {Pick(s)}]
  BY <1>1, Zenon DEF Sums, Adding
<1>4. \A s \in SUBSET S : g[s] \in Nat
  <2> DEFINE B == {s \in SUBSET S : g[s] \notin Nat}
  <2>1. ASSUME NEW s \in B, \A u \in B : u \subseteq s => u = s PROVE FALSE
    <3>1. s # {} /\ Pick(s) \in s /\ g[s] = f[Pick(s)] + g[s \ {Pick(s)}]
      BY <1>3, PickIn
    <3>2. s \ {Pick(s)} \notin B
      BY <2>1, <3>1
    <3> QED
      BY <3>1, <3>2
  <2>2. B = {}
    <3>1. B \in SUBSET (SUBSET S)
      OBVIOUS
    <3> HIDE DEF B
    <3> QED
      BY <2>1, <3>1, SmallestSet
  <2> QED
    BY <2>2
<1>5. \A s \in SUBSET S : \A x \in s : g[s] = f[x] + g[s \ {x}]
  <2> DEFINE B == {s \in SUBSET S : \E x \in s : g[s] # f[x] + g[s \ {x}]}
  <2>1. ASSUME NEW s \in B, \A u \in B : u \subseteq s => u = s PROVE FALSE
    <3>1. PICK x \in s : g[s] # f[x] + g[s \ {x}]
      OBVIOUS
    <3>2. PICK y : y = Pick(s)
      OBVIOUS
    <3>3. y \in s /\ g[s] = f[y] + g[s \ {y}] /\ x # y
      BY <1>3, <3>1, <3>2, PickIn
    <3>4. s \ {x} \notin B /\ s \ {y} \notin B
      BY <2>1, <3>3
    <3>5. /\ g[s \ {y}] = f[x] + g[(s \ {y}) \ {x}]
          /\ g[s \ {x}] = f[y] + g[(s \ {x}) \ {y}]
      BY <3>3, <3>4
    <3>6. (s \ {y}) \ {x} = (s \ {x}) \ {y}
      OBVIOUS
    <3>7. /\ f[x] \in Nat /\ f[y] \in Nat /\ g[(s \ {x}) \ {y}] \in Nat
      BY <1>4, <3>3
    <3>8. \A a, b, c \in Nat : a + (b + c) = b + (a + c)
      OBVIOUS
    <3>9. f[y] + (f[x] + g[(s \ {x}) \ {y}]) = f[x] + (f[y] + g[(s \ {x}) \ {y}])
      BY <3>7, <3>8, Zenon
    <3> QED
      BY <3>1, <3>3, <3>5, <3>6, <3>9, Zenon
  <2>2. B = {}
    <3>1. B \in SUBSET (SUBSET S)
      OBVIOUS
    <3> HIDE DEF B
    <3> QED
      BY <2>1, <3>1, SmallestSet
  <2> QED
    BY <2>2
<1>6. S \in SUBSET S /\ {} \in SUBSET S /\ \A x \in S : S \ {x} \in SUBSET S
  OBVIOUS
<1> QED
  BY <1>2, <1>3, <1>4, <1>5, <1>6

LEMMA SumSame ==
    ASSUME NEW f, NEW h, NEW S, IsFiniteSet(S), \A x \in S : f[x] = h[x]
    PROVE SumFunctionOnSet(f, S) = SumFunctionOnSet(h, S)
<1>1. PICK g : Sums(f, S, g)
  BY AddingExists
<1>2. PICK k : Sums(h, S, k)
  BY AddingExists
<1>3. g[S] = k[S]
  <2>1. S \in SUBSET S
    OBVIOUS
  <2> QED
    BY <1>1, <1>2, <2>1, AddingAgree
<1> QED
  BY <1>1, <1>2, <1>3, SumIs

LEMMA SumAtMost ==
    ASSUME NEW S, IsFiniteSet(S), NEW m \in Nat, NEW f, \A x \in S : f[x] \in 0..m
    PROVE SumFunctionOnSet(f, S) <= Cardinality(S) * m
<1>0. \A T \in SUBSET S : /\ IsFiniteSet(T) /\ Cardinality(T) \in Nat
                          /\ SumFunctionOnSet(f, T) \in Nat
                          /\ \A x \in T : /\ Cardinality(T) = Cardinality(T \ {x}) + 1
                                          /\ SumFunctionOnSet(f, T) = f[x] + SumFunctionOnSet(f, T \ {x})
  <2> SUFFICES ASSUME NEW T \in SUBSET S
               PROVE /\ IsFiniteSet(T) /\ Cardinality(T) \in Nat
                     /\ SumFunctionOnSet(f, T) \in Nat
                     /\ \A x \in T : /\ Cardinality(T) = Cardinality(T \ {x}) + 1
                                     /\ SumFunctionOnSet(f, T) = f[x] + SumFunctionOnSet(f, T \ {x})
    OBVIOUS
  <2>1. IsFiniteSet(T) /\ Cardinality(T) \in Nat
    BY FS_Subset, FS_CardinalityType
  <2>2. \A x \in T : f[x] \in Nat
    OBVIOUS
  <2>3. \A x \in T : Cardinality(T) = Cardinality(T \ {x}) + 1
    <3>1. \A x \in T : Cardinality(T \ {x}) = Cardinality(T) - 1
      BY <2>1, FS_RemoveElement
    <3> QED
      BY <2>1, <3>1
  <2> QED
    BY <2>1, <2>2, <2>3, SumOfRest
<1> DEFINE B == {T \in SUBSET S : ~ (SumFunctionOnSet(f, T) <= Cardinality(T) * m)}
<1>1. ASSUME NEW T \in B, \A U \in B : U \subseteq T => U = T PROVE FALSE
  <2>1. CASE T = {}
    <3>1. SumFunctionOnSet(f, T) = 0 /\ Cardinality(T) = 0
      BY <2>1, SumOfRest, FS_EmptySet
    <3> QED
      BY <3>1
  <2>2. CASE T # {}
    <3>1. PICK x \in T : TRUE
      BY <2>2
    <3>2. T \ {x} \in SUBSET S /\ T \ {x} \notin B
      BY <1>1
    <3>3. PICK n \in Nat, a \in Nat, b \in 0..m :
              /\ n = Cardinality(T \ {x}) /\ a = SumFunctionOnSet(f, T \ {x}) /\ b = f[x]
      BY <1>0, <3>2
    <3>4. a <= n * m /\ SumFunctionOnSet(f, T) = b + a /\ Cardinality(T) = n + 1
      BY <1>0, <3>2, <3>3
    <3>5. (n + 1) * m = n * m + m /\ n * m \in Nat
      OBVIOUS
    <3>6. b + a <= (n + 1) * m
      BY <3>4, <3>5
    <3> QED
      BY <3>4, <3>6
  <2> QED
    BY <2>1, <2>2
<1>2. B = {}
  <2>1. B \in SUBSET (SUBSET S)
    OBVIOUS
  <2> HIDE DEF B
  <2> QED
    BY <1>1, <2>1, SmallestSet
<1> QED
  BY <1>2

----------------------------------------------------------------------------
(* Quotas: what is stored *)

\* What a caller in this state still has to record, as an add or as a removal.
Bytes(state, t, at) == IF state.at = at /\ state.tenant = t THEN state.bytes ELSE 0
Objects(state, t, at) == IF state.at = at /\ state.tenant = t THEN 1 ELSE 0

\* The callers with something to record, and their bytes.
At(calls, t, at) == {c \in Caller : calls[c].at = at /\ calls[c].tenant = t}
BytesAt(calls, P) == SumFunctionOnSet([c \in P |-> calls[c].bytes], P)

LEMMA BytesSplit ==
    ASSUME NEW calls \in [Caller -> {NoCall} \cup CallState], NEW c \in Caller, NEW t,
           NEW at \in {"stored", "removed"}, NEW P, P = At(calls, t, at)
    PROVE  /\ BytesAt(calls, P) = BytesAt(calls, P \ {c}) + Bytes(calls[c], t, at)
           /\ Cardinality(P) = Cardinality(P \ {c}) + Objects(calls[c], t, at)
           /\ BytesAt(calls, P \ {c}) \in Nat /\ Cardinality(P \ {c}) \in Nat
<1>1. P \in SUBSET Caller /\ IsFiniteSet(P) /\ IsFiniteSet(P \ {c})
  BY CallersCount DEF At
<1>2. Cardinality(P) \in Nat /\ Cardinality(P \ {c}) \in Nat
  BY <1>1, FS_CardinalityType
<1>3. \A d \in P : calls[d].bytes \in Nat
  <2>1. \A d \in P : calls[d] \in CallState
    BY DEF At, NoCall
  <2> QED
    BY <2>1, SizeAssumption DEF CallState
<1> DEFINE f == [d \in P |-> calls[d].bytes]
           g == [d \in P \ {c} |-> calls[d].bytes]
<1>4. \A d \in P : f[d] \in Nat /\ f[d] = calls[d].bytes
  BY <1>3
<1>5. SumFunctionOnSet(g, P \ {c}) = SumFunctionOnSet(f, P \ {c})
  <2>1. \A d \in P \ {c} : g[d] = f[d]
    OBVIOUS
  <2> HIDE DEF f, g
  <2> QED
    BY <1>1, <2>1, SumSame
<1>6. /\ SumFunctionOnSet(f, P) \in Nat /\ SumFunctionOnSet(f, P \ {c}) \in Nat
      /\ \A d \in P : SumFunctionOnSet(f, P) = f[d] + SumFunctionOnSet(f, P \ {d})
  <2> HIDE DEF f
  <2> QED
    BY <1>1, <1>4, SumOfRest
<1>7. BytesAt(calls, P) = SumFunctionOnSet(f, P) /\ BytesAt(calls, P \ {c}) = SumFunctionOnSet(g, P \ {c})
  BY DEF BytesAt
<1>8. CASE c \in P
  <2>1. Bytes(calls[c], t, at) = f[c] /\ Objects(calls[c], t, at) = 1
    BY <1>4, <1>8 DEF Bytes, Objects, At
  <2>2. Cardinality(P \ {c}) = Cardinality(P) - 1
    BY <1>1, <1>8, FS_RemoveElement
  <2> HIDE DEF f, g
  <2> QED
    <3>1. PICK x \in Nat, y \in Nat, k \in Nat :
              x = f[c] /\ y = SumFunctionOnSet(f, P \ {c}) /\ k = Cardinality(P \ {c})
      BY <1>2, <1>4, <1>6, <1>8, Zenon
    <3>2. BytesAt(calls, P) = x + y
      BY <1>6, <1>7, <1>8, <3>1, Zenon
    <3>3. BytesAt(calls, P \ {c}) = y /\ Bytes(calls[c], t, at) = x /\ Objects(calls[c], t, at) = 1
      BY <1>5, <1>7, <2>1, <3>1, Zenon
    <3>4. Cardinality(P) = k + 1
      BY <1>2, <2>2, <3>1
    <3>5. x + y = y + x
      OBVIOUS
    <3> QED
      BY <3>1, <3>2, <3>3, <3>4, <3>5, Zenon
<1>9. CASE c \notin P
  <2>1. P \ {c} = P
    BY <1>9
  <2>2. Bytes(calls[c], t, at) = 0 /\ Objects(calls[c], t, at) = 0
    BY <1>9 DEF Bytes, Objects, At
  <2>3. BytesAt(calls, P \ {c}) = BytesAt(calls, P) /\ Cardinality(P \ {c}) = Cardinality(P)
    BY <2>1
  <2>4. BytesAt(calls, P) \in Nat
    <3> HIDE DEF f
    <3> QED
      BY <1>6, <1>7
  <2> QED
    BY <1>2, <2>2, <2>3, <2>4
<1> QED
  BY <1>8, <1>9

\* One caller goes on: what the others have to record stays as it is.
Moves(calls, later, c, t, at) ==
    \E a, n \in Nat :
        /\ BytesAt(calls, At(calls, t, at)) = a + Bytes(calls[c], t, at)
        /\ Cardinality(At(calls, t, at)) = n + Objects(calls[c], t, at)
        /\ BytesAt(later, At(later, t, at)) = a + Bytes(later[c], t, at)
        /\ Cardinality(At(later, t, at)) = n + Objects(later[c], t, at)

LEMMA BytesMove ==
    ASSUME NEW calls \in [Caller -> {NoCall} \cup CallState],
           NEW later \in [Caller -> {NoCall} \cup CallState],
           NEW c \in Caller, \A d \in Caller \ {c} : later[d] = calls[d], NEW t,
           NEW at \in {"stored", "removed"}
    PROVE  Moves(calls, later, c, t, at)
<1>1. PICK P : P = At(calls, t, at)
  OBVIOUS
<1>2. PICK Q : Q = At(later, t, at)
  OBVIOUS
<1>3. Q \ {c} = P \ {c}
  BY <1>1, <1>2 DEF At
<1>4. \A d \in P \ {c} : later[d].bytes = calls[d].bytes
  BY <1>1 DEF At
<1>5. BytesAt(later, P \ {c}) = BytesAt(calls, P \ {c})
  BY <1>4 DEF BytesAt
<1>6. /\ BytesAt(calls, P) = BytesAt(calls, P \ {c}) + Bytes(calls[c], t, at)
      /\ Cardinality(P) = Cardinality(P \ {c}) + Objects(calls[c], t, at)
      /\ BytesAt(calls, P \ {c}) \in Nat /\ Cardinality(P \ {c}) \in Nat
  BY <1>1, BytesSplit
<1>7. /\ BytesAt(later, Q) = BytesAt(later, Q \ {c}) + Bytes(later[c], t, at)
      /\ Cardinality(Q) = Cardinality(Q \ {c}) + Objects(later[c], t, at)
  BY <1>2, BytesSplit
<1> QED
  BY <1>1, <1>2, <1>3, <1>5, <1>6, <1>7, Zenon DEF Moves

\* The objects of a tenant: how many there are of each size.
Total(objects) == SumFunction(objects)
TotalBytes(objects) == SumFunction([s \in Size |-> s * objects[s]])

LEMMA SizeFinite == IsFiniteSet(Size) /\ Size \subseteq Nat
<1>1. Size \subseteq 0..Largest
  BY LargestSize
<1>2. IsFiniteSet(0..Largest)
  BY LargestSize, FS_Interval
<1>3. IsFiniteSet(Size)
  BY <1>1, <1>2, FS_Subset
<1> QED
  BY <1>3, LargestSize

LEMMA SizesSum ==
    ASSUME NEW k, \A s \in Size : k[s] \in Nat
    PROVE  \A b \in Size : SumFunctionOnSet(k, Size) = k[b] + SumFunctionOnSet(k, Size \ {b})
BY SizeFinite, SumOfRest

LEMMA ObjectsTyped ==
    ASSUME NEW objects \in [Size -> Nat]
    PROVE  Total(objects) \in Nat /\ TotalBytes(objects) \in Nat
<1>1. IsFiniteSet(Size) /\ Size \subseteq Nat
  BY SizeFinite
<1> DEFINE f == [s \in Size |-> s * objects[s]]
<1>2. \A s \in Size : objects[s] \in Nat /\ f[s] \in Nat
  BY <1>1
<1>3. Total(objects) = SumFunctionOnSet(objects, Size) /\ TotalBytes(objects) = SumFunctionOnSet(f, Size)
  BY DEF Total, TotalBytes, SumFunction
<1> HIDE DEF f
<1> QED
  BY <1>1, <1>2, <1>3, SumOfRest

LEMMA ObjectAdded ==
    ASSUME NEW objects \in [Size -> Nat], NEW more \in [Size -> Nat], NEW b \in Size,
           more[b] = objects[b] + 1, \A s \in Size \ {b} : more[s] = objects[s]
    PROVE  Total(more) = Total(objects) + 1 /\ TotalBytes(more) = TotalBytes(objects) + b
<1>1. IsFiniteSet(Size) /\ Size \subseteq Nat
  BY SizeFinite
<1> DEFINE f == [s \in Size |-> s * objects[s]]
           g == [s \in Size |-> s * more[s]]
<1>2. \A s \in Size : objects[s] \in Nat /\ more[s] \in Nat /\ f[s] \in Nat /\ g[s] \in Nat
  BY <1>1
<1>3. /\ Total(objects) = SumFunctionOnSet(objects, Size) /\ TotalBytes(objects) = SumFunctionOnSet(f, Size)
      /\ Total(more) = SumFunctionOnSet(more, Size) /\ TotalBytes(more) = SumFunctionOnSet(g, Size)
  BY DEF Total, TotalBytes, SumFunction
<1>4. \A s \in Size \ {b} : g[s] = f[s]
  OBVIOUS
<1>5. g[b] = f[b] + b
  <2>1. g[b] = b * (objects[b] + 1) /\ f[b] = b * objects[b]
    OBVIOUS
  <2>2. \A i, j \in Nat : i * (j + 1) = i * j + i
    OBVIOUS
  <2> QED
    BY <1>1, <1>2, <2>1, <2>2
<1> HIDE DEF f, g
<1>6. IsFiniteSet(Size \ {b})
  BY <1>1, FS_RemoveElement
<1>7. /\ SumFunctionOnSet(more, Size \ {b}) = SumFunctionOnSet(objects, Size \ {b})
      /\ SumFunctionOnSet(g, Size \ {b}) = SumFunctionOnSet(f, Size \ {b})
  BY <1>4, <1>6, SumSame
<1>8. /\ SumFunctionOnSet(objects, Size) = objects[b] + SumFunctionOnSet(objects, Size \ {b})
      /\ SumFunctionOnSet(more, Size) = more[b] + SumFunctionOnSet(more, Size \ {b})
      /\ SumFunctionOnSet(f, Size) = f[b] + SumFunctionOnSet(f, Size \ {b})
      /\ SumFunctionOnSet(g, Size) = g[b] + SumFunctionOnSet(g, Size \ {b})
  <2>1. ASSUME NEW k, \A s \in Size : k[s] \in Nat
        PROVE  SumFunctionOnSet(k, Size) = k[b] + SumFunctionOnSet(k, Size \ {b})
    BY <2>1, SizesSum
  <2>2. \A s \in Size : objects[s] \in Nat
    BY <1>2
  <2>3. \A s \in Size : more[s] \in Nat
    BY <1>2
  <2>4. \A s \in Size : f[s] \in Nat
    BY <1>2
  <2>5. \A s \in Size : g[s] \in Nat
    BY <1>2
  <2> QED
    BY <2>1, <2>2, <2>3, <2>4, <2>5, Zenon
<1>9. SumFunctionOnSet(objects, Size \ {b}) \in Nat /\ SumFunctionOnSet(f, Size \ {b}) \in Nat
  BY <1>2, <1>6, SumOfRest
<1>10. b \in Nat /\ objects[b] \in Nat /\ f[b] \in Nat
  BY <1>1, <1>2
<1> QED
  BY <1>3, <1>5, <1>7, <1>8, <1>9, <1>10

\* A tenant's totals, with what is to be recorded, cover what it stores.
Covers(t) ==
    /\ TotalBytes(live[t]) + BytesAt(call, At(call, t, "removed"))
         <= UsageOf(t).storage_used + BytesAt(call, At(call, t, "stored"))
    /\ Total(live[t]) + Cardinality(At(call, t, "removed"))
         <= UsageOf(t).object_count + Cardinality(At(call, t, "stored"))

LEMMA CoversAll == UsageCovers <=> \A t \in Tenant : Covers(t)
<1>1. \A t : Unrecorded(t, "stored") = At(call, t, "stored") /\ Unrecorded(t, "removed") = At(call, t, "removed")
  BY DEF Unrecorded, At
<1>2. \A P : SumBytes(P) = BytesAt(call, P)
  BY DEF SumBytes, BytesAt, SumFunction
<1>3. \A t : LiveBytes(t) = TotalBytes(live[t]) /\ LiveObjects(t) = Total(live[t])
  BY DEF LiveBytes, LiveObjects, Total, TotalBytes
<1>4. \A t \in Tenant :
        /\ LiveBytes(t) + SumBytes(Unrecorded(t, "removed"))
             = TotalBytes(live[t]) + BytesAt(call, At(call, t, "removed"))
        /\ UsageOf(t).storage_used + SumBytes(Unrecorded(t, "stored"))
             = UsageOf(t).storage_used + BytesAt(call, At(call, t, "stored"))
        /\ LiveObjects(t) + Cardinality(Unrecorded(t, "removed"))
             = Total(live[t]) + Cardinality(At(call, t, "removed"))
        /\ UsageOf(t).object_count + Cardinality(Unrecorded(t, "stored"))
             = UsageOf(t).object_count + Cardinality(At(call, t, "stored"))
  BY <1>1, <1>2, <1>3
<1> QED
  BY <1>4 DEF UsageCovers, Covers

LEMMA ToRecord ==
    ASSUME NEW state \in {NoCall} \cup CallState, NEW t, NEW at \in {"stored", "removed"}
    PROVE  Bytes(state, t, at) \in Nat /\ Objects(state, t, at) \in Nat
<1>1. state = NoCall \/ state.bytes \in Nat
  BY SizeAssumption DEF CallState
<1>2. NoCall.at = "idle"
  BY DEF NoCall
<1> QED
  BY <1>1, <1>2 DEF Bytes, Objects

\* One caller goes on: what the step adds to one side it adds to the other, stored objects
\* and removals on the left, recorded and unrecorded adds on the right.
LEMMA CallCovers ==
    ASSUME QuotaTypeOK, QuotaTypeOK', NEW u \in Tenant, Covers(u),
           NEW c \in Caller, NEW state \in {NoCall} \cup CallState, Goto(c, state)
    PROVE  /\ TotalBytes(live'[u]) + Bytes(state, u, "removed") + UsageOf(u).storage_used + Bytes(call[c], u, "stored")
                <= TotalBytes(live[u]) + Bytes(call[c], u, "removed") + UsageOf(u)'.storage_used + Bytes(state, u, "stored")
           /\ Total(live'[u]) + Objects(state, u, "removed") + UsageOf(u).object_count + Objects(call[c], u, "stored")
                <= Total(live[u]) + Objects(call[c], u, "removed") + UsageOf(u)'.object_count + Objects(state, u, "stored")
           => Covers(u)'
<1>0. SUFFICES
        ASSUME
          TotalBytes(live'[u]) + Bytes(state, u, "removed") + UsageOf(u).storage_used + Bytes(call[c], u, "stored")
            <= TotalBytes(live[u]) + Bytes(call[c], u, "removed") + UsageOf(u)'.storage_used + Bytes(state, u, "stored"),
          Total(live'[u]) + Objects(state, u, "removed") + UsageOf(u).object_count + Objects(call[c], u, "stored")
            <= Total(live[u]) + Objects(call[c], u, "removed") + UsageOf(u)'.object_count + Objects(state, u, "stored")
        PROVE Covers(u)'
  OBVIOUS
<1>1. /\ call \in [Caller -> {NoCall} \cup CallState] /\ call[c] \in {NoCall} \cup CallState
      /\ live[u] \in [Size -> Nat] /\ live'[u] \in [Size -> Nat]
  BY DEF QuotaTypeOK, CallState
<1>2. call' \in [Caller -> {NoCall} \cup CallState] /\ call'[c] = state /\ \A d \in Caller \ {c} : call'[d] = call[d]
  BY GotoTyped
<1>3. /\ UsageOf(u).storage_used \in Nat /\ UsageOf(u).object_count \in Nat
      /\ UsageOf(u)'.storage_used \in Nat /\ UsageOf(u)'.object_count \in Nat
  <2>1. QuotaTypeOK => UsageOf(u).storage_used \in Nat /\ UsageOf(u).object_count \in Nat
    BY FitTypes
  <2>2. (QuotaTypeOK => UsageOf(u).storage_used \in Nat /\ UsageOf(u).object_count \in Nat)'
    <3>1. usage'[u] = None \/ usage'[u] \in TenantUsage
      BY DEF QuotaTypeOK
    <3> QED
      BY <3>1 DEF UsageOf, NoUsage, TenantUsage
  <2> QED
    BY <2>1, <2>2
<1>4. /\ Total(live[u]) \in Nat /\ TotalBytes(live[u]) \in Nat
      /\ Total(live'[u]) \in Nat /\ TotalBytes(live'[u]) \in Nat
  BY <1>1, ObjectsTyped
<1>5. PICK a, m \in Nat :
        /\ BytesAt(call, At(call, u, "stored")) = a + Bytes(call[c], u, "stored")
        /\ Cardinality(At(call, u, "stored")) = m + Objects(call[c], u, "stored")
        /\ BytesAt(call', At(call', u, "stored")) = a + Bytes(state, u, "stored")
        /\ Cardinality(At(call', u, "stored")) = m + Objects(state, u, "stored")
  <2>1. "stored" \in {"stored", "removed"}
    OBVIOUS
  <2>2. Moves(call, call', c, u, "stored")
    BY <1>1, <1>2, <2>1, BytesMove
  <2> QED
    BY <1>2, <2>2, Zenon DEF Moves
<1>6. PICK r, n \in Nat :
        /\ BytesAt(call, At(call, u, "removed")) = r + Bytes(call[c], u, "removed")
        /\ Cardinality(At(call, u, "removed")) = n + Objects(call[c], u, "removed")
        /\ BytesAt(call', At(call', u, "removed")) = r + Bytes(state, u, "removed")
        /\ Cardinality(At(call', u, "removed")) = n + Objects(state, u, "removed")
  <2>1. "removed" \in {"stored", "removed"}
    OBVIOUS
  <2>2. Moves(call, call', c, u, "removed")
    BY <1>1, <1>2, <2>1, BytesMove
  <2> QED
    BY <1>2, <2>2, Zenon DEF Moves
<1>7. /\ Bytes(call[c], u, "stored") \in Nat /\ Objects(call[c], u, "stored") \in Nat
      /\ Bytes(call[c], u, "removed") \in Nat /\ Objects(call[c], u, "removed") \in Nat
      /\ Bytes(state, u, "stored") \in Nat /\ Objects(state, u, "stored") \in Nat
      /\ Bytes(state, u, "removed") \in Nat /\ Objects(state, u, "removed") \in Nat
  BY <1>1, ToRecord
<1>8. /\ TotalBytes(live[u]) + (r + Bytes(call[c], u, "removed"))
           <= UsageOf(u).storage_used + (a + Bytes(call[c], u, "stored"))
      /\ Total(live[u]) + (n + Objects(call[c], u, "removed"))
           <= UsageOf(u).object_count + (m + Objects(call[c], u, "stored"))
  BY <1>5, <1>6 DEF Covers
<1>9. TotalBytes(live'[u]) + (r + Bytes(state, u, "removed"))
        <= UsageOf(u)'.storage_used + (a + Bytes(state, u, "stored"))
  <2>1. PICK x \in Nat, x2 \in Nat, y \in Nat, y2 \in Nat :
            /\ x = TotalBytes(live[u]) /\ x2 = TotalBytes(live'[u])
            /\ y = UsageOf(u).storage_used /\ y2 = UsageOf(u)'.storage_used
    BY <1>3, <1>4, Zenon
  <2>2. PICK p \in Nat, p2 \in Nat, q \in Nat, q2 \in Nat :
            /\ p = Bytes(call[c], u, "removed") /\ p2 = Bytes(state, u, "removed")
            /\ q = Bytes(call[c], u, "stored") /\ q2 = Bytes(state, u, "stored")
    BY <1>7, Zenon
  <2>3. x + (r + p) <= y + (a + q) /\ x2 + p2 + y + q <= x + p + y2 + q2
    BY <1>0, <1>8, <2>1, <2>2, Zenon
  <2>4. x2 + (r + p2) <= y2 + (a + q2)
    BY <2>3
  <2> QED
    BY <2>1, <2>2, <2>4, Zenon
<1>10. Total(live'[u]) + (n + Objects(state, u, "removed"))
        <= UsageOf(u)'.object_count + (m + Objects(state, u, "stored"))
  <2>1. PICK x \in Nat, x2 \in Nat, y \in Nat, y2 \in Nat :
            /\ x = Total(live[u]) /\ x2 = Total(live'[u])
            /\ y = UsageOf(u).object_count /\ y2 = UsageOf(u)'.object_count
    BY <1>3, <1>4, Zenon
  <2>2. PICK p \in Nat, p2 \in Nat, q \in Nat, q2 \in Nat :
            /\ p = Objects(call[c], u, "removed") /\ p2 = Objects(state, u, "removed")
            /\ q = Objects(call[c], u, "stored") /\ q2 = Objects(state, u, "stored")
    BY <1>7, Zenon
  <2>3. x + (n + p) <= y + (m + q) /\ x2 + p2 + y + q <= x + p + y2 + q2
    BY <1>0, <1>8, <2>1, <2>2, Zenon
  <2>4. x2 + (n + p2) <= y2 + (m + q2)
    BY <2>3
  <2> QED
    BY <2>1, <2>2, <2>4, Zenon
<1> QED
  BY <1>5, <1>6, <1>9, <1>10 DEF Covers

\* A caller that goes on without storing, removing or recording.
LEMMA QuietCovers ==
    ASSUME QuotaTypeOK, QuotaTypeOK', NEW u \in Tenant, Covers(u),
           NEW c \in Caller, NEW state \in {NoCall} \cup CallState, Goto(c, state),
           live' = live, usage' = usage,
           call[c].at \notin {"stored", "removed"}, state.at \notin {"stored", "removed"}
    PROVE  Covers(u)'
<1>1. \A at \in {"stored", "removed"} :
        /\ Bytes(call[c], u, at) = 0 /\ Objects(call[c], u, at) = 0
        /\ Bytes(state, u, at) = 0 /\ Objects(state, u, at) = 0
  BY DEF Bytes, Objects
<1>2. UsageOf(u)' = UsageOf(u) /\ live'[u] = live[u]
  BY DEF UsageOf
<1>3. /\ UsageOf(u).storage_used \in Nat /\ UsageOf(u).object_count \in Nat
      /\ Total(live[u]) \in Nat /\ TotalBytes(live[u]) \in Nat
  BY FitTypes, ObjectsTyped DEF QuotaTypeOK
<1>4. /\ TotalBytes(live[u]) + 0 + UsageOf(u).storage_used + 0 <= TotalBytes(live[u]) + 0 + UsageOf(u).storage_used + 0
      /\ Total(live[u]) + 0 + UsageOf(u).object_count + 0 <= Total(live[u]) + 0 + UsageOf(u).object_count + 0
  BY <1>3, NothingAdded, Zenon
<1>5. /\ TotalBytes(live'[u]) + Bytes(state, u, "removed") + UsageOf(u).storage_used + Bytes(call[c], u, "stored")
           <= TotalBytes(live[u]) + Bytes(call[c], u, "removed") + UsageOf(u)'.storage_used + Bytes(state, u, "stored")
      /\ Total(live'[u]) + Objects(state, u, "removed") + UsageOf(u).object_count + Objects(call[c], u, "stored")
           <= Total(live[u]) + Objects(call[c], u, "removed") + UsageOf(u)'.object_count + Objects(state, u, "stored")
  BY <1>1, <1>2, <1>4, Zenon
<1> QED
  BY <1>5, CallCovers, Zenon

\* The object is stored: it is live, and to be recorded.
LEMMA StoreCovers ==
    ASSUME QuotaTypeOK, QuotaTypeOK', NEW u \in Tenant, Covers(u), NEW c \in Caller, Store(c)
    PROVE  Covers(u)'
<1>1. PICK t \in Tenant, b \in Size : t = call[c].tenant /\ b = call[c].bytes
  BY CallTyped DEF Store
<1>2. PICK state \in CallState : state = [at |-> "stored", tenant |-> t, bytes |-> b]
  BY DEF CallState
<1>3. Goto(c, state) /\ call[c].at = "admitted"
  BY <1>1, <1>2, CallTyped DEF Store
<1>4. /\ Bytes(call[c], u, "stored") = 0 /\ Objects(call[c], u, "stored") = 0
      /\ Bytes(call[c], u, "removed") = 0 /\ Objects(call[c], u, "removed") = 0
      /\ Bytes(state, u, "removed") = 0 /\ Objects(state, u, "removed") = 0
      /\ Bytes(state, u, "stored") = (IF t = u THEN b ELSE 0)
      /\ Objects(state, u, "stored") = (IF t = u THEN 1 ELSE 0)
  BY <1>2, <1>3 DEF Bytes, Objects
<1>5. UsageOf(u)' = UsageOf(u)
  BY DEF Store, UsageOf
<1>6. /\ live \in [Tenant -> [Size -> Nat]] /\ live' \in [Tenant -> [Size -> Nat]]
      /\ live' = [live EXCEPT ![t][b] = @ + 1]
  BY <1>1 DEF Store, QuotaTypeOK
<1>7. /\ TotalBytes(live'[u]) = TotalBytes(live[u]) + (IF t = u THEN b ELSE 0)
      /\ Total(live'[u]) = Total(live[u]) + (IF t = u THEN 1 ELSE 0)
  <2>1. CASE t = u
    <3>1. /\ live[u] \in [Size -> Nat] /\ live'[u] \in [Size -> Nat]
          /\ live'[u][b] = live[u][b] + 1 /\ \A s \in Size \ {b} : live'[u][s] = live[u][s]
      BY <1>6, <2>1
    <3> QED
      BY <2>1, <3>1, ObjectAdded
  <2>2. CASE t # u
    <3>1. live'[u] = live[u] /\ live[u] \in [Size -> Nat]
      BY <1>6, <2>2
    <3> QED
      BY <2>2, <3>1, ObjectsTyped
  <2> QED
    BY <2>1, <2>2
<1>8. /\ UsageOf(u).storage_used \in Nat /\ UsageOf(u).object_count \in Nat
      /\ Total(live[u]) \in Nat /\ TotalBytes(live[u]) \in Nat /\ b \in Nat
  BY <1>6, FitTypes, ObjectsTyped, SizeAssumption
<1>9. /\ TotalBytes(live'[u]) + 0 + UsageOf(u).storage_used + 0
           <= TotalBytes(live[u]) + 0 + UsageOf(u).storage_used + (IF t = u THEN b ELSE 0)
      /\ Total(live'[u]) + 0 + UsageOf(u).object_count + 0
           <= Total(live[u]) + 0 + UsageOf(u).object_count + (IF t = u THEN 1 ELSE 0)
  <2>1. PICK x \in Nat, k \in Nat : x = TotalBytes(live[u]) /\ k = Total(live[u])
    BY <1>8, Zenon
  <2>2. PICK y \in Nat, j \in Nat : y = UsageOf(u).storage_used /\ j = UsageOf(u).object_count
    BY <1>8, Zenon
  <2>3. PICK b1 \in Nat, o \in Nat : b1 = (IF t = u THEN b ELSE 0) /\ o = (IF t = u THEN 1 ELSE 0)
    BY <1>8
  <2>4. TotalBytes(live'[u]) = x + b1 /\ Total(live'[u]) = k + o
    BY <1>7, <2>1, <2>3, Zenon
  <2>5. x + b1 + 0 + y + 0 <= x + 0 + y + b1 /\ k + o + 0 + j + 0 <= k + 0 + j + o
    OBVIOUS
  <2> QED
    BY <2>1, <2>2, <2>3, <2>4, <2>5, Zenon
<1> QED
  BY <1>3, <1>4, <1>5, <1>9, CallCovers

\* An object is gone: its removal is to be recorded.
LEMMA RemoveCovers ==
    ASSUME QuotaTypeOK, QuotaTypeOK', NEW u \in Tenant, Covers(u), NEW c \in Caller,
           NEW t \in Tenant, NEW b \in Size, Remove(c, t, b)
    PROVE  Covers(u)'
<1>1. PICK state \in CallState : state = [at |-> "removed", tenant |-> t, bytes |-> b]
  BY DEF CallState
<1>2. Goto(c, state) /\ call[c].at = "idle"
  BY <1>1 DEF Remove
<1>3. /\ Bytes(call[c], u, "stored") = 0 /\ Objects(call[c], u, "stored") = 0
      /\ Bytes(call[c], u, "removed") = 0 /\ Objects(call[c], u, "removed") = 0
      /\ Bytes(state, u, "stored") = 0 /\ Objects(state, u, "stored") = 0
      /\ Bytes(state, u, "removed") = (IF t = u THEN b ELSE 0)
      /\ Objects(state, u, "removed") = (IF t = u THEN 1 ELSE 0)
  BY <1>1, <1>2 DEF Bytes, Objects
<1>4. UsageOf(u)' = UsageOf(u)
  BY DEF Remove, UsageOf
<1>5. /\ live \in [Tenant -> [Size -> Nat]] /\ live' \in [Tenant -> [Size -> Nat]]
      /\ live' = [live EXCEPT ![t][b] = @ - 1]
  BY DEF Remove, QuotaTypeOK
<1>6. /\ TotalBytes(live[u]) = TotalBytes(live'[u]) + (IF t = u THEN b ELSE 0)
      /\ Total(live[u]) = Total(live'[u]) + (IF t = u THEN 1 ELSE 0)
  <2>1. CASE t = u
    <3>1. /\ live[u] \in [Size -> Nat] /\ live'[u] \in [Size -> Nat]
          /\ live[u][b] = live'[u][b] + 1 /\ \A s \in Size \ {b} : live[u][s] = live'[u][s]
      BY <1>5, <2>1
    <3> QED
      BY <2>1, <3>1, ObjectAdded
  <2>2. CASE t # u
    <3>1. live'[u] = live[u] /\ live[u] \in [Size -> Nat]
      BY <1>5, <2>2
    <3> QED
      BY <2>2, <3>1, ObjectsTyped
  <2> QED
    BY <2>1, <2>2
<1>7. /\ UsageOf(u).storage_used \in Nat /\ UsageOf(u).object_count \in Nat
      /\ Total(live'[u]) \in Nat /\ TotalBytes(live'[u]) \in Nat /\ b \in Nat
  BY <1>5, FitTypes, ObjectsTyped, SizeAssumption
<1>8. /\ TotalBytes(live'[u]) + (IF t = u THEN b ELSE 0) + UsageOf(u).storage_used + 0
           <= TotalBytes(live[u]) + 0 + UsageOf(u).storage_used + 0
      /\ Total(live'[u]) + (IF t = u THEN 1 ELSE 0) + UsageOf(u).object_count + 0
           <= Total(live[u]) + 0 + UsageOf(u).object_count + 0
  BY <1>6, <1>7
<1> QED
  BY <1>2, <1>3, <1>4, <1>8, CallCovers

\* record_storage_add and record_storage_remove: what was to be recorded is recorded, and a
\* removal takes off no more than that.
LEMMA RecordCovers ==
    ASSUME QuotaTypeOK, QuotaTypeOK', NEW u \in Tenant, Covers(u), NEW c \in Caller,
           RecordStorageAdd(c) \/ RecordStorageRemove(c)
    PROVE  Covers(u)'
<1>1. PICK t \in Tenant, b \in Size : t = call[c].tenant /\ b = call[c].bytes
  BY CallTyped DEF RecordStorageAdd, RecordStorageRemove
<1>2. Goto(c, NoCall) /\ NoCall \in {NoCall} \cup CallState /\ live'[u] = live[u]
  BY DEF RecordStorageAdd, RecordStorageRemove
<1>3. /\ Bytes(NoCall, u, "stored") = 0 /\ Objects(NoCall, u, "stored") = 0
      /\ Bytes(NoCall, u, "removed") = 0 /\ Objects(NoCall, u, "removed") = 0
  BY DEF Bytes, Objects, NoCall
<1>4. /\ UsageOf(u).storage_used \in Nat /\ UsageOf(u).object_count \in Nat
      /\ Total(live[u]) \in Nat /\ TotalBytes(live[u]) \in Nat /\ b \in Nat
  BY FitTypes, ObjectsTyped, SizeAssumption DEF QuotaTypeOK
<1>5. CASE RecordStorageAdd(c)
  <2>1. /\ Bytes(call[c], u, "removed") = 0 /\ Objects(call[c], u, "removed") = 0
        /\ Bytes(call[c], u, "stored") = (IF u = t THEN b ELSE 0)
        /\ Objects(call[c], u, "stored") = (IF u = t THEN 1 ELSE 0)
    BY <1>1, <1>5 DEF Bytes, Objects, RecordStorageAdd
  <2>2. IF u = t THEN /\ UsageOf(u)'.storage_used = UsageOf(u).storage_used + b
                      /\ UsageOf(u)'.object_count = UsageOf(u).object_count + 1
        ELSE UsageOf(u)' = UsageOf(u)
    <3>1. IF u = call[c].tenant
          THEN /\ UsageOf(u)'.storage_used = UsageOf(u).storage_used + call[c].bytes
               /\ UsageOf(u)'.object_count = UsageOf(u).object_count + 1
          ELSE UsageOf(u)' = UsageOf(u)
      BY <1>5, RecordAddTotals, Zenon
    <3> QED
      BY <1>1, <3>1
  <2>3. /\ TotalBytes(live[u]) + 0 + UsageOf(u).storage_used + (IF u = t THEN b ELSE 0)
             <= TotalBytes(live[u]) + 0 + UsageOf(u)'.storage_used + 0
        /\ Total(live[u]) + 0 + UsageOf(u).object_count + (IF u = t THEN 1 ELSE 0)
             <= Total(live[u]) + 0 + UsageOf(u)'.object_count + 0
    BY <1>4, <2>2
  <2> QED
    BY <1>2, <1>3, <2>1, <2>3, CallCovers
<1>6. CASE RecordStorageRemove(c)
  <2>1. /\ Bytes(call[c], u, "stored") = 0 /\ Objects(call[c], u, "stored") = 0
        /\ Bytes(call[c], u, "removed") = (IF u = t THEN b ELSE 0)
        /\ Objects(call[c], u, "removed") = (IF u = t THEN 1 ELSE 0)
    BY <1>1, <1>6 DEF Bytes, Objects, RecordStorageRemove
  <2>2. IF u = t THEN /\ UsageOf(u)'.storage_used = saturating_sub(UsageOf(u).storage_used, b)
                      /\ UsageOf(u)'.object_count = saturating_sub(UsageOf(u).object_count, 1)
        ELSE UsageOf(u)' = UsageOf(u)
    <3>1. IF u = call[c].tenant
          THEN /\ UsageOf(u)'.storage_used = saturating_sub(UsageOf(u).storage_used, call[c].bytes)
               /\ UsageOf(u)'.object_count = saturating_sub(UsageOf(u).object_count, 1)
          ELSE UsageOf(u)' = UsageOf(u)
      BY <1>6, RecordRemoveTotals, Zenon
    <3> QED
      BY <1>1, <3>1
  <2>3. \A x, y \in Nat : saturating_sub(x, y) \in Nat /\ x <= saturating_sub(x, y) + y
    BY DEF saturating_sub
  <2>4. IF u = t THEN /\ UsageOf(u)'.storage_used \in Nat
                      /\ UsageOf(u).storage_used <= UsageOf(u)'.storage_used + b
                      /\ UsageOf(u)'.object_count \in Nat
                      /\ UsageOf(u).object_count <= UsageOf(u)'.object_count + 1
        ELSE UsageOf(u)' = UsageOf(u)
    BY <1>4, <2>2, <2>3
  <2>5. /\ TotalBytes(live[u]) + 0 + UsageOf(u).storage_used + 0
             <= TotalBytes(live[u]) + (IF u = t THEN b ELSE 0) + UsageOf(u)'.storage_used + 0
        /\ Total(live[u]) + 0 + UsageOf(u).object_count + 0
             <= Total(live[u]) + (IF u = t THEN 1 ELSE 0) + UsageOf(u)'.object_count + 0
    BY <1>4, <2>4
  <2> QED
    BY <1>2, <1>3, <2>1, <2>5, CallCovers
<1> QED
  BY <1>5, <1>6

LEMMA StepCovers ==
    UsageCovers /\ QuotaTypeOK /\ QuotaTypeOK' /\ [QuotaNext]_quotaVars => UsageCovers'
<1> SUFFICES ASSUME UsageCovers, QuotaTypeOK, QuotaTypeOK', [QuotaNext]_quotaVars, NEW u \in Tenant
             PROVE  Covers(u)'
  <2>1. (UsageCovers <=> \A t \in Tenant : Covers(t))'
    BY CoversAll, PTL
  <2> QED
    BY <2>1
<1>1. Covers(u)
  BY CoversAll
<1>2. ASSUME UNCHANGED <<call, live>>, UsageOf(u)'.storage_used = UsageOf(u).storage_used,
             UsageOf(u)'.object_count = UsageOf(u).object_count
      PROVE  Covers(u)'
  BY <1>1, <1>2 DEF Covers
<1>3. CASE Configures
  BY <1>2, <1>3 DEF Configures, SetQuota, UsageOf
<1>4. CASE Requests \/ QuotaTick \/ UNCHANGED quotaVars
  BY <1>2, <1>4, RequestTotals DEF Requests
<1>5. ASSUME NEW c \in Caller, NEW t \in Tenant, NEW b \in Size, CheckStorage(c, t, b) PROVE Covers(u)'
  <2>1. PICK state \in CallState : state = [at |-> "storage_ok", tenant |-> t, bytes |-> b]
    BY DEF CallState
  <2>2. /\ Goto(c, state) /\ state.at \notin {"stored", "removed"} /\ call[c].at \notin {"stored", "removed"}
        /\ live' = live /\ usage' = usage
    BY <1>5, <2>1 DEF CheckStorage
  <2> QED
    BY <1>1, <2>2, QuietCovers
<1>6. ASSUME NEW c \in Caller, CheckObjects(c) PROVE Covers(u)'
  <2>1. call[c].at = "storage_ok" /\ live' = live /\ usage' = usage
    BY <1>6 DEF CheckObjects
  <2>2. PICK state \in {NoCall} \cup CallState : Goto(c, state) /\ state.at \in {"idle", "admitted"}
    <3>1. [call[c] EXCEPT !.at = "admitted"] \in CallState
      BY <2>1, CallTyped DEF CallState
    <3>2. [call[c] EXCEPT !.at = "admitted"].at = "admitted" /\ NoCall.at = "idle"
      BY <2>1, CallTyped DEF CallState, NoCall
    <3> QED
      BY <1>6, <3>1, <3>2 DEF CheckObjects
  <2> QED
    BY <1>1, <2>1, <2>2, QuietCovers
<1>7. ASSUME NEW c \in Caller, Calls(c) PROVE Covers(u)'
  BY <1>1, <1>5, <1>6, <1>7, StoreCovers, RemoveCovers, RecordCovers DEF Calls
<1> QED
  BY <1>3, <1>4, <1>7 DEF QuotaNext, Stores

\* record_storage_add and record_storage_remove, in any order: the totals and what is still
\* to be recorded are never below what a tenant really stores.
THEOREM UsageIsCovered == QuotaSpec => []UsageCovers
<1>1. QuotaInit => UsageCovers
  <2> SUFFICES ASSUME QuotaInit, NEW t \in Tenant PROVE Covers(t)
    BY CoversAll
  <2>1. At(call, t, "stored") = {} /\ At(call, t, "removed") = {}
    BY DEF QuotaInit, At, NoCall
  <2>2. live[t] = [s \in Size |-> 0] /\ live[t] \in [Size -> Nat]
    BY DEF QuotaInit
  <2>3. Total(live[t]) = 0 /\ TotalBytes(live[t]) = 0
    <3> DEFINE zero == [s \in Size |-> 0]
    <3>1. SumFunctionOnSet(zero, Size) = 0
      <4>1. SumFunctionOnSet(zero, Size) <= Cardinality(Size) * 0
        <5>1. \A s \in Size : zero[s] \in 0..0
          OBVIOUS
        <5> HIDE DEF zero
        <5> QED
          BY <5>1, SizeFinite, SumAtMost
      <4>2. SumFunctionOnSet(zero, Size) \in Nat /\ Cardinality(Size) \in Nat
        BY SizeFinite, SumOfRest, FS_CardinalityType
      <4> QED
        BY <4>1, <4>2
    <3>2. [s \in Size |-> s * zero[s]] = zero
      BY SizeFinite
    <3> QED
      BY <2>2, <3>1, <3>2 DEF Total, TotalBytes, SumFunction
  <2>4. BytesAt(call, {}) = 0
    BY SumOfRest, FS_EmptySet DEF BytesAt
  <2>5. UsageOf(t).storage_used = 0 /\ UsageOf(t).object_count = 0
    BY DEF QuotaInit, UsageOf, NoUsage
  <2>6. Cardinality({}) = 0
    BY FS_EmptySet
  <2> QED
    BY <2>1, <2>3, <2>4, <2>5, <2>6, NothingAdded, Zenon DEF Covers
<1> QED
  BY <1>1, StepCovers, QuotaTypes, PTL DEF QuotaSpec

LEMMA BytesAtMost ==
    ASSUME NEW calls, NEW P \in SUBSET Caller, \A d \in P : calls[d].bytes \in Size
    PROVE  BytesAt(calls, P) \in Nat /\ BytesAt(calls, P) <= Cardinality(P) * Largest
<1> DEFINE f == [d \in P |-> calls[d].bytes]
<1>1. IsFiniteSet(P) /\ Largest \in Nat
  BY CallersCount, LargestSize
<1>2. \A d \in P : f[d] \in 0..Largest /\ f[d] \in Nat
  BY LargestSize
<1>3. BytesAt(calls, P) = SumFunctionOnSet(f, P)
  BY DEF BytesAt
<1> HIDE DEF f
<1> QED
  BY <1>1, <1>2, <1>3, SumAtMost, SumOfRest

\* The bytes to be recorded fit as well: they were checked.
LEMMA FitsStored ==
    ASSUME QuotaTypeOK, NEW t \in Tenant, NEW used \in Nat, NEW limit \in Nat,
           Fits(used, call, Checked(t), limit)
    PROVE  used + BytesAt(call, At(call, t, "stored")) <= limit + Others * Largest
<1>1. PICK P : P = Checked(t)
  OBVIOUS
<1>2. PICK A : A = At(call, t, "stored")
  OBVIOUS
<1>3. P \in SUBSET Caller /\ A \subseteq P /\ \A d \in P : call[d].bytes \in Size
  BY <1>1, <1>2, FitTypes DEF Checked, At
<1>4. Largest \in Nat /\ Others * Largest \in Nat
  BY LargestSize, CallersCount
<1>5. CASE used + Cardinality(P) * Largest <= limit + Others * Largest
  <2>1. BytesAt(call, A) \in Nat /\ BytesAt(call, A) <= Cardinality(A) * Largest
    BY <1>3, BytesAtMost
  <2>2. Cardinality(A) \in Nat /\ Cardinality(P) \in Nat /\ Cardinality(A) <= Cardinality(P)
    BY <1>3, CallersCount, FS_Subset
  <2>3. /\ Cardinality(A) * Largest <= Cardinality(P) * Largest
        /\ Cardinality(A) * Largest \in Nat /\ Cardinality(P) * Largest \in Nat
    BY <1>4, <2>2, TimesUp
  <2> QED
    <3>1. PICK x \in Nat, y \in Nat, k \in Nat, j \in Nat :
              /\ x = BytesAt(call, A) /\ y = Cardinality(A) * Largest
              /\ k = Cardinality(P) * Largest /\ j = Others * Largest
      BY <1>4, <2>1, <2>3, Zenon
    <3>2. x <= y /\ y <= k /\ used + k <= limit + j
      BY <1>5, <2>1, <2>3, <3>1, Zenon
    <3>3. used + x <= limit + j
      BY <3>2
    <3> QED
      BY <1>2, <3>1, <3>3, Zenon
<1>6. ASSUME NEW d \in P, used + call[d].bytes + (Cardinality(P) - 1) * Largest <= limit + Others * Largest
      PROVE  used + BytesAt(call, A) <= limit + Others * Largest
  <2>1. /\ BytesAt(call, A) = BytesAt(call, A \ {d}) + Bytes(call[d], t, "stored")
        /\ BytesAt(call, A \ {d}) \in Nat
    <3>1. call \in [Caller -> {NoCall} \cup CallState] /\ d \in Caller
      BY <1>3 DEF QuotaTypeOK, CallState
    <3>2. "stored" \in {"stored", "removed"}
      OBVIOUS
    <3> QED
      BY <1>2, <3>1, <3>2, BytesSplit
  <2>2. BytesAt(call, A \ {d}) <= Cardinality(A \ {d}) * Largest
    <3>1. A \ {d} \in SUBSET Caller /\ \A e \in A \ {d} : call[e].bytes \in Size
      BY <1>3
    <3> QED
      BY <3>1, BytesAtMost
  <2>3. /\ Cardinality(A \ {d}) \in Nat /\ Cardinality(P) - 1 \in Nat
        /\ Cardinality(A \ {d}) <= Cardinality(P) - 1
    <3>1. IsFiniteSet(P) /\ Cardinality(P \ {d}) = Cardinality(P) - 1
      BY <1>3, CallersCount, FS_RemoveElement
    <3>2. A \ {d} \subseteq P \ {d} /\ A \ {d} \in SUBSET Caller /\ P \ {d} \in SUBSET Caller
      BY <1>3
    <3>3. Cardinality(A \ {d}) <= Cardinality(P \ {d})
      BY <3>2, CallersCount, FS_Subset
    <3> QED
      BY <3>1, <3>2, <3>3, CallersCount
  <2>4. /\ Cardinality(A \ {d}) * Largest <= (Cardinality(P) - 1) * Largest
        /\ Cardinality(A \ {d}) * Largest \in Nat /\ (Cardinality(P) - 1) * Largest \in Nat
    BY <1>4, <2>3, TimesUp
  <2>5. call[d].bytes \in Nat /\ Bytes(call[d], t, "stored") \in 0..call[d].bytes
    BY <1>3, LargestSize DEF Bytes
  <2> QED
    <3>1. PICK x \in Nat, y \in Nat, k \in Nat, j \in Nat :
              /\ x = BytesAt(call, A \ {d}) /\ y = Cardinality(A \ {d}) * Largest
              /\ k = (Cardinality(P) - 1) * Largest /\ j = Others * Largest
      BY <1>4, <2>1, <2>4, Zenon
    <3>2. PICK b \in Nat : b = call[d].bytes
      BY <2>5, Zenon
    <3>3. PICK s \in 0..b : s = Bytes(call[d], t, "stored")
      BY <2>5, <3>2, Zenon
    <3>4. x <= y /\ y <= k /\ used + b + k <= limit + j /\ BytesAt(call, A) = x + s
      BY <1>6, <2>1, <2>2, <2>4, <3>1, <3>2, <3>3, Zenon
    <3>5. used + (x + s) <= limit + j
      BY <3>4
    <3> QED
      BY <3>1, <3>4, <3>5, Zenon
<1> QED
  BY <1>1, <1>2, <1>5, <1>6 DEF Fits

\* check_storage, check_objects and the two records: what a tenant really stores exceeds
\* the largest limit so far by one object for every other caller at most.
THEOREM StoredIsBounded == QuotaSpec => []StoredBounded
<1>1. QInv /\ UsageCovers => StoredBounded
  <2> SUFFICES ASSUME QInv, UsageCovers, NEW t \in Tenant
               PROVE  /\ Within(ceiling[t].storage_limit, LiveBytes(t) - Others * Largest)
                      /\ Within(ceiling[t].object_limit, LiveObjects(t) - Others)
    BY DEF StoredBounded, Others, Largest
  <2>1. QuotaTypeOK /\ TenantFits(t) /\ Covers(t)
    BY CoversAll DEF QInv
  <2>2. /\ UsageOf(t).storage_used \in Nat /\ UsageOf(t).object_count \in Nat
        /\ ceiling[t].storage_limit \in Nat /\ ceiling[t].object_limit \in Nat
        /\ Cardinality(Counted(t)) \in Nat /\ Counted(t) \in SUBSET Caller
    BY <2>1, FitTypes
  <2>3. Others \in Nat /\ Others * Largest \in Nat
    BY CallersCount, LargestSize
  <2>4. live[t] \in [Size -> Nat] /\ LiveBytes(t) = TotalBytes(live[t]) /\ LiveObjects(t) = Total(live[t])
    BY <2>1 DEF QuotaTypeOK, LiveBytes, LiveObjects, Total, TotalBytes
  <2>5. LiveBytes(t) \in Nat /\ LiveObjects(t) \in Nat
    BY <2>4, ObjectsTyped
  <2>6. At(call, t, "stored") \in SUBSET Caller /\ At(call, t, "removed") \in SUBSET Caller
    BY DEF At
  <2>7. \A at \in {"stored", "removed"} :
          BytesAt(call, At(call, t, at)) \in Nat /\ Cardinality(At(call, t, at)) \in Nat
    <3> SUFFICES ASSUME NEW at \in {"stored", "removed"}
                 PROVE  BytesAt(call, At(call, t, at)) \in Nat /\ Cardinality(At(call, t, at)) \in Nat
      OBVIOUS
    <3>1. At(call, t, at) \in SUBSET Caller
      BY DEF At
    <3>2. \A d \in At(call, t, at) : call[d].bytes \in Size
      BY <2>1, CallTyped DEF At
    <3> QED
      BY <3>1, <3>2, BytesAtMost, CallersCount
  <2>8. ceiling[t].storage_limit # 0 => LiveBytes(t) - Others * Largest <= ceiling[t].storage_limit
    <3> SUFFICES ASSUME ceiling[t].storage_limit # 0
                 PROVE  LiveBytes(t) - Others * Largest <= ceiling[t].storage_limit
      OBVIOUS
    <3>1. UsageOf(t).storage_used + BytesAt(call, At(call, t, "stored"))
            <= ceiling[t].storage_limit + Others * Largest
      BY <2>1, <2>2, FitsStored DEF TenantFits, StorageFits
    <3>2. LiveBytes(t) + BytesAt(call, At(call, t, "removed"))
            <= UsageOf(t).storage_used + BytesAt(call, At(call, t, "stored"))
      BY <2>1, <2>4 DEF Covers
    <3>3. PICK x \in Nat, r \in Nat, y \in Nat, a \in Nat :
              /\ x = LiveBytes(t) /\ r = BytesAt(call, At(call, t, "removed"))
              /\ y = UsageOf(t).storage_used /\ a = BytesAt(call, At(call, t, "stored"))
      BY <2>2, <2>5, <2>7
    <3>4. PICK m \in Nat, j \in Nat : m = ceiling[t].storage_limit /\ j = Others * Largest
      BY <2>2, <2>3, Zenon
    <3>5. y + a <= m + j /\ x + r <= y + a
      BY <3>1, <3>2, <3>3, <3>4, Zenon
    <3>6. x - j <= m
      BY <3>5
    <3> QED
      BY <3>3, <3>4, <3>6, Zenon
  <2>9. ceiling[t].object_limit # 0 => LiveObjects(t) - Others <= ceiling[t].object_limit
    <3> SUFFICES ASSUME ceiling[t].object_limit # 0
                 PROVE  LiveObjects(t) - Others <= ceiling[t].object_limit
      OBVIOUS
    <3>1. UsageOf(t).object_count + Cardinality(Counted(t)) <= ceiling[t].object_limit + Others
      BY <2>1 DEF TenantFits, ObjectsFit
    <3>2. Cardinality(At(call, t, "stored")) <= Cardinality(Counted(t))
      <4>1. At(call, t, "stored") \subseteq Counted(t)
        BY DEF At, Counted
      <4> QED
        BY <2>2, <4>1, CallersCount, FS_Subset
    <3>3. LiveObjects(t) + Cardinality(At(call, t, "removed"))
            <= UsageOf(t).object_count + Cardinality(At(call, t, "stored"))
      BY <2>1, <2>4 DEF Covers
    <3>4. PICK x \in Nat, r \in Nat, y \in Nat, a \in Nat :
              /\ x = LiveObjects(t) /\ r = Cardinality(At(call, t, "removed"))
              /\ y = UsageOf(t).object_count /\ a = Cardinality(At(call, t, "stored"))
      BY <2>2, <2>5, <2>7
    <3>5. PICK m \in Nat, j \in Nat, n \in Nat :
              m = ceiling[t].object_limit /\ j = Others /\ n = Cardinality(Counted(t))
      BY <2>2, <2>3, Zenon
    <3>6. y + n <= m + j /\ a <= n /\ x + r <= y + a
      BY <3>1, <3>2, <3>3, <3>4, <3>5, Zenon
    <3>7. x - j <= m
      BY <3>6
    <3> QED
      BY <3>4, <3>5, <3>7, Zenon
  <2> QED
    BY <2>8, <2>9 DEF Within
<1> QED
  BY <1>1, InitQInv, StepQInv, UsageIsCovered, QuotaTypes, PTL DEF QuotaSpec
=============================================================================
