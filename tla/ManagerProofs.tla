--------------------------- MODULE ManagerProofs ---------------------------
(***************************************************************************)
(* Proofs about the managers beside the store: the rate limiter's bound    *)
(* and its answers; what placement promises for every set of volumes; and  *)
(* which calls can deadlock on the locks.                                  *)
(***************************************************************************)
EXTENDS RateLimiter, Placement, LockOrder, FiniteSetTheorems, TLAPS

----------------------------------------------------------------------------
(* The rate limiter: arithmetic *)

\* The smaller of two integers, as SMT can use it.
LEMMA MinOfTwo ==
    ASSUME NEW a \in Int, NEW b \in Int
    PROVE  Min({a, b}) = IF a <= b THEN a ELSE b
<1> DEFINE m == IF a <= b THEN a ELSE b
<1>1. m \in {a, b} /\ \A x \in {a, b} : m <= x
  OBVIOUS
<1>2. \A y \in {a, b} : (\A x \in {a, b} : y <= x) => y = m
  OBVIOUS
<1> QED BY <1>1, <1>2 DEF Min

\* One more request costs Cost units more.
LEMMA CostStep ==
    ASSUME NEW n \in Nat
    PROVE  /\ Cost * n \in Nat
           /\ Cost * (n + 1) = Cost * n + Cost
           /\ n > 0 => Cost * n >= Cost
BY CostAssumption

\* Whole tokens, priced again, are no more than the units there were.
LEMMA DivBound ==
    ASSUME NEW t \in Nat
    PROVE  t \div Cost \in Nat /\ Cost * (t \div Cost) <= t
BY CostAssumption

\* A bucket never announces more than the burst.
LEMMA DivUpper ==
    ASSUME NEW t \in 0..Full
    PROVE  t \div Cost <= Burst
<1> DEFINE q == t \div Cost
<1>1. q \in Nat /\ Cost * q <= Cost * Burst
  BY DivBound, CostAssumption, BurstAssumption DEF Full
<1> HIDE DEF q
<1>2. ASSUME q >= Burst + 1 PROVE FALSE
  <2>1. Cost * q >= Cost * (Burst + 1)
    BY <1>1, <1>2, CostAssumption, BurstAssumption
  <2> QED BY <1>1, <2>1, CostStep, CostAssumption, BurstAssumption
<1>3. q <= Burst
  BY <1>1, <1>2, BurstAssumption
<1> QED BY <1>3 DEF q

\* A full bucket pays for at least one request.
LEMMA FullNat == Full \in Nat /\ Full >= Cost
BY CostAssumption, BurstAssumption DEF Full

----------------------------------------------------------------------------
(* The rate limiter: types *)

\* The units that a bucket gives at tick t, and those of an address now.
Level(b, t) ==
    IF b = None \/ Full <= b.tokens + (t - b.last_refill) THEN Full
    ELSE b.tokens + (t - b.last_refill)

Avail(ip) == Level(buckets[ip], now)

\* Buckets are not refilled in the future.
PastRefill == \A ip \in IP : buckets[ip] # None => buckets[ip].last_refill <= now

TInv == TypeOK /\ PastRefill

\* Time adds a unit with every tick until the bucket is full; a bucket that
\* was just filled has what is in it, and one idle for Full ticks is full.
LEMMA LevelFacts ==
    ASSUME NEW t \in Nat, NEW b \in Bucket \cup {None}, b # None => b.last_refill <= t
    PROVE  /\ Level(b, t) \in 0..Full
           /\ Level(b, t) <= Level(b, t + 1)
           /\ Level(b, t + 1) = Full \/ Level(b, t + 1) = Level(b, t) + 1
           /\ b # None /\ b.last_refill = t => Level(b, t) = b.tokens
           /\ b # None /\ t - b.last_refill >= Full => Level(b, t) = Full
<1>1. CASE b = None
  BY <1>1, FullNat DEF Level
<1>2. CASE b # None
  BY <1>2, FullNat, MaxNowAssumption DEF Level, Bucket
<1> QED BY <1>1, <1>2

\* What a check finds in a bucket.
LEMMA RefilledFacts ==
    ASSUME TInv, NEW ip \in IP
    PROVE  /\ Refilled(ip) = [tokens |-> Avail(ip), last_refill |-> now]
           /\ Avail(ip) \in 0..Full
<1>1. now \in Nat /\ Full \in Nat
  BY FullNat, MaxNowAssumption DEF TInv, TypeOK
<1>2. Avail(ip) \in 0..Full
  BY <1>1, LevelFacts DEF TInv, TypeOK, PastRefill, Avail
<1>3. CASE buckets[ip] = None
  <2>1. Refilled(ip) = [tokens |-> Min({Full, Full + (now - now)}), last_refill |-> now]
    BY <1>3 DEF Refilled, refill, NewBucket
  <2>2. Min({Full, Full + (now - now)}) = Full
    BY <1>1, MinOfTwo
  <2> QED BY <1>2, <1>3, <2>1, <2>2 DEF Avail, Level
<1>4. CASE buckets[ip] # None
  <2> DEFINE t == buckets[ip].tokens + (now - buckets[ip].last_refill)
  <2>1. t \in Int
    BY <1>1, <1>4, MaxNowAssumption DEF TInv, TypeOK, Bucket
  <2>2. Refilled(ip) = [tokens |-> Min({Full, t}), last_refill |-> now]
    BY <1>4 DEF Refilled, refill
  <2>3. Min({Full, t}) = Avail(ip)
    BY <1>1, <1>4, <2>1, MinOfTwo DEF Avail, Level
  <2> QED BY <1>2, <2>2, <2>3
<1> QED BY <1>3, <1>4

\* Types hold at the start.
LEMMA TypesInit == Init => TInv
BY FullNat, BurstAssumption, MaxNowAssumption DEF Init, TInv, TypeOK, PastRefill, Answer

\* Every step keeps the types.
LEMMA TypesStep == TInv /\ [Next]_vars => TInv'
<1> SUFFICES ASSUME TInv, [Next]_vars PROVE TInv'
  OBVIOUS
<1>0. now \in 0..MaxNow /\ Full \in Nat
  BY FullNat DEF TInv, TypeOK
<1>1. ASSUME NEW ip \in IP, CheckAllowed(ip) PROVE TInv'
  <2> DEFINE b == [tokens |-> Avail(ip) - Cost, last_refill |-> now]
  <2>1. b = [Refilled(ip) EXCEPT !.tokens = @ - Cost] /\ b \in Bucket
         /\ b.tokens \in 0..Full /\ b.last_refill = now
    BY <1>0, <1>1, RefilledFacts, CostAssumption DEF CheckAllowed, Bucket
  <2>2. buckets' = [buckets EXCEPT ![ip] = b]
    BY <1>1, <2>1 DEF CheckAllowed
  <2>3. last' = [last EXCEPT ![ip] =
                    [allowed |-> TRUE, at |-> now, remaining |-> remaining(b), due |-> 0]]
    BY <1>1, <2>1 DEF CheckAllowed
  <2> HIDE DEF b
  <2>4. remaining(b) \in 0..Burst
    <3>1. b.tokens \in Nat
      BY <1>0, <2>1
    <3> QED BY <2>1, <3>1, DivBound, DivUpper, BurstAssumption DEF remaining
  <2>5. last' \in [IP -> Answer]
    BY <1>0, <2>3, <2>4 DEF TInv, TypeOK, Answer
  <2>6. admitted' \in [IP -> [0..MaxNow -> Nat]]
    <3>1. \A n \in Nat : n + 1 \in Nat /\ n + 0 \in Nat
      OBVIOUS
    <3> QED BY <1>1, <3>1 DEF CheckAllowed, CountAdmission, TInv, TypeOK
  <2>7. now' = now /\ enabled' = enabled
    BY <1>1 DEF CheckAllowed
  <2>8. buckets' \in [IP -> Bucket \cup {None}] /\ PastRefill'
    BY <1>0, <2>1, <2>2, <2>7, NoneAssumption DEF TInv, TypeOK, PastRefill
  <2> QED BY <2>5, <2>6, <2>7, <2>8 DEF TInv, TypeOK
<1>2. ASSUME NEW ip \in IP, CheckLimited(ip) PROVE TInv'
  <2> DEFINE b == Refilled(ip)
  <2>1. b \in Bucket /\ b.last_refill = now /\ b.tokens \in 0..Full /\ b.tokens < Cost
    BY <1>0, <1>2, RefilledFacts DEF CheckLimited, Bucket
  <2>2. retry_at(b) \in Nat
    BY <1>0, <2>1, CostAssumption DEF retry_at
  <2>3. last' \in [IP -> Answer]
    BY <1>0, <1>2, <2>2, BurstAssumption DEF CheckLimited, TInv, TypeOK, Answer
  <2>4. buckets' = [buckets EXCEPT ![ip] = b] /\ UNCHANGED <<enabled, now, admitted>>
    BY <1>2 DEF CheckLimited
  <2> HIDE DEF b
  <2>5. buckets' \in [IP -> Bucket \cup {None}] /\ PastRefill'
    BY <1>0, <2>1, <2>4, NoneAssumption DEF TInv, TypeOK, PastRefill
  <2> QED BY <2>3, <2>4, <2>5 DEF TInv, TypeOK
<1>3. CASE Cleanup
  BY <1>3 DEF Cleanup, TInv, TypeOK, PastRefill
<1>4. CASE Tick
  <2>1. now' \in 0..MaxNow /\ now < now'
    BY <1>0, <1>4, MaxNowAssumption DEF Tick
  <2>2. PastRefill'
    BY <1>0, <1>4, <2>1 DEF Tick, TInv, TypeOK, PastRefill, Bucket
  <2> QED BY <1>4, <2>1, <2>2 DEF Tick, TInv, TypeOK
<1>5. CASE UNCHANGED vars
  BY <1>5 DEF vars, TInv, TypeOK, PastRefill
<1> QED BY <1>1, <1>2, <1>3, <1>4, <1>5 DEF Next

\* Every variable keeps its type: a bucket never holds more than the burst
\* (TokenBucket::refill, try_consume).
THEOREM TypeCorrect == Spec => []TypeOK
<1>1. Spec => []TInv
  BY TypesInit, TypesStep, PTL DEF Spec
<1>2. TInv => TypeOK
  BY DEF TInv
<1> QED BY <1>1, <1>2, PTL

----------------------------------------------------------------------------
(* The rate limiter: the bound and the promises *)

\* Nothing was admitted at a later tick than now.
FutureZero == \A ip \in IP : \A s \in 0..MaxNow : s > now => admitted[ip][s] = 0

\* What was spent since a tick and what is left was there or came in since.
SpentAndLeft ==
    \A ip \in IP : \A s \in 0..now : Cost * admitted[ip][s] + Avail(ip) <= Full + (now - s)

\* The bucket covers what the last answer announced.
Covered ==
    \A ip \in IP :
        IF last[ip].allowed THEN Cost * last[ip].remaining <= Avail(ip)
        ELSE Avail(ip) >= Cost \/ Avail(ip) + last[ip].due - now >= Cost

IInv == TInv /\ FutureZero /\ SpentAndLeft /\ Covered

LEMMA IInvInit == Init => IInv
<1> SUFFICES ASSUME Init PROVE IInv
  OBVIOUS
<1>1. TInv
  BY TypesInit
<1>2. now = 0 /\ \A ip \in IP : Avail(ip) = Full
  BY DEF Init, Avail, Level
<1>3. \A ip \in IP : \A s \in 0..MaxNow : admitted[ip][s] = 0
  BY DEF Init
<1>4. Cost * 0 = 0 /\ Full \in Nat /\ 0 \in 0..MaxNow
  BY FullNat, CostAssumption, MaxNowAssumption
<1>5. FutureZero /\ SpentAndLeft
  BY <1>2, <1>3, <1>4 DEF FutureZero, SpentAndLeft
<1>6. Covered
  BY <1>2, <1>4 DEF Covered, Init, Full
<1> QED BY <1>1, <1>5, <1>6 DEF IInv

\* Facts about the state that every case below uses.
LEMMA IInvFacts ==
    ASSUME IInv
    PROVE  /\ TInv /\ now \in 0..MaxNow /\ now \in Nat /\ Full \in Nat /\ Cost \in Nat
           /\ \A ip \in IP : Avail(ip) \in 0..Full
           /\ \A ip \in IP : \A s \in 0..MaxNow :
                 admitted[ip][s] \in Nat /\ Cost * admitted[ip][s] \in Nat
<1>1. TInv /\ now \in 0..MaxNow /\ now \in Nat /\ Full \in Nat /\ Cost \in Nat
  BY FullNat, CostAssumption, MaxNowAssumption DEF IInv, TInv, TypeOK
<1>2. \A ip \in IP : Avail(ip) \in 0..Full
  BY <1>1, RefilledFacts
<1>3. \A ip \in IP : \A s \in 0..MaxNow : admitted[ip][s] \in Nat
  BY <1>1 DEF TInv, TypeOK
<1> QED BY <1>1, <1>2, <1>3, CostStep

\* An admitted request takes from the bucket what it adds to the count.
LEMMA AllowedKeeps ==
    ASSUME IInv, NEW ip \in IP, CheckAllowed(ip)
    PROVE  FutureZero' /\ SpentAndLeft' /\ Covered'
<1> DEFINE b == [tokens |-> Avail(ip) - Cost, last_refill |-> now]
<1>0. /\ TInv /\ now \in 0..MaxNow /\ now \in Nat /\ Full \in Nat /\ Cost \in Nat
      /\ \A i \in IP : Avail(i) \in 0..Full
  BY IInvFacts
<1>1. /\ b = [Refilled(ip) EXCEPT !.tokens = @ - Cost] /\ b \in Bucket
      /\ b.tokens = Avail(ip) - Cost /\ b.tokens \in Nat /\ b.last_refill = now
  BY <1>0, RefilledFacts DEF CheckAllowed, Bucket
<1>2. /\ buckets' = [buckets EXCEPT ![ip] = b] /\ now' = now
      /\ last' = [last EXCEPT ![ip] =
                     [allowed |-> TRUE, at |-> now, remaining |-> remaining(b), due |-> 0]]
  BY <1>1 DEF CheckAllowed
<1> HIDE DEF b
<1>3. Avail(ip)' = Avail(ip) - Cost /\ \A i \in IP \ {ip} : Avail(i)' = Avail(i)
  <2>1. Level(b, now) = b.tokens
    <3>1. now \in Nat /\ b \in Bucket \cup {None} /\ b # None /\ b.last_refill <= now
      BY <1>0, <1>1, NoneAssumption
    <3> QED BY <1>1, <3>1, LevelFacts
  <2>2. buckets'[ip] = b /\ \A i \in IP \ {ip} : buckets'[i] = buckets[i]
    BY <1>2, <1>0 DEF TInv, TypeOK
  <2> QED BY <1>1, <1>2, <2>1, <2>2 DEF Avail
<1>4. /\ \A i \in IP \ {ip} : \A s \in 0..MaxNow : admitted'[i][s] = admitted[i][s]
      /\ \A s \in 0..MaxNow : admitted'[ip][s] = IF s <= now THEN admitted[ip][s] + 1
                                                ELSE admitted[ip][s]
  <2>1. admitted' = [admitted EXCEPT ![ip] =
                       [s \in 0..MaxNow |-> @[s] + (IF s <= now THEN 1 ELSE 0)]]
    BY DEF CheckAllowed, CountAdmission
  <2>2. \A n \in Nat : n + 0 = n
    OBVIOUS
  <2>3. admitted \in [IP -> [0..MaxNow -> Nat]]
    BY <1>0 DEF TInv, TypeOK
  <2> QED BY <2>1, <2>2, <2>3
<1>5. FutureZero'
  BY <1>0, <1>2, <1>4 DEF IInv, FutureZero
<1>6. ASSUME NEW i \in IP, NEW s \in 0..now
      PROVE  Cost * admitted'[i][s] + Avail(i)' <= Full + (now - s)
  <2>1. s \in 0..MaxNow /\ s <= now /\ admitted[i][s] \in Nat
    BY <1>0, IInvFacts, MaxNowAssumption
  <2>2. Cost * admitted[i][s] + Avail(i) <= Full + (now - s)
    BY DEF IInv, SpentAndLeft
  <2>3. CASE i = ip
    <3>1. admitted'[i][s] = admitted[i][s] + 1 /\ Avail(i)' = Avail(i) - Cost
      BY <1>3, <1>4, <2>1, <2>3
    <3>2. Cost * (admitted[i][s] + 1) = Cost * admitted[i][s] + Cost
      BY <2>1, CostStep
    <3>3. Cost * admitted[i][s] \in Nat
      BY <2>1, CostStep
    <3> QED BY <1>0, <2>2, <3>1, <3>2, <3>3
  <2>4. CASE i # ip
    BY <1>3, <1>4, <2>1, <2>2, <2>4
  <2> QED BY <2>3, <2>4
<1>7. SpentAndLeft'
  BY <1>2, <1>6 DEF SpentAndLeft
<1>8. Cost * remaining(b) <= b.tokens
  BY <1>1, DivBound DEF remaining
<1>9. Covered'
  BY <1>0, <1>1, <1>2, <1>3, <1>8 DEF IInv, TInv, TypeOK, Covered
<1> QED BY <1>5, <1>7, <1>9

\* A refused request only stores the refill, and announces what is missing.
LEMMA LimitedKeeps ==
    ASSUME IInv, NEW ip \in IP, CheckLimited(ip)
    PROVE  FutureZero' /\ SpentAndLeft' /\ Covered'
<1> DEFINE b == Refilled(ip)
<1>0. /\ TInv /\ now \in 0..MaxNow /\ now \in Nat /\ Full \in Nat /\ Cost \in Nat
      /\ \A i \in IP : Avail(i) \in 0..Full
  BY IInvFacts
<1>1. b = [tokens |-> Avail(ip), last_refill |-> now] /\ b \in Bucket
  BY <1>0, RefilledFacts DEF Bucket
<1>2. /\ buckets' = [buckets EXCEPT ![ip] = b] /\ now' = now /\ admitted' = admitted
      /\ last' = [last EXCEPT ![ip] =
                     [allowed |-> FALSE, at |-> now, remaining |-> 0, due |-> retry_at(b)]]
  BY DEF CheckLimited
<1> HIDE DEF b
<1>3. \A i \in IP : Avail(i)' = Avail(i)
  <2>1. Level(b, now) = b.tokens
    <3>1. now \in Nat /\ b \in Bucket \cup {None} /\ b # None /\ b.last_refill = now
          /\ b.last_refill <= now
      BY <1>0, <1>1, NoneAssumption
    <3> QED BY <3>1, LevelFacts
  <2>2. buckets'[ip] = b /\ \A i \in IP \ {ip} : buckets'[i] = buckets[i]
    BY <1>2, <1>0 DEF TInv, TypeOK
  <2> QED BY <1>1, <1>2, <2>1, <2>2 DEF Avail
<1>4. FutureZero' /\ SpentAndLeft'
  BY <1>2, <1>3 DEF IInv, FutureZero, SpentAndLeft
<1>5. Avail(ip) + retry_at(b) - now = Cost
  BY <1>0, <1>1 DEF retry_at
<1>6. Covered'
  BY <1>0, <1>2, <1>3, <1>5 DEF IInv, TInv, TypeOK, Covered
<1> QED BY <1>4, <1>6

\* A bucket that cleanup drops is full, and so is the one created later.
LEMMA CleanupKeeps ==
    ASSUME IInv, Cleanup
    PROVE  FutureZero' /\ SpentAndLeft' /\ Covered'
<1>0. TInv /\ now \in Nat /\ Full \in Nat
  BY IInvFacts
<1>1. now' = now /\ admitted' = admitted /\ last' = last
  BY DEF Cleanup
<1>2. ASSUME NEW i \in IP PROVE Avail(i)' = Avail(i)
  <2>1. CASE Idle(buckets[i])
    <3>1. buckets[i] \in Bucket /\ buckets[i] # None /\ now - buckets[i].last_refill >= Full
          /\ buckets[i].last_refill <= now
      BY <1>0, <2>1, WindowAssumption, MaxNowAssumption DEF Idle, TInv, TypeOK, PastRefill, Bucket
    <3>2. Level(buckets[i], now) = Full
      BY <1>0, <3>1, LevelFacts
    <3>3. buckets'[i] = None
      BY <2>1 DEF Cleanup
    <3> QED BY <1>1, <3>2, <3>3 DEF Avail, Level
  <2>2. CASE ~Idle(buckets[i])
    BY <1>1, <2>2 DEF Cleanup, Avail
  <2> QED BY <2>1, <2>2
<1> QED BY <1>1, <1>2 DEF IInv, FutureZero, SpentAndLeft, Covered

\* A tick adds at most one unit, and one unless the bucket is full.
LEMMA TickKeeps ==
    ASSUME IInv, Tick
    PROVE  FutureZero' /\ SpentAndLeft' /\ Covered'
<1>0. /\ TInv /\ now \in 0..MaxNow /\ now \in Nat /\ Full \in Nat /\ Full >= Cost
      /\ \A i \in IP : Avail(i) \in 0..Full
      /\ Cost \in Nat /\ Cost * 0 = 0
  BY IInvFacts, FullNat, CostAssumption
<1>1. /\ now' = now + 1 /\ now' \in 0..MaxNow
      /\ admitted' = admitted /\ last' = last /\ buckets' = buckets
  BY <1>0, MaxNowAssumption DEF Tick
<1>2. ASSUME NEW i \in IP
      PROVE  /\ Avail(i)' \in Nat /\ Avail(i)' <= Full
             /\ Avail(i) <= Avail(i)' /\ Avail(i)' <= Avail(i) + 1
             /\ Avail(i)' = Full \/ Avail(i)' = Avail(i) + 1
  <2>1. buckets[i] \in Bucket \cup {None} /\ (buckets[i] # None => buckets[i].last_refill <= now)
    BY <1>0 DEF TInv, TypeOK, PastRefill
  <2>2. buckets[i] # None => buckets[i].last_refill <= now + 1
    BY <1>0, <2>1, MaxNowAssumption DEF Bucket
  <2>3. Level(buckets[i], now + 1) \in 0..Full
    BY <1>0, <2>1, <2>2, LevelFacts
  <2>4. /\ Level(buckets[i], now) \in 0..Full
        /\ Level(buckets[i], now) <= Level(buckets[i], now + 1)
        /\ \/ Level(buckets[i], now + 1) = Full
           \/ Level(buckets[i], now + 1) = Level(buckets[i], now) + 1
    BY <1>0, <2>1, LevelFacts
  <2>5. Level(buckets[i], now + 1) <= Level(buckets[i], now) + 1
    BY <1>0, <2>1, MaxNowAssumption DEF Level, Bucket
  <2> QED BY <1>0, <1>1, <2>3, <2>4, <2>5 DEF Avail
<1>3. FutureZero'
  BY <1>0, <1>1 DEF IInv, FutureZero
<1>4. ASSUME NEW i \in IP, NEW s \in 0..now'
      PROVE  Cost * admitted[i][s] + Avail(i)' <= Full + (now' - s)
  <2>1. CASE s = now + 1
    <3>1. admitted[i][s] = 0
      BY <1>0, <1>1, <2>1 DEF IInv, FutureZero
    <3> QED BY <1>0, <1>1, <1>2, <2>1, <3>1
  <2>2. CASE s # now + 1
    <3>1. s \in 0..now /\ s \in 0..MaxNow
      BY <1>0, <1>1, <2>2, MaxNowAssumption
    <3>2. Cost * admitted[i][s] + Avail(i) <= Full + (now - s) /\ Cost * admitted[i][s] \in Nat
      BY <3>1, IInvFacts DEF IInv, SpentAndLeft
    <3> HIDE DEF Avail
    <3> QED BY <1>0, <1>1, <1>2, <3>1, <3>2
  <2> QED BY <2>1, <2>2
<1>5. SpentAndLeft'
  BY <1>1, <1>4 DEF SpentAndLeft
<1>6. ASSUME NEW i \in IP
      PROVE  IF last[i].allowed THEN Cost * last[i].remaining <= Avail(i)'
             ELSE Avail(i)' >= Cost \/ Avail(i)' + last[i].due - now' >= Cost
  <2>1. last[i].remaining \in Nat /\ last[i].due \in Nat /\ Cost * last[i].remaining \in Nat
    BY <1>0, CostStep, BurstAssumption DEF TInv, TypeOK, Answer
  <2>2. CASE last[i].allowed
    BY <1>0, <1>2, <2>1, <2>2 DEF IInv, Covered
  <2>3. CASE ~last[i].allowed
    BY <1>0, <1>1, <1>2, <2>1, <2>3 DEF IInv, Covered
  <2> QED BY <2>2, <2>3
<1>7. Covered'
  BY <1>1, <1>6 DEF Covered
<1> QED BY <1>3, <1>5, <1>7

\* The invariant is inductive.
LEMMA IInvStep == IInv /\ [Next]_vars => IInv'
<1> SUFFICES ASSUME IInv, [Next]_vars PROVE IInv'
  OBVIOUS
<1>1. TInv'
  BY TypesStep DEF IInv
<1>2. ASSUME NEW ip \in IP, CheckAllowed(ip) PROVE FutureZero' /\ SpentAndLeft' /\ Covered'
  BY <1>2, AllowedKeeps
<1>3. ASSUME NEW ip \in IP, CheckLimited(ip) PROVE FutureZero' /\ SpentAndLeft' /\ Covered'
  BY <1>3, LimitedKeeps
<1>4. CASE Cleanup
  BY <1>1, <1>4, CleanupKeeps DEF IInv
<1>5. CASE Tick
  BY <1>1, <1>5, TickKeeps DEF IInv
<1>6. CASE UNCHANGED vars
  BY <1>1, <1>6 DEF vars, IInv, FutureZero, SpentAndLeft, Covered, Avail
<1> QED BY <1>1, <1>2, <1>3, <1>4, <1>5, <1>6 DEF Next, IInv

\* No address ever gets more requests in an interval than the burst and the
\* rate allow, for every configuration whose window is long enough to refill a
\* bucket (RateLimiter::check, cleanup).
THEOREM AdmissionBounded == Spec => []AdmissionBound
<1>1. Spec => []IInv
  BY IInvInit, IInvStep, PTL DEF Spec
<1>2. IInv => AdmissionBound
  <2> SUFFICES ASSUME IInv, NEW ip \in IP, NEW s \in 0..now
               PROVE  Cost * admitted[ip][s] <= Full + (now - s)
    BY DEF AdmissionBound
  <2>1. now \in 0..MaxNow /\ Avail(ip) \in 0..Full /\ Full \in Nat
    BY IInvFacts
  <2>2. s \in 0..MaxNow
    BY <2>1, MaxNowAssumption
  <2>3. Cost * admitted[ip][s] \in Nat
    BY <2>2, IInvFacts
  <2>4. Cost * admitted[ip][s] + Avail(ip) <= Full + (now - s)
    BY DEF IInv, SpentAndLeft
  <2> QED BY <2>1, <2>2, <2>3, <2>4
<1> QED BY <1>1, <1>2, PTL

\* A refusal never contradicts the answer before it: no request is refused
\* while announced requests remain or after the announced waiting time
\* (TokenBucket::remaining, retry_after).
THEOREM AnswersHold == Spec => PromisesKept
<1> DEFINE Kept ==
      \A ip \in IP :
          last'[ip] # last[ip] /\ ~last'[ip].allowed
              => IF last[ip].allowed THEN last[ip].remaining = 0 ELSE now < last[ip].due
<1>1. Spec => []IInv
  BY IInvInit, IInvStep, PTL DEF Spec
<1>2. IInv /\ [Next]_vars => [Kept]_vars
  <2> SUFFICES ASSUME IInv, Next, NEW ip \in IP, last'[ip] # last[ip], ~last'[ip].allowed
               PROVE  IF last[ip].allowed THEN last[ip].remaining = 0 ELSE now < last[ip].due
    BY DEF Kept
  <2>0. TInv /\ now \in Nat /\ Cost \in Nat /\ Full \in Nat /\ Avail(ip) \in 0..Full
    BY IInvFacts
  <2>1. CheckLimited(ip)
    <3>1. last \in [IP -> Answer]
      BY <2>0 DEF TInv, TypeOK
    <3>2. ASSUME NEW i \in IP, CheckAllowed(i) PROVE FALSE
      <4>1. PICK n : last' = [last EXCEPT ![i] =
                                [allowed |-> TRUE, at |-> now, remaining |-> n, due |-> 0]]
        BY <3>2 DEF CheckAllowed
      <4>2. last'[ip] = last[ip] \/ last'[ip].allowed
        BY <3>1, <4>1
      <4> QED BY <4>2
    <3>3. ASSUME NEW i \in IP \ {ip}, CheckLimited(i) PROVE FALSE
      BY <3>1, <3>3 DEF CheckLimited
    <3>4. ~Cleanup /\ ~Tick
      BY DEF Cleanup, Tick
    <3> QED BY <3>2, <3>3, <3>4 DEF Next
  <2>2. Avail(ip) < Cost
    BY <2>0, <2>1, RefilledFacts DEF CheckLimited
  <2>3. last[ip].remaining \in Nat /\ last[ip].due \in Nat
    BY <2>0, BurstAssumption DEF TInv, TypeOK, Answer
  <2>4. CASE last[ip].allowed
    <3>1. Cost * last[ip].remaining <= Avail(ip)
      BY <2>4 DEF IInv, Covered
    <3>2. Cost * last[ip].remaining \in Nat
          /\ (last[ip].remaining > 0 => Cost * last[ip].remaining >= Cost)
      BY <2>3, CostStep
    <3> QED BY <2>0, <2>2, <2>3, <2>4, <3>1, <3>2
  <2>5. CASE ~last[ip].allowed
    BY <2>0, <2>2, <2>3, <2>5 DEF IInv, Covered
  <2> QED BY <2>4, <2>5
<1>3. Spec => [][Kept]_vars
  BY <1>1, <1>2, PTL DEF Spec
<1> QED BY <1>3 DEF PromisesKept

----------------------------------------------------------------------------
(* Placement: selection *)

\* With more nodes a node comes no earlier, so those that are selected of the
\* larger set and belong to the smaller one are selected of that too.
LEMMA SelectedOfFewer ==
    ASSUME NEW name, NEW N \in SUBSET Volume, NEW M \in SUBSET N, NEW n \in Nat
    PROVE select_replicas(name, N, n) \cap M \subseteq select_replicas(name, M, n)
<1> SUFFICES ASSUME NEW x \in select_replicas(name, N, n), x \in M
             PROVE x \in select_replicas(name, M, n)
  OBVIOUS
<1> DEFINE InN == {a \in N : Before(name, a, x)}
           InM == {a \in M : Before(name, a, x)}
<1>1. InM \subseteq InN
  OBVIOUS
<1>2. IsFiniteSet(InN)
  BY VolumeAssumption, FS_Subset
<1>3. Cardinality(InM) <= Cardinality(InN) /\ Cardinality(InM) \in Nat /\ Cardinality(InN) \in Nat
  BY <1>1, <1>2, FS_Subset, FS_CardinalityType
<1>4. Cardinality(InN) < n
  BY DEF select_replicas, hrw_hash
<1>5. Cardinality(InM) < n
  BY <1>3, <1>4
<1> QED
  BY <1>5 DEF select_replicas, hrw_hash

----------------------------------------------------------------------------
(* Placement: how many volumes are selected *)

Hashed == Key \cup Shard

\* hrw_hash orders the nodes totally.
LEMMA BeforeOrders ==
    ASSUME NEW name \in Hashed, NEW a \in Volume, NEW b \in Volume, NEW c \in Volume
    PROVE  /\ ~Before(name, a, a)
           /\ Before(name, a, b) /\ Before(name, b, c) => Before(name, a, c)
           /\ a # b => Before(name, a, b) \/ Before(name, b, a)
<1>1. a \in Nat /\ b \in Nat /\ c \in Nat
  BY VolumeAssumption
<1>2. Weight[name] \in [Volume -> Nat]
  BY WeightAssumption DEF Hashed
<1>3. Weight[name][a] \in Nat /\ Weight[name][b] \in Nat /\ Weight[name][c] \in Nat
  BY <1>2
<1> QED
  BY <1>1, <1>3 DEF Before

\* The places of n nodes are the numbers below n, and no two nodes have the same.
LEMMA Places ==
    ASSUME NEW name \in Hashed, NEW N \in SUBSET Volume
    PROVE  /\ IsFiniteSet(N) /\ Cardinality(N) \in Nat
           /\ hrw_hash(name, N) \in Bijection(N, 0..(Cardinality(N) - 1))
<1> DEFINE Ahead(x) == {a \in N : Before(name, a, x)}
           place == hrw_hash(name, N)
           T == 0..(Cardinality(N) - 1)
<1>1. IsFiniteSet(N) /\ Cardinality(N) \in Nat
  BY VolumeAssumption, FS_Subset, FS_CardinalityType
<1>2. ASSUME NEW x \in N
      PROVE  IsFiniteSet(Ahead(x)) /\ Cardinality(Ahead(x)) \in Nat /\ place[x] = Cardinality(Ahead(x))
  <2>1. Ahead(x) \subseteq N
    OBVIOUS
  <2>2. IsFiniteSet(Ahead(x))
    BY <1>1, <2>1, FS_Subset
  <2> QED
    BY <2>2, FS_CardinalityType DEF hrw_hash
<1>3. ASSUME NEW S, IsFiniteSet(S), NEW R \in SUBSET S, NEW y \in S, y \notin R
      PROVE  Cardinality(R) \in Nat /\ Cardinality(S) \in Nat /\ Cardinality(R) < Cardinality(S)
  <2>1. IsFiniteSet(R) /\ Cardinality(R) <= Cardinality(S) /\ Cardinality(R) # Cardinality(S)
    BY <1>3, FS_Subset
  <2> QED
    BY <1>3, <2>1, FS_CardinalityType
<1>4. ASSUME NEW x \in N PROVE place[x] \in T
  <2>1. x \notin Ahead(x)
    BY BeforeOrders
  <2>2. Ahead(x) \subseteq N
    OBVIOUS
  <2>3. Cardinality(Ahead(x)) < Cardinality(N)
    BY <1>1, <1>3, <2>1, <2>2
  <2> QED
    BY <1>1, <1>2, <2>3
<1>5. ASSUME NEW x \in N, NEW y \in N, Before(name, x, y) PROVE place[x] # place[y]
  <2>1. Ahead(x) \subseteq Ahead(y)
    BY <1>5, BeforeOrders
  <2>2. x \in Ahead(y) /\ x \notin Ahead(x)
    BY <1>5, BeforeOrders
  <2>3. Cardinality(Ahead(x)) < Cardinality(Ahead(y))
    BY <1>2, <1>3, <2>1, <2>2
  <2> QED
    BY <1>2, <2>3
<1>6. \A x, y \in N : x # y => place[x] # place[y]
  BY <1>5, BeforeOrders
<1>7. place \in [N -> T]
  <2>1. place = [x \in N |-> place[x]]
    BY DEF hrw_hash
  <2> QED
    BY <1>4, <2>1
<1>8. place \in Injection(N, T)
  BY <1>6, <1>7 DEF Injection, IsInjective
<1>9. IsFiniteSet(T) /\ Cardinality(T) = Cardinality(N)
  BY <1>1, FS_Interval
<1>10. place \in Surjection(N, T)
  BY <1>8, <1>9, FS_Injection
<1> QED
  BY <1>1, <1>8, <1>10 DEF Bijection

\* hash.rs select_replicas: n nodes, or all where there are fewer.
LEMMA SelectedCount ==
    ASSUME NEW name \in Hashed, NEW N \in SUBSET Volume, NEW n \in Nat
    PROVE  /\ IsFiniteSet(select_replicas(name, N, n)) /\ IsFiniteSet(N) /\ Cardinality(N) \in Nat
           /\ Cardinality(select_replicas(name, N, n)) = IF n <= Cardinality(N) THEN n ELSE Cardinality(N)
<1> DEFINE place == hrw_hash(name, N)
           T == 0..(Cardinality(N) - 1)
           S == select_replicas(name, N, n)
           m == IF n <= Cardinality(N) THEN n ELSE Cardinality(N)
           f == [x \in S |-> place[x]]
<1>1. IsFiniteSet(N) /\ Cardinality(N) \in Nat /\ place \in Bijection(N, T)
  BY Places
<1> HIDE DEF place
<1>2. S = {x \in N : place[x] < n}
  BY DEF select_replicas, place
<1> HIDE DEF S
<1>3. place \in [N -> T] /\ (\A x, y \in N : place[x] = place[y] => x = y) /\ (\A t \in T : \E x \in N : place[x] = t)
  BY <1>1 DEF Bijection, Injection, IsInjective, Surjection
<1>4. m \in Nat
  BY <1>1
<1>5. \A x \in S : place[x] \in 0..(m - 1)
  BY <1>1, <1>2, <1>3
<1>6. f \in Injection(S, 0..(m - 1))
  BY <1>2, <1>3, <1>5 DEF Injection, IsInjective
<1>7. ASSUME NEW t \in 0..(m - 1) PROVE \E x \in S : f[x] = t
  <2>1. t \in T /\ t < n
    BY <1>1
  <2>2. PICK x \in N : place[x] = t
    BY <1>3, <2>1
  <2> QED
    BY <1>2, <2>1, <2>2
<1>8. f \in Surjection(S, 0..(m - 1))
  BY <1>6, <1>7 DEF Surjection, Injection
<1>9. IsFiniteSet(0..(m - 1)) /\ Cardinality(0..(m - 1)) = m
  <2>1. \A k \in Nat : IsFiniteSet(0..(k - 1)) /\ Cardinality(0..(k - 1)) = k
    BY FS_Interval
  <2> QED
    BY <1>4, <2>1
<1>10. IsFiniteSet(S) /\ Cardinality(S) = m
  BY <1>6, <1>8, <1>9, FS_Injection
<1> QED
  BY <1>1, <1>10 DEF S

\* PlacementManager::select_volumes: all replicas, or none where volumes are missing.
LEMMA SelectsAllOrNone ==
    ASSUME NEW key \in Key, NEW N \in SUBSET Volume
    PROVE  /\ select_volumes(key, N) # {} => /\ select_volumes(key, N) = select_replicas(key, N, Replicas)
                                             /\ Cardinality(select_volumes(key, N)) = Replicas
           /\ (select_volumes(key, N) = {}) = (Cardinality(N) < Replicas)
           /\ Cardinality(select_volumes(key, N)) \in {0, Replicas}
<1> DEFINE S == select_replicas(key, N, Replicas)
<1>1. Replicas \in Nat /\ Replicas > 0
  BY ReplicasAssumption
<1>2. /\ IsFiniteSet(S) /\ Cardinality(N) \in Nat
      /\ Cardinality(S) = IF Replicas <= Cardinality(N) THEN Replicas ELSE Cardinality(N)
  BY <1>1, SelectedCount DEF Hashed
<1>3. select_volumes(key, N) = IF Cardinality(S) < Replicas THEN {} ELSE S
  BY DEF select_volumes
<1> HIDE DEF S
<1>4. CASE Cardinality(N) < Replicas
  BY <1>1, <1>2, <1>3, <1>4, FS_EmptySet
<1>5. CASE ~(Cardinality(N) < Replicas)
  <2>1. Cardinality(S) = Replicas /\ select_volumes(key, N) = S
    BY <1>1, <1>2, <1>3, <1>5
  <2>2. S # {}
    BY <1>1, <2>1, FS_EmptySet
  <2> QED
    BY <1>5, <2>1, <2>2 DEF S
<1> QED
  BY <1>4, <1>5

----------------------------------------------------------------------------
(* Placement: how much two selections share *)

\* The volumes that belong to one of two sets only.
Gap(A, B) == (A \ B) \cup (B \ A)

LEMMA GapCount ==
    ASSUME NEW A \in SUBSET Volume, NEW B \in SUBSET Volume
    PROVE  /\ IsFiniteSet(Gap(A, B)) /\ Cardinality(Gap(A, B)) \in Nat
           /\ IsFiniteSet(A \ B) /\ Cardinality(A \ B) \in Nat
           /\ IsFiniteSet(B \ A) /\ Cardinality(B \ A) \in Nat
           /\ Cardinality(Gap(A, B)) = Cardinality(A \ B) + Cardinality(B \ A)
<1>1. IsFiniteSet(A \ B) /\ IsFiniteSet(B \ A)
  BY VolumeAssumption, FS_Subset
<1>2. (A \ B) \cap (B \ A) = {}
  OBVIOUS
<1>3. /\ IsFiniteSet(Gap(A, B))
      /\ Cardinality(Gap(A, B)) = Cardinality(A \ B) + Cardinality(B \ A) - 0
  BY <1>1, <1>2, FS_Union, FS_EmptySet DEF Gap
<1>4. Cardinality(A \ B) \in Nat /\ Cardinality(B \ A) \in Nat
  BY <1>1, FS_CardinalityType
<1> QED
  BY <1>1, <1>3, <1>4

\* Two selections of n volumes share all but one for each volume that only one of
\* them could choose.
LEMMA SelectionsShare ==
    ASSUME NEW name \in Hashed, NEW A \in SUBSET Volume, NEW B \in SUBSET Volume, NEW n \in Nat,
           Cardinality(select_replicas(name, A, n)) = n, Cardinality(select_replicas(name, B, n)) = n
    PROVE  Cardinality(select_replicas(name, A, n) \cap select_replicas(name, B, n)) >= n - Cardinality(Gap(A, B))
<1> DEFINE M == A \cap B
           SA == select_replicas(name, A, n)
           SB == select_replicas(name, B, n)
           SM == select_replicas(name, M, n)
<1>1. IsFiniteSet(SA) /\ IsFiniteSet(SB) /\ IsFiniteSet(SM) /\ Cardinality(SM) \in Nat /\ Cardinality(SM) <= n
  <2>1. M \in SUBSET Volume
    OBVIOUS
  <2>2. IsFiniteSet(SA) /\ IsFiniteSet(SB) /\ IsFiniteSet(SM)
    BY <2>1, SelectedCount
  <2>3. Cardinality(M) \in Nat /\ Cardinality(SM) = IF n <= Cardinality(M) THEN n ELSE Cardinality(M)
    BY <2>1, SelectedCount
  <2> QED
    BY <2>2, <2>3
<1>2. SA \cap M \subseteq SM /\ SB \cap M \subseteq SM /\ SA \subseteq A /\ SB \subseteq B
  <2>1. M \in SUBSET A /\ M \in SUBSET B
    OBVIOUS
  <2>2. SA \cap M \subseteq SM /\ SB \cap M \subseteq SM
    BY <2>1, SelectedOfFewer
  <2>3. SA \subseteq A /\ SB \subseteq B
    BY DEF select_replicas
  <2> QED
    BY <2>2, <2>3
<1>3. Cardinality(SA) = n /\ Cardinality(SB) = n
  OBVIOUS
<1> HIDE DEF SA, SB, SM
<1>4. ASSUME NEW X \in SUBSET Volume, NEW Y \in SUBSET Volume, NEW S \in SUBSET X, IsFiniteSet(S), Cardinality(S) = n
      PROVE  /\ IsFiniteSet(S \cap (X \cap Y)) /\ Cardinality(S \cap (X \cap Y)) \in Nat
             /\ Cardinality(S \cap (X \cap Y)) >= n - Cardinality(X \ Y)
  <2>1. S \ Y \subseteq X \ Y /\ S \cap (X \cap Y) = S \cap Y
    OBVIOUS
  <2>2. IsFiniteSet(X \ Y) /\ Cardinality(X \ Y) \in Nat
    BY GapCount
  <2>3. IsFiniteSet(S \ Y) /\ Cardinality(S \ Y) <= Cardinality(X \ Y)
    BY <2>1, <2>2, FS_Subset
  <2>4. Cardinality(S \ Y) = n - Cardinality(S \cap Y) /\ IsFiniteSet(S \cap Y)
    BY <1>4, FS_Difference, FS_Intersection
  <2>5. Cardinality(S \cap Y) \in Nat /\ Cardinality(S \ Y) \in Nat
    BY <2>3, <2>4, FS_CardinalityType
  <2>6. Cardinality(S \cap Y) >= n - Cardinality(X \ Y)
    BY <2>2, <2>3, <2>4, <2>5
  <2> QED
    BY <2>1, <2>4, <2>5, <2>6, Zenon
<1>5. /\ IsFiniteSet(SA \cap M) /\ Cardinality(SA \cap M) \in Nat
      /\ Cardinality(SA \cap M) >= n - Cardinality(A \ B)
  BY <1>1, <1>2, <1>3, <1>4
<1>6. /\ IsFiniteSet(SB \cap M) /\ Cardinality(SB \cap M) \in Nat
      /\ Cardinality(SB \cap M) >= n - Cardinality(B \ A)
  <2>1. B \cap A = M
    OBVIOUS
  <2> QED
    BY <1>1, <1>2, <1>3, <1>4, <2>1
<1>7. /\ IsFiniteSet((SA \cap M) \cup (SB \cap M))
      /\ Cardinality((SA \cap M) \cup (SB \cap M))
           = Cardinality(SA \cap M) + Cardinality(SB \cap M) - Cardinality((SA \cap M) \cap (SB \cap M))
  BY <1>5, <1>6, FS_Union
<1>8. Cardinality((SA \cap M) \cup (SB \cap M)) <= Cardinality(SM)
  <2>1. (SA \cap M) \cup (SB \cap M) \in SUBSET SM
    BY <1>2
  <2> QED
    BY <1>1, <2>1, FS_Subset
<1>9. (SA \cap M) \cap (SB \cap M) = SA \cap SB
  BY <1>2
<1>10. Cardinality(SA \cap SB) \in Nat /\ Cardinality((SA \cap M) \cup (SB \cap M)) \in Nat
  BY <1>1, <1>7, FS_Intersection, FS_CardinalityType
<1>11. Cardinality(SA \cap SB) >= n - (Cardinality(A \ B) + Cardinality(B \ A))
  <2>1. Cardinality(A \ B) \in Nat /\ Cardinality(B \ A) \in Nat
    BY GapCount
  <2>2. Cardinality((SA \cap M) \cup (SB \cap M))
          = Cardinality(SA \cap M) + Cardinality(SB \cap M) - Cardinality(SA \cap SB)
    BY <1>7, <1>9, Zenon
  <2> HIDE DEF M
  <2> QED
    BY <1>1, <1>5, <1>6, <1>8, <1>10, <2>1, <2>2
<1> QED
  BY <1>11, GapCount DEF SA, SB

----------------------------------------------------------------------------
(* Placement: the volumes of a write *)

\* The state of a put_key call, where H[i] is the set of healthy volumes after i changes.
PutOf(p, H) ==
    \/ put[p].at = "new"
    \/ /\ put[p].at = "reading"
       /\ put[p].key \in Key /\ put[p].seen \in 0..changes
       /\ put[p].healthy = H[put[p].seen]
    \/ /\ put[p].at = "done"
       /\ put[p].key \in Key /\ put[p].seen \in 0..changes
       /\ put[p].targets = select_volumes(put[p].key, H[put[p].seen])

\* Between two points of the history no more volumes changed than changes were counted.
Trail(H) ==
    /\ H \in [Nat -> SUBSET Volume]
    /\ H[changes] = Healthy
    /\ \A i, j \in 0..changes : i <= j => Cardinality(Gap(H[i], H[j])) <= j - i
    /\ \A p \in Put : PutOf(p, H)

PutInv ==
    /\ volumes \in [Volume -> State \cup {"absent"}]
    /\ changes \in Nat
    /\ put = [p \in Put |-> put[p]]
    /\ \E H : Trail(H)

LEMMA NoGap == \A A : Cardinality(Gap(A, A)) = 0
<1>1. \A A : Gap(A, A) = {}
  BY DEF Gap
<1> QED
  BY <1>1, FS_EmptySet

\* One more volume makes the gap wider by one at most.
LEMMA GapGrows ==
    ASSUME NEW A \in SUBSET Volume, NEW B \in SUBSET Volume, NEW C \in SUBSET Volume, NEW v \in Volume,
           Gap(B, C) \subseteq {v}
    PROVE  Cardinality(Gap(A, C)) <= Cardinality(Gap(A, B)) + 1
<1>1. Gap(A, C) \subseteq Gap(A, B) \cup {v}
  BY DEF Gap
<1>2. IsFiniteSet(Gap(A, B)) /\ Cardinality(Gap(A, B)) \in Nat /\ Cardinality(Gap(A, C)) \in Nat
  BY GapCount
<1>3. /\ IsFiniteSet(Gap(A, B) \cup {v})
      /\ Cardinality(Gap(A, B) \cup {v}) = IF v \in Gap(A, B) THEN Cardinality(Gap(A, B)) ELSE Cardinality(Gap(A, B)) + 1
  BY <1>2, FS_AddElement
<1>4. Cardinality(Gap(A, C)) <= Cardinality(Gap(A, B) \cup {v})
  BY <1>1, <1>3, FS_Subset
<1> QED
  BY <1>2, <1>3, <1>4

LEMMA InitPutInv == PlacementInit => PutInv
<1> SUFFICES ASSUME PlacementInit PROVE PutInv
  OBVIOUS
<1> DEFINE H == [i \in Nat |-> Healthy]
<1>1. Healthy \in SUBSET Volume
  BY DEF Healthy
<1>2. H \in [Nat -> SUBSET Volume] /\ H[0] = Healthy
  BY <1>1
<1>3. \A i, j \in 0..0 : i <= j => Cardinality(Gap(H[i], H[j])) <= j - i
  <2>1. \A i, j \in 0..0 : i = 0 /\ j = 0
    OBVIOUS
  <2>2. Cardinality(Gap(H[0], H[0])) = 0
    BY NoGap
  <2> HIDE DEF H
  <2> QED
    BY <2>1, <2>2
<1>4. \A p \in Put : PutOf(p, H)
  BY DEF PlacementInit, PutOf
<1>5. Trail(H)
  BY <1>2, <1>3, <1>4 DEF Trail, PlacementInit
<1>6. \E G : Trail(G)
  BY <1>5
<1> QED
  BY <1>6 DEF PutInv, PlacementInit

LEMMA StepPutInv == PutInv /\ [PlacementNext]_placementVars => PutInv'
<1> SUFFICES ASSUME PutInv, [PlacementNext]_placementVars PROVE PutInv'
  OBVIOUS
<1>0. PICK H : Trail(H)
  BY DEF PutInv
<1>1. H \in [Nat -> SUBSET Volume] /\ changes \in Nat
  BY <1>0 DEF Trail, PutInv
<1>2. ASSUME UNCHANGED <<volumes, changes>>, NEW p \in Put, NEW key \in Key,
             put' = [put EXCEPT ![p] = put'[p]],
             PutOf(p, H)'
      PROVE  PutInv'
  <2>1. ASSUME NEW q \in Put PROVE PutOf(q, H)'
    <3>1. CASE q = p
      BY <1>2, <3>1
    <3>2. CASE q # p
      <4>1. put'[q] = put[q]
        BY <1>2, <3>2 DEF PutInv
      <4>2. PutOf(q, H)
        BY <1>0 DEF Trail
      <4> QED
        BY <1>2, <4>1, <4>2 DEF PutOf
    <3> QED
      BY <3>1, <3>2
  <2>2. Healthy' = Healthy
    BY <1>2 DEF Healthy
  <2>3. Trail(H)'
    BY <1>0, <1>2, <2>1, <2>2 DEF Trail
  <2>4. (\E G : Trail(G))'
    BY <2>3
  <2>5. put' = [q \in Put |-> put'[q]]
    BY <1>2 DEF PutInv
  <2> QED
    BY <1>2, <2>4, <2>5 DEF PutInv
<1>3. ASSUME NEW p \in Put, NEW key \in Key, PutRead(p, key) PROVE PutInv'
  <2>1. put'[p] = [at |-> "reading", key |-> key, healthy |-> Healthy, seen |-> changes]
    BY <1>3 DEF PutRead, PutInv
  <2>2. put'[p].at = "reading" /\ put'[p].key = key /\ put'[p].healthy = Healthy /\ put'[p].seen = changes
    BY <2>1
  <2>3. UNCHANGED <<volumes, changes>> /\ put' = [put EXCEPT ![p] = put'[p]]
    BY <1>3, <2>1 DEF PutRead
  <2>4. H[changes] = Healthy /\ changes \in 0..changes
    BY <1>0, <1>1 DEF Trail
  <2>5. PutOf(p, H)'
    BY <2>2, <2>3, <2>4 DEF PutOf
  <2> QED
    BY <1>2, <2>3, <2>5
<1>4. ASSUME NEW p \in Put, PutSelect(p) PROVE PutInv'
  <2>1. put'[p] = [at |-> "done", key |-> put[p].key, seen |-> put[p].seen,
                   targets |-> select_volumes(put[p].key, put[p].healthy)]
    BY <1>4 DEF PutSelect, PutInv
  <2>2. /\ put'[p].at = "done" /\ put'[p].key = put[p].key /\ put'[p].seen = put[p].seen
        /\ put'[p].targets = select_volumes(put[p].key, put[p].healthy)
    BY <2>1
  <2>3. UNCHANGED <<volumes, changes>> /\ put' = [put EXCEPT ![p] = put'[p]]
    BY <1>4, <2>1 DEF PutSelect
  <2>4. PutOf(p, H) /\ put[p].at = "reading"
    BY <1>0, <1>4 DEF Trail, PutSelect
  <2>5. put[p].key \in Key /\ put[p].seen \in 0..changes /\ put[p].healthy = H[put[p].seen]
    BY <2>4 DEF PutOf
  <2>6. put'[p].targets = select_volumes(put'[p].key, H[put'[p].seen])
    BY <2>2, <2>5
  <2>7. PutOf(p, H)'
    BY <2>2, <2>3, <2>5, <2>6 DEF PutOf
  <2> QED
    BY <1>2, <2>3, <2>5, <2>7
<1>5. ASSUME NEW v \in Volume, NEW state \in State, PutVolume(v, state) PROVE PutInv'
  <2>0. PICK G : G = [i \in Nat |-> IF i <= changes THEN H[i] ELSE Healthy']
    OBVIOUS
  <2>1. /\ volumes' \in [Volume -> State \cup {"absent"}]
        /\ volumes'[v] = state /\ \A u \in Volume \ {v} : volumes'[u] = volumes[u]
        /\ put' = put /\ changes' \in Nat /\ changes' \in {changes, changes + 1}
    BY <1>1, <1>5 DEF PutVolume, PutInv
  <2>2. Healthy \in SUBSET Volume /\ Healthy' \in SUBSET Volume
    BY DEF Healthy
  <2>3. Gap(Healthy, Healthy') \subseteq {v}
    BY <2>1 DEF Gap, Healthy
  <2>4. H[changes] = Healthy /\ \A i, j \in 0..changes : i <= j => Cardinality(Gap(H[i], H[j])) <= j - i
    BY <1>0 DEF Trail
  <2>5. G \in [Nat -> SUBSET Volume] /\ \A i \in 0..changes : G[i] = H[i]
    BY <1>1, <2>0, <2>2
  <2>6. CASE changes' = changes
    <3>1. is_healthy(state) = is_healthy(volumes[v])
      BY <1>1, <1>5, <2>6 DEF PutVolume
    <3>2. Healthy' = Healthy
      BY <2>1, <3>1 DEF Healthy
    <3>3. \A p \in Put : PutOf(p, H)'
      BY <1>0, <2>1, <2>6 DEF Trail, PutOf
    <3>4. Trail(H)'
      BY <1>0, <2>6, <3>2, <3>3 DEF Trail
    <3>5. (\E F : Trail(F))'
      BY <3>4
    <3> QED
      BY <2>1, <3>5 DEF PutInv
  <2>7. CASE changes' = changes + 1
    <3>1. G[changes'] = Healthy'
      BY <1>1, <2>0, <2>7
    <3>2. \A i \in 0..changes' : i \in 0..changes \/ i = changes'
      BY <1>1, <2>7
    <3>3. ASSUME NEW i \in 0..changes', NEW j \in 0..changes', i <= j
          PROVE  Cardinality(Gap(G[i], G[j])) <= j - i
      <4>1. CASE j \in 0..changes
        <5>1. i \in 0..changes
          BY <1>1, <3>3, <4>1
        <5> QED
          BY <2>4, <2>5, <3>3, <4>1, <5>1
      <4>2. CASE i = changes' /\ j = changes'
        <5>1. Cardinality(Gap(G[i], G[j])) = 0
          BY <4>2, NoGap
        <5>2. i = j /\ i \in Nat
          BY <2>1, <4>2, Zenon
        <5> QED
          BY <5>1, <5>2
      <4>3. CASE i \in 0..changes /\ j = changes'
        <5>1. G[i] = H[i] /\ G[j] = Healthy' /\ H[i] \in SUBSET Volume
          BY <1>1, <2>5, <3>1, <4>3
        <5>2. Cardinality(Gap(H[i], Healthy')) <= Cardinality(Gap(H[i], Healthy)) + 1
          BY <2>2, <2>3, <5>1, GapGrows
        <5>3. Cardinality(Gap(H[i], Healthy)) <= changes - i
          <6>1. changes \in 0..changes /\ i <= changes
            BY <1>1, <4>3
          <6> QED
            BY <2>4, <4>3, <6>1
        <5>4. Cardinality(Gap(H[i], Healthy)) \in Nat /\ Cardinality(Gap(H[i], Healthy')) \in Nat
          BY <2>2, <5>1, GapCount
        <5>5. Cardinality(Gap(H[i], Healthy')) <= (changes + 1) - i
          BY <1>1, <4>3, <5>2, <5>3, <5>4
        <5> QED
          BY <2>7, <4>3, <5>1, <5>5
      <4> QED
        BY <1>1, <2>7, <3>2, <3>3, <4>1, <4>2, <4>3
    <3>4. ASSUME NEW p \in Put PROVE PutOf(p, G)'
      <4>1. PutOf(p, H) /\ put'[p] = put[p]
        BY <1>0, <2>1 DEF Trail
      <4>2. \A s \in 0..changes : s \in 0..changes' /\ G[s] = H[s]
        BY <1>1, <2>5, <2>7
      <4> QED
        BY <4>1, <4>2 DEF PutOf
    <3>5. Trail(G)'
      BY <2>5, <3>1, <3>3, <3>4 DEF Trail
    <3>6. (\E F : Trail(F))'
      BY <3>5
    <3> QED
      BY <2>1, <3>6 DEF PutInv
  <2> QED
    BY <2>1, <2>6, <2>7
<1>6. ASSUME UNCHANGED <<volumes, put, changes>> PROVE PutInv'
  <2>1. \A p \in Put : PutOf(p, H)'
    BY <1>0, <1>6 DEF Trail, PutOf
  <2>2. Healthy' = Healthy
    BY <1>6 DEF Healthy
  <2>3. Trail(H)'
    BY <1>0, <1>6, <2>1, <2>2 DEF Trail
  <2>4. (\E F : Trail(F))'
    BY <2>3
  <2> QED
    BY <1>6, <2>4 DEF PutInv
<1> QED
  BY <1>3, <1>4, <1>5, <1>6 DEF PlacementNext, Puts, Rebalance, placementVars

LEMMA PutsFollowTrail == PlacementSpec => []PutInv
BY InitPutInv, StepPutInv, PTL DEF PlacementSpec

\* put_key: the write goes to all its replicas or to none, and to none only when the
\* registry that it read had too few healthy volumes.
THEOREM WritesAllOrNone == PlacementSpec => []FullOrNone
<1>1. PutInv => FullOrNone
  <2> SUFFICES ASSUME PutInv, NEW p \in Put
               PROVE  /\ put[p].at = "done" => Cardinality(put[p].targets) \in {0, Replicas}
                      /\ put[p].at = "reading" =>
                           (select_volumes(put[p].key, put[p].healthy) = {}) = (Cardinality(put[p].healthy) < Replicas)
    BY DEF FullOrNone
  <2>1. PICK H : Trail(H)
    BY DEF PutInv
  <2>2. PutOf(p, H)
    BY <2>1 DEF Trail
  <2>3. \A s \in 0..changes : H[s] \in SUBSET Volume
    BY <2>1 DEF Trail, PutInv
  <2>4. CASE put[p].at = "new"
    BY <2>4
  <2>5. CASE put[p].at = "reading"
    <3>1. put[p].key \in Key /\ put[p].healthy \in SUBSET Volume
      BY <2>2, <2>3, <2>5 DEF PutOf
    <3> QED
      BY <2>5, <3>1, SelectsAllOrNone
  <2>6. CASE put[p].at = "done"
    <3>1. put[p].key \in Key /\ put[p].seen \in 0..changes /\ put[p].targets = select_volumes(put[p].key, H[put[p].seen])
      BY <2>2, <2>6 DEF PutOf
    <3>2. H[put[p].seen] \in SUBSET Volume
      BY <2>3, <3>1
    <3>3. Cardinality(put[p].targets) \in {0, Replicas}
      BY <3>1, <3>2, SelectsAllOrNone
    <3> QED
      BY <2>6, <3>3
  <2> QED
    BY <2>2, <2>4, <2>5, <2>6 DEF PutOf
<1> QED
  BY <1>1, PutsFollowTrail, PTL

\* hash.rs: two writes of a key share all their volumes but one for each change of
\* health between them, however the hash weighs the volumes.
THEOREM PlacementIsStable == PlacementSpec => []PlacementsOverlap
<1>1. PutInv => PlacementsOverlap
  <2> SUFFICES ASSUME PutInv, NEW p \in Done, NEW q \in Done, put[p].key = put[q].key,
                      put[p].targets # {}, put[q].targets # {}
               PROVE  Cardinality(put[p].targets \cap put[q].targets) >= Replicas - Apart(p, q)
    BY DEF PlacementsOverlap
  <2>1. PICK H : Trail(H)
    BY DEF PutInv
  <2>2. \A s \in 0..changes : H[s] \in SUBSET Volume
    BY <2>1 DEF Trail, PutInv
  <2>3. /\ put[p].key \in Key /\ put[p].seen \in 0..changes /\ put[p].targets = select_volumes(put[p].key, H[put[p].seen])
        /\ put[q].seen \in 0..changes /\ put[q].targets = select_volumes(put[q].key, H[put[q].seen])
    BY <2>1 DEF Trail, PutOf, Done
  <2>4. PICK key \in Key, i \in 0..changes, j \in 0..changes :
            key = put[p].key /\ i = put[p].seen /\ j = put[q].seen
    BY <2>3
  <2>5. H[i] \in SUBSET Volume /\ H[j] \in SUBSET Volume
    BY <2>2
  <2>6. /\ put[p].targets = select_replicas(key, H[i], Replicas) /\ Cardinality(put[p].targets) = Replicas
        /\ put[q].targets = select_replicas(key, H[j], Replicas) /\ Cardinality(put[q].targets) = Replicas
    <3>1. put[p].targets = select_volumes(key, H[i]) /\ put[q].targets = select_volumes(key, H[j])
      BY <2>3, <2>4
    <3>2. ASSUME NEW N \in SUBSET Volume, select_volumes(key, N) # {}
          PROVE  /\ select_volumes(key, N) = select_replicas(key, N, Replicas)
                 /\ Cardinality(select_volumes(key, N)) = Replicas
      BY <3>2, SelectsAllOrNone
    <3> QED
      BY <2>5, <3>1, <3>2
  <2>7. Cardinality(put[p].targets \cap put[q].targets) >= Replicas - Cardinality(Gap(H[i], H[j]))
    BY <2>5, <2>6, SelectionsShare, ReplicasAssumption DEF Hashed
  <2>8. Cardinality(Gap(H[i], H[j])) <= Apart(p, q)
    <3>1. Gap(H[i], H[j]) = Gap(H[j], H[i])
      BY DEF Gap
    <3>2. i \in Nat /\ j \in Nat
      OBVIOUS
    <3>3. \A a, b \in 0..changes : a <= b => Cardinality(Gap(H[a], H[b])) <= b - a
      BY <2>1 DEF Trail
    <3>4. CASE i > j
      <4>0. j <= i
        BY <3>2, <3>4
      <4>1. Cardinality(Gap(H[j], H[i])) <= i - j
        BY <3>3, <4>0, Zenon
      <4>2. Apart(p, q) = i - j
        BY <2>4, <3>4 DEF Apart
      <4> QED
        BY <3>1, <4>1, <4>2, Zenon
    <3>5. CASE ~(i > j)
      <4>0. i <= j
        BY <3>2, <3>5
      <4>1. Cardinality(Gap(H[i], H[j])) <= j - i
        BY <3>3, <4>0, Zenon
      <4>2. Apart(p, q) = j - i
        BY <2>4, <3>5 DEF Apart
      <4> QED
        BY <4>1, <4>2, Zenon
    <3> QED
      BY <3>4, <3>5
  <2>9. Cardinality(Gap(H[i], H[j])) \in Nat
    BY <2>5, GapCount
  <2>10. Apart(p, q) \in Int
    BY <2>4 DEF Apart
  <2>11. Cardinality(put[p].targets \cap put[q].targets) \in Nat
    <3>1. IsFiniteSet(select_replicas(key, H[i], Replicas))
      BY <2>5, SelectedCount, ReplicasAssumption DEF Hashed
    <3>2. IsFiniteSet(put[p].targets)
      BY <2>6, <3>1, Zenon
    <3> QED
      BY <3>2, FS_Intersection, FS_CardinalityType
  <2> QED
    BY <2>7, <2>8, <2>9, <2>10, <2>11, ReplicasAssumption
<1> QED
  BY <1>1, PutsFollowTrail, PTL

----------------------------------------------------------------------------
(* Placement: the ring *)

\* The ring is what the last rebalance made of the volumes that were healthy then.
PInv == /\ balanced \in SUBSET Volume
        /\ \A s \in Shard : ring[s] = select_replicas(s, balanced, Replicas)

LEMMA RingOfLast == PlacementSpec => []PInv
<1>1. PlacementInit => PInv
  BY DEF PlacementInit, PInv, select_replicas
<1>2. PInv /\ [PlacementNext]_placementVars => PInv'
  <2> SUFFICES ASSUME PInv, [PlacementNext]_placementVars PROVE PInv'
    OBVIOUS
  <2>1. CASE Rebalance
    BY <2>1 DEF Rebalance, ring_rebalance, PInv, Healthy
  <2>2. CASE UNCHANGED <<ring, balanced>>
    BY <2>2 DEF PInv, select_replicas, hrw_hash
  <2>3. Rebalance \/ UNCHANGED <<ring, balanced>>
    BY DEF PlacementNext, placementVars, Puts, PutVolume, PutRead, PutSelect
  <2> QED
    BY <2>1, <2>2, <2>3
<1> QED
  BY <1>1, <1>2, PTL DEF PlacementSpec

\* PlacementManager::rebalance: when volumes only left, a shard keeps those of its
\* volumes that are still healthy; when volumes only joined, it gains no other.
THEOREM RebalanceIsStable == PlacementSpec => RebalanceKeepsShards
<1>1. ASSUME PInv, PInv', NEW s \in Shard
      PROVE /\ balanced' \subseteq balanced => ring[s] \cap balanced' \subseteq ring'[s]
            /\ balanced \subseteq balanced' => ring'[s] \cap balanced \subseteq ring[s]
  <2>1. ring[s] = select_replicas(s, balanced, Replicas)
    BY <1>1 DEF PInv
  <2>2. ring'[s] = select_replicas(s, balanced', Replicas)
    BY <1>1 DEF PInv, select_replicas, hrw_hash
  <2>3. balanced \in SUBSET Volume /\ balanced' \in SUBSET Volume
    BY <1>1 DEF PInv
  <2> QED
    BY <2>1, <2>2, <2>3, SelectedOfFewer, ReplicasAssumption
<1>2. PInv /\ PInv' => KeepsShards
  BY <1>1 DEF KeepsShards
<1> QED
  BY <1>2, RingOfLast, PTL DEF RebalanceKeepsShards

----------------------------------------------------------------------------
(* Locks: the order of each class of methods *)

\* A method takes locks of ever higher rank while it holds others.
Ordered(locks, rank) ==
    /\ Len(locks) \in Nat
    /\ \A i \in 1..Len(locks) : rank[locks[i].lock] \in 0..4
    /\ \A i, j \in 1..Len(locks) :
          (/\ j < i /\ locks[j].do # "unlock" /\ locks[i].do # "unlock"
           /\ \A k \in (j + 1)..(i - 1) : locks[k].lock # locks[j].lock)
              => rank[locks[j].lock] < rank[locks[i].lock]

RaftLocks ==
    {"snapshot", "log", "last_applied", "commit_index", "peers", "term", "voted_for", "role", "leader_id"}

\* An order of the locks that all methods of the Raft node keep to but replicate and
\* apply_snapshot, and one that all keep to but handle_append_entries and recover.
TermFirst ==
    [l \in RaftLocks |-> IF l = "term" THEN 0 ELSE IF l \in {"log", "last_applied"} THEN 1 ELSE 2]
LogFirst ==
    [l \in RaftLocks |->
        IF l = "log" THEN 0 ELSE IF l = "commit_index" THEN 1
        ELSE IF l = "last_applied" THEN 2 ELSE IF l = "term" THEN 3 ELSE 4]

\* The order of the key store.
KeysFirst == [l \in {"keys", "hash_to_id"} |-> IF l = "keys" THEN 0 ELSE 1]

LEMMA TermFirstOrders ==
    ASSUME NEW m \in RaftMethods, m.name \notin {"replicate", "apply_snapshot"}
    PROVE  Ordered(m.locks, TermFirst)
<1> DEFINE rank == TermFirst
<1>0. /\ rank["term"] = 0 /\ rank["log"] = 1 /\ rank["last_applied"] = 1
      /\ rank["snapshot"] = 2 /\ rank["commit_index"] = 2 /\ rank["peers"] = 2
      /\ rank["voted_for"] = 2 /\ rank["role"] = 2 /\ rank["leader_id"] = 2
  BY DEF TermFirst, RaftLocks
<1> HIDE DEF rank
<1>1. Ordered(recover, rank)
  <2>1. /\ Len(recover) = 8
        /\ recover[1].do = "lock" /\ recover[1].lock = "snapshot"
        /\ recover[2].do = "unlock" /\ recover[2].lock = "snapshot"
        /\ recover[3].do = "lock" /\ recover[3].lock = "log"
        /\ recover[4].do = "unlock" /\ recover[4].lock = "log"
        /\ recover[5].do = "lock" /\ recover[5].lock = "last_applied"
        /\ recover[6].do = "lock" /\ recover[6].lock = "commit_index"
        /\ recover[7].do = "unlock" /\ recover[7].lock = "commit_index"
        /\ recover[8].do = "unlock" /\ recover[8].lock = "last_applied"
    BY DEF Lock, Unlock, Brief, Nested, recover
  <2> QED
    BY <1>0, <2>1 DEF Ordered
<1>2. Ordered(save_snapshot, rank)
  BY <1>0 DEF Ordered, Lock, Unlock, Brief, Nested, save_snapshot
<1>3. Ordered(send_heartbeats, rank)
  BY <1>0 DEF Ordered, Lock, Unlock, Brief, Nested, send_heartbeats
<1>4. Ordered(handle_request_vote, rank)
  BY <1>0 DEF Ordered, Lock, Unlock, Brief, Nested, handle_request_vote
<1>5. Ordered(append_rejected, rank)
  BY <1>0 DEF Ordered, Lock, Unlock, Brief, Nested, append_rejected
<1>6. Ordered(append_accepted, rank)
  BY <1>0 DEF Ordered, Lock, Unlock, Brief, Nested, append_accepted
<1>7. Ordered(start_election, rank)
  BY <1>0 DEF Ordered, Lock, Unlock, Brief, Nested, start_election
<1>8. Ordered(become_leader, rank)
  BY <1>0 DEF Ordered, Lock, Unlock, Brief, Nested, become_leader
<1>9. Ordered(step_down, rank)
  BY <1>0 DEF Ordered, Lock, Unlock, Brief, Nested, step_down
<1>10. Ordered(grant_vote, rank)
  BY <1>0 DEF Ordered, Lock, Unlock, Brief, Nested, grant_vote
<1>11. m.locks \in {recover, save_snapshot, send_heartbeats, handle_request_vote, append_rejected,
                    append_accepted, start_election, become_leader, step_down, grant_vote}
  BY DEF RaftMethods, Method
<1> QED
  BY <1>1, <1>2, <1>3, <1>4, <1>5, <1>6, <1>7, <1>8, <1>9, <1>10, <1>11, Zenon DEF rank

LEMMA LogFirstOrders ==
    ASSUME NEW m \in RaftMethods, m.name \notin {"handle_append_entries", "recover"}
    PROVE  Ordered(m.locks, LogFirst)
<1> DEFINE rank == LogFirst
<1>0. /\ rank["log"] = 0 /\ rank["commit_index"] = 1 /\ rank["last_applied"] = 2 /\ rank["term"] = 3
      /\ rank["snapshot"] = 4 /\ rank["peers"] = 4
      /\ rank["voted_for"] = 4 /\ rank["role"] = 4 /\ rank["leader_id"] = 4
  BY DEF LogFirst, RaftLocks
<1> HIDE DEF rank
<1>1. Ordered(save_snapshot, rank)
  BY <1>0 DEF Ordered, Lock, Unlock, Brief, Nested, save_snapshot
<1>2. Ordered(apply_snapshot, rank)
  BY <1>0 DEF Ordered, Lock, Unlock, Brief, Nested, apply_snapshot
<1>3. Ordered(send_heartbeats, rank)
  BY <1>0 DEF Ordered, Lock, Unlock, Brief, Nested, send_heartbeats
<1>4. Ordered(handle_request_vote, rank)
  BY <1>0 DEF Ordered, Lock, Unlock, Brief, Nested, handle_request_vote
<1>5. Ordered(start_election, rank)
  BY <1>0 DEF Ordered, Lock, Unlock, Brief, Nested, start_election
<1>6. Ordered(become_leader, rank)
  BY <1>0 DEF Ordered, Lock, Unlock, Brief, Nested, become_leader
<1>7. Ordered(step_down, rank)
  BY <1>0 DEF Ordered, Lock, Unlock, Brief, Nested, step_down
<1>8. Ordered(grant_vote, rank)
  BY <1>0 DEF Ordered, Lock, Unlock, Brief, Nested, grant_vote
<1>9. Ordered(replicate, rank)
  BY <1>0 DEF Ordered, Lock, Unlock, Brief, Nested, replicate
<1>10. m.locks \in {save_snapshot, apply_snapshot, send_heartbeats, handle_request_vote,
                    start_election, become_leader, step_down, grant_vote, replicate}
  BY DEF RaftMethods, Method
<1> QED
  BY <1>1, <1>2, <1>3, <1>4, <1>5, <1>6, <1>7, <1>8, <1>9, <1>10, Zenon DEF rank

LEMMA KeysFirstOrders ==
    ASSUME NEW m \in KeyMethods
    PROVE  Ordered(m.locks, KeysFirst)
<1> DEFINE rank == KeysFirst
<1>0. rank["keys"] = 0 /\ rank["hash_to_id"] = 1
  BY DEF KeysFirst
<1> HIDE DEF rank
<1>1. Ordered(generate_key, rank)
  BY <1>0 DEF Ordered, Lock, Unlock, Brief, generate_key
<1>2. Ordered(validate_key, rank)
  BY <1>0 DEF Ordered, Read, Unlock, BriefRead, validate_key
<1>3. Ordered(revoke_key, rank)
  BY <1>0 DEF Ordered, Lock, Unlock, Brief, revoke_key
<1>4. Ordered(delete_key, rank)
  BY <1>0 DEF Ordered, Lock, Unlock, Nested, delete_key
<1>5. m.locks \in {generate_key, validate_key, revoke_key, delete_key}
  BY DEF KeyMethods, Method
<1> QED
  BY <1>1, <1>2, <1>3, <1>4, <1>5, Zenon DEF rank

----------------------------------------------------------------------------
(* Locks: threads that wait *)

\* A thread runs a method of the shared object, and only one that wants a write lock
\* stands in its queue.
LInv ==
    /\ methods \in {RaftMethods, QuotaMethods, KeyMethods}
    /\ running = [t \in Thread |-> running[t]]
    /\ at \in [Thread -> Nat]
    /\ waiting \in [Thread -> BOOLEAN]
    /\ \A t \in Thread :
          /\ running[t] = Fresh \/ running[t] \in methods
          /\ waiting[t] => running[t] # Fresh /\ NextOp(t).do = "lock"

LEMMA LocksTyped == LockSpec => []LInv
<1>1. LockInit => LInv
  BY DEF LockInit, LInv
<1>2. LInv /\ [LockNext]_lockVars => LInv'
  <2> SUFFICES ASSUME LInv, [LockNext]_lockVars PROVE LInv'
    OBVIOUS
  <2>1. ASSUME NEW t \in Thread, Call(t) PROVE LInv'
    <3>1. PICK m \in methods : running' = [running EXCEPT ![t] = m]
      BY <2>1 DEF Call
    <3>2. running'[t] = m /\ \A u \in Thread \ {t} : running'[u] = running[u]
      BY <3>1 DEF LInv
    <3>3. UNCHANGED <<methods, at, waiting>> /\ running' = [u \in Thread |-> running'[u]] /\ ~waiting[t]
      BY <2>1, <3>1 DEF Call, LInv
    <3>4. ASSUME NEW u \in Thread
          PROVE  /\ running'[u] = Fresh \/ running'[u] \in methods'
                 /\ waiting'[u] => running'[u] # Fresh /\ NextOp(u)'.do = "lock"
      <4>1. CASE u = t
        BY <3>2, <3>3, <4>1
      <4>2. CASE u # t
        BY <3>2, <3>3, <4>2 DEF LInv, NextOp
      <4> QED
        BY <4>1, <4>2
    <3> QED
      BY <3>3, <3>4 DEF LInv
  <2>2. ASSUME NEW t \in Thread, Step(t) PROVE LInv'
    <3>1. /\ UNCHANGED <<methods, running>>
          /\ at' \in [Thread -> Nat] /\ waiting' \in [Thread -> BOOLEAN]
          /\ ~waiting'[t]
          /\ \A u \in Thread \ {t} : at'[u] = at[u] /\ waiting'[u] = waiting[u]
      BY <2>2 DEF Step, LInv
    <3>2. ASSUME NEW u \in Thread, waiting'[u] PROVE running'[u] # Fresh /\ NextOp(u)'.do = "lock"
      BY <3>1, <3>2 DEF LInv, NextOp
    <3> QED
      BY <3>1, <3>2 DEF LInv
  <2>3. ASSUME NEW t \in Thread, Queue(t) PROVE LInv'
    <3>1. /\ UNCHANGED <<methods, running, at>>
          /\ waiting' \in [Thread -> BOOLEAN]
          /\ \A u \in Thread \ {t} : waiting'[u] = waiting[u]
          /\ running[t] # Fresh /\ NextOp(t).do = "lock"
      BY <2>3 DEF Queue, LInv, InMethod
    <3>2. ASSUME NEW u \in Thread, waiting'[u] PROVE running'[u] # Fresh /\ NextOp(u)'.do = "lock"
      BY <3>1, <3>2 DEF LInv, NextOp
    <3> QED
      BY <3>1, <3>2 DEF LInv
  <2>4. CASE UNCHANGED lockVars
    BY <2>4 DEF lockVars, LInv, NextOp
  <2> QED
    BY <2>1, <2>2, <2>3, <2>4 DEF LockNext
<1> QED
  BY <1>1, <1>2, PTL DEF LockSpec

\* The thread wants a lock.
Wants(t) == InMethod(t) /\ NextOp(t).do \in {"lock", "read"}

\* What a thread that others keep waiting wants, and from whom.
LEMMA BlockedBy ==
    ASSUME NEW t \in Thread, NEW u \in Blockers(t)
    PROVE  /\ u \in Thread /\ Wants(t)
           /\ \/ NextOp(t).do = "lock" /\ Holds(u, NextOp(t).lock, {"lock", "read"})
              \/ NextOp(t).do = "read" /\ Holds(u, NextOp(t).lock, {"lock"})
              \/ NextOp(t).do = "read" /\ QueuedFor(u, NextOp(t).lock)
<1>1. InMethod(t)
  BY DEF Blockers
<1>2. NextOp(t).do = "lock" \/ NextOp(t).do = "read"
  BY <1>1 DEF Blockers
<1>3. CASE NextOp(t).do = "lock"
  <2>1. u \in {v \in Thread \ {t} : Holds(v, NextOp(t).lock, {"lock", "read"})}
    BY <1>1, <1>3 DEF Blockers
  <2> QED
    BY <1>1, <1>3, <2>1 DEF Wants
<1>4. CASE NextOp(t).do = "read"
  <2>1. u \in {v \in Thread \ {t} : Holds(v, NextOp(t).lock, {"lock"}) \/ QueuedFor(v, NextOp(t).lock)}
    BY <1>1, <1>4 DEF Blockers
  <2> QED
    BY <1>1, <1>4, <2>1 DEF Wants
<1> QED
  BY <1>2, <1>3, <1>4

\* In a circle every thread wants a lock, and one of the circle holds it: a reader that
\* waits behind a writer waits for the thread that this writer waits for.
LEMMA HeldInCircle ==
    ASSUME LInv, NEW D \in SUBSET Thread, Deadlocked(D), NEW t \in D
    PROVE  /\ Wants(t) /\ running[t] \in methods
           /\ \E u \in D : Holds(u, NextOp(t).lock, {"lock", "read"})
<1>1. \A v \in D : v \in Thread /\ \E u \in D : u \in Blockers(v)
  BY DEF Deadlocked
<1>2. \A v \in D : Wants(v)
  BY <1>1, BlockedBy
<1>3. PICK u \in D : u \in Blockers(t)
  BY <1>1
<1>4. \E w \in D : Holds(w, NextOp(t).lock, {"lock", "read"})
  <2>1. CASE NextOp(t).do = "lock" /\ Holds(u, NextOp(t).lock, {"lock", "read"})
    BY <2>1
  <2>2. CASE NextOp(t).do = "read" /\ Holds(u, NextOp(t).lock, {"lock"})
    BY <2>2 DEF Holds
  <2>3. CASE NextOp(t).do = "read" /\ QueuedFor(u, NextOp(t).lock)
    <3>1. NextOp(u).lock = NextOp(t).lock /\ NextOp(u).do = "lock"
      BY <1>1, <2>3 DEF QueuedFor, LInv
    <3>2. PICK w \in D : w \in Blockers(u)
      BY <1>1
    <3>3. Holds(w, NextOp(u).lock, {"lock", "read"})
      BY <1>1, <3>1, <3>2, BlockedBy
    <3> QED
      BY <3>1, <3>3
  <2> QED
    BY <1>1, <1>3, <2>1, <2>2, <2>3, BlockedBy
<1>5. running[t] \in methods
  BY <1>1, <1>2 DEF Wants, InMethod, LInv
<1> QED
  BY <1>2, <1>4, <1>5

\* Threads that keep to one order of the locks never wait in a circle.
LEMMA OrderedNeverBlock ==
    ASSUME LInv, NEW D \in SUBSET Thread, NEW rank,
           \A t \in D : running[t] \in methods => Ordered(running[t].locks, rank)
    PROVE  ~Deadlocked(D)
<1> SUFFICES ASSUME Deadlocked(D) PROVE FALSE
  OBVIOUS
<1> DEFINE height(t) == rank[NextOp(t).lock]
<1>1. ASSUME NEW t \in D PROVE height(t) \in 0..4 /\ \E u \in D : height(t) < height(u)
  <2>1. Wants(t) /\ running[t] \in methods
    BY HeldInCircle
  <2>2. PICK u \in D : Holds(u, NextOp(t).lock, {"lock", "read"})
    BY HeldInCircle
  <2>3. Wants(u) /\ running[u] \in methods
    BY HeldInCircle
  <2>4. \A v \in D : at[v] \in Nat
    BY DEF LInv
  <2>5. ASSUME NEW v \in D, Wants(v), running[v] \in methods
        PROVE  /\ Ordered(running[v].locks, rank)
               /\ at[v] + 1 \in 1..Len(running[v].locks) /\ height(v) \in 0..4
    <3>1. Ordered(running[v].locks, rank) /\ at[v] < Len(running[v].locks)
      BY <2>5 DEF Wants, InMethod
    <3>2. at[v] + 1 \in 1..Len(running[v].locks)
      <4>1. PICK n \in Nat : n = Len(running[v].locks)
        BY <3>1 DEF Ordered
      <4>2. PICK k \in Nat : k = at[v]
        BY <2>4
      <4>3. k + 1 \in 1..n
        BY <3>1, <4>1, <4>2
      <4> QED
        BY <4>1, <4>2, <4>3
    <3> QED
      BY <3>1, <3>2 DEF Ordered, NextOp
  <2>6. /\ height(t) \in 0..4 /\ Ordered(running[u].locks, rank)
        /\ at[u] + 1 \in 1..Len(running[u].locks) /\ at[u] \in Nat
    BY <2>1, <2>3, <2>4, <2>5
  <2>7. PICK j \in 1..at[u] :
            /\ running[u].locks[j].lock = NextOp(t).lock
            /\ running[u].locks[j].do \in {"lock", "read"}
            /\ \A k \in (j + 1)..at[u] : running[u].locks[k].lock # NextOp(t).lock
    BY <2>2 DEF Holds
  <2>8. PICK i : i = at[u] + 1
    OBVIOUS
  <2>9. j \in 1..Len(running[u].locks) /\ i \in 1..Len(running[u].locks) /\ j < i /\ i - 1 = at[u]
    <3>1. PICK n \in Nat : n = Len(running[u].locks)
      BY <2>6 DEF Ordered
    <3>2. PICK k \in Nat : k = at[u]
      BY <2>6
    <3>3. i = k + 1 /\ i \in 1..n /\ j \in 1..k
      BY <2>6, <2>8, <3>1, <3>2
    <3>4. j \in 1..n /\ j < i /\ i - 1 = k
      BY <3>3
    <3> QED
      BY <3>1, <3>2, <3>3, <3>4
  <2>10. running[u].locks[j].do # "unlock" /\ running[u].locks[i].do # "unlock"
    BY <2>3, <2>7, <2>8 DEF Wants, NextOp
  <2>11. \A k \in (j + 1)..(i - 1) : running[u].locks[k].lock # running[u].locks[j].lock
    BY <2>7, <2>9
  <2>12. rank[running[u].locks[j].lock] < rank[running[u].locks[i].lock]
    BY <2>6, <2>9, <2>10, <2>11 DEF Ordered
  <2>13. height(t) < height(u)
    BY <2>7, <2>8, <2>12 DEF NextOp
  <2> QED
    BY <2>6, <2>13
<1> HIDE DEF height
<1>2. PICK t0 \in D : TRUE
  BY DEF Deadlocked
<1>3. PICK t1 \in D : height(t0) < height(t1)
  BY <1>1
<1>4. PICK t2 \in D : height(t1) < height(t2)
  BY <1>1
<1>5. PICK t3 \in D : height(t2) < height(t3)
  BY <1>1
<1>6. PICK t4 \in D : height(t3) < height(t4)
  BY <1>1
<1>7. PICK t5 \in D : height(t4) < height(t5)
  BY <1>1
<1>8. \A t \in D : height(t) \in 0..4
  BY <1>1
<1> QED
  BY <1>3, <1>4, <1>5, <1>6, <1>7, <1>8

----------------------------------------------------------------------------
(* Locks: the quota manager *)

\* The locks that its methods want while they hold another one.
LEMMA QuotaNesting ==
    ASSUME NEW m \in QuotaMethods, NEW i \in Nat, i < Len(m.locks), m.locks[i + 1].do \in {"lock", "read"}
    PROVE  /\ \A j \in 1..i :
                (\A k \in (j + 1)..i : m.locks[k].lock # m.locks[j].lock) /\ m.locks[j].do # "unlock" =>
                  /\ m.locks[j].do = "read"
                  /\ m.locks[j].lock = "quotas" =>
                       \/ m.name = "check_limits" /\ m.locks[i + 1] = Read("usage")
                       \/ m.name = "check_and_record_request" /\ m.locks[i + 1] = Lock("usage")
                  /\ m.locks[j].lock = "usage" => m.name = "to_prometheus" /\ m.locks[i + 1] = Read("quotas")
           /\ m.locks[i + 1] \in {Lock("quotas"), Lock("usage"), Read("quotas"), Read("usage")}
           /\ m.locks[i + 1] = Lock("quotas") => m.name = "set_quota"
           /\ m.locks[i + 1] = Lock("usage") => m.name \in {"check_and_record_request", "record_storage"}
<1>1. CASE m = Method("check_limits", check_limits)
  BY <1>1 DEF Method, check_limits, Lock, Read, Unlock
<1>2. CASE m = Method("check_and_record_request", check_and_record_request)
  BY <1>2 DEF Method, check_and_record_request, Lock, Read, Unlock
<1>3. CASE m = Method("record_storage", record_storage)
  BY <1>3 DEF Method, record_storage, Brief, Lock, Read, Unlock
<1>4. CASE m = Method("set_quota", set_quota)
  BY <1>4 DEF Method, set_quota, Brief, Lock, Read, Unlock
<1>5. CASE m = Method("get_quota", get_quota)
  BY <1>5 DEF Method, get_quota, BriefRead, Lock, Read, Unlock
<1>6. CASE m = Method("get_usage", get_usage)
  BY <1>6 DEF Method, get_usage, BriefRead, Lock, Read, Unlock
<1>7. CASE m = Method("to_prometheus", to_prometheus)
  BY <1>7 DEF Method, to_prometheus, Lock, Read, Unlock
<1> QED
  BY <1>1, <1>2, <1>3, <1>4, <1>5, <1>6, <1>7 DEF QuotaMethods

\* A thread of a circle holds its locks for reading, and wants the other one.
LEMMA QuotaHolders ==
    ASSUME LInv, methods = QuotaMethods, NEW D \in SUBSET Thread, Deadlocked(D), NEW u \in D
    PROVE  /\ NextOp(u) \in {Lock("quotas"), Lock("usage"), Read("quotas"), Read("usage")}
           /\ NextOp(u) = Lock("quotas") => running[u].name = "set_quota"
           /\ NextOp(u) = Lock("usage") => running[u].name \in {"check_and_record_request", "record_storage"}
           /\ \A l : ~Holds(u, l, {"lock"})
           /\ Holds(u, "quotas", {"lock", "read"}) =>
                \/ running[u].name = "check_limits" /\ NextOp(u) = Read("usage")
                \/ running[u].name = "check_and_record_request" /\ NextOp(u) = Lock("usage")
           /\ Holds(u, "usage", {"lock", "read"}) =>
                running[u].name = "to_prometheus" /\ NextOp(u) = Read("quotas")
<1>1. running[u] \in QuotaMethods /\ at[u] \in Nat /\ Wants(u)
  BY HeldInCircle DEF LInv
<1>2. PICK m \in QuotaMethods, i \in Nat : m = running[u] /\ i = at[u]
  BY <1>1
<1>3. i < Len(m.locks) /\ m.locks[i + 1].do \in {"lock", "read"} /\ NextOp(u) = m.locks[i + 1]
  BY <1>1, <1>2 DEF Wants, InMethod, NextOp
<1>4. /\ NextOp(u) \in {Lock("quotas"), Lock("usage"), Read("quotas"), Read("usage")}
      /\ NextOp(u) = Lock("quotas") => m.name = "set_quota"
      /\ NextOp(u) = Lock("usage") => m.name \in {"check_and_record_request", "record_storage"}
  BY <1>3, QuotaNesting
<1>5. ASSUME NEW l, NEW ops \in SUBSET {"lock", "read"}, Holds(u, l, ops)
      PROVE  /\ "read" \in ops
             /\ l = "quotas" =>
                  \/ m.name = "check_limits" /\ NextOp(u) = Read("usage")
                  \/ m.name = "check_and_record_request" /\ NextOp(u) = Lock("usage")
             /\ l = "usage" => m.name = "to_prometheus" /\ NextOp(u) = Read("quotas")
  <2>1. PICK j \in 1..i : /\ m.locks[j].lock = l /\ m.locks[j].do \in ops
                          /\ \A k \in (j + 1)..i : m.locks[k].lock # l
    BY <1>2, <1>5 DEF Holds
  <2>2. m.locks[j].do # "unlock"
    BY <2>1
  <2> QED
    BY <1>3, <2>1, <2>2, QuotaNesting
<1>6. \A l : ~Holds(u, l, {"lock"})
  BY <1>5
<1>7. /\ Holds(u, "quotas", {"lock", "read"}) =>
           \/ m.name = "check_limits" /\ NextOp(u) = Read("usage")
           \/ m.name = "check_and_record_request" /\ NextOp(u) = Lock("usage")
      /\ Holds(u, "usage", {"lock", "read"}) => m.name = "to_prometheus" /\ NextOp(u) = Read("quotas")
  BY <1>5
<1> QED
  BY <1>2, <1>4, <1>6, <1>7

LEMMA QuotaCircles ==
    ASSUME LInv, methods = QuotaMethods, NEW D \in SUBSET Thread, Deadlocked(D)
    PROVE  \E combination \in KnownDeadlocks : combination \subseteq {running[t].name : t \in D}
<1> DEFINE Names == {running[t].name : t \in D}
<1>1. PICK t \in D : TRUE
  BY DEF Deadlocked
<1>2. ASSUME NEW r \in D, NEW l, NextOp(r).lock = l PROVE \E w \in D : Holds(w, l, {"lock", "read"})
  BY <1>2, HeldInCircle
<1>3. \A l : Read(l).lock = l /\ Read(l).do = "read" /\ Lock(l).lock = l /\ Lock(l).do = "lock"
  BY DEF Read, Lock
<1>4. ASSUME NEW l \in {"quotas", "usage"}, NEW r \in D, NextOp(r) = Read(l) PROVE \E w \in D : NextOp(w) = Lock(l)
  <2>1. PICK w \in D : w \in Blockers(r)
    BY DEF Deadlocked
  <2>2. ~Holds(w, l, {"lock"})
    BY QuotaHolders
  <2>3. QueuedFor(w, l)
    BY <1>3, <1>4, <2>1, <2>2, BlockedBy
  <2>4. NextOp(w).lock = l /\ NextOp(w).do = "lock"
    BY <2>3 DEF QueuedFor, LInv
  <2>5. NextOp(w) \in {Lock("quotas"), Lock("usage"), Read("quotas"), Read("usage")}
    BY QuotaHolders
  <2>6. NextOp(w) = Lock(l)
    BY <1>3, <2>4, <2>5
  <2> QED
    BY <2>6
<1>5. NextOp(t).lock \in {"quotas", "usage"}
  BY <1>3, QuotaHolders
<1>6. /\ \E u \in D : Holds(u, "quotas", {"lock", "read"})
      /\ \E p \in D : Holds(p, "usage", {"lock", "read"})
  <2>1. ASSUME NEW u \in D, Holds(u, "quotas", {"lock", "read"}) PROVE \E p \in D : Holds(p, "usage", {"lock", "read"})
    <3>1. NextOp(u).lock = "usage"
      <4>1. NextOp(u) \in {Read("usage"), Lock("usage")}
        BY <2>1, QuotaHolders
      <4> QED
        BY <1>3, <4>1
    <3> QED
      BY <1>2, <3>1
  <2>2. ASSUME NEW p \in D, Holds(p, "usage", {"lock", "read"}) PROVE \E u \in D : Holds(u, "quotas", {"lock", "read"})
    <3>1. NextOp(p).lock = "quotas"
      <4>1. NextOp(p) \in {Read("quotas")}
        BY <2>2, QuotaHolders
      <4> QED
        BY <1>3, <4>1
    <3> QED
      BY <1>2, <3>1
  <2>3. (\E u \in D : Holds(u, "quotas", {"lock", "read"})) \/ (\E p \in D : Holds(p, "usage", {"lock", "read"}))
    BY <1>2, <1>5
  <2> QED
    BY <2>1, <2>2, <2>3
<1>7. PICK p \in D : running[p].name = "to_prometheus" /\ NextOp(p) = Read("quotas")
  BY <1>6, QuotaHolders
<1>8. PICK s \in D : running[s].name = "set_quota"
  BY <1>4, <1>7, QuotaHolders
<1>9. PICK u \in D : \/ running[u].name = "check_limits" /\ NextOp(u) = Read("usage")
                     \/ running[u].name = "check_and_record_request" /\ NextOp(u) = Lock("usage")
  BY <1>6, QuotaHolders
<1>10. \A r \in D : running[r].name = "check_and_record_request" =>
          {"to_prometheus", "set_quota", "check_and_record_request"} \subseteq Names
  BY <1>7, <1>8
<1>11. CASE running[u].name = "check_limits" /\ NextOp(u) = Read("usage")
  <2>1. PICK w \in D : running[w].name \in {"check_and_record_request", "record_storage"}
    BY <1>4, <1>11, QuotaHolders
  <2>2. running[w].name = "record_storage" =>
          {"to_prometheus", "set_quota", "check_limits", "record_storage"} \subseteq Names
    BY <1>7, <1>8, <1>11
  <2> QED
    BY <1>10, <2>1, <2>2 DEF KnownDeadlocks
<1>12. CASE running[u].name = "check_and_record_request"
  BY <1>10, <1>12 DEF KnownDeadlocks
<1> QED
  BY <1>9, <1>11, <1>12

----------------------------------------------------------------------------
(* Locks: deadlocks *)

\* RaftNode, QuotaManager and KeyStore, for any number of threads: threads wait for one
\* another in a circle only if the methods of a known combination are among them.
THEOREM NoOtherDeadlock == LockSpec => []DeadlocksAreKnown
<1>1. LInv => DeadlocksAreKnown
  <2> SUFFICES ASSUME LInv, NEW D \in SUBSET Thread, Deadlocked(D)
               PROVE  \E combination \in KnownDeadlocks : combination \subseteq {running[t].name : t \in D}
    BY DEF DeadlocksAreKnown
  <2> DEFINE Names == {running[t].name : t \in D}
  <2>1. CASE methods = RaftMethods
    <3>1. "replicate" \in Names \/ "apply_snapshot" \in Names
      <4> SUFFICES ASSUME "replicate" \notin Names, "apply_snapshot" \notin Names PROVE FALSE
        OBVIOUS
      <4>1. \A t \in D : running[t].name \notin {"replicate", "apply_snapshot"}
        OBVIOUS
      <4>2. \A t \in D : running[t] \in methods => Ordered(running[t].locks, TermFirst)
        BY <2>1, <4>1, TermFirstOrders
      <4> QED
        BY <4>2, OrderedNeverBlock
    <3>2. "handle_append_entries" \in Names \/ "recover" \in Names
      <4> SUFFICES ASSUME "handle_append_entries" \notin Names, "recover" \notin Names PROVE FALSE
        OBVIOUS
      <4>1. \A t \in D : running[t].name \notin {"handle_append_entries", "recover"}
        OBVIOUS
      <4>2. \A t \in D : running[t] \in methods => Ordered(running[t].locks, LogFirst)
        BY <2>1, <4>1, LogFirstOrders
      <4> QED
        BY <4>2, OrderedNeverBlock
    <3>3. PICK a \in {"replicate", "apply_snapshot"}, b \in {"handle_append_entries", "recover"} :
              a \in Names /\ b \in Names
      BY <3>1, <3>2
    <3>4. {a, b} \in KnownDeadlocks
      BY DEF KnownDeadlocks
    <3> QED
      BY <3>3, <3>4
  <2>2. CASE methods = QuotaMethods
    BY <2>2, QuotaCircles
  <2>3. CASE methods = KeyMethods
    <3>1. \A t \in D : running[t] \in methods => Ordered(running[t].locks, KeysFirst)
      BY <2>3, KeysFirstOrders
    <3> QED
      BY <3>1, OrderedNeverBlock
  <2> QED
    BY <2>1, <2>2, <2>3 DEF LInv
<1> QED
  BY <1>1, LocksTyped, PTL
=============================================================================
