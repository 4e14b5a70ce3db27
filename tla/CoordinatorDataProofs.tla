---------------------- MODULE CoordinatorDataProofs ----------------------
(***************************************************************************)
(* Proofs about the requests of Coordinator that work through several      *)
(* operations or keys: the operations of a transaction, an import or a     *)
(* batch take effect in their order, and a listing is right about every    *)
(* key that nobody wrote while it ran.  For any number of requests, keys   *)
(* and operations, and any interleaving of them.                           *)
(***************************************************************************)
EXTENDS CoordinatorProofs, FiniteSetTheorems, NaturalsInduction

----------------------------------------------------------------------------
(* The keys of a set in their order *)

LEMMA LeastOf ==
    ASSUME NEW S \in SUBSET Nat, S # {}
    PROVE \E m \in S : \A n \in S : m <= n
<1>1. IsWellFoundedOn(OpToRel(<, Nat), Nat)
  BY NatLessThanWellFounded
<1>2. PICK m \in S : \A n \in S : ~ (<<n, m>> \in OpToRel(<, Nat))
  BY <1>1, WFMin
<1>3. \A n \in S : n < m => <<n, m>> \in OpToRel(<, Nat)
  BY Zenon DEF OpToRel
<1>4. \A n \in S : ~ (n < m)
  BY <1>2, <1>3, Zenon
<1>5. ASSUME NEW n \in S PROVE m <= n
  <2>1. m \in Nat /\ n \in Nat /\ ~ (n < m)
    BY <1>4
  <2> QED
    BY <2>1
<1> QED
  BY <1>5

\* s lists S in ascending order.
Ascends(s, S) ==
    /\ s \in [1..Cardinality(S) -> S]
    /\ \A i, j \in 1..Cardinality(S) : i < j => s[i] < s[j]

\* A set with one element less in front of it has one more to list.
LEMMA AscendsFromLeast ==
    ASSUME NEW S \in SUBSET Nat, IsFiniteSet(S), NEW m \in S, \A n \in S : m <= n,
           NEW t, Ascends(t, S \ {m})
    PROVE \E s : Ascends(s, S)
<1> DEFINE n == Cardinality(S)
           s == [i \in 1..n |-> IF i = 1 THEN m ELSE t[i - 1]]
<1>1. n \in Nat /\ n # 0 /\ Cardinality(S \ {m}) = n - 1
  BY FS_CardinalityType, FS_EmptySet, FS_RemoveElement
<1> HIDE DEF n
<1>2. t \in [1..(n - 1) -> S \ {m}] /\ \A i, j \in 1..(n - 1) : i < j => t[i] < t[j]
  BY <1>1 DEF Ascends
<1>3. \A i \in 2..n : s[i] = t[i - 1] /\ i - 1 \in 1..(n - 1) /\ t[i - 1] \in S \ {m}
  BY <1>1, <1>2
<1>4. s[1] = m
  BY <1>1
<1>5. s \in [1..n -> S]
  <2>1. ASSUME NEW i \in 1..n PROVE s[i] \in S
    <3>1. i = 1 \/ i \in 2..n
      BY <1>1
    <3> QED
      BY <1>3, <1>4, <3>1, Zenon
  <2> QED
    BY <2>1
<1>6. ASSUME NEW i \in 1..n, NEW j \in 1..n, i < j PROVE s[i] < s[j]
  <2>0. j \in 2..n
    BY <1>1, <1>6
  <2>1. s[j] = t[j - 1] /\ t[j - 1] \in S \ {m} /\ j - 1 \in 1..(n - 1)
    BY <1>3, <2>0
  <2>2. CASE i = 1
    <3>1. m <= t[j - 1] /\ m # t[j - 1] /\ m \in Nat /\ t[j - 1] \in Nat
      BY <2>1
    <3> QED
      BY <1>4, <2>1, <2>2, <3>1
  <2>3. CASE i # 1
    <3>1. i \in 2..n
      BY <1>1, <2>3
    <3>2. s[i] = t[i - 1] /\ i - 1 \in 1..(n - 1) /\ i - 1 < j - 1
      BY <1>1, <1>3, <1>6, <3>1
    <3> QED
      BY <1>2, <2>1, <3>2
  <2> QED
    BY <2>2, <2>3
<1> QED
  BY <1>5, <1>6 DEF Ascends, n

LEMMA AscendingExists ==
    ASSUME NEW S \in SUBSET Nat, IsFiniteSet(S)
    PROVE \E s : Ascends(s, S)
<1> DEFINE Bad == {n \in Nat : \E T \in SUBSET Nat :
                       IsFiniteSet(T) /\ Cardinality(T) = n /\ ~ \E s : Ascends(s, T)}
<1>1. ASSUME Bad # {} PROVE FALSE
  <2>1. PICK n \in Bad : \A k \in Bad : n <= k
    BY <1>1, LeastOf
  <2>2. PICK T \in SUBSET Nat : IsFiniteSet(T) /\ Cardinality(T) = n /\ ~ \E s : Ascends(s, T)
    BY <2>1
  <2>3. CASE T = {}
    <3>1. Cardinality(T) = 0
      BY <2>3, FS_EmptySet
    <3>2. Ascends([i \in 1..0 |-> 0], T)
      BY <3>1 DEF Ascends
    <3> QED
      BY <2>2, <3>2
  <2>4. CASE T # {}
    <3>1. PICK m \in T : \A k \in T : m <= k
      BY <2>4, LeastOf
    <3>2. IsFiniteSet(T \ {m}) /\ Cardinality(T \ {m}) = n - 1
      BY <2>2, FS_RemoveElement
    <3>3. n - 1 \in Nat
      BY <3>2, FS_CardinalityType
    <3>4. n - 1 \notin Bad
      BY <2>1, <3>3
    <3>5. \E t : Ascends(t, T \ {m})
      BY <3>2, <3>3, <3>4
    <3> QED
      BY <2>2, <3>1, <3>5, AscendsFromLeast
  <2> QED
    BY <2>3, <2>4
<1>2. Cardinality(S) \in Nat
  BY FS_CardinalityType
<1> QED
  BY <1>1, <1>2

\* What list_keys returns: each key once, in ascending order.
LEMMA AscendingLists ==
    ASSUME NEW S \in SUBSET Key
    PROVE /\ Ascending(S) \in Seq(S)
          /\ \A i, j \in 1..Len(Ascending(S)) : i < j => Ascending(S)[i] < Ascending(S)[j]
          /\ \A k : k \in S <=> \E i \in 1..Len(Ascending(S)) : Ascending(S)[i] = k
<1> DEFINE n == Cardinality(S)
           a == Ascending(S)
<1>1. IsFiniteSet(S) /\ S \in SUBSET Nat
  BY KeyAssumption, FS_Subset
<1>2. n \in Nat
  BY <1>1, FS_CardinalityType
<1>3. Ascends(a, S)
  <2>1. PICK s : Ascends(s, S)
    BY <1>1, AscendingExists
  <2> QED
    BY <2>1 DEF Ascends, Ascending
<1> HIDE DEF a
<1>4. a \in [1..n -> S] /\ \A i, j \in 1..n : i < j => a[i] < a[j]
  BY <1>3 DEF Ascends
<1>5. a \in Injection(1..n, S)
  <2>1. ASSUME NEW i \in 1..n, NEW j \in 1..n, a[i] = a[j] PROVE i = j
    <3>1. a[i] \in Nat /\ a[j] \in Nat
      BY <1>1, <1>4
    <3>2. ~ (i < j) /\ ~ (j < i)
      BY <1>4, <2>1, <3>1
    <3> QED
      BY <1>2, <3>2
  <2> QED
    BY <1>4, <2>1 DEF Injection, IsInjective
<1>6. Cardinality(1..n) = n
  BY <1>2, FS_Interval
<1>7. a \in Surjection(1..n, S)
  BY <1>1, <1>5, <1>6, FS_Injection DEF n
<1>8. \A k \in S : \E i \in 1..n : a[i] = k
  BY <1>7 DEF Surjection
<1>9. a \in Seq(S) /\ Len(a) = n
  BY <1>2, <1>4
<1> QED
  BY <1>4, <1>8, <1>9 DEF a

----------------------------------------------------------------------------
(* Types *)

OpsState ==
    [at : {"transaction", "import", "batch"}, ops : Seq(Op), results : Seq(BOOLEAN),
     before : [Key -> Entry]]

ListingState ==
    [at : {"export", "search", "range"}, query : SUBSET (Value \cup Key), out : Seq(Key \X Entry),
     todo : Seq(Key)]

OpsTyped(r) ==
    Running(r) =>
        /\ req[r] \in OpsState
        /\ Len(req[r].ops) <= MaxOps
        /\ Len(req[r].results) <= Len(req[r].ops)
        /\ req[r].at # "batch" => \A i \in 1..Len(req[r].ops) : req[r].ops[i].op # "get"

ListingTyped(r) == Listing(r) => req[r] \in ListingState

DataTyped ==
    /\ storage \in [Key -> Entry]
    /\ metadata \in [Key -> Entry]
    /\ silent \in SUBSET Key
    /\ dirty \in [Req -> SUBSET ({"storage", "metadata"} \X Key)]

TInv == CInv /\ DataTyped /\ \A r \in Req : OpsTyped(r) /\ ListingTyped(r)

LEMMA InitTInv == Init => TInv
<1> SUFFICES ASSUME Init PROVE TInv
  OBVIOUS
<1>1. CInv
  BY InitCInv
<1>2. DataTyped
  BY DEF Init, DataTyped, Entry
<1>3. ASSUME NEW r \in Req PROVE OpsTyped(r) /\ ListingTyped(r)
  <2>1. req[r].at = "new"
    BY DEF Init, New
  <2> QED
    BY <2>1 DEF OpsTyped, ListingTyped, Running, Listing
<1> QED
  BY <1>1, <1>2, <1>3 DEF TInv

\* q sets key k of a store.
Writes(q, store, k, v) ==
    /\ MarkDirty(q, store, k)
    /\ store = "storage" => storage' = [storage EXCEPT ![k] = v] /\ UNCHANGED metadata
    /\ store = "metadata" => metadata' = [metadata EXCEPT ![k] = v] /\ UNCHANGED storage

\* q writes nothing.
Reads(q) ==
    /\ UNCHANGED <<storage, metadata>>
    /\ dirty' = dirty \/ dirty' = [dirty EXCEPT ![q] = {}]

\* The operation that ApplyOp applies.
NextOp(r) == req[r].ops[Len(req[r].results) + 1]

LEMMA NextOpTyped ==
    ASSUME TInv, NEW r \in Req, ApplyOp(r)
    PROVE /\ Running(r) /\ req[r] \in OpsState
          /\ Len(req[r].results) \in Nat /\ Len(req[r].ops) \in Nat
          /\ Len(req[r].results) + 1 \in 1..Len(req[r].ops)
          /\ Len(req[r].results) + 1 \in 1..MaxOps
          /\ NextOp(r) \in Op
<1>1. /\ Running(r) /\ req[r] \in OpsState
      /\ Len(req[r].ops) <= MaxOps /\ Len(req[r].results) <= Len(req[r].ops)
      /\ Len(req[r].results) # Len(req[r].ops)
  BY DEF ApplyOp, AllDone, TInv, OpsTyped
<1>2. req[r].results \in Seq(BOOLEAN) /\ req[r].ops \in Seq(Op)
  BY <1>1 DEF OpsState
<1>3. Len(req[r].results) \in Nat /\ Len(req[r].ops) \in Nat
  BY <1>2
<1>4. Len(req[r].results) + 1 \in 1..Len(req[r].ops)
  BY <1>1, <1>3
<1>5. Len(req[r].results) + 1 \in 1..MaxOps
  BY <1>1, <1>3, OpsAssumption
<1>6. NextOp(r) \in Op
  BY <1>2, <1>4 DEF NextOp
<1> QED
  BY <1>1, <1>3, <1>4, <1>5, <1>6

\* What ApplyOp does, by the kind of the operation.
Applied(r, v, b) ==
    /\ Writes(r, StoreOf(req[r].at), NextOp(r).key, v)
    /\ Goto(r, [req[r] EXCEPT !.results = Append(@, b)])
    /\ UNCHANGED silent

LEMMA ApplyForms ==
    ASSUME TInv, NEW r \in Req, ApplyOp(r)
    PROVE \/ /\ NextOp(r).op \in {"put", "delete"}
             /\ Applied(r, IF NextOp(r).op = "put" THEN <<r, Len(req[r].results) + 1>> ELSE None, TRUE)
          \/ /\ NextOp(r).op = "get"
             /\ Goto(r, [req[r] EXCEPT !.results = Append(@, metadata[NextOp(r).key] # None)])
             /\ UNCHANGED dataVars
          \/ /\ NextOp(r).op = "invalid"
             /\ Goto(r, [req[r] EXCEPT !.results = Append(@, FALSE)])
             /\ UNCHANGED dataVars
<1>1. CASE NextOp(r).op \in {"put", "delete"}
  <2>1. /\ SetEntry(req[r].at, NextOp(r).key,
                    IF NextOp(r).op = "put" THEN <<r, Len(req[r].results) + 1>> ELSE None)
        /\ MarkDirty(r, StoreOf(req[r].at), NextOp(r).key)
        /\ Goto(r, [req[r] EXCEPT !.results = Append(@, TRUE)])
        /\ UNCHANGED silent
    BY <1>1 DEF ApplyOp, NextOp, ValidResult
  <2> QED
    BY <1>1, <2>1 DEF Applied, Writes, SetEntry, StoreOf
<1>2. CASE NextOp(r).op = "get"
  BY <1>2 DEF ApplyOp, NextOp
<1>3. CASE NextOp(r).op = "invalid"
  BY <1>3 DEF ApplyOp, NextOp, InvalidResult
<1> QED
  BY <1>1, <1>2, <1>3, NextOpTyped DEF Op

LEMMA RequestWrites ==
    ASSUME TInv, NEW q \in Req, RequestStep(q)
    PROVE /\ \E s : Goto(q, s)
          /\ \/ Reads(q)
             \/ \E store \in {"storage", "metadata"}, k \in Key, v \in Entry : Writes(q, store, k, v)
<1> DEFINE P == /\ \E s : Goto(q, s)
                /\ \/ Reads(q)
                   \/ \E store \in {"storage", "metadata"}, k \in Key, v \in Entry : Writes(q, store, k, v)
<1> USE DEF dataVars, Reads
<1>1. ASSUME NEW k \in Key, S3Put(q, k) PROVE P
  <2>1. <<q, 1>> \in Entry
    BY OpsAssumption DEF Entry, Value
  <2>2. Writes(q, "storage", k, <<q, 1>>)
    BY <1>1 DEF S3Put, Writes
  <2>3. \E s : Goto(q, s)
    BY <1>1 DEF S3Put
  <2> QED
    BY <2>1, <2>2, <2>3
<1>2. CASE S3Publish(q)
  BY <1>2 DEF S3Publish, Respond
<1>3. ASSUME ListingSteps(q) PROVE P
  BY <1>3 DEF ListingSteps, StartListing, ListNext, EndListing, Respond
<1>4. ASSUME NEW kind, NEW ops, StartOps(q, kind, ops) PROVE P
  BY <1>4 DEF StartOps
<1>5. CASE ApplyOp(q)
  <2>1. NextOp(q).key \in Key /\ <<q, Len(req[q].results) + 1>> \in Entry /\ None \in Entry
    BY <1>5, NextOpTyped DEF Op, Entry, Value
  <2>2. StoreOf(req[q].at) \in {"storage", "metadata"}
    BY DEF StoreOf
  <2>3. \E s : Goto(q, s)
    BY <1>5, ApplyForms DEF Applied
  <2>4. \/ UNCHANGED dataVars
        \/ Writes(q, StoreOf(req[q].at), NextOp(q).key,
                  IF NextOp(q).op = "put" THEN <<q, Len(req[q].results) + 1>> ELSE None)
    BY <1>5, ApplyForms DEF Applied
  <2> QED
    BY <2>1, <2>2, <2>3, <2>4
<1>6. CASE EndOps(q)
  BY <1>6 DEF EndOps, Respond
<1>7. CASE KeySteps(q)
  BY <1>7 DEF KeySteps, CreateKey, CreateKeyHash, CreateKeyAudit, EndKey, EndKeyNotFound, EndKeyAudit,
     EndKeyPublish, Authenticate, AuthenticateFails, AuthenticatedTouch, Respond
<1> QED
  BY <1>1, <1>2, <1>3, <1>4, <1>5, <1>6, <1>7 DEF RequestStep, S3Steps, OpsSteps

\* A request that is running.
Busy(r) == req[r] \notin {New, Done}

\* What the steps of the others leave of a running request: its state, and every
\* entry that is not marked as written.
Undisturbed(r) ==
    /\ req'[r] = req[r]
    /\ Busy(r) =>
          /\ dirty[r] \subseteq dirty'[r]
          /\ \A k \in Key : <<"storage", k>> \notin dirty'[r] => storage'[k] = storage[k]
          /\ \A k \in Key : <<"metadata", k>> \notin dirty'[r] => metadata'[k] = metadata[k]

LEMMA OthersLeave ==
    ASSUME TInv, [Next]_vars, NEW r \in Req, ~RequestStep(r)
    PROVE Undisturbed(r)
<1> USE DEF TInv, DataTyped
<1>1. ASSUME NEW q \in Req, RequestStep(q) PROVE Undisturbed(r)
  <2>1. q # r
    BY <1>1
  <2>2. req'[r] = req[r]
    BY <1>1, <2>1, RequestWrites, MoveOK
  <2>3. CASE Reads(q)
    BY <2>1, <2>2, <2>3 DEF Reads, Undisturbed
  <2>4. ASSUME NEW store \in {"storage", "metadata"}, NEW k \in Key, NEW v, Writes(q, store, k, v)
        PROVE Undisturbed(r)
    <3>1. Busy(r) => dirty'[r] = dirty[r] \cup {<<store, k>>}
      BY <2>1, <2>4 DEF Writes, MarkDirty, Busy
    <3>2. ASSUME NEW l \in Key, Busy(r), <<"storage", l>> \notin dirty'[r]
          PROVE storage'[l] = storage[l]
      BY <2>4, <3>1, <3>2 DEF Writes
    <3>3. ASSUME NEW l \in Key, Busy(r), <<"metadata", l>> \notin dirty'[r]
          PROVE metadata'[l] = metadata[l]
      BY <2>4, <3>1, <3>3 DEF Writes
    <3> QED
      BY <2>2, <3>1, <3>2, <3>3 DEF Undisturbed
  <2> QED
    BY <1>1, <2>3, <2>4, RequestWrites
<1>2. CASE UNCHANGED <<dataVars, req>>
  BY <1>2 DEF dataVars, Undisturbed
<1> QED
  BY <1>1, <1>2, NextIsRequestStep DEF WatchSteps, ClockStep, vars

LEMMA StepDataTyped ==
    ASSUME TInv, [Next]_vars
    PROVE DataTyped'
<1> USE DEF TInv, DataTyped
<1>1. ASSUME NEW q \in Req, RequestStep(q)
      PROVE storage' \in [Key -> Entry] /\ metadata' \in [Key -> Entry]
            /\ dirty' \in [Req -> SUBSET ({"storage", "metadata"} \X Key)]
  <2>1. CASE Reads(q)
    BY <2>1 DEF Reads
  <2>2. ASSUME NEW store \in {"storage", "metadata"}, NEW k \in Key, NEW v \in Entry, Writes(q, store, k, v)
        PROVE storage' \in [Key -> Entry] /\ metadata' \in [Key -> Entry]
              /\ dirty' \in [Req -> SUBSET ({"storage", "metadata"} \X Key)]
    <3>1. storage' \in [Key -> Entry] /\ metadata' \in [Key -> Entry]
      BY <2>2 DEF Writes
    <3>2. <<store, k>> \in {"storage", "metadata"} \X Key
      OBVIOUS
    <3>3. dirty' \in [Req -> SUBSET ({"storage", "metadata"} \X Key)]
      BY <2>2, <3>2 DEF Writes, MarkDirty
    <3> QED
      BY <3>1, <3>3
  <2> QED
    BY <1>1, <2>1, <2>2, RequestWrites
<1>2. ASSUME NEW q \in Req, RequestStep(q) PROVE silent' \in SUBSET Key
  <2>1. ASSUME NEW k \in Key, S3Put(q, k) PROVE silent' \in SUBSET Key
    BY <2>1 DEF S3Put
  <2>2. CASE S3Publish(q)
    BY <2>2 DEF S3Publish
  <2>3. CASE OpsSteps(q)
    BY <2>3 DEF OpsSteps, StartOps, ApplyOp, EndOps, dataVars
  <2>4. CASE ListingSteps(q)
    BY <2>4 DEF ListingSteps, StartListing, ListNext, EndListing, dataVars
  <2>5. CASE KeySteps(q)
    BY <2>5 DEF KeySteps, CreateKey, CreateKeyHash, CreateKeyAudit, EndKey, EndKeyNotFound, EndKeyAudit,
       EndKeyPublish, Authenticate, AuthenticateFails, AuthenticatedTouch, dataVars
  <2> QED
    BY <1>2, <2>1, <2>2, <2>3, <2>4, <2>5 DEF RequestStep, S3Steps
<1>3. CASE UNCHANGED dataVars
  BY <1>3 DEF dataVars
<1> QED
  BY <1>1, <1>2, <1>3, NextIsRequestStep DEF WatchSteps, ClockStep, vars

\* Steps after which a request has no operations or keys left to work through.
LEMMA LeavesNothing ==
    ASSUME TInv, NEW r \in Req, S3Steps(r) \/ EndOps(r) \/ EndListing(r) \/ KeySteps(r)
    PROVE ~Running(r)' /\ ~Listing(r)'
<1> DEFINE Plain == {"new", "done", "s3_stored", "create_inserted", "created", "key_ended",
                     "key_audited", "authenticated"}
<1>0. CInv
  BY DEF TInv
<1>1. ASSUME NEW s, Goto(r, s), s.at \in Plain PROVE ~Running(r)' /\ ~Listing(r)'
  <2>1. req'[r] = s
    BY <1>0, <1>1, MoveOK
  <2> QED
    BY <1>1, <2>1 DEF Running, Listing
<1>2. ASSUME Respond(r) PROVE ~Running(r)' /\ ~Listing(r)'
  BY <1>1, <1>2 DEF Respond, Done
<1>3. CASE S3Steps(r)
  BY <1>1, <1>2, <1>3 DEF S3Steps, S3Put, S3Publish
<1>4. CASE EndOps(r) \/ EndListing(r)
  BY <1>2, <1>4 DEF EndOps, EndListing
<1>5. CASE KeySteps(r)
  <2>1. ASSUME NEW ttl, CreateKey(r, ttl) PROVE ~Running(r)' /\ ~Listing(r)'
    BY <1>1, <2>1 DEF CreateKey
  <2>2. CASE CreateKeyHash(r)
    BY <1>1, <2>2 DEF CreateKeyHash
  <2>3. ASSUME NEW id, NEW event, EndKey(r, id, event) PROVE ~Running(r)' /\ ~Listing(r)'
    BY <1>1, <2>3 DEF EndKey
  <2>4. CASE EndKeyAudit(r)
    BY <1>1, <2>4 DEF EndKeyAudit
  <2>5. ASSUME NEW id, Authenticate(r, id) PROVE ~Running(r)' /\ ~Listing(r)'
    BY <1>1, <2>5 DEF Authenticate
  <2> QED
    BY <1>2, <1>5, <2>1, <2>2, <2>3, <2>4, <2>5 DEF KeySteps, CreateKeyAudit, EndKeyNotFound,
       EndKeyPublish, AuthenticateFails, AuthenticatedTouch
<1> QED
  BY <1>3, <1>4, <1>5

\* The requests that start, with the lists and queries they may have.
Starts(r, kind, ops) ==
    /\ StartOps(r, kind, ops)
    /\ kind \in {"transaction", "import", "batch"}
    /\ ops \in Seq(Op) /\ Len(ops) <= MaxOps
    /\ kind # "batch" => \A i \in 1..Len(ops) : ops[i].op # "get"

Lists(r, kind, query) ==
    /\ StartListing(r, kind, query)
    /\ kind \in {"export", "search", "range"}
    /\ query \in SUBSET (Value \cup Key)
    /\ kind = "range" => query \in SUBSET Key

LEMMA OwnSteps ==
    ASSUME TInv, NEW r \in Req, RequestStep(r)
    PROVE \/ ~Running(r)' /\ ~Listing(r)'
          \/ \E kind, ops : Starts(r, kind, ops)
          \/ ApplyOp(r)
          \/ \E kind, query : Lists(r, kind, query)
          \/ ListNext(r)
<1>1. ASSUME NEW ops \in Transactions, StartOps(r, "transaction", ops) PROVE Starts(r, "transaction", ops)
  BY <1>1, OpsAssumption DEF Starts
<1>2. ASSUME NEW ops \in Imports, StartOps(r, "import", ops) PROVE Starts(r, "import", ops)
  BY <1>2, OpsAssumption DEF Starts
<1>3. ASSUME NEW ops \in Batches, StartOps(r, "batch", ops) PROVE Starts(r, "batch", ops)
  BY <1>3, OpsAssumption DEF Starts
<1>4. ASSUME StartListing(r, "export", {}) PROVE Lists(r, "export", {})
  BY <1>4 DEF Lists
<1>5. ASSUME NEW q \in Req, StartListing(r, "search", {q} \X (1..MaxOps))
      PROVE Lists(r, "search", {q} \X (1..MaxOps))
  BY <1>5 DEF Lists, Value
<1>6. ASSUME NEW first \in Key, NEW last \in Key,
             StartListing(r, "range", {k \in Key : first <= k /\ k <= last})
      PROVE Lists(r, "range", {k \in Key : first <= k /\ k <= last})
  BY <1>6 DEF Lists
<1>7. CASE OpsSteps(r)
  BY <1>1, <1>2, <1>3, <1>7, LeavesNothing DEF OpsSteps
<1>8. CASE ListingSteps(r)
  BY <1>4, <1>5, <1>6, <1>8, LeavesNothing DEF ListingSteps
<1> QED
  BY <1>7, <1>8, LeavesNothing DEF RequestStep

\* The states after the steps of a list of operations.
LEMMA StartedOps ==
    ASSUME TInv, NEW r \in Req, NEW kind, NEW ops, Starts(r, kind, ops)
    PROVE /\ req'[r] = [at |-> kind, ops |-> ops, results |-> << >>, before |-> Current(kind)]
          /\ req'[r] \in OpsState
          /\ UNCHANGED dataVars
<1>1. Goto(r, [at |-> kind, ops |-> ops, results |-> << >>, before |-> Current(kind)])
  BY DEF Starts, StartOps
<1>2. req'[r] = [at |-> kind, ops |-> ops, results |-> << >>, before |-> Current(kind)]
  BY <1>1, MoveOK DEF TInv
<1>3. Current(kind) \in [Key -> Entry]
  BY DEF Current, TInv, DataTyped
<1>4. << >> \in Seq(BOOLEAN)
  OBVIOUS
<1> QED
  BY <1>2, <1>3, <1>4 DEF OpsState, Starts, StartOps

LEMMA AppliedOp ==
    ASSUME TInv, NEW r \in Req, ApplyOp(r)
    PROVE \E b \in BOOLEAN :
             /\ req'[r] = [req[r] EXCEPT !.results = Append(req[r].results, b)]
             /\ req'[r] \in OpsState
             /\ req'[r].at = req[r].at /\ req'[r].ops = req[r].ops /\ req'[r].before = req[r].before
             /\ req'[r].results = Append(req[r].results, b)
             /\ Len(req'[r].results) = Len(req[r].results) + 1
             /\ \A i \in 1..Len(req[r].results) : req'[r].results[i] = req[r].results[i]
             /\ req'[r].results[Len(req[r].results) + 1] = b
             /\ \/ NextOp(r).op \in {"put", "delete"} /\ b = TRUE
                \/ NextOp(r).op = "get" /\ b = (metadata[NextOp(r).key] # None)
                \/ NextOp(r).op = "invalid" /\ b = FALSE
<1>1. PICK b \in BOOLEAN :
         /\ Goto(r, [req[r] EXCEPT !.results = Append(@, b)])
         /\ \/ NextOp(r).op \in {"put", "delete"} /\ b = TRUE
            \/ NextOp(r).op = "get" /\ b = (metadata[NextOp(r).key] # None)
            \/ NextOp(r).op = "invalid" /\ b = FALSE
  BY ApplyForms DEF Applied
<1>2. req'[r] = [req[r] EXCEPT !.results = Append(@, b)]
  BY <1>1, MoveOK DEF TInv
<1>3. req[r] \in OpsState /\ req[r].results \in Seq(BOOLEAN)
  BY NextOpTyped DEF OpsState
<1>4. Append(req[r].results, b) \in Seq(BOOLEAN)
  BY <1>3
<1>5. /\ req'[r] \in OpsState
      /\ req'[r].at = req[r].at /\ req'[r].ops = req[r].ops /\ req'[r].before = req[r].before
      /\ req'[r].results = Append(req[r].results, b)
  BY <1>2, <1>3, <1>4 DEF OpsState
<1>6. /\ Len(Append(req[r].results, b)) = Len(req[r].results) + 1
      /\ \A i \in 1..Len(req[r].results) : Append(req[r].results, b)[i] = req[r].results[i]
      /\ Append(req[r].results, b)[Len(req[r].results) + 1] = b
  BY <1>3, Appended
<1> QED
  BY <1>1, <1>2, <1>5, <1>6

\* The states after the steps of a listing.
LEMMA StartedListing ==
    ASSUME TInv, NEW r \in Req, NEW kind, NEW query, Lists(r, kind, query)
    PROVE /\ req'[r] = [at |-> kind, query |-> query, out |-> << >>,
                        todo |-> IF kind = "range" THEN Selected(query) ELSE list_keys]
          /\ req'[r] \in ListingState
          /\ UNCHANGED dataVars
<1> DEFINE todo == IF kind = "range" THEN Selected(query) ELSE list_keys
<1>1. todo \in Seq(Key)
  <2>1. list_keys \in Seq({k \in Key : metadata[k] # None})
    BY AscendingLists DEF list_keys
  <2>2. CASE kind = "range"
    <3>1. {k \in query : metadata[k] # None} \in SUBSET Key
      BY <2>2 DEF Lists
    <3>2. Selected(query) \in Seq({k \in query : metadata[k] # None})
      BY <3>1, AscendingLists DEF Selected
    <3> QED
      BY <2>2, <3>1, <3>2
  <2> QED
    BY <2>1, <2>2
<1>2. Goto(r, [at |-> kind, query |-> query, out |-> << >>, todo |-> todo])
  BY DEF Lists, StartListing
<1> HIDE DEF todo
<1>3. req'[r] = [at |-> kind, query |-> query, out |-> << >>, todo |-> todo]
  BY <1>2, MoveOK DEF TInv
<1>4. << >> \in Seq(Key \X Entry)
  OBVIOUS
<1>5. req'[r] \in ListingState
  BY <1>1, <1>3, <1>4 DEF ListingState, Lists
<1> QED
  BY <1>3, <1>5 DEF todo, Lists, StartListing

\* The value of the next key is taken into the output.
Taken(r) ==
    \/ req[r].at = "range"
    \/ req[r].at = "export" /\ ReadNext(r) # None
    \/ req[r].at = "search" /\ ReadNext(r) \in req[r].query

LEMMA Listed ==
    ASSUME TInv, NEW r \in Req, ListNext(r)
    PROVE /\ req[r] \in ListingState /\ req[r].todo # << >>
          /\ req'[r] \in ListingState
          /\ Head(req[r].todo) \in Key /\ ReadNext(r) \in Entry
          /\ req'[r].at = req[r].at /\ req'[r].query = req[r].query
          /\ req'[r].todo = Tail(req[r].todo)
          /\ req'[r].out = IF Taken(r) THEN Append(req[r].out, <<Head(req[r].todo), ReadNext(r)>>)
                           ELSE req[r].out
          /\ UNCHANGED dataVars
<1>1. req[r] \in ListingState /\ req[r].todo # << >>
  BY DEF ListNext, TInv, ListingTyped
<1>2. req[r].todo \in Seq(Key) /\ req[r].out \in Seq(Key \X Entry)
  BY <1>1 DEF ListingState
<1>3. Head(req[r].todo) \in Key /\ Tail(req[r].todo) \in Seq(Key)
  BY <1>1, <1>2
<1>4. ReadNext(r) \in Entry
  BY <1>3 DEF ReadNext, TInv, DataTyped
<1>5. Append(req[r].out, <<Head(req[r].todo), ReadNext(r)>>) \in Seq(Key \X Entry)
  BY <1>2, <1>3, <1>4
<1>6. CASE Taken(r)
  <2>1. Goto(r, [req[r] EXCEPT !.todo = Tail(@), !.out = Append(@, <<Head(req[r].todo), ReadNext(r)>>)])
    BY <1>6 DEF ListNext, Taken
  <2>2. req'[r] = [req[r] EXCEPT !.todo = Tail(@), !.out = Append(@, <<Head(req[r].todo), ReadNext(r)>>)]
    BY <2>1, MoveOK DEF TInv
  <2> QED
    BY <1>1, <1>3, <1>4, <1>5, <1>6, <2>2 DEF ListingState, ListNext
<1>7. CASE ~Taken(r)
  <2>1. Goto(r, [req[r] EXCEPT !.todo = Tail(@)])
    BY <1>7 DEF ListNext, Taken, Skip
  <2>2. req'[r] = [req[r] EXCEPT !.todo = Tail(@)]
    BY <2>1, MoveOK DEF TInv
  <2> QED
    BY <1>1, <1>3, <1>4, <1>7, <2>2 DEF ListingState, ListNext
<1> QED
  BY <1>6, <1>7

LEMMA StepTInv ==
    ASSUME TInv, [Next]_vars
    PROVE TInv'
<1>1. CInv'
  BY StepCInv DEF TInv
<1>2. ASSUME NEW r \in Req PROVE OpsTyped(r)' /\ ListingTyped(r)'
  <2>1. CASE ~RequestStep(r)
    <3>1. req'[r] = req[r]
      BY <2>1, OthersLeave DEF Undisturbed
    <3> QED
      BY <3>1 DEF TInv, OpsTyped, ListingTyped, Running, Listing
  <2>2. CASE ~Running(r)' /\ ~Listing(r)'
    BY <2>2 DEF OpsTyped, ListingTyped
  <2>3. ASSUME NEW kind, NEW ops, Starts(r, kind, ops) PROVE OpsTyped(r)' /\ ListingTyped(r)'
    <3>1. Len(<< >>) = 0 /\ Len(ops) \in Nat
      BY <2>3 DEF Starts
    <3>2. /\ req'[r] = [at |-> kind, ops |-> ops, results |-> << >>, before |-> Current(kind)]
          /\ req'[r] \in OpsState
      BY <2>3, StartedOps
    <3>3. req'[r].at = kind /\ req'[r].ops = ops /\ req'[r].results = << >>
      BY <3>2
    <3>4. OpsTyped(r)'
      BY <2>3, <3>1, <3>2, <3>3 DEF OpsTyped, Starts
    <3>5. ~Listing(r)'
      BY <2>3, <3>3 DEF Listing, Starts
    <3> QED
      BY <3>4, <3>5 DEF ListingTyped
  <2>4. CASE ApplyOp(r)
    <3>1. /\ req'[r] \in OpsState
          /\ req'[r].at = req[r].at /\ req'[r].ops = req[r].ops
          /\ Len(req'[r].results) = Len(req[r].results) + 1
      BY <2>4, AppliedOp
    <3>2. Running(r) /\ Len(req[r].results) + 1 \in 1..Len(req[r].ops)
      BY <2>4, NextOpTyped
    <3>3. OpsTyped(r)'
      BY <3>1, <3>2 DEF TInv, OpsTyped
    <3>4. ~Listing(r)'
      BY <3>1, <3>2 DEF Running, Listing
    <3> QED
      BY <3>3, <3>4 DEF ListingTyped
  <2>5. ASSUME NEW kind, NEW query, Lists(r, kind, query) PROVE OpsTyped(r)' /\ ListingTyped(r)'
    <3>1. req'[r] \in ListingState
      BY <2>5, StartedListing
    <3> QED
      BY <3>1 DEF OpsTyped, ListingTyped, Running, ListingState
  <2>6. CASE ListNext(r)
    <3>1. req'[r] \in ListingState
      BY <2>6, Listed
    <3> QED
      BY <3>1 DEF OpsTyped, ListingTyped, Running, ListingState
  <2> QED
    BY <2>1, <2>2, <2>3, <2>4, <2>5, <2>6, OwnSteps
<1> QED
  BY <1>1, <1>2, StepDataTyped DEF TInv

LEMMA ApiTInv == Spec => []TInv
<1>1. TInv /\ [Next]_vars => TInv'
  BY StepTInv
<1> QED
  BY <1>1, InitTInv, PTL DEF Spec

\* Every variable of the API has its type, for any number of requests.
THEOREM ApiTypes == Spec => []TypeOK
<1>1. TInv => TypeOK
  <2> SUFFICES ASSUME TInv PROVE TypeOK
    OBVIOUS
  <2>1. KeyTypeOK /\ WatchTypeOK
    BY DEF TInv, CInv, KInv, WInv
  <2>2. \A r \in Req : Listing(r) => req[r].out \in Seq(Key \X Entry)
    BY DEF TInv, ListingTyped, ListingState
  <2> QED
    BY <2>1, <2>2 DEF TypeOK, TInv, OpsTyped, DataTyped
<1> QED
  BY <1>1, ApiTInv, PTL

----------------------------------------------------------------------------
(* Operations in their order *)

\* What OpsInOrder says of one request: of the entries, and of the results.
EntriesInOrder(r) ==
    \A k \in Key :
        <<StoreOf(req[r].at), k>> \notin dirty[r]
            => Current(req[r].at)[k] = Expected(r, k, Len(req[r].results) + 1)

ResultRight(r, i) ==
    LET op == req[r].ops[i] IN
    CASE op.op = "get" ->
           <<StoreOf(req[r].at), op.key>> \notin dirty[r]
               => req[r].results[i] = (Expected(r, op.key, i) # None)
      [] OTHER -> req[r].results[i] = (op.op # "invalid")

OpsOK(r) ==
    Running(r) => EntriesInOrder(r) /\ \A i \in 1..Len(req[r].results) : ResultRight(r, i)

\* The operations before the i-th one that write key k.
Before(r, k, i) ==
    {j \in 1..(i - 1) : req[r].ops[j].key = k /\ req[r].ops[j].op \in {"put", "delete"}}

\* What is expected depends on the list and the entries from before it alone.
LEMMA ExpectedKept ==
    ASSUME NEW r, req'[r].ops = req[r].ops, req'[r].before = req[r].before
    PROVE \A k, i : Expected(r, k, i)' = Expected(r, k, i)
BY DEF Expected, LastWrite

\* Before the first operation the entries from before are expected.
FirstExpected == \A r, k : Expected(r, k, 1) = req[r].before[k]

LEMMA ExpectedFirst == FirstExpected
<1> SUFFICES ASSUME NEW r, NEW k PROVE Expected(r, k, 1) = req[r].before[k]
  BY DEF FirstExpected
<1>1. LastWrite(r, k, 1) = Max({0})
  BY DEF LastWrite
<1>2. Max({0}) = 0
  BY DEF Max
<1> QED
  BY <1>1, <1>2 DEF Expected

\* After an operation that writes key k, its value is expected there.
LEMMA ExpectedWritten ==
    ASSUME NEW r, NEW n \in Nat, req[r].ops[n + 1].op \in {"put", "delete"}
    PROVE Expected(r, req[r].ops[n + 1].key, n + 2) =
              IF req[r].ops[n + 1].op = "put" THEN <<r, n + 1>> ELSE None
<1> DEFINE k == req[r].ops[n + 1].key
           S == {0} \cup {j \in 1..((n + 2) - 1) : req[r].ops[j].key = k /\ req[r].ops[j].op \in {"put", "delete"}}
<1>1. n + 1 \in S /\ \A j \in S : j \in Nat /\ j <= n + 1
  OBVIOUS
<1> HIDE DEF S
<1>2. Max(S) = n + 1
  <2>1. \E x \in S : \A y \in S : x >= y
    BY <1>1
  <2>2. Max(S) \in S /\ \A y \in S : Max(S) >= y
    BY <2>1 DEF Max
  <2> QED
    BY <1>1, <2>2
<1>3. LastWrite(r, k, n + 2) = n + 1
  BY <1>2 DEF LastWrite, S
<1>4. n + 1 # 0
  OBVIOUS
<1> QED
  BY <1>3, <1>4 DEF Expected

\* An operation that does not write key k changes nothing there.
LEMMA ExpectedAside ==
    ASSUME NEW r, NEW n \in Nat, NEW k,
           req[r].ops[n + 1].key # k \/ req[r].ops[n + 1].op \notin {"put", "delete"}
    PROVE Expected(r, k, n + 2) = Expected(r, k, n + 1)
<1>1. Before(r, k, n + 2) = Before(r, k, n + 1)
  BY DEF Before
<1>2. LastWrite(r, k, n + 2) = LastWrite(r, k, n + 1)
  BY <1>1 DEF LastWrite, Before
<1> QED
  BY <1>2 DEF Expected

LEMMA StartOpsOK ==
    ASSUME TInv, NEW r \in Req, NEW kind, NEW ops, Starts(r, kind, ops)
    PROVE OpsOK(r)'
<1>1. /\ req'[r] = [at |-> kind, ops |-> ops, results |-> << >>, before |-> Current(kind)]
      /\ UNCHANGED dataVars
  BY StartedOps
<1>2. /\ req'[r].at = kind /\ Len(req'[r].results) = 0 /\ req'[r].before = Current(kind)
      /\ storage' = storage /\ metadata' = metadata
  BY <1>1 DEF dataVars
<1>3. ASSUME NEW k PROVE Expected(r, k, 1)' = Current(kind)[k]
  <2>1. FirstExpected'
    BY ExpectedFirst, PTL
  <2>2. Expected(r, k, 1)' = req'[r].before[k]
    BY <2>1 DEF FirstExpected
  <2> QED
    BY <1>2, <2>2
<1>4. EntriesInOrder(r)'
  BY <1>2, <1>3 DEF EntriesInOrder, Current
<1> QED
  BY <1>2, <1>4 DEF OpsOK

LEMMA ApplyOpsOK ==
    ASSUME TInv, NEW r \in Req, OpsOK(r), ApplyOp(r)
    PROVE OpsOK(r)'
<1>0. PICK n \in Nat, op \in Op, kind \in {req[r].at} :
         n = Len(req[r].results) /\ kind = req[r].at /\ op = NextOp(r)
  BY NextOpTyped
<1> DEFINE new == IF kind = "batch" THEN metadata' ELSE storage'
<1>1. PICK b \in BOOLEAN :
         /\ req'[r].at = kind /\ req'[r].ops = req[r].ops /\ req'[r].before = req[r].before
         /\ Len(req'[r].results) = n + 1
         /\ \A i \in 1..n : req'[r].results[i] = req[r].results[i]
         /\ req'[r].results[n + 1] = b
         /\ \/ op.op \in {"put", "delete"} /\ b = TRUE
            \/ op.op = "get" /\ b = (metadata[op.key] # None)
            \/ op.op = "invalid" /\ b = FALSE
  BY <1>0, AppliedOp
<1>2. Running(r) /\ n + 1 \in 1..Len(req[r].ops) /\ req[r].ops[n + 1] = op /\ req[r] \in OpsState
  BY <1>0, NextOpTyped DEF NextOp
<1>3. \A k, i : Expected(r, k, i)' = Expected(r, k, i)
  BY <1>1, ExpectedKept
<1>4. EntriesInOrder(r) /\ \A i \in 1..n : ResultRight(r, i)
  BY <1>0, <1>2 DEF OpsOK
<1>5. dirty'[r] = dirty[r]
  BY ApplyForms DEF Applied, Writes, MarkDirty, TInv, DataTyped, dataVars
<1>6. ASSUME NEW k \in Key, <<StoreOf(kind), k>> \notin dirty[r]
      PROVE new[k] = Expected(r, k, n + 2)
  <2>1. Current(kind)[k] = Expected(r, k, n + 1)
    BY <1>0, <1>4, <1>6 DEF EntriesInOrder
  <2>2. CASE op.op \in {"put", "delete"}
    <3> DEFINE v == IF op.op = "put" THEN <<r, n + 1>> ELSE None
    <3>1. Writes(r, StoreOf(kind), op.key, v)
      BY <1>0, <2>2, ApplyForms DEF Applied
    <3>2. op.key \in Key
      BY DEF Op
    <3>3. CASE k = op.key
      <4>1. new[k] = v
        BY <3>1, <3>2, <3>3 DEF Writes, StoreOf, TInv, DataTyped
      <4>2. Expected(r, k, n + 2) = v
        BY <1>2, <2>2, <3>3, ExpectedWritten
      <4> QED
        BY <4>1, <4>2
    <3>4. CASE k # op.key
      <4>1. new[k] = Current(kind)[k]
        BY <3>1, <3>2, <3>4 DEF Writes, StoreOf, TInv, DataTyped, Current
      <4>2. Expected(r, k, n + 2) = Expected(r, k, n + 1)
        BY <1>2, <3>4, ExpectedAside
      <4> QED
        BY <2>1, <4>1, <4>2
    <3> QED
      BY <3>3, <3>4
  <2>3. CASE op.op \notin {"put", "delete"}
    <3>1. storage' = storage /\ metadata' = metadata
      BY <1>0, <2>3, ApplyForms DEF dataVars
    <3>2. Expected(r, k, n + 2) = Expected(r, k, n + 1)
      BY <1>2, <2>3, ExpectedAside
    <3> QED
      BY <2>1, <3>1, <3>2 DEF Current
  <2> QED
    BY <2>2, <2>3
<1>7. EntriesInOrder(r)'
  <2>1. Len(req'[r].results) + 1 = n + 2
    BY <1>1, <1>2
  <2>2. Current(req[r].at)' = new
    BY <1>0, <1>1 DEF Current
  <2>3. ASSUME NEW k \in Key, <<StoreOf(kind), k>> \notin dirty'[r]
        PROVE Current(req[r].at)'[k] = Expected(r, k, Len(req[r].results) + 1)'
    <3>1. Expected(r, k, Len(req[r].results) + 1)' = Expected(r, k, n + 2)'
      BY <2>1 DEF Expected, LastWrite
    <3> QED
      BY <1>3, <1>5, <1>6, <2>2, <2>3, <3>1
  <2> QED
    BY <1>1, <2>3 DEF EntriesInOrder, StoreOf
<1>8. ASSUME NEW i \in 1..n PROVE ResultRight(r, i)'
  BY <1>0, <1>1, <1>3, <1>4, <1>5 DEF ResultRight, StoreOf
<1>9. ResultRight(r, n + 1)'
  <2>1. CASE op.op = "get"
    <3>1. kind = "batch"
      BY <1>0, <1>2, <2>1 DEF TInv, OpsTyped
    <3>2. op.key \in Key
      BY DEF Op
    <3>3. <<"metadata", op.key>> \notin dirty[r]
              => metadata[op.key] = Expected(r, op.key, n + 1)
      BY <1>0, <1>4, <3>1, <3>2 DEF EntriesInOrder, StoreOf, Current
    <3>4. <<"metadata", op.key>> \notin dirty'[r]
              => req'[r].results[n + 1] = (Expected(r, op.key, n + 1)' # None)
      BY <1>1, <1>3, <1>5, <2>1, <3>3
    <3> QED
      BY <1>1, <1>2, <2>1, <3>1, <3>4 DEF ResultRight, StoreOf
  <2>2. CASE op.op # "get"
    BY <1>1, <1>2, <2>2 DEF ResultRight
  <2> QED
    BY <2>1, <2>2
<1>10. ASSUME NEW i \in 1..(n + 1) PROVE ResultRight(r, i)'
  <2>1. i \in 1..n \/ i = n + 1
    BY <1>2
  <2>2. CASE i = n + 1
    BY <1>9, <2>2
  <2> QED
    BY <1>8, <2>1, <2>2
<1> QED
  BY <1>1, <1>7, <1>10 DEF OpsOK

LEMMA OthersOpsOK ==
    ASSUME TInv, NEW r \in Req, OpsOK(r), Undisturbed(r)
    PROVE OpsOK(r)'
<1> SUFFICES ASSUME Running(r)' PROVE EntriesInOrder(r)' /\ \A i \in 1..Len(req'[r].results) : ResultRight(r, i)'
  BY DEF OpsOK
<1>1. req'[r] = req[r] /\ Running(r) /\ Busy(r)
  BY DEF Undisturbed, Running, Busy, New, Done
<1>2. /\ EntriesInOrder(r) /\ \A i \in 1..Len(req[r].results) : ResultRight(r, i)
      /\ dirty[r] \subseteq dirty'[r]
      /\ \A k \in Key : <<"storage", k>> \notin dirty'[r] => storage'[k] = storage[k]
      /\ \A k \in Key : <<"metadata", k>> \notin dirty'[r] => metadata'[k] = metadata[k]
  BY <1>1 DEF OpsOK, Undisturbed
<1>3. PICK n, kind : n = Len(req[r].results) + 1 /\ kind = req[r].at
  OBVIOUS
<1>4. \A k, i : Expected(r, k, i)' = Expected(r, k, i)
  BY <1>1, ExpectedKept
<1>5. ASSUME NEW k \in Key, <<StoreOf(kind), k>> \notin dirty'[r]
      PROVE (IF kind = "batch" THEN metadata' ELSE storage')[k] = Expected(r, k, n)'
  <2>1. Current(kind)[k] = Expected(r, k, n)
    BY <1>2, <1>3, <1>5 DEF EntriesInOrder
  <2>2. Current(kind)[k] = (IF kind = "batch" THEN metadata' ELSE storage')[k]
    BY <1>2, <1>5 DEF Current, StoreOf
  <2> QED
    BY <1>4, <2>1, <2>2
<1>6. EntriesInOrder(r)'
  BY <1>1, <1>3, <1>5 DEF EntriesInOrder, StoreOf, Current
<1>7. ASSUME NEW i \in 1..Len(req[r].results) PROVE ResultRight(r, i)'
  BY <1>1, <1>2, <1>4 DEF ResultRight, StoreOf
<1> QED
  BY <1>1, <1>6, <1>7

LEMMA StepOpsOK ==
    ASSUME TInv, [Next]_vars, NEW r \in Req, OpsOK(r)
    PROVE OpsOK(r)'
<1>1. CASE ~RequestStep(r)
  BY <1>1, OthersLeave, OthersOpsOK
<1>2. ASSUME ~Running(r)' PROVE OpsOK(r)'
  BY <1>2 DEF OpsOK
<1>3. ASSUME NEW kind, NEW ops, Starts(r, kind, ops) PROVE OpsOK(r)'
  BY <1>3, StartOpsOK
<1>4. CASE ApplyOp(r)
  BY <1>4, ApplyOpsOK
<1>5. ASSUME NEW kind, NEW query, Lists(r, kind, query) PROVE ~Running(r)'
  BY <1>5, StartedListing DEF Running, ListingState
<1>6. ASSUME ListNext(r) PROVE ~Running(r)'
  BY <1>6, Listed DEF Running, ListingState
<1> QED
  BY <1>1, <1>2, <1>3, <1>4, <1>5, <1>6, OwnSteps

OpsInv == \A r \in Req : OpsOK(r)

\* The operations of transactions, imports and batches take effect in their order,
\* whatever other requests do to other keys, and the results say which did.
THEOREM ApiOpsInOrder == Spec => []OpsInOrder
<1>1. Init => OpsInv
  <2> SUFFICES ASSUME Init, NEW r \in Req PROVE ~Running(r)
    BY DEF OpsInv, OpsOK
  <2> QED
    BY DEF Init, New, Running
<1>2. TInv /\ [Next]_vars /\ OpsInv => OpsInv'
  BY StepOpsOK DEF OpsInv
<1>3. OpsInv => OpsInOrder
  BY DEF OpsInv, OpsOK, EntriesInOrder, ResultRight, OpsInOrder
<1> QED
  BY <1>1, <1>2, <1>3, ApiTInv, PTL DEF Spec

----------------------------------------------------------------------------
(* Listings *)

Untouched(r, k) == <<"storage", k>> \notin dirty[r] /\ <<"metadata", k>> \notin dirty[r]

\* The value with which key k is listed, and whether it is to be.
ListedValue(kind, k) == IF kind = "range" THEN metadata[k] ELSE storage[k]

Belongs(kind, query, k) ==
    /\ metadata[k] # None
    /\ kind = "export" => storage[k] # None
    /\ kind = "search" => storage[k] \in query
    /\ kind = "range" => k \in query

\* Keys come in ascending order, those that are listed before those still to be read.
Sorted(todo, out) ==
    /\ \A i, j \in 1..Len(todo) : i < j => todo[i] < todo[j]
    /\ \A i, j \in 1..Len(out) : i < j => out[i][1] < out[j][1]
    /\ \A i \in 1..Len(out), j \in 1..Len(todo) : out[i][1] < todo[j]

Pending(todo, k) == \E i \in 1..Len(todo) : todo[i] = k
InOutput(out, k, v) == \E i \in 1..Len(out) : out[i] = <<k, v>>

\* A key that nobody wrote: while it is still to be read it has metadata and lies in
\* the range, and from then on it is listed exactly if it belongs there.
KeyRight(r, k) ==
    IF Pending(req[r].todo, k)
    THEN metadata[k] # None /\ (req[r].at = "range" => k \in req[r].query)
    ELSE InOutput(req[r].out, k, ListedValue(req[r].at, k)) <=> Belongs(req[r].at, req[r].query, k)

ListingOK(r) ==
    Listing(r) =>
        /\ Sorted(req[r].todo, req[r].out)
        /\ \A k \in Key : Untouched(r, k) => KeyRight(r, k)

LEMMA StartListingOK ==
    ASSUME TInv, NEW r \in Req, NEW kind, NEW query, Lists(r, kind, query)
    PROVE ListingOK(r)'
<1> DEFINE S == IF kind = "range" THEN {k \in query : metadata[k] # None}
                ELSE {k \in Key : metadata[k] # None}
<1>1. S \in SUBSET Key
  BY DEF Lists
<1>2. PICK todo : todo = Ascending(S)
  OBVIOUS
<1>3. /\ req'[r] = [at |-> kind, query |-> query, out |-> << >>, todo |-> todo]
      /\ UNCHANGED dataVars
  BY <1>2, StartedListing DEF Selected, list_keys
<1>4. /\ req'[r].at = kind /\ req'[r].query = query /\ req'[r].out = << >> /\ req'[r].todo = todo
      /\ metadata' = metadata /\ storage' = storage
  BY <1>3 DEF dataVars
<1>5. /\ \A i, j \in 1..Len(todo) : i < j => todo[i] < todo[j]
      /\ \A k : k \in S <=> Pending(todo, k)
  BY <1>1, <1>2, AscendingLists DEF Pending
<1>6. Len(<< >>) = 0
  OBVIOUS
<1>7. Sorted(todo, << >>)
  BY <1>5, <1>6 DEF Sorted
<1>8. ASSUME NEW k \in Key PROVE KeyRight(r, k)'
  <2>1. CASE k \in S
    <3>1. Pending(todo, k) /\ metadata[k] # None /\ (kind = "range" => k \in query)
      BY <1>5, <2>1
    <3> QED
      BY <1>4, <3>1 DEF KeyRight
  <2>2. CASE k \notin S
    <3>1. ~Pending(todo, k)
      BY <1>5, <2>2
    <3>2. ~(metadata[k] # None /\ (kind = "range" => k \in query))
      BY <2>2
    <3>3. \A v : ~InOutput(<< >>, k, v)
      BY <1>6 DEF InOutput
    <3> QED
      BY <1>4, <3>1, <3>2, <3>3 DEF KeyRight, Belongs
  <2> QED
    BY <2>1, <2>2
<1> QED
  BY <1>4, <1>7, <1>8 DEF ListingOK

\* One key less to read, in front of the others.
LEMMA TailOf ==
    ASSUME NEW T, NEW s \in Seq(T), s # << >>
    PROVE /\ Len(s) \in Nat \ {0} /\ Len(Tail(s)) = Len(s) - 1
          /\ Head(s) = s[1]
          /\ \A i \in 1..Len(Tail(s)) : Tail(s)[i] = s[i + 1]
OBVIOUS

LEMMA PendingTail ==
    ASSUME NEW todo \in Seq(Key), todo # << >>, NEW out, Sorted(todo, out)
    PROVE /\ Pending(todo, Head(todo)) /\ ~Pending(Tail(todo), Head(todo))
          /\ \A k \in Key \ {Head(todo)} : Pending(Tail(todo), k) <=> Pending(todo, k)
<1>1. /\ Len(todo) \in Nat \ {0} /\ Len(Tail(todo)) = Len(todo) - 1
      /\ Head(todo) = todo[1]
      /\ \A i \in 1..Len(Tail(todo)) : Tail(todo)[i] = todo[i + 1]
  BY TailOf
<1>2. Pending(todo, Head(todo))
  BY <1>1 DEF Pending
<1>3. ASSUME NEW i \in 1..Len(Tail(todo)), Tail(todo)[i] = Head(todo) PROVE FALSE
  <2>1. i + 1 \in 1..Len(todo) /\ 1 \in 1..Len(todo) /\ 1 < i + 1
    BY <1>1
  <2>2. todo[1] < todo[i + 1]
    BY <2>1 DEF Sorted
  <2>3. todo[1] \in Key
    BY <2>1
  <2>4. todo[1] \in Nat
    BY <2>3, KeyAssumption
  <2> QED
    BY <1>1, <1>3, <2>2, <2>4
<1>4. ASSUME NEW k \in Key \ {Head(todo)}, Pending(todo, k) PROVE Pending(Tail(todo), k)
  <2>1. PICK i \in 1..Len(todo) : todo[i] = k
    BY <1>4 DEF Pending
  <2>2. i - 1 \in 1..Len(Tail(todo)) /\ (i - 1) + 1 = i
    BY <1>1, <2>1
  <2>3. Tail(todo)[i - 1] = todo[i]
    BY <1>1, <2>2
  <2> QED
    BY <2>1, <2>2, <2>3 DEF Pending
<1>5. ASSUME NEW k, Pending(Tail(todo), k) PROVE Pending(todo, k)
  <2>1. PICK i \in 1..Len(Tail(todo)) : Tail(todo)[i] = k
    BY <1>5 DEF Pending
  <2>2. i + 1 \in 1..Len(todo) /\ todo[i + 1] = k
    BY <1>1, <2>1
  <2> QED
    BY <2>2 DEF Pending
<1> QED
  BY <1>2, <1>3, <1>4, <1>5 DEF Pending

LEMMA SortedTail ==
    ASSUME NEW todo \in Seq(Key), todo # << >>, NEW out \in Seq(Key \X Entry), Sorted(todo, out),
           NEW v \in Entry
    PROVE Sorted(Tail(todo), out) /\ Sorted(Tail(todo), Append(out, <<Head(todo), v>>))
<1>1. /\ Len(todo) \in Nat \ {0} /\ Len(Tail(todo)) = Len(todo) - 1
      /\ Head(todo) = todo[1]
      /\ \A i \in 1..Len(Tail(todo)) : Tail(todo)[i] = todo[i + 1]
  BY TailOf
<1>2. PICK n \in Nat : n = Len(out)
  OBVIOUS
<1>3. PICK m \in Nat : m = Len(Tail(todo)) /\ m + 1 = Len(todo)
  <2>1. Len(todo) - 1 \in Nat /\ (Len(todo) - 1) + 1 = Len(todo)
    BY <1>1
  <2> QED
    BY <1>1, <2>1
<1>4. /\ \A i, j \in 1..(m + 1) : i < j => todo[i] < todo[j]
      /\ \A i, j \in 1..n : i < j => out[i][1] < out[j][1]
      /\ \A i \in 1..n, j \in 1..(m + 1) : out[i][1] < todo[j]
  BY <1>2, <1>3 DEF Sorted
<1>5. \A i \in 1..m : Tail(todo)[i] = todo[i + 1] /\ i + 1 \in 1..(m + 1)
  BY <1>1, <1>3
<1>6. \A i, j \in 1..m : i < j => Tail(todo)[i] < Tail(todo)[j]
  <2> SUFFICES ASSUME NEW i \in 1..m, NEW j \in 1..m, i < j PROVE Tail(todo)[i] < Tail(todo)[j]
    OBVIOUS
  <2>1. i + 1 < j + 1
    OBVIOUS
  <2> QED
    BY <1>4, <1>5, <2>1
<1>7. \A i \in 1..n, j \in 1..m : out[i][1] < Tail(todo)[j]
  BY <1>4, <1>5
<1>8. Sorted(Tail(todo), out)
  BY <1>2, <1>3, <1>4, <1>6, <1>7 DEF Sorted
<1>9. Head(todo) \in Key
  BY <1>1
<1> DEFINE e == <<Head(todo), v>>
<1>10. e \in Key \X Entry /\ e[1] = todo[1]
  BY <1>1, <1>9
<1> HIDE DEF e
<1>11. PICK new : new = Append(out, e)
  OBVIOUS
<1>12. /\ Len(new) = n + 1
       /\ \A i \in 1..n : new[i] = out[i]
       /\ new[n + 1] = e
  BY <1>2, <1>10, <1>11, Appended
<1>13. ASSUME NEW i \in 1..(n + 1), NEW j \in 1..(n + 1), i < j PROVE new[i][1] < new[j][1]
  <2>1. i \in 1..n /\ new[i] = out[i]
    BY <1>12, <1>13
  <2>2. CASE j \in 1..n
    BY <1>4, <1>12, <1>13, <2>1, <2>2
  <2>3. CASE j = n + 1
    <3>1. 1 \in 1..(m + 1)
      OBVIOUS
    <3>2. out[i][1] < todo[1]
      BY <1>4, <2>1, <3>1
    <3> QED
      BY <1>10, <1>12, <2>1, <2>3, <3>2
  <2>4. j \in 1..n \/ j = n + 1
    OBVIOUS
  <2> QED
    BY <2>2, <2>3, <2>4
<1>14. ASSUME NEW i \in 1..(n + 1), NEW j \in 1..m PROVE new[i][1] < Tail(todo)[j]
  <2>1. CASE i \in 1..n
    BY <1>7, <1>12, <2>1
  <2>2. CASE i = n + 1
    <3>1. 1 \in 1..(m + 1) /\ 1 < j + 1
      OBVIOUS
    <3>2. todo[1] < todo[j + 1]
      BY <1>4, <1>5, <3>1
    <3> QED
      BY <1>5, <1>10, <1>12, <2>2, <3>2
  <2>3. i \in 1..n \/ i = n + 1
    OBVIOUS
  <2> QED
    BY <2>1, <2>2, <2>3
<1>15. Sorted(Tail(todo), new)
  BY <1>3, <1>6, <1>12, <1>13, <1>14 DEF Sorted
<1> QED
  BY <1>8, <1>11, <1>15 DEF e

\* One more line of the output.
LEMMA OutputAppended ==
    ASSUME NEW out \in Seq(Key \X Entry), NEW h \in Key, NEW v \in Entry
    PROVE /\ InOutput(Append(out, <<h, v>>), h, v)
          /\ \A k, w : k # h => (InOutput(Append(out, <<h, v>>), k, w) <=> InOutput(out, k, w))
<1>1. <<h, v>> \in Key \X Entry
  OBVIOUS
<1>2. PICK new : new = Append(out, <<h, v>>)
  OBVIOUS
<1>3. /\ Len(out) \in Nat /\ Len(new) = Len(out) + 1
      /\ \A i \in 1..Len(out) : new[i] = out[i]
      /\ new[Len(out) + 1] = <<h, v>>
  BY <1>1, <1>2, Appended
<1>4. InOutput(new, h, v)
  BY <1>3 DEF InOutput
<1>5. ASSUME NEW k, NEW w, k # h, NEW i \in 1..Len(new), new[i] = <<k, w>> PROVE InOutput(out, k, w)
  <2>1. i # Len(out) + 1
    BY <1>3, <1>5
  <2>2. i \in 1..Len(out)
    BY <1>3, <2>1
  <2> QED
    BY <1>3, <1>5, <2>2 DEF InOutput
<1>6. ASSUME NEW k, NEW w, NEW i \in 1..Len(out), out[i] = <<k, w>> PROVE InOutput(new, k, w)
  <2>1. i \in 1..Len(new)
    BY <1>3
  <2> QED
    BY <1>3, <1>6, <2>1 DEF InOutput
<1> QED
  BY <1>2, <1>4, <1>5, <1>6 DEF InOutput

\* The next key is not in the output yet.
LEMMA HeadNotInOutput ==
    ASSUME NEW todo \in Seq(Key), todo # << >>, NEW out, Sorted(todo, out)
    PROVE \A v : ~InOutput(out, Head(todo), v)
<1>1. Len(todo) \in Nat \ {0} /\ Head(todo) = todo[1]
  BY TailOf
<1>2. 1 \in 1..Len(todo)
  BY <1>1
<1>3. todo[1] \in Key
  BY <1>2
<1>4. todo[1] \in Nat
  BY <1>3, KeyAssumption
<1>5. ASSUME NEW v, NEW i \in 1..Len(out), out[i] = <<Head(todo), v>> PROVE FALSE
  <2>1. out[i][1] < todo[1]
    BY <1>2 DEF Sorted
  <2>2. out[i][1] = todo[1]
    BY <1>1, <1>5
  <2> QED
    BY <1>4, <2>1, <2>2
<1> QED
  BY <1>5 DEF InOutput

LEMMA ListNextOK ==
    ASSUME TInv, NEW r \in Req, ListingOK(r), ListNext(r)
    PROVE ListingOK(r)'
<1>1. PICK todo, out, kind, query :
         todo = req[r].todo /\ out = req[r].out /\ kind = req[r].at /\ query = req[r].query
  OBVIOUS
<1>2. req[r] \in ListingState /\ todo # << >> /\ Listing(r)
  BY <1>1, Listed DEF ListNext
<1>3. todo \in Seq(Key) /\ out \in Seq(Key \X Entry)
  BY <1>1, <1>2 DEF ListingState
<1>4. PICK h \in Key, v \in Entry : h = Head(todo) /\ v = ReadNext(r)
  BY <1>1, Listed
<1>5. PICK new : new = IF Taken(r) THEN Append(out, <<h, v>>) ELSE out
  OBVIOUS
<1>6. /\ req'[r].at = kind /\ req'[r].query = query /\ req'[r].todo = Tail(todo) /\ req'[r].out = new
      /\ metadata' = metadata /\ storage' = storage /\ dirty' = dirty
  BY <1>1, <1>4, <1>5, Listed DEF dataVars
<1>7. Sorted(todo, out) /\ \A k \in Key : Untouched(r, k) => KeyRight(r, k)
  BY <1>1, <1>2 DEF ListingOK
<1>8. Sorted(Tail(todo), new)
  BY <1>2, <1>3, <1>4, <1>5, <1>7, SortedTail
<1>9. v = ListedValue(kind, h)
  BY <1>1, <1>4 DEF ReadNext, ListedValue
<1>10. Taken(r) <=> kind = "range" \/ (kind = "export" /\ v # None) \/ (kind = "search" /\ v \in query)
  BY <1>1, <1>4 DEF Taken
<1>11. kind \in {"export", "search", "range"}
  BY <1>1, <1>2 DEF Listing
<1>12. ASSUME NEW k \in Key, Untouched(r, k)' PROVE KeyRight(r, k)'
  <2>1. KeyRight(r, k)
    BY <1>6, <1>7, <1>12 DEF Untouched
  <2>2. CASE k = h
    <3>1. metadata[h] # None /\ (kind = "range" => h \in query)
      BY <1>1, <1>2, <1>3, <1>4, <1>7, <2>1, <2>2, PendingTail DEF KeyRight
    <3>2. ~Pending(Tail(todo), h)
      BY <1>2, <1>3, <1>4, <1>7, PendingTail
    <3>3. Taken(r) <=> Belongs(kind, query, h)
      BY <1>9, <1>10, <1>11, <3>1 DEF Belongs, ListedValue
    <3>4. InOutput(new, h, v) <=> Taken(r)
      BY <1>2, <1>3, <1>4, <1>5, <1>7, OutputAppended, HeadNotInOutput
    <3>5. ListedValue(kind, h)' = v /\ (Belongs(kind, query, h)' <=> Belongs(kind, query, h))
      BY <1>6, <1>9 DEF ListedValue, Belongs
    <3> QED
      BY <1>6, <2>2, <3>2, <3>3, <3>4, <3>5 DEF KeyRight, ListedValue, Belongs
  <2>3. CASE k # h
    <3>1. Pending(Tail(todo), k) <=> Pending(todo, k)
      BY <1>2, <1>3, <1>4, <1>7, <2>3, PendingTail
    <3>2. \A w : InOutput(new, k, w) <=> InOutput(out, k, w)
      BY <1>3, <1>4, <1>5, <2>3, OutputAppended
    <3> QED
      BY <1>1, <1>6, <2>1, <3>1, <3>2 DEF KeyRight, ListedValue, Belongs
  <2> QED
    BY <2>2, <2>3
<1> QED
  BY <1>6, <1>8, <1>12 DEF ListingOK

LEMMA OthersListingOK ==
    ASSUME TInv, NEW r \in Req, ListingOK(r), Undisturbed(r)
    PROVE ListingOK(r)'
<1> SUFFICES ASSUME Listing(r)'
             PROVE /\ Sorted(req'[r].todo, req'[r].out)
                   /\ \A k \in Key : Untouched(r, k)' => KeyRight(r, k)'
  BY DEF ListingOK
<1>1. req'[r] = req[r] /\ Listing(r) /\ Busy(r)
  BY DEF Undisturbed, Listing, Busy, New, Done
<1>2. Sorted(req[r].todo, req[r].out) /\ \A k \in Key : Untouched(r, k) => KeyRight(r, k)
  BY <1>1 DEF ListingOK
<1>3. ASSUME NEW k \in Key, Untouched(r, k)' PROVE KeyRight(r, k)'
  <2>1. Untouched(r, k) /\ storage'[k] = storage[k] /\ metadata'[k] = metadata[k]
    BY <1>1, <1>3 DEF Undisturbed, Untouched
  <2>2. KeyRight(r, k)
    BY <1>2, <2>1
  <2> QED
    BY <1>1, <2>1, <2>2 DEF KeyRight, ListedValue, Belongs
<1> QED
  BY <1>1, <1>2, <1>3

LEMMA StepListingOK ==
    ASSUME TInv, [Next]_vars, NEW r \in Req, ListingOK(r)
    PROVE ListingOK(r)'
<1>1. CASE ~RequestStep(r)
  BY <1>1, OthersLeave, OthersListingOK
<1>2. ASSUME ~Listing(r)' PROVE ListingOK(r)'
  BY <1>2 DEF ListingOK
<1>3. ASSUME NEW kind, NEW ops, Starts(r, kind, ops) PROVE ~Listing(r)'
  BY <1>3, StartedOps DEF Listing, OpsState
<1>4. ASSUME ApplyOp(r) PROVE ~Listing(r)'
  BY <1>4, AppliedOp DEF Listing, OpsState
<1>5. ASSUME NEW kind, NEW query, Lists(r, kind, query) PROVE ListingOK(r)'
  BY <1>5, StartListingOK
<1>6. CASE ListNext(r)
  BY <1>6, ListNextOK
<1> QED
  BY <1>1, <1>2, <1>3, <1>4, <1>5, <1>6, OwnSteps

ListingInv == \A r \in Req : ListingOK(r)

\* What is left to read of a listing that is through.
LEMMA ThroughIsExact ==
    ASSUME ListingInv
    PROVE ListingExact
<1> SUFFICES ASSUME NEW r \in Req, Listing(r), req[r].todo = << >>
             PROVE /\ \A i, j \in 1..Len(req[r].out) : i < j => req[r].out[i][1] < req[r].out[j][1]
                   /\ \A k \in Key : Untouched(r, k) =>
                         (InOutput(req[r].out, k, ListedValue(req[r].at, k))
                             <=> Belongs(req[r].at, req[r].query, k))
  BY DEF ListingExact, Untouched, InOutput, ListedValue, Belongs
<1>1. Sorted(req[r].todo, req[r].out) /\ \A k \in Key : Untouched(r, k) => KeyRight(r, k)
  BY DEF ListingInv, ListingOK
<1>2. \A k : ~Pending(req[r].todo, k)
  <2>1. Len(<< >>) = 0
    OBVIOUS
  <2> QED
    BY <2>1 DEF Pending
<1> QED
  BY <1>1, <1>2 DEF Sorted, KeyRight

\* An export, a search and a range query are right about every key that nobody wrote
\* while they ran, and no key comes twice or out of order.
THEOREM ApiListingExact == Spec => []ListingExact
<1>1. Init => ListingInv
  <2> SUFFICES ASSUME Init, NEW r \in Req PROVE ~Listing(r)
    BY DEF ListingInv, ListingOK
  <2> QED
    BY DEF Init, New, Listing
<1>2. TInv /\ [Next]_vars /\ ListingInv => ListingInv'
  BY StepListingOK DEF ListingInv
<1>3. ListingInv => ListingExact
  BY ThroughIsExact
<1> QED
  BY <1>1, <1>2, <1>3, ApiTInv, PTL DEF Spec
=============================================================================
