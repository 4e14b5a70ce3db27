------------------------- MODULE BlobStoreProofs -------------------------
(***************************************************************************)
(* Proofs about the storage engine, for any number of keys, values and     *)
(* segments and any sequence of operations, crashes and reopenings: what   *)
(* each step does to the types, to the place of the next blob, to the      *)
(* Bloom filter, to the reads of a running store, and to the records and   *)
(* their scans.                                                            *)
(***************************************************************************)
EXTENDS BlobStore, WellFoundedInduction, TLAPS

----------------------------------------------------------------------------
(* The log of the store is a Wal *)

\* Every step of the store is a step of its log or leaves the log alone.
LEMMA NextIsWalStep == [Next]_vars => [W!Next]_(W!vars)
<1> SUFFICES ASSUME [Next]_vars PROVE W!Next \/ UNCHANGED wal_vars
  BY DEF wal_vars, W!vars, W!disk
<1>1. ASSUME NEW k \in Key, NEW v \in Val, NEW ttl \in TTL \cup {None}, PutLogged(k, v, ttl)
      PROVE W!Next
  BY <1>1 DEF PutLogged, W!Next, WalOp
<1>2. ASSUME NEW k \in Key, DeleteLogged(k) PROVE W!Next
  BY <1>2 DEF DeleteLogged, W!Next, WalOp
<1>3. CASE Close
  BY <1>3 DEF Close, W!Next
<1>4. ASSUME NEW w \in InFlight PROVE w \in W!InFlight
  BY DEF InFlight, W!InFlight
<1>5. ASSUME NEW w \in InFlight, Kill(w) PROVE W!Next
  BY <1>4, <1>5 DEF Kill, W!Next
<1>6. ASSUME NEW w \in InFlight, PowerFailure(w) PROVE W!Next
  BY <1>4, <1>6 DEF PowerFailure, W!Next
<1>7. ASSUME NEW idx, Opened(idx) PROVE W!Next
  BY <1>7 DEF Opened, W!Next
<1>8. CASE OpenSnapshot \/ OpenRebuild
  BY <1>7, <1>8 DEF OpenSnapshot, OpenRebuild
<1>9. CASE \/ PutFails \/ PutStored \/ DeleteIndexed \/ CleanupExpired \/ Compact
           \/ SnapshotCreated \/ SnapshotWritten \/ BloomWritten \/ OpenFails \/ Tick
           \/ UNCHANGED vars
  BY <1>9 DEF PutFails, PutStored, DeleteIndexed, CleanupExpired, Compact, SnapshotCreated,
              SnapshotWritten, BloomWritten, OpenFails, Refused, Tick, vars
<1> QED
  BY <1>1, <1>2, <1>3, <1>5, <1>6, <1>8, <1>9 DEF Next

\* BlobStore uses its log as Wal allows.
THEOREM StoreKeepsToWal == Spec => W!Spec
BY NextIsWalStep, PTL DEF Spec, Init, W!Spec

\* A non-empty set of naturals with an upper bound has a largest element.
LEMMA GreatestNat ==
    ASSUME NEW T \in SUBSET Nat, T # {}, NEW b \in Nat, \A x \in T : x <= b
    PROVE \E x \in T : \A y \in T : y <= x
<1> DEFINE D == {b - x : x \in T}
<1>1. D \in SUBSET Nat /\ D # {}
  <2>1. \A x \in T : b - x \in Nat
    OBVIOUS
  <2> QED
    BY <2>1
<1>2. PICK d \in D : \A e \in D : d <= e
  <2> HIDE DEF D
  <2>1. IsWellFoundedOn(OpToRel(<, Nat), Nat)
    BY NatLessThanWellFounded
  <2>2. PICK d \in D : \A e \in D : ~ (<<e, d>> \in OpToRel(<, Nat))
    BY <1>1, <2>1, WFMin
  <2>3. \A e \in D : e < d => <<e, d>> \in OpToRel(<, Nat)
    BY <1>1, Zenon DEF OpToRel
  <2>4. \A e \in D : ~ (e < d)
    BY <2>2, <2>3, Zenon
  <2>5. \A e \in D : d <= e
    <3> SUFFICES ASSUME NEW e \in D PROVE d <= e
      OBVIOUS
    <3>1. e \in Nat /\ d \in Nat
      BY <1>1
    <3>2. ~ (e < d)
      BY <2>4
    <3> HIDE <2>1
    <3> QED
      BY <3>1, <3>2
  <2> QED
    BY <2>5
<1>3. PICK x \in T : d = b - x
  BY DEF D
<1>4. ASSUME NEW y \in T PROVE y <= x
  <2>1. b - x <= b - y
    BY <1>2, <1>3
  <2> QED
    BY <2>1
<1> QED
  BY <1>4

----------------------------------------------------------------------------
(* Where the next blob goes *)

\* The target of the put in progress exists, a file with blobs in it exists, and
\* the next blob goes to the end of the last segment.
Placed ==
    /\ pc.at = "put" => up = "up" /\ TargetSegment \in Segment
    /\ \A s \in Segment : segs[s] # << >> => s \in created
    /\ AppendOnly

\* What TypeOK says of each part of the state.
LEMMA SegsTyped ==
    ASSUME TypeOK
    PROVE \A s \in Segment : /\ segs[s] \in Seq(BlobCell) /\ Len(segs[s]) \in Nat
                             /\ \A i \in 1..Len(segs[s]) : segs[s][i] \in BlobCell
BY DEF TypeOK

LEMMA IndexTyped ==
    ASSUME TypeOK
    PROVE /\ index \in IndexMap /\ index # None /\ index # Bad /\ Bad # None
          /\ \A k \in Key : index[k] # None =>
                 index[k] \in Location /\ index[k].shard \in Segment /\ index[k].offset \in Nat
<1>1. index \in IndexMap
  BY DEF TypeOK
<1>2. \A k \in Key : index[k] # None => index[k] \in Location
  BY <1>1 DEF IndexMap
<1>3. \A loc \in Location : loc.shard \in Segment /\ loc.offset \in Nat
  BY DEF Location
<1> QED
  BY <1>1, <1>2, <1>3, SentinelAssumption

LEMMA CurrentTyped ==
    ASSUME TypeOK
    PROVE current_segment \in Segment /\ current_offset \in Nat
BY DEF TypeOK

LEMMA HistoryTyped ==
    ASSUME TypeOK
    PROVE /\ now \in Nat /\ session \in SUBSET Key /\ unsure \in SUBSET Key
          /\ last \in [Key -> Val \cup {None}] /\ deadline \in [Key -> Nat \cup {None}]
          /\ written \in [Key -> SUBSET Val]
BY DEF TypeOK

LEMMA PutInProgress ==
    ASSUME TypeOK, pc.at = "put"
    PROVE pc.key \in Key /\ pc.val \in Val /\ pc.ttl \in TTL \cup {None}
BY DEF TypeOK, Idle

LEMMA DeleteInProgress ==
    ASSUME TypeOK, pc.at = "delete"
    PROVE pc.key \in Key
BY DEF TypeOK, Idle

\* The blob of the put in progress.
Blob == [key |-> pc.key, val |-> pc.val]

\* write_blob appends.
LEMMA PutAppends ==
    ASSUME TypeOK, Placed, pc.at = "put"
    PROVE /\ TargetSegment \in Segment
          /\ Blob \in BlobCell
          /\ TargetOffset = Len(segs[TargetSegment])
          /\ WrittenSegment = Append(segs[TargetSegment], Blob)
          /\ WrittenSegment \in Seq(BlobCell)
          /\ \A s \in Segment : s > TargetSegment => segs[s] = << >>
<1>1. TargetSegment \in Segment /\ up = "up" /\ current_segment \in Segment
  BY DEF Placed, TypeOK
<1>2. Blob \in BlobCell
  BY PutInProgress DEF Blob, BlobCell
<1>3. segs[TargetSegment] \in Seq(BlobCell) /\ segs[current_segment] \in Seq(BlobCell)
  BY <1>1, CurrentTyped, SegsTyped
<1>4. /\ current_offset = Len(segs[current_segment])
      /\ \A s \in Segment : s > current_segment => segs[s] = << >>
  BY <1>1 DEF Placed, AppendOnly
<1>5. /\ TargetOffset = Len(segs[TargetSegment])
      /\ \A s \in Segment : s > TargetSegment => segs[s] = << >>
  <2>1. CASE RollsOver
    <3>1. TargetSegment = current_segment + 1 /\ TargetOffset = 0
      BY <2>1 DEF TargetSegment, TargetOffset
    <3>2. current_segment \in Nat /\ \A s \in Segment : s \in Nat
      BY <1>1, SizeAssumption DEF Segment
    <3>3. TargetSegment > current_segment
      BY <3>1, <3>2
    <3>4. segs[TargetSegment] = << >>
      BY <1>1, <1>4, <3>3
    <3> QED
      BY <1>4, <3>1, <3>2, <3>4
  <2>2. CASE ~RollsOver
    BY <1>4, <2>2 DEF TargetSegment, TargetOffset
  <2> QED
    BY <2>1, <2>2
<1>6. WrittenSegment = Append(segs[TargetSegment], Blob)
  <2> DEFINE f == segs[TargetSegment]
             g == WriteCell(f, Len(f), Blob)
  <2>1. Len(f) \in Nat /\ f \in Seq(BlobCell)
    BY <1>3
  <2>2. g = [i \in 1..(Len(f) + 1) |-> IF i = Len(f) + 1 THEN Blob ELSE IF i <= Len(f) THEN f[i] ELSE TornMagic]
    BY <2>1 DEF WriteCell
  <2>3. Append(f, Blob) = [i \in 1..(Len(f) + 1) |-> IF i = Len(f) + 1 THEN Blob ELSE f[i]]
    BY <2>1
  <2>4. \A i \in 1..(Len(f) + 1) : i # Len(f) + 1 => i <= Len(f)
    BY <2>1
  <2> HIDE DEF f, g
  <2>5. g = Append(f, Blob)
    BY <2>2, <2>3, <2>4
  <2> QED
    BY <1>5, <2>5 DEF WrittenSegment, Blob, f, g
<1>7. WrittenSegment \in Seq(BlobCell)
  BY <1>2, <1>3, <1>6
<1> QED
  BY <1>1, <1>2, <1>5, <1>6, <1>7

----------------------------------------------------------------------------
(* What a crash leaves of a segment *)

\* The put in progress may be writing to segment s.
WritesTo(s) == up = "up" /\ pc.at = "put" /\ s = TargetSegment

LEMMA WritingForm ==
    ASSUME TypeOK, Placed, NEW s \in Segment
    PROVE /\ segs[s] \in Seq(BlobCell)
          /\ Writing(s) \in Seq(BlobCell)
          /\ \/ Writing(s) = segs[s]
             \/ WritesTo(s) /\ Writing(s) = Append(segs[s], Blob)
<1>1. segs[s] \in Seq(BlobCell)
  BY SegsTyped
<1> QED
  BY <1>1, PutAppends DEF Writing, WritesTo

\* A damaged copy of a record.
Damaged(c) == [c EXCEPT !.val = Bad]

LEMMA DamagedCell ==
    ASSUME NEW c \in BlobCell, c # TornMagic
    PROVE Damaged(c) \in BlobCell
BY DEF Damaged, BlobCell

LEMMA RemainsForm ==
    ASSUME TypeOK, Placed, NEW s \in Segment, NEW lo \in Nat, NEW g \in SegmentRemains(s, lo)
    PROVE \E n \in lo..Len(Writing(s)) :
            \/ g = SubSeq(Writing(s), 1, n)
            \/ /\ n < Len(Writing(s))
               /\ \/ g = Append(SubSeq(Writing(s), 1, n), TornMagic)
                  \/ /\ Writing(s)[n + 1] # TornMagic
                     /\ g = Append(SubSeq(Writing(s), 1, n), Damaged(Writing(s)[n + 1]))
<1> DEFINE f == Writing(s)
<1>1. Len(f) \in Nat
  BY WritingForm
<1>2. CASE g \in {SubSeq(f, 1, n) : n \in lo..Len(f)}
  BY <1>2
<1>3. CASE g \in {Append(SubSeq(f, 1, n), TornMagic) : n \in lo..(Len(f) - 1)}
  <2>1. PICK n \in lo..(Len(f) - 1) : g = Append(SubSeq(f, 1, n), TornMagic)
    BY <1>3
  <2>2. n \in lo..Len(f) /\ n < Len(f)
    BY <1>1
  <2> QED
    BY <2>1, <2>2
<1>4. CASE g \in {Append(SubSeq(f, 1, n), [f[n + 1] EXCEPT !.val = Bad]) :
                      n \in {m \in lo..(Len(f) - 1) : f[m + 1] # TornMagic}}
  <2>1. PICK n \in lo..(Len(f) - 1) :
            f[n + 1] # TornMagic /\ g = Append(SubSeq(f, 1, n), [f[n + 1] EXCEPT !.val = Bad])
    BY <1>4
  <2>2. n \in lo..Len(f) /\ n < Len(f)
    BY <1>1
  <2> QED
    BY <2>1, <2>2 DEF Damaged
<1> QED
  BY <1>2, <1>3, <1>4 DEF SegmentRemains

LEMMA RemainsTyped ==
    ASSUME TypeOK, Placed, NEW s \in Segment, NEW lo \in Nat, NEW g \in SegmentRemains(s, lo)
    PROVE g \in Seq(BlobCell)
<1> DEFINE f == Writing(s)
<1>1. f \in Seq(BlobCell) /\ Len(f) \in Nat
  BY WritingForm
<1>2. PICK n \in lo..Len(f) :
            \/ g = SubSeq(f, 1, n)
            \/ /\ n < Len(f)
               /\ \/ g = Append(SubSeq(f, 1, n), TornMagic)
                  \/ /\ f[n + 1] # TornMagic
                     /\ g = Append(SubSeq(f, 1, n), Damaged(f[n + 1]))
  BY RemainsForm
<1> HIDE DEF f
<1>3. n \in Nat /\ n <= Len(f)
  BY <1>1
<1>4. SubSeq(f, 1, n) \in Seq(BlobCell)
  BY <1>1, <1>3
<1>5. TornMagic \in BlobCell
  BY DEF BlobCell
<1>6. ASSUME n < Len(f), f[n + 1] # TornMagic PROVE Damaged(f[n + 1]) \in BlobCell
  BY <1>1, <1>3, <1>6, DamagedCell
<1> HIDE DEF Damaged
<1>7. \A c \in BlobCell : Append(SubSeq(f, 1, n), c) \in Seq(BlobCell)
  BY <1>4
<1> QED
  BY <1>2, <1>4, <1>5, <1>6, <1>7

\* When the file itself survives, a crash adds at most the blob that was being
\* written, complete, damaged, or cut off within its magic bytes.
LEMMA WholeFileKept ==
    ASSUME TypeOK, Placed, NEW s \in Segment, NEW g \in SegmentRemains(s, Len(segs[s]))
    PROVE \/ g = segs[s]
          \/ /\ WritesTo(s)
             /\ \E c \in {Blob, TornMagic, Damaged(Blob)} : g = Append(segs[s], c)
<1> DEFINE f == Writing(s)
           L == Len(segs[s])
<1>1. segs[s] \in Seq(BlobCell) /\ L \in Nat
  BY WritingForm
<1>2. PICK n \in L..Len(f) :
            \/ g = SubSeq(f, 1, n)
            \/ /\ n < Len(f)
               /\ \/ g = Append(SubSeq(f, 1, n), TornMagic)
                  \/ /\ f[n + 1] # TornMagic
                     /\ g = Append(SubSeq(f, 1, n), Damaged(f[n + 1]))
  BY <1>1, RemainsForm
<1>3. CASE f = segs[s]
  <2>1. n = Len(f) /\ SubSeq(f, 1, Len(f)) = f
    BY <1>1, <1>3
  <2> QED
    BY <1>2, <1>3, <2>1
<1>4. CASE WritesTo(s) /\ f = Append(segs[s], Blob)
  <2>0. Blob \in BlobCell
    BY <1>4, PutAppends DEF WritesTo
  <2>1. f \in Seq(BlobCell) /\ Len(f) = L + 1 /\ f[L + 1] = Blob
    BY <1>1, <1>4, <2>0
  <2>2. SubSeq(f, 1, L) = segs[s] /\ SubSeq(f, 1, L + 1) = f
    BY <1>1, <1>4, <2>0, <2>1
  <2>3. n = L \/ n = L + 1
    BY <1>1, <2>1
  <2> HIDE DEF f, L
  <2>4. CASE n = L
    BY <1>2, <1>4, <2>1, <2>2, <2>4
  <2>5. CASE n = L + 1
    <3>1. ~(n < Len(f))
      BY <1>1, <2>1, <2>5
    <3> QED
      BY <1>2, <1>4, <2>2, <2>5, <3>1
  <2> QED
    BY <2>3, <2>4, <2>5
<1> QED
  BY <1>3, <1>4, WritingForm

----------------------------------------------------------------------------
(* What open() finds *)

LEMMA SegmentNat == Segment \subseteq Nat /\ 0 \in Segment /\ \A s \in Segment : s <= MaxSegment
BY SizeAssumption DEF Segment

\* find_current_position finds the last segment.
LEMMA CurrentPosition ==
    ASSUME created \in SUBSET Segment
    PROVE /\ find_current_position \in Segment
          /\ created = {} \/ find_current_position \in created
          /\ \A s \in created : s <= find_current_position
<1>1. CASE created = {}
  BY <1>1, SegmentNat DEF find_current_position
<1>2. CASE created # {}
  <2>1. MaxSegment \in Nat /\ created \in SUBSET Nat /\ \A s \in created : s <= MaxSegment
    BY SizeAssumption, SegmentNat
  <2>2. \E s \in created : \A t \in created : t <= s
    BY <1>2, <2>1, GreatestNat
  <2> QED
    BY <1>2, <2>2 DEF find_current_position
<1> QED
  BY <1>1, <1>2

\* rebuild_index_from_segments leads every key to its last record in one of the
\* segments where the scans found it.
LEMMA RebuiltForm ==
    ASSUME TypeOK, NEW stop, NEW order \in DirOrders, NEW k \in Key
    PROVE \/ /\ Rebuilt(stop, order)[k] = None
             /\ \A s \in Segment : Found(stop, s, k) = {}
          \/ \E s \in Segment : \E i \in Found(stop, s, k) :
                /\ \A j \in Found(stop, s, k) : j <= i
                /\ Rebuilt(stop, order)[k] = [shard |-> s, offset |-> i - 1, expires_at |-> None]
<1> DEFINE In == {s \in Segment : Found(stop, s, k) # {}}
           Winner == CHOOSE s \in In : \A t \in In : order[t] <= order[s]
<1>1. Rebuilt(stop, order)[k] =
          IF In = {} THEN None
          ELSE [shard |-> Winner, offset |-> LastRecord(Found(stop, Winner, k)) - 1, expires_at |-> None]
  BY Zenon DEF Rebuilt, record_offset
<1>2. CASE In = {}
  BY <1>1, <1>2
<1>3. CASE In # {}
  <2>1. Winner \in In
    <3> DEFINE T == {order[s] : s \in In}
    <3>0. \A s \in In : order[s] \in Segment
      BY DEF DirOrders
    <3>1. T \in SUBSET Nat /\ T # {} /\ \A x \in T : x <= MaxSegment
      <4> HIDE DEF In
      <4> QED
        BY <1>3, <3>0, SegmentNat
    <3> HIDE DEF T
    <3>2. PICK x \in T : \A y \in T : y <= x
      BY <3>1, GreatestNat, SizeAssumption
    <3>3. \E s \in In : \A t \in In : order[t] <= order[s]
      BY <3>2 DEF T
    <3> QED
      BY <3>3
  <2> HIDE DEF Winner
  <2> DEFINE F == Found(stop, Winner, k)
  <2>2. F # {} /\ F \in SUBSET Nat /\ Winner \in Segment
    BY <2>1 DEF Found
  <2>3. Len(segs[Winner]) \in Nat /\ \A i \in F : i <= Len(segs[Winner])
    <3>1. segs[Winner] \in Seq(BlobCell)
      BY <2>2, SegsTyped
    <3> QED
      BY <3>1 DEF Found
  <2> HIDE DEF F, In
  <2>4. \E i \in F : \A j \in F : j <= i
    BY <2>2, <2>3, GreatestNat
  <2>5. LastRecord(F) \in F /\ \A j \in F : j <= LastRecord(F)
    BY <2>4 DEF LastRecord
  <2> QED
    BY <1>1, <1>3, <2>2, <2>5 DEF F
<1> QED
  BY <1>2, <1>3

LEMMA RebuiltTyped ==
    ASSUME TypeOK, NEW stop, NEW order \in DirOrders
    PROVE Rebuilt(stop, order) \in IndexMap
<1>1. ASSUME NEW k \in Key PROVE Rebuilt(stop, order)[k] \in Location \cup {None}
  <2>1. ASSUME NEW s \in Segment, NEW i \in Found(stop, s, k)
        PROVE [shard |-> s, offset |-> i - 1, expires_at |-> None] \in Location
    BY DEF Found, Location
  <2>2. CASE Rebuilt(stop, order)[k] = None
    BY <2>2
  <2>3. CASE Rebuilt(stop, order)[k] # None
    <3>1. PICK s \in Segment : \E i \in Found(stop, s, k) :
              Rebuilt(stop, order)[k] = [shard |-> s, offset |-> i - 1, expires_at |-> None]
      BY <2>3, RebuiltForm
    <3> QED
      BY <2>1, <3>1
  <2> QED
    BY <2>2, <2>3
<1>2. Rebuilt(stop, order) = [k \in Key |-> Rebuilt(stop, order)[k]]
  BY Zenon DEF Rebuilt
<1> QED
  BY <1>1, <1>2 DEF IndexMap

----------------------------------------------------------------------------
(* Types *)

LEMMA InFlightKeys ==
    ASSUME NEW w \in InFlight
    PROVE {w[i].op.key : i \in 1..Len(w)} \subseteq Key
<1>1. w = << >> \/ \E op \in WalOp : w = <<W!NextEntry(op)>>
  BY DEF InFlight, W!InFlight
<1>2. CASE w = << >>
  BY <1>2
<1>3. CASE \E op \in WalOp : w = <<W!NextEntry(op)>>
  <2>1. PICK op \in WalOp : w = <<W!NextEntry(op)>>
    BY <1>3
  <2>2. Len(w) = 1 /\ w[1].op = op /\ op.key \in Key
    BY <2>1 DEF W!NextEntry, WalOp
  <2> QED
    BY <2>2
<1> QED
  BY <1>1, <1>2, <1>3

LEMMA GoneTypes ==
    ASSUME TypeOK, NEW w \in InFlight, StoreGone(w)
    PROVE /\ index' \in IndexMap /\ bloom' \in SUBSET Key
          /\ current_segment' \in Segment /\ current_offset' \in Nat
          /\ pc' = Idle /\ up' = "down" /\ now' \in Nat
          /\ last' \in [Key -> Val \cup {None}] /\ deadline' \in [Key -> Nat \cup {None}]
          /\ written' \in [Key -> SUBSET Val]
          /\ session' \in SUBSET Key /\ unsure' \in SUBSET Key
<1>1. unsure' \in SUBSET Key
  BY InFlightKeys, PutInProgress, DeleteInProgress DEF StoreGone, TypeOK
<1> QED
  BY <1>1, SegmentNat DEF StoreGone, TypeOK, EmptyIndex, IndexMap

\* Replay stops in front of the first torn cell.
LEMMA LogReadable ==
    ASSUME NEW f \in Seq(W!Cell)
    PROVE /\ W!ReadableLen(f) \in 0..Len(f)
          /\ \A i \in 1..W!ReadableLen(f) : f[i] # Torn
<1> DEFINE Stop(n) == /\ \A i \in 1..n : f[i] # Torn
                      /\ n < Len(f) => f[n + 1] = Torn
           T == {n \in 0..Len(f) : \A i \in 1..n : f[i] # Torn}
<1>1. T \in SUBSET Nat /\ 0 \in T /\ Len(f) \in Nat /\ \A n \in T : n <= Len(f)
  OBVIOUS
<1>2. PICK n \in T : \A m \in T : m <= n
  <2> HIDE DEF T
  <2> QED
    BY <1>1, GreatestNat
<1>3. n \in 0..Len(f) /\ n + 1 \notin T /\ \A i \in 1..n : f[i] # Torn
  BY <1>1, <1>2
<1>4. n < Len(f) => f[n + 1] = Torn
  <2> SUFFICES ASSUME n < Len(f), f[n + 1] # Torn PROVE FALSE
    OBVIOUS
  <2>1. n + 1 \in 0..Len(f) /\ \A i \in 1..(n + 1) : i \in 1..n \/ i = n + 1
    BY <1>1, <1>3
  <2>2. \A i \in 1..(n + 1) : f[i] # Torn
    BY <1>3, <2>1
  <2> QED
    BY <1>3, <2>1, <2>2
<1>5. W!ReadableLen(f) = CHOOSE m \in 0..Len(f) : Stop(m)
  BY DEF W!ReadableLen
<1>6. Stop(n)
  BY <1>3, <1>4
<1> HIDE DEF Stop
<1>7. W!ReadableLen(f) \in 0..Len(f) /\ Stop(W!ReadableLen(f))
  BY <1>3, <1>5, <1>6
<1> QED
  BY <1>7 DEF Stop

\* The log entries that replay reads are complete.
LEMMA LoggedKeys ==
    ASSUME TypeOK, NEW kind
    PROVE Logged(kind) \subseteq Key
<1>1. file \in Seq(W!Cell)
  BY DEF TypeOK, W!TypeOK
<1>2. /\ W!ReadableLen(file) \in 0..Len(file)
      /\ \A i \in 1..W!ReadableLen(file) : file[i] # Torn
  BY <1>1, LogReadable
<1>3. \A e \in W!Replayed(file) : e.op.key \in Key
  BY <1>1, <1>2 DEF W!Replayed, W!Cell, W!Entry, WalOp
<1> QED
  BY <1>3 DEF Logged

LEMMA OpenedTypes ==
    ASSUME TypeOK, W!TypeOK', NEW idx \in IndexMap, Opened(idx)
    PROVE TypeOK'
<1>1. find_current_position \in Segment
  BY CurrentPosition DEF TypeOK
<1>2. Len(segs[find_current_position]) \in Nat
  BY <1>1 DEF TypeOK
<1>3. OpenedBloom(idx) \in SUBSET Key
  <2>1. Logged("put") \subseteq Key
    BY LoggedKeys
  <2> QED
    BY <2>1 DEF OpenedBloom, ReloadedBloom, KeysOf, TypeOK
<1> QED
  BY <1>1, <1>2, <1>3 DEF Opened, TypeOK, seg_vars, snap_vars, history

LEMMA ReloadedTyped ==
    ASSUME TypeOK, index_snap \notin {None, Bad}
    PROVE Reloaded \in IndexMap
BY DEF TypeOK, Reloaded, IndexMap

\* One step preserves the types.
LEMMA TypeStep ==
    ASSUME TypeOK, Placed, W!TypeOK', [Next]_vars
    PROVE TypeOK'
<1> USE DEF seg_vars, snap_vars, mem_vars, history
<1>1. ASSUME NEW k \in Key, NEW v \in Val, NEW ttl \in TTL \cup {None}, PutLogged(k, v, ttl)
      PROVE TypeOK'
  BY <1>1 DEF PutLogged, TypeOK
<1>2. CASE PutFails
  <2>1. TargetSegment \in Segment
    BY <1>2 DEF PutFails, Placed
  <2> QED
    BY <1>2, <2>1 DEF PutFails, TypeOK
<1>3. CASE PutStored
  <2>1. /\ TargetSegment \in Segment /\ TargetOffset \in Nat
        /\ WrittenSegment \in Seq(BlobCell) /\ Len(WrittenSegment) \in Nat
    <3>1. pc.at = "put"
      BY <1>3 DEF PutStored
    <3>2. TargetSegment \in Segment /\ WrittenSegment \in Seq(BlobCell)
      BY <3>1, PutAppends
    <3>3. TargetOffset \in Nat
      BY DEF TargetOffset, TypeOK
    <3> QED
      BY <3>2, <3>3
  <2>2. pc.key \in Key /\ pc.val \in Val /\ pc.ttl \in TTL \cup {None}
    BY <1>3, PutInProgress DEF PutStored
  <2>3. (IF pc.ttl = None THEN None ELSE now + pc.ttl) \in Nat \cup {None}
    BY <2>2, TTLAssumption DEF TypeOK
  <2>4. synced_length(TargetSegment, WrittenSegment) \in Nat
    BY <2>1 DEF synced_length, TypeOK
  <2>5. blob_location(TargetSegment, TargetOffset, pc.ttl) \in Location
    BY <2>1, <2>3 DEF blob_location, Location
  <2>6. index' \in IndexMap
    BY <1>3, <2>2, <2>5 DEF PutStored, IndexMap, TypeOK
  <2>7. TargetOffset + 1 \in Nat
    BY <2>1
  <2>8. segs' \in [Segment -> Seq(BlobCell)] /\ synced' \in [Segment -> Nat]
        /\ created' \in SUBSET Segment
    BY <1>3, <2>1, <2>4 DEF PutStored, TypeOK
  <2>9. /\ last' \in [Key -> Val \cup {None}] /\ deadline' \in [Key -> Nat \cup {None}]
        /\ session' \in SUBSET Key /\ unsure' \in SUBSET Key
    BY <1>3, <2>2, <2>3 DEF PutStored, TypeOK
  <2> QED
    BY <1>3, <2>1, <2>6, <2>7, <2>8, <2>9 DEF PutStored, TypeOK
<1>4. ASSUME NEW k \in Key, DeleteLogged(k) PROVE TypeOK'
  BY <1>4 DEF DeleteLogged, TypeOK
<1>5. CASE DeleteIndexed
  <2>1. pc.key \in Key
    BY <1>5, DeleteInProgress DEF DeleteIndexed
  <2> QED
    BY <1>5, <2>1 DEF DeleteIndexed, TypeOK, IndexMap
<1>6. CASE CleanupExpired
  BY <1>6 DEF CleanupExpired, get_if_valid, TypeOK, IndexMap
<1>7. CASE Compact \/ UNCHANGED vars
  BY <1>7 DEF Compact, vars, TypeOK
<1>8. CASE SnapshotCreated \/ SnapshotWritten \/ BloomWritten
  <2>1. CASE SnapshotCreated
    BY <2>1 DEF SnapshotCreated, TypeOK
  <2>2. CASE SnapshotWritten
    BY <2>2 DEF SnapshotWritten, TypeOK
  <2>3. CASE BloomWritten
    BY <2>3 DEF BloomWritten, TypeOK
  <2> QED
    BY <1>8, <2>1, <2>2, <2>3
<1>9. CASE Close
  <2>1. << >> \in InFlight
    BY DEF InFlight, W!InFlight
  <2>2. StoreGone(<< >>)
    BY <1>9 DEF Close
  <2> HIDE DEF history
  <2>3. seg_vars' = seg_vars /\ snap_vars' = snap_vars
    BY <1>9 DEF Close
  <2> QED
    BY <2>1, <2>2, <2>3, GoneTypes DEF TypeOK
<1>10. ASSUME NEW w \in InFlight, Kill(w) PROVE TypeOK'
  <2>1. segs' \in [Segment -> Seq(BlobCell)]
    <3>1. \A s \in Segment : Len(segs[s]) \in Nat
      BY SegsTyped
    <3>2. \A s \in Segment : segs'[s] \in SegmentRemains(s, Len(segs[s]))
      BY <1>10 DEF Kill, SegmentsRemain
    <3>3. \A s \in Segment : segs'[s] \in Seq(BlobCell)
      BY <3>1, <3>2, RemainsTyped
    <3> QED
      BY <1>10, <3>3 DEF Kill, SegmentsRemain
  <2>2. created' \in SUBSET Segment
    BY <1>10 DEF Kill, NonEmpty, MayExist, TypeOK
  <2>3. bloom_filter' \in {None, Bad} \/ bloom_filter' \in SUBSET Key
    BY <1>10 DEF Kill, BloomRemains, TypeOK
  <2>4. StoreGone(w)
    BY <1>10 DEF Kill
  <2>5. synced' = synced /\ index_snap' = index_snap /\ snap_after_power' = snap_after_power
    BY <1>10 DEF Kill
  <2> QED
    BY <2>1, <2>2, <2>3, <2>4, <2>5, GoneTypes DEF TypeOK
<1>11. ASSUME NEW w \in InFlight, PowerFailure(w) PROVE TypeOK'
  <2>1. segs' \in [Segment -> Seq(BlobCell)]
    <3>1. \A s \in Segment : synced[s] \in Nat
      BY DEF TypeOK
    <3>2. \A s \in Segment : segs'[s] \in SegmentRemains(s, synced[s])
      BY <1>11 DEF PowerFailure, SegmentsRemain
    <3>3. \A s \in Segment : segs'[s] \in Seq(BlobCell)
      BY <3>1, <3>2, RemainsTyped
    <3> QED
      BY <1>11, <3>3 DEF PowerFailure, SegmentsRemain
  <2>2. created' \in SUBSET Segment
    BY <1>11 DEF PowerFailure, MayExist, TypeOK
  <2>3. bloom_filter' \in {None, Bad} \/ bloom_filter' \in SUBSET Key
    BY <1>11 DEF PowerFailure, BloomRemains, TypeOK
  <2>4. StoreGone(w)
    BY <1>11 DEF PowerFailure
  <2>5. synced' \in [Segment -> Nat]
    BY <1>11, <2>1 DEF PowerFailure
  <2>6. /\ index_snap' \in IndexMap \cup {None, Bad}
        /\ snap_after_power' \in SUBSET (IndexMap \cup {None, Bad})
    BY <1>11 DEF PowerFailure, TypeOK
  <2> QED
    BY <2>1, <2>2, <2>3, <2>4, <2>5, <2>6, GoneTypes DEF TypeOK
<1>12. CASE OpenSnapshot
  <2>1. Reloaded \in IndexMap /\ Opened(Reloaded)
    BY <1>12, ReloadedTyped DEF OpenSnapshot
  <2> QED
    BY <2>1, OpenedTypes
<1>13. CASE OpenRebuild
  <2>1. PICK stop \in Scans : \E order \in DirOrders : Opened(Rebuilt(stop, order))
    BY <1>13 DEF OpenRebuild
  <2>2. PICK order \in DirOrders : Opened(Rebuilt(stop, order))
    BY <2>1
  <2> QED
    BY <2>2, RebuiltTyped, OpenedTypes
<1>14. CASE OpenFails
  BY <1>14 DEF OpenFails, Refused, TypeOK
<1>15. CASE Tick
  <2>1. now' \in Nat
    <3>1. now' = now + 1
      BY <1>15 DEF Tick
    <3> QED
      BY <3>1, HistoryTyped
  <2>2. UNCHANGED <<seg_vars, snap_vars, mem_vars, pc, up, history>>
    BY <1>15 DEF Tick
  <2> QED
    BY <2>1, <2>2 DEF TypeOK
<1> QED
  BY <1>1, <1>2, <1>3, <1>4, <1>5, <1>6, <1>7, <1>8, <1>9, <1>10, <1>11, <1>12, <1>13, <1>14, <1>15
     DEF Next

----------------------------------------------------------------------------
(* One step preserves Placed *)

LEMMA NothingRemainsOfNothing ==
    ASSUME TypeOK, Placed, NEW s \in Segment, NEW lo \in Nat, NEW g \in SegmentRemains(s, lo),
           Writing(s) = << >>
    PROVE g = << >>
<1>1. PICK n \in lo..0 : g = SubSeq(<< >>, 1, n) \/ n < 0
  BY RemainsForm
<1>2. n = 0
  BY <1>1
<1> QED
  BY <1>1, <1>2

LEMMA PlacedOpened ==
    ASSUME TypeOK, Placed, up # "up", NEW idx, Opened(idx)
    PROVE Placed'
<1>1. pc' = pc /\ pc.at # "put"
  BY DEF Opened, Placed
<1>2. segs' = segs /\ created' = created
  BY DEF Opened, seg_vars
<1>3. /\ find_current_position \in Segment
      /\ \A s \in created : s <= find_current_position
  BY CurrentPosition DEF TypeOK
<1>4. \A s \in Segment : s > find_current_position => segs[s] = << >>
  BY <1>3, SegmentNat DEF Placed
<1> QED
  BY <1>1, <1>2, <1>4 DEF Opened, Placed, AppendOnly

LEMMA PlacedStep ==
    ASSUME TypeOK, Placed, [Next]_vars
    PROVE Placed'
<1> USE DEF seg_vars, snap_vars, mem_vars, history
<1>1. ASSUME NEW k \in Key, NEW v \in Val, NEW ttl \in TTL \cup {None}, PutLogged(k, v, ttl)
      PROVE Placed'
  BY <1>1 DEF PutLogged, Placed, AppendOnly, TargetSegment, RollsOver
<1>2. CASE PutFails
  <2>1. TargetSegment \in Segment /\ \A s \in Segment : s > TargetSegment => segs[s] = << >>
    BY <1>2, PutAppends DEF PutFails
  <2>2. segs[TargetSegment] = << >>
    <3>1. TargetSegment = current_segment + 1 /\ up = "up"
      BY <1>2 DEF PutFails, PastLimit, TargetSegment
    <3>2. current_segment \in Nat
      BY SegmentNat, CurrentTyped
    <3>3. TargetSegment > current_segment
      BY <3>1, <3>2
    <3> QED
      BY <2>1, <3>1, <3>3 DEF Placed, AppendOnly
  <2>3. pc' = Idle /\ segs' = segs /\ created' = created /\ current_segment' = TargetSegment
        /\ current_offset' = 0
    BY <1>2 DEF PutFails
  <2>4. Len(segs[TargetSegment]) = 0
    BY <2>2
  <2>5. Idle.at # "put"
    BY DEF Idle
  <2> QED
    BY <2>1, <2>3, <2>4, <2>5 DEF Placed, AppendOnly
<1>3. CASE PutStored
  <2>1. /\ TargetSegment \in Segment
        /\ TargetOffset = Len(segs[TargetSegment])
        /\ WrittenSegment = Append(segs[TargetSegment], Blob)
        /\ \A s \in Segment : s > TargetSegment => segs[s] = << >>
    BY <1>3, PutAppends DEF PutStored
  <2>2. segs[TargetSegment] \in Seq(BlobCell) /\ Blob \in BlobCell
    BY <1>3, <2>1, PutAppends DEF PutStored, TypeOK
  <2>3. Len(WrittenSegment) = TargetOffset + 1
    BY <2>1, <2>2
  <2>4. segs'[TargetSegment] = WrittenSegment
        /\ \A s \in Segment \ {TargetSegment} : segs'[s] = segs[s]
    BY <1>3, <2>1 DEF PutStored, TypeOK
  <2>5. \A s \in Segment : s > TargetSegment => segs'[s] = << >>
    BY <2>1, <2>4, SegmentNat
  <2>6. /\ pc' = Idle /\ current_segment' = TargetSegment /\ current_offset' = TargetOffset + 1
        /\ created' = created \cup {TargetSegment}
    BY <1>3 DEF PutStored
  <2>7. Idle.at # "put"
    BY DEF Idle
  <2> QED
    BY <2>3, <2>4, <2>5, <2>6, <2>7 DEF Placed, AppendOnly
<1>4. CASE \/ \E k \in Key : DeleteLogged(k)
           \/ DeleteIndexed \/ CleanupExpired \/ Compact \/ UNCHANGED vars
           \/ SnapshotCreated \/ SnapshotWritten \/ BloomWritten
  <2>1. /\ segs' = segs /\ created' = created /\ up' = up
        /\ current_segment' = current_segment /\ current_offset' = current_offset
        /\ pc' = pc \/ pc'.at # "put"
    <3>1. CASE \E k \in Key : DeleteLogged(k)
      BY <3>1 DEF DeleteLogged
    <3>2. CASE DeleteIndexed \/ BloomWritten
      BY <3>2 DEF DeleteIndexed, BloomWritten, Idle
    <3>3. CASE CleanupExpired \/ Compact \/ UNCHANGED vars
      BY <3>3 DEF CleanupExpired, Compact, vars
    <3>4. CASE SnapshotCreated \/ SnapshotWritten
      BY <3>4 DEF SnapshotCreated, SnapshotWritten
    <3> QED
      BY <1>4, <3>1, <3>2, <3>3, <3>4
  <2> QED
    BY <2>1 DEF Placed, AppendOnly, TargetSegment, RollsOver
<1>5. CASE Close
  <2>1. segs' = segs /\ created' = created /\ up' = "down" /\ pc' = Idle
    BY <1>5 DEF Close, StoreGone
  <2> QED
    BY <2>1 DEF Placed, AppendOnly, Idle
<1>6. ASSUME NEW w \in InFlight, Kill(w) PROVE Placed'
  <2>1. up' = "down" /\ pc' = Idle
    BY <1>6 DEF Kill, StoreGone
  <2>2. ASSUME NEW s \in Segment, segs'[s] # << >> PROVE s \in created'
    <3>1. CASE created' = created \cup NonEmpty(segs')
      BY <2>2, <3>1 DEF NonEmpty
    <3>2. CASE created' = MayExist
      <4>1. segs'[s] \in SegmentRemains(s, Len(segs[s])) /\ Len(segs[s]) \in Nat
        BY <1>6 DEF Kill, SegmentsRemain, TypeOK
      <4>2. Writing(s) # << >>
        BY <2>2, <4>1, NothingRemainsOfNothing
      <4> QED
        BY <3>2, <4>2 DEF Placed, MayExist
    <3> QED
      BY <1>6, <3>1, <3>2 DEF Kill
  <2> QED
    BY <2>1, <2>2 DEF Placed, AppendOnly, Idle
<1>7. ASSUME NEW w \in InFlight, PowerFailure(w) PROVE Placed'
  <2>1. up' = "down" /\ pc' = Idle
    BY <1>7 DEF PowerFailure, StoreGone
  <2>2. NonEmpty(segs') \subseteq created'
    BY <1>7 DEF PowerFailure
  <2> QED
    BY <2>1, <2>2 DEF Placed, AppendOnly, Idle, NonEmpty
<1>8. CASE OpenSnapshot \/ OpenRebuild
  BY <1>8, PlacedOpened DEF OpenSnapshot, OpenRebuild
<1>9. CASE OpenFails
  <2>1. segs' = segs /\ created' = created /\ up' = "refused" /\ pc' = pc /\ up # "up"
    BY <1>9 DEF OpenFails, Refused
  <2> QED
    BY <2>1 DEF Placed, AppendOnly
<1>10. CASE Tick
  BY <1>10 DEF Tick, Placed, AppendOnly, TargetSegment, RollsOver
<1> QED
  BY <1>1, <1>2, <1>3, <1>4, <1>5, <1>6, <1>7, <1>8, <1>9, <1>10 DEF Next

----------------------------------------------------------------------------
(* What a put changes *)

\* No segment loses a cell.
Keeps ==
    \A s \in Segment :
        /\ Len(segs[s]) <= Len(segs'[s])
        /\ \A i \in 1..Len(segs[s]) : segs'[s][i] = segs[s][i]

LEMMA PutKeeps ==
    ASSUME TypeOK, Placed, PutStored
    PROVE /\ Keeps
          /\ TargetSegment \in Segment
          /\ \A s \in Segment \ {TargetSegment} : segs'[s] = segs[s]
          /\ segs'[TargetSegment] = Append(segs[TargetSegment], Blob)
          /\ TargetOffset \in Nat /\ TargetOffset = Len(segs[TargetSegment])
          /\ Len(segs'[TargetSegment]) = TargetOffset + 1
          /\ segs'[TargetSegment][TargetOffset + 1] = Blob
<1>1. /\ TargetSegment \in Segment /\ Blob \in BlobCell
      /\ TargetOffset = Len(segs[TargetSegment])
      /\ WrittenSegment = Append(segs[TargetSegment], Blob)
  BY PutAppends DEF PutStored
<1>2. \A s \in Segment : segs[s] \in Seq(BlobCell) /\ Len(segs[s]) \in Nat
  BY SegsTyped
<1>3. /\ segs'[TargetSegment] = Append(segs[TargetSegment], Blob)
      /\ \A s \in Segment \ {TargetSegment} : segs'[s] = segs[s]
  BY <1>1 DEF PutStored, TypeOK
<1>4. /\ Len(segs'[TargetSegment]) = TargetOffset + 1
      /\ segs'[TargetSegment][TargetOffset + 1] = Blob
      /\ \A i \in 1..TargetOffset : segs'[TargetSegment][i] = segs[TargetSegment][i]
  BY <1>1, <1>2, <1>3
<1>5. Keeps
  <2> SUFFICES ASSUME NEW s \in Segment
               PROVE /\ Len(segs[s]) <= Len(segs'[s])
                     /\ \A i \in 1..Len(segs[s]) : segs'[s][i] = segs[s][i]
    BY DEF Keeps
  <2>1. CASE s = TargetSegment
    BY <1>1, <1>2, <1>4, <2>1
  <2>2. CASE s # TargetSegment
    BY <1>2, <1>3, <2>2
  <2> QED
    BY <2>1, <2>2
<1> QED
  BY <1>1, <1>2, <1>3, <1>4, <1>5

\* What PutStored and DeleteIndexed do to the index and the history.
LEMMA PutIndexes ==
    ASSUME TypeOK, PutStored
    PROVE /\ pc.key \in Key /\ pc.val \in Val
          /\ index'[pc.key] = blob_location(TargetSegment, TargetOffset, pc.ttl)
          /\ last'[pc.key] = pc.val
          /\ deadline'[pc.key] = blob_location(TargetSegment, TargetOffset, pc.ttl).expires_at
          /\ \A k \in Key \ {pc.key} :
                index'[k] = index[k] /\ last'[k] = last[k] /\ deadline'[k] = deadline[k]
<1>1. pc.key \in Key /\ pc.val \in Val
  BY PutInProgress DEF PutStored
<1>2. /\ index' = [index EXCEPT ![pc.key] = blob_location(TargetSegment, TargetOffset, pc.ttl)]
      /\ last' = [last EXCEPT ![pc.key] = pc.val]
      /\ deadline' = [deadline EXCEPT ![pc.key] = IF pc.ttl = None THEN None ELSE now + pc.ttl]
  BY DEF PutStored
<1>3. DOMAIN index = Key /\ DOMAIN last = Key /\ DOMAIN deadline = Key
  BY IndexTyped, HistoryTyped DEF IndexMap
<1>4. blob_location(TargetSegment, TargetOffset, pc.ttl).expires_at
          = IF pc.ttl = None THEN None ELSE now + pc.ttl
  BY DEF blob_location
<1> QED
  BY <1>1, <1>2, <1>3, <1>4

LEMMA DeleteUnindexes ==
    ASSUME TypeOK, DeleteIndexed
    PROVE /\ pc.key \in Key
          /\ index'[pc.key] = None /\ last'[pc.key] = None
          /\ \A k \in Key \ {pc.key} :
                index'[k] = index[k] /\ last'[k] = last[k] /\ deadline'[k] = deadline[k]
<1>1. pc.key \in Key
  BY DeleteInProgress DEF DeleteIndexed
<1>2. /\ index' = [index EXCEPT ![pc.key] = None]
      /\ last' = [last EXCEPT ![pc.key] = None]
      /\ deadline' = [deadline EXCEPT ![pc.key] = None]
  BY DEF DeleteIndexed
<1>3. DOMAIN index = Key /\ DOMAIN last = Key /\ DOMAIN deadline = Key
  BY IndexTyped, HistoryTyped DEF IndexMap
<1> QED
  BY <1>1, <1>2, <1>3

\* The steps that leave the files, the index and the history of get() alone.
Aside ==
    \/ \E k \in Key : DeleteLogged(k)
    \/ PutFails \/ Compact \/ SnapshotCreated \/ SnapshotWritten \/ BloomWritten
    \/ OpenFails \/ UNCHANGED vars

LEMMA AsideKeeps ==
    ASSUME Aside
    PROVE /\ UNCHANGED <<segs, created, synced, index, bloom, now, history, sync_policy>>
          /\ up' = up \/ (up # "up" /\ up' = "refused")
          /\ pc' = pc \/ pc'.at # "put"
<1> USE DEF seg_vars, mem_vars
<1>1. ASSUME NEW k \in Key, DeleteLogged(k)
      PROVE UNCHANGED <<segs, created, synced, index, bloom, now, history, sync_policy, up>>
            /\ pc'.at # "put"
  BY <1>1 DEF DeleteLogged, W!AppendEntry
<1>2. CASE PutFails \/ BloomWritten
  BY <1>2 DEF PutFails, BloomWritten, wal_vars, Idle
<1>3. CASE Compact \/ UNCHANGED vars
  BY <1>3 DEF Compact, vars, wal_vars
<1>4. CASE SnapshotCreated \/ SnapshotWritten
  BY <1>4 DEF SnapshotCreated, SnapshotWritten, wal_vars
<1>5. CASE OpenFails
  BY <1>5 DEF OpenFails, Refused, wal_vars
<1> QED
  BY <1>1, <1>2, <1>3, <1>4, <1>5 DEF Aside

----------------------------------------------------------------------------
(* The Bloom filter *)

\* The filter holds the keys of the index and the key that is being put.
Covered == BloomCoversIndex /\ (pc.at = "put" => pc.key \in bloom)

LEMMA CoveredStep ==
    ASSUME TypeOK, Placed, Covered, [Next]_vars
    PROVE Covered'
<1> USE DEF Covered, BloomCoversIndex, KeysOf
<1>1. ASSUME NEW k \in Key, NEW v \in Val, NEW ttl \in TTL \cup {None}, PutLogged(k, v, ttl)
      PROVE Covered'
  BY <1>1 DEF PutLogged
<1>2. CASE PutStored
  <2>1. bloom' = bloom /\ pc.at = "put" /\ pc' = Idle
    BY <1>2 DEF PutStored
  <2>2. \A k \in Key \ {pc.key} : index'[k] = index[k]
    BY <1>2, PutIndexes
  <2> QED
    BY <2>1, <2>2 DEF Idle
<1>3. CASE DeleteIndexed
  <2>1. bloom' = bloom /\ pc' = Idle
    BY <1>3 DEF DeleteIndexed
  <2>2. index'[pc.key] = None /\ \A k \in Key \ {pc.key} : index'[k] = index[k]
    BY <1>3, DeleteUnindexes
  <2> QED
    BY <2>1, <2>2 DEF Idle
<1>4. CASE CleanupExpired
  BY <1>4 DEF CleanupExpired, get_if_valid
<1>5. CASE Aside
  BY <1>5, AsideKeeps
<1>6. ASSUME NEW w, StoreGone(w) PROVE Covered'
  BY <1>6 DEF StoreGone, EmptyIndex, Idle
<1>7. CASE Close \/ (\E w \in InFlight : Kill(w)) \/ (\E w \in InFlight : PowerFailure(w))
  BY <1>6, <1>7 DEF Close, Kill, PowerFailure
<1>8. ASSUME NEW idx, up # "up", Opened(idx) PROVE Covered'
  <2>1. bloom' = ReloadedBloom \cup KeysOf(idx) /\ index' = idx /\ pc' = pc
    BY <1>8 DEF Opened, OpenedBloom
  <2>2. pc.at # "put"
    BY <1>8 DEF Placed
  <2> QED
    BY <2>1, <2>2
<1>9. CASE OpenSnapshot \/ OpenRebuild
  BY <1>8, <1>9 DEF OpenSnapshot, OpenRebuild
<1>10. CASE Tick
  BY <1>10 DEF Tick, mem_vars
<1> QED
  BY <1>1, <1>2, <1>3, <1>4, <1>5, <1>7, <1>9, <1>10 DEF Next, Aside

----------------------------------------------------------------------------
(* Reading one's writes *)

Record(k, v) == [key |-> k, val |-> v]

\* In the files g, the location leads to the record of v under k.
LeadsTo(g, loc, k, v) ==
    /\ loc.offset < Len(g[loc.shard])
    /\ g[loc.shard][loc.offset + 1] = Record(k, v)

\* The index agrees with the acknowledged operations on k.
Agrees(k) ==
    \/ index[k] = None /\ (last[k] = None \/ (deadline[k] # None /\ now > deadline[k]))
    \/ /\ index[k] # None /\ last[k] # None
       /\ index[k].expires_at = deadline[k]
       /\ LeadsTo(segs, index[k], k, last[k])

\* Keys that were put or deleted since the store was opened.
Remembered ==
    /\ up # "up" => session = {}
    /\ \A k \in session : Agrees(k)

LEMMA LeadsToKept ==
    ASSUME TypeOK, segs' \in [Segment -> Seq(BlobCell)], Keeps,
           NEW loc \in Location, NEW k, NEW v, LeadsTo(segs, loc, k, v)
    PROVE LeadsTo(segs', loc, k, v)
<1>1. loc.shard \in Segment /\ loc.offset \in Nat
  BY DEF Location
<1>2. segs[loc.shard] \in Seq(BlobCell)
  BY <1>1, SegsTyped
<1>3. Len(segs[loc.shard]) \in Nat /\ Len(segs'[loc.shard]) \in Nat
  BY <1>1, <1>2
<1>4. Len(segs[loc.shard]) <= Len(segs'[loc.shard])
  BY <1>1 DEF Keeps
<1>5. loc.offset + 1 \in 1..Len(segs[loc.shard])
  BY <1>1, <1>3 DEF LeadsTo
<1>6. segs'[loc.shard][loc.offset + 1] = segs[loc.shard][loc.offset + 1]
  BY <1>1, <1>5 DEF Keeps
<1> QED
  BY <1>1, <1>3, <1>4, <1>6 DEF LeadsTo

\* The location of a put leads to its record.
LEMMA PutLeadsTo ==
    ASSUME TypeOK, Placed, PutStored
    PROVE /\ LeadsTo(segs', index'[pc.key], pc.key, pc.val)
          /\ index'[pc.key] # None /\ index'[pc.key].shard = TargetSegment
          /\ index'[pc.key].expires_at = deadline'[pc.key]
<1>1. /\ TargetSegment \in Segment /\ TargetOffset \in Nat
      /\ Len(segs'[TargetSegment]) = TargetOffset + 1
      /\ segs'[TargetSegment][TargetOffset + 1] = Blob
  BY PutKeeps
<1>2. /\ index'[pc.key] = blob_location(TargetSegment, TargetOffset, pc.ttl)
      /\ deadline'[pc.key] = index'[pc.key].expires_at
  BY PutIndexes
<1>3. blob_location(TargetSegment, TargetOffset, pc.ttl) \in Location
  <2>1. pc.ttl \in TTL \cup {None}
    BY PutInProgress DEF PutStored
  <2>2. now \in Nat
    BY HistoryTyped
  <2>3. (IF pc.ttl = None THEN None ELSE now + pc.ttl) \in Nat \cup {None}
    <3>1. pc.ttl = None \/ pc.ttl \in Nat
      BY <2>1, TTLAssumption
    <3>2. \A t \in Nat : now + t \in Nat
      BY <2>2
    <3> QED
      BY <3>1, <3>2
  <2> QED
    BY <1>1, <2>3 DEF blob_location, Location
<1>4. index'[pc.key].shard = TargetSegment /\ index'[pc.key].offset = TargetOffset
  BY <1>2 DEF blob_location
<1>5. index'[pc.key] # None
  BY <1>2, <1>3, SentinelAssumption
<1>6. TargetOffset < Len(segs'[TargetSegment])
  BY <1>1
<1>7. LeadsTo(segs', index'[pc.key], pc.key, pc.val)
  BY <1>1, <1>4, <1>6 DEF LeadsTo, Record, Blob
<1> QED
  BY <1>2, <1>4, <1>5, <1>7

LEMMA RememberedStep ==
    ASSUME TypeOK, TypeOK', Placed, Remembered, [Next]_vars
    PROVE Remembered'
<1>0. session \in SUBSET Key /\ index \in IndexMap
  BY IndexTyped, HistoryTyped
<1>1. ASSUME UNCHANGED <<segs, index, now, last, deadline, session>>, up' = up \/ up # "up"
      PROVE Remembered'
  BY <1>1 DEF Remembered, Agrees
<1>2. ASSUME NEW k \in Key, NEW v \in Val, NEW ttl \in TTL \cup {None}, PutLogged(k, v, ttl)
      PROVE Remembered'
  BY <1>1, <1>2 DEF PutLogged, seg_vars
<1>3. CASE PutStored
  <2>1. up' = "up" /\ session' = session \cup {pc.key} /\ now' = now
    BY <1>3 DEF PutStored
  <2>2. ASSUME NEW k \in session' PROVE Agrees(k)'
    <3>1. CASE k = pc.key
      <4>1. last'[k] = pc.val /\ last'[k] # None
        BY <1>3, <3>1, PutIndexes, SentinelAssumption
      <4> QED
        BY <1>3, <3>1, <4>1, PutLeadsTo DEF Agrees
    <3>2. CASE k # pc.key
      <4>1. k \in session /\ k \in Key /\ Agrees(k)
        BY <1>0, <2>1, <2>2, <3>2 DEF Remembered
      <4>2. index'[k] = index[k] /\ last'[k] = last[k] /\ deadline'[k] = deadline[k]
        BY <1>3, <3>2, <4>1, PutIndexes
      <4>3. CASE index[k] = None
        BY <2>1, <4>1, <4>2, <4>3 DEF Agrees
      <4>4. CASE index[k] # None
        <5>1. LeadsTo(segs, index[k], k, last[k]) /\ index[k] \in Location
          BY <1>0, <4>1, <4>4 DEF Agrees, IndexMap
        <5>2. Keeps /\ segs' \in [Segment -> Seq(BlobCell)]
          BY <1>3, PutKeeps DEF TypeOK
        <5>3. LeadsTo(segs', index[k], k, last[k])
          BY <5>1, <5>2, LeadsToKept
        <5> QED
          BY <2>1, <4>1, <4>2, <4>4, <5>3 DEF Agrees
      <4> QED
        BY <4>3, <4>4
    <3> QED
      BY <3>1, <3>2
  <2> QED
    BY <2>1, <2>2 DEF Remembered
<1>4. CASE DeleteIndexed
  <2>1. up' = "up" /\ session' = session \cup {pc.key} /\ now' = now /\ segs' = segs
    BY <1>4 DEF DeleteIndexed, seg_vars
  <2>2. ASSUME NEW k \in session' PROVE Agrees(k)'
    <3>1. CASE k = pc.key
      BY <1>4, <3>1, DeleteUnindexes DEF Agrees
    <3>2. CASE k # pc.key
      <4>1. k \in session /\ k \in Key /\ Agrees(k)
        BY <1>0, <2>1, <2>2, <3>2 DEF Remembered
      <4>2. index'[k] = index[k] /\ last'[k] = last[k] /\ deadline'[k] = deadline[k]
        BY <1>4, <3>2, <4>1, DeleteUnindexes
      <4> QED
        BY <2>1, <4>1, <4>2 DEF Agrees
    <3> QED
      BY <3>1, <3>2
  <2> QED
    BY <2>1, <2>2 DEF Remembered
<1>5. CASE CleanupExpired
  <2>1. /\ UNCHANGED <<segs, now, last, deadline, session, up>>
        /\ \A k \in Key : index'[k] = get_if_valid(k)
    BY <1>5 DEF CleanupExpired, seg_vars, history
  <2>2. ASSUME NEW k \in session PROVE Agrees(k)'
    <3>1. k \in Key /\ Agrees(k) /\ index'[k] = get_if_valid(k)
      BY <1>0, <2>1, <2>2 DEF Remembered
    <3>2. CASE index'[k] = index[k]
      BY <2>1, <3>1, <3>2 DEF Agrees
    <3>3. CASE index[k] # None /\ Expired(index[k]) /\ index'[k] = None
      BY <2>1, <3>1, <3>3 DEF Agrees, Expired
    <3> QED
      BY <3>1, <3>2, <3>3 DEF get_if_valid
  <2> QED
    BY <2>1, <2>2 DEF Remembered
<1>6. CASE Aside
  BY <1>1, <1>6, AsideKeeps DEF history
<1>7. CASE Close \/ (\E w \in InFlight : Kill(w)) \/ (\E w \in InFlight : PowerFailure(w))
  BY <1>7 DEF Close, Kill, PowerFailure, StoreGone, Remembered
<1>8. CASE OpenSnapshot \/ OpenRebuild
  <2>1. up # "up" /\ session' = session
    BY <1>8 DEF OpenSnapshot, OpenRebuild, Opened, history
  <2> QED
    BY <2>1 DEF Remembered
<1>9. CASE Tick
  <2>1. UNCHANGED <<segs, index, last, deadline, session, up>> /\ now' = now + 1 /\ now \in Nat
    BY <1>9, HistoryTyped DEF Tick, seg_vars, mem_vars, history
  <2>2. ASSUME NEW k \in session, Agrees(k) PROVE Agrees(k)'
    <3>1. CASE index[k] # None
      BY <2>1, <2>2, <3>1 DEF Agrees
    <3>2. CASE index[k] = None
      <4>1. deadline[k] \in Nat \cup {None}
        BY <1>0, HistoryTyped
      <4>2. last[k] = None \/ (deadline[k] # None /\ now > deadline[k])
        BY <2>2, <3>2 DEF Agrees
      <4>3. last[k] = None \/ (deadline[k] # None /\ now' > deadline[k])
        BY <2>1, <4>1, <4>2
      <4> QED
        BY <2>1, <3>2, <4>3 DEF Agrees
    <3> QED
      BY <3>1, <3>2
  <2> QED
    BY <2>1, <2>2 DEF Remembered
<1> QED
  BY <1>2, <1>3, <1>4, <1>5, <1>6, <1>7, <1>8, <1>9 DEF Next, Aside

\* get() reads the record that a location leads to.
LEMMA GetLeadsTo ==
    ASSUME TypeOK, Placed, Covered, NEW k \in Key, index[k] # None, NEW v \in Val,
           LeadsTo(segs, index[k], k, v)
    PROVE Get(k) = IF Expired(index[k]) THEN None ELSE v
<1>1. index[k] \in Location /\ index[k].shard \in Segment /\ index[k].offset \in Nat
  BY IndexTyped
<1>2. k \in bloom
  BY DEF Covered, BloomCoversIndex, KeysOf
<1>3. segs[index[k].shard] \in Seq(BlobCell)
  BY <1>1, SegsTyped
<1>4. segs[index[k].shard] # << >>
  BY <1>1, <1>3 DEF LeadsTo
<1>5. index[k].shard \in created
  BY <1>1, <1>4 DEF Placed
<1>6. Record(k, v) # TornMagic /\ Record(k, v).val = v
  BY SentinelAssumption DEF Record
<1>7. read_blob(index[k]) = v
  BY <1>5, <1>6 DEF read_blob, LeadsTo
<1> QED
  BY <1>2, <1>7 DEF Get, get_if_valid

----------------------------------------------------------------------------
(* What survives a crash *)

\* Either the process can only be killed, or only the machine can fail and every
\* write is fsynced.  With both failures a snapshot can hold the location of a
\* blob that was complete when the process was killed, and was never fsynced.
SingleFailure ==
    \/ Failures \subseteq {"kill"}
    \/ "kill" \notin Failures /\ Policies \subseteq {"Always"}

\* Where the machine can fail, the segment files are fsynced.
Fsynced ==
    /\ up = "up" => status = "open"
    /\ "kill" \notin Failures => \A s \in Segment : "power" \in Failures => synced[s] = Len(segs[s])

LEMMA FsyncedStep ==
    ASSUME SingleFailure, TypeOK, Placed, Fsynced, [Next]_vars
    PROVE Fsynced'
<1> USE DEF seg_vars, wal_vars
<1>1. ASSUME UNCHANGED <<segs, synced, status>>, up' = up \/ up' # "up"
      PROVE Fsynced'
  BY <1>1 DEF Fsynced
<1>2. CASE \E k \in Key, v \in Val, ttl \in TTL \cup {None} : PutLogged(k, v, ttl)
  BY <1>1, <1>2 DEF PutLogged, W!AppendEntry
<1>3. CASE \E k \in Key : DeleteLogged(k)
  BY <1>1, <1>3 DEF DeleteLogged, W!AppendEntry
<1>4. CASE PutStored
  <2>1. up = "up" /\ up' = up /\ status' = status /\ status = "open"
    BY <1>4 DEF PutStored, Fsynced
  <2>2. ASSUME "kill" \notin Failures, "power" \in Failures, NEW s \in Segment
        PROVE synced'[s] = Len(segs'[s])
    <3>1. sync_policy = "Always"
      BY <2>1, <2>2 DEF SingleFailure, TypeOK, W!TypeOK
    <3>2. TargetSegment \in Segment
      BY <1>4, PutKeeps
    <3>3. CASE s = TargetSegment
      <4>1. synced'[s] = synced_length(TargetSegment, WrittenSegment) /\ segs'[s] = WrittenSegment
        BY <1>4, <3>2, <3>3 DEF PutStored, TypeOK
      <4> QED
        BY <3>1, <4>1 DEF synced_length
    <3>4. CASE s # TargetSegment
      BY <1>4, <2>2, <3>2, <3>4 DEF PutStored, TypeOK, Fsynced
    <3> QED
      BY <3>3, <3>4
  <2> QED
    BY <2>1, <2>2 DEF Fsynced
<1>5. CASE PutFails \/ DeleteIndexed \/ CleanupExpired \/ Compact \/ UNCHANGED vars
  BY <1>1, <1>5 DEF PutFails, DeleteIndexed, CleanupExpired, Compact, vars
<1>6. CASE SnapshotCreated \/ SnapshotWritten \/ BloomWritten \/ OpenFails \/ Tick
  BY <1>1, <1>6 DEF SnapshotCreated, SnapshotWritten, BloomWritten, OpenFails, Refused, Tick
<1>7. CASE Close
  BY <1>7 DEF Close, StoreGone, Fsynced
<1>8. CASE \E w \in InFlight : Kill(w)
  BY <1>8 DEF Kill, StoreGone, Fsynced
<1>9. CASE \E w \in InFlight : PowerFailure(w)
  <2>1. up' = "down" /\ synced' = [s \in Segment |-> Len(segs'[s])]
    BY <1>9 DEF PowerFailure, StoreGone
  <2> QED
    BY <2>1 DEF Fsynced
<1>10. CASE OpenSnapshot \/ OpenRebuild
  <2>1. UNCHANGED <<segs, synced>> /\ status' = "open"
    BY <1>10 DEF OpenSnapshot, OpenRebuild, Opened, W!Open
  <2> QED
    BY <2>1 DEF Fsynced
<1> QED
  BY <1>2, <1>3, <1>4, <1>5, <1>6, <1>7, <1>8, <1>9, <1>10 DEF Next

\* A crash adds at most the blob that was being written, or a part of it.
LEMMA CrashAdds ==
    ASSUME SingleFailure, TypeOK, Placed, Fsynced, NEW w \in InFlight, Kill(w) \/ PowerFailure(w),
           NEW s \in Segment
    PROVE \/ segs'[s] = segs[s]
          \/ /\ WritesTo(s)
             /\ \E c \in {Blob, TornMagic, Damaged(Blob)} : segs'[s] = Append(segs[s], c)
<1>1. CASE Kill(w)
  <2>1. segs'[s] \in SegmentRemains(s, Len(segs[s]))
    BY <1>1 DEF Kill, SegmentsRemain
  <2> QED
    BY <2>1, WholeFileKept
<1>2. CASE PowerFailure(w)
  <2>1. segs'[s] \in SegmentRemains(s, synced[s]) /\ "power" \in Failures
    BY <1>2 DEF PowerFailure, SegmentsRemain
  <2>2. synced[s] = Len(segs[s])
    BY <2>1 DEF SingleFailure, Fsynced
  <2> QED
    BY <2>1, <2>2, WholeFileKept
<1> QED
  BY <1>1, <1>2

LEMMA AppendedCell ==
    ASSUME NEW f \in Seq(BlobCell), NEW c \in BlobCell
    PROVE /\ Append(f, c) \in Seq(BlobCell)
          /\ Len(f) \in Nat /\ Len(Append(f, c)) = Len(f) + 1
          /\ Append(f, c)[Len(f) + 1] = c
          /\ \A i \in 1..Len(f) : Append(f, c)[i] = f[i]
OBVIOUS

\* The cells that a crash may add.
LEMMA AddedCell ==
    ASSUME TypeOK, Placed, NEW s \in Segment, WritesTo(s), NEW c \in {Blob, TornMagic, Damaged(Blob)}
    PROVE /\ c \in BlobCell /\ segs[s] \in Seq(BlobCell)
          /\ c # TornMagic /\ c # Blob => c.val = Bad
          /\ pc.at = "put" /\ pc.key \in Key /\ Blob.key = pc.key /\ Blob.val = pc.val
          /\ Blob # TornMagic
<1>1. pc.at = "put" /\ pc.key \in Key /\ pc.val \in Val
  BY PutInProgress DEF WritesTo
<1>2. Blob \in [key : Key, val : Val \cup {Bad}] /\ Blob.key = pc.key /\ Blob.val = pc.val
  BY <1>1 DEF Blob
<1>3. Blob # TornMagic
  BY <1>2, SentinelAssumption
<1>4. Damaged(Blob) \in [key : Key, val : Val \cup {Bad}] /\ Damaged(Blob).val = Bad
  BY <1>2 DEF Damaged
<1>5. segs[s] \in Seq(BlobCell)
  BY SegsTyped
<1> QED
  BY <1>1, <1>2, <1>3, <1>4, <1>5 DEF BlobCell

LEMMA CrashKeeps ==
    ASSUME SingleFailure, TypeOK, Placed, Fsynced, NEW w \in InFlight, Kill(w) \/ PowerFailure(w)
    PROVE Keeps
<1> SUFFICES ASSUME NEW s \in Segment
             PROVE /\ Len(segs[s]) <= Len(segs'[s])
                   /\ \A i \in 1..Len(segs[s]) : segs'[s][i] = segs[s][i]
  BY DEF Keeps
<1>1. segs[s] \in Seq(BlobCell) /\ Len(segs[s]) \in Nat
  BY SegsTyped
<1>2. CASE segs'[s] = segs[s]
  BY <1>1, <1>2
<1>3. ASSUME WritesTo(s), NEW c \in {Blob, TornMagic, Damaged(Blob)}, segs'[s] = Append(segs[s], c)
      PROVE /\ Len(segs[s]) <= Len(segs'[s])
            /\ \A i \in 1..Len(segs[s]) : segs'[s][i] = segs[s][i]
  <2>1. c \in BlobCell
    BY <1>3, AddedCell
  <2>2. /\ Len(segs'[s]) = Len(segs[s]) + 1
        /\ \A i \in 1..Len(segs[s]) : segs'[s][i] = segs[s][i]
    BY <1>1, <1>3, <2>1, AppendedCell
  <2> QED
    BY <1>1, <2>2
<1> QED
  BY <1>2, <1>3, CrashAdds

----------------------------------------------------------------------------
(* What the records say *)

\* A complete record holds a value that was put under its key.
HonestCell(c, wr) == c = TornMagic \/ c.val = Bad \/ c.val \in wr[c.key]

Honest ==
    /\ pc.at = "put" => pc.val \in written[pc.key]
    /\ \A s \in Segment : \A i \in 1..Len(segs[s]) : HonestCell(segs[s][i], written)

LEMMA HonestAppend ==
    ASSUME NEW f \in Seq(BlobCell), NEW c \in BlobCell, NEW wr, HonestCell(c, wr),
           \A i \in 1..Len(f) : HonestCell(f[i], wr)
    PROVE \A i \in 1..Len(Append(f, c)) : HonestCell(Append(f, c)[i], wr)
<1> SUFFICES ASSUME NEW i \in 1..Len(Append(f, c)) PROVE HonestCell(Append(f, c)[i], wr)
  OBVIOUS
<1>1. i \in 1..Len(f) \/ i = Len(f) + 1
  BY AppendedCell
<1>2. CASE i = Len(f) + 1
  BY <1>2, AppendedCell
<1>3. CASE i \in 1..Len(f)
  BY <1>3, AppendedCell
<1> QED
  BY <1>1, <1>2, <1>3

LEMMA HonestStep ==
    ASSUME SingleFailure, TypeOK, Placed, Fsynced, Honest, [Next]_vars
    PROVE Honest'
<1>1. ASSUME UNCHANGED <<segs, written>>, pc' = pc \/ pc'.at # "put"
      PROVE Honest'
  BY <1>1 DEF Honest
<1>2. ASSUME NEW k \in Key, NEW v \in Val, NEW ttl \in TTL \cup {None}, PutLogged(k, v, ttl)
      PROVE Honest'
  <2>1. /\ written' = [written EXCEPT ![k] = @ \cup {v}] /\ segs' = segs
        /\ pc'.key = k /\ pc'.val = v
    BY <1>2 DEF PutLogged, seg_vars
  <2>2. \A x \in Key : written[x] \subseteq written'[x]
    BY <2>1, HistoryTyped
  <2>3. v \in written'[k]
    BY <2>1, HistoryTyped
  <2>4. ASSUME NEW c \in BlobCell, HonestCell(c, written) PROVE HonestCell(c, written')
    BY <2>2, <2>4 DEF HonestCell, BlobCell
  <2>5. \A s \in Segment : \A i \in 1..Len(segs[s]) : segs[s][i] \in BlobCell
    BY SegsTyped
  <2>6. \A s \in Segment : \A i \in 1..Len(segs[s]) : HonestCell(segs[s][i], written')
    BY <2>4, <2>5 DEF Honest
  <2> QED
    BY <2>1, <2>3, <2>6 DEF Honest
<1>3. ASSUME NEW s \in Segment, NEW c \in BlobCell, HonestCell(c, written),
             segs'[s] = Append(segs[s], c), written' = written
      PROVE \A i \in 1..Len(segs'[s]) : HonestCell(segs'[s][i], written')
  <2>1. segs[s] \in Seq(BlobCell)
    BY SegsTyped
  <2>2. \A i \in 1..Len(segs[s]) : HonestCell(segs[s][i], written)
    BY DEF Honest
  <2> QED
    BY <1>3, <2>1, <2>2, HonestAppend
<1>4. CASE PutStored
  <2>1. pc.at = "put" /\ pc' = Idle /\ written' = written
    BY <1>4 DEF PutStored
  <2>2. HonestCell(Blob, written) /\ Blob \in BlobCell
    BY <2>1, PutAppends DEF HonestCell, Blob, Honest
  <2>3. ASSUME NEW s \in Segment
        PROVE \A i \in 1..Len(segs'[s]) : HonestCell(segs'[s][i], written')
    <3>1. CASE s = TargetSegment
      BY <1>3, <1>4, <2>1, <2>2, <3>1, PutKeeps
    <3>2. CASE s # TargetSegment
      <4>1. segs'[s] = segs[s]
        BY <1>4, <3>2, PutKeeps
      <4> QED
        BY <2>1, <4>1 DEF Honest
    <3> QED
      BY <3>1, <3>2
  <2> QED
    BY <2>1, <2>3 DEF Honest, Idle
<1>5. ASSUME NEW w \in InFlight, Kill(w) \/ PowerFailure(w) PROVE Honest'
  <2>1. pc' = Idle /\ written' = written
    BY <1>5 DEF Kill, PowerFailure, StoreGone
  <2>2. ASSUME NEW s \in Segment
        PROVE \A i \in 1..Len(segs'[s]) : HonestCell(segs'[s][i], written')
    <3>1. CASE segs'[s] = segs[s]
      BY <2>1, <3>1 DEF Honest
    <3>2. ASSUME WritesTo(s), NEW c \in {Blob, TornMagic, Damaged(Blob)},
                 segs'[s] = Append(segs[s], c)
          PROVE \A i \in 1..Len(segs'[s]) : HonestCell(segs'[s][i], written')
      <4>1. c \in BlobCell /\ HonestCell(c, written)
        BY <3>2, AddedCell DEF HonestCell, Honest
      <4> QED
        BY <1>3, <2>1, <3>2, <4>1
    <3> QED
      BY <1>5, <3>1, <3>2, CrashAdds
  <2> QED
    BY <2>1, <2>2 DEF Honest, Idle
<1>6. CASE DeleteIndexed \/ CleanupExpired \/ Tick
  <2>1. CASE DeleteIndexed
    BY <1>1, <2>1 DEF DeleteIndexed, seg_vars, Idle
  <2>2. CASE CleanupExpired
    BY <1>1, <2>2 DEF CleanupExpired, seg_vars, history
  <2>3. CASE Tick
    BY <1>1, <2>3 DEF Tick, seg_vars, history
  <2> QED
    BY <1>6, <2>1, <2>2, <2>3
<1>7. CASE Aside
  BY <1>1, <1>7, AsideKeeps DEF history
<1>8. CASE Close
  BY <1>1, <1>8 DEF Close, StoreGone, seg_vars, Idle
<1>9. CASE OpenSnapshot \/ OpenRebuild
  BY <1>1, <1>9 DEF OpenSnapshot, OpenRebuild, Opened, seg_vars, history
<1> QED
  BY <1>2, <1>4, <1>5, <1>6, <1>7, <1>8, <1>9 DEF Next, Aside

----------------------------------------------------------------------------
(* What the scans of open() see *)

\* Among the first n cells, the scan meets a TornMagic before a damaged record.
ScansClean(f, n) ==
    \A i \in 1..n : (f[i] # TornMagic /\ f[i].val = Bad) => \E j \in 1..(i - 1) : f[j] = TornMagic

Intact(f) == \A i \in 1..Len(f) : f[i] # TornMagic /\ f[i].val # Bad

LEMMA IntactLenFacts ==
    ASSUME NEW f \in Seq(BlobCell)
    PROVE /\ IntactLen(f) \in 0..Len(f)
          /\ \A i \in 1..IntactLen(f) : f[i] # TornMagic /\ f[i].val # Bad
          /\ IntactLen(f) < Len(f) =>
                f[IntactLen(f) + 1] = TornMagic \/ f[IntactLen(f) + 1].val = Bad
<1> DEFINE Good(n) == \A i \in 1..n : f[i] # TornMagic /\ f[i].val # Bad
           T == {n \in 0..Len(f) : Good(n)}
<1>1. Len(f) \in Nat
  OBVIOUS
<1>2. 0 \in T /\ T \in SUBSET Nat /\ \A n \in T : n <= Len(f)
  BY <1>1
<1> HIDE DEF T
<1>3. PICK n \in T : \A m \in T : m <= n
  BY <1>1, <1>2, GreatestNat
<1>4. n \in 0..Len(f) /\ Good(n)
  BY <1>3 DEF T
<1>5. ASSUME n < Len(f) PROVE f[n + 1] = TornMagic \/ f[n + 1].val = Bad
  <2> SUFFICES ASSUME f[n + 1] # TornMagic, f[n + 1].val # Bad PROVE FALSE
    OBVIOUS
  <2>1. n + 1 \in 0..Len(f)
    BY <1>1, <1>4, <1>5
  <2>2. \A i \in 1..(n + 1) : i \in 1..n \/ i = n + 1
    BY <1>1, <1>4
  <2>3. Good(n + 1)
    BY <1>4, <2>2
  <2>4. n + 1 \in T
    BY <2>1, <2>3 DEF T
  <2> QED
    BY <1>3, <1>4, <2>4
<1>6. \E m \in 0..Len(f) :
        /\ \A i \in 1..m : f[i] # TornMagic /\ f[i].val # Bad
        /\ m < Len(f) => f[m + 1] = TornMagic \/ f[m + 1].val = Bad
  BY <1>4, <1>5
<1> QED
  BY <1>6 DEF IntactLen

LEMMA IntactIffLen ==
    ASSUME NEW f \in Seq(BlobCell)
    PROVE Intact(f) <=> IntactLen(f) = Len(f)
<1>1. Len(f) \in Nat /\ IntactLen(f) \in 0..Len(f)
  BY IntactLenFacts
<1>2. ASSUME Intact(f), IntactLen(f) < Len(f) PROVE FALSE
  <2>1. IntactLen(f) + 1 \in 1..Len(f)
    BY <1>1, <1>2
  <2> QED
    BY <1>2, <2>1, IntactLenFacts DEF Intact
<1>3. Intact(f) => IntactLen(f) = Len(f)
  BY <1>1, <1>2
<1>4. ASSUME IntactLen(f) = Len(f) PROVE Intact(f)
  BY <1>4, IntactLenFacts DEF Intact
<1> QED
  BY <1>3, <1>4

\* A scan that returns no error stops before the first damaged record, when only
\* the last record may be damaged without a TornMagic before it; and then there
\* is no such record at all.
LEMMA ScanStopsClean ==
    ASSUME NEW f \in Seq(BlobCell), ScansClean(f, Len(f) - 1), NEW n \in ScanStops(f), n # Bad
    PROVE n = IntactLen(f) /\ ScansClean(f, Len(f))
<1> DEFINE m == IntactLen(f)
<1>1. /\ Len(f) \in Nat /\ m \in 0..Len(f)
      /\ \A i \in 1..m : f[i] # TornMagic /\ f[i].val # Bad
      /\ m < Len(f) => f[m + 1] = TornMagic \/ f[m + 1].val = Bad
  BY IntactLenFacts
<1>2. n \in IF m = Len(f) \/ f[m + 1] = TornMagic THEN {m}
            ELSE IF m + 1 = Len(f) THEN {Bad} ELSE {Bad, m, m + 1}
  BY DEF ScanStops
<1> HIDE DEF m
<1>3. CASE m = Len(f)
  BY <1>1, <1>2, <1>3 DEF ScansClean, m
<1>4. CASE m # Len(f) /\ f[m + 1] = TornMagic
  <2>1. n = m
    BY <1>2, <1>4
  <2>2. ASSUME NEW i \in 1..Len(f), f[i] # TornMagic, f[i].val = Bad
        PROVE \E j \in 1..(i - 1) : f[j] = TornMagic
    <3>1. i \notin 1..m /\ i # m + 1
      BY <1>1, <1>4, <2>2
    <3>2. m + 1 \in 1..(i - 1)
      BY <1>1, <3>1
    <3> QED
      BY <1>4, <3>2
  <2> QED
    BY <2>1, <2>2 DEF ScansClean, m
<1>5. CASE m # Len(f) /\ f[m + 1] # TornMagic
  <2>1. f[m + 1].val = Bad
    BY <1>1, <1>5
  <2>2. m + 1 # Len(f)
    BY <1>2, <1>5
  <2>3. m + 1 \in 1..(Len(f) - 1)
    BY <1>1, <1>5, <2>2
  <2>4. PICK j \in 1..((m + 1) - 1) : f[j] = TornMagic
    BY <1>5, <2>1, <2>3 DEF ScansClean
  <2>5. j \in 1..m
    BY <1>1
  <2> QED
    BY <1>1, <2>4, <2>5
<1> QED
  BY <1>3, <1>4, <1>5

\* open() may have to rebuild the index from the segments now or after a failure.
MayRebuild == index_snap = None \/ ("power" \in Failures /\ None \in snap_after_power)

\* As long as open() may have to rebuild the index, a scan is not led astray: the
\* one damaged record it may find is at the end of the file, and then open() fails
\* for good.  Records are only appended after a damaged one once a snapshot exists.
Scannable ==
    MayRebuild =>
        \A s \in Segment :
            \/ ScansClean(segs[s], Len(segs[s]))
            \/ up # "up" /\ index_snap = None /\ ScansClean(segs[s], Len(segs[s]) - 1)

LEMMA CleanShorter ==
    ASSUME NEW f \in Seq(BlobCell), ScansClean(f, Len(f))
    PROVE ScansClean(f, Len(f) - 1)
BY DEF ScansClean

LEMMA CleanAppend ==
    ASSUME NEW f \in Seq(BlobCell), NEW c \in BlobCell, ScansClean(f, Len(f))
    PROVE /\ ScansClean(Append(f, c), Len(Append(f, c)) - 1)
          /\ c = TornMagic \/ c.val # Bad => ScansClean(Append(f, c), Len(Append(f, c)))
<1> DEFINE g == Append(f, c)
<1>1. /\ Len(f) \in Nat /\ Len(g) = Len(f) + 1 /\ g[Len(f) + 1] = c
      /\ \A i \in 1..Len(f) : g[i] = f[i]
  BY AppendedCell
<1> HIDE DEF g
<1>2. ASSUME NEW i \in 1..Len(f), g[i] # TornMagic, g[i].val = Bad
      PROVE \E j \in 1..(i - 1) : g[j] = TornMagic
  <2>1. PICK j \in 1..(i - 1) : f[j] = TornMagic
    BY <1>1, <1>2 DEF ScansClean
  <2>2. j \in 1..Len(f)
    BY <1>1
  <2> QED
    BY <1>1, <2>1, <2>2
<1>3. Len(g) - 1 = Len(f)
  BY <1>1
<1>4. ScansClean(g, Len(g) - 1)
  BY <1>2, <1>3 DEF ScansClean
<1>5. ASSUME c = TornMagic \/ c.val # Bad PROVE ScansClean(g, Len(g))
  <2>1. \A i \in 1..Len(g) : i \in 1..Len(f) \/ i = Len(f) + 1
    BY <1>1
  <2> QED
    BY <1>1, <1>2, <1>5, <2>1 DEF ScansClean
<1> QED
  BY <1>4, <1>5 DEF g

LEMMA ScannableStep ==
    ASSUME SingleFailure, TypeOK, Placed, Fsynced, Scannable, [Next]_vars
    PROVE Scannable'
<1>0. /\ \A s \in Segment : segs[s] \in Seq(BlobCell)
      /\ index \in IndexMap /\ index # None /\ Bad # None
  BY SegsTyped, IndexTyped
<1>1. ASSUME UNCHANGED <<segs, index_snap, snap_after_power>>, up' = up \/ up' # "up"
      PROVE Scannable'
  BY <1>1 DEF Scannable, MayRebuild
<1>2. CASE \/ \E k \in Key, v \in Val, ttl \in TTL \cup {None} : PutLogged(k, v, ttl)
           \/ \E k \in Key : DeleteLogged(k)
           \/ PutFails \/ DeleteIndexed
  BY <1>1, <1>2 DEF PutLogged, DeleteLogged, PutFails, DeleteIndexed, seg_vars, snap_vars
<1>3. CASE CleanupExpired \/ Compact \/ BloomWritten \/ OpenFails \/ Tick \/ UNCHANGED vars
  BY <1>1, <1>3 DEF CleanupExpired, Compact, BloomWritten, OpenFails, Refused, Tick, vars,
                    seg_vars, snap_vars
<1>4. CASE Close
  BY <1>1, <1>4 DEF Close, StoreGone, seg_vars, snap_vars
<1>5. CASE SnapshotCreated \/ SnapshotWritten
  <2>1. /\ segs' = segs /\ index_snap' # None /\ up = "up"
        /\ None \in snap_after_power' => None \in snap_after_power
    BY <1>0, <1>5 DEF SnapshotCreated, SnapshotWritten, seg_vars
  <2> QED
    BY <2>1 DEF Scannable, MayRebuild
<1>6. CASE PutStored
  <2>1. index_snap' = index_snap /\ snap_after_power' = snap_after_power /\ up = "up" /\ pc.at = "put"
    BY <1>6 DEF PutStored, snap_vars
  <2>2. Blob \in BlobCell /\ Blob.val # Bad
    BY <2>1, PutAppends, PutInProgress, SentinelAssumption DEF Blob
  <2>3. ASSUME MayRebuild, NEW s \in Segment PROVE ScansClean(segs'[s], Len(segs'[s]))
    <3>1. ScansClean(segs[s], Len(segs[s]))
      BY <2>1, <2>3 DEF Scannable
    <3>2. CASE s = TargetSegment
      BY <1>0, <1>6, <2>2, <3>1, <3>2, PutKeeps, CleanAppend
    <3>3. CASE s # TargetSegment
      BY <1>6, <3>1, <3>3, PutKeeps
    <3> QED
      BY <3>2, <3>3
  <2> QED
    BY <2>1, <2>3 DEF Scannable, MayRebuild
<1>7. ASSUME NEW w \in InFlight, Kill(w) \/ PowerFailure(w) PROVE Scannable'
  <2>1. up' = "down"
    BY <1>7 DEF Kill, PowerFailure, StoreGone
  <2>2. MayRebuild' => MayRebuild /\ index_snap' = None
    <3>1. CASE Kill(w)
      <4>1. "kill" \in Failures /\ "power" \notin Failures
        BY <3>1 DEF Kill, SingleFailure
      <4> QED
        BY <3>1, <4>1 DEF Kill, MayRebuild
    <3>2. CASE PowerFailure(w)
      BY <3>2 DEF PowerFailure, MayRebuild
    <3> QED
      BY <1>7, <3>1, <3>2
  <2>3. ASSUME MayRebuild, NEW s \in Segment
        PROVE \/ ScansClean(segs'[s], Len(segs'[s]))
              \/ ScansClean(segs'[s], Len(segs'[s]) - 1)
    <3>1. CASE segs'[s] = segs[s]
      BY <2>3, <3>1 DEF Scannable
    <3>2. ASSUME WritesTo(s), NEW c \in {Blob, TornMagic, Damaged(Blob)},
                 segs'[s] = Append(segs[s], c)
          PROVE ScansClean(segs'[s], Len(segs'[s]) - 1)
      <4>1. ScansClean(segs[s], Len(segs[s]))
        BY <2>3, <3>2 DEF Scannable, WritesTo
      <4>2. c \in BlobCell
        BY <3>2, AddedCell
      <4> QED
        BY <1>0, <3>2, <4>1, <4>2, CleanAppend
    <3> QED
      BY <1>7, <3>1, <3>2, CrashAdds
  <2> QED
    BY <2>1, <2>2, <2>3 DEF Scannable
<1>8. CASE OpenSnapshot
  <2>1. UNCHANGED <<segs, index_snap, snap_after_power>> /\ index_snap # None
    BY <1>8 DEF OpenSnapshot, Opened, seg_vars, snap_vars
  <2> QED
    BY <2>1 DEF Scannable, MayRebuild
<1>9. CASE OpenRebuild
  <2>1. UNCHANGED <<segs, index_snap, snap_after_power>> /\ index_snap = None
    BY <1>9 DEF OpenRebuild, Opened, seg_vars, snap_vars
  <2>2. PICK stop \in Scans : \A s \in Segment : stop[s] # Bad
    BY <1>9 DEF OpenRebuild
  <2>3. ASSUME NEW s \in Segment PROVE ScansClean(segs[s], Len(segs[s]))
    <3>1. ScansClean(segs[s], Len(segs[s]) - 1)
      BY <1>0, <2>1, CleanShorter DEF Scannable, MayRebuild
    <3>2. stop[s] \in ScanStops(segs[s])
      BY DEF Scans
    <3> QED
      BY <1>0, <2>2, <3>1, <3>2, ScanStopsClean
  <2> QED
    BY <2>1, <2>3 DEF Scannable
<1> QED
  BY <1>2, <1>3, <1>4, <1>5, <1>6, <1>7, <1>8, <1>9 DEF Next

\* What open() rebuilds when it succeeds: the scans found every record before the
\* first damaged one, and nothing else.
LEMMA RebuildFinds ==
    ASSUME TypeOK, Scannable, index_snap = None, NEW stop \in Scans,
           \A s \in Segment : stop[s] # Bad, NEW s \in Segment, NEW k \in Key
    PROVE Found(stop, s, k) = {i \in 1..IntactLen(segs[s]) : segs[s][i].key = k}
<1>1. segs[s] \in Seq(BlobCell)
  BY SegsTyped
<1>2. ScansClean(segs[s], Len(segs[s]) - 1)
  BY <1>1, CleanShorter DEF Scannable, MayRebuild
<1>3. stop[s] = IntactLen(segs[s])
  BY <1>1, <1>2, ScanStopsClean DEF Scans
<1>4. Len(segs[s]) \in Nat /\ IntactLen(segs[s]) \in 0..Len(segs[s])
  BY <1>1, IntactLenFacts
<1> QED
  BY <1>3, <1>4 DEF Found

=============================================================================
