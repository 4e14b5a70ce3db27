------------------------ MODULE BlobRecoveryProofs ------------------------
(***************************************************************************)
(* What the indexes of the storage engine mean after crashes and           *)
(* reopenings, and the theorems about it.                                  *)
(***************************************************************************)
EXTENDS BlobStoreProofs

----------------------------------------------------------------------------
(* Every index leads to complete records *)

\* In the files g, the location leads to a complete record of k.
Leads(g, wr, k, loc) ==
    /\ loc.offset < Len(g[loc.shard])
    /\ g[loc.shard][loc.offset + 1] # TornMagic
    /\ g[loc.shard][loc.offset + 1].key = k
    /\ g[loc.shard][loc.offset + 1].val \in wr[k]

SoundMap(g, wr, idx) == \A k \in Key : idx[k] # None => Leads(g, wr, k, idx[k])

\* The indexes in memory and in what index.snap may hold.
Indexes == ({index, index_snap} \cup snap_after_power) \ {None, Bad}

Sound == \A idx \in Indexes : SoundMap(segs, written, idx)

LEMMA SoundMeansIndexSound == TypeOK /\ Placed => (Sound <=> IndexSound)
<1> SUFFICES ASSUME TypeOK, Placed PROVE Sound <=> IndexSound
  OBVIOUS
<1>1. ASSUME NEW k \in Key, NEW loc \in Location
      PROVE Leads(segs, written, k, loc) <=> SoundAt(k, loc)
  <2>1. loc.shard \in Segment /\ loc.offset \in Nat
    BY DEF Location
  <2>2. segs[loc.shard] \in Seq(BlobCell)
    BY <2>1, SegsTyped
  <2>3. loc.offset < Len(segs[loc.shard]) => segs[loc.shard] # << >>
    BY <2>1, <2>2
  <2>4. loc.offset < Len(segs[loc.shard]) => loc.shard \in created
    BY <2>1, <2>3 DEF Placed
  <2> QED
    BY <2>4 DEF Leads, SoundAt
<1>2. Indexes \subseteq IndexMap
  BY DEF Indexes, TypeOK
<1>3. \A idx \in Indexes : \A k \in Key : idx[k] # None => idx[k] \in Location
  BY <1>2 DEF IndexMap
<1>4. \A idx \in Indexes :
        SoundMap(segs, written, idx) <=> \A k \in Key : idx[k] # None => SoundAt(k, idx[k])
  BY <1>1, <1>3 DEF SoundMap
<1> QED
  BY <1>4 DEF Sound, IndexSound, Indexes

\* An index stays sound as long as no segment loses a cell.
LEMMA SoundMapKept ==
    ASSUME TypeOK, segs' \in [Segment -> Seq(BlobCell)], Keeps,
           \A k \in Key : written[k] \subseteq written'[k],
           NEW idx \in IndexMap, SoundMap(segs, written, idx)
    PROVE SoundMap(segs', written', idx)
<1> SUFFICES ASSUME NEW k \in Key, idx[k] # None PROVE Leads(segs', written', k, idx[k])
  BY DEF SoundMap
<1> DEFINE loc == idx[k]
<1>1. loc \in Location /\ Leads(segs, written, k, loc)
  BY DEF SoundMap, IndexMap
<1> HIDE DEF loc
<1>2. loc.shard \in Segment /\ loc.offset \in Nat
  BY <1>1 DEF Location
<1>3. segs[loc.shard] \in Seq(BlobCell)
  BY <1>2, SegsTyped
<1>4. Len(segs[loc.shard]) \in Nat /\ Len(segs'[loc.shard]) \in Nat
  BY <1>2, <1>3
<1>5. Len(segs[loc.shard]) <= Len(segs'[loc.shard])
  BY <1>2 DEF Keeps
<1>6. loc.offset + 1 \in 1..Len(segs[loc.shard])
  BY <1>1, <1>2, <1>4 DEF Leads
<1>7. segs'[loc.shard][loc.offset + 1] = segs[loc.shard][loc.offset + 1]
  BY <1>2, <1>6 DEF Keeps
<1>8. loc.offset < Len(segs'[loc.shard])
  BY <1>2, <1>4, <1>5, <1>6
<1>9. written[k] \subseteq written'[k]
  OBVIOUS
<1>10. Leads(segs', written', k, loc)
  BY <1>1, <1>7, <1>8, <1>9 DEF Leads
<1> QED
  BY <1>10 DEF loc

LEMMA RebuiltSound ==
    ASSUME TypeOK, Honest, Scannable, index_snap = None, NEW stop \in Scans,
           \A s \in Segment : stop[s] # Bad, NEW order \in DirOrders
    PROVE SoundMap(segs, written, Rebuilt(stop, order))
<1> SUFFICES ASSUME NEW k \in Key, Rebuilt(stop, order)[k] # None
             PROVE Leads(segs, written, k, Rebuilt(stop, order)[k])
  BY DEF SoundMap
<1>1. PICK s \in Segment : \E i \in Found(stop, s, k) :
          Rebuilt(stop, order)[k] = [shard |-> s, offset |-> i - 1, expires_at |-> None]
  BY RebuiltForm
<1>2. PICK i \in Found(stop, s, k) :
          Rebuilt(stop, order)[k] = [shard |-> s, offset |-> i - 1, expires_at |-> None]
  BY <1>1
<1>3. segs[s] \in Seq(BlobCell)
  BY SegsTyped
<1>4. i \in 1..IntactLen(segs[s]) /\ segs[s][i].key = k
  BY <1>2, RebuildFinds
<1>5. /\ Len(segs[s]) \in Nat /\ IntactLen(segs[s]) \in 0..Len(segs[s])
      /\ segs[s][i] # TornMagic /\ segs[s][i].val # Bad
  BY <1>3, <1>4, IntactLenFacts
<1>6. i \in 1..Len(segs[s]) /\ i \in Nat /\ i - 1 < Len(segs[s]) /\ (i - 1) + 1 = i
  BY <1>4, <1>5
<1>7. segs[s][i].val \in written[k]
  BY <1>4, <1>5, <1>6 DEF Honest, HonestCell
<1> QED
  BY <1>2, <1>4, <1>5, <1>6, <1>7 DEF Leads

LEMMA SoundStep ==
    ASSUME SingleFailure, TypeOK, TypeOK', Placed, Fsynced, Honest, Scannable, Sound, [Next]_vars
    PROVE Sound'
<1>0. /\ segs' \in [Segment -> Seq(BlobCell)] /\ written' \in [Key -> SUBSET Val]
      /\ written \in [Key -> SUBSET Val]
      /\ index \in IndexMap /\ index \in Indexes
      /\ Indexes \subseteq IndexMap
  <2>1. segs' \in [Segment -> Seq(BlobCell)] /\ written' \in [Key -> SUBSET Val]
    BY DEF TypeOK
  <2>2. /\ index_snap \in IndexMap \cup {None, Bad}
        /\ snap_after_power \in SUBSET (IndexMap \cup {None, Bad})
    BY DEF TypeOK
  <2>3. index \in Indexes /\ Indexes \subseteq IndexMap
    BY <2>2, IndexTyped DEF Indexes
  <2> QED
    BY <2>1, <2>3, IndexTyped, HistoryTyped
<1>1. Keeps /\ \A k \in Key : written[k] \subseteq written'[k]
  <2>1. ASSUME segs' = segs PROVE Keeps
    <3>1. \A s \in Segment : Len(segs[s]) \in Nat
      BY SegsTyped
    <3> QED
      BY <2>1, <3>1 DEF Keeps
  <2>2. ASSUME NEW k \in Key, NEW v \in Val, NEW ttl \in TTL \cup {None}, PutLogged(k, v, ttl)
        PROVE segs' = segs /\ \A x \in Key : written[x] \subseteq written'[x]
    BY <2>2, <1>0 DEF PutLogged, seg_vars
  <2>3. CASE PutStored
    BY <2>3, PutKeeps DEF PutStored
  <2>4. ASSUME NEW w \in InFlight, Kill(w) \/ PowerFailure(w) PROVE Keeps /\ written' = written
    BY <2>4, CrashKeeps DEF Kill, PowerFailure, StoreGone
  <2>5. CASE Aside
    BY <2>1, <2>5, AsideKeeps DEF history
  <2>6. CASE DeleteIndexed \/ CleanupExpired \/ Tick
    BY <2>1, <2>6 DEF DeleteIndexed, CleanupExpired, Tick, seg_vars, history
  <2>7. CASE Close
    BY <2>1, <2>7 DEF Close, StoreGone, seg_vars
  <2>8. CASE OpenSnapshot \/ OpenRebuild
    BY <2>1, <2>8 DEF OpenSnapshot, OpenRebuild, Opened, seg_vars, history
  <2> QED
    BY <2>1, <2>2, <2>3, <2>4, <2>5, <2>6, <2>7, <2>8 DEF Next, Aside
<1>2. \A idx \in Indexes : SoundMap(segs', written', idx)
  BY <1>0, <1>1, SoundMapKept DEF Sound
<1>3. Indexes' \subseteq Indexes \cup {index'}
  <2>1. ASSUME UNCHANGED <<index_snap, snap_after_power>> PROVE Indexes' \subseteq Indexes \cup {index'}
    BY <2>1 DEF Indexes
  <2>2. CASE \/ \E k \in Key, v \in Val, ttl \in TTL \cup {None} : PutLogged(k, v, ttl)
             \/ \E k \in Key : DeleteLogged(k)
             \/ PutFails \/ PutStored \/ DeleteIndexed
    BY <2>1, <2>2 DEF PutLogged, DeleteLogged, PutFails, PutStored, DeleteIndexed, snap_vars
  <2>3. CASE CleanupExpired \/ Compact \/ BloomWritten \/ OpenFails \/ Tick \/ UNCHANGED vars
    BY <2>1, <2>3 DEF CleanupExpired, Compact, BloomWritten, OpenFails, Refused, Tick, vars, snap_vars
  <2>4. CASE Close
    BY <2>1, <2>4 DEF Close, snap_vars
  <2>5. CASE SnapshotCreated \/ SnapshotWritten
    BY <1>0, <2>5 DEF SnapshotCreated, SnapshotWritten, Indexes, mem_vars
  <2>6. ASSUME NEW w \in InFlight, Kill(w) \/ PowerFailure(w)
        PROVE Indexes' \subseteq Indexes \cup {index'}
    BY <2>1, <2>6 DEF Kill, PowerFailure, Indexes
  <2>7. CASE OpenSnapshot \/ OpenRebuild
    BY <2>1, <2>7 DEF OpenSnapshot, OpenRebuild, Opened, snap_vars
  <2> QED
    BY <2>2, <2>3, <2>4, <2>5, <2>6, <2>7 DEF Next
<1>4. SoundMap(segs', written', index')
  <2>1. ASSUME \A k \in Key : index'[k] \in {index[k], None} PROVE SoundMap(segs', written', index')
    BY <1>0, <1>2, <2>1 DEF SoundMap
  <2>2. ASSUME index' = index PROVE SoundMap(segs', written', index')
    BY <1>0, <1>2, <2>2
  <2>3. CASE \E k \in Key, v \in Val, ttl \in TTL \cup {None} : PutLogged(k, v, ttl)
    BY <2>2, <2>3 DEF PutLogged
  <2>4. CASE PutStored
    <3>1. /\ pc.key \in Key /\ pc.at = "put" /\ written' = written /\ pc.val \in Val
          /\ \A k \in Key \ {pc.key} : index'[k] = index[k]
      BY <2>4, PutIndexes DEF PutStored
    <3>2. LeadsTo(segs', index'[pc.key], pc.key, pc.val)
      BY <2>4, PutLeadsTo
    <3>3. Leads(segs', written', pc.key, index'[pc.key])
      <4>1. pc.val \in written[pc.key]
        BY <3>1 DEF Honest
      <4>2. Record(pc.key, pc.val) # TornMagic
        BY <3>1, SentinelAssumption DEF Record
      <4> QED
        BY <3>1, <3>2, <4>1, <4>2 DEF Leads, LeadsTo, Record
    <3> QED
      BY <1>0, <1>2, <3>1, <3>3 DEF SoundMap
  <2>5. CASE DeleteIndexed
    BY <2>1, <2>5, DeleteUnindexes
  <2>6. CASE CleanupExpired
    BY <2>1, <2>6 DEF CleanupExpired, get_if_valid
  <2>7. CASE Aside \/ Tick
    BY <2>2, <2>7, AsideKeeps DEF Tick, mem_vars
  <2>8. CASE Close \/ (\E w \in InFlight : Kill(w)) \/ (\E w \in InFlight : PowerFailure(w))
    <3>1. index' = EmptyIndex
      BY <2>8 DEF Close, Kill, PowerFailure, StoreGone
    <3> QED
      BY <3>1 DEF EmptyIndex, SoundMap
  <2>9. CASE OpenSnapshot
    <3>1. index' = Reloaded /\ index_snap \in Indexes
      BY <2>9 DEF OpenSnapshot, Opened, Indexes
    <3>2. \A k \in Key : index'[k] \in {index_snap[k], None}
      BY <3>1 DEF Reloaded
    <3> QED
      BY <1>2, <3>1, <3>2 DEF SoundMap
  <2>10. CASE OpenRebuild
    <3>1. PICK stop \in Scans : /\ \A s \in Segment : stop[s] # Bad
                                /\ \E order \in DirOrders : Opened(Rebuilt(stop, order))
      BY <2>10 DEF OpenRebuild
    <3>2. PICK order \in DirOrders : Opened(Rebuilt(stop, order))
      BY <3>1
    <3>3. index' = Rebuilt(stop, order) /\ segs' = segs /\ written' = written
      BY <3>2 DEF Opened, seg_vars, history
    <3>4. index_snap = None
      BY <2>10 DEF OpenRebuild
    <3>5. SoundMap(segs, written, Rebuilt(stop, order))
      BY <3>1, <3>4, RebuiltSound
    <3> QED
      BY <3>3, <3>5
  <2> QED
    BY <2>3, <2>4, <2>5, <2>6, <2>7, <2>8, <2>9, <2>10 DEF Next, Aside
<1> QED
  BY <1>2, <1>3, <1>4 DEF Sound

\* The inductive invariant behind the theorems on crashes.
Recoverable == Fsynced /\ Honest /\ Scannable /\ Sound

----------------------------------------------------------------------------
(* What a rebuild gives back *)

\* All blobs are in segment 0, and none is damaged.
OneIntactSegment == Intact(segs[0]) /\ \A s \in Segment : s > 0 => segs[s] = << >>

\* Cell i of f is the last record of k, and holds v.
LastOf(f, k, v, i) ==
    f[i] = Record(k, v) /\ \A j \in (i + 1)..Len(f) : f[j].key # k

\* The last record of a key holds what was acknowledged last.
OnDisk ==
    OneIntactSegment =>
        \A k \in Key \ unsure : last[k] # None =>
            \E i \in 1..Len(segs[0]) : LastOf(segs[0], k, last[k], i)

\* The index finds what was acknowledged last.
InMemory ==
    (up = "up" /\ index_snap = None /\ OneIntactSegment) =>
        \A k \in Key \ unsure : (last[k] # None /\ deadline[k] = None) =>
            /\ index[k] # None /\ index[k].expires_at = None
            /\ LeadsTo(segs, index[k], k, last[k])

LEMMA LastOfAppend ==
    ASSUME NEW f \in Seq(BlobCell), NEW c \in BlobCell, NEW k, NEW v, c.key # k,
           NEW i \in 1..Len(f), LastOf(f, k, v, i)
    PROVE i \in 1..Len(Append(f, c)) /\ LastOf(Append(f, c), k, v, i)
<1>1. /\ Len(f) \in Nat /\ Len(Append(f, c)) = Len(f) + 1
      /\ Append(f, c)[Len(f) + 1] = c
      /\ \A j \in 1..Len(f) : Append(f, c)[j] = f[j]
  BY AppendedCell
<1>2. i \in 1..Len(Append(f, c)) /\ Append(f, c)[i] = Record(k, v)
  BY <1>1 DEF LastOf
<1>3. ASSUME NEW j \in (i + 1)..Len(Append(f, c)) PROVE Append(f, c)[j].key # k
  <2>1. j = Len(f) + 1 \/ (j \in (i + 1)..Len(f) /\ j \in 1..Len(f))
    BY <1>1
  <2> QED
    BY <1>1, <2>1 DEF LastOf
<1> QED
  BY <1>2, <1>3 DEF LastOf

LEMMA IntactPrefix ==
    ASSUME NEW f \in Seq(BlobCell), NEW c \in BlobCell, Intact(Append(f, c))
    PROVE Intact(f) /\ c # TornMagic /\ c.val # Bad
<1>1. /\ Len(f) \in Nat /\ Len(Append(f, c)) = Len(f) + 1
      /\ Append(f, c)[Len(f) + 1] = c
      /\ \A j \in 1..Len(f) : Append(f, c)[j] = f[j]
  BY AppendedCell
<1>2. \A i \in 1..Len(f) : i \in 1..(Len(f) + 1)
  BY <1>1
<1>3. Len(f) + 1 \in 1..(Len(f) + 1)
  BY <1>1
<1> QED
  BY <1>1, <1>2, <1>3 DEF Intact

\* When a cell was added to one segment and the blobs still fill one intact
\* segment, it was added to that segment, which was intact before.
LEMMA OneIntactBefore ==
    ASSUME TypeOK, OneIntactSegment', NEW t \in Segment, NEW c \in BlobCell,
           segs'[t] = Append(segs[t], c), \A s \in Segment \ {t} : segs'[s] = segs[s]
    PROVE t = 0 /\ OneIntactSegment /\ c # TornMagic /\ c.val # Bad
<1>1. segs[t] \in Seq(BlobCell)
  BY SegsTyped
<1>2. t \in Nat /\ 0 \in Segment
  BY SegmentNat
<1>3. Len(segs'[t]) = Len(segs[t]) + 1 /\ Len(segs[t]) \in Nat
  BY <1>1, AppendedCell
<1>4. segs'[t] # << >>
  <2>1. Len(<< >>) = 0
    OBVIOUS
  <2>2. Len(segs'[t]) # 0
    BY <1>3
  <2> QED
    BY <2>1, <2>2
<1>5. t = 0
  BY <1>2, <1>4 DEF OneIntactSegment
<1>6. Intact(segs[0]) /\ c # TornMagic /\ c.val # Bad
  BY <1>1, <1>5, IntactPrefix DEF OneIntactSegment
<1>7. \A s \in Segment : s > 0 => segs[s] = << >>
  BY <1>5 DEF OneIntactSegment
<1> QED
  BY <1>5, <1>6, <1>7 DEF OneIntactSegment

LEMMA OnDiskStep ==
    ASSUME SingleFailure, TypeOK, TypeOK', Placed, Fsynced, OnDisk, [Next]_vars
    PROVE OnDisk'
<1>1. ASSUME segs' = segs, \A k \in Key \ unsure' : k \notin unsure /\ last'[k] = last[k]
      PROVE OnDisk'
  BY <1>1 DEF OnDisk, OneIntactSegment
<1>2. CASE \E k \in Key, v \in Val, ttl \in TTL \cup {None} : PutLogged(k, v, ttl)
  BY <1>1, <1>2 DEF PutLogged, seg_vars
<1>3. CASE PutStored
  <2> SUFFICES ASSUME OneIntactSegment', NEW k \in Key \ unsure', last'[k] # None
               PROVE \E i \in 1..Len(segs'[0]) : LastOf(segs'[0], k, last'[k], i)
    BY DEF OnDisk
  <2>1. /\ TargetSegment \in Segment /\ Blob \in BlobCell
        /\ segs'[TargetSegment] = Append(segs[TargetSegment], Blob)
        /\ \A s \in Segment \ {TargetSegment} : segs'[s] = segs[s]
    BY <1>3, PutKeeps, PutAppends DEF PutStored
  <2>2. TargetSegment = 0 /\ OneIntactSegment
    BY <2>1, OneIntactBefore
  <2>3. segs[0] \in Seq(BlobCell) /\ segs'[0] = Append(segs[0], Blob)
    BY <2>1, <2>2, SegmentNat, SegsTyped
  <2>4. Blob.key = pc.key /\ Blob = Record(pc.key, pc.val)
    BY DEF Blob, Record
  <2>5. CASE k = pc.key
    <3> DEFINE i == Len(segs[0]) + 1
    <3>1. Len(segs'[0]) = i /\ segs'[0][i] = Blob /\ Len(segs[0]) \in Nat
      BY <2>1, <2>3, AppendedCell
    <3>2. i \in 1..Len(segs'[0]) /\ (i + 1)..Len(segs'[0]) = {}
      BY <3>1
    <3>3. last'[k] = pc.val
      BY <1>3, <2>5, PutIndexes
    <3> QED
      BY <2>4, <2>5, <3>1, <3>2, <3>3 DEF LastOf
  <2>6. CASE k # pc.key
    <3>1. k \notin unsure /\ last'[k] = last[k]
      BY <1>3, <2>6, PutIndexes DEF PutStored
    <3>2. PICK i \in 1..Len(segs[0]) : LastOf(segs[0], k, last[k], i)
      BY <2>2, <3>1 DEF OnDisk
    <3>3. \E j \in 1..Len(segs'[0]) : LastOf(segs'[0], k, last'[k], j)
      <4>1. Blob \in BlobCell /\ Blob.key # k
        BY <2>1, <2>4, <2>6
      <4>2. /\ i \in 1..Len(Append(segs[0], Blob))
            /\ LastOf(Append(segs[0], Blob), k, last[k], i)
        BY <2>3, <3>2, <4>1, LastOfAppend
      <4> QED
        BY <2>3, <3>1, <4>2
    <3> QED
      BY <3>3
  <2> QED
    BY <2>5, <2>6
<1>4. CASE DeleteIndexed
  <2>1. segs' = segs /\ unsure' = unsure \ {pc.key}
    BY <1>4 DEF DeleteIndexed, seg_vars
  <2>2. last'[pc.key] = None /\ \A k \in Key \ {pc.key} : last'[k] = last[k]
    BY <1>4, DeleteUnindexes
  <2> QED
    BY <2>1, <2>2 DEF OnDisk, OneIntactSegment
<1>5. CASE Aside
  BY <1>1, <1>5, AsideKeeps DEF history
<1>6. CASE CleanupExpired \/ Tick
  BY <1>1, <1>6 DEF CleanupExpired, Tick, seg_vars, history
<1>7. CASE Close
  BY <1>1, <1>7 DEF Close, StoreGone, seg_vars
<1>8. ASSUME NEW w \in InFlight, Kill(w) \/ PowerFailure(w) PROVE OnDisk'
  <2>0. /\ last' = last /\ \A k \in Key \ unsure' : k \notin unsure
        /\ pc.at = "put" => pc.key \in unsure'
    BY <1>8 DEF Kill, PowerFailure, StoreGone
  <2>1. CASE \A s \in Segment : segs'[s] = segs[s]
    <3>1. segs' = segs
      BY <2>1 DEF TypeOK
    <3> QED
      BY <1>1, <2>0, <3>1
  <2>2. CASE \E t \in Segment : segs'[t] # segs[t]
    <3> SUFFICES ASSUME OneIntactSegment', NEW k \in Key \ unsure', last'[k] # None
                 PROVE \E i \in 1..Len(segs'[0]) : LastOf(segs'[0], k, last'[k], i)
      BY DEF OnDisk
    <3>1. PICK t \in Segment : segs'[t] # segs[t]
      BY <2>2
    <3>2. /\ WritesTo(t)
          /\ \E c \in {Blob, TornMagic, Damaged(Blob)} : segs'[t] = Append(segs[t], c)
      BY <1>8, <3>1, CrashAdds
    <3>3. PICK c \in {Blob, TornMagic, Damaged(Blob)} : segs'[t] = Append(segs[t], c)
      BY <3>2
    <3>4. \A s \in Segment \ {t} : segs'[s] = segs[s]
      BY <1>8, <3>2, CrashAdds DEF WritesTo
    <3>5. /\ c \in BlobCell /\ segs[t] \in Seq(BlobCell)
          /\ c # TornMagic /\ c # Blob => c.val = Bad
          /\ pc.at = "put" /\ Blob.key = pc.key
      BY <3>2, AddedCell
    <3>6. t = 0 /\ OneIntactSegment /\ c # TornMagic /\ c.val # Bad
      BY <3>3, <3>4, <3>5, OneIntactBefore
    <3>7. c.key # k
      BY <2>0, <3>5, <3>6
    <3>8. k \notin unsure /\ last'[k] = last[k]
      BY <2>0
    <3>9. PICK i \in 1..Len(segs[0]) : LastOf(segs[0], k, last[k], i)
      BY <3>6, <3>8 DEF OnDisk
    <3>10. segs'[0] = Append(segs[0], c) /\ segs[0] \in Seq(BlobCell)
      BY <3>3, <3>5, <3>6
    <3>11. i \in 1..Len(Append(segs[0], c)) /\ LastOf(Append(segs[0], c), k, last[k], i)
      BY <3>5, <3>7, <3>9, <3>10, LastOfAppend
    <3> QED
      BY <3>8, <3>10, <3>11
  <2> QED
    BY <2>1, <2>2
<1>9. CASE OpenSnapshot \/ OpenRebuild
  BY <1>1, <1>9 DEF OpenSnapshot, OpenRebuild, Opened, seg_vars, history
<1> QED
  BY <1>2, <1>3, <1>4, <1>5, <1>6, <1>7, <1>8, <1>9 DEF Next, Aside

LEMMA InMemoryStep ==
    ASSUME TypeOK, TypeOK', Placed, Scannable, OnDisk, InMemory, [Next]_vars
    PROVE InMemory'
<1>0. /\ \A s \in Segment : segs[s] \in Seq(BlobCell)
      /\ index \in IndexMap /\ index # None /\ Bad # None /\ 0 \in Segment
  BY SegsTyped, IndexTyped, SegmentNat
<1>1. ASSUME segs' = segs, index' = index, deadline' = deadline,
             index_snap' = None /\ up' = "up" => index_snap = None /\ up = "up",
             UNCHANGED <<last, unsure>>
      PROVE InMemory'
  BY <1>1 DEF InMemory, OneIntactSegment
<1>2. CASE \E k \in Key, v \in Val, ttl \in TTL \cup {None} : PutLogged(k, v, ttl)
  BY <1>1, <1>2 DEF PutLogged, seg_vars, snap_vars
<1>3. CASE \E k \in Key : DeleteLogged(k)
  BY <1>1, <1>3 DEF DeleteLogged, seg_vars, snap_vars, mem_vars, history
<1>4. CASE PutFails \/ Compact \/ BloomWritten \/ UNCHANGED vars \/ Tick
  BY <1>1, <1>4 DEF PutFails, Compact, BloomWritten, vars, Tick, seg_vars, snap_vars, mem_vars, history
<1>5. CASE SnapshotCreated \/ SnapshotWritten \/ OpenFails
  BY <1>0, <1>1, <1>5 DEF SnapshotCreated, SnapshotWritten, OpenFails, Refused,
                          seg_vars, snap_vars, mem_vars, history
<1>6. CASE PutStored
  <2> SUFFICES ASSUME index_snap' = None, OneIntactSegment', NEW k \in Key \ unsure',
                      last'[k] # None, deadline'[k] = None
               PROVE /\ index'[k] # None /\ index'[k].expires_at = None
                     /\ LeadsTo(segs', index'[k], k, last'[k])
    BY DEF InMemory
  <2>1. up = "up" /\ index_snap = None /\ unsure' = unsure \ {pc.key}
    BY <1>6 DEF PutStored, snap_vars
  <2>2. OneIntactSegment
    <3>1. /\ TargetSegment \in Segment /\ Blob \in BlobCell
          /\ segs'[TargetSegment] = Append(segs[TargetSegment], Blob)
          /\ \A s \in Segment \ {TargetSegment} : segs'[s] = segs[s]
      BY <1>6, PutKeeps, PutAppends DEF PutStored
    <3> QED
      BY <3>1, OneIntactBefore
  <2>3. CASE k = pc.key
    BY <1>6, <2>3, PutLeadsTo, PutIndexes
  <2>4. CASE k # pc.key
    <3>1. /\ k \notin unsure /\ last'[k] = last[k] /\ deadline'[k] = deadline[k]
          /\ index'[k] = index[k]
      BY <1>6, <2>1, <2>4, PutIndexes
    <3>2. index[k] # None /\ index[k].expires_at = None /\ LeadsTo(segs, index[k], k, last[k])
      BY <2>1, <2>2, <3>1 DEF InMemory
    <3>3. Keeps /\ segs' \in [Segment -> Seq(BlobCell)] /\ index[k] \in Location
      BY <1>0, <1>6, <3>2, PutKeeps DEF TypeOK, IndexMap
    <3>4. LeadsTo(segs', index[k], k, last[k])
      BY <3>2, <3>3, LeadsToKept
    <3> QED
      BY <3>1, <3>2, <3>4
  <2> QED
    BY <2>3, <2>4
<1>7. CASE DeleteIndexed
  <2>1. segs' = segs /\ unsure' = unsure \ {pc.key} /\ index_snap' = index_snap /\ up' = up
    BY <1>7 DEF DeleteIndexed, seg_vars, snap_vars
  <2>2. /\ last'[pc.key] = None
        /\ \A k \in Key \ {pc.key} :
              last'[k] = last[k] /\ index'[k] = index[k] /\ deadline'[k] = deadline[k]
    BY <1>7, DeleteUnindexes
  <2> QED
    BY <2>1, <2>2 DEF InMemory, OneIntactSegment
<1>8. CASE CleanupExpired
  <2>1. /\ UNCHANGED <<segs, index_snap, up, last, deadline, unsure>>
        /\ \A k \in Key : index'[k] = get_if_valid(k)
    BY <1>8 DEF CleanupExpired, seg_vars, snap_vars, history
  <2>2. \A k \in Key : index[k].expires_at = None => index'[k] = index[k]
    BY <2>1 DEF get_if_valid, Expired
  <2> QED
    BY <2>1, <2>2 DEF InMemory, OneIntactSegment
<1>9. CASE Close \/ (\E w \in InFlight : Kill(w)) \/ (\E w \in InFlight : PowerFailure(w))
  BY <1>9 DEF Close, Kill, PowerFailure, StoreGone, InMemory
<1>10. CASE OpenSnapshot
  BY <1>10 DEF OpenSnapshot, Opened, snap_vars, InMemory
<1>11. CASE OpenRebuild
  <2>1. PICK stop \in Scans : /\ \A s \in Segment : stop[s] # Bad
                              /\ \E order \in DirOrders : Opened(Rebuilt(stop, order))
    BY <1>11 DEF OpenRebuild
  <2>2. PICK order \in DirOrders : Opened(Rebuilt(stop, order))
    BY <2>1
  <2>3. index' = Rebuilt(stop, order) /\ UNCHANGED <<segs, last, deadline, unsure>> /\ index_snap = None
    BY <1>11, <2>2 DEF OpenRebuild, Opened, seg_vars, history
  <2> SUFFICES ASSUME OneIntactSegment, NEW k \in Key \ unsure, last[k] # None
               PROVE /\ Rebuilt(stop, order)[k] # None
                     /\ Rebuilt(stop, order)[k].expires_at = None
                     /\ LeadsTo(segs, Rebuilt(stop, order)[k], k, last[k])
    BY <2>3 DEF InMemory, OneIntactSegment
  <2>4. PICK i \in 1..Len(segs[0]) : LastOf(segs[0], k, last[k], i)
    BY DEF OnDisk
  <2>5. Len(segs[0]) \in Nat /\ IntactLen(segs[0]) = Len(segs[0])
    BY <1>0, IntactIffLen DEF OneIntactSegment
  <2>6. Found(stop, 0, k) = {j \in 1..Len(segs[0]) : segs[0][j].key = k}
    <3>1. 0 \in Segment /\ index_snap = None /\ k \in Key
      BY <1>0, <2>3
    <3>2. Found(stop, 0, k) = {j \in 1..IntactLen(segs[0]) : segs[0][j].key = k}
      BY <2>1, <3>1, RebuildFinds
    <3> QED
      BY <2>5, <3>2
  <2>7. i \in Found(stop, 0, k)
    BY <2>4, <2>6 DEF LastOf, Record
  <2>8. \A s \in Segment : Found(stop, s, k) # {} => s = 0
    <3>1. ASSUME NEW s \in Segment, s # 0 PROVE Found(stop, s, k) = {}
      <4>1. segs[s] = << >>
        BY <3>1, SegmentNat DEF OneIntactSegment
      <4> QED
        BY <4>1 DEF Found
    <3> QED
      BY <3>1
  <2>9. PICK j \in Found(stop, 0, k) :
            /\ \A m \in Found(stop, 0, k) : m <= j
            /\ Rebuilt(stop, order)[k] = [shard |-> 0, offset |-> j - 1, expires_at |-> None]
    BY <1>0, <2>7, <2>8, RebuiltForm
  <2>10. j = i
    <3>1. i <= j /\ j \in 1..Len(segs[0]) /\ segs[0][j].key = k
      BY <2>6, <2>7, <2>9
    <3>2. j \notin (i + 1)..Len(segs[0])
      BY <2>4, <3>1 DEF LastOf
    <3> QED
      BY <2>5, <3>1, <3>2
  <2>11. i - 1 < Len(segs[0]) /\ (i - 1) + 1 = i /\ segs[0][i] = Record(k, last[k])
    <3>1. segs[0][i] = Record(k, last[k])
      BY <2>4 DEF LastOf
    <3> QED
      BY <2>5, <3>1
  <2>12. Rebuilt(stop, order)[k] = [shard |-> 0, offset |-> i - 1, expires_at |-> None]
    BY <2>9, <2>10
  <2>13. Rebuilt(stop, order)[k] \in Location
    <3>1. i - 1 \in Nat /\ 0 \in Segment
      BY <1>0, <2>5
    <3>2. [shard |-> 0, offset |-> i - 1, expires_at |-> None] \in Location
      BY <3>1 DEF Location
    <3> QED
      BY <2>12, <3>2
  <2>14. Rebuilt(stop, order)[k] # None
    BY <2>13, SentinelAssumption
  <2> QED
    <3>1. /\ Rebuilt(stop, order)[k].shard = 0 /\ Rebuilt(stop, order)[k].offset = i - 1
          /\ Rebuilt(stop, order)[k].expires_at = None
      BY <2>12
    <3>2. LeadsTo(segs, Rebuilt(stop, order)[k], k, last[k])
      BY <2>11, <3>1 DEF LeadsTo
    <3> QED
      BY <2>14, <3>1, <3>2
<1> QED
  BY <1>2, <1>3, <1>4, <1>5, <1>6, <1>7, <1>8, <1>9, <1>10, <1>11 DEF Next

----------------------------------------------------------------------------
(* BlobStore implements VolumeMap *)

\* The values and deadlines of the records that an index leads to.
Shown(g, idx) ==
    [k \in Key |-> IF idx[k] = None THEN None ELSE g[idx[k].shard][idx[k].offset + 1].val]
ShownExpiry(idx) == [k \in Key |-> IF idx[k] = None THEN None ELSE idx[k].expires_at]

\* get() gets through to those records, and they hold what was put.
Transparent ==
    /\ [k \in Key |-> IndexedValue(k)] = Shown(segs, index)
    /\ [k \in Key |-> IndexedExpiry(k)] = ShownExpiry(index)
    /\ \A k \in Key : index[k] # None => Shown(segs, index)[k] \in written[k]

LEMMA StoreTransparent ==
    ASSUME TypeOK, Placed, Covered, Sound
    PROVE Transparent
<1>1. ASSUME NEW k \in Key, index[k] # None
      PROVE /\ IndexedValue(k) = segs[index[k].shard][index[k].offset + 1].val
            /\ segs[index[k].shard][index[k].offset + 1].val \in written[k]
  <2>1. k \in bloom
    BY <1>1 DEF Covered, BloomCoversIndex, KeysOf
  <2>2. index[k].shard \in Segment /\ index[k].offset \in Nat
    BY <1>1, IndexTyped
  <2>3. Leads(segs, written, k, index[k])
    <3>1. index \in Indexes
      BY IndexTyped DEF Indexes
    <3> QED
      BY <1>1, <3>1 DEF Sound, SoundMap
  <2>4. segs[index[k].shard] \in Seq(BlobCell)
    BY <2>2, SegsTyped
  <2>5. segs[index[k].shard] # << >>
    <3>1. index[k].offset < Len(segs[index[k].shard])
      BY <2>3 DEF Leads
    <3> QED
      BY <2>2, <2>4, <3>1
  <2>6. index[k].shard \in created
    BY <2>2, <2>5 DEF Placed
  <2> QED
    BY <1>1, <2>1, <2>3, <2>6 DEF IndexedValue, read_blob, Leads
<1>2. ASSUME NEW k \in Key, index[k] = None PROVE IndexedValue(k) = None
  BY <1>2 DEF IndexedValue
<1>3. \A k \in Key : IndexedExpiry(k) = IF index[k] = None THEN None ELSE index[k].expires_at
  BY DEF IndexedExpiry
<1> QED
  BY <1>1, <1>2, <1>3 DEF Transparent, Shown, ShownExpiry

LEMMA RefinesStart ==
    ASSUME TypeOK, TypeOK', Transparent', up # "up", NEW idx, Opened(idx)
    PROVE Map!Start
<1>1. up' = "up" /\ now' = now /\ written' = written
  BY DEF Opened, history
<1>2. \A k \in Key : index'[k] = None => Shown(segs', index')[k] = None /\ ShownExpiry(index')[k] = None
  BY DEF Shown, ShownExpiry
<1>3. \A k \in Key : index'[k] # None => Shown(segs', index')[k] \in written'[k]
  BY DEF Transparent
<1>4. \A k \in Key : None \notin written'[k]
  BY SentinelAssumption DEF TypeOK
<1>5. /\ [k \in Key |-> IndexedValue(k)]' = Shown(segs', index')
      /\ [k \in Key |-> IndexedExpiry(k)]' = ShownExpiry(index')
  BY DEF Transparent
<1> HIDE DEF Shown, ShownExpiry
<1> QED
  BY <1>1, <1>2, <1>3, <1>4, <1>5 DEF Map!Start

LEMMA RefinesStep ==
    ASSUME TypeOK, TypeOK', Placed, Honest, Sound, Transparent, Transparent', [Next]_vars
    PROVE [Map!Next]_(Map!vars)
<1> DEFINE value == [k \in Key |-> IndexedValue(k)]
           expiry == [k \in Key |-> IndexedExpiry(k)]
<1>1. /\ value = Shown(segs, index) /\ expiry = ShownExpiry(index)
      /\ value' = Shown(segs', index') /\ expiry' = ShownExpiry(index')
  BY DEF Transparent
<1> HIDE DEF value, expiry
<1>2. ASSUME UNCHANGED <<segs, index, now, written>>, up' = up \/ (up # "up" /\ up' # "up")
      PROVE UNCHANGED Map!vars
  BY <1>1, <1>2 DEF Map!vars, value, expiry
<1>3. ASSUME NEW k \in Key, NEW v \in Val, NEW ttl \in TTL \cup {None}, PutLogged(k, v, ttl)
      PROVE Map!Next
  <2>1. /\ up = "up" /\ up' = up /\ now' = now /\ segs' = segs /\ index' = index
        /\ written' = [written EXCEPT ![k] = @ \cup {v}]
    BY <1>3 DEF PutLogged, seg_vars
  <2>2. value' = value /\ expiry' = expiry
    BY <1>1, <2>1
  <2>3. Map!Request(k, v)
    BY <2>1, <2>2 DEF Map!Request, value, expiry
  <2> QED
    BY <2>3 DEF Map!Next
<1>4. CASE PutStored
  <2>1. /\ up = "up" /\ up' = up /\ now' = now /\ written' = written /\ pc.at = "put"
        /\ pc.key \in Key /\ pc.val \in Val /\ pc.ttl \in TTL \cup {None}
    BY <1>4, PutInProgress DEF PutStored
  <2>2. pc.val \in written[pc.key]
    BY <2>1 DEF Honest
  <2>3. ASSUME NEW k \in Key \ {pc.key}
        PROVE Shown(segs', index')[k] = Shown(segs, index)[k]
              /\ ShownExpiry(index')[k] = ShownExpiry(index)[k]
    <3>1. index'[k] = index[k]
      BY <1>4, PutIndexes
    <3>2. CASE index[k] = None
      BY <3>1, <3>2 DEF Shown, ShownExpiry
    <3>3. CASE index[k] # None
      <4>1. index[k].shard \in Segment /\ index[k].offset \in Nat /\ index \in Indexes
        BY <3>3, IndexTyped DEF Indexes
      <4>2. index[k].offset < Len(segs[index[k].shard])
        BY <3>3, <4>1 DEF Sound, SoundMap, Leads
      <4>3. Len(segs[index[k].shard]) \in Nat
        BY <4>1, SegsTyped
      <4>4. index[k].offset + 1 \in 1..Len(segs[index[k].shard])
        BY <4>1, <4>2, <4>3
      <4>5. segs'[index[k].shard][index[k].offset + 1] = segs[index[k].shard][index[k].offset + 1]
        BY <1>4, <4>1, <4>4, PutKeeps DEF Keeps
      <4> QED
        BY <3>1, <3>3, <4>5 DEF Shown, ShownExpiry
    <3> QED
      BY <3>2, <3>3
  <2>4. Shown(segs', index')[pc.key] = pc.val
        /\ ShownExpiry(index')[pc.key] = (IF pc.ttl = None THEN None ELSE now + pc.ttl)
    <3>1. /\ LeadsTo(segs', index'[pc.key], pc.key, pc.val) /\ index'[pc.key] # None
      BY <1>4, PutLeadsTo
    <3>2. index'[pc.key].expires_at = IF pc.ttl = None THEN None ELSE now + pc.ttl
      BY <1>4, PutIndexes DEF blob_location
    <3>3. /\ index'[pc.key] # None
          /\ segs'[index'[pc.key].shard][index'[pc.key].offset + 1].val = pc.val
      BY <3>1 DEF LeadsTo, Record
    <3>4. Shown(segs', index')[pc.key] = pc.val
      BY <2>1, <3>3 DEF Shown
    <3> QED
      BY <2>1, <3>2, <3>3, <3>4 DEF ShownExpiry
  <2>5. /\ DOMAIN Shown(segs, index) = Key /\ DOMAIN ShownExpiry(index) = Key
        /\ Shown(segs', index') = [k \in Key |-> Shown(segs', index')[k]]
        /\ ShownExpiry(index') = [k \in Key |-> ShownExpiry(index')[k]]
    BY DEF Shown, ShownExpiry
  <2>6. /\ value' = [value EXCEPT ![pc.key] = pc.val]
        /\ expiry' = [expiry EXCEPT ![pc.key] = IF pc.ttl = None THEN None ELSE now + pc.ttl]
    BY <1>1, <2>3, <2>4, <2>5
  <2>7. Map!Put(pc.key, pc.val, pc.ttl)
    BY <2>1, <2>2, <2>6 DEF Map!Put, value, expiry
  <2> QED
    BY <2>1, <2>7 DEF Map!Next
<1>5. CASE DeleteIndexed
  <2>1. /\ up = "up" /\ up' = up /\ now' = now /\ written' = written /\ segs' = segs
        /\ pc.key \in Key
    BY <1>5, DeleteInProgress DEF DeleteIndexed, seg_vars
  <2>2. index'[pc.key] = None /\ \A k \in Key \ {pc.key} : index'[k] = index[k]
    BY <1>5, DeleteUnindexes
  <2>3. /\ Shown(segs', index') = [Shown(segs, index) EXCEPT ![pc.key] = None]
        /\ ShownExpiry(index') = [ShownExpiry(index) EXCEPT ![pc.key] = None]
    BY <2>1, <2>2 DEF Shown, ShownExpiry
  <2>4. Map!Delete(pc.key)
    BY <1>1, <2>1, <2>3 DEF Map!Delete, value, expiry
  <2> QED
    BY <2>1, <2>4 DEF Map!Next
<1>6. CASE CleanupExpired
  <2>1. /\ up = "up" /\ up' = up /\ now' = now /\ written' = written /\ segs' = segs
        /\ \A k \in Key : index'[k] = get_if_valid(k)
    BY <1>6 DEF CleanupExpired, seg_vars, history
  <2> DEFINE Late == {k \in Key : expiry[k] # None /\ now > expiry[k]}
  <2>2. \A k \in Key : k \in Late <=> index[k] # None /\ Expired(index[k])
    BY <1>1 DEF ShownExpiry, Expired
  <2>3. \A k \in Key : index'[k] = IF k \in Late THEN None ELSE index[k]
    BY <2>1, <2>2 DEF get_if_valid
  <2>4. /\ Shown(segs', index') = [k \in Key |-> IF k \in Late THEN None ELSE Shown(segs, index)[k]]
        /\ ShownExpiry(index') = [k \in Key |-> IF k \in Late THEN None ELSE ShownExpiry(index)[k]]
    <3> HIDE DEF Late
    <3> QED
      BY <2>1, <2>3 DEF Shown, ShownExpiry
  <2>5. Map!Expire
    BY <1>1, <2>1, <2>4 DEF Map!Expire, value, expiry
  <2> QED
    BY <2>5 DEF Map!Next
<1>7. CASE Close \/ (\E w \in InFlight : Kill(w)) \/ (\E w \in InFlight : PowerFailure(w))
  <2>1. up' = "down" /\ index' = EmptyIndex /\ now' = now /\ written' = written
    BY <1>7 DEF Close, Kill, PowerFailure, StoreGone
  <2>2. Shown(segs', index') = Map!Nothing /\ ShownExpiry(index') = Map!Nothing
    BY <2>1 DEF EmptyIndex, Shown, ShownExpiry, Map!Nothing
  <2>3. Map!Stop
    BY <1>1, <2>1, <2>2 DEF Map!Stop, value, expiry
  <2> QED
    BY <2>3 DEF Map!Next
<1>8. CASE OpenSnapshot \/ OpenRebuild
  <2>1. Map!Start
    BY <1>8, RefinesStart DEF OpenSnapshot, OpenRebuild
  <2> QED
    BY <2>1 DEF Map!Next
<1>9. CASE Tick
  <2>1. now' = now + 1 /\ UNCHANGED <<segs, index, up, written>>
    BY <1>9 DEF Tick, seg_vars, mem_vars, history
  <2>2. Map!Tick
    BY <1>1, <2>1 DEF Map!Tick, value, expiry
  <2> QED
    BY <2>2 DEF Map!Next
<1>10. CASE Aside
  <2>1. UNCHANGED Map!vars
    BY <1>2, <1>10, AsideKeeps DEF history
  <2> QED
    BY <2>1
<1> QED
  BY <1>3, <1>4, <1>5, <1>6, <1>7, <1>8, <1>9, <1>10 DEF Next, Aside

----------------------------------------------------------------------------
(* The first states, and what the invariants say *)

LEMMA InitPlaced == Init => Placed
BY DEF Init, Placed, AppendOnly, Idle

LEMMA InitTypes == Init /\ W!TypeOK => TypeOK /\ Placed
<1> SUFFICES ASSUME Init, W!TypeOK PROVE TypeOK /\ Placed
  OBVIOUS
<1>1. Placed
  BY InitPlaced
<1>2. TypeOK
  BY SegmentNat DEF Init, TypeOK, EmptyIndex, IndexMap
<1> QED
  BY <1>1, <1>2

LEMMA InitCovered == Init => Covered /\ Remembered
BY DEF Init, Covered, Remembered, BloomCoversIndex, KeysOf, EmptyIndex, Idle

LEMMA RememberedReads ==
    ASSUME TypeOK, Placed, Covered, Remembered
    PROVE ReadYourWrites
<1> SUFFICES ASSUME NEW k \in session PROVE Get(k) = Expected(k)
  BY DEF ReadYourWrites
<1>1. k \in Key /\ Agrees(k)
  BY DEF Remembered, TypeOK
<1>2. CASE index[k] = None
  <2>1. Get(k) = None
    BY <1>2 DEF Get, get_if_valid
  <2> QED
    BY <1>1, <1>2, <2>1 DEF Agrees, Expected
<1>3. CASE index[k] # None
  <2>1. /\ last[k] \in Val /\ index[k].expires_at = deadline[k]
        /\ LeadsTo(segs, index[k], k, last[k])
    BY <1>1, <1>3 DEF Agrees, TypeOK
  <2>2. Get(k) = IF Expired(index[k]) THEN None ELSE last[k]
    BY <1>1, <1>3, <2>1, GetLeadsTo
  <2> QED
    BY <2>1, <2>2 DEF Expired, Expected
<1> QED
  BY <1>2, <1>3

LEMMA InitRecoverable == Init => Recoverable
<1> SUFFICES ASSUME Init PROVE Recoverable
  OBVIOUS
<1>1. \A s \in Segment : segs[s] = << >> /\ synced[s] = 0 /\ Len(segs[s]) = 0
  BY DEF Init
<1>2. Fsynced /\ Honest /\ Scannable
  BY <1>1 DEF Init, Idle, Fsynced, Honest, Scannable, ScansClean
<1>3. Sound
  BY DEF Init, Sound, Indexes, SoundMap, EmptyIndex
<1> QED
  BY <1>2, <1>3 DEF Recoverable

LEMMA RecoverableStep ==
    ASSUME SingleFailure, TypeOK, TypeOK', Placed, Recoverable, [Next]_vars
    PROVE Recoverable'
<1>1. Fsynced /\ Honest /\ Scannable /\ Sound
  BY DEF Recoverable
<1>2. Fsynced' /\ Honest' /\ Scannable' /\ Sound'
  BY <1>1, FsyncedStep, HonestStep, ScannableStep, SoundStep
<1> QED
  BY <1>2 DEF Recoverable

LEMMA InMemoryReads ==
    ASSUME TypeOK, Placed, Covered, InMemory
    PROVE RecoversPuts
<1> SUFFICES ASSUME up = "up", index_snap = None, IntactLen(segs[0]) = Len(segs[0]),
                    \A s \in Segment : s > 0 => segs[s] = << >>,
                    NEW k \in Key \ unsure, last[k] # None, deadline[k] = None
             PROVE Get(k) = last[k]
  BY DEF RecoversPuts
<1>1. segs[0] \in Seq(BlobCell) /\ last[k] \in Val
  BY SegmentNat DEF TypeOK
<1>2. OneIntactSegment
  BY <1>1, IntactIffLen DEF OneIntactSegment
<1>3. /\ index[k] # None /\ index[k].expires_at = None
      /\ LeadsTo(segs, index[k], k, last[k])
  BY <1>2 DEF InMemory
<1>4. Get(k) = IF Expired(index[k]) THEN None ELSE last[k]
  BY <1>1, <1>3, GetLeadsTo
<1> QED
  BY <1>3, <1>4 DEF Expired

LEMMA InitMap == Init => Map!Init
<1> SUFFICES ASSUME Init PROVE Map!Init
  OBVIOUS
<1>1. \A k \in Key : IndexedValue(k) = None /\ IndexedExpiry(k) = None
  BY DEF Init, EmptyIndex, IndexedValue, IndexedExpiry
<1> QED
  BY <1>1 DEF Init, Map!Init, Map!Nothing

LEMMA InitOnDisk == Init => OnDisk /\ InMemory
BY DEF Init, OnDisk, InMemory

----------------------------------------------------------------------------
(* Theorems *)

WP == INSTANCE WalProofs WITH Op <- WalOp, handed <- {}, promised <- {}

\* What is proved of every Wal holds of the log of the store.
LEMMA WalHolds == W!Spec => []W!TypeOK /\ []W!SequencesConsecutive
<1>1. W!Init => WP!Init
  BY DEF W!Init, WP!Init
<1>2. [W!Next]_(W!vars) => [WP!Next]_(WP!vars)
  BY DEF W!Next, WP!Next, W!vars, WP!vars, W!disk, WP!disk, W!AppendEntry, WP!AppendEntry,
         W!Sync, WP!Sync, W!Truncate, WP!Truncate, W!Close, WP!Close, W!Kill, WP!Kill,
         W!PowerFailure, WP!PowerFailure, W!Open, WP!Open, W!InFlight, WP!InFlight,
         W!Remains, WP!Remains, W!NextEntry, WP!NextEntry, W!HasRoom, WP!HasRoom,
         W!Gone, WP!Gone, W!find_last_sequence, WP!find_last_sequence,
         W!ReadableLen, WP!ReadableLen, W!Replayed, WP!Replayed, W!FlushAndFsync,
         WP!FlushAndFsync, W!Flush, WP!Flush, W!maybe_sync, WP!maybe_sync
<1>3. WP!TypeOK => W!TypeOK
  BY DEF W!TypeOK, WP!TypeOK, W!Entry, WP!Entry, W!Cell, WP!Cell
<1>4. WP!SequencesConsecutive => W!SequencesConsecutive
  BY DEF W!SequencesConsecutive, WP!SequencesConsecutive, W!ReadableLen, WP!ReadableLen
<1>5. Torn \notin WP!Entry
  BY TornAssumption DEF WP!Entry
<1>6. MaxLog \in Nat
  BY SizeAssumption
<1>7. WP!Spec => []WP!TypeOK /\ []WP!SequencesConsecutive
  BY WP!TypeCorrect, WP!Numbering, PolicyAssumption, <1>5, <1>6, PTL
<1> QED
  BY <1>1, <1>2, <1>3, <1>4, <1>7, PTL DEF W!Spec, WP!Spec

\* The variables of the store have their types.
THEOREM StoreTypes == Spec => []TypeOK
<1>1. Init /\ W!TypeOK => TypeOK /\ Placed
  BY InitTypes
<1>2. TypeOK /\ Placed /\ W!TypeOK' /\ [Next]_vars => TypeOK' /\ Placed'
  BY TypeStep, PlacedStep
<1> QED
  BY <1>1, <1>2, StoreKeepsToWal, WalHolds, PTL DEF Spec

\* BlobStore appends: after any sequence of operations, failed roll-overs,
\* crashes and reopenings the next blob goes to the end of the last segment.
THEOREM StoreAppends == Spec => []AppendOnly
<1>1. Init => Placed
  BY InitPlaced
<1>2. TypeOK /\ Placed /\ [Next]_vars => Placed'
  BY PlacedStep
<1>3. Placed => AppendOnly
  BY DEF Placed
<1> QED
  BY <1>1, <1>2, <1>3, StoreTypes, PTL DEF Spec

\* The types, Placed and Covered hold in every reachable state.
LEMMA StoreInvariants == Spec => []TypeOK /\ []Placed /\ []Covered
<1>1. Init => Placed
  BY InitPlaced
<1>2. TypeOK /\ Placed /\ [Next]_vars => Placed'
  BY PlacedStep
<1>3. Init => Covered
  BY InitCovered
<1>4. TypeOK /\ Placed /\ Covered /\ [Next]_vars => Covered'
  BY CoveredStep
<1> QED
  BY <1>1, <1>2, <1>3, <1>4, StoreTypes, PTL DEF Spec

\* Every key of the index is in the Bloom filter that get() consults, also when
\* bloom.filter was lost, stale or damaged.
THEOREM BloomComplete == Spec => []BloomCoversIndex
<1>1. Covered => BloomCoversIndex
  BY DEF Covered
<1> QED
  BY <1>1, StoreInvariants, PTL

\* get() of a key that was put or deleted since open() returns what the last
\* such operation and the clock make of it, whatever other operations, failed
\* puts and snapshots came in between.
THEOREM ReadsOwnWrites == Spec => []ReadYourWrites
<1>1. Init => Remembered
  BY InitCovered
<1>2. TypeOK /\ TypeOK' /\ Placed /\ Remembered /\ [Next]_vars => Remembered'
  BY RememberedStep
<1>3. TypeOK /\ Placed /\ Covered /\ Remembered => ReadYourWrites
  BY RememberedReads
<1> QED
  BY <1>1, <1>2, <1>3, StoreInvariants, PTL DEF Spec

LEMMA StoreRecoverable ==
    ASSUME SingleFailure
    PROVE Spec => []Recoverable
<1>1. Init => Recoverable
  BY InitRecoverable
<1>2. TypeOK /\ TypeOK' /\ Placed /\ Recoverable /\ [Next]_vars => Recoverable'
  BY RecoverableStep
<1> QED
  BY <1>1, <1>2, StoreInvariants, PTL DEF Spec

\* Every entry of the index, and of every index that index.snap may hold after
\* the next failure, leads to a complete record of its own key, after any number
\* of crashes, reopenings, snapshots and rebuilds.
THEOREM IndexLeadsToRecords ==
    ASSUME SingleFailure
    PROVE Spec => []IndexSound
<1>1. TypeOK /\ Placed /\ Recoverable => IndexSound
  BY SoundMeansIndexSound DEF Recoverable
<1> QED
  BY <1>1, StoreInvariants, StoreRecoverable, PTL

\* After any number of crashes, get() finds every acknowledged put without TTL,
\* as long as there is no snapshot, the blobs fit one segment and no record of it
\* is damaged.
THEOREM RebuildRecoversPuts ==
    ASSUME SingleFailure
    PROVE Spec => []RecoversPuts
<1>1. Init => OnDisk /\ InMemory
  BY InitOnDisk
<1>2. TypeOK /\ TypeOK' /\ Placed /\ Recoverable /\ OnDisk /\ InMemory /\ [Next]_vars
          => OnDisk' /\ InMemory'
  BY OnDiskStep, InMemoryStep DEF Recoverable
<1>3. TypeOK /\ Placed /\ Covered /\ InMemory => RecoversPuts
  BY InMemoryReads
<1> QED
  BY <1>1, <1>2, <1>3, StoreInvariants, StoreRecoverable, PTL DEF Spec

\* BlobStore implements VolumeMap: no step of it, a crash and a reopening
\* included, makes a key show a value that was not put under it, and while the
\* store is up only put, delete and cleanup_expired change what a key shows.
THEOREM StoreRefinesMap ==
    ASSUME SingleFailure
    PROVE Spec => ImplementsVolumeMap
<1>1. Init => Map!Init
  BY InitMap
<1>2. TypeOK /\ Placed /\ Covered /\ Recoverable => Transparent
  BY StoreTransparent DEF Recoverable
<1>3. TypeOK /\ TypeOK' /\ Placed /\ Recoverable /\ Transparent /\ Transparent' /\ [Next]_vars
          => [Map!Next]_(Map!vars)
  BY RefinesStep DEF Recoverable
<1> QED
  BY <1>1, <1>2, <1>3, StoreInvariants, StoreRecoverable, PTL DEF Spec, ImplementsVolumeMap, Map!Spec
=============================================================================
