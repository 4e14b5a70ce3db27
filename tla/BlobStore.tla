---------------------------- MODULE BlobStore ----------------------------
(***************************************************************************)
(* The storage engine of a volume (struct BlobStore with its Index, Bloom  *)
(* filter, segment files, index snapshot and Wal), over crashes and        *)
(* reopenings.                                                             *)
(*                                                                         *)
(* A segment file is a sequence of cells, so an offset counts cells.  A    *)
(* cell is a blob record, whose value is Bad when the record was cut short *)
(* after its magic bytes, or TornMagic, a record cut short within them.    *)
(* The two differ in what scan_segment does when it meets them.            *)
(*                                                                         *)
(* BlobStore's methods take &mut self behind one Mutex, so operations do   *)
(* not interleave with each other, but a crash can hit between any two of  *)
(* their writes: pc is the operation in progress.                          *)
(***************************************************************************)
EXTENDS Naturals, Sequences

CONSTANTS
    Key, Val,
    TTL,           \* time-to-live arguments of put_with_ttl
    None,          \* Option::None
    Torn,          \* a partially written WAL entry
    TornMagic,     \* a blob record cut short within its magic bytes
    Bad,           \* what a read of a damaged blob, snapshot or Bloom file gives
    Policies,      \* the WalSyncPolicy values the store may be opened with
    SegmentSize,   \* SEGMENT_SIZE, in cells
    MaxSegments,   \* MAX_SEGMENTS
    Failures,      \* the ways to lose the process: a subset of {"kill", "power"}
    MaxLog,        \* bound: cells in the WAL, hence operations
    MaxSegment,    \* bound: largest segment number in use
    MaxNow         \* bound: the clock

ASSUME SizeAssumption ==
    /\ SegmentSize \in Nat /\ MaxSegments \in Nat /\ MaxLog \in Nat
    /\ MaxSegment \in Nat /\ MaxNow \in Nat
ASSUME TTLAssumption == TTL \subseteq Nat
ASSUME PolicyAssumption == Policies \subseteq {"Always", "Interval", "Never"}

Segment == 0..MaxSegment
WalOp == [kind : {"put", "delete"}, key : Key]
BlobCell == [key : Key, val : Val \cup {Bad}] \cup {TornMagic}
Location == [shard : Segment, offset : Nat, expires_at : Nat \cup {None}]
IndexMap == [Key -> Location \cup {None}]

ASSUME TornAssumption == Torn \notin [sequence : Nat, op : WalOp]
ASSUME SentinelAssumption ==
    /\ None \notin Location \cup Val \cup Nat \cup IndexMap
    /\ Bad \notin IndexMap \cup {None}
    /\ \A S \in SUBSET Key : S # None /\ S # Bad
    /\ Bad \notin Val
    /\ TornMagic \notin [key : Key, val : Val \cup {Bad}]

VARIABLES
    status, sync_policy, buffer, file, durable, cut, next_sequence,   \* the Wal
    segs,             \* the content of the segment files
    created,          \* the segments whose file exists
    synced,           \* cells of each segment that are known to be on disk
    index_snap,       \* the file index.snap: None, Bad or a saved index
    snap_after_power, \* what a power failure can leave in index.snap
    bloom_filter,     \* the file bloom.filter: None, Bad or a set of keys
    index, bloom, current_segment, current_offset,       \* the BlobStore
    pc,               \* the operation in progress
    up,               \* "up", "down", or "refused" after open() returned an error
    now,              \* the system clock
    last, deadline,   \* history: value and expiry that the acknowledged operations give each key
    written,          \* history: values that were ever put under each key
    session,          \* history: keys put or deleted since the store was opened
    unsure            \* history: keys with an operation cut off by a crash and none acknowledged since

W == INSTANCE Wal WITH Op <- WalOp

wal_vars == <<status, sync_policy, buffer, file, durable, cut, next_sequence>>
seg_vars == <<segs, created, synced>>
snap_vars == <<index_snap, snap_after_power, bloom_filter>>
mem_vars == <<index, bloom, current_segment, current_offset>>
history == <<last, deadline, written, session, unsure>>
vars == <<wal_vars, seg_vars, snap_vars, mem_vars, pc, up, now, history>>

Idle == [at |-> "idle"]
EmptyIndex == [k \in Key |-> None]

----------------------------------------------------------------------------
(* Reads *)

\* Index::is_expired.
Expired(loc) == loc.expires_at # None /\ now > loc.expires_at

\* Index::get_if_valid.
get_if_valid(k) == IF index[k] # None /\ Expired(index[k]) THEN None ELSE index[k]

\* read_blob: the value of the record at the location, or Bad for an error.  The
\* key stored in the record is not compared.
read_blob(loc) ==
    LET f == segs[loc.shard] IN
    IF loc.shard \notin created THEN None
    ELSE IF loc.offset < Len(f) /\ f[loc.offset + 1] # TornMagic THEN f[loc.offset + 1].val
    ELSE Bad

\* BlobStore::get.
Get(k) ==
    IF k \notin bloom \/ get_if_valid(k) = None THEN None
    ELSE read_blob(index[k])

----------------------------------------------------------------------------
(* put_with_ttl *)

\* write_blob rolls over to the next segment once the offset is past SEGMENT_SIZE.
RollsOver == current_offset > SegmentSize
TargetSegment == IF RollsOver THEN current_segment + 1 ELSE current_segment
TargetOffset == IF RollsOver THEN 0 ELSE current_offset

\* The WAL entry is appended and the Bloom filter set.
PutLogged(k, v, ttl) ==
    /\ up = "up" /\ pc = Idle
    /\ TargetSegment \in Segment
    /\ W!AppendEntry([kind |-> "put", key |-> k])
    /\ bloom' = bloom \cup {k}
    /\ pc' = [at |-> "put", key |-> k, val |-> v, ttl |-> ttl]
    /\ written' = [written EXCEPT ![k] = @ \cup {v}]
    /\ UNCHANGED <<seg_vars, snap_vars, index, current_segment, current_offset,
                   up, now, last, deadline, session, unsure>>

\* The next segment number is past the limit: put fails after the roll-over
\* was recorded, so the next put goes on in that segment.
PastLimit == RollsOver /\ TargetSegment >= MaxSegments

\* Faulty variant: the segment number is advanced again on the error path.
PutFailsRollsTwice ==
    /\ up = "up" /\ pc.at = "put"
    /\ PastLimit
    /\ current_segment' = TargetSegment + 1
    /\ current_offset' = 0
    /\ pc' = Idle
    /\ UNCHANGED <<wal_vars, seg_vars, snap_vars, index, bloom, up, now, history>>

PutFails ==
    /\ up = "up" /\ pc.at = "put"
    /\ PastLimit
    /\ current_segment' = TargetSegment
    /\ current_offset' = 0
    /\ pc' = Idle
    /\ UNCHANGED <<wal_vars, seg_vars, snap_vars, index, bloom, up, now, history>>

\* Writing one cell at an offset of a segment file; a gap reads as zeros.
WriteCell(f, offset, cell) ==
    [i \in 1..(IF offset < Len(f) THEN Len(f) ELSE offset + 1) |->
        IF i = offset + 1 THEN cell ELSE IF i <= Len(f) THEN f[i] ELSE TornMagic]

\* The segment file with the blob of the put in progress in it.
WrittenSegment ==
    WriteCell(segs[TargetSegment], TargetOffset, [key |-> pc.key, val |-> pc.val])

\* Faulty variant: the location has the offset after the blob.
blob_location_past_end(segment, offset, ttl) ==
    [shard |-> segment, offset |-> offset + 1,
     expires_at |-> IF ttl = None THEN None ELSE now + ttl]

\* Faulty variant: the deadline is one unit late.
blob_location_expires_late(segment, offset, ttl) ==
    [shard |-> segment, offset |-> offset,
     expires_at |-> IF ttl = None THEN None ELSE now + ttl + 1]

\* The BlobLocation of write_blob_to_segment with the expiry set by put_with_ttl.
blob_location(segment, offset, ttl) ==
    [shard |-> segment, offset |-> offset,
     expires_at |-> IF ttl = None THEN None ELSE now + ttl]

\* Faulty variant: the segment file is never fsynced.
synced_length_unchanged(s, f) == synced[s]

\* sync_all() of the segment file under Always.
synced_length(s, f) == IF sync_policy = "Always" THEN Len(f) ELSE synced[s]

\* The blob is written (and fsynced under Always) and the index updated.
PutStored ==
    /\ up = "up" /\ pc.at = "put"
    /\ ~PastLimit
    /\ segs' = [segs EXCEPT ![TargetSegment] = WrittenSegment]
    /\ created' = created \cup {TargetSegment}
    /\ synced' = [synced EXCEPT ![TargetSegment] = synced_length(TargetSegment, WrittenSegment)]
    /\ index' = [index EXCEPT ![pc.key] = blob_location(TargetSegment, TargetOffset, pc.ttl)]
    /\ current_segment' = TargetSegment
    /\ current_offset' = TargetOffset + 1
    /\ pc' = Idle
    /\ last' = [last EXCEPT ![pc.key] = pc.val]
    /\ deadline' = [deadline EXCEPT ![pc.key] = IF pc.ttl = None THEN None ELSE now + pc.ttl]
    /\ session' = session \cup {pc.key}
    /\ unsure' = unsure \ {pc.key}
    /\ UNCHANGED <<wal_vars, snap_vars, bloom, up, now, written>>

----------------------------------------------------------------------------
(* delete, cleanup_expired, compact *)

DeleteLogged(k) ==
    /\ up = "up" /\ pc = Idle
    /\ W!AppendEntry([kind |-> "delete", key |-> k])
    /\ pc' = [at |-> "delete", key |-> k]
    /\ UNCHANGED <<seg_vars, snap_vars, mem_vars, up, now, history>>

\* Faulty variant: the delete is logged but the index entry is kept.
DeleteKeepsIndex ==
    /\ up = "up" /\ pc.at = "delete"
    /\ pc' = Idle
    /\ last' = [last EXCEPT ![pc.key] = None]
    /\ deadline' = [deadline EXCEPT ![pc.key] = None]
    /\ session' = session \cup {pc.key}
    /\ unsure' = unsure \ {pc.key}
    /\ UNCHANGED <<wal_vars, seg_vars, snap_vars, index, bloom, current_segment, current_offset,
                   up, now, written>>

DeleteIndexed ==
    /\ up = "up" /\ pc.at = "delete"
    /\ index' = [index EXCEPT ![pc.key] = None]
    /\ pc' = Idle
    /\ last' = [last EXCEPT ![pc.key] = None]
    /\ deadline' = [deadline EXCEPT ![pc.key] = None]
    /\ session' = session \cup {pc.key}
    /\ unsure' = unsure \ {pc.key}
    /\ UNCHANGED <<wal_vars, seg_vars, snap_vars, bloom, current_segment, current_offset,
                   up, now, written>>

\* Index::cleanup_expired; nothing is logged.
CleanupExpired ==
    /\ up = "up" /\ pc = Idle
    /\ index' = [k \in Key |-> get_if_valid(k)]
    /\ UNCHANGED <<wal_vars, seg_vars, snap_vars, bloom, current_segment, current_offset,
                   pc, up, now, history>>

\* compact copies the live blobs to data_path/compact_temp and then renames
\* data_path to data_path/compact_backup.  A directory cannot be moved below
\* itself (rename fails with EINVAL), so compact returns an error there and the
\* rest of the function is not reached.  The blobs in compact_temp are one
\* directory level too deep for the scans of open(): nothing reads them.
Compact ==
    /\ up = "up" /\ pc = Idle
    /\ UNCHANGED vars

----------------------------------------------------------------------------
(* save_snapshot: index.snap is truncated, then written, then bloom.filter *)

SnapshotCreated ==
    /\ up = "up" /\ pc = Idle
    /\ index_snap' = Bad
    /\ snap_after_power' = snap_after_power \cup {Bad}
    /\ pc' = [at |-> "snapshot"]
    /\ UNCHANGED <<wal_vars, seg_vars, bloom_filter, mem_vars, up, now, history>>

\* index.snap is complete, but is not fsynced.
SnapshotWritten ==
    /\ up = "up" /\ pc.at = "snapshot"
    /\ index_snap' = index
    /\ snap_after_power' = snap_after_power \cup {index}
    /\ pc' = [at |-> "bloom"]
    /\ UNCHANGED <<wal_vars, seg_vars, bloom_filter, mem_vars, up, now, history>>

BloomWritten ==
    /\ up = "up" /\ pc.at = "bloom"
    /\ bloom_filter' = bloom
    /\ pc' = Idle
    /\ UNCHANGED <<wal_vars, seg_vars, index_snap, snap_after_power, mem_vars,
                   up, now, history>>

----------------------------------------------------------------------------
(* Losing the process *)

\* The process is gone, and with it the fields of BlobStore.  The key of the
\* operation that was cut off, if any, is in w or in pc.
StoreGone(w) ==
    /\ index' = EmptyIndex
    /\ bloom' = {}
    /\ current_segment' = 0
    /\ current_offset' = 0
    /\ pc' = Idle
    /\ up' = "down"
    /\ session' = {}
    /\ unsure' = unsure \cup {w[i].op.key : i \in 1..Len(w)}
                        \cup (IF pc.at \in {"put", "delete"} THEN {pc.key} ELSE {})
    /\ UNCHANGED <<now, last, deadline, written>>

\* BlobStore is dropped between two operations.
Close ==
    /\ up = "up" /\ pc = Idle
    /\ W!Close
    /\ StoreGone(<< >>)
    /\ UNCHANGED <<seg_vars, snap_vars>>

\* A WAL append can only be cut off where no later step of an operation runs.
InFlight == IF up = "up" /\ pc = Idle THEN W!InFlight ELSE {<< >>}

\* A segment file with all that the put in progress may have written to it.
Writing(s) ==
    IF up = "up" /\ pc.at = "put" /\ ~PastLimit /\ s = TargetSegment
    THEN WrittenSegment ELSE segs[s]

\* What can be left of a segment file when at least lo cells are kept.
SegmentRemains(s, lo) ==
    LET f == Writing(s) IN
    {SubSeq(f, 1, n) : n \in lo..Len(f)}
        \cup {Append(SubSeq(f, 1, n), TornMagic) : n \in lo..(Len(f) - 1)}
        \cup {Append(SubSeq(f, 1, n), [f[n + 1] EXCEPT !.val = Bad]) :
                  n \in {m \in lo..(Len(f) - 1) : f[m + 1] # TornMagic}}

SegmentsRemain(lo) ==
    {g \in [Segment -> UNION {SegmentRemains(s, lo[s]) : s \in Segment}] :
        \A s \in Segment : g[s] \in SegmentRemains(s, lo[s])}

\* What can be in bloom.filter, whose writing may be cut off too.
BloomRemains ==
    IF pc.at = "bloom" THEN {bloom_filter, Bad, bloom} ELSE {bloom_filter}

\* The file of a segment is created before anything is written to it.
MayExist == created \cup {s \in Segment : Writing(s) # segs[s]}
NonEmpty(g) == {s \in Segment : g[s] # << >>}

\* The process is killed.
Kill(w) ==
    /\ "kill" \in Failures /\ up = "up"
    /\ W!Kill(w)
    /\ segs' \in SegmentsRemain([s \in Segment |-> Len(segs[s])])
    /\ created' \in {created \cup NonEmpty(segs'), MayExist}
    /\ bloom_filter' \in BloomRemains
    /\ StoreGone(w)
    /\ UNCHANGED <<synced, index_snap, snap_after_power>>

\* The machine loses power.
PowerFailure(w) ==
    /\ "power" \in Failures
    /\ W!PowerFailure(w)
    /\ segs' \in SegmentsRemain(synced)
    /\ created' \in {c \in SUBSET MayExist : NonEmpty(segs') \subseteq c}
    /\ synced' = [s \in Segment |-> Len(segs'[s])]
    /\ index_snap' \in snap_after_power
    /\ snap_after_power' = {index_snap'}
    /\ bloom_filter' \in BloomRemains
    /\ StoreGone(w)

----------------------------------------------------------------------------
(* open *)

\* Number of records before the first damaged one.
IntactLen(f) ==
    CHOOSE n \in 0..Len(f) :
        /\ \A i \in 1..n : f[i] # TornMagic /\ f[i].val # Bad
        /\ n < Len(f) => f[n + 1] = TornMagic \/ f[n + 1].val = Bad

\* How many records scan_segment indexes, or Bad when it returns an error.  It
\* stops at bytes that are not a magic number and fails at the end of the file in
\* the middle of a record.  When data follows the damaged record, its length
\* fields make the scan skip over some of that data: past the end of the file,
\* an error, or to a place where it finds no magic number, and then the damaged
\* record, whose checksum is not verified, is indexed (if its key was complete).
ScanStops(f) ==
    LET n == IntactLen(f) IN
    IF n = Len(f) \/ f[n + 1] = TornMagic THEN {n}
    ELSE IF n + 1 = Len(f) THEN {Bad}
    ELSE {Bad, n, n + 1}

Scans == {stop \in [Segment -> 0..MaxLog \cup {Bad}] :
             \A s \in Segment : stop[s] \in ScanStops(segs[s])}

\* The orders in which read_dir may list the segment files.
DirOrders == {o \in [Segment -> Segment] : \A s, t \in Segment : o[s] = o[t] => s = t}

\* The records of key k that scan_segment indexes in segment s.
Found(stop, s, k) == {i \in 1..Len(segs[s]) : i <= stop[s] /\ segs[s][i].key = k}

\* The record that is inserted last stays in the index.
LastRecord(records) == CHOOSE i \in records : \A j \in records : j <= i

\* Faulty variant: the offset is advanced before the record is inserted.
record_offset_after(i) == i

\* scan_segment's offset when it inserts the i-th record.
record_offset(i) == i - 1

\* rebuild_index_from_segments: the segment scanned last wins; records do not
\* hold the expiry.
Rebuilt(stop, order) ==
    LET In(k) == {s \in Segment : Found(stop, s, k) # {}}
        Winner(k) == CHOOSE s \in In(k) : \A t \in In(k) : order[t] <= order[s]
    IN [k \in Key |->
           IF In(k) = {} THEN None
           ELSE [shard |-> Winner(k), offset |-> record_offset(LastRecord(Found(stop, Winner(k), k))),
                 expires_at |-> None]]

\* The keys of the log entries of a kind that Wal::replay reads.
Logged(kind) == {e.op.key : e \in {x \in W!Replayed(file) : x.op.kind = kind}}

\* The loaded snapshot after the replay of the log: Delete entries are applied,
\* Put entries are not.
Reloaded == [k \in Key |-> IF k \in Logged("delete") THEN None ELSE index_snap[k]]

KeysOf(idx) == {k \in Key : idx[k] # None}

\* The Bloom filter after the replay of the log.
ReloadedBloom == (IF bloom_filter \in {None, Bad} THEN {} ELSE bloom_filter) \cup Logged("put")

\* Faulty variant: the keys of the index are not added.
OpenedBloomFromLog(idx) == ReloadedBloom

\* The keys of the index, loaded or rebuilt, are added to the Bloom filter.
OpenedBloom(idx) == ReloadedBloom \cup KeysOf(idx)

\* Faulty variant: the first segment instead of the last one.
find_first_position ==
    IF created = {} THEN 0 ELSE CHOOSE s \in created : \A t \in created : s <= t

\* find_current_position: the segment with the largest number, and its length.
find_current_position ==
    IF created = {} THEN 0 ELSE CHOOSE s \in created : \A t \in created : t <= s

Opened(idx) ==
    /\ W!Open
    /\ index' = idx
    /\ bloom' = OpenedBloom(idx)
    /\ current_segment' = find_current_position
    /\ current_offset' = Len(segs[find_current_position])
    /\ up' = "up"
    /\ UNCHANGED <<seg_vars, snap_vars, pc, now, history>>

\* open() returns an error.
Refused ==
    /\ up' = "refused"
    /\ UNCHANGED <<wal_vars, seg_vars, snap_vars, mem_vars, pc, now, history>>

OpenSnapshot == up # "up" /\ index_snap \notin {None, Bad} /\ Opened(Reloaded)

OpenRebuild ==
    /\ up # "up" /\ index_snap = None
    /\ \E stop \in Scans :
        /\ \A s \in Segment : stop[s] # Bad
        /\ \E order \in DirOrders : Opened(Rebuilt(stop, order))

OpenFails ==
    /\ up # "up"
    /\ \/ index_snap = Bad
       \/ index_snap = None /\ \E stop \in Scans : \E s \in Segment : stop[s] = Bad
    /\ Refused

----------------------------------------------------------------------------

Tick ==
    /\ now < MaxNow
    /\ now' = now + 1
    /\ UNCHANGED <<wal_vars, seg_vars, snap_vars, mem_vars, pc, up, history>>

Init ==
    /\ W!Init
    /\ segs = [s \in Segment |-> << >>]
    /\ created = {}
    /\ synced = [s \in Segment |-> 0]
    /\ index_snap = None
    /\ snap_after_power = {None}
    /\ bloom_filter = None
    /\ index = EmptyIndex
    /\ bloom = {}
    /\ current_segment = 0
    /\ current_offset = 0
    /\ pc = Idle
    /\ up = "down"
    /\ now = 0
    /\ last = [k \in Key |-> None]
    /\ deadline = [k \in Key |-> None]
    /\ written = [k \in Key |-> {}]
    /\ session = {}
    /\ unsure = {}

Next ==
    \/ \E k \in Key, v \in Val, ttl \in TTL \cup {None} : PutLogged(k, v, ttl)
    \/ PutFails
    \/ PutStored
    \/ \E k \in Key : DeleteLogged(k)
    \/ DeleteIndexed
    \/ CleanupExpired
    \/ Compact
    \/ SnapshotCreated
    \/ SnapshotWritten
    \/ BloomWritten
    \/ Close
    \/ \E w \in InFlight : Kill(w)
    \/ \E w \in InFlight : PowerFailure(w)
    \/ OpenSnapshot
    \/ OpenRebuild
    \/ OpenFails
    \/ Tick

Spec == Init /\ [][Next]_vars

----------------------------------------------------------------------------
(* Properties *)

\* The variables have their types.
TypeOK ==
    /\ W!TypeOK
    /\ segs \in [Segment -> Seq(BlobCell)]
    /\ created \in SUBSET Segment
    /\ synced \in [Segment -> Nat]
    /\ index_snap \in IndexMap \cup {None, Bad}
    /\ snap_after_power \in SUBSET (IndexMap \cup {None, Bad})
    /\ bloom_filter \in {None, Bad} \/ bloom_filter \in SUBSET Key
    /\ index \in IndexMap
    /\ bloom \in SUBSET Key
    /\ current_segment \in Segment
    /\ current_offset \in Nat
    /\ pc \in {Idle} \cup [at : {"put"}, key : Key, val : Val, ttl : TTL \cup {None}]
                     \cup [at : {"delete"}, key : Key] \cup [at : {"snapshot", "bloom"}]
    /\ up \in {"up", "down", "refused"}
    /\ now \in Nat
    /\ last \in [Key -> Val \cup {None}]
    /\ deadline \in [Key -> Nat \cup {None}]
    /\ written \in [Key -> SUBSET Val]
    /\ session \in SUBSET Key
    /\ unsure \in SUBSET Key

\* A location leads to a complete record of the key it is stored under.
SoundAt(k, loc) ==
    /\ loc.shard \in created
    /\ loc.offset < Len(segs[loc.shard])
    /\ segs[loc.shard][loc.offset + 1] # TornMagic
    /\ segs[loc.shard][loc.offset + 1].key = k
    /\ segs[loc.shard][loc.offset + 1].val \in written[k]

\* Every entry of the index, and of every index that index.snap may hold after
\* the next failure, leads to a complete record of its own key.  read_blob relies
\* on it: it does not compare the key it finds.
IndexSound ==
    \A idx \in {index, index_snap} \cup snap_after_power :
        idx \notin {None, Bad} =>
            \A k \in Key : idx[k] # None => SoundAt(k, idx[k])

\* get() consults the Bloom filter first, so every key of the index must be in
\* it, also after bloom.filter was lost, stale or damaged.
BloomCoversIndex == KeysOf(index) \subseteq bloom

\* The next blob goes to the end of the last segment: no record is overwritten
\* and no gap is left, also after find_current_position and a failed roll-over.
AppendOnly ==
    up = "up" =>
        /\ current_offset = Len(segs[current_segment])
        /\ \A s \in Segment : s > current_segment => segs[s] = << >>

\* What the acknowledged operations make get() return.
Expected(k) == IF deadline[k] # None /\ now > deadline[k] THEN None ELSE last[k]

\* get() of a key that was put or deleted since open() returns what the last
\* such operation and the clock make of it, whatever other puts, roll-overs,
\* failed puts, cleanups and snapshots happened in between.
ReadYourWrites ==
    up = "up" =>
        \A k \in session : (pc.at \in {"put", "delete"} => pc.key # k) => Get(k) = Expected(k)

\* After any number of crashes, get() finds every acknowledged put without TTL,
\* as long as there is no snapshot, the blobs fit one segment and no record of it
\* is damaged: the conditions under which rebuild_index_from_segments alone gives
\* back what was acknowledged.  A delete of the key before the put, which is still
\* in the log, does not take the put back.
RecoversPuts ==
    (up = "up" /\ index_snap = None /\ IntactLen(segs[0]) = Len(segs[0])
        /\ \A s \in Segment : s > 0 => segs[s] = << >>) =>
            \A k \in Key \ unsure :
                (last[k] # None /\ deadline[k] = None /\ (pc.at = "put" => pc.key # k)) =>
                    Get(k) = last[k]

\* The contents of the index, seen as a map from keys to values, implement
\* VolumeMap.
IndexedValue(k) == IF k \notin bloom \/ index[k] = None THEN None ELSE read_blob(index[k])
IndexedExpiry(k) == IF index[k] = None THEN None ELSE index[k].expires_at

Map == INSTANCE VolumeMap WITH
    online <- up = "up",
    value <- [k \in Key |-> IndexedValue(k)],
    expiry <- [k \in Key |-> IndexedExpiry(k)],
    requested <- written

\* BlobStore implements VolumeMap: no step of it, a crash and a reopening
\* included, makes a key show a value that was not put under it, and while the
\* store is up only put, delete and cleanup_expired change what a key shows.
ImplementsVolumeMap == Map!Spec

----------------------------------------------------------------------------
(* What the repository says of the store and the code does not do *)

\* "On recovery, the log is replayed to restore the latest state": between two
\* operations, get() returns what the last acknowledged operation made of the key.
\* Keys with a deadline, which a rebuild forgets, and keys whose operation was
\* cut off are left out.
RestoresLatestState ==
    (up = "up" /\ pc = Idle) =>
        \A k \in Key \ unsure : deadline[k] = None => Get(k) = last[k]
============================================================================
