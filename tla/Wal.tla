------------------------------- MODULE Wal -------------------------------
(***************************************************************************)
(* The write-ahead log of a volume (struct Wal).                           *)
(*                                                                         *)
(* The log file is a sequence of cells.  A cell is a complete entry (its   *)
(* checksum matches) or Torn: the bytes of an entry that was being written *)
(* when the machine or the process died.  Lengths, keys, values and the    *)
(* CRC are abstracted to that distinction, which is all that               *)
(* read_entry_internal reports to its callers.                             *)
(*                                                                         *)
(* Three copies of the log exist: the BufWriter in the process (buffer),   *)
(* the file as the operating system shows it (file) and the content the    *)
(* disk is known to hold (durable).  A killed process loses the first one; *)
(* a power failure also loses what is only in the second one.              *)
(***************************************************************************)
EXTENDS Naturals, Sequences

CONSTANTS
    Op,       \* the operations that are logged: WalOp::Put and WalOp::Delete of some key
    Torn,     \* a partially written entry
    Policies, \* the WalSyncPolicy values the log may be opened with
    MaxLog    \* bound: cells the log may hold

ASSUME PolicyAssumption == Policies \subseteq {"Always", "Interval", "Never"}
ASSUME MaxLogAssumption == MaxLog \in Nat

Entry == [sequence : Nat, op : Op]
Cell == Entry \cup {Torn}

ASSUME TornAssumption == Torn \notin Entry

VARIABLES
    status,         \* "open", or "closed" once the process is gone
    sync_policy,    \* Wal::sync_policy, "none" when closed
    buffer,         \* Wal::writer, the entries still in the BufWriter
    file,           \* wal.log as the operating system shows it
    durable,        \* wal.log as of the last fsync or boot
    cut,            \* wal.log was truncated after the last fsync
    next_sequence   \* Wal::next_sequence

disk == <<file, durable, cut>>
vars == <<status, sync_policy, buffer, disk, next_sequence>>

----------------------------------------------------------------------------
(* Reading the log *)

\* Number of cells before the first one that read_entry_internal rejects.
ReadableLen(f) ==
    CHOOSE n \in 0..Len(f) :
        /\ \A i \in 1..n : f[i] # Torn
        /\ n < Len(f) => f[n + 1] = Torn

\* The entries Wal::replay hands to its callback.
Replayed(f) == {f[i] : i \in 1..ReadableLen(f)}

Clean(f) == \A i \in 1..Len(f) : f[i] # Torn

\* Faulty variant: resume at the last sequence number instead of after it.
find_last_sequence_no_increment(f) ==
    IF ReadableLen(f) = 0 THEN 0
    ELSE CHOOSE m \in {e.sequence : e \in Replayed(f)} : \A e \in Replayed(f) : e.sequence <= m

\* One past the largest sequence number among the readable entries, 0 when there is none.
find_last_sequence(f) ==
    IF ReadableLen(f) = 0 THEN 0
    ELSE 1 + CHOOSE m \in {e.sequence : e \in Replayed(f)} : \A e \in Replayed(f) : e.sequence <= m

----------------------------------------------------------------------------
(* Operations of an open log *)

\* flush(): the BufWriter's content reaches the file.
Flush(pending) ==
    /\ file' = file \o pending
    /\ buffer' = << >>
    /\ UNCHANGED <<durable, cut>>

\* flush() and sync_all().
FlushAndFsync(pending) ==
    /\ file' = file \o pending
    /\ buffer' = << >>
    /\ durable' = file'
    /\ cut' = FALSE

\* Faulty variant: the flush is taken for an fsync.
maybe_sync_without_fsync(pending) ==
    \/ sync_policy # "Never" /\ Flush(pending)
    \/ sync_policy = "Never" /\ buffer' = pending /\ UNCHANGED disk

\* Faulty variant: only Always empties the BufWriter.
maybe_sync_interval_buffered(pending) ==
    \/ sync_policy = "Always" /\ FlushAndFsync(pending)
    \/ sync_policy # "Always" /\ buffer' = pending /\ UNCHANGED disk

maybe_sync(pending) ==
    \/ sync_policy = "Always" /\ FlushAndFsync(pending)
    \/ sync_policy = "Interval" /\ Flush(pending)
    \/ sync_policy = "Never" /\ buffer' = pending /\ UNCHANGED disk

HasRoom == Len(file) + Len(buffer) < MaxLog

NextEntry(op) == [sequence |-> next_sequence, op |-> op]

\* append_put and append_delete: the sequence number is taken, the entry is
\* written to the BufWriter and maybe_sync decides how far it goes.
AppendEntry(op) ==
    /\ status = "open"
    /\ HasRoom
    /\ next_sequence' = next_sequence + 1
    /\ maybe_sync(Append(buffer, NextEntry(op)))
    /\ UNCHANGED <<status, sync_policy>>

\* Wal::sync.
Sync ==
    /\ status = "open"
    /\ FlushAndFsync(buffer)
    /\ UNCHANGED <<status, sync_policy, next_sequence>>

\* Wal::truncate: flush, reopen with truncation, restart the sequence at 0.
\* The truncation itself is not fsynced.
Truncate ==
    /\ status = "open"
    /\ file' = << >>
    /\ buffer' = << >>
    /\ cut' = (cut \/ durable # << >>)
    /\ next_sequence' = 0
    /\ UNCHANGED <<status, sync_policy, durable>>

----------------------------------------------------------------------------
(* Losing and reopening the log *)

\* The process is gone, and with it the fields of Wal.
Gone ==
    /\ status' = "closed"
    /\ sync_policy' = "none"
    /\ buffer' = << >>
    /\ next_sequence' = 0

\* Faulty variant: the BufWriter is leaked instead of dropped.
CloseLeaksBuffer ==
    /\ status = "open"
    /\ status' = "closed"
    /\ sync_policy' = "none"
    /\ next_sequence' = 0
    /\ UNCHANGED <<buffer, disk>>

\* Dropping the Wal: the BufWriter flushes what it holds.
Close ==
    /\ status = "open"
    /\ file' = file \o buffer
    /\ Gone
    /\ UNCHANGED <<durable, cut>>

\* What can be left of the bytes f when at least the first lo cells are kept:
\* a prefix, possibly followed by a part of the next cell.
Remains(f, lo) ==
    {SubSeq(f, 1, n) : n \in lo..Len(f)}
        \cup {Append(SubSeq(f, 1, n), Torn) : n \in lo..(Len(f) - 1)}

\* The entry whose append may be running when the process dies, or none.
InFlight ==
    {<< >>} \cup {<<NextEntry(op)>> : op \in {o \in Op : status = "open" /\ HasRoom}}

\* The process is killed while it appends w.  What the operating system holds is
\* kept; the BufWriter may have spilled a part of its content.
Kill(w) ==
    /\ status = "open"
    /\ file' \in Remains(file \o buffer \o w, Len(file))
    /\ Gone
    /\ UNCHANGED <<durable, cut>>

\* The machine loses power while w is appended.  An unsynced truncation may be
\* undone.
PowerFailure(w) ==
    /\ \/ file' \in Remains(file \o buffer \o w, IF cut THEN 0 ELSE Len(durable))
       \/ cut /\ file' = durable
    /\ durable' = file'
    /\ cut' = FALSE
    /\ Gone

\* Wal::open: append after whatever the file holds.
Open ==
    /\ status = "closed"
    /\ status' = "open"
    /\ sync_policy' \in Policies
    /\ next_sequence' = find_last_sequence(file)
    /\ UNCHANGED <<buffer, disk>>

----------------------------------------------------------------------------

Init ==
    /\ status = "closed"
    /\ sync_policy = "none"
    /\ buffer = << >>
    /\ file = << >>
    /\ durable = << >>
    /\ cut = FALSE
    /\ next_sequence = 0

Next ==
    \/ \E op \in Op : AppendEntry(op)
    \/ Sync
    \/ Truncate
    \/ Close
    \/ \E w \in InFlight : Kill(w)
    \/ \E w \in InFlight : PowerFailure(w)
    \/ Open

Spec == Init /\ [][Next]_vars

----------------------------------------------------------------------------
(* Properties *)

\* The variables have their types; a closed log has nothing buffered.
TypeOK ==
    /\ status \in {"open", "closed"}
    /\ sync_policy \in (IF status = "open" THEN Policies ELSE {"none"})
    /\ buffer \in Seq(Entry)
    /\ file \in Seq(Cell)
    /\ durable \in Seq(Cell)
    /\ cut \in BOOLEAN
    /\ next_sequence \in Nat
    /\ status = "closed" => buffer = << >>

\* The entries that replay returns are numbered 0, 1, 2, ... without a gap or a
\* repetition, whatever was lost, reopened or truncated before
\* (find_last_sequence and truncate agree with append on the numbering).
SequencesConsecutive ==
    \A i \in 1..ReadableLen(file) : file[i].sequence = i - 1
============================================================================
