---------------------------- MODULE WalPromise ----------------------------
(***************************************************************************)
(* What the write-ahead log promises about the entries it acknowledged.    *)
(* The module adds history variables to Wal: they record, per policy, the  *)
(* entries that a caller may rely on, and are never read by the log.       *)
(***************************************************************************)
EXTENDS Wal

VARIABLES
    session,   \* entries acknowledged since the log was opened or truncated
    handed,    \* acknowledged entries that must survive a killed process
    promised   \* acknowledged entries that must survive a power failure

history == <<session, handed, promised>>
pvars == <<vars, history>>

\* An append is acknowledged.  Always promises that it is on disk and Interval
\* that the operating system has it, as long as no torn cell precedes it.
PAppend(op) ==
    LET e == NextEntry(op) IN
    /\ AppendEntry(op)
    /\ session' = session \cup {e}
    /\ handed' = handed \cup {x \in {e} : sync_policy # "Never" /\ Clean(file)}
    /\ promised' = promised \cup {x \in {e} : sync_policy = "Always" /\ Clean(file)}

\* A successful sync() promises everything this session appended.
PSync ==
    /\ Sync
    /\ handed' = handed \cup {x \in session : Clean(file)}
    /\ promised' = promised \cup {x \in session : Clean(file)}
    /\ UNCHANGED session

PTruncate ==
    /\ Truncate
    /\ session' = {} /\ handed' = {} /\ promised' = {}

\* An orderly shutdown hands the buffered entries to the operating system.
PClose ==
    /\ Close
    /\ session' = {}
    /\ handed' = handed \cup {x \in session : Clean(file)}
    /\ UNCHANGED promised

PKill ==
    /\ \E w \in InFlight : Kill(w)
    /\ session' = {}
    /\ UNCHANGED <<handed, promised>>

PPowerFailure ==
    /\ \E w \in InFlight : PowerFailure(w)
    /\ session' = {}
    /\ handed' = promised
    /\ UNCHANGED promised

POpen == Open /\ UNCHANGED history

PInit ==
    /\ Init
    /\ session = {} /\ handed = {} /\ promised = {}

PNext ==
    \/ \E op \in Op : PAppend(op)
    \/ PSync
    \/ PTruncate
    \/ PClose
    \/ PKill
    \/ PPowerFailure
    \/ POpen

PSpec == PInit /\ [][PNext]_pvars

----------------------------------------------------------------------------
(* Properties *)

\* An entry that was acknowledged under Always, or before a successful sync(),
\* while the log held no torn cell, is replayed after every later crash,
\* power failure, reopening and append, until the log is truncated.
SyncedSurvives == promised \subseteq Replayed(file)

\* An entry acknowledged under Interval is replayed after every later kill of
\* the process (maybe_sync flushes it), as long as the power does not fail.
FlushedSurvives == handed \subseteq Replayed(file)
============================================================================
