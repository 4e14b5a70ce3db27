---------------------------- MODULE LockOrder ----------------------------
(***************************************************************************)
(* The order in which the methods of the coordinator's shared objects take *)
(* their locks: the Mutexes of RaftNode, the RwLocks of QuotaManager and   *)
(* those of KeyStore.                                                      *)
(*                                                                         *)
(* A method is the sequence of its lock operations; what it does in        *)
(* between is left out.  A guard is released where Rust drops it: at the   *)
(* end of the statement for a temporary, of the block for a variable.  A   *)
(* writer that waits for a RwLock keeps new readers out, as the standard   *)
(* library does on Linux.  A thread runs one method of one object.         *)
(***************************************************************************)
EXTENDS Naturals, Sequences, FiniteSets

CONSTANTS
    Thread,     \* threads that call methods at the same time
    Fresh       \* a thread that has not called anything yet

Lock(l) == [do |-> "lock", lock |-> l]       \* Mutex::lock, RwLock::write
Read(l) == [do |-> "read", lock |-> l]       \* RwLock::read
Unlock(l) == [do |-> "unlock", lock |-> l]   \* the guard is dropped

\* A guard that lives for one statement.
Brief(l) == <<Lock(l), Unlock(l)>>
BriefRead(l) == <<Read(l), Unlock(l)>>

\* Two locks, the second one taken under the first one.
Nested(a, b) == <<Lock(a), Lock(b), Unlock(b), Unlock(a)>>

----------------------------------------------------------------------------
(* RaftNode *)

recover == Brief("snapshot") \o Brief("log") \o Nested("last_applied", "commit_index")

save_snapshot == Brief("snapshot")

apply_snapshot ==
    Brief("snapshot") \o
    <<Lock("log"), Lock("commit_index"), Lock("last_applied"), Lock("term"),
      Unlock("term"), Unlock("last_applied"), Unlock("commit_index"), Unlock("log")>>

send_heartbeats == Brief("peers") \o Brief("term") \o Brief("log")

handle_request_vote == Nested("term", "voted_for")

append_rejected == Nested("term", "log")

append_accepted ==
    <<Lock("term"), Lock("log"), Lock("commit_index"),
      Unlock("commit_index"), Unlock("log"), Unlock("term")>>

start_election ==
    <<Lock("term")>> \o Brief("role") \o Brief("voted_for") \o Brief("leader_id") \o <<Unlock("term")>>

become_leader == Brief("role") \o Brief("leader_id")

step_down == Brief("role") \o Brief("term") \o Brief("leader_id") \o Brief("voted_for")

\* Faulty variant: the vote is locked before the term.
grant_vote_reversed == Nested("voted_for", "term")

grant_vote == Nested("term", "voted_for")

replicate ==
    Brief("role") \o Nested("log", "term") \o Brief("peers") \o Nested("commit_index", "last_applied")

Method(name, locks) == [name |-> name, locks |-> locks]

RaftMethods ==
    {Method("recover", recover), Method("save_snapshot", save_snapshot),
     Method("apply_snapshot", apply_snapshot), Method("send_heartbeats", send_heartbeats),
     Method("handle_request_vote", handle_request_vote),
     Method("handle_append_entries", append_rejected),
     Method("handle_append_entries", append_accepted),
     Method("start_election", start_election), Method("become_leader", become_leader),
     Method("step_down", step_down), Method("grant_vote", grant_vote),
     Method("replicate", replicate)}

----------------------------------------------------------------------------
(* QuotaManager *)

\* check_storage and check_objects.
check_limits == <<Read("quotas"), Read("usage"), Unlock("usage"), Unlock("quotas")>>

check_and_record_request == <<Read("quotas"), Lock("usage"), Unlock("usage"), Unlock("quotas")>>

\* record_storage_add and record_storage_remove.
record_storage == Brief("usage")

\* set_quota and remove_quota.
set_quota == Brief("quotas")

\* get_quota and list_quotas, get_usage, and a check for a disabled tenant.
get_quota == BriefRead("quotas")
get_usage == BriefRead("usage")

to_prometheus == <<Read("usage"), Read("quotas"), Unlock("quotas"), Unlock("usage")>>

QuotaMethods ==
    {Method("check_limits", check_limits),
     Method("check_and_record_request", check_and_record_request),
     Method("record_storage", record_storage), Method("set_quota", set_quota),
     Method("get_quota", get_quota), Method("get_usage", get_usage),
     Method("to_prometheus", to_prometheus)}

----------------------------------------------------------------------------
(* KeyStore *)

generate_key == Brief("keys") \o Brief("hash_to_id")

\* validate_key, get_key, list_keys, list_keys_for_tenant.
validate_key == BriefRead("keys")

\* revoke_key and touch_key.
revoke_key == Brief("keys")

delete_key == Nested("keys", "hash_to_id")

KeyMethods ==
    {Method("generate_key", generate_key), Method("validate_key", validate_key),
     Method("revoke_key", revoke_key), Method("delete_key", delete_key)}

----------------------------------------------------------------------------
(* Threads *)

VARIABLES
    methods,    \* the methods of the object that the threads share
    running,    \* the method of each thread
    at,         \* number of lock operations the thread has done
    waiting     \* the thread waits for a write lock, in the queue of the lock

lockVars == <<methods, running, at, waiting>>

LockInit ==
    /\ methods \in {RaftMethods, QuotaMethods, KeyMethods}
    /\ running = [t \in Thread |-> Fresh]
    /\ at = [t \in Thread |-> 0]
    /\ waiting = [t \in Thread |-> FALSE]

InMethod(t) == running[t] # Fresh /\ at[t] < Len(running[t].locks)
NextOp(t) == running[t].locks[at[t] + 1]

\* Thread t has a guard of lock l, obtained by one of these operations.
Holds(t, l, ops) ==
    /\ running[t] # Fresh
    /\ \E i \in 1..at[t] :
          /\ running[t].locks[i].lock = l
          /\ running[t].locks[i].do \in ops
          /\ \A j \in (i + 1)..at[t] : running[t].locks[j].lock # l

QueuedFor(t, l) == waiting[t] /\ NextOp(t).lock = l

\* The threads that keep t from doing its next lock operation.
Blockers(t) ==
    LET l == NextOp(t).lock IN
    CASE ~InMethod(t) -> {}
      [] InMethod(t) /\ NextOp(t).do = "lock" ->
            {u \in Thread \ {t} : Holds(u, l, {"lock", "read"})}
      [] InMethod(t) /\ NextOp(t).do = "read" ->
            {u \in Thread \ {t} : Holds(u, l, {"lock"}) \/ QueuedFor(u, l)}
      [] OTHER -> {}

Call(t) ==
    /\ running[t] = Fresh
    /\ running' \in {[running EXCEPT ![t] = m] : m \in methods}
    /\ UNCHANGED <<methods, at, waiting>>

\* The next lock is taken or a guard is dropped.
Step(t) ==
    /\ InMethod(t)
    /\ Blockers(t) = {}
    /\ at' = [at EXCEPT ![t] = @ + 1]
    /\ waiting' = [waiting EXCEPT ![t] = FALSE]
    /\ UNCHANGED <<methods, running>>

\* A writer joins the queue of a lock that is taken.
Queue(t) ==
    /\ InMethod(t)
    /\ NextOp(t).do = "lock"
    /\ Blockers(t) # {}
    /\ ~waiting[t]
    /\ waiting' = [waiting EXCEPT ![t] = TRUE]
    /\ UNCHANGED <<methods, running, at>>

LockNext == \E t \in Thread : Call(t) \/ Step(t) \/ Queue(t)

LockSpec == LockInit /\ [][LockNext]_lockVars

----------------------------------------------------------------------------
(* Properties *)

\* A set of threads that wait for one another in a circle.
Deadlocked(threads) == threads # {} /\ \A t \in threads : Blockers(t) \cap threads # {}

\* The combinations of methods that can wait for one another for ever: the log
\* is locked before the term by replicate and apply_snapshot and behind it by
\* handle_append_entries, the commit index before the applied index by replicate
\* and apply_snapshot and behind it by recover; to_prometheus reads usage before
\* quotas and the checks read quotas first, which blocks once writers queue up.
KnownDeadlocks ==
    {{"replicate", "handle_append_entries"}, {"apply_snapshot", "handle_append_entries"},
     {"replicate", "recover"}, {"apply_snapshot", "recover"},
     {"to_prometheus", "set_quota", "check_and_record_request"},
     {"to_prometheus", "set_quota", "check_limits", "record_storage"}}

\* Threads never wait for one another in a circle unless the methods of one of
\* the known combinations are among them.  None of these combinations runs in
\* the coordinator: it never calls replicate, recover, apply_snapshot or
\* handle_append_entries, nor to_prometheus of the quotas, so that its Raft task,
\* its HTTP handlers and its key store never block one another for good.
DeadlocksAreKnown ==
    \A threads \in SUBSET Thread :
        Deadlocked(threads) =>
            \E combination \in KnownDeadlocks :
                combination \subseteq {running[t].name : t \in threads}
============================================================================
