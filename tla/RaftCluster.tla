--------------------------- MODULE RaftCluster ---------------------------
(***************************************************************************)
(* A cluster of RaftNodes: leader election, heartbeats and replicate().    *)
(*                                                                         *)
(* Each node runs one background task (start_raft_tasks) and any number of *)
(* replicate() calls.  They interleave at every await, that is at every    *)
(* RPC, and with the RPC handlers.  A method that holds its locks          *)
(* throughout is one step; step_down, which takes one lock after another,  *)
(* is two, because a vote can be granted between them.                     *)
(*                                                                         *)
(* Transport says who answers an RPC: "direct" is the RaftNode of the peer *)
(* (how the repository's tests connect nodes), "grpc" is CoordGrpcService  *)
(* (what the coordinator binary serves).  The binary never fills in the    *)
(* peer list: that is the instance with Peers[n] = {} for every n.         *)
(***************************************************************************)
EXTENDS Naturals, Sequences, FiniteSets

CONSTANTS
    Node, None,
    Peers,        \* RaftNode::peers of each node
    Transport,    \* "direct" or "grpc"
    Call,         \* replicate() calls, each with its own data
    MaxTerm,      \* bound: terms for which an election is started
    MaxRestarts,  \* bound: process restarts
    MaxLate       \* bound: requests that are on the way after their caller gave up

ASSUME NodeAssumption == IsFiniteSet(Node) /\ None \notin Node
ASSUME PeersAssumption == Peers \in [Node -> SUBSET Node] /\ \A n \in Node : n \notin Peers[n]
ASSUME TransportAssumption == Transport \in {"direct", "grpc"}
ASSUME BoundAssumption == MaxTerm \in Nat /\ MaxRestarts \in Nat /\ MaxLate \in Nat

VARIABLES
    role, term, voted_for, leader_id, log, commit_index, last_applied,  \* RaftNode
    task,      \* what the background task of each node is doing
    call,      \* the state of each replicate() call
    late,      \* requests delivered after their caller gave up on them
    restarts,
    granted,   \* history: <<voter, term, candidate>> of the votes that stand
    won,       \* history: <<node, term>> of the elections won
    forgetful  \* history: nodes that lost a vote or a term they had promised

vote_vars == <<term, voted_for>>
log_vars == <<log, commit_index, last_applied>>
history == <<granted, won, forgetful>>
vars == <<role, leader_id, vote_vars, log_vars, task, call, late, restarts, history>>

Entry == [term : Nat, index : Nat, data : Call]
Idle == [at |-> "idle"]

\* (peers.len() + 1).div_ceil(2)
majority(n) == (Cardinality(Peers[n]) + 2) \div 2

LastIndex(l) == IF l = << >> THEN 0 ELSE l[Len(l)].index

----------------------------------------------------------------------------
(* The RPC handlers *)

VoteRequest(n, p, t) == [kind |-> "vote", from |-> n, to |-> p, term |-> t]

\* Faulty variant: the previous index is decremented once more, also below 0.
AppendRequestBeforePrev(n, p, t, prev, entries, commit) ==
    [kind |-> "append", from |-> n, to |-> p, term |-> t,
     prev |-> prev - 1, entries |-> entries, commit |-> commit]

AppendRequest(n, p, t, prev, entries, commit) ==
    [kind |-> "append", from |-> n, to |-> p, term |-> t,
     prev |-> prev, entries |-> entries, commit |-> commit]

\* Faulty variant: who was voted for in this term is not looked at.
GrantsAnyVote(p, t, c) == t >= term[p]

\* Whether handle_request_vote of p grants its vote to c in term t.
GrantsVote(p, t, c) ==
    t > term[p] \/ (t = term[p] /\ voted_for[p] \in {None, c})

\* RaftNode::handle_request_vote.
handle_request_vote(m) ==
    LET p == m.to IN
    /\ term' = [term EXCEPT ![p] = IF m.term > @ THEN m.term ELSE @]
    /\ voted_for' = [voted_for EXCEPT ![p] = IF GrantsVote(p, m.term, m.from) THEN m.from ELSE @]
    /\ granted' = IF GrantsVote(p, m.term, m.from)
                  THEN granted \cup {<<p, m.term, m.from>>} ELSE granted
    /\ UNCHANGED log_vars

\* Whether handle_append_entries of p accepts the entries.
AcceptsEntries(p, m) == m.term >= term[p] /\ m.prev <= Len(log[p])

commit_bound(leader_commit, l) ==
    IF leader_commit <= LastIndex(l) THEN leader_commit ELSE LastIndex(l)

\* Faulty variant: the entries are acknowledged but not stored.
stored_entries_none(p, entries) == log[p]

\* The entries are pushed, whatever the log holds at their index.
stored_entries(p, entries) == log[p] \o entries

\* RaftNode::handle_append_entries.
handle_append_entries(m) ==
    LET p == m.to
        l == stored_entries(p, m.entries)
    IN
    /\ term' = [term EXCEPT ![p] = IF m.term > @ THEN m.term ELSE @]
    /\ IF AcceptsEntries(p, m)
       THEN /\ log' = [log EXCEPT ![p] = l]
            /\ commit_index' = [commit_index EXCEPT ![p] =
                                   IF m.commit > @ THEN commit_bound(m.commit, l) ELSE @]
       ELSE UNCHANGED <<log, commit_index>>
    /\ UNCHANGED <<voted_for, last_applied, granted>>

\* The request is handled at its destination.  CoordGrpcService keeps no state.
Handle(m) ==
    \/ Transport = "direct" /\ m.kind = "vote" /\ handle_request_vote(m)
    \/ Transport = "direct" /\ m.kind = "append" /\ handle_append_entries(m)
    \/ Transport = "grpc" /\ UNCHANGED <<vote_vars, log_vars, granted>>

\* vote_granted or success of the response.
Agrees(m) ==
    IF Transport = "grpc" THEN m.term >= 1
    ELSE IF m.kind = "vote" THEN GrantsVote(m.to, m.term, m.from)
    ELSE AcceptsEntries(m.to, m)

\* The RPC fails: the request is lost, or is still on the way.
Abandon(m) ==
    /\ late' \in {late} \cup (IF Cardinality(late) < MaxLate THEN {late \cup {m}} ELSE {})
    /\ UNCHANGED <<vote_vars, log_vars, granted>>

\* A request whose caller saw an error is handled after all.
DeliverLate(m) ==
    /\ m \in late
    /\ late' = late \ {m}
    /\ Handle(m)
    /\ UNCHANGED <<role, leader_id, task, call, restarts, won, forgetful>>

----------------------------------------------------------------------------
(* The background task: elections *)

\* Faulty variant: whether the node is leader is not looked at.
StartElectionAlways(n) ==
    /\ task[n] = Idle
    /\ term[n] < MaxTerm
    /\ term' = [term EXCEPT ![n] = @ + 1]
    /\ role' = [role EXCEPT ![n] = "candidate"]
    /\ voted_for' = [voted_for EXCEPT ![n] = n]
    /\ leader_id' = [leader_id EXCEPT ![n] = None]
    /\ task' = [task EXCEPT ![n] = [at |-> "election", term |-> term[n] + 1,
                                    todo |-> Peers[n], votes |-> {n}]]
    /\ granted' = granted \cup {<<n, term[n] + 1, n>>}
    /\ UNCHANGED <<log_vars, call, late, restarts, won, forgetful>>

\* start_raft_tasks finds that the node is no leader and the timeout has passed
\* (handle_append_entries does not reset the timer), and calls start_election.
StartElection(n) ==
    /\ task[n] = Idle /\ role[n] # "leader"
    /\ term[n] < MaxTerm
    /\ term' = [term EXCEPT ![n] = @ + 1]
    /\ role' = [role EXCEPT ![n] = "candidate"]
    /\ voted_for' = [voted_for EXCEPT ![n] = n]
    /\ leader_id' = [leader_id EXCEPT ![n] = None]
    /\ task' = [task EXCEPT ![n] = [at |-> "election", term |-> term[n] + 1,
                                    todo |-> Peers[n], votes |-> {n}]]
    /\ granted' = granted \cup {<<n, term[n] + 1, n>>}
    /\ UNCHANGED <<log_vars, call, late, restarts, won, forgetful>>

\* One iteration of the loop over the peers in start_election_and_collect_votes.
RequestVote(n, p) ==
    LET e == task[n]
        m == VoteRequest(n, p, e.term)
    IN
    /\ e.at = "election" /\ p \in e.todo
    /\ \/ /\ Handle(m)
          /\ task' = [task EXCEPT ![n].todo = @ \ {p},
                                  ![n].votes = IF Agrees(m) THEN @ \cup {p} ELSE @]
          /\ UNCHANGED late
       \/ /\ Abandon(m)
          /\ task' = [task EXCEPT ![n].todo = @ \ {p}]
    /\ UNCHANGED <<role, leader_id, call, restarts, won, forgetful>>

\* Faulty variant: exactly a majority is not enough to win.
WinElectionAboveMajority(n) ==
    /\ task[n].at = "election" /\ task[n].todo = {}
    /\ Cardinality(task[n].votes) > majority(n)
    /\ role' = [role EXCEPT ![n] = "leader"]
    /\ leader_id' = [leader_id EXCEPT ![n] = n]
    /\ task' = [task EXCEPT ![n] = Idle]
    /\ won' = won \cup {<<n, task[n].term>>}
    /\ UNCHANGED <<vote_vars, log_vars, call, late, restarts, granted, forgetful>>

\* A majority granted its vote: become_leader.  The term is not looked at again.
WinElection(n) ==
    /\ task[n].at = "election" /\ task[n].todo = {}
    /\ Cardinality(task[n].votes) >= majority(n)
    /\ role' = [role EXCEPT ![n] = "leader"]
    /\ leader_id' = [leader_id EXCEPT ![n] = n]
    /\ task' = [task EXCEPT ![n] = Idle]
    /\ won' = won \cup {<<n, task[n].term>>}
    /\ UNCHANGED <<vote_vars, log_vars, call, late, restarts, granted, forgetful>>

\* No majority: the first part of step_down(new_term, None), which sets the term
\* to that of the election even if the node has seen a later one.
LoseElection(n) ==
    /\ task[n].at = "election" /\ task[n].todo = {}
    /\ Cardinality(task[n].votes) < majority(n)
    /\ role' = [role EXCEPT ![n] = "follower"]
    /\ term' = [term EXCEPT ![n] = task[n].term]
    /\ leader_id' = [leader_id EXCEPT ![n] = None]
    /\ task' = [task EXCEPT ![n] = [at |-> "step_down", term |-> task[n].term]]
    /\ forgetful' = IF term[n] # task[n].term THEN forgetful \cup {n} ELSE forgetful
    /\ UNCHANGED <<voted_for, log_vars, call, late, restarts, granted, won>>

\* The last assignment of step_down clears the vote, which may meanwhile be a
\* vote for somebody else in a later term.
ForgetVote(n) ==
    /\ task[n].at = "step_down"
    /\ voted_for' = [voted_for EXCEPT ![n] = None]
    /\ task' = [task EXCEPT ![n] = Idle]
    /\ granted' = granted \ {<<n, task[n].term, n>>}
    /\ forgetful' = IF voted_for[n] # n THEN forgetful \cup {n} ELSE forgetful
    /\ UNCHANGED <<role, term, leader_id, log_vars, call, late, restarts, won>>

----------------------------------------------------------------------------
(* The background task: heartbeats *)

\* send_heartbeats: the commit index it announces is the last index of the log.
StartHeartbeats(n) ==
    /\ task[n] = Idle /\ role[n] = "leader"
    /\ task' = [task EXCEPT ![n] = [at |-> "heartbeat", term |-> term[n],
                                    prev |-> LastIndex(log[n]), todo |-> Peers[n]]]
    /\ UNCHANGED <<role, leader_id, vote_vars, log_vars, call, late, restarts, history>>

\* The response is ignored.
Heartbeat(n, p) ==
    LET h == task[n]
        m == AppendRequest(n, p, h.term, h.prev, << >>, h.prev)
    IN
    /\ h.at = "heartbeat" /\ p \in h.todo
    /\ (Handle(m) /\ UNCHANGED late) \/ Abandon(m)
    /\ task' = [task EXCEPT ![n].todo = @ \ {p}]
    /\ UNCHANGED <<role, leader_id, call, restarts, won, forgetful>>

EndHeartbeats(n) ==
    /\ task[n].at = "heartbeat" /\ task[n].todo = {}
    /\ task' = [task EXCEPT ![n] = Idle]
    /\ UNCHANGED <<role, leader_id, vote_vars, log_vars, call, late, restarts, history>>

----------------------------------------------------------------------------
(* replicate *)

\* NotLeader.
ReplicateRefused(n, c) ==
    /\ call[c].at = "new" /\ role[n] # "leader"
    /\ call' = [call EXCEPT ![c] = [at |-> "failed"]]
    /\ UNCHANGED <<role, leader_id, vote_vars, log_vars, task, late, restarts, history>>

\* The entry is appended to the own log.
Replicate(n, c) ==
    LET e == [term |-> term[n], index |-> LastIndex(log[n]) + 1, data |-> c] IN
    /\ call[c].at = "new" /\ role[n] = "leader"
    /\ log' = [log EXCEPT ![n] = Append(@, e)]
    /\ call' = [call EXCEPT ![c] = [at |-> "sending", node |-> n, entry |-> e,
                                    todo |-> Peers[n], acks |-> {n}]]
    /\ UNCHANGED <<role, leader_id, vote_vars, commit_index, last_applied, task, late,
                   restarts, history>>

\* One iteration of the loop over the peers.
ReplicateTo(c, p) ==
    LET r == call[c]
        m == AppendRequest(r.node, p, r.entry.term, r.entry.index - 1, <<r.entry>>, r.entry.index)
    IN
    /\ r.at = "sending" /\ p \in r.todo
    /\ \/ /\ Handle(m)
          /\ call' = [call EXCEPT ![c].todo = @ \ {p},
                                  ![c].acks = IF Agrees(m) THEN @ \cup {p} ELSE @]
          /\ UNCHANGED late
       \/ /\ Abandon(m)
          /\ call' = [call EXCEPT ![c].todo = @ \ {p}]
    /\ UNCHANGED <<role, leader_id, task, restarts, won, forgetful>>

\* Faulty variant: exactly a majority is not enough to commit.
ReplicateCommitsAboveMajority(c) ==
    LET r == call[c] IN
    /\ r.at = "sending" /\ r.todo = {}
    /\ Cardinality(r.acks) > majority(r.node)
    /\ commit_index' = [commit_index EXCEPT ![r.node] = r.entry.index]
    /\ last_applied' = [last_applied EXCEPT ![r.node] =
                           IF @ < r.entry.index THEN r.entry.index ELSE @]
    /\ call' = [call EXCEPT ![c].at = "ok"]
    /\ UNCHANGED <<role, leader_id, vote_vars, log, task, late, restarts, history>>

\* Faulty variant: the index after the entry is committed.
ReplicateCommitsNext(c) ==
    LET r == call[c] IN
    /\ r.at = "sending" /\ r.todo = {}
    /\ Cardinality(r.acks) >= majority(r.node)
    /\ commit_index' = [commit_index EXCEPT ![r.node] = r.entry.index + 1]
    /\ last_applied' = [last_applied EXCEPT ![r.node] =
                           IF @ < r.entry.index THEN r.entry.index ELSE @]
    /\ call' = [call EXCEPT ![c].at = "ok"]
    /\ UNCHANGED <<role, leader_id, vote_vars, log, task, late, restarts, history>>

\* A majority acknowledged the entry: it is committed and applied.
ReplicateCommits(c) ==
    LET r == call[c] IN
    /\ r.at = "sending" /\ r.todo = {}
    /\ Cardinality(r.acks) >= majority(r.node)
    /\ commit_index' = [commit_index EXCEPT ![r.node] = r.entry.index]
    /\ last_applied' = [last_applied EXCEPT ![r.node] =
                           IF @ < r.entry.index THEN r.entry.index ELSE @]
    /\ call' = [call EXCEPT ![c].at = "ok"]
    /\ UNCHANGED <<role, leader_id, vote_vars, log, task, late, restarts, history>>

\* No majority: the call fails, the entry stays in the logs it has reached.
ReplicateFails(c) ==
    LET r == call[c] IN
    /\ r.at = "sending" /\ r.todo = {}
    /\ Cardinality(r.acks) < majority(r.node)
    /\ call' = [call EXCEPT ![c] = [at |-> "failed"]]
    /\ UNCHANGED <<role, leader_id, vote_vars, log_vars, task, late, restarts, history>>

----------------------------------------------------------------------------
(* recover, restart *)

\* RaftNode::recover.
Recover(n) ==
    /\ last_applied' = [last_applied EXCEPT ![n] = commit_index[n]]
    /\ UNCHANGED <<role, leader_id, vote_vars, log, commit_index, task, call, late,
                   restarts, history>>

\* The process is restarted: RaftNode::new, nothing was persisted.
Restart(n) ==
    /\ restarts < MaxRestarts
    /\ restarts' = restarts + 1
    /\ role' = [role EXCEPT ![n] = "follower"]
    /\ term' = [term EXCEPT ![n] = 0]
    /\ voted_for' = [voted_for EXCEPT ![n] = None]
    /\ leader_id' = [leader_id EXCEPT ![n] = None]
    /\ log' = [log EXCEPT ![n] = << >>]
    /\ commit_index' = [commit_index EXCEPT ![n] = 0]
    /\ last_applied' = [last_applied EXCEPT ![n] = 0]
    /\ task' = [task EXCEPT ![n] = Idle]
    /\ call' = [c \in Call |-> IF call[c].at = "sending" /\ call[c].node = n
                               THEN [at |-> "failed"] ELSE call[c]]
    /\ forgetful' = forgetful \cup {n}
    /\ UNCHANGED <<late, granted, won>>

----------------------------------------------------------------------------

Init ==
    /\ role = [n \in Node |-> "follower"]
    /\ term = [n \in Node |-> 0]
    /\ voted_for = [n \in Node |-> None]
    /\ leader_id = [n \in Node |-> None]
    /\ log = [n \in Node |-> << >>]
    /\ commit_index = [n \in Node |-> 0]
    /\ last_applied = [n \in Node |-> 0]
    /\ task = [n \in Node |-> Idle]
    /\ call = [c \in Call |-> [at |-> "new"]]
    /\ late = {}
    /\ restarts = 0
    /\ granted = {}
    /\ won = {}
    /\ forgetful = {}

\* A step of the background task of n.
TaskStep(n) ==
    \/ StartElection(n)
    \/ \E p \in Node : RequestVote(n, p)
    \/ WinElection(n)
    \/ LoseElection(n)
    \/ ForgetVote(n)
    \/ StartHeartbeats(n)
    \/ \E p \in Node : Heartbeat(n, p)
    \/ EndHeartbeats(n)

\* A step of replicate() after its start.
CallStep(c) ==
    \/ \E p \in Node : ReplicateTo(c, p)
    \/ ReplicateCommits(c)
    \/ ReplicateFails(c)

Next ==
    \/ \E n \in Node : TaskStep(n)
    \/ \E n \in Node, c \in Call : ReplicateRefused(n, c) \/ Replicate(n, c)
    \/ \E c \in Call : CallStep(c)
    \/ \E n \in Node : Recover(n)
    \/ \E n \in Node : Restart(n)
    \/ \E m \in late : DeliverLate(m)

Spec == Init /\ [][Next]_vars

\* tokio keeps running the background task and the calls; every RPC returns,
\* with a response or an error.
FairSpec ==
    /\ Spec
    /\ \A n \in Node : WF_vars(TaskStep(n))
    /\ \A c \in Call : WF_vars(CallStep(c))

----------------------------------------------------------------------------
(* Properties *)

Request ==
    [kind : {"vote"}, from : Node, to : Node, term : Nat]
        \cup [kind : {"append"}, from : Node, to : Node, term : Nat, prev : Nat,
              entries : Seq(Entry), commit : Nat]

Task ==
    {Idle} \cup [at : {"election"}, term : Nat, todo : SUBSET Node, votes : SUBSET Node]
           \cup [at : {"step_down"}, term : Nat]
           \cup [at : {"heartbeat"}, term : Nat, prev : Nat, todo : SUBSET Node]

CallState ==
    [at : {"new", "failed"}]
        \cup [at : {"sending", "ok"}, node : Node, entry : Entry, todo : SUBSET Node,
              acks : SUBSET Node]

\* The variables have their types.
TypeOK ==
    /\ role \in [Node -> {"follower", "candidate", "leader"}]
    /\ term \in [Node -> Nat]
    /\ voted_for \in [Node -> Node \cup {None}]
    /\ leader_id \in [Node -> Node \cup {None}]
    /\ log \in [Node -> Seq(Entry)]
    /\ commit_index \in [Node -> Nat]
    /\ last_applied \in [Node -> Nat]
    /\ task \in [Node -> Task]
    /\ call \in [Call -> CallState]
    /\ late \in SUBSET Request
    /\ restarts \in Nat
    /\ granted \in SUBSET (Node \X Nat \X Node)
    /\ won \in SUBSET (Node \X Nat)
    /\ forgetful \in SUBSET Node

\* majority() is more than half of the nodes: every node has all others as peers
\* and their number is odd.
MajoritiesOverlap ==
    /\ \A n \in Node : Peers[n] = Node \ {n}
    /\ Cardinality(Node) % 2 = 1

\* Two nodes never win elections of the same term, provided that the number of
\* nodes is odd and that no node has lost a promise it had made: restarted, set
\* its term back in step_down, or cleared in step_down a vote for another node.
\* These are all the ways in which start_election_and_collect_votes,
\* handle_request_vote and step_down can let two leaders into a term.
OneWinnerPerTerm ==
    (Transport = "direct" /\ MajoritiesOverlap /\ forgetful = {}) =>
        \A w1, w2 \in won : w1[2] = w2[2] => w1 = w2

\* When replicate() has returned Ok, at least majority() nodes hold the entry in
\* their logs, whatever elections, other calls, failed and late requests
\* happened before and after, unless nodes were restarted.
AckedIsStored ==
    (Transport = "direct" /\ restarts = 0) =>
        \A c \in Call : call[c].at = "ok" =>
            /\ Cardinality(call[c].acks) >= majority(call[c].node)
            /\ \A n \in call[c].acks : \E i \in 1..Len(log[n]) : log[n][i] = call[c].entry

\* No node takes an index for committed that its log does not reach, although
\* heartbeats announce the whole log of the leader as committed and logs are
\* appended to out of order.
CommitWithinLog ==
    restarts = 0 =>
        \A n \in Node : commit_index[n] > 0 =>
            \E i \in 1..Len(log[n]) : log[n][i].index >= commit_index[n]

\* Where CoordGrpcService answers, and whatever restarts: no node takes for committed what
\* it has not applied, nor for applied what its log does not hold, although overlapping
\* replicate() calls end in any order, commit_index goes back, and recover() sets
\* last_applied back to it.
AppliedWithinLog ==
    Transport = "grpc" =>
        \A n \in Node : commit_index[n] <= last_applied[n] /\ last_applied[n] <= Len(log[n])

\* No election, response, handler or late request takes the leader role away, only a
\* restart: the election that ends in step_down is never that of a leader
\* (start_raft_tasks, start_election_and_collect_votes).
LeadersStay ==
    [][\A n \in Node : role[n] = "leader" => role'[n] = "leader" \/ restarts' # restarts]_vars

\* Where the own vote is a majority, every node becomes leader and stays it: with
\* one peer, by div_ceil(2), and without peers, as the coordinator binary runs.
LeadsAlone == (\A n \in Node : majority(n) = 1) => \A n \in Node : <>[](role[n] = "leader")

\* Every replicate() call returns.
CallsReturn == \A c \in Call : call[c].at = "sending" ~> call[c].at \in {"ok", "failed"}

----------------------------------------------------------------------------
(* What the repository says of the cluster and the code does not do *)

\* At most one node is leader.
OneLeader == \A n, p \in Node : (role[n] = "leader" /\ role[p] = "leader") => n = p

\* "No persistent split-brain (only one leader, no data divergence)."
NoPersistentSplitBrain == []<>OneLeader
============================================================================
