---------------------------- MODULE RaftProofs ----------------------------
(***************************************************************************)
(* The types, the logs, the leaders and the elections of RaftCluster for   *)
(* every number of nodes, calls, terms, restarts and late requests.        *)
(***************************************************************************)
EXTENDS RaftCluster, FiniteSetTheorems, TLAPS


----------------------------------------------------------------------------
(* Types *)

\* An entry that is being sent has an index that can be decremented.
Indexed == \A c \in Call : call[c].at = "sending" => call[c].entry.index # 0

RType == TypeOK /\ Indexed

LEMMA LastIndexType == \A l \in Seq(Entry) : LastIndex(l) \in Nat
<1> SUFFICES ASSUME NEW l \in Seq(Entry) PROVE LastIndex(l) \in Nat
  OBVIOUS
<1>1. CASE l = << >>
  BY <1>1 DEF LastIndex
<1>2. CASE l # << >>
  <2>1. l[Len(l)] \in Entry
    BY <1>2
  <2> QED
    BY <1>2, <2>1 DEF LastIndex, Entry
<1> QED
  BY <1>1, <1>2

\* What the handlers leave well-typed.
Handled ==
    /\ term' \in [Node -> Nat]
    /\ voted_for' \in [Node -> Node \cup {None}]
    /\ log' \in [Node -> Seq(Entry)]
    /\ commit_index' \in [Node -> Nat]
    /\ last_applied' \in [Node -> Nat]
    /\ granted' \in SUBSET (Node \X Nat \X Node)

LEMMA HandleType ==
    ASSUME TypeOK, NEW m \in Request, Handle(m)
    PROVE Handled
<1>1. CASE m.kind = "vote" /\ handle_request_vote(m)
  <2>1. m.to \in Node /\ m.from \in Node /\ m.term \in Nat
    BY <1>1 DEF Request
  <2>2. granted' = granted \/ granted' = granted \cup {<<m.to, m.term, m.from>>}
    BY <1>1 DEF handle_request_vote
  <2>3. granted' \in SUBSET (Node \X Nat \X Node)
    BY <2>1, <2>2 DEF TypeOK
  <2>4. term' \in [Node -> Nat]
    BY <1>1, <2>1 DEF handle_request_vote, TypeOK
  <2>5. voted_for' \in [Node -> Node \cup {None}]
    BY <1>1, <2>1 DEF handle_request_vote, TypeOK
  <2> QED
    BY <1>1, <2>3, <2>4, <2>5 DEF handle_request_vote, log_vars, Handled, TypeOK
<1>2. CASE m.kind = "append" /\ handle_append_entries(m)
  <2>1. /\ m.to \in Node /\ m.from \in Node /\ m.term \in Nat
        /\ m.entries \in Seq(Entry) /\ m.commit \in Nat
    BY <1>2 DEF Request
  <2> DEFINE l == stored_entries(m.to, m.entries)
  <2>2. l \in Seq(Entry)
    BY <2>1 DEF stored_entries, TypeOK
  <2>3. commit_bound(m.commit, l) \in Nat
    BY <2>1, <2>2, LastIndexType DEF commit_bound
  <2>4. log' = log \/ log' = [log EXCEPT ![m.to] = l]
    BY <1>2 DEF handle_append_entries
  <2>5. \/ commit_index' = commit_index
        \/ commit_index' = [commit_index EXCEPT ![m.to] =
                               IF m.commit > @ THEN commit_bound(m.commit, l) ELSE @]
    BY <1>2 DEF handle_append_entries
  <2> HIDE DEF l
  <2>6. log' \in [Node -> Seq(Entry)]
    BY <2>1, <2>2, <2>4, Zenon DEF TypeOK
  <2>7. commit_index' \in [Node -> Nat]
    BY <2>1, <2>3, <2>5, Zenon DEF TypeOK
  <2>8. term' \in [Node -> Nat] /\ UNCHANGED <<voted_for, last_applied, granted>>
    BY <1>2, <2>1 DEF handle_append_entries, TypeOK
  <2> QED
    BY <2>6, <2>7, <2>8, Zenon DEF Handled, TypeOK
<1>3. CASE UNCHANGED <<vote_vars, log_vars, granted>>
  BY <1>3 DEF vote_vars, log_vars, Handled, TypeOK
<1> QED
  BY <1>1, <1>2, <1>3 DEF Handle

LEMMA AbandonType ==
    ASSUME TypeOK, NEW m \in Request, Abandon(m)
    PROVE Handled /\ late' \in SUBSET Request
<1>1. late' = late \/ late' = late \cup {m}
  BY DEF Abandon
<1> QED
  BY <1>1 DEF Abandon, vote_vars, log_vars, Handled, TypeOK

\* The task of a node stays a task, and only its own steps move it.
LEMMA TaskTyped ==
    ASSUME TypeOK, NEW n \in Node
    PROVE /\ task[n] \in Task
          /\ task[n].at = "election" =>
                task[n] \in [at : {"election"}, term : Nat, todo : SUBSET Node, votes : SUBSET Node]
          /\ task[n].at = "step_down" => task[n] \in [at : {"step_down"}, term : Nat]
          /\ task[n].at = "heartbeat" =>
                task[n] \in [at : {"heartbeat"}, term : Nat, prev : Nat, todo : SUBSET Node]
BY DEF TypeOK, Task, Idle

LEMMA CallTyped ==
    ASSUME TypeOK, NEW c \in Call
    PROVE /\ call[c] \in CallState
          /\ call[c].at \in {"sending", "ok"} =>
                call[c] \in [at : {"sending", "ok"}, node : Node, entry : Entry,
                             todo : SUBSET Node, acks : SUBSET Node]
BY DEF TypeOK, CallState

\* The requests that are sent.
LEMMA RequestVoteSends ==
    ASSUME TypeOK, NEW n \in Node, NEW p \in Node, RequestVote(n, p)
    PROVE VoteRequest(n, p, task[n].term) \in Request
BY TaskTyped DEF RequestVote, VoteRequest, Request

LEMMA HeartbeatSends ==
    ASSUME TypeOK, NEW n \in Node, NEW p \in Node, Heartbeat(n, p)
    PROVE AppendRequest(n, p, task[n].term, task[n].prev, << >>, task[n].prev) \in Request
<1>1. task[n].term \in Nat /\ task[n].prev \in Nat
  BY TaskTyped DEF Heartbeat
<1>2. << >> \in Seq(Entry)
  OBVIOUS
<1> QED
  BY <1>1, <1>2 DEF AppendRequest, Request

LEMMA ReplicateToSends ==
    ASSUME RType, NEW c \in Call, NEW p \in Node, ReplicateTo(c, p)
    PROVE AppendRequest(call[c].node, p, call[c].entry.term, call[c].entry.index - 1,
                        <<call[c].entry>>, call[c].entry.index) \in Request
<1>1. call[c].node \in Node /\ call[c].entry \in Entry
  BY CallTyped DEF ReplicateTo, RType
<1>2. call[c].entry.term \in Nat /\ call[c].entry.index \in Nat /\ call[c].entry.index - 1 \in Nat
  BY <1>1 DEF ReplicateTo, RType, Indexed, Entry
<1>3. <<call[c].entry>> \in Seq(Entry)
  BY <1>1
<1> QED
  BY <1>1, <1>2, <1>3 DEF AppendRequest, Request

LEMMA ElectionRecord ==
    ASSUME NEW r \in [at : {"election"}, term : Nat, todo : SUBSET Node, votes : SUBSET Node],
           NEW x, NEW y
    PROVE /\ [r EXCEPT !.todo = x] =
                [at |-> "election", term |-> r.term, todo |-> x, votes |-> r.votes]
          /\ [r EXCEPT !.todo = x, !.votes = y] =
                [at |-> "election", term |-> r.term, todo |-> x, votes |-> y]
<1>1. r = [at |-> "election", term |-> r.term, todo |-> r.todo, votes |-> r.votes]
  OBVIOUS
<1>2. [r EXCEPT !.todo = x] = [at |-> "election", term |-> r.term, todo |-> x, votes |-> r.votes]
  BY <1>1
<1>3. [r EXCEPT !.todo = x, !.votes = y] =
          [at |-> "election", term |-> r.term, todo |-> x, votes |-> y]
  <2> DEFINE q == [at |-> "election", term |-> r.term, todo |-> x, votes |-> r.votes]
  <2>1. [q EXCEPT !.votes = y] = [at |-> "election", term |-> r.term, todo |-> x, votes |-> y]
    OBVIOUS
  <2>2. [r EXCEPT !.todo = x, !.votes = y] = [[r EXCEPT !.todo = x] EXCEPT !.votes = y]
    OBVIOUS
  <2>3. [r EXCEPT !.todo = x] = q
    BY <1>2
  <2> HIDE DEF q
  <2> QED
    BY <2>1, <2>2, <2>3, Zenon
<1> QED
  BY <1>2, <1>3

\* The election of n after p was asked, with the votes it then has.
Election(n, p, votes) ==
    [at |-> "election", term |-> task[n].term, todo |-> task[n].todo \ {p}, votes |-> votes]

LEMMA VotesCollected ==
    ASSUME TypeOK, NEW n \in Node, NEW p \in Node, RequestVote(n, p)
    PROVE LET m == VoteRequest(n, p, task[n].term) IN
          \E votes \in SUBSET Node :
              /\ task' = [task EXCEPT ![n] = Election(n, p, votes)]
              /\ votes = task[n].votes \/ (Handle(m) /\ Agrees(m) /\ votes = task[n].votes \cup {p})
<1> DEFINE m == VoteRequest(n, p, task[n].term)
<1>1. task[n] \in [at : {"election"}, term : Nat, todo : SUBSET Node, votes : SUBSET Node]
  BY TaskTyped DEF RequestVote
<1>2. [task[n] EXCEPT !.todo = @ \ {p}] = Election(n, p, task[n].votes)
  BY <1>1, ElectionRecord, Zenon DEF Election
<1>3. [task[n] EXCEPT !.todo = @ \ {p}, !.votes = @ \cup {p}] = Election(n, p, task[n].votes \cup {p})
  BY <1>1, ElectionRecord, Zenon DEF Election
<1>4. \/ task' = [task EXCEPT ![n].todo = @ \ {p}]
      \/ /\ Handle(m)
         /\ task' = [task EXCEPT ![n].todo = @ \ {p}, ![n].votes = IF Agrees(m) THEN @ \cup {p} ELSE @]
  BY DEF RequestVote
<1>5. CASE task' = [task EXCEPT ![n].todo = @ \ {p}]
  <2>1. task' = [task EXCEPT ![n] = Election(n, p, task[n].votes)]
    BY <1>2, <1>5, Zenon
  <2> QED
    BY <1>1, <2>1, Zenon
<1>6. CASE /\ Handle(m) /\ Agrees(m)
           /\ task' = [task EXCEPT ![n].todo = @ \ {p}, ![n].votes = @ \cup {p}]
  <2>1. task' = [task EXCEPT ![n] = Election(n, p, task[n].votes \cup {p})]
    BY <1>3, <1>6, Zenon DEF TypeOK
  <2> QED
    BY <1>1, <1>6, <2>1, Zenon
<1>7. CASE ~Agrees(m) /\ task' = [task EXCEPT ![n].todo = @ \ {p}, ![n].votes = @]
  <2>1. [task[n] EXCEPT !.todo = @ \ {p}, !.votes = @] = Election(n, p, task[n].votes)
    BY <1>1, ElectionRecord, Zenon DEF Election
  <2>2. task' = [task EXCEPT ![n] = Election(n, p, task[n].votes)]
    BY <1>7, <2>1, Zenon DEF TypeOK
  <2> QED
    BY <1>1, <2>2, Zenon
<1> QED
  BY <1>4, <1>5, <1>6, <1>7

\* A step of the task of a node leaves the calls alone and everything well-typed.
LEMMA TaskStepType ==
    ASSUME RType, NEW n \in Node, TaskStep(n)
    PROVE RType'
<1> USE DEF RType
<1>0. Indexed' /\ call' = call /\ restarts' = restarts
  BY Zenon DEF TaskStep, StartElection, RequestVote, WinElection, LoseElection, ForgetVote,
         StartHeartbeats, Heartbeat, EndHeartbeats, Indexed
<1>1. CASE StartElection(n)
  <2>1. term[n] + 1 \in Nat /\ Peers[n] \in SUBSET Node
    BY PeersAssumption DEF TypeOK
  <2>2. task' \in [Node -> Task]
    BY <1>1, <2>1 DEF StartElection, TypeOK, Task
  <2>3. granted' \in SUBSET (Node \X Nat \X Node)
    BY <1>1, <2>1 DEF StartElection, TypeOK
  <2>4. /\ term' \in [Node -> Nat] /\ voted_for' \in [Node -> Node \cup {None}]
        /\ leader_id' \in [Node -> Node \cup {None}]
        /\ role' \in [Node -> {"follower", "candidate", "leader"}]
    BY <1>1, <2>1 DEF StartElection, TypeOK
  <2> QED
    BY <1>0, <1>1, <2>2, <2>3, <2>4, ZenonT(40) DEF StartElection, TypeOK, log_vars
<1>2. ASSUME NEW p \in Node, RequestVote(n, p) PROVE TypeOK'
  <2> DEFINE m == VoteRequest(n, p, task[n].term)
  <2>1. m \in Request
    BY <1>2, RequestVoteSends
  <2>2. (Handle(m) /\ UNCHANGED late) \/ Abandon(m)
    BY <1>2 DEF RequestVote
  <2>3. Handled /\ late' \in SUBSET Request
    <3> HIDE DEF m
    <3> QED
      BY <2>1, <2>2, HandleType, AbandonType, Zenon DEF TypeOK
  <2>4. task[n] \in [at : {"election"}, term : Nat, todo : SUBSET Node, votes : SUBSET Node]
    BY <1>2, TaskTyped DEF RequestVote
  <2>5. PICK votes \in SUBSET Node : task' = [task EXCEPT ![n] = Election(n, p, votes)]
    BY <1>2, <2>4, VotesCollected
  <2>6. Election(n, p, votes) \in Task
    BY <2>4 DEF Election, Task
  <2>7. task' \in [Node -> Task]
    BY <2>5, <2>6 DEF TypeOK
  <2> QED
    BY <1>0, <1>2, <2>3, <2>7, Zenon DEF RequestVote, TypeOK, Handled
<1>3. CASE WinElection(n)
  <2>1. task[n].term \in Nat
    BY <1>3, TaskTyped DEF WinElection
  <2> QED
    BY <1>0, <1>3, <2>1 DEF WinElection, TypeOK, vote_vars, log_vars, Task
<1>4. CASE LoseElection(n)
  <2>1. task[n].term \in Nat
    BY <1>4, TaskTyped DEF LoseElection
  <2> QED
    BY <1>0, <1>4, <2>1 DEF LoseElection, TypeOK, log_vars, Task
<1>5. CASE ForgetVote(n)
  BY <1>0, <1>5 DEF ForgetVote, TypeOK, log_vars, Task
<1>6. CASE StartHeartbeats(n)
  <2>1. LastIndex(log[n]) \in Nat /\ Peers[n] \in SUBSET Node
    BY LastIndexType, PeersAssumption DEF TypeOK
  <2> QED
    BY <1>0, <1>6, <2>1 DEF StartHeartbeats, TypeOK, vote_vars, log_vars, history, Task
<1>7. ASSUME NEW p \in Node, Heartbeat(n, p) PROVE TypeOK'
  <2> DEFINE m == AppendRequest(n, p, task[n].term, task[n].prev, << >>, task[n].prev)
  <2>1. m \in Request
    BY <1>7, HeartbeatSends
  <2>2. (Handle(m) /\ UNCHANGED late) \/ Abandon(m)
    BY <1>7 DEF Heartbeat
  <2>3. Handled /\ late' \in SUBSET Request
    <3> HIDE DEF m
    <3> QED
      BY <2>1, <2>2, HandleType, AbandonType, Zenon DEF TypeOK
  <2>4. task[n] \in [at : {"heartbeat"}, term : Nat, prev : Nat, todo : SUBSET Node]
    BY <1>7, TaskTyped DEF Heartbeat
  <2>5. task' = [task EXCEPT ![n].todo = @ \ {p}]
    BY <1>7 DEF Heartbeat
  <2>6. task' \in [Node -> Task]
    BY <2>4, <2>5, Zenon DEF TypeOK, Task
  <2> QED
    BY <1>0, <1>7, <2>3, <2>6, Zenon DEF Heartbeat, TypeOK, Handled
<1>8. CASE EndHeartbeats(n)
  BY <1>0, <1>8 DEF EndHeartbeats, TypeOK, vote_vars, log_vars, history, Task
<1> QED
  BY <1>0, <1>1, <1>2, <1>3, <1>4, <1>5, <1>6, <1>7, <1>8 DEF TaskStep

LEMMA SendingRecord ==
    ASSUME NEW r, r \in [at : {"sending", "ok"}, node : Node, entry : Entry,
                         todo : SUBSET Node, acks : SUBSET Node],
           NEW x, NEW y, NEW z
    PROVE /\ [r EXCEPT !.todo = x] =
                [at |-> r.at, node |-> r.node, entry |-> r.entry, todo |-> x, acks |-> r.acks]
          /\ [r EXCEPT !.todo = x, !.acks = y] =
                [at |-> r.at, node |-> r.node, entry |-> r.entry, todo |-> x, acks |-> y]
          /\ [r EXCEPT !.at = z] =
                [at |-> z, node |-> r.node, entry |-> r.entry, todo |-> r.todo, acks |-> r.acks]
<1>1. r = [at |-> r.at, node |-> r.node, entry |-> r.entry, todo |-> r.todo, acks |-> r.acks]
  OBVIOUS
<1>2. [r EXCEPT !.todo = x] =
          [at |-> r.at, node |-> r.node, entry |-> r.entry, todo |-> x, acks |-> r.acks]
  BY <1>1
<1>3. [r EXCEPT !.todo = x, !.acks = y] =
          [at |-> r.at, node |-> r.node, entry |-> r.entry, todo |-> x, acks |-> y]
  <2> DEFINE q == [at |-> r.at, node |-> r.node, entry |-> r.entry, todo |-> x, acks |-> r.acks]
  <2>1. [q EXCEPT !.acks = y] =
            [at |-> r.at, node |-> r.node, entry |-> r.entry, todo |-> x, acks |-> y]
    OBVIOUS
  <2>2. [r EXCEPT !.todo = x, !.acks = y] = [[r EXCEPT !.todo = x] EXCEPT !.acks = y]
    OBVIOUS
  <2>3. [r EXCEPT !.todo = x] = q
    BY <1>2
  <2> HIDE DEF q
  <2> QED
    BY <2>1, <2>2, <2>3, Zenon
<1>4. [r EXCEPT !.at = z] =
          [at |-> z, node |-> r.node, entry |-> r.entry, todo |-> r.todo, acks |-> r.acks]
  BY <1>1
<1> QED
  BY <1>2, <1>3, <1>4

\* The call c after p was sent the entry, with the acknowledgements it then has.
Sending(c, p, acks) ==
    [at |-> "sending", node |-> call[c].node, entry |-> call[c].entry,
     todo |-> call[c].todo \ {p}, acks |-> acks]

LEMMA AcksCollected ==
    ASSUME TypeOK, NEW c \in Call, NEW p \in Node, ReplicateTo(c, p)
    PROVE LET m == AppendRequest(call[c].node, p, call[c].entry.term, call[c].entry.index - 1,
                                 <<call[c].entry>>, call[c].entry.index) IN
          \E acks \in SUBSET Node :
              /\ call' = [call EXCEPT ![c] = Sending(c, p, acks)]
              /\ acks = call[c].acks \/ (Handle(m) /\ Agrees(m) /\ acks = call[c].acks \cup {p})
<1> DEFINE m == AppendRequest(call[c].node, p, call[c].entry.term, call[c].entry.index - 1,
                              <<call[c].entry>>, call[c].entry.index)
<1>1. call[c] \in [at : {"sending", "ok"}, node : Node, entry : Entry, todo : SUBSET Node,
                   acks : SUBSET Node] /\ call[c].at = "sending"
  BY CallTyped DEF ReplicateTo
<1>2. [call[c] EXCEPT !.todo = @ \ {p}] = Sending(c, p, call[c].acks)
  BY <1>1, SendingRecord, Zenon DEF Sending
<1>3. ASSUME NEW y PROVE [call[c] EXCEPT !.todo = @ \ {p}, !.acks = y] = Sending(c, p, y)
  <2>1. PICK r : r = call[c]
    OBVIOUS
  <2>2. PICK x : x = call[c].todo \ {p}
    BY Zenon
  <2>3. [r EXCEPT !.todo = x, !.acks = y] =
            [at |-> r.at, node |-> r.node, entry |-> r.entry, todo |-> x, acks |-> y]
    BY <1>1, <2>1, SendingRecord, ZenonT(40)
  <2> QED
    BY <1>1, <2>1, <2>2, <2>3 DEF Sending
<1>4. \/ call' = [call EXCEPT ![c].todo = @ \ {p}]
      \/ /\ Handle(m)
         /\ call' = [call EXCEPT ![c].todo = @ \ {p}, ![c].acks = IF Agrees(m) THEN @ \cup {p} ELSE @]
  BY DEF ReplicateTo
<1> HIDE DEF m
<1>5. CASE call' = [call EXCEPT ![c].todo = @ \ {p}]
  <2>1. call' = [call EXCEPT ![c] = Sending(c, p, call[c].acks)]
    BY <1>2, <1>5, Zenon
  <2> QED
    BY <1>1, <2>1, Zenon
<1>6. CASE /\ Handle(m) /\ Agrees(m)
           /\ call' = [call EXCEPT ![c].todo = @ \ {p}, ![c].acks = @ \cup {p}]
  <2>1. call' = [call EXCEPT ![c] = Sending(c, p, call[c].acks \cup {p})]
    BY <1>3, <1>6, Zenon DEF TypeOK
  <2> QED
    BY <1>1, <1>6, <2>1, Zenon DEF m
<1>7. CASE ~Agrees(m) /\ call' = [call EXCEPT ![c].todo = @ \ {p}, ![c].acks = @]
  <2>1. call' = [call EXCEPT ![c] = Sending(c, p, call[c].acks)]
    BY <1>3, <1>7, Zenon DEF TypeOK
  <2> QED
    BY <1>1, <2>1, Zenon
<1> QED
  BY <1>4, <1>5, <1>6, <1>7

\* replicate() and its steps.
LEMMA CallStepType ==
    ASSUME RType, NEW c \in Call,
           CallStep(c) \/ \E n \in Node : ReplicateRefused(n, c) \/ Replicate(n, c)
    PROVE RType'
<1> USE DEF RType
<1>1. ASSUME NEW p \in Node, ReplicateTo(c, p) PROVE RType'
  <2> DEFINE m == AppendRequest(call[c].node, p, call[c].entry.term, call[c].entry.index - 1,
                                <<call[c].entry>>, call[c].entry.index)
  <2>1. m \in Request
    BY <1>1, ReplicateToSends
  <2>2. (Handle(m) /\ UNCHANGED late) \/ Abandon(m)
    BY <1>1 DEF ReplicateTo
  <2>3. Handled /\ late' \in SUBSET Request
    <3> HIDE DEF m
    <3> QED
      BY <2>1, <2>2, HandleType, AbandonType, Zenon DEF TypeOK
  <2>4. PICK acks \in SUBSET Node : call' = [call EXCEPT ![c] = Sending(c, p, acks)]
    BY <1>1, AcksCollected, Zenon
  <2>5. call[c].at = "sending" /\ Sending(c, p, acks) \in CallState
    BY <1>1, CallTyped DEF Sending, CallState, ReplicateTo
  <2>6. call' \in [Call -> CallState]
    BY <2>4, <2>5 DEF TypeOK
  <2>7. Indexed'
    BY <2>4, <2>5 DEF Indexed, Sending, TypeOK
  <2> QED
    BY <1>1, <2>3, <2>6, <2>7, Zenon DEF ReplicateTo, TypeOK, Handled
<1>2. CASE ReplicateCommits(c)
  <2>1. call[c] \in [at : {"sending", "ok"}, node : Node, entry : Entry, todo : SUBSET Node,
                     acks : SUBSET Node]
    BY <1>2, CallTyped DEF ReplicateCommits
  <2>2. call[c].node \in Node /\ call[c].entry.index \in Nat
    BY <2>1 DEF Entry
  <2>3. [call[c] EXCEPT !.at = "ok"] \in CallState
    BY <2>1 DEF CallState
  <2>4. call' = [call EXCEPT ![c] = [call[c] EXCEPT !.at = "ok"]]
    BY <1>2 DEF ReplicateCommits
  <2>5. call' \in [Call -> CallState]
    BY <2>3, <2>4 DEF TypeOK
  <2>6. Indexed'
    BY <2>1, <2>4 DEF Indexed, TypeOK
  <2>7. commit_index' \in [Node -> Nat] /\ last_applied' \in [Node -> Nat]
    BY <1>2, <2>2 DEF ReplicateCommits, TypeOK
  <2> QED
    BY <1>2, <2>5, <2>6, <2>7, Zenon DEF ReplicateCommits, TypeOK, vote_vars, history
<1>3. CASE ReplicateFails(c)
  BY <1>3, Zenon DEF ReplicateFails, TypeOK, Indexed, CallState, vote_vars, log_vars, history
<1>4. ASSUME NEW n \in Node, ReplicateRefused(n, c) PROVE RType'
  BY <1>4, Zenon DEF ReplicateRefused, TypeOK, Indexed, CallState, vote_vars, log_vars, history
<1>5. ASSUME NEW n \in Node, Replicate(n, c) PROVE RType'
  <2> DEFINE e == [term |-> term[n], index |-> LastIndex(log[n]) + 1, data |-> c]
             s == [at |-> "sending", node |-> n, entry |-> e, todo |-> Peers[n], acks |-> {n}]
  <2>1. LastIndex(log[n]) \in Nat /\ term[n] \in Nat /\ Peers[n] \in SUBSET Node
    BY LastIndexType, PeersAssumption DEF TypeOK
  <2>2. e \in Entry /\ e.index # 0
    BY <2>1 DEF Entry
  <2>3. log' = [log EXCEPT ![n] = Append(log[n], e)] /\ call' = [call EXCEPT ![c] = s]
    BY <1>5 DEF Replicate
  <2>4. s \in CallState /\ s.entry = e
    BY <2>1, <2>2 DEF CallState
  <2> HIDE DEF e, s
  <2>5. log' \in [Node -> Seq(Entry)]
    BY <2>2, <2>3 DEF TypeOK
  <2>6. call' \in [Call -> CallState] /\ Indexed'
    BY <2>2, <2>3, <2>4 DEF TypeOK, Indexed
  <2> QED
    BY <1>5, <2>5, <2>6, Zenon DEF Replicate, TypeOK, vote_vars, history
<1> QED
  BY <1>1, <1>2, <1>3, <1>4, <1>5 DEF CallStep

\* Every step keeps the types.
LEMMA NextType ==
    ASSUME RType, [Next]_vars
    PROVE RType'
<1>1. ASSUME NEW n \in Node, Recover(n) PROVE RType'
  BY <1>1, Zenon DEF Recover, RType, TypeOK, Indexed, vote_vars, history
<1>2. ASSUME NEW n \in Node, Restart(n) PROVE RType'
  <2>1. call' \in [Call -> CallState] /\ Indexed'
    BY <1>2 DEF Restart, RType, TypeOK, Indexed, CallState
  <2>2. log' \in [Node -> Seq(Entry)]
    BY <1>2 DEF Restart, RType, TypeOK
  <2>3. /\ term' \in [Node -> Nat] /\ commit_index' \in [Node -> Nat]
        /\ last_applied' \in [Node -> Nat] /\ restarts' \in Nat
    BY <1>2 DEF Restart, RType, TypeOK
  <2>4. task' \in [Node -> Task]
    BY <1>2 DEF Restart, RType, TypeOK, Task
  <2> QED
    BY <1>2, <2>1, <2>2, <2>3, <2>4 DEF Restart, RType, TypeOK
<1>3. ASSUME NEW m \in late, DeliverLate(m) PROVE RType'
  <2>1. m \in Request
    BY DEF RType, TypeOK
  <2>2. Handled
    BY <1>3, <2>1, HandleType DEF DeliverLate, RType
  <2> QED
    BY <1>3, <2>2, Zenon DEF DeliverLate, RType, TypeOK, Indexed, Handled
<1>4. CASE UNCHANGED vars
  BY <1>4, Zenon DEF vars, vote_vars, log_vars, history, RType, TypeOK, Indexed
<1> QED
  BY <1>1, <1>2, <1>3, <1>4, TaskStepType, CallStepType DEF Next

LEMMA InitType == Init => RType
BY DEF Init, RType, TypeOK, Indexed, Task, CallState

\* The variables of the cluster keep their types; in particular no request asks for
\* the index before 0.
THEOREM ClusterTypes == Spec => []TypeOK
<1>1. RType => TypeOK
  BY DEF RType
<1> QED
  BY <1>1, InitType, NextType, PTL DEF Spec

----------------------------------------------------------------------------
(* Logs *)

Holds(n, e) == \E i \in 1..Len(log[n]) : log[n][i] = e

\* The log of n only gets longer.
Grows(n) == \A i \in 1..Len(log[n]) : i \in 1..Len(log'[n]) /\ log'[n][i] = log[n][i]

LEMMA Concatenated ==
    ASSUME NEW S, NEW s \in Seq(S), NEW t \in Seq(S)
    PROVE \A i \in 1..Len(s) : i \in 1..Len(s \o t) /\ (s \o t)[i] = s[i]
<1>1. Len(s) \in Nat /\ Len(t) \in Nat /\ Len(s \o t) = Len(s) + Len(t)
  OBVIOUS
<1> QED
  BY <1>1

\* What handling a request does to the logs and to what is known to be committed.
LEMMA HandleLogs ==
    ASSUME TypeOK, NEW m \in Request, Handle(m)
    PROVE /\ \A n \in Node : Grows(n)
          /\ \A n \in Node : commit_index'[n] = commit_index[n] \/ commit_index'[n] <= LastIndex(log'[n])
<1>1. CASE UNCHANGED <<log, commit_index>>
  BY <1>1 DEF Grows
<1>2. CASE m.kind = "append" /\ handle_append_entries(m) /\ AcceptsEntries(m.to, m)
  <2> DEFINE l == log[m.to] \o m.entries
  <2>1. m.to \in Node /\ m.entries \in Seq(Entry) /\ m.commit \in Nat
    BY <1>2 DEF Request
  <2>2. log[m.to] \in Seq(Entry) /\ l \in Seq(Entry)
    BY <2>1 DEF TypeOK
  <2>3. \A i \in 1..Len(log[m.to]) : i \in 1..Len(l) /\ l[i] = log[m.to][i]
    BY <2>1, <2>2, Concatenated, Zenon
  <2>4. log' = [log EXCEPT ![m.to] = l]
    BY <1>2, Zenon DEF handle_append_entries, stored_entries
  <2>5. commit_index' = [commit_index EXCEPT ![m.to] =
                             IF m.commit > @ THEN commit_bound(m.commit, l) ELSE @]
    BY <1>2 DEF handle_append_entries, stored_entries
  <2> HIDE DEF l
  <2>6. commit_bound(m.commit, l) <= LastIndex(l)
    <3>1. LastIndex(l) \in Nat
      BY <2>2, LastIndexType
    <3> QED
      BY <2>1, <3>1 DEF commit_bound
  <2>7. \A n \in Node : Grows(n)
    BY <2>1, <2>3, <2>4 DEF Grows, TypeOK
  <2>8. \A n \in Node : commit_index'[n] = commit_index[n] \/ commit_index'[n] <= LastIndex(log'[n])
    BY <2>1, <2>4, <2>5, <2>6 DEF TypeOK
  <2> QED
    BY <2>7, <2>8
<1> QED
  BY <1>1, <1>2 DEF Handle, handle_request_vote, handle_append_entries, log_vars

LEMMA AppendKeeps ==
    ASSUME NEW S, NEW s \in Seq(S), NEW e
    PROVE \A i \in 1..Len(s) : i \in 1..Len(Append(s, e)) /\ Append(s, e)[i] = s[i]
OBVIOUS

\* Without a restart no log loses an entry.
LEMMA LogGrows ==
    ASSUME RType, [Next]_vars, restarts' = 0, NEW n \in Node
    PROVE Grows(n)
<1>1. ASSUME NEW m \in Request, Handle(m) \/ Abandon(m) PROVE Grows(n)
  BY <1>1, HandleLogs DEF Abandon, log_vars, Grows, RType
<1>2. CASE UNCHANGED log
  BY <1>2 DEF Grows
<1>3. ASSUME NEW q \in Node, TaskStep(q) PROVE Grows(n)
  <2>1. ASSUME NEW p \in Node, RequestVote(q, p) PROVE Grows(n)
    BY <1>1, <2>1, RequestVoteSends DEF RequestVote, RType
  <2>2. ASSUME NEW p \in Node, Heartbeat(q, p) PROVE Grows(n)
    BY <1>1, <2>2, HeartbeatSends, Zenon DEF Heartbeat, RType
  <2> QED
    BY <1>2, <1>3, <2>1, <2>2 DEF TaskStep, StartElection, WinElection, LoseElection,
                                  ForgetVote, StartHeartbeats, EndHeartbeats, log_vars
<1>4. ASSUME NEW c \in Call, NEW p \in Node, ReplicateTo(c, p) PROVE Grows(n)
  BY <1>1, <1>4, ReplicateToSends DEF ReplicateTo
<1>5. ASSUME NEW q \in Node, NEW c \in Call, Replicate(q, c) PROVE Grows(n)
  <2>1. PICK e : log' = [log EXCEPT ![q] = Append(log[q], e)]
    BY <1>5, Zenon DEF Replicate
  <2>2. log[q] \in Seq(Entry)
    BY DEF RType, TypeOK
  <2>3. \A i \in 1..Len(log[q]) :
            i \in 1..Len(Append(log[q], e)) /\ Append(log[q], e)[i] = log[q][i]
    BY <2>2, AppendKeeps, Zenon
  <2> QED
    BY <2>1, <2>3 DEF Grows, RType, TypeOK
<1>6. ASSUME NEW q \in Node, Restart(q) PROVE FALSE
  BY <1>6 DEF Restart, RType, TypeOK
<1>7. ASSUME NEW m \in late, DeliverLate(m) PROVE Grows(n)
  BY <1>1, <1>7 DEF DeliverLate, RType, TypeOK
<1> QED
  BY <1>2, <1>3, <1>4, <1>5, <1>6, <1>7
     DEF Next, CallStep, ReplicateRefused, ReplicateCommits, ReplicateFails, Recover, vars, log_vars

LEMMA HoldsKept ==
    ASSUME RType, [Next]_vars, restarts' = 0, NEW n \in Node, NEW e, Holds(n, e)
    PROVE Holds(n, e)'
BY LogGrows DEF Grows, Holds

\* The entry of a call is in the log of the node that runs it and of every node that
\* acknowledged it, and a call that returned Ok was acknowledged by a majority.
Stored ==
    restarts = 0 =>
        \A c \in Call : call[c].at \in {"sending", "ok"} =>
            /\ Holds(call[c].node, call[c].entry)
            /\ Transport = "direct" => \A n \in call[c].acks : Holds(n, call[c].entry)
            /\ call[c].at = "ok" => Cardinality(call[c].acks) >= majority(call[c].node)

LInv == RType /\ Stored /\ CommitWithinLog

\* A peer that acknowledges an entry holds it.
LEMMA AckedHolds ==
    ASSUME TypeOK, Transport = "direct", NEW m \in Request, m.kind = "append", Handle(m), Agrees(m),
           NEW e \in Entry, m.entries = <<e>>
    PROVE Holds(m.to, e)'
<1>1. handle_append_entries(m) /\ AcceptsEntries(m.to, m)
  BY DEF Handle, Agrees
<1>2. m.to \in Node /\ log[m.to] \in Seq(Entry)
  BY DEF Request, TypeOK
<1> DEFINE l == log[m.to] \o <<e>>
<1>3. log' = [log EXCEPT ![m.to] = l]
  BY <1>1 DEF handle_append_entries, stored_entries
<1>4. Len(l) = Len(log[m.to]) + 1 /\ l[Len(log[m.to]) + 1] = e /\ Len(log[m.to]) \in Nat
  BY <1>2
<1> HIDE DEF l
<1>5. log'[m.to] = l
  BY <1>2, <1>3 DEF TypeOK
<1> QED
  BY <1>4, <1>5 DEF Holds

\* What the steps do to the restarts and to the calls.
LEMMA TaskStepLeaves ==
    ASSUME NEW n \in Node, TaskStep(n)
    PROVE restarts' = restarts /\ call' = call
BY Zenon DEF TaskStep, StartElection, RequestVote, WinElection, LoseElection, ForgetVote,
       StartHeartbeats, Heartbeat, EndHeartbeats

LEMMA RestartsCount ==
    ASSUME [Next]_vars
    PROVE restarts' = restarts \/ restarts' = restarts + 1
<1>1. ASSUME NEW c \in Call, CallStep(c) \/ \E n \in Node : ReplicateRefused(n, c) \/ Replicate(n, c)
      PROVE restarts' = restarts
  BY <1>1, Zenon DEF CallStep, ReplicateTo, ReplicateCommits, ReplicateFails, ReplicateRefused, Replicate
<1>2. ASSUME \/ \E n \in Node : Recover(n) \/ Restart(n)
             \/ \E m \in late : DeliverLate(m)
             \/ UNCHANGED vars
      PROVE restarts' = restarts \/ restarts' = restarts + 1
  BY <1>2 DEF Recover, Restart, DeliverLate, vars
<1> QED
  BY <1>1, <1>2, TaskStepLeaves DEF Next

LEMMA StoredKept ==
    ASSUME LInv, [Next]_vars
    PROVE Stored'
<1> SUFFICES ASSUME restarts' = 0, NEW c \in Call, call'[c].at \in {"sending", "ok"}
             PROVE /\ Holds(call[c].node, call[c].entry)'
                   /\ Transport = "direct" => \A n \in call'[c].acks : Holds(n, call[c].entry)'
                   /\ call'[c].at = "ok" => Cardinality(call'[c].acks) >= majority(call'[c].node)
  BY DEF Stored, majority
<1>0. restarts = 0 /\ TypeOK /\ RType
  <2>1. RType /\ TypeOK
    BY DEF LInv, RType
  <2>2. restarts \in Nat
    BY <2>1 DEF TypeOK
  <2>3. restarts' = restarts \/ restarts' = restarts + 1
    BY RestartsCount
  <2> QED
    BY <2>1, <2>2, <2>3
<1>1. CASE call[c].at \in {"sending", "ok"} /\ call'[c].node = call[c].node
              /\ call'[c].entry = call[c].entry /\ call'[c].acks = call[c].acks
              /\ (call'[c].at = "ok" => Cardinality(call[c].acks) >= majority(call[c].node))
  <2>1. call[c].node \in Node /\ call[c].acks \in SUBSET Node
    BY <1>0, <1>1, CallTyped
  <2>2. /\ Holds(call[c].node, call[c].entry)
        /\ Transport = "direct" => \A n \in call[c].acks : Holds(n, call[c].entry)
    BY <1>0, <1>1 DEF LInv, Stored
  <2>3. PICK node, e : node = call[c].node /\ e = call[c].entry
    OBVIOUS
  <2>4. Holds(node, e)' /\ (Transport = "direct" => \A n \in call[c].acks : Holds(n, e)')
    BY <1>0, <2>1, <2>2, <2>3, HoldsKept
  <2>5. node = call'[c].node /\ e = call'[c].entry
    BY <1>1, <2>3
  <2> QED
    BY <1>1, <2>4, <2>5 DEF Holds
<1>2. ASSUME NEW p \in Node, ReplicateTo(c, p)
      PROVE /\ Holds(call[c].node, call[c].entry)'
            /\ Transport = "direct" => \A n \in call'[c].acks : Holds(n, call[c].entry)'
            /\ call'[c].at = "sending"
  <2> DEFINE m == AppendRequest(call[c].node, p, call[c].entry.term, call[c].entry.index - 1,
                                <<call[c].entry>>, call[c].entry.index)
  <2>1. PICK acks \in SUBSET Node :
            /\ call' = [call EXCEPT ![c] = Sending(c, p, acks)]
            /\ acks = call[c].acks \/ (Handle(m) /\ Agrees(m) /\ acks = call[c].acks \cup {p})
    BY <1>0, <1>2, AcksCollected
  <2>2. /\ call'[c].at = "sending" /\ call'[c].acks = acks
        /\ call'[c].node = call[c].node /\ call'[c].entry = call[c].entry
    BY <1>0, <2>1 DEF Sending, TypeOK
  <2>3. PICK node, e : node = call[c].node /\ e = call[c].entry
    BY Zenon
  <2>4. call[c].at = "sending" /\ node \in Node /\ e \in Entry /\ call[c].acks \in SUBSET Node
    BY <1>0, <1>2, <2>3, CallTyped DEF ReplicateTo
  <2>5. Holds(node, e) /\ (Transport = "direct" => \A n \in call[c].acks : Holds(n, e))
    BY <1>0, <2>3, <2>4 DEF LInv, Stored
  <2>6. Holds(node, e)' /\ (Transport = "direct" => \A n \in call[c].acks : Holds(n, e)')
    BY <1>0, <2>4, <2>5, HoldsKept
  <2>7. m \in Request /\ m.kind = "append" /\ m.to = p /\ m.entries = <<e>>
    BY <1>0, <1>2, <2>3, ReplicateToSends DEF AppendRequest
  <2> HIDE DEF m
  <2>8. ASSUME Transport = "direct", NEW n \in acks PROVE Holds(n, e)'
    <3>1. CASE n \in call[c].acks
      BY <2>6, <2>8, <3>1
    <3>2. CASE n \notin call[c].acks
      <4>1. Handle(m) /\ Agrees(m) /\ n = p
        BY <2>1, <2>8, <3>2
      <4> QED
        BY <1>0, <2>4, <2>7, <2>8, <4>1, AckedHolds
    <3> QED
      BY <3>1, <3>2
  <2>9. node = call'[c].node /\ e = call'[c].entry
    BY <2>2, <2>3
  <2> QED
    BY <2>2, <2>6, <2>8, <2>9 DEF Holds
<1>3. ASSUME NEW n \in Node, Replicate(n, c)
      PROVE /\ Holds(call[c].node, call[c].entry)'
            /\ \A q \in call'[c].acks : Holds(q, call[c].entry)'
            /\ call'[c].at = "sending"
  <2>0. PICK e : e = [term |-> term[n], index |-> LastIndex(log[n]) + 1, data |-> c]
    BY Zenon
  <2> DEFINE l == Append(log[n], e)
  <2>1. log[n] \in Seq(Entry)
    BY <1>0 DEF TypeOK
  <2>2. Len(l) = Len(log[n]) + 1 /\ l[Len(log[n]) + 1] = e /\ Len(log[n]) \in Nat
    BY <2>1
  <2>3. log'[n] = l
    BY <1>0, <1>3, <2>0 DEF Replicate, TypeOK
  <2>4. /\ call'[c].at = "sending" /\ call'[c].node = n /\ call'[c].entry = e
        /\ call'[c].acks = {n}
    BY <1>0, <1>3, <2>0 DEF Replicate, TypeOK
  <2> HIDE DEF l
  <2>5. Holds(n, e)'
    BY <2>2, <2>3 DEF Holds
  <2> QED
    BY <2>4, <2>5 DEF Holds
<1>4. CASE ReplicateCommits(c)
  <2>1. call[c] \in [at : {"sending", "ok"}, node : Node, entry : Entry, todo : SUBSET Node,
                     acks : SUBSET Node]
    BY <1>0, <1>4, CallTyped DEF ReplicateCommits
  <2>2. call'[c] = [call[c] EXCEPT !.at = "ok"]
    BY <1>0, <1>4 DEF ReplicateCommits, TypeOK
  <2>3. call'[c].node = call[c].node /\ call'[c].entry = call[c].entry /\ call'[c].acks = call[c].acks
    BY <2>1, <2>2
  <2> QED
    BY <1>1, <1>4, <2>3 DEF ReplicateCommits
<1>5. CASE call'[c] = call[c]
  <2>1. call[c].at = "ok" => Cardinality(call[c].acks) >= majority(call[c].node)
    BY <1>0 DEF LInv, Stored
  <2> QED
    BY <1>1, <1>5, <2>1
<1>6. \/ call'[c] = call[c]
      \/ ReplicateCommits(c)
      \/ \E p \in Node : ReplicateTo(c, p)
      \/ \E n \in Node : Replicate(n, c)
  <2>1. ASSUME NEW d \in Call, CallStep(d) \/ \E n \in Node : ReplicateRefused(n, d) \/ Replicate(n, d)
        PROVE call'[c] = call[c] \/ d = c
    BY <1>0, <2>1, Zenon DEF CallStep, ReplicateTo, ReplicateCommits, ReplicateFails, ReplicateRefused,
                      Replicate, TypeOK
  <2>2. ASSUME NEW n \in Node, TaskStep(n) PROVE call' = call
    BY <2>2, TaskStepLeaves
  <2>3. ASSUME NEW n \in Node, Restart(n) PROVE FALSE
    BY <1>0, <2>3 DEF Restart
  <2>4. ASSUME ReplicateFails(c) \/ \E n \in Node : ReplicateRefused(n, c) PROVE FALSE
    BY <1>0, <2>4 DEF ReplicateFails, ReplicateRefused, TypeOK
  <2>5. ASSUME \/ \E n \in Node : Recover(n)
               \/ \E m \in late : DeliverLate(m)
               \/ UNCHANGED vars
        PROVE call' = call
    BY <2>5 DEF Recover, DeliverLate, vars
  <2> QED
    BY <2>1, <2>2, <2>3, <2>4, <2>5 DEF Next, CallStep
<1> QED
  BY <1>2, <1>3, <1>4, <1>5, <1>6

\* The last entry of a log reaches its last index.
LEMMA LastReaches ==
    ASSUME NEW l \in Seq(Entry), NEW k \in Nat, k > 0, k <= LastIndex(l)
    PROVE \E i \in 1..Len(l) : l[i].index >= k
<1>1. l # << >>
  BY DEF LastIndex
<1>2. Len(l) \in 1..Len(l) /\ l[Len(l)] \in Entry
  BY <1>1
<1>3. LastIndex(l) = l[Len(l)].index
  BY <1>1 DEF LastIndex
<1> QED
  BY <1>2, <1>3

LEMMA CommitKept ==
    ASSUME LInv, [Next]_vars
    PROVE CommitWithinLog'
<1> SUFFICES ASSUME restarts' = 0, NEW n \in Node, commit_index'[n] > 0
             PROVE \E i \in 1..Len(log'[n]) : log'[n][i].index >= commit_index'[n]
  BY DEF CommitWithinLog
<1>0. restarts = 0 /\ TypeOK /\ RType /\ TypeOK'
  <2>1. RType /\ TypeOK /\ TypeOK'
    BY NextType DEF LInv, RType
  <2>2. restarts \in Nat
    BY <2>1 DEF TypeOK
  <2> QED
    BY <2>1, <2>2, RestartsCount
<1>1. CASE commit_index'[n] = commit_index[n]
  <2>1. PICK i \in 1..Len(log[n]) : log[n][i].index >= commit_index[n]
    BY <1>0, <1>1 DEF LInv, CommitWithinLog
  <2>2. i \in 1..Len(log'[n]) /\ log'[n][i] = log[n][i]
    BY <1>0, LogGrows DEF Grows
  <2> QED
    BY <1>1, <2>1, <2>2
<1>2. CASE commit_index'[n] <= LastIndex(log'[n])
  <2>1. log'[n] \in Seq(Entry) /\ commit_index'[n] \in Nat
    BY <1>0 DEF TypeOK
  <2> QED
    BY <1>2, <2>1, LastReaches
<1>3. ASSUME NEW c \in Call, ReplicateCommits(c), commit_index'[n] # commit_index[n]
      PROVE \E i \in 1..Len(log'[n]) : log'[n][i].index >= commit_index'[n]
  <2>1. call[c].at = "sending" /\ call[c].node \in Node /\ call[c].entry.index \in Nat
    BY <1>0, <1>3, CallTyped DEF ReplicateCommits, Entry
  <2>2. n = call[c].node /\ commit_index'[n] = call[c].entry.index
    BY <1>0, <1>3, <2>1 DEF ReplicateCommits, TypeOK
  <2>3. Holds(n, call[c].entry)
    BY <1>0, <2>1, <2>2 DEF LInv, Stored
  <2>4. log' = log
    BY <1>3 DEF ReplicateCommits
  <2>5. PICK i \in 1..Len(log[n]) : log[n][i] = call[c].entry
    BY <2>3 DEF Holds
  <2> QED
    BY <2>1, <2>2, <2>4, <2>5
<1>4. ASSUME NEW m \in Request, Handle(m) \/ Abandon(m)
      PROVE commit_index'[n] = commit_index[n] \/ commit_index'[n] <= LastIndex(log'[n])
  BY <1>0, <1>4, HandleLogs DEF Abandon, log_vars
<1>5. ASSUME NEW q \in Node, NEW p \in Node, RequestVote(q, p) \/ Heartbeat(q, p)
      PROVE commit_index'[n] = commit_index[n] \/ commit_index'[n] <= LastIndex(log'[n])
  BY <1>0, <1>4, <1>5, RequestVoteSends, HeartbeatSends DEF RequestVote, Heartbeat
<1>6. ASSUME NEW c \in Call, NEW p \in Node, ReplicateTo(c, p)
      PROVE commit_index'[n] = commit_index[n] \/ commit_index'[n] <= LastIndex(log'[n])
  BY <1>0, <1>4, <1>6, ReplicateToSends DEF ReplicateTo
<1>7. ASSUME NEW m \in late, DeliverLate(m)
      PROVE commit_index'[n] = commit_index[n] \/ commit_index'[n] <= LastIndex(log'[n])
  BY <1>0, <1>4, <1>7 DEF DeliverLate, TypeOK
<1>8. ASSUME NEW q \in Node, Restart(q) PROVE FALSE
  BY <1>0, <1>8 DEF Restart
<1>9. \/ UNCHANGED commit_index
      \/ \E q, p \in Node : RequestVote(q, p) \/ Heartbeat(q, p)
      \/ \E c \in Call : ReplicateCommits(c) \/ \E p \in Node : ReplicateTo(c, p)
      \/ \E m \in late : DeliverLate(m)
  BY <1>8, Zenon DEF Next, vars, log_vars, TaskStep, StartElection, WinElection, LoseElection, ForgetVote,
         StartHeartbeats, EndHeartbeats, CallStep, ReplicateRefused, Replicate, ReplicateFails, Recover
<1> QED
  BY <1>1, <1>2, <1>3, <1>5, <1>6, <1>7, <1>9

LEMMA LogsSafe == Spec => []LInv
<1>1. Init => LInv
  <2>1. Init => Stored
    BY DEF Init, Stored
  <2>2. Init => CommitWithinLog
    BY DEF Init, CommitWithinLog
  <2> QED
    BY <2>1, <2>2, InitType DEF LInv
<1>2. LInv /\ [Next]_vars => LInv'
  BY NextType, StoredKept, CommitKept DEF LInv
<1> QED
  BY <1>1, <1>2, PTL DEF Spec

\* RaftNode::replicate: an entry for which Ok was returned is in the logs of a majority
\* as long as no node restarts, in a cluster of any size.
THEOREM AckedEntriesStored == Spec => []AckedIsStored
<1>1. LInv => AckedIsStored
  BY DEF LInv, Stored, AckedIsStored, Holds
<1> QED
  BY <1>1, LogsSafe, PTL

\* handle_append_entries and replicate never mark an index as committed that the log of
\* the node does not reach, as long as no node restarts.
THEOREM CommitsAreLogged == Spec => []CommitWithinLog
<1>1. LInv => CommitWithinLog
  BY DEF LInv
<1> QED
  BY <1>1, LogsSafe, PTL

----------------------------------------------------------------------------
(* Logs where CoordGrpcService answers: each node has only its own *)

\* The log is numbered without gaps, and neither index nor call is ahead of it.
Own(n) ==
    /\ \A i \in 1..Len(log[n]) : log[n][i].index = i
    /\ commit_index[n] <= last_applied[n] /\ last_applied[n] <= Len(log[n])
    /\ \A c \in Call : call[c].at = "sending" /\ call[c].node = n => call[c].entry.index <= Len(log[n])

OwnInv == RType /\ (Transport = "grpc" => \A n \in Node : Own(n))

LEMMA OwnTypes ==
    ASSUME RType, NEW n \in Node
    PROVE /\ log[n] \in Seq(Entry) /\ Len(log[n]) \in Nat
          /\ commit_index[n] \in Nat /\ last_applied[n] \in Nat
<1>1. /\ log \in [Node -> Seq(Entry)]
      /\ commit_index \in [Node -> Nat] /\ last_applied \in [Node -> Nat]
  BY Zenon DEF RType, TypeOK
<1> QED
  BY <1>1

\* replicate appends the next number.
LEMMA OwnAppend ==
    ASSUME NEW l \in Seq(Entry), \A i \in 1..Len(l) : l[i].index = i,
           NEW e \in Entry, e.index = LastIndex(l) + 1
    PROVE /\ Len(Append(l, e)) = Len(l) + 1 /\ e.index = Len(l) + 1
          /\ \A i \in 1..Len(Append(l, e)) : Append(l, e)[i].index = i
<1>1. Len(l) \in Nat /\ Len(Append(l, e)) = Len(l) + 1
  OBVIOUS
<1>2. LastIndex(l) = Len(l)
  <2>1. CASE l = << >>
    BY <2>1 DEF LastIndex
  <2>2. CASE l # << >>
    <3>1. Len(l) \in 1..Len(l)
      BY <2>2
    <3> QED
      BY <2>2, <3>1 DEF LastIndex
  <2> QED
    BY <2>1, <2>2
<1>3. ASSUME NEW i \in 1..Len(Append(l, e)) PROVE Append(l, e)[i].index = i
  <2>1. CASE i = Len(l) + 1
    <3>1. Append(l, e)[i] = e
      BY <2>1
    <3> QED
      BY <1>2, <2>1, <3>1
  <2>2. CASE i # Len(l) + 1
    <3>1. i \in 1..Len(l)
      BY <1>1, <2>2
    <3>2. Append(l, e)[i] = l[i]
      BY <3>1
    <3> QED
      BY <3>1, <3>2
  <2> QED
    BY <2>1, <2>2
<1> QED
  BY <1>1, <1>2, <1>3

\* A step that leaves the logs alone, and every call its entry.
LEMMA OwnSame ==
    ASSUME NEW n \in Node, Own(n), UNCHANGED log_vars,
           \A c \in Call : call'[c].at = "sending" =>
               call[c].at = "sending" /\ call'[c].node = call[c].node /\ call'[c].entry = call[c].entry
    PROVE Own(n)'
<1>1. log' = log /\ commit_index' = commit_index /\ last_applied' = last_applied
  BY DEF log_vars
<1> QED
  BY <1>1 DEF Own

LEMMA OwnHandle ==
    ASSUME Transport = "grpc", NEW m, Handle(m) \/ Abandon(m)
    PROVE UNCHANGED log_vars
BY DEF Handle, Abandon

LEMMA OwnTaskStep ==
    ASSUME Transport = "grpc", NEW n \in Node, Own(n),
           \/ \E q \in Node : TaskStep(q)
           \/ \E m \in late : DeliverLate(m)
           \/ UNCHANGED vars
    PROVE Own(n)'
<1>1. UNCHANGED log_vars
  <2>1. ASSUME NEW q \in Node, TaskStep(q) PROVE UNCHANGED log_vars
    BY <2>1, OwnHandle, Zenon DEF TaskStep, StartElection, RequestVote, WinElection, LoseElection, ForgetVote,
           StartHeartbeats, Heartbeat, EndHeartbeats
  <2> QED
    BY <2>1, OwnHandle, Zenon DEF DeliverLate, vars
<1>2. call' = call
  BY TaskStepLeaves DEF DeliverLate, vars
<1> QED
  BY <1>1, <1>2, OwnSame

LEMMA OwnCallStep ==
    ASSUME RType, Transport = "grpc", NEW n \in Node, Own(n), NEW d \in Call,
           \/ \E q \in Node : ReplicateRefused(q, d)
           \/ \E p \in Node : ReplicateTo(d, p)
           \/ ReplicateFails(d)
    PROVE Own(n)'
<1>1. UNCHANGED log_vars
  BY OwnHandle, Zenon DEF ReplicateTo, ReplicateRefused, ReplicateFails
<1>2. call \in [Call -> CallState]
  BY DEF RType, TypeOK
<1>3. ASSUME NEW c \in Call, call'[c].at = "sending"
      PROVE  call[c].at = "sending" /\ call'[c].node = call[c].node /\ call'[c].entry = call[c].entry
  <2>1. ASSUME NEW p \in Node, ReplicateTo(d, p)
        PROVE  call[c].at = "sending" /\ call'[c].node = call[c].node /\ call'[c].entry = call[c].entry
    <3>1. PICK acks \in SUBSET Node : call' = [call EXCEPT ![d] = Sending(d, p, acks)]
      BY <2>1, AcksCollected, Zenon DEF RType
    <3>2. call[d].at = "sending"
      BY <2>1 DEF ReplicateTo
    <3> QED
      BY <1>2, <1>3, <3>1, <3>2 DEF Sending
  <2>2. CASE call' = [call EXCEPT ![d] = [at |-> "failed"]]
    BY <1>2, <1>3, <2>2
  <2> QED
    BY <2>1, <2>2 DEF ReplicateRefused, ReplicateFails
<1> QED
  BY <1>1, <1>3, OwnSame

LEMMA OwnReplicate ==
    ASSUME RType, NEW n \in Node, Own(n), NEW q \in Node, NEW d \in Call, Replicate(q, d)
    PROVE Own(n)'
<1>1. PICK e : e = [term |-> term[q], index |-> LastIndex(log[q]) + 1, data |-> d]
  BY Zenon
<1>2. /\ log' = [log EXCEPT ![q] = Append(log[q], e)]
      /\ call' = [call EXCEPT ![d] = [at |-> "sending", node |-> q, entry |-> e,
                                      todo |-> Peers[q], acks |-> {q}]]
      /\ commit_index' = commit_index /\ last_applied' = last_applied
  BY <1>1 DEF Replicate
<1>3. log[q] \in Seq(Entry) /\ e \in Entry /\ e.index = LastIndex(log[q]) + 1
  <2>1. log[q] \in Seq(Entry) /\ term[q] \in Nat
    BY DEF RType, TypeOK
  <2>2. LastIndex(log[q]) \in Nat
    BY <2>1, LastIndexType, Zenon
  <2>3. LastIndex(log[q]) + 1 \in Nat
    BY <2>2
  <2>4. e \in Entry /\ e.index = LastIndex(log[q]) + 1
    BY <1>1, <2>1, <2>3 DEF Entry
  <2> QED
    BY <2>1, <2>4
<1>4. log \in [Node -> Seq(Entry)] /\ call \in [Call -> CallState]
  BY DEF RType, TypeOK
<1>5. /\ commit_index[n] \in Nat /\ last_applied[n] \in Nat /\ Len(log[n]) \in Nat
  BY OwnTypes
<1>6. ASSUME NEW c \in Call \ {d} PROVE call'[c] = call[c]
  BY <1>2, <1>4
<1>7. call'[d].node = q /\ call'[d].entry = e
  BY <1>2, <1>4
<1>8. CASE q # n
  <2>1. log'[n] = log[n]
    BY <1>2, <1>4, <1>8
  <2> QED
    BY <1>2, <1>6, <1>7, <1>8, <2>1 DEF Own
<1>9. CASE q = n
  <2>1. PICK l : l = log'[n]
    BY Zenon
  <2>2. l = Append(log[n], e)
    BY <1>2, <1>4, <1>9, <2>1
  <2>3. Len(l) = Len(log[n]) + 1 /\ e.index = Len(l) /\ \A i \in 1..Len(l) : l[i].index = i
    <3>1. \A i \in 1..Len(log[n]) : log[n][i].index = i
      BY DEF Own
    <3>2. /\ Len(Append(log[n], e)) = Len(log[n]) + 1 /\ e.index = Len(log[n]) + 1
          /\ \A i \in 1..Len(Append(log[n], e)) : Append(log[n], e)[i].index = i
      BY <1>3, <1>9, <3>1, OwnAppend, Zenon
    <3> QED
      BY <2>2, <3>2
  <2>4. commit_index'[n] <= last_applied'[n] /\ last_applied'[n] <= Len(l)
    BY <1>2, <1>5, <2>3 DEF Own
  <2>5. ASSUME NEW c \in Call, call'[c].at = "sending", call'[c].node = n
        PROVE  call'[c].entry.index <= Len(l)
    <3>1. CASE c = d
      BY <1>5, <1>7, <2>3, <3>1
    <3>2. CASE c # d
      <4>1. call[c].at = "sending" /\ call[c].node = n /\ call'[c].entry = call[c].entry
        BY <1>6, <2>5, <3>2
      <4>2. call[c].entry.index <= Len(log[n]) /\ call[c].entry.index \in Nat
        <5>1. call[c].entry.index <= Len(log[n])
          BY <4>1, Zenon DEF Own
        <5>2. call[c].entry \in Entry
          BY <4>1, CallTyped DEF RType
        <5> QED
          BY <5>1, <5>2 DEF Entry
      <4> QED
        BY <1>5, <2>3, <4>1, <4>2
    <3> QED
      BY <3>1, <3>2
  <2> QED
    BY <2>1, <2>3, <2>4, <2>5 DEF Own
<1> QED
  BY <1>8, <1>9

LEMMA OwnCommits ==
    ASSUME RType, NEW n \in Node, Own(n), NEW d \in Call, ReplicateCommits(d)
    PROVE Own(n)'
<1>1. /\ call[d] \in [at : {"sending", "ok"}, node : Node, entry : Entry, todo : SUBSET Node,
                      acks : SUBSET Node]
      /\ call[d].at = "sending"
  BY CallTyped DEF ReplicateCommits, RType
<1>2. PICK q \in Node, k \in Nat : q = call[d].node /\ k = call[d].entry.index
  BY <1>1 DEF Entry
<1>3. /\ log' = log /\ commit_index' = [commit_index EXCEPT ![q] = k]
      /\ last_applied' = [last_applied EXCEPT ![q] = IF @ < k THEN k ELSE @]
      /\ call' = [call EXCEPT ![d].at = "ok"]
  BY <1>2 DEF ReplicateCommits
<1>4. /\ commit_index \in [Node -> Nat] /\ last_applied \in [Node -> Nat]
      /\ call \in [Call -> CallState]
  BY DEF RType, TypeOK
<1>5. commit_index[n] \in Nat /\ last_applied[n] \in Nat /\ Len(log[n]) \in Nat
  BY OwnTypes
<1>6. call'[d].at = "ok" /\ \A c \in Call \ {d} : call'[c] = call[c]
  BY <1>1, <1>3, <1>4
<1>7. commit_index'[n] <= last_applied'[n] /\ last_applied'[n] <= Len(log[n])
  <2>1. CASE q = n
    <3>1. k <= Len(log[n]) /\ last_applied[n] <= Len(log[n])
      BY <1>1, <1>2, <2>1 DEF Own
    <3>2. commit_index'[n] = k /\ last_applied'[n] = IF last_applied[n] < k THEN k ELSE last_applied[n]
      BY <1>3, <1>4, <2>1
    <3> QED
      BY <1>5, <3>1, <3>2
  <2>2. CASE q # n
    BY <1>3, <1>4, <2>2 DEF Own
  <2> QED
    BY <2>1, <2>2
<1> QED
  BY <1>3, <1>6, <1>7 DEF Own

LEMMA OwnRestart ==
    ASSUME RType, NEW n \in Node, Own(n), NEW q \in Node, Recover(q) \/ Restart(q)
    PROVE Own(n)'
<1>1. /\ commit_index \in [Node -> Nat] /\ last_applied \in [Node -> Nat]
      /\ call \in [Call -> CallState] /\ log \in [Node -> Seq(Entry)]
  BY DEF RType, TypeOK
<1>2. commit_index[n] \in Nat /\ last_applied[n] \in Nat /\ Len(log[n]) \in Nat
  BY OwnTypes
<1>3. CASE Recover(q)
  <2>1. log' = log /\ commit_index' = commit_index /\ call' = call
    BY <1>3 DEF Recover
  <2>2. last_applied'[n] = last_applied[n] \/ last_applied'[n] = commit_index[n]
    BY <1>1, <1>3 DEF Recover
  <2> QED
    BY <1>2, <2>1, <2>2 DEF Own
<1>4. CASE Restart(q)
  <2>0. /\ log' = [log EXCEPT ![q] = << >>]
        /\ commit_index' = [commit_index EXCEPT ![q] = 0] /\ last_applied' = [last_applied EXCEPT ![q] = 0]
    BY <1>4, Zenon DEF Restart
  <2>1. ASSUME NEW c \in Call, call'[c].at = "sending"
        PROVE  call'[c] = call[c] /\ call[c].node # q
    BY <1>4, <2>1 DEF Restart
  <2>2. CASE q = n
    <3>1. commit_index'[n] = 0 /\ last_applied'[n] = 0 /\ log'[n] = << >>
      BY <1>1, <2>0, <2>2
    <3>2. Len(log'[n]) = 0
      BY <3>1
    <3>3. commit_index'[n] <= last_applied'[n] /\ last_applied'[n] <= Len(log'[n])
      BY <3>1, <3>2
    <3>4. \A i \in 1..Len(log'[n]) : log'[n][i].index = i
      BY <3>2
    <3>5. \A c \in Call : ~(call'[c].at = "sending" /\ call'[c].node = n)
      BY <2>1, <2>2
    <3> QED
      BY <3>3, <3>4, <3>5, Zenon DEF Own
  <2>3. CASE q # n
    <3>1. /\ commit_index'[n] = commit_index[n] /\ last_applied'[n] = last_applied[n]
          /\ log'[n] = log[n]
      BY <1>1, <2>0, <2>3
    <3> QED
      BY <2>1, <3>1 DEF Own
  <2> QED
    BY <2>2, <2>3
<1> QED
  BY <1>3, <1>4

\* replicate, recover and restarts behind CoordGrpcService: what is committed is applied
\* and what is applied is in the log, with any number of overlapping calls.
THEOREM AppliedIsLogged == Spec => []AppliedWithinLog
<1>1. Init => OwnInv
  <2> SUFFICES ASSUME Init, NEW n \in Node PROVE Own(n)
    BY InitType DEF OwnInv
  <2>1. log[n] = << >> /\ commit_index[n] = 0 /\ last_applied[n] = 0
    BY DEF Init
  <2>2. Len(log[n]) = 0
    BY <2>1
  <2>3. \A c \in Call : call[c].at = "new"
    BY DEF Init
  <2> QED
    BY <2>1, <2>2, <2>3 DEF Own
<1>2. OwnInv /\ [Next]_vars => OwnInv'
  <2> SUFFICES ASSUME OwnInv, [Next]_vars, Transport = "grpc", NEW n \in Node PROVE Own(n)'
    BY NextType DEF OwnInv
  <2>1. RType /\ Own(n)
    BY DEF OwnInv
  <2>2. ASSUME NEW d \in Call, CallStep(d) \/ \E q \in Node : ReplicateRefused(q, d) \/ Replicate(q, d)
        PROVE  Own(n)'
    BY <2>1, <2>2, OwnCallStep, OwnReplicate, OwnCommits DEF CallStep
  <2>3. CASE \/ \E q \in Node : TaskStep(q)
             \/ \E m \in late : DeliverLate(m)
             \/ UNCHANGED vars
    BY <2>1, <2>3, OwnTaskStep
  <2> QED
    BY <2>1, <2>2, <2>3, OwnRestart DEF Next
<1>3. OwnInv => AppliedWithinLog
  BY DEF OwnInv, Own, AppliedWithinLog
<1> QED
  BY <1>1, <1>2, <1>3, PTL DEF Spec

----------------------------------------------------------------------------
(* Leaders *)

\* A leader is in no election.
LeaderIdle(n) == role[n] = "leader" => task[n].at \in {"idle", "heartbeat"}

LeaderInv == RType /\ \A n \in Node : LeaderIdle(n)

\* A leader stays one.
Stays(n) == role[n] = "leader" => role'[n] = "leader"

LEMMA TaskLeaders ==
    ASSUME RType, NEW n \in Node, LeaderIdle(n), NEW q \in Node, TaskStep(q)
    PROVE Stays(n) /\ LeaderIdle(n)'
<1>1. role \in [Node -> {"follower", "candidate", "leader"}] /\ task \in [Node -> Task] /\ TypeOK
  BY Zenon DEF RType, TypeOK
<1>2. CASE role'[n] = role[n] /\ task'[n] = task[n]
  BY <1>2 DEF Stays, LeaderIdle
<1>3. CASE StartElection(q)
  BY <1>1, <1>3 DEF StartElection, Stays, LeaderIdle
<1>4. ASSUME NEW p \in Node, RequestVote(q, p) PROVE Stays(n) /\ LeaderIdle(n)'
  <2>1. PICK votes \in SUBSET Node : task' = [task EXCEPT ![q] = Election(q, p, votes)]
    BY <1>1, <1>4, VotesCollected, Zenon
  <2>2. role' = role /\ task[q].at = "election"
    BY <1>4 DEF RequestVote
  <2> QED
    BY <1>1, <2>1, <2>2 DEF Stays, LeaderIdle
<1>5. CASE WinElection(q)
  BY <1>1, <1>5 DEF WinElection, Stays, LeaderIdle, Idle
<1>6. CASE LoseElection(q)
  BY <1>1, <1>6 DEF LoseElection, Stays, LeaderIdle
<1>7. CASE ForgetVote(q)
  BY <1>1, <1>7 DEF ForgetVote, Stays, LeaderIdle, Idle
<1>8. CASE StartHeartbeats(q)
  BY <1>1, <1>8 DEF StartHeartbeats, Stays, LeaderIdle
<1>9. ASSUME NEW p \in Node, Heartbeat(q, p) PROVE Stays(n) /\ LeaderIdle(n)'
  <2>1. /\ task[q].at = "heartbeat" /\ role' = role
        /\ task' = [task EXCEPT ![q] = [task[q] EXCEPT !.todo = @ \ {p}]]
    BY <1>9 DEF Heartbeat
  <2>2. task[q] \in [at : {"heartbeat"}, term : Nat, prev : Nat, todo : SUBSET Node]
    BY <1>1, <2>1, TaskTyped
  <2>3. [task[q] EXCEPT !.todo = @ \ {p}].at = "heartbeat"
    BY <2>2
  <2> QED
    BY <1>1, <2>1, <2>3 DEF Stays, LeaderIdle
<1>10. CASE EndHeartbeats(q)
  BY <1>1, <1>10 DEF EndHeartbeats, Stays, LeaderIdle, Idle
<1> QED
  BY <1>3, <1>4, <1>5, <1>6, <1>7, <1>8, <1>9, <1>10 DEF TaskStep

LEMMA StepLeaders ==
    ASSUME LeaderInv, [Next]_vars, NEW n \in Node
    PROVE (Stays(n) \/ restarts' # restarts) /\ LeaderIdle(n)'
<1>1. RType /\ LeaderIdle(n)
  BY DEF LeaderInv
<1>2. CASE UNCHANGED <<role, task>>
  BY <1>1, <1>2 DEF Stays, LeaderIdle
<1>3. ASSUME NEW q \in Node, TaskStep(q) PROVE Stays(n) /\ LeaderIdle(n)'
  BY <1>1, <1>3, TaskLeaders
<1>4. ASSUME NEW q \in Node, Restart(q) PROVE restarts' # restarts /\ LeaderIdle(n)'
  <2>1. restarts \in Nat /\ role \in [Node -> {"follower", "candidate", "leader"}] /\ task \in [Node -> Task]
    BY <1>1, Zenon DEF RType, TypeOK
  <2> QED
    BY <1>1, <1>4, <2>1 DEF Restart, LeaderIdle
<1>5. UNCHANGED <<role, task>> \/ \E q \in Node : TaskStep(q) \/ Restart(q)
  BY Zenon DEF Next, vars, CallStep, ReplicateTo, ReplicateCommits, ReplicateFails, ReplicateRefused,
         Replicate, Recover, DeliverLate
<1> QED
  BY <1>2, <1>3, <1>4, <1>5

\* start_raft_tasks, step_down and the handlers: only a restart makes a leader a follower.
THEOREM LeadersKeepTheRole == Spec => LeadersStay
<1>1. Init => LeaderInv
  BY InitType DEF Init, LeaderInv, LeaderIdle
<1>2. LeaderInv /\ [Next]_vars => LeaderInv'
  BY NextType, StepLeaders DEF LeaderInv
<1>3. LeaderInv /\ [Next]_vars =>
        [\A n \in Node : role[n] = "leader" => role'[n] = "leader" \/ restarts' # restarts]_vars
  BY StepLeaders DEF Stays
<1> QED
  BY <1>1, <1>2, <1>3, PTL DEF Spec, LeadersStay

----------------------------------------------------------------------------
(* Elections: at most one node wins a term while no node loses a promise *)

\* No node asks itself for its vote.
AsksOthers ==
    /\ \A m \in late : m.kind = "vote" => m.from # m.to
    /\ \A n \in Node : task[n].at = "election" => n \notin task[n].todo

\* A node has granted votes for no term later than its own, those of its own term to
\* the node that voted_for names, and one in every term.
GrantsOK ==
    /\ \A v \in Node, t \in Nat, c \in Node : <<v, t, c>> \in granted =>
           t <= term[v] /\ (t = term[v] => voted_for[v] = c)
    /\ \A v \in Node, t \in Nat, c, d \in Node :
           <<v, t, c>> \in granted /\ <<v, t, d>> \in granted => c = d

\* While a node is a candidate or steps down, it has not won the election, it has not
\* voted for itself in a later one, and the votes it has collected stand.
ElectionOK(n) ==
    /\ task[n].at \in {"election", "step_down"} =>
           /\ task[n].term <= term[n]
           /\ <<n, task[n].term>> \notin won
           /\ \A t \in Nat : <<n, t, n>> \in granted => t <= task[n].term
    /\ task[n].at = "election" => \A v \in task[n].votes : <<v, task[n].term, n>> \in granted

\* The votes with which n won the election of term t stand.
WonOK(n, t) ==
    /\ t <= term[n]
    /\ \E Q \in SUBSET Node : /\ Cardinality(Q) >= majority(n)
                               /\ \A v \in Q : <<v, t, n>> \in granted

Honest == Transport = "direct" /\ forgetful = {}

Elections ==
    /\ GrantsOK
    /\ \A n \in Node : ElectionOK(n)
    /\ \A n \in Node, t \in Nat : <<n, t>> \in won => WonOK(n, t)

VInv == RType /\ AsksOthers /\ (Honest => Elections)

\* What handling a request does to the votes.
LEMMA HandleGrants ==
    ASSUME TypeOK, Transport = "direct", GrantsOK, NEW m \in Request, Handle(m)
    PROVE /\ GrantsOK'
          /\ \A q \in Node : term[q] <= term'[q]
          /\ granted \subseteq granted'
          /\ granted' \subseteq granted \cup (IF m.kind = "vote" THEN {<<m.to, m.term, m.from>>} ELSE {})
          /\ m.kind = "vote" /\ Agrees(m) => <<m.to, m.term, m.from>> \in granted'
<1>1. CASE m.kind = "append"
  <2>1. m.to \in Node /\ m.term \in Nat
    BY <1>1 DEF Request
  <2>2. /\ term' = [term EXCEPT ![m.to] = IF m.term > @ THEN m.term ELSE @]
        /\ voted_for' = voted_for /\ granted' = granted
    BY <1>1 DEF Handle, handle_append_entries
  <2>3. \A q \in Node : term[q] <= term'[q] /\ term[q] \in Nat /\ term'[q] \in Nat
    BY <2>1, <2>2 DEF TypeOK
  <2>4. GrantsOK'
    BY <2>2, <2>3, SMTT(30) DEF GrantsOK
  <2> QED
    BY <1>1, <2>2, <2>3, <2>4
<1>2. CASE m.kind = "vote"
  <2>1. m.to \in Node /\ m.from \in Node /\ m.term \in Nat /\ None \notin Node
    BY <1>2, NodeAssumption DEF Request
  <2> DEFINE p == m.to
             t == m.term
             c == m.from
             g == GrantsVote(p, t, c)
  <2>2. /\ term' = [term EXCEPT ![p] = IF t > @ THEN t ELSE @]
        /\ voted_for' = [voted_for EXCEPT ![p] = IF g THEN c ELSE @]
        /\ granted' = IF g THEN granted \cup {<<p, t, c>>} ELSE granted
    BY <1>2 DEF Handle, handle_request_vote
  <2>3. g => t > term[p] \/ (t = term[p] /\ voted_for[p] \in {None, c})
    BY DEF GrantsVote
  <2>4. \A q \in Node : term[q] <= term'[q] /\ term[q] \in Nat /\ term'[q] \in Nat
    BY <2>1, <2>2, SMTT(30) DEF TypeOK
  <2>5. Agrees(m) => g
    BY <1>2 DEF Agrees
  <2>6. GrantsOK'
    <3> HIDE DEF p, t, c, g
    <3>0. p \in Node /\ c \in Node /\ t \in Nat /\ None \notin Node
      BY <2>1 DEF p, t, c
    <3>1. CASE ~g
      <4>1. granted' = granted /\ voted_for' = voted_for
        BY <2>2, <3>1 DEF TypeOK
      <4> QED
        BY <2>4, <4>1 DEF GrantsOK
    <3>2. CASE g
      <4>1. granted' = granted \cup {<<p, t, c>>} /\ voted_for' = [voted_for EXCEPT ![p] = c]
        BY <2>2, <3>2
      <4>2. term'[p] = t /\ \A q \in Node \ {p} : term'[q] = term[q]
        BY <2>2, <2>3, <3>0, <3>2 DEF TypeOK
      <4>3. \A d \in Node : <<p, t, d>> \in granted => d = c
        BY <2>3, <2>4, <3>0, <3>2 DEF GrantsOK
      <4>4. ASSUME NEW v \in Node, NEW s \in Nat, NEW d \in Node, <<v, s, d>> \in granted'
            PROVE s <= term'[v] /\ (s = term'[v] => voted_for'[v] = d)
        <5>1. CASE <<v, s, d>> = <<p, t, c>>
          BY <3>0, <4>1, <4>2, <5>1 DEF TypeOK
        <5>2. CASE <<v, s, d>> \in granted /\ v # p
          BY <4>1, <4>2, <5>2 DEF GrantsOK, TypeOK
        <5>3. CASE <<v, s, d>> \in granted /\ v = p
          <6>1. s <= term[p] /\ term[p] <= t
            BY <2>3, <2>4, <3>0, <3>2, <5>3 DEF GrantsOK
          <6>2. s = t => d = c
            BY <4>3, <5>3
          <6> QED
            BY <2>4, <3>0, <4>1, <4>2, <5>3, <6>1, <6>2, SMTT(30) DEF TypeOK
        <5> QED
          BY <4>1, <4>4, <5>1, <5>2, <5>3
      <4>5. ASSUME NEW v \in Node, NEW s \in Nat, NEW d \in Node, NEW e \in Node,
                   <<v, s, d>> \in granted', <<v, s, e>> \in granted'
            PROVE d = e
        BY <4>1, <4>3, <4>5 DEF GrantsOK
      <4> QED
        BY <4>4, <4>5 DEF GrantsOK
    <3> QED
      BY <3>1, <3>2
  <2> QED
    BY <1>2, <2>2, <2>4, <2>5, <2>6
<1> QED
  BY <1>1, <1>2 DEF Request

LEMMA AsksKept ==
    ASSUME RType, AsksOthers, [Next]_vars
    PROVE AsksOthers'
<1>0. TypeOK
  BY DEF RType
<1>1. CASE UNCHANGED <<task, late>>
  BY <1>1 DEF AsksOthers
<1>2. ASSUME NEW m \in Request, m.kind = "append", (Handle(m) /\ UNCHANGED late) \/ Abandon(m),
             \A n \in Node : task'[n].at = "election" => task'[n] = task[n]
      PROVE AsksOthers'
  BY <1>2 DEF AsksOthers, Abandon
<1>3. ASSUME NEW n \in Node, TaskStep(n) PROVE AsksOthers'
  <2>1. CASE StartElection(n)
    BY <1>0, <2>1, PeersAssumption DEF StartElection, AsksOthers, TypeOK
  <2>2. ASSUME NEW p \in Node, RequestVote(n, p) PROVE AsksOthers'
    <3>1. p # n
      BY <2>2 DEF RequestVote, AsksOthers
    <3>2. \A m \in late' : m \in late \/ m = VoteRequest(n, p, task[n].term)
      BY <2>2 DEF RequestVote, Abandon
    <3>3. PICK votes : task' = [task EXCEPT ![n] = Election(n, p, votes)]
      BY <1>0, <2>2, VotesCollected
    <3>4. n \notin task'[n].todo /\ \A q \in Node \ {n} : task'[q] = task[q]
      BY <1>0, <2>2, <3>3 DEF Election, TypeOK, RequestVote, AsksOthers
    <3>5. VoteRequest(n, p, task[n].term).from = n /\ VoteRequest(n, p, task[n].term).to = p
      BY DEF VoteRequest
    <3>6. \A m \in late' : m.kind = "vote" => m.from # m.to
      BY <3>1, <3>2, <3>5, Zenon DEF AsksOthers
    <3>7. \A q \in Node : task'[q].at = "election" => q \notin task'[q].todo
      BY <3>4, Zenon DEF AsksOthers
    <3> QED
      BY <3>6, <3>7, Zenon DEF AsksOthers
  <2>3. CASE WinElection(n)
    BY <1>0, <2>3 DEF WinElection, AsksOthers, TypeOK, Idle
  <2>4. CASE LoseElection(n)
    BY <1>0, <2>4 DEF LoseElection, AsksOthers, TypeOK
  <2>5. CASE ForgetVote(n)
    BY <1>0, <2>5 DEF ForgetVote, AsksOthers, TypeOK, Idle
  <2>6. CASE StartHeartbeats(n)
    BY <1>0, <2>6 DEF StartHeartbeats, AsksOthers, TypeOK
  <2>7. ASSUME NEW p \in Node, Heartbeat(n, p) PROVE AsksOthers'
    <3> DEFINE m == AppendRequest(n, p, task[n].term, task[n].prev, << >>, task[n].prev)
    <3>1. m \in Request /\ m.kind = "append" /\ ((Handle(m) /\ UNCHANGED late) \/ Abandon(m))
      BY <1>0, <2>7, HeartbeatSends, Zenon DEF Heartbeat, AppendRequest
    <3>2. task[n] \in [at : {"heartbeat"}, term : Nat, prev : Nat, todo : SUBSET Node]
      BY <1>0, <2>7, TaskTyped DEF Heartbeat
    <3>3. task' = [task EXCEPT ![n].todo = @ \ {p}]
      BY <2>7 DEF Heartbeat
    <3>4. \A q \in Node : task'[q].at = "election" => task'[q] = task[q]
      BY <1>0, <3>2, <3>3 DEF TypeOK
    <3> HIDE DEF m
    <3> QED
      BY <1>2, <3>1, <3>4
  <2>8. CASE EndHeartbeats(n)
    BY <1>0, <2>8 DEF EndHeartbeats, AsksOthers, TypeOK, Idle
  <2> QED
    BY <1>3, <2>1, <2>2, <2>3, <2>4, <2>5, <2>6, <2>7, <2>8 DEF TaskStep
<1>4. ASSUME NEW c \in Call, NEW p \in Node, ReplicateTo(c, p) PROVE AsksOthers'
  <2> DEFINE m == AppendRequest(call[c].node, p, call[c].entry.term, call[c].entry.index - 1,
                                <<call[c].entry>>, call[c].entry.index)
  <2>1. m \in Request /\ m.kind = "append" /\ ((Handle(m) /\ UNCHANGED late) \/ Abandon(m))
    BY <1>4, ReplicateToSends DEF ReplicateTo, AppendRequest
  <2>2. task' = task
    BY <1>4 DEF ReplicateTo
  <2> HIDE DEF m
  <2> QED
    BY <1>2, <2>1, <2>2
<1>5. ASSUME NEW n \in Node, Restart(n) PROVE AsksOthers'
  BY <1>0, <1>5 DEF Restart, AsksOthers, TypeOK, Idle
<1>6. ASSUME NEW m \in late, DeliverLate(m) PROVE AsksOthers'
  BY <1>6 DEF DeliverLate, AsksOthers
<1> QED
  BY <1>1, <1>3, <1>4, <1>5, <1>6, Zenon
     DEF Next, vars, CallStep, ReplicateRefused, Replicate, ReplicateCommits, ReplicateFails, Recover

----------------------------------------------------------------------------

\* Terms only rise, votes stand, and no node votes for itself.
VotesMove ==
    /\ GrantsOK'
    /\ \A q \in Node : term[q] <= term'[q]
    /\ granted \subseteq granted'
    /\ \A q \in Node, t \in Nat : <<q, t, q>> \in granted' => <<q, t, q>> \in granted

LEMMA ElectionKept ==
    ASSUME TypeOK, TypeOK', VotesMove, NEW n \in Node, task'[n] = task[n], won' = won, ElectionOK(n)
    PROVE ElectionOK(n)'
<1>1. term[n] \in Nat /\ term'[n] \in Nat /\ term[n] <= term'[n]
  BY DEF TypeOK, VotesMove
<1>2. task[n].at \in {"election", "step_down"} => task[n].term \in Nat
  BY TaskTyped
<1> QED
  BY <1>1, <1>2 DEF ElectionOK, VotesMove

\* What a candidate relies on stands when nothing of it moves, and an idle node relies on nothing.
LEMMA ElectionUnmoved ==
    ASSUME NEW q \in Node, ElectionOK(q), task'[q] = task[q], term'[q] = term[q],
           \A t : <<q, t>> \in won' <=> <<q, t>> \in won,
           \A v, t : <<v, t, q>> \in granted' <=> <<v, t, q>> \in granted
    PROVE ElectionOK(q)'
BY DEF ElectionOK

LEMMA IdleElection ==
    ASSUME NEW q \in Node, task'[q] = Idle
    PROVE ElectionOK(q)'
BY DEF ElectionOK, Idle

LEMMA WonKept ==
    ASSUME TypeOK, TypeOK', NEW n \in Node, NEW t \in Nat, WonOK(n, t),
           term[n] <= term'[n], \A v \in Node : <<v, t, n>> \in granted => <<v, t, n>> \in granted'
    PROVE WonOK(n, t)'
<1>1. term[n] \in Nat /\ term'[n] \in Nat
  BY DEF TypeOK
<1> QED
  BY <1>1 DEF WonOK, majority

\* A request that is handled keeps what elections rely on.
LEMMA HandleVotes ==
    ASSUME TypeOK, TypeOK', Transport = "direct", Elections, NEW m \in Request,
           m.kind = "vote" => m.from # m.to, Handle(m) \/ Abandon(m)
    PROVE VotesMove
<1>0. GrantsOK /\ \A q \in Node : term[q] \in Nat
  BY DEF Elections, TypeOK
<1>1. CASE Handle(m)
  <2>1. /\ GrantsOK'
        /\ \A q \in Node : term[q] <= term'[q]
        /\ granted \subseteq granted'
        /\ granted' \subseteq granted \cup (IF m.kind = "vote" THEN {<<m.to, m.term, m.from>>} ELSE {})
    BY <1>0, <1>1, HandleGrants, Zenon
  <2> QED
    BY <2>1 DEF VotesMove
<1>2. CASE Abandon(m)
  <2>1. UNCHANGED <<term, voted_for, granted>>
    BY <1>2 DEF Abandon, vote_vars
  <2>2. GrantsOK'
    BY <1>0, <2>1 DEF GrantsOK
  <2> QED
    BY <1>0, <2>1, <2>2 DEF VotesMove
<1> QED
  BY <1>1, <1>2

\* A step that lets no candidate win keeps what elections rely on, if it keeps the tasks
\* of the candidates.
LEMMA VotesMoved ==
    ASSUME TypeOK, TypeOK', Elections, VotesMove, won' = won,
           \A n \in Node : task'[n] = task[n] \/ task'[n].at \notin {"election", "step_down"}
    PROVE Elections'
<1>1. \A n \in Node : ElectionOK(n)'
  <2> TAKE n \in Node
  <2>1. CASE task'[n] = task[n]
    BY <2>1, ElectionKept DEF Elections
  <2>2. CASE task'[n].at \notin {"election", "step_down"}
    BY <2>2 DEF ElectionOK
  <2> QED
    BY <2>1, <2>2
<1>2. \A n \in Node, t \in Nat : <<n, t>> \in won' => WonOK(n, t)'
  <2> SUFFICES ASSUME NEW n \in Node, NEW t \in Nat, <<n, t>> \in won PROVE WonOK(n, t)'
    OBVIOUS
  <2> QED
    BY WonKept DEF Elections, VotesMove
<1> QED
  BY <1>1, <1>2 DEF Elections, VotesMove

LEMMA StartElectionKeeps ==
    ASSUME TypeOK, TypeOK', Elections, NEW n \in Node, StartElection(n)
    PROVE Elections'
<1> DEFINE T == term[n] + 1
<1>1. /\ term' = [term EXCEPT ![n] = T]
      /\ voted_for' = [voted_for EXCEPT ![n] = n]
      /\ task' = [task EXCEPT ![n] = [at |-> "election", term |-> T, todo |-> Peers[n], votes |-> {n}]]
      /\ granted' = granted \cup {<<n, T, n>>}
      /\ won' = won
  BY DEF StartElection
<1>2. term[n] \in Nat /\ T \in Nat /\ T > term[n] /\ \A q \in Node : term[q] \in Nat
  BY SMTT(30) DEF TypeOK
<1> HIDE DEF T
<1>3. term'[n] = T /\ voted_for'[n] = n
      /\ \A q \in Node \ {n} : term'[q] = term[q] /\ voted_for'[q] = voted_for[q]
  BY <1>1 DEF TypeOK
<1>4. \A q \in Node : term[q] <= term'[q]
  BY <1>2, <1>3
<1>5. \A t \in Nat, d \in Node : <<n, t, d>> \in granted => t < T
  <2>1. \A t \in Nat, d \in Node : <<n, t, d>> \in granted => t <= term[n]
    BY Zenon DEF Elections, GrantsOK
  <2> QED
    BY <1>2, <2>1
<1>6. GrantsOK'
  <2>1. ASSUME NEW v \in Node, NEW t \in Nat, NEW c \in Node, <<v, t, c>> \in granted'
        PROVE t <= term'[v] /\ (t = term'[v] => voted_for'[v] = c)
    <3>1. CASE v = n
      BY <1>1, <1>2, <1>3, <1>5, <2>1, <3>1, SMTT(30)
    <3>2. CASE v # n
      <4>1. <<v, t, c>> \in granted /\ term'[v] = term[v] /\ voted_for'[v] = voted_for[v]
        BY <1>1, <1>3, <2>1, <3>2
      <4>2. t <= term[v] /\ (t = term[v] => voted_for[v] = c)
        BY <4>1, Zenon DEF Elections, GrantsOK
      <4> QED
        BY <4>1, <4>2
    <3> QED
      BY <3>1, <3>2
  <2>2. ASSUME NEW v \in Node, NEW t \in Nat, NEW c \in Node, NEW d \in Node,
               <<v, t, c>> \in granted', <<v, t, d>> \in granted'
        PROVE c = d
    <3>1. CASE <<v, t, c>> \in granted /\ <<v, t, d>> \in granted
      BY <3>1 DEF Elections, GrantsOK
    <3>2. CASE v = n /\ t = T
      BY <1>1, <1>2, <1>5, <2>2, <3>2
    <3> QED
      BY <1>1, <2>2, <3>1, <3>2
  <2> QED
    BY <2>1, <2>2 DEF GrantsOK
<1>7. <<n, T>> \notin won
  BY <1>2 DEF Elections, WonOK
<1>8. \A q \in Node : ElectionOK(q)'
  <2> TAKE q \in Node
  <2>1. CASE q = n
    <3>1. task'[n] = [at |-> "election", term |-> T, todo |-> Peers[n], votes |-> {n}]
      BY <1>1 DEF TypeOK
    <3>2. \A t \in Nat : <<n, t, n>> \in granted' => t <= T
      BY <1>1, <1>2, <1>5
    <3> QED
      BY <1>1, <1>2, <1>3, <1>7, <2>1, <3>1, <3>2 DEF ElectionOK
  <2>2. CASE q # n
    <3>1. task'[q] = task[q] /\ term'[q] = term[q] /\ won' = won
      BY <1>1, <1>3, <2>2 DEF TypeOK
    <3>2. granted \subseteq granted' /\ \A t \in Nat : <<q, t, q>> \in granted' => <<q, t, q>> \in granted
      BY <1>1, <2>2
    <3> QED
      BY <3>1, <3>2 DEF ElectionOK, Elections
  <2> QED
    BY <2>1, <2>2
<1>9. ASSUME NEW q \in Node, NEW t \in Nat, <<q, t>> \in won' PROVE WonOK(q, t)'
  BY <1>1, <1>4, <1>9, WonKept DEF Elections
<1> QED
  BY <1>6, <1>8, <1>9 DEF Elections

LEMMA RequestVoteKeeps ==
    ASSUME TypeOK, TypeOK', AsksOthers, Transport = "direct", Elections,
           NEW n \in Node, NEW p \in Node, RequestVote(n, p)
    PROVE Elections'
<1> DEFINE m == VoteRequest(n, p, task[n].term)
<1>1. task[n] \in [at : {"election"}, term : Nat, todo : SUBSET Node, votes : SUBSET Node]
  BY TaskTyped DEF RequestVote
<1>2. m \in Request /\ m.kind = "vote" /\ m.to = p /\ m.from = n /\ m.term = task[n].term /\ p # n
  BY RequestVoteSends DEF VoteRequest, RequestVote, AsksOthers
<1>3. (Handle(m) \/ Abandon(m)) /\ won' = won
  BY DEF RequestVote
<1>4. PICK votes \in SUBSET Node :
          /\ task' = [task EXCEPT ![n] = Election(n, p, votes)]
          /\ votes = task[n].votes \/ (Handle(m) /\ Agrees(m) /\ votes = task[n].votes \cup {p})
  BY VotesCollected
<1> HIDE DEF m
<1>5. VotesMove
  BY <1>2, <1>3, HandleVotes
<1>6. \A v \in votes : <<v, task[n].term, n>> \in granted'
  <2>1. \A v \in task[n].votes : <<v, task[n].term, n>> \in granted'
    BY <1>1, <1>5, Zenon DEF Elections, ElectionOK, VotesMove
  <2>2. CASE votes = task[n].votes
    BY <2>1, <2>2
  <2>3. CASE Handle(m) /\ Agrees(m) /\ votes = task[n].votes \cup {p}
    <3>1. <<p, task[n].term, n>> \in granted'
      BY <1>2, <2>3, HandleGrants DEF Elections
    <3> QED
      BY <2>1, <2>3, <3>1
  <2> QED
    BY <1>4, <2>2, <2>3
<1>7. /\ task'[n].at = "election" /\ task'[n].term = task[n].term /\ task'[n].votes = votes
      /\ \A q \in Node \ {n} : task'[q] = task[q]
  BY <1>4 DEF Election, TypeOK
<1>8. \A q \in Node : ElectionOK(q)'
  <2> TAKE q \in Node
  <2>1. CASE q # n
    BY <1>3, <1>5, <1>7, <2>1, ElectionKept, Zenon DEF Elections
  <2>2. CASE q = n
    <3>0. task[n].term <= term[n] /\ term[n] <= term'[n]
      BY <1>1, <1>5, Zenon DEF Elections, ElectionOK, VotesMove
    <3>1. task[n].term <= term'[n]
      <4>1. task[n].term \in Nat /\ term[n] \in Nat /\ term'[n] \in Nat
        BY <1>1 DEF TypeOK
      <4> QED
        BY <3>0, <4>1
    <3>2. <<n, task[n].term>> \notin won'
      BY <1>1, <1>3 DEF Elections, ElectionOK
    <3>3. \A t \in Nat : <<n, t, n>> \in granted' => t <= task[n].term
      BY <1>1, <1>5, Zenon DEF Elections, ElectionOK, VotesMove
    <3> QED
      BY <1>6, <1>7, <2>2, <3>1, <3>2, <3>3 DEF ElectionOK
  <2> QED
    BY <2>1, <2>2
<1>9. ASSUME NEW q \in Node, NEW t \in Nat, <<q, t>> \in won' PROVE WonOK(q, t)'
  BY <1>3, <1>5, <1>9, WonKept DEF Elections, VotesMove
<1> QED
  BY <1>5, <1>8, <1>9, Zenon DEF Elections, VotesMove

LEMMA WinElectionKeeps ==
    ASSUME TypeOK, TypeOK', Elections, NEW n \in Node, WinElection(n)
    PROVE Elections'
<1>1. task[n] \in [at : {"election"}, term : Nat, todo : SUBSET Node, votes : SUBSET Node]
  BY TaskTyped DEF WinElection
<1>2. /\ UNCHANGED <<term, voted_for, granted>>
      /\ won' = won \cup {<<n, task[n].term>>}
      /\ task' = [task EXCEPT ![n] = Idle]
      /\ Cardinality(task[n].votes) >= majority(n)
  BY DEF WinElection, vote_vars
<1>3. GrantsOK'
  BY <1>2 DEF Elections, GrantsOK
<1>4. \A q \in Node : ElectionOK(q)'
  <2> TAKE q \in Node
  <2>1. CASE q = n
    <3>1. task'[q] = Idle
      BY <1>2, <2>1 DEF TypeOK
    <3> QED
      BY <3>1, IdleElection
  <2>2. CASE q # n
    <3>1. task'[q] = task[q]
      BY <1>2, <2>2 DEF TypeOK
    <3>2. \A t : <<q, t>> \in won' <=> <<q, t>> \in won
      BY <1>2, <2>2
    <3> QED
      BY <1>2, <3>1, <3>2, ElectionUnmoved DEF Elections
  <2> QED
    BY <2>1, <2>2
<1>5. WonOK(n, task[n].term)
  BY <1>1, <1>2, Zenon DEF WonOK, Elections, ElectionOK
<1>6. ASSUME NEW q \in Node, NEW t \in Nat, <<q, t>> \in won' PROVE WonOK(q, t)'
  <2>1. WonOK(q, t)
    BY <1>2, <1>5, <1>6 DEF Elections
  <2> QED
    BY <1>2, <2>1 DEF WonOK, majority
<1> QED
  BY <1>3, <1>4, <1>6 DEF Elections

\* The term is not set back: else the node would be forgetful.
LEMMA LoseElectionKeeps ==
    ASSUME TypeOK, TypeOK', Elections, NEW n \in Node, LoseElection(n), forgetful' = {}
    PROVE Elections'
<1>1. task[n] \in [at : {"election"}, term : Nat, todo : SUBSET Node, votes : SUBSET Node]
  BY TaskTyped DEF LoseElection
<1>2. /\ term[n] = task[n].term
      /\ term' = [term EXCEPT ![n] = task[n].term]
      /\ UNCHANGED <<voted_for, granted, won>>
      /\ task' = [task EXCEPT ![n] = [at |-> "step_down", term |-> task[n].term]]
  BY DEF LoseElection
<1>3. term' = term
  BY <1>2 DEF TypeOK
<1>4. GrantsOK'
  BY <1>2, <1>3 DEF Elections, GrantsOK
<1>5. \A q \in Node : ElectionOK(q)'
  <2> TAKE q \in Node
  <2>1. CASE q = n
    <3>1. task'[n].at = "step_down" /\ task'[n].term = task[n].term
      BY <1>2 DEF TypeOK
    <3> QED
      BY <1>1, <1>2, <1>3, <2>1, <3>1 DEF ElectionOK, Elections
  <2>2. CASE q # n
    <3>1. task'[q] = task[q]
      BY <1>2, <2>2 DEF TypeOK
    <3> QED
      BY <1>2, <1>3, <3>1 DEF ElectionOK, Elections
  <2> QED
    BY <2>1, <2>2
<1>6. ASSUME NEW q \in Node, NEW t \in Nat, <<q, t>> \in won' PROVE WonOK(q, t)'
  BY <1>2, <1>3, <1>6 DEF Elections, WonOK, majority
<1> QED
  BY <1>4, <1>5, <1>6 DEF Elections

\* The vote that is cleared is the node's own in the election it has lost.
LEMMA ForgetVoteKeeps ==
    ASSUME TypeOK, TypeOK', Elections, NEW n \in Node, ForgetVote(n), forgetful' = {}
    PROVE Elections'
<1> DEFINE T == task[n].term
<1>1. task[n] \in [at : {"step_down"}, term : Nat] /\ T \in Nat
  BY TaskTyped DEF ForgetVote
<1>2. /\ voted_for[n] = n
      /\ voted_for' = [voted_for EXCEPT ![n] = None]
      /\ granted' = granted \ {<<n, T, n>>}
      /\ task' = [task EXCEPT ![n] = Idle]
      /\ UNCHANGED <<term, won>>
  BY DEF ForgetVote
<1>3. T <= term[n] /\ <<n, T>> \notin won /\ \A t \in Nat : <<n, t, n>> \in granted => t <= T
  BY <1>1 DEF Elections, ElectionOK
<1> HIDE DEF T
<1>4. \A c \in Node : <<n, term[n], c>> \notin granted'
  <2> SUFFICES ASSUME NEW c \in Node, <<n, term[n], c>> \in granted' PROVE FALSE
    OBVIOUS
  <2>1. term[n] \in Nat /\ c = n
    BY <1>2, Zenon DEF Elections, GrantsOK, TypeOK
  <2>2. term[n] = T
    BY <1>1, <1>2, <1>3, <2>1
  <2> QED
    BY <1>2, <2>1, <2>2
<1>5. GrantsOK'
  <2>1. ASSUME NEW v \in Node, NEW t \in Nat, NEW c \in Node, <<v, t, c>> \in granted'
        PROVE t <= term'[v] /\ (t = term'[v] => voted_for'[v] = c)
    <3>1. CASE v = n
      BY <1>2, <1>4, <2>1, <3>1 DEF Elections, GrantsOK
    <3>2. CASE v # n
      BY <1>2, <2>1, <3>2, Zenon DEF Elections, GrantsOK, TypeOK
    <3> QED
      BY <3>1, <3>2
  <2>2. \A v \in Node, t \in Nat, c, d \in Node :
            <<v, t, c>> \in granted' /\ <<v, t, d>> \in granted' => c = d
    BY <1>2 DEF Elections, GrantsOK
  <2> QED
    BY <2>1, <2>2 DEF GrantsOK
<1>6. \A q \in Node : ElectionOK(q)'
  <2> TAKE q \in Node
  <2>1. CASE q = n
    <3>1. task'[q] = Idle
      BY <1>2, <2>1 DEF TypeOK
    <3> QED
      BY <3>1, IdleElection
  <2>2. CASE q # n
    <3>1. task'[q] = task[q]
      BY <1>2, <2>2 DEF TypeOK
    <3>2. \A v, t : <<v, t, q>> \in granted' <=> <<v, t, q>> \in granted
      BY <1>2, <2>2
    <3> QED
      BY <1>2, <3>1, <3>2, ElectionUnmoved DEF Elections
  <2> QED
    BY <2>1, <2>2
<1>7. ASSUME NEW q \in Node, NEW t \in Nat, <<q, t>> \in won' PROVE WonOK(q, t)'
  <2>1. <<q, t>> # <<n, T>> /\ WonOK(q, t)
    BY <1>2, <1>3, <1>7 DEF Elections
  <2>2. \A v \in Node : <<v, t, q>> \in granted => <<v, t, q>> \in granted'
    BY <1>2, <2>1
  <2>3. term[q] <= term'[q]
    <3>1. term' = term /\ term[q] \in Nat
      BY <1>2 DEF TypeOK
    <3>2. \A i \in Nat : i <= i
      OBVIOUS
    <3> QED
      BY <3>1, <3>2, Zenon
  <2> QED
    BY <2>1, <2>2, <2>3, WonKept
<1> QED
  BY <1>5, <1>6, <1>7 DEF Elections

LEMMA ElectionsKept ==
    ASSUME RType, RType', AsksOthers, Transport = "direct", Elections, forgetful' = {}, [Next]_vars
    PROVE Elections'
<1>0. TypeOK /\ TypeOK'
  BY DEF RType
<1>1. ASSUME UNCHANGED <<term, voted_for, granted>> PROVE VotesMove
  <2>1. GrantsOK'
    BY <1>1 DEF Elections, GrantsOK
  <2>2. \A q \in Node : term[q] <= term'[q]
    BY <1>0, <1>1 DEF TypeOK
  <2> QED
    BY <1>1, <2>1, <2>2 DEF VotesMove
<1>2. CASE UNCHANGED <<term, voted_for, granted, won, task>>
  BY <1>0, <1>1, <1>2, VotesMoved
<1>3. ASSUME NEW n \in Node, TaskStep(n) PROVE Elections'
  <2>1. CASE StartElection(n)
    BY <1>0, <2>1, StartElectionKeeps
  <2>2. ASSUME NEW p \in Node, RequestVote(n, p) PROVE Elections'
    BY <1>0, <2>2, RequestVoteKeeps
  <2>3. CASE WinElection(n)
    BY <1>0, <2>3, WinElectionKeeps
  <2>4. CASE LoseElection(n)
    BY <1>0, <2>4, LoseElectionKeeps
  <2>5. CASE ForgetVote(n)
    BY <1>0, <2>5, ForgetVoteKeeps
  <2>6. CASE StartHeartbeats(n)
    <3>1. UNCHANGED <<term, voted_for, granted, won>>
      BY <2>6 DEF StartHeartbeats, vote_vars, history
    <3>2. \A q \in Node : task'[q] = task[q] \/ task'[q].at \notin {"election", "step_down"}
      BY <1>0, <2>6 DEF StartHeartbeats, TypeOK
    <3> QED
      BY <1>0, <1>1, <3>1, <3>2, VotesMoved
  <2>7. ASSUME NEW p \in Node, Heartbeat(n, p) PROVE Elections'
    <3> DEFINE m == AppendRequest(n, p, task[n].term, task[n].prev, << >>, task[n].prev)
    <3>1. m \in Request /\ m.kind = "append" /\ (Handle(m) \/ Abandon(m))
      BY <1>0, <2>7, HeartbeatSends, Zenon DEF Heartbeat, AppendRequest
    <3>2. task[n] \in [at : {"heartbeat"}, term : Nat, prev : Nat, todo : SUBSET Node]
      BY <1>0, <2>7, TaskTyped DEF Heartbeat
    <3>3. task' = [task EXCEPT ![n].todo = @ \ {p}] /\ won' = won
      BY <2>7 DEF Heartbeat
    <3>4. \A q \in Node : task'[q] = task[q] \/ task'[q].at \notin {"election", "step_down"}
      BY <1>0, <3>2, <3>3, Zenon DEF TypeOK
    <3> HIDE DEF m
    <3>5. VotesMove
      BY <1>0, <3>1, HandleVotes
    <3> QED
      BY <1>0, <3>3, <3>4, <3>5, VotesMoved, Zenon
  <2>8. CASE EndHeartbeats(n)
    <3>1. UNCHANGED <<term, voted_for, granted, won>>
      BY <2>8, Zenon DEF EndHeartbeats, vote_vars, history
    <3>2. \A q \in Node : task'[q] = task[q] \/ task'[q].at \notin {"election", "step_down"}
      BY <1>0, <2>8, Zenon DEF EndHeartbeats, TypeOK, Idle
    <3> QED
      BY <1>0, <1>1, <3>1, <3>2, VotesMoved
  <2> QED
    BY <1>3, <2>1, <2>2, <2>3, <2>4, <2>5, <2>6, <2>7, <2>8 DEF TaskStep
<1>4. ASSUME NEW c \in Call, NEW p \in Node, ReplicateTo(c, p) PROVE Elections'
  <2> DEFINE m == AppendRequest(call[c].node, p, call[c].entry.term, call[c].entry.index - 1,
                                <<call[c].entry>>, call[c].entry.index)
  <2>1. m \in Request /\ m.kind = "append" /\ (Handle(m) \/ Abandon(m))
    BY <1>4, ReplicateToSends DEF ReplicateTo, AppendRequest
  <2>2. task' = task /\ won' = won
    BY <1>4 DEF ReplicateTo
  <2> HIDE DEF m
  <2>3. VotesMove
    BY <1>0, <2>1, HandleVotes
  <2> QED
    BY <1>0, <2>2, <2>3, VotesMoved
<1>5. ASSUME NEW n \in Node, Restart(n) PROVE Elections'
  BY <1>5, Zenon DEF Restart
<1>6. ASSUME NEW m \in late, DeliverLate(m) PROVE Elections'
  <2>1. m \in Request /\ (m.kind = "vote" => m.from # m.to)
    BY <1>0, <1>6, Zenon DEF TypeOK, AsksOthers
  <2>2. Handle(m) /\ task' = task /\ won' = won
    BY <1>6 DEF DeliverLate
  <2>3. VotesMove
    BY <1>0, <2>1, <2>2, HandleVotes
  <2> QED
    BY <1>0, <2>2, <2>3, VotesMoved
<1>7. ASSUME NEW n \in Node, NEW c \in Call,
             ReplicateRefused(n, c) \/ Replicate(n, c)
      PROVE Elections'
  BY <1>2, <1>7, Zenon DEF ReplicateRefused, Replicate, vote_vars, history
<1>8. ASSUME NEW n \in Node, Recover(n) PROVE Elections'
  BY <1>2, <1>8 DEF Recover, vote_vars, history
<1>9. ASSUME NEW c \in Call, ReplicateCommits(c) \/ ReplicateFails(c) PROVE Elections'
  BY <1>2, <1>9 DEF ReplicateCommits, ReplicateFails, vote_vars, history
<1>10. CASE UNCHANGED vars
  BY <1>2, <1>10 DEF vars, vote_vars, history
<1> QED
  BY <1>3, <1>4, <1>5, <1>6, <1>7, <1>8, <1>9, <1>10 DEF Next, CallStep

\* A node that has lost a promise is not forgiven.
LEMMA ForgetfulGrows ==
    ASSUME [Next]_vars
    PROVE forgetful \subseteq forgetful'
<1>1. ASSUME NEW n \in Node, TaskStep(n) PROVE forgetful \subseteq forgetful'
  BY <1>1, Zenon DEF TaskStep, StartElection, RequestVote, WinElection, LoseElection, ForgetVote,
         StartHeartbeats, Heartbeat, EndHeartbeats, history
<1>2. ASSUME NEW c \in Call, CallStep(c) PROVE forgetful' = forgetful
  BY <1>2, Zenon DEF CallStep, ReplicateTo, ReplicateCommits, ReplicateFails, history
<1>3. ASSUME NEW n \in Node, Recover(n) \/ Restart(n) \/ \E c \in Call : ReplicateRefused(n, c) \/ Replicate(n, c)
      PROVE forgetful \subseteq forgetful'
  BY <1>3, Zenon DEF Recover, Restart, ReplicateRefused, Replicate, history
<1>4. ASSUME UNCHANGED vars \/ \E m \in late : DeliverLate(m) PROVE forgetful' = forgetful
  BY <1>4, Zenon DEF DeliverLate, vars, history
<1> QED
  BY <1>1, <1>2, <1>3, <1>4, Zenon DEF Next

\* Any two majorities have a node in common.
LEMMA MajoritiesMeet ==
    ASSUME MajoritiesOverlap, NEW n \in Node, NEW p \in Node,
           NEW Q \in SUBSET Node, Cardinality(Q) >= majority(n),
           NEW R \in SUBSET Node, Cardinality(R) >= majority(p)
    PROVE Q \cap R # {}
<1>1. IsFiniteSet(Node) /\ Cardinality(Node) \in Nat
  BY NodeAssumption, FS_CardinalityType
<1>2. \A q \in Node : Cardinality(Peers[q]) = Cardinality(Node) - 1
  BY <1>1, FS_RemoveElement DEF MajoritiesOverlap
<1>3. \A S \in SUBSET Node : IsFiniteSet(S) /\ Cardinality(S) \in Nat
  BY <1>1, FS_Subset, FS_CardinalityType
<1>4. Cardinality(Node) % 2 = 1
  BY DEF MajoritiesOverlap
<1>5. Cardinality(Q) + Cardinality(R) > Cardinality(Node)
  <2>1. \A k \in Nat : k % 2 = 1 => 2 * ((k + 1) \div 2) = k + 1
    OBVIOUS
  <2>2. PICK k \in Nat, a \in Nat, b \in Nat :
            k = Cardinality(Node) /\ a = Cardinality(Q) /\ b = Cardinality(R)
    BY <1>1, <1>3
  <2>3. k % 2 = 1 /\ majority(n) = (k - 1 + 2) \div 2 /\ majority(p) = (k - 1 + 2) \div 2
    BY <1>2, <1>4, <2>2 DEF majority
  <2>4. k - 1 + 2 = k + 1 /\ (k + 1) \div 2 \in Nat
    OBVIOUS
  <2>5. a >= (k + 1) \div 2 /\ b >= (k + 1) \div 2 /\ 2 * ((k + 1) \div 2) = k + 1
    BY <2>1, <2>2, <2>3, <2>4
  <2>6. a + b > k
    BY <2>4, <2>5
  <2> QED
    BY <2>2, <2>6
<1> QED
  BY <1>1, <1>5, FS_MajoritiesIntersect

\* In an odd, fully connected cluster whose nodes keep their promises, no term has two
\* leaders.  The invariant is that granted votes are unique per voter and term, that a
\* candidate's votes are granted ones and that a winner's majority still stands.
THEOREM OneWinner == Spec => []OneWinnerPerTerm
<1>1. Init => VInv
  <2>1. Init => RType
    BY InitType
  <2>2. Init => AsksOthers /\ Elections
    <3> SUFFICES ASSUME Init PROVE AsksOthers /\ Elections
      OBVIOUS
    <3>1. late = {} /\ granted = {} /\ won = {} /\ \A n \in Node : task[n].at = "idle"
      BY DEF Init, Idle
    <3>2. AsksOthers
      BY <3>1 DEF AsksOthers
    <3>3. GrantsOK /\ \A n \in Node : ElectionOK(n)
      BY <3>1 DEF GrantsOK, ElectionOK
    <3> QED
      BY <3>1, <3>2, <3>3 DEF Elections
  <2> QED
    BY <2>1, <2>2 DEF VInv
<1>2. VInv /\ [Next]_vars => VInv'
  <2> SUFFICES ASSUME VInv, [Next]_vars PROVE VInv'
    OBVIOUS
  <2>1. RType /\ AsksOthers /\ RType' /\ AsksOthers'
    BY NextType, AsksKept DEF VInv
  <2>2. Honest' => Elections'
    BY <2>1, ForgetfulGrows, ElectionsKept DEF VInv, Honest
  <2> QED
    BY <2>1, <2>2 DEF VInv
<1>3. ASSUME VInv, Transport = "direct", MajoritiesOverlap, forgetful = {},
             NEW n \in Node, NEW p \in Node, NEW t \in Nat, <<n, t>> \in won, <<p, t>> \in won
      PROVE n = p
  <2>1. GrantsOK /\ WonOK(n, t) /\ WonOK(p, t)
    BY <1>3 DEF VInv, Honest, Elections
  <2>2. PICK Q \in SUBSET Node : Cardinality(Q) >= majority(n) /\ \A v \in Q : <<v, t, n>> \in granted
    BY <2>1 DEF WonOK
  <2>3. PICK R \in SUBSET Node : Cardinality(R) >= majority(p) /\ \A v \in R : <<v, t, p>> \in granted
    BY <2>1 DEF WonOK
  <2>4. PICK v \in Node : v \in Q /\ v \in R
    BY <1>3, <2>2, <2>3, MajoritiesMeet
  <2> QED
    BY <2>1, <2>2, <2>3, <2>4, Zenon DEF GrantsOK
<1>4. VInv => OneWinnerPerTerm
  <2> SUFFICES ASSUME VInv, Transport = "direct", MajoritiesOverlap, forgetful = {},
                      NEW w1 \in won, NEW w2 \in won, w1[2] = w2[2]
               PROVE w1 = w2
    BY DEF OneWinnerPerTerm
  <2>1. w1 \in Node \X Nat /\ w2 \in Node \X Nat
    BY DEF VInv, RType, TypeOK
  <2>2. w1 = <<w1[1], w1[2]>> /\ w2 = <<w2[1], w1[2]>>
    BY <2>1
  <2>3. w1[1] = w2[1]
    BY <1>3, <2>1, <2>2
  <2> QED
    BY <2>2, <2>3
<1> QED
  BY <1>1, <1>2, <1>4, PTL DEF Spec
=============================================================================
