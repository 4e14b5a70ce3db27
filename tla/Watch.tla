------------------------------ MODULE Watch ------------------------------
(***************************************************************************)
(* The watch channel of the coordinator (WATCH_CHANNEL) and the SSE and    *)
(* WebSocket streams that read from it.                                    *)
(*                                                                         *)
(* The channel is a tokio broadcast channel: it keeps the last Capacity    *)
(* events, every receiver has a position of its own, and a receiver whose  *)
(* next event has been dropped gets an error.  Both loops end at the first *)
(* error, so that a stream that lags is closed.                            *)
(***************************************************************************)
EXTENDS Integers, Sequences

CONSTANTS
    Watcher,     \* clients of /watch/sse and /watch/ws
    Event,       \* the events that can be sent
    Capacity     \* external: events that the channel keeps

ASSUME CapacityAssumption == Capacity \in Nat \ {0}

VARIABLES
    sent,       \* all events sent so far; the channel holds the last Capacity
    stream,     \* "none", "open" or "closed" for each client
    position,   \* the receiver: number of events it is past
    from,       \* history: number of events sent when the client subscribed
    got         \* events that the client was sent

watchVars == <<sent, stream, position, from, got>>

WatchInit ==
    /\ sent = << >>
    /\ stream = [w \in Watcher |-> "none"]
    /\ position = [w \in Watcher |-> 0]
    /\ from = [w \in Watcher |-> 0]
    /\ got = [w \in Watcher |-> << >>]

\* WATCH_CHANNEL.send: its error, no receiver, is ignored.
send(event) ==
    /\ sent' = Append(sent, event)
    /\ UNCHANGED <<stream, position, from, got>>

\* WATCH_CHANNEL.subscribe.
Subscribe(w) ==
    /\ stream[w] = "none"
    /\ stream' = [stream EXCEPT ![w] = "open"]
    /\ position' = [position EXCEPT ![w] = Len(sent)]
    /\ from' = [from EXCEPT ![w] = Len(sent)]
    /\ UNCHANGED <<sent, got>>

\* The next event of the receiver has been overwritten.
Lagged(w) == Len(sent) - position[w] > Capacity

\* The loop body: an event is received and passed on to the client.
Receive(w) ==
    /\ stream[w] = "open"
    /\ position[w] < Len(sent)
    /\ ~Lagged(w)
    /\ got' = [got EXCEPT ![w] = Append(@, sent[position[w] + 1])]
    /\ position' = [position EXCEPT ![w] = @ + 1]
    /\ UNCHANGED <<sent, stream, from>>

\* Faulty variant: the loop goes on with the oldest event that is left.
EndLagged_continues(w) ==
    /\ stream[w] = "open"
    /\ Lagged(w)
    /\ position' = [position EXCEPT ![w] = Len(sent) - Capacity]
    /\ UNCHANGED <<sent, stream, from, got>>

\* recv returns Lagged and the loop ends.
EndLagged(w) ==
    /\ stream[w] = "open"
    /\ Lagged(w)
    /\ stream' = [stream EXCEPT ![w] = "closed"]
    /\ UNCHANGED <<sent, position, from, got>>

\* The client goes away: the next event of handle_ws cannot be sent, or the
\* stream of watch_sse is dropped.
Disconnect(w) ==
    /\ stream[w] = "open"
    /\ stream' = [stream EXCEPT ![w] = "closed"]
    /\ UNCHANGED <<sent, position, from, got>>

WatchStep(w) == Subscribe(w) \/ Receive(w) \/ EndLagged(w) \/ Disconnect(w)

WatchNext == (\E e \in Event : send(e)) \/ (\E w \in Watcher : WatchStep(w))

WatchSpec == WatchInit /\ [][WatchNext]_watchVars

----------------------------------------------------------------------------
(* Properties *)

\* Every variable of the channel has its type.
WatchTypeOK ==
    /\ sent \in Seq(Event)
    /\ stream \in [Watcher -> {"none", "open", "closed"}]
    /\ position \in [Watcher -> Nat]
    /\ from \in [Watcher -> Nat]
    /\ got \in [Watcher -> Seq(Event)]

\* A client never misses an event without noticing: what it was sent is exactly
\* the run of events since it subscribed, without a gap, a repetition or a
\* change of order, also when the channel overflowed, because a stream that
\* lags is closed and not continued (watch_sse, handle_ws).
NoSilentGap ==
    \A w \in Watcher :
        /\ from[w] + Len(got[w]) <= Len(sent)
        /\ \A i \in 1..Len(got[w]) : got[w][i] = sent[from[w] + i]
============================================================================
