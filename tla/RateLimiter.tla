--------------------------- MODULE RateLimiter ---------------------------
(***************************************************************************)
(* The token-bucket rate limiter (struct RateLimiter) with one bucket per  *)
(* client address.                                                         *)
(*                                                                         *)
(* Time and tokens share one unit: a tick is the time in which a bucket    *)
(* gains one unit, and a request costs Cost units, so that Cost ticks are  *)
(* 1 / requests_per_second.  A bucket holds at most Full units, the price  *)
(* of burst_size requests.  Every method takes the one Mutex for its whole *)
(* body and is one action.  A disabled limiter allows everything and       *)
(* touches nothing.  The floating-point numbers of the code are taken as   *)
(* exact.                                                                  *)
(***************************************************************************)
EXTENDS Clock, FiniteSetsExt

CONSTANTS
    IP,       \* client addresses
    Cost,     \* ticks in which a bucket gains one token
    Burst,    \* RateLimitConfig::burst_size
    Window    \* RateLimitConfig::window_duration, in ticks

ASSUME CostAssumption == Cost \in Nat \ {0}
ASSUME BurstAssumption == Burst \in Nat \ {0}

Full == Cost * Burst

\* A bucket that is dropped as idle would be full: with the default
\* configuration 60 seconds against 100 tokens at 50 per second.
ASSUME WindowAssumption == Window \in Nat /\ Window >= Full

Bucket == [tokens : 0..Full, last_refill : 0..MaxNow]
Answer == [allowed : BOOLEAN, at : 0..MaxNow, remaining : 0..Burst, due : Nat]

ASSUME NoneAssumption == None \notin Bucket

VARIABLES
    enabled,    \* RateLimitConfig::enabled
    buckets,    \* RateLimiter::buckets
    last,       \* history: the last RateLimitResult given to each address
    admitted    \* history: requests of an address allowed at tick s or later

vars == <<enabled, buckets, now, last, admitted>>

----------------------------------------------------------------------------
(* One bucket *)

NewBucket == [tokens |-> Full, last_refill |-> now]

\* Faulty variant: the refill is not capped at the burst size.
refill_uncapped(b) ==
    [tokens |-> b.tokens + (now - b.last_refill), last_refill |-> now]

refill(b) ==
    [tokens |-> Min({Full, b.tokens + (now - b.last_refill)}), last_refill |-> now]

\* The bucket that check finds or creates, refilled by try_consume.
Refilled(ip) == refill(IF buckets[ip] = None THEN NewBucket ELSE buckets[ip])

\* Allowed: whole tokens left.
remaining(b) == b.tokens \div Cost

\* Faulty variant: the announced time is a tick short.
retry_at_early(b) == now + (Cost - 1 - b.tokens)

\* Limited: the tick at which the missing part of a token has come in.
retry_at(b) == now + (Cost - b.tokens)

----------------------------------------------------------------------------
(* Operations *)

Init ==
    /\ enabled \in BOOLEAN
    /\ buckets = [ip \in IP |-> None]
    /\ now = 0
    /\ last = [ip \in IP |-> [allowed |-> TRUE, at |-> 0, remaining |-> Burst, due |-> 0]]
    /\ admitted = [ip \in IP |-> [s \in 0..MaxNow |-> 0]]

CountAdmission(ip) ==
    admitted' = [admitted EXCEPT ![ip] = [s \in 0..MaxNow |-> @[s] + (IF s <= now THEN 1 ELSE 0)]]

\* check(): try_consume finds a whole token.
CheckAllowed(ip) ==
    /\ enabled
    /\ Refilled(ip).tokens >= Cost
    /\ LET b == [Refilled(ip) EXCEPT !.tokens = @ - Cost] IN
        /\ buckets' = [buckets EXCEPT ![ip] = b]
        /\ last' = [last EXCEPT ![ip] =
                       [allowed |-> TRUE, at |-> now, remaining |-> remaining(b), due |-> 0]]
    /\ CountAdmission(ip)
    /\ UNCHANGED <<enabled, now>>

\* check(): there is less than one token, the bucket keeps what was refilled.
CheckLimited(ip) ==
    /\ enabled
    /\ Refilled(ip).tokens < Cost
    /\ buckets' = [buckets EXCEPT ![ip] = Refilled(ip)]
    /\ last' = [last EXCEPT ![ip] =
                   [allowed |-> FALSE, at |-> now, remaining |-> 0, due |-> retry_at(Refilled(ip))]]
    /\ UNCHANGED <<enabled, now, admitted>>

\* Faulty variant: buckets are dropped a tick before they are full again.
Idle_early(b) == b # None /\ now - b.last_refill >= Full - 1

Idle(b) == b # None /\ now - b.last_refill >= Window

\* cleanup(): drops the buckets that were idle for the window.
Cleanup ==
    /\ \E ip \in IP : Idle(buckets[ip])
    /\ buckets' = [ip \in IP |-> IF Idle(buckets[ip]) THEN None ELSE buckets[ip]]
    /\ UNCHANGED <<enabled, now, last, admitted>>

Tick ==
    /\ now < MaxNow
    /\ now' = now + 1
    /\ UNCHANGED <<enabled, buckets, last, admitted>>

Next ==
    \/ \E ip \in IP : CheckAllowed(ip) \/ CheckLimited(ip)
    \/ Cleanup
    \/ Tick

Spec == Init /\ [][Next]_vars

----------------------------------------------------------------------------
(* Properties *)

\* Every variable has its type: no bucket holds more than the burst or less
\* than nothing.
TypeOK ==
    /\ enabled \in BOOLEAN
    /\ buckets \in [IP -> Bucket \cup {None}]
    /\ now \in 0..MaxNow
    /\ last \in [IP -> Answer]
    /\ admitted \in [IP -> [0..MaxNow -> Nat]]

\* In any interval of time an address gets at most burst_size requests plus
\* what the rate allows for the length of the interval, whatever the order of
\* checks, refusals and clean-ups: dropping an idle bucket and creating it
\* again full gives nothing away (check, refill, cleanup).
AdmissionBound ==
    \A ip \in IP : \A s \in 0..now : Cost * admitted[ip][s] <= Full + (now - s)

\* What an answer announces is kept.  After Allowed { remaining: n } with n > 0
\* the next request is not refused, however late it comes, and after
\* Limited { retry_after } a request that waited that long is not refused, with
\* clean-ups in between (check, remaining, retry_after, cleanup).
PromisesKept ==
    [][\A ip \in IP :
          last'[ip] # last[ip] /\ ~last'[ip].allowed
              => IF last[ip].allowed THEN last[ip].remaining = 0 ELSE now < last[ip].due]_vars
============================================================================
