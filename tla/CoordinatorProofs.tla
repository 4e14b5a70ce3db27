------------------------ MODULE CoordinatorProofs ------------------------
(***************************************************************************)
(* Proofs about Coordinator: what its handlers do to the API keys and to   *)
(* the watch channel are steps of KeyStore and of Watch, so that what is   *)
(* proved about these holds of the whole API; and what the API reports is  *)
(* true.  For any number of requests, keys, clients and operations.        *)
(***************************************************************************)
EXTENDS Coordinator, TLAPS

----------------------------------------------------------------------------
(* The API keys, for any set of keys and any lifetimes *)

\* Only keys that were issued are in the store, and a key that is being generated
\* is there unless it was deleted meanwhile.
IssuedFirst ==
    /\ generating \subseteq issued
    /\ raced \subseteq issued
    /\ \A id \in KeyId : keys[id] # None => id \in issued
    /\ \A id \in raced : keys[id] = None
    /\ \A id \in generating : keys[id] # None \/ id \in raced

KInv == KeyTypeOK /\ IssuedFirst /\ HashIndexExact

LEMMA KeyInitKInv == KeyInit => KInv
BY TTLAssumption, ClockAssumption, NoneAssumption, NoKeyAssumption
   DEF KeyInit, KInv, KeyTypeOK, IssuedFirst, HashIndexExact, Time

LEMMA InsertKeyKInv ==
    ASSUME KInv, NEW id \in KeyId, NEW ttl \in TTL, insert_key(id, ttl)
    PROVE KInv'
<1> USE TTLAssumption, ClockAssumption, NoneAssumption, NoKeyAssumption
<1> DEFINE new == [expires_at |-> IF ttl = None THEN None ELSE clock + ttl,
                   active |-> TRUE, last_used_at |-> None]
<1>1. new \in ApiKey
  BY DEF KInv, KeyTypeOK, ApiKey, Time
<1>2. keys' = [keys EXCEPT ![id] = new] /\ new # None
  BY <1>1 DEF insert_key
<1> HIDE DEF new
<1>3. KeyTypeOK'
  <2>1. keys' \in [KeyId -> ApiKey \cup {None}]
    BY <1>1, <1>2 DEF KInv, KeyTypeOK
  <2>2. /\ generating' = generating \cup {id} /\ issued' = issued \cup {id}
        /\ UNCHANGED <<hash_to_id, clock, raced>>
    BY DEF insert_key
  <2> QED
    BY <2>1, <2>2 DEF KInv, KeyTypeOK
<1>4. IssuedFirst'
  BY <1>2 DEF KInv, KeyTypeOK, IssuedFirst, insert_key
<1>5. HashIndexExact'
  BY <1>2 DEF KInv, KeyTypeOK, IssuedFirst, HashIndexExact, insert_key
<1> QED
  BY <1>3, <1>4, <1>5 DEF KInv

LEMMA InsertHashKInv ==
    ASSUME KInv, NEW id \in KeyId, insert_hash(id)
    PROVE KInv'
<1> USE TTLAssumption, ClockAssumption, NoneAssumption, NoKeyAssumption
<1>1. KeyTypeOK' /\ IssuedFirst'
  BY DEF KInv, KeyTypeOK, IssuedFirst, insert_hash
<1>2. HashIndexExact'
  BY DEF KInv, KeyTypeOK, IssuedFirst, HashIndexExact, insert_hash
<1> QED
  BY <1>1, <1>2 DEF KInv

\* revoke_key and touch_key change an entry and keep it there.
LEMMA ChangeKInv ==
    ASSUME KInv, NEW id \in KeyId, NEW key \in ApiKey, keys[id] # None,
           keys' = [keys EXCEPT ![id] = key],
           UNCHANGED <<hash_to_id, clock, generating, issued, raced>>
    PROVE KInv'
<1> USE TTLAssumption, ClockAssumption, NoneAssumption, NoKeyAssumption
<1>1. KeyTypeOK'
  BY DEF KInv, KeyTypeOK
<1>2. \A i \in KeyId : keys'[i] = None <=> keys[i] = None
  BY DEF KInv, KeyTypeOK
<1>3. IssuedFirst'
  BY <1>2 DEF KInv, KeyTypeOK, IssuedFirst
<1>4. HashIndexExact'
  BY <1>2 DEF KInv, KeyTypeOK, HashIndexExact
<1> QED
  BY <1>1, <1>3, <1>4 DEF KInv

LEMMA DeleteKInv ==
    ASSUME KInv, NEW id \in KeyId, delete_key(id)
    PROVE KInv'
<1> USE TTLAssumption, ClockAssumption, NoneAssumption, NoKeyAssumption
<1>1. KeyTypeOK'
  BY DEF KInv, KeyTypeOK, delete_key
<1>2. \A i \in KeyId : keys'[i] = IF i = id THEN None ELSE keys[i]
  BY DEF KInv, KeyTypeOK, delete_key
<1>3. IssuedFirst'
  BY <1>2 DEF KInv, KeyTypeOK, IssuedFirst, delete_key
<1>4. HashIndexExact'
  BY <1>2 DEF KInv, KeyTypeOK, IssuedFirst, HashIndexExact, delete_key
<1> QED
  BY <1>1, <1>3, <1>4 DEF KInv

\* Every step of the key store keeps its invariant.
LEMMA KeyStepKInv == KInv /\ [KeyNext]_keyVars => KInv'
<1> USE TTLAssumption, ClockAssumption, NoneAssumption, NoKeyAssumption
<1> SUFFICES ASSUME KInv, [KeyNext]_keyVars PROVE KInv'
  OBVIOUS
<1>1. ASSUME NEW id \in KeyId, NEW ttl \in TTL, insert_key(id, ttl) PROVE KInv'
  BY <1>1, InsertKeyKInv
<1>2. ASSUME NEW id \in KeyId, insert_hash(id) PROVE KInv'
  BY <1>2, InsertHashKInv
<1>3. ASSUME NEW id \in KeyId, revoke_key(id) PROVE KInv'
  <2>1. [keys[id] EXCEPT !.active = FALSE] \in ApiKey
    BY <1>3 DEF revoke_key, KInv, KeyTypeOK, ApiKey
  <2> QED
    BY <1>3, <2>1, ChangeKInv DEF revoke_key
<1>4. ASSUME NEW id \in KeyId, delete_key(id) PROVE KInv'
  BY <1>4, DeleteKInv
<1>5. ASSUME NEW id \in KeyId, touch_key(id) PROVE KInv'
  <2>1. CASE keys[id] = None
    BY <1>5, <2>1 DEF touch_key, KInv, KeyTypeOK, IssuedFirst, HashIndexExact
  <2>2. CASE keys[id] # None
    <3>1. [keys[id] EXCEPT !.last_used_at = clock] \in ApiKey
      BY <2>2 DEF KInv, KeyTypeOK, ApiKey
    <3> QED
      BY <1>5, <2>2, <3>1, ChangeKInv DEF touch_key
  <2> QED
    BY <2>1, <2>2
<1>6. ASSUME Tick PROVE KInv'
  BY <1>6 DEF Tick, KInv, KeyTypeOK, IssuedFirst, HashIndexExact, Time
<1>7. CASE UNCHANGED keyVars
  BY <1>7 DEF keyVars, KInv, KeyTypeOK, IssuedFirst, HashIndexExact
<1> QED
  BY <1>1, <1>2, <1>3, <1>4, <1>5, <1>6, <1>7 DEF KeyNext

\* What RefusalIsFinal says of one step.
StaysRefused == \A id \in issued : ~validate_key(id) => ~validate_key(id)'

LEMMA KeyStepStaysRefused == KInv /\ [KeyNext]_keyVars => StaysRefused
<1> USE TTLAssumption, ClockAssumption, NoneAssumption, NoKeyAssumption
<1> SUFFICES ASSUME KInv, [KeyNext]_keyVars, NEW i \in issued, ~validate_key(i)
             PROVE ~validate_key(i)'
  BY DEF StaysRefused
<1> USE DEF KInv, KeyTypeOK, validate_key, is_expired
<1>1. ASSUME NEW id \in KeyId, NEW ttl \in TTL, insert_key(id, ttl) PROVE ~validate_key(i)'
  BY <1>1 DEF insert_key
<1>2. ASSUME NEW id \in KeyId, insert_hash(id) PROVE ~validate_key(i)'
  BY <1>2 DEF insert_hash
<1>3. ASSUME NEW id \in KeyId, revoke_key(id) PROVE ~validate_key(i)'
  BY <1>3 DEF revoke_key, ApiKey
<1>4. ASSUME NEW id \in KeyId, delete_key(id) PROVE ~validate_key(i)'
  BY <1>4 DEF delete_key
<1>5. ASSUME NEW id \in KeyId, touch_key(id) PROVE ~validate_key(i)'
  BY <1>5 DEF touch_key, ApiKey
<1>6. ASSUME Tick PROVE ~validate_key(i)'
  BY <1>6 DEF Tick, ApiKey, Time
<1>7. CASE UNCHANGED keyVars
  BY <1>7 DEF keyVars
<1> QED
  BY <1>1, <1>2, <1>3, <1>4, <1>5, <1>6, <1>7 DEF KeyNext

\* The index by hash is exact in every state, however generate_key and delete_key
\* interleave.
THEOREM HashIndexCorrect == KeySpec => []HashIndexExact
<1>1. KInv => HashIndexExact
  BY DEF KInv
<1> QED
  BY <1>1, KeyInitKInv, KeyStepKInv, PTL DEF KeySpec

\* A key that is refused once is refused for ever, for any number of keys and
\* concurrent calls of generate_key, revoke_key, delete_key and touch_key.
THEOREM RefusalsAreFinal == KeySpec => RefusalIsFinal
<1>1. KInv /\ [KeyNext]_keyVars => [StaysRefused]_keyVars
  BY KeyStepStaysRefused
<1> QED
  BY <1>1, KeyInitKInv, KeyStepKInv, PTL DEF KeySpec, RefusalIsFinal, StaysRefused

----------------------------------------------------------------------------
(* The watch channel, for any number of clients and any capacity *)

\* A receiver is past the events its client was sent and those from before it
\* subscribed, and past nothing else.
Aligned ==
    \A w \in Watcher :
        /\ position[w] = from[w] + Len(got[w])
        /\ stream[w] = "none" => got[w] = << >>

WInv == WatchTypeOK /\ Aligned /\ NoSilentGap

LEMMA WatchInitWInv == WatchInit => WInv
BY DEF WatchInit, WInv, WatchTypeOK, Aligned, NoSilentGap

\* What Append does to a sequence, for the provers.
LEMMA Appended ==
    ASSUME NEW S, NEW s \in Seq(S), NEW e \in S
    PROVE /\ Append(s, e) \in Seq(S)
          /\ Len(s) \in Nat
          /\ Len(Append(s, e)) = Len(s) + 1
          /\ \A i \in 1..Len(s) : Append(s, e)[i] = s[i]
          /\ Append(s, e)[Len(s) + 1] = e
OBVIOUS

LEMMA SendWInv ==
    ASSUME WInv, NEW e \in Event, send(e)
    PROVE WInv'
<1>1. /\ sent' \in Seq(Event)
      /\ Len(sent) \in Nat
      /\ Len(sent') = Len(sent) + 1
      /\ \A i \in 1..Len(sent) : sent'[i] = sent[i]
  BY Appended DEF WInv, WatchTypeOK, send
<1>2. WatchTypeOK' /\ Aligned'
  BY <1>1 DEF WInv, WatchTypeOK, Aligned, send
<1>3. ASSUME NEW w \in Watcher
      PROVE /\ from[w] + Len(got[w]) <= Len(sent')
            /\ \A i \in 1..Len(got[w]) : got[w][i] = sent'[from[w] + i]
  <2>1. from[w] \in Nat /\ Len(got[w]) \in Nat /\ from[w] + Len(got[w]) <= Len(sent)
    BY DEF WInv, WatchTypeOK, NoSilentGap
  <2>2. ASSUME NEW i \in 1..Len(got[w]) PROVE got[w][i] = sent'[from[w] + i]
    <3>1. from[w] + i \in 1..Len(sent)
      BY <1>1, <2>1, <2>2
    <3> QED
      BY <1>1, <3>1 DEF WInv, NoSilentGap
  <2> QED
    BY <1>1, <2>1, <2>2
<1>4. NoSilentGap'
  BY <1>3 DEF NoSilentGap, send
<1> QED
  BY <1>2, <1>4 DEF WInv

LEMMA SubscribeWInv ==
    ASSUME WInv, NEW w \in Watcher, Subscribe(w)
    PROVE WInv'
<1>1. Len(sent) \in Nat
  BY DEF WInv, WatchTypeOK
<1>2. got[w] = << >>
  BY DEF WInv, Aligned, Subscribe
<1>3. WatchTypeOK'
  BY <1>1 DEF WInv, WatchTypeOK, Subscribe
<1>4. Aligned'
  BY <1>1, <1>2 DEF WInv, WatchTypeOK, Aligned, Subscribe
<1>5. NoSilentGap'
  BY <1>1, <1>2 DEF WInv, WatchTypeOK, NoSilentGap, Subscribe
<1> QED
  BY <1>3, <1>4, <1>5 DEF WInv

LEMMA ReceiveWInv ==
    ASSUME WInv, NEW w \in Watcher, Receive(w)
    PROVE WInv'
<1> DEFINE e == sent[position[w] + 1]
<1>1. position[w] \in Nat /\ Len(sent) \in Nat /\ position[w] < Len(sent)
  BY DEF WInv, WatchTypeOK, Receive
<1>2. e \in Event
  BY <1>1 DEF WInv, WatchTypeOK
<1>3. got' = [got EXCEPT ![w] = Append(got[w], e)]
  BY DEF Receive
<1> HIDE DEF e
<1>4. /\ Append(got[w], e) \in Seq(Event)
      /\ Len(got[w]) \in Nat
      /\ Len(Append(got[w], e)) = Len(got[w]) + 1
      /\ \A i \in 1..Len(got[w]) : Append(got[w], e)[i] = got[w][i]
      /\ Append(got[w], e)[Len(got[w]) + 1] = e
  BY <1>2, Appended DEF WInv, WatchTypeOK
<1> DEFINE new == Append(got[w], e)
<1>5. WatchTypeOK'
  BY <1>1, <1>3, <1>4 DEF WInv, WatchTypeOK, Receive
<1>6. \A v \in Watcher : got'[v] = IF v = w THEN new ELSE got[v]
  BY <1>3 DEF WInv, WatchTypeOK
<1> HIDE DEF new
<1>7. \A v \in Watcher : position'[v] = IF v = w THEN position[w] + 1 ELSE position[v]
  BY DEF WInv, WatchTypeOK, Receive
<1>8. Len(new) = Len(got[w]) + 1
  BY <1>4 DEF new
<1>9. Aligned'
  BY <1>1, <1>4, <1>6, <1>7, <1>8 DEF WInv, WatchTypeOK, Aligned, Receive
<1>10. ASSUME NEW i \in 1..Len(new) PROVE new[i] = sent[from[w] + i]
  <2>1. CASE i \in 1..Len(got[w])
    BY <1>4, <2>1 DEF WInv, NoSilentGap, new
  <2>2. CASE i = Len(got[w]) + 1
    <3>1. from[w] + i = position[w] + 1
      BY <1>4, <2>2 DEF WInv, WatchTypeOK, Aligned
    <3> QED
      BY <1>4, <2>2, <3>1 DEF e, new
  <2> QED
    BY <1>4, <1>8, <1>10, <2>1, <2>2
<1>11. from[w] + Len(new) <= Len(sent)
  BY <1>1, <1>4, <1>8 DEF WInv, WatchTypeOK, Aligned
<1>12. ASSUME NEW v \in Watcher
       PROVE /\ from[v] + Len(got'[v]) <= Len(sent)
             /\ \A i \in 1..Len(got'[v]) : got'[v][i] = sent[from[v] + i]
  <2>1. CASE v = w
    BY <1>6, <1>10, <1>11, <2>1
  <2>2. CASE v # w
    BY <1>6, <2>2 DEF WInv, NoSilentGap
  <2> QED
    BY <2>1, <2>2
<1>13. NoSilentGap'
  BY <1>12 DEF NoSilentGap, Receive
<1> QED
  BY <1>5, <1>9, <1>13 DEF WInv

\* Every step of the channel and its streams keeps the invariant.
LEMMA WatchStepWInv == WInv /\ [WatchNext]_watchVars => WInv'
<1> SUFFICES ASSUME WInv, [WatchNext]_watchVars PROVE WInv'
  OBVIOUS
<1>1. ASSUME NEW e \in Event, send(e) PROVE WInv'
  BY <1>1, SendWInv
<1>2. ASSUME NEW w \in Watcher, Subscribe(w) PROVE WInv'
  BY <1>2, SubscribeWInv
<1>3. ASSUME NEW w \in Watcher, Receive(w) PROVE WInv'
  BY <1>3, ReceiveWInv
<1>4. ASSUME NEW w \in Watcher, EndLagged(w) \/ Disconnect(w) PROVE WInv'
  <2>1. /\ stream' = [stream EXCEPT ![w] = "closed"]
        /\ UNCHANGED <<sent, position, from, got>>
    BY <1>4 DEF EndLagged, Disconnect
  <2>2. WatchTypeOK'
    BY <2>1 DEF WInv, WatchTypeOK
  <2>3. Aligned'
    BY <2>1 DEF WInv, WatchTypeOK, Aligned
  <2>4. NoSilentGap'
    BY <2>1 DEF WInv, NoSilentGap
  <2> QED
    BY <2>2, <2>3, <2>4 DEF WInv
<1>5. CASE UNCHANGED watchVars
  BY <1>5 DEF watchVars, WInv, WatchTypeOK, Aligned, NoSilentGap
<1> QED
  BY <1>1, <1>2, <1>3, <1>4, <1>5 DEF WatchNext, WatchStep

\* Every client sees a gapless run of the events since it subscribed, whatever
\* the capacity of the channel and however far behind it falls.
THEOREM StreamsHaveNoGap == WatchSpec => []NoSilentGap
<1>1. WInv => NoSilentGap
  BY DEF WInv
<1> QED
  BY <1>1, WatchInitWInv, WatchStepWInv, PTL DEF WatchSpec

----------------------------------------------------------------------------
(* The requests *)

LEMMA InitParts == Init => KeyInit /\ WatchInit
BY DEF Init

\* The steps of one request.
RequestStep(r) == S3Steps(r) \/ OpsSteps(r) \/ ListingSteps(r) \/ KeySteps(r)

LEMMA NextIsRequestStep ==
    ASSUME [Next]_vars
    PROVE \/ \E r \in Req : RequestStep(r)
          \/ WatchSteps \/ ClockStep
          \/ UNCHANGED vars
BY DEF Next, RequestStep

----------------------------------------------------------------------------
(* The invariant *)

\* What a request that is in the middle of a handler may rely on: the key it has
\* revoked or deleted is refused, and the key that let it in was issued.
StateOK(r) ==
    /\ req[r].at \in {"key_ended", "key_audited"} =>
          /\ req[r].id \in issued
          /\ ~validate_key(req[r].id)
          /\ req[r].event \in {"revoke", "delete"}
    /\ req[r].at = "authenticated" => req[r].id \in issued
    /\ req[r].at = "s3_stored" => req[r].key \in Key

RequestsOK == req = [r \in Req |-> req[r]] /\ \A r \in Req : StateOK(r)

\* ReportsAreTrue, and that the reports are about keys that were issued.
Reported ==
    /\ \A i \in 1..Len(sent) :
          sent[i].event # "put" => sent[i].key \in issued /\ ~validate_key(sent[i].key)
    /\ \A a \in audit :
          a.event \in {"ApiKeyRevoked", "ApiKeyDeleted"} =>
              a.target \in issued /\ ~validate_key(a.target)

CInv == KInv /\ WInv /\ RequestsOK /\ Reported /\ PutsAnnounced

LEMMA InitCInv == Init => CInv
<1> SUFFICES ASSUME Init PROVE CInv
  OBVIOUS
<1>1. KInv /\ WInv
  BY InitParts, KeyInitKInv, WatchInitWInv
<1>2. RequestsOK
  BY DEF Init, RequestsOK, StateOK, New
<1>3. Reported
  BY DEF Init, WatchInit, Reported
<1>4. PutsAnnounced
  BY DEF Init, PutsAnnounced
<1> QED
  BY <1>1, <1>2, <1>3, <1>4 DEF CInv

----------------------------------------------------------------------------
(* The handlers use the key store and the channel through their operations *)

LEMMA KeyHandlers ==
    ASSUME CInv, NEW r \in Req, KeySteps(r)
    PROVE [KeyNext]_keyVars
<1> USE IdAssumption
<1>0. issued \subseteq KeyId /\ r \in KeyId
  BY DEF CInv, KInv, KeyTypeOK
<1>1. ASSUME NEW ttl \in TTL, CreateKey(r, ttl) PROVE [KeyNext]_keyVars
  BY <1>0, <1>1 DEF CreateKey, KeyNext
<1>2. ASSUME CreateKeyHash(r) PROVE [KeyNext]_keyVars
  BY <1>0, <1>2 DEF CreateKeyHash, KeyNext
<1>3. ASSUME NEW id \in issued, NEW event \in {"revoke", "delete"}, EndKey(r, id, event)
      PROVE [KeyNext]_keyVars
  BY <1>0, <1>3 DEF EndKey, KeyNext
<1>4. ASSUME AuthenticatedTouch(r) PROVE [KeyNext]_keyVars
  <2>1. req[r].id \in KeyId
    BY <1>0, <1>4 DEF AuthenticatedTouch, CInv, RequestsOK, StateOK
  <2> QED
    BY <1>4, <2>1 DEF AuthenticatedTouch, KeyNext
<1>5. ASSUME CreateKeyAudit(r) \/ EndKeyAudit(r) \/ EndKeyPublish(r) PROVE [KeyNext]_keyVars
  BY <1>5 DEF CreateKeyAudit, EndKeyAudit, EndKeyPublish
<1>6. ASSUME NEW id \in issued, EndKeyNotFound(r, id) \/ Authenticate(r, id) \/ AuthenticateFails(r, id)
      PROVE [KeyNext]_keyVars
  BY <1>6 DEF EndKeyNotFound, Authenticate, AuthenticateFails
<1> QED
  BY <1>1, <1>2, <1>3, <1>4, <1>5, <1>6 DEF KeySteps

LEMMA KeyPart ==
    ASSUME CInv, [Next]_vars
    PROVE [KeyNext]_keyVars
<1>1. ASSUME NEW r \in Req, S3Steps(r) PROVE [KeyNext]_keyVars
  BY <1>1 DEF S3Steps, S3Put, S3Publish
<1>2. ASSUME NEW r \in Req, OpsSteps(r) PROVE [KeyNext]_keyVars
  BY <1>2 DEF OpsSteps, StartOps, ApplyOp, EndOps
<1>3. ASSUME NEW r \in Req, ListingSteps(r) PROVE [KeyNext]_keyVars
  BY <1>3 DEF ListingSteps, StartListing, ListNext, EndListing
<1>4. ASSUME NEW r \in Req, KeySteps(r) PROVE [KeyNext]_keyVars
  BY <1>4, KeyHandlers
<1>5. CASE WatchSteps
  BY <1>5 DEF WatchSteps
<1>6. CASE ClockStep
  BY <1>6 DEF ClockStep, KeyNext
<1>7. CASE UNCHANGED vars
  BY <1>7 DEF vars
<1> QED
  BY <1>1, <1>2, <1>3, <1>4, <1>5, <1>6, <1>7, NextIsRequestStep DEF RequestStep

LEMMA WatchPart ==
    ASSUME CInv, [Next]_vars
    PROVE [WatchNext]_watchVars
<1> USE EventAssumption
<1>1. ASSUME NEW r \in Req, S3Steps(r) PROVE [WatchNext]_watchVars
  <2>1. ASSUME NEW k \in Key, S3Put(r, k) PROVE [WatchNext]_watchVars
    BY <2>1 DEF S3Put
  <2>2. ASSUME S3Publish(r) PROVE [WatchNext]_watchVars
    <3>1. [event |-> "put", key |-> req[r].key] \in Event
      BY <2>2 DEF S3Publish, CInv, RequestsOK, StateOK
    <3> QED
      BY <2>2, <3>1 DEF S3Publish, WatchNext
  <2> QED
    BY <1>1, <2>1, <2>2 DEF S3Steps
<1>2. ASSUME NEW r \in Req, OpsSteps(r) PROVE [WatchNext]_watchVars
  BY <1>2 DEF OpsSteps, StartOps, ApplyOp, EndOps
<1>3. ASSUME NEW r \in Req, ListingSteps(r) PROVE [WatchNext]_watchVars
  BY <1>3 DEF ListingSteps, StartListing, ListNext, EndListing
<1>4. ASSUME NEW r \in Req, KeySteps(r) PROVE [WatchNext]_watchVars
  <2>1. CASE EndKeyPublish(r)
    <3>1. req[r].id \in KeyId /\ req[r].event \in {"revoke", "delete"}
      BY <2>1 DEF EndKeyPublish, CInv, RequestsOK, StateOK, KInv, KeyTypeOK
    <3>2. [event |-> req[r].event, key |-> req[r].id] \in Event
      BY <3>1
    <3> QED
      BY <2>1, <3>2 DEF EndKeyPublish, WatchNext
  <2>2. CASE UNCHANGED watchVars
    BY <2>2
  <2> QED
    BY <1>4, <2>1, <2>2 DEF KeySteps, CreateKey, CreateKeyHash, CreateKeyAudit, EndKey, EndKeyNotFound,
       EndKeyAudit, Authenticate, AuthenticateFails, AuthenticatedTouch
<1>5. CASE WatchSteps
  BY <1>5 DEF WatchSteps, WatchNext
<1>6. CASE ClockStep
  BY <1>6 DEF ClockStep
<1>7. CASE UNCHANGED vars
  BY <1>7 DEF vars
<1> QED
  BY <1>1, <1>2, <1>3, <1>4, <1>5, <1>6, <1>7, NextIsRequestStep DEF RequestStep

----------------------------------------------------------------------------
(* The invariant is kept *)

\* Keys that were issued stay issued, and those among them that are refused stay
\* refused.
LEMMA KeysMoveOn ==
    ASSUME CInv, [Next]_vars
    PROVE issued \subseteq issued' /\ StaysRefused
<1>1. [KeyNext]_keyVars
  BY KeyPart
<1>2. issued \subseteq issued'
  BY <1>1 DEF KeyNext, keyVars, insert_key, insert_hash, revoke_key, delete_key, touch_key, Tick
<1>3. StaysRefused
  BY <1>1, KeyStepStaysRefused DEF CInv
<1> QED
  BY <1>2, <1>3

\* A request whose state does not change keeps what it relies on.
LEMMA OthersOK ==
    ASSUME CInv, [Next]_vars, NEW q \in Req, req'[q] = req[q]
    PROVE StateOK(q)'
<1>1. issued \subseteq issued' /\ StaysRefused
  BY KeysMoveOn
<1>2. StateOK(q)
  BY DEF CInv, RequestsOK
<1>3. \A id \in issued : ~validate_key(id) => ~validate_key(id)'
  BY <1>1 DEF StaysRefused
<1> QED
  BY <1>1, <1>2, <1>3 DEF StateOK, validate_key, is_expired

\* A step of a handler changes the state of its own request only.
LEMMA MoveOK ==
    ASSUME CInv, NEW r \in Req, NEW s, Goto(r, s)
    PROVE /\ req' = [q \in Req |-> req'[q]]
          /\ req'[r] = s
          /\ \A q \in Req \ {r} : req'[q] = req[q]
BY DEF CInv, RequestsOK, Goto

LEMMA MoveRequestsOK ==
    ASSUME CInv, [Next]_vars, NEW r \in Req, NEW s, Goto(r, s), StateOK(r)'
    PROVE RequestsOK'
<1>1. \A q \in Req \ {r} : StateOK(q)'
  BY MoveOK, OthersOK
<1> QED
  BY <1>1, MoveOK DEF RequestsOK

\* The states in which a request relies on nothing.
Relying == {"key_ended", "key_audited", "authenticated", "s3_stored"}

LEMMA PlainMoveOK ==
    ASSUME CInv, [Next]_vars, NEW r \in Req, NEW s, Goto(r, s), s.at \notin Relying
    PROVE RequestsOK'
<1>1. StateOK(r)'
  BY MoveOK DEF StateOK, Relying
<1> QED
  BY <1>1, MoveRequestsOK

LEMMA RespondOK ==
    ASSUME CInv, [Next]_vars, NEW r \in Req, Respond(r)
    PROVE RequestsOK'
BY PlainMoveOK DEF Respond, Done, Relying

LEMMA RequestsKept ==
    ASSUME CInv, [Next]_vars
    PROVE RequestsOK'
<1>1. ASSUME NEW r \in Req, S3Steps(r) PROVE RequestsOK'
  <2>1. ASSUME NEW k \in Key, S3Put(r, k) PROVE RequestsOK'
    <3>1. Goto(r, [at |-> "s3_stored", key |-> k])
      BY <2>1 DEF S3Put
    <3>2. StateOK(r)'
      BY <3>1, MoveOK DEF StateOK
    <3> QED
      BY <3>1, <3>2, MoveRequestsOK
  <2>2. ASSUME S3Publish(r) PROVE RequestsOK'
    BY <2>2, RespondOK DEF S3Publish
  <2> QED
    BY <1>1, <2>1, <2>2 DEF S3Steps
<1>2. ASSUME NEW r \in Req, OpsSteps(r) PROVE RequestsOK'
  <2>1. ASSUME NEW kind \in {"transaction", "import", "batch"}, NEW ops, StartOps(r, kind, ops)
        PROVE RequestsOK'
    <3> DEFINE s == [at |-> kind, ops |-> ops, results |-> << >>, before |-> Current(kind)]
    <3>1. Goto(r, s) /\ s.at \notin Relying
      BY <2>1 DEF StartOps, Relying
    <3> HIDE DEF s
    <3> QED
      BY <3>1, PlainMoveOK
  <2>2. ASSUME ApplyOp(r) PROVE RequestsOK'
    <3>1. PICK results : Goto(r, [req[r] EXCEPT !.results = results])
      BY <2>2 DEF ApplyOp, ValidResult, InvalidResult
    <3> DEFINE s == [req[r] EXCEPT !.results = results]
    <3>2. Running(r)
      BY <2>2 DEF ApplyOp
    <3>3. Goto(r, s)
      BY <3>1
    <3>4. s.at \notin Relying
      BY <3>2 DEF Running, Relying
    <3> HIDE DEF s
    <3> QED
      BY <3>3, <3>4, PlainMoveOK
  <2>3. ASSUME EndOps(r) PROVE RequestsOK'
    BY <2>3, RespondOK DEF EndOps
  <2> QED
    BY <1>2, <2>1, <2>2, <2>3 DEF OpsSteps
<1>3. ASSUME NEW r \in Req, ListingSteps(r) PROVE RequestsOK'
  <2>1. ASSUME NEW kind \in {"export", "search", "range"}, NEW query, StartListing(r, kind, query)
        PROVE RequestsOK'
    <3> DEFINE s == [at |-> kind, query |-> query, out |-> << >>,
                     todo |-> IF kind = "range" THEN Selected(query) ELSE list_keys]
    <3>1. Goto(r, s) /\ s.at \notin Relying
      BY <2>1 DEF StartListing, Relying
    <3> HIDE DEF s
    <3> QED
      BY <3>1, PlainMoveOK
  <2>2. ASSUME ListNext(r) PROVE RequestsOK'
    <3>1. req[r].at \notin Relying
      BY <2>2 DEF ListNext, Listing, Relying
    <3>2. \/ Goto(r, Skip(r))
          \/ \E v : Goto(r, [req[r] EXCEPT !.todo = Tail(@), !.out = Append(@, <<Head(req[r].todo), v>>)])
      BY <2>2 DEF ListNext
    <3>3. CASE Goto(r, Skip(r))
      <4>1. Skip(r).at \notin Relying
        BY <3>1 DEF Skip
      <4> QED
        BY <3>3, <4>1, PlainMoveOK
    <3>4. ASSUME NEW todo, NEW out, Goto(r, [req[r] EXCEPT !.todo = todo, !.out = out])
          PROVE RequestsOK'
      <4>1. [req[r] EXCEPT !.todo = todo, !.out = out].at \notin Relying
        BY <3>1
      <4> QED
        BY <3>4, <4>1, PlainMoveOK
    <3> QED
      BY <3>2, <3>3, <3>4
  <2>3. ASSUME EndListing(r) PROVE RequestsOK'
    BY <2>3, RespondOK DEF EndListing
  <2> QED
    BY <1>3, <2>1, <2>2, <2>3 DEF ListingSteps
<1>4. ASSUME NEW r \in Req, KeySteps(r) PROVE RequestsOK'
  <2>1. ASSUME NEW ttl \in TTL, CreateKey(r, ttl) PROVE RequestsOK'
    BY <2>1, PlainMoveOK DEF CreateKey, Relying
  <2>2. ASSUME CreateKeyHash(r) PROVE RequestsOK'
    BY <2>2, PlainMoveOK DEF CreateKeyHash, Relying
  <2>3. ASSUME NEW id \in issued, NEW event \in {"revoke", "delete"}, EndKey(r, id, event)
        PROVE RequestsOK'
    <3>1. Goto(r, [at |-> "key_ended", id |-> id, event |-> event])
      BY <2>3 DEF EndKey
    <3>2. req'[r] = [at |-> "key_ended", id |-> id, event |-> event]
      BY <3>1, MoveOK
    <3>3. ~validate_key(id)'
      BY <2>3 DEF EndKey, revoke_key, delete_key, validate_key, CInv, KInv, KeyTypeOK, ApiKey
    <3>4. id \in issued'
      BY KeysMoveOn
    <3>5. StateOK(r)'
      BY <3>2, <3>3, <3>4 DEF StateOK, validate_key
    <3> QED
      BY <3>1, <3>5, MoveRequestsOK
  <2>4. ASSUME EndKeyAudit(r) PROVE RequestsOK'
    <3> DEFINE s == [at |-> "key_audited", id |-> req[r].id, event |-> req[r].event]
    <3>1. Goto(r, s)
      BY <2>4 DEF EndKeyAudit
    <3>2. req'[r] = s
      BY <3>1, MoveOK
    <3>3. req[r].id \in issued /\ ~validate_key(req[r].id) /\ req[r].event \in {"revoke", "delete"}
      BY <2>4 DEF EndKeyAudit, CInv, RequestsOK, StateOK
    <3>4. UNCHANGED keyVars
      BY <2>4 DEF EndKeyAudit
    <3>5. ASSUME NEW id, ~validate_key(id) PROVE ~validate_key(id)'
      BY <3>4, <3>5 DEF keyVars, validate_key, is_expired
    <3>6. issued' = issued
      BY <3>4 DEF keyVars
    <3>7. PICK id : id = req[r].id
      OBVIOUS
    <3>8. req'[r].at = "key_audited" /\ req'[r].id = id /\ req'[r].event \in {"revoke", "delete"}
      BY <3>2, <3>3, <3>7
    <3>9. ~validate_key(id)'
      BY <3>3, <3>5, <3>7
    <3>10. StateOK(r)'
      BY <3>3, <3>6, <3>7, <3>8, <3>9 DEF StateOK
    <3> HIDE DEF s
    <3> QED
      BY <3>1, <3>10, MoveRequestsOK
  <2>5. ASSUME NEW id \in issued, Authenticate(r, id) PROVE RequestsOK'
    <3>1. Goto(r, [at |-> "authenticated", id |-> id])
      BY <2>5 DEF Authenticate
    <3>2. req'[r] = [at |-> "authenticated", id |-> id]
      BY <3>1, MoveOK
    <3>3. StateOK(r)'
      BY <3>2, KeysMoveOn DEF StateOK
    <3> QED
      BY <3>1, <3>3, MoveRequestsOK
  <2>6. ASSUME Respond(r) PROVE RequestsOK'
    BY <2>6, RespondOK
  <2> QED
    BY <1>4, <2>1, <2>2, <2>3, <2>4, <2>5, <2>6 DEF KeySteps, CreateKeyAudit, EndKeyNotFound,
       EndKeyPublish, AuthenticateFails, AuthenticatedTouch
<1>5. CASE UNCHANGED req
  BY <1>5, OthersOK DEF CInv, RequestsOK
<1> QED
  BY <1>1, <1>2, <1>3, <1>4, <1>5, NextIsRequestStep
  DEF RequestStep, WatchSteps, ClockStep, vars

\* A key that is reported as revoked or deleted.
Ended(id) == id \in issued /\ ~validate_key(id)

LEMMA EndedKept ==
    ASSUME CInv, [Next]_vars, NEW id, Ended(id)
    PROVE Ended(id)'
BY KeysMoveOn DEF Ended, StaysRefused

\* The events of a step: none, or one whose key has ended unless it is a put.
LEMMA EventSent ==
    ASSUME CInv, [Next]_vars
    PROVE \/ sent' = sent
          \/ \E e \in Event : sent' = Append(sent, e) /\ (e.event # "put" => Ended(e.key))
<1>1. ASSUME NEW r \in Req, S3Publish(r)
      PROVE \E e \in Event : sent' = Append(sent, e) /\ (e.event # "put" => Ended(e.key))
  <2> DEFINE e == [event |-> "put", key |-> req[r].key]
  <2>1. e \in Event
    BY <1>1, EventAssumption DEF S3Publish, CInv, RequestsOK, StateOK
  <2>2. sent' = Append(sent, e) /\ e.event = "put"
    BY <1>1 DEF S3Publish, send
  <2> QED
    BY <2>1, <2>2
<1>2. ASSUME NEW r \in Req, EndKeyPublish(r)
      PROVE \E e \in Event : sent' = Append(sent, e) /\ (e.event # "put" => Ended(e.key))
  <2> DEFINE e == [event |-> req[r].event, key |-> req[r].id]
  <2>1. Ended(req[r].id) /\ req[r].event \in {"revoke", "delete"} /\ req[r].id \in KeyId
    BY <1>2 DEF EndKeyPublish, CInv, RequestsOK, StateOK, Ended, KInv, KeyTypeOK
  <2>2. e \in Event
    BY <2>1, EventAssumption
  <2>3. sent' = Append(sent, e) /\ Ended(e.key)
    BY <1>2, <2>1 DEF EndKeyPublish, send
  <2> QED
    BY <2>2, <2>3
<1>3. ASSUME NEW r \in Req, OpsSteps(r) \/ ListingSteps(r) PROVE sent' = sent
  BY <1>3 DEF OpsSteps, StartOps, ApplyOp, EndOps, ListingSteps, StartListing, ListNext, EndListing,
     watchVars
<1>4. ASSUME NEW r \in Req, S3Steps(r), ~S3Publish(r) PROVE sent' = sent
  BY <1>4 DEF S3Steps, S3Put, watchVars
<1>5. ASSUME NEW r \in Req, KeySteps(r), ~EndKeyPublish(r) PROVE sent' = sent
  BY <1>5 DEF KeySteps, CreateKey, CreateKeyHash, CreateKeyAudit, EndKey, EndKeyNotFound,
     EndKeyAudit, Authenticate, AuthenticateFails, AuthenticatedTouch, watchVars
<1>6. ASSUME WatchSteps \/ ClockStep \/ UNCHANGED vars PROVE sent' = sent
  BY <1>6 DEF WatchSteps, WatchStep, Subscribe, Receive, EndLagged, Disconnect, ClockStep, vars, watchVars
<1> QED
  BY <1>1, <1>2, <1>3, <1>4, <1>5, <1>6, NextIsRequestStep DEF RequestStep

\* The audit entries of a step: none, or one whose key has ended if it says so.
LEMMA EntryLogged ==
    ASSUME CInv, [Next]_vars
    PROVE \/ audit' = audit
          \/ \E a : /\ audit' = audit \cup {a}
                    /\ a.event \in {"ApiKeyRevoked", "ApiKeyDeleted"} => Ended(a.target)
<1>1. ASSUME NEW r \in Req, EndKeyAudit(r)
      PROVE \E a : audit' = audit \cup {a} /\ Ended(a.target)
  <2>1. Ended(req[r].id)
    BY <1>1 DEF EndKeyAudit, CInv, RequestsOK, StateOK, Ended
  <2>2. PICK event : audit' = audit \cup {[event |-> event, target |-> req[r].id]}
    BY <1>1 DEF EndKeyAudit, log_event
  <2>3. [event |-> event, target |-> req[r].id].target = req[r].id
    OBVIOUS
  <2>4. Ended([event |-> event, target |-> req[r].id].target)
    BY <2>1, <2>3, Zenon
  <2> QED
    BY <2>2, <2>4, Zenon
<1>2. ASSUME NEW event \in {"ApiKeyCreated", "System"}, NEW target, log_event(event, target)
      PROVE \E a : /\ audit' = audit \cup {a}
                   /\ a.event \notin {"ApiKeyRevoked", "ApiKeyDeleted"}
  <2> DEFINE a == [event |-> event, target |-> target]
  <2>1. audit' = audit \cup {a} /\ a.event \notin {"ApiKeyRevoked", "ApiKeyDeleted"}
    BY <1>2 DEF log_event
  <2> QED
    BY <2>1
<1>3. ASSUME NEW r \in Req, OpsSteps(r)
      PROVE audit' = audit \/ log_event("System", None)
  BY <1>3 DEF OpsSteps, StartOps, ApplyOp, EndOps
<1>4. ASSUME NEW r \in Req, S3Steps(r) \/ ListingSteps(r) PROVE audit' = audit
  BY <1>4 DEF S3Steps, S3Put, S3Publish, ListingSteps, StartListing, ListNext, EndListing
<1>5. ASSUME NEW r \in Req, KeySteps(r), ~EndKeyAudit(r)
      PROVE audit' = audit \/ log_event("ApiKeyCreated", r)
  BY <1>5 DEF KeySteps, CreateKey, CreateKeyHash, CreateKeyAudit, EndKey, EndKeyNotFound,
     EndKeyPublish, Authenticate, AuthenticateFails, AuthenticatedTouch
<1>6. ASSUME WatchSteps \/ ClockStep \/ UNCHANGED vars PROVE audit' = audit
  BY <1>6 DEF WatchSteps, ClockStep, vars
<1> QED
  BY <1>1, <1>2, <1>3, <1>4, <1>5, <1>6, NextIsRequestStep DEF RequestStep

LEMMA ReportedKept ==
    ASSUME CInv, [Next]_vars
    PROVE Reported'
<1>1. ASSUME NEW i \in 1..Len(sent'), sent'[i].event # "put", NEW id, id = sent'[i].key
      PROVE Ended(id)'
  <2>1. sent \in Seq(Event) /\ Len(sent) \in Nat
    BY DEF CInv, WInv, WatchTypeOK
  <2>2. ASSUME NEW j \in 1..Len(sent), sent[j].event # "put", id = sent[j].key PROVE Ended(id)
    BY <2>2 DEF CInv, Reported, Ended
  <2>3. CASE sent' = sent
    BY <1>1, <2>2, <2>3, EndedKept
  <2>4. ASSUME NEW e \in Event, sent' = Append(sent, e), e.event # "put" => Ended(e.key)
        PROVE Ended(id)'
    <3>1. /\ Len(sent') = Len(sent) + 1
          /\ \A j \in 1..Len(sent) : sent'[j] = sent[j]
          /\ sent'[Len(sent) + 1] = e
      BY <2>1, <2>4, Appended
    <3>2. CASE i \in 1..Len(sent)
      BY <1>1, <2>2, <3>1, <3>2, EndedKept
    <3>3. CASE i = Len(sent) + 1
      <4>1. sent'[i] = e
        BY <3>1, <3>3
      <4>2. e.event # "put" /\ e.key = id
        BY <1>1, <4>1
      <4>3. Ended(id)
        BY <2>4, <4>2
      <4> QED
        BY <4>3, EndedKept
    <3>4. Len(sent') = Len(sent) + 1
      BY <3>1
    <3>5. i \in 1..Len(sent) \/ i = Len(sent) + 1
      BY <2>1, <3>4
    <3> QED
      BY <3>2, <3>3, <3>5
  <2> QED
    BY <2>3, <2>4, EventSent
<1>2. ASSUME NEW a \in audit', a.event \in {"ApiKeyRevoked", "ApiKeyDeleted"}
      PROVE Ended(a.target)'
  <2>1. Ended(a.target)
    BY <1>2, EntryLogged DEF CInv, Reported, Ended
  <2> QED
    BY <2>1, EndedKept
<1>3. \A i \in 1..Len(sent') : sent'[i].event # "put" =>
          sent'[i].key \in issued' /\ \A id : id = sent'[i].key => ~validate_key(id)'
  BY <1>1 DEF Ended
<1>4. \A a \in audit' : a.event \in {"ApiKeyRevoked", "ApiKeyDeleted"} =>
          a.target \in issued' /\ ~validate_key(a.target)'
  BY <1>2 DEF Ended
<1> QED
  BY <1>3, <1>4 DEF Reported, validate_key, is_expired

\* PUT requests: only S3Publish takes a key from silent, together with its request.
LEMMA PutsKept ==
    ASSUME CInv, [Next]_vars
    PROVE PutsAnnounced'
<1> DEFINE announcer(r, k) == req[r] = [at |-> "s3_stored", key |-> k]
<1>0. \A k \in silent : \E r \in Req : announcer(r, k)
  BY DEF CInv, PutsAnnounced
<1>1. ASSUME NEW r \in Req, NEW s, Goto(r, s), req[r].at # "s3_stored", silent' = silent
      PROVE PutsAnnounced'
  <2>1. ASSUME NEW k \in silent PROVE \E q \in Req : req'[q] = [at |-> "s3_stored", key |-> k]
    <3>1. PICK q \in Req : announcer(q, k)
      BY <1>0
    <3>2. q # r
      BY <1>1, <3>1
    <3> QED
      BY <1>1, <3>1, <3>2, MoveOK
  <2> QED
    BY <1>1, <2>1 DEF PutsAnnounced
<1>2. ASSUME NEW r \in Req, NEW k \in Key, S3Put(r, k) PROVE PutsAnnounced'
  <2>1. Goto(r, [at |-> "s3_stored", key |-> k]) /\ req[r].at # "s3_stored" /\ silent' = silent \cup {k}
    BY <1>2 DEF S3Put, New
  <2>2. ASSUME NEW l \in silent PROVE \E q \in Req : req'[q] = [at |-> "s3_stored", key |-> l]
    <3>1. PICK q \in Req : announcer(q, l)
      BY <1>0
    <3>2. q # r
      BY <2>1, <3>1
    <3> QED
      BY <2>1, <3>1, <3>2, MoveOK
  <2>3. req'[r] = [at |-> "s3_stored", key |-> k]
    BY <2>1, MoveOK
  <2> QED
    BY <2>1, <2>2, <2>3 DEF PutsAnnounced
<1>3. ASSUME NEW r \in Req, S3Publish(r) PROVE PutsAnnounced'
  <2>1. Goto(r, Done) /\ silent' = silent \ {req[r].key}
    BY <1>3 DEF S3Publish, Respond
  <2>2. ASSUME NEW l \in silent, l # req[r].key
        PROVE \E q \in Req : req'[q] = [at |-> "s3_stored", key |-> l]
    <3>1. PICK q \in Req : announcer(q, l)
      BY <1>0
    <3>2. q # r
      BY <2>2, <3>1
    <3> QED
      BY <2>1, <3>1, <3>2, MoveOK
  <2> QED
    BY <2>1, <2>2 DEF PutsAnnounced
<1>4. ASSUME NEW r \in Req, OpsSteps(r) PROVE PutsAnnounced'
  <2>1. req[r].at # "s3_stored"
    <3>1. req[r] = New \/ Running(r)
      BY <1>4 DEF OpsSteps, StartOps, ApplyOp, EndOps
    <3> QED
      BY <3>1 DEF New, Running
  <2>2. silent' = silent
    BY <1>4 DEF OpsSteps, StartOps, ApplyOp, EndOps, dataVars
  <2>3. \E s : Goto(r, s)
    BY <1>4 DEF OpsSteps, StartOps, ApplyOp, EndOps, Respond
  <2> QED
    BY <1>1, <2>1, <2>2, <2>3
<1>5. ASSUME NEW r \in Req, ListingSteps(r) PROVE PutsAnnounced'
  <2>1. req[r].at # "s3_stored"
    <3>1. req[r] = New \/ Listing(r)
      BY <1>5 DEF ListingSteps, StartListing, ListNext, EndListing
    <3> QED
      BY <3>1 DEF New, Listing
  <2>2. silent' = silent
    BY <1>5 DEF ListingSteps, StartListing, ListNext, EndListing, dataVars
  <2>3. \E s : Goto(r, s)
    BY <1>5 DEF ListingSteps, StartListing, ListNext, EndListing, Respond
  <2> QED
    BY <1>1, <2>1, <2>2, <2>3
<1>6. ASSUME NEW r \in Req, KeySteps(r) PROVE PutsAnnounced'
  <2>1. req[r].at # "s3_stored"
    <3>1. \/ req[r] = New
          \/ req[r].at \in {"create_inserted", "created", "key_ended", "key_audited", "authenticated"}
      BY <1>6 DEF KeySteps, CreateKey, CreateKeyHash, CreateKeyAudit, EndKey, EndKeyNotFound, EndKeyAudit,
         EndKeyPublish, Authenticate, AuthenticateFails, AuthenticatedTouch
    <3> QED
      BY <3>1 DEF New
  <2>2. silent' = silent
    BY <1>6 DEF KeySteps, CreateKey, CreateKeyHash, CreateKeyAudit, EndKey, EndKeyNotFound, EndKeyAudit,
       EndKeyPublish, Authenticate, AuthenticateFails, AuthenticatedTouch, dataVars
  <2>3. \E s : Goto(r, s)
    BY <1>6 DEF KeySteps, CreateKey, CreateKeyHash, CreateKeyAudit, EndKey, EndKeyNotFound, EndKeyAudit,
       EndKeyPublish, Authenticate, AuthenticateFails, AuthenticatedTouch, Respond
  <2> QED
    BY <1>1, <2>1, <2>2, <2>3
<1>7. CASE UNCHANGED <<req, silent>>
  BY <1>0, <1>7 DEF PutsAnnounced
<1> QED
  BY <1>2, <1>3, <1>4, <1>5, <1>6, <1>7, NextIsRequestStep
  DEF RequestStep, S3Steps, WatchSteps, ClockStep, vars, dataVars

LEMMA StepCInv == CInv /\ [Next]_vars => CInv'
<1> SUFFICES ASSUME CInv, [Next]_vars PROVE CInv'
  OBVIOUS
<1>1. KInv'
  BY KeyPart, KeyStepKInv DEF CInv
<1>2. WInv'
  BY WatchPart, WatchStepWInv DEF CInv
<1> QED
  BY <1>1, <1>2, RequestsKept, ReportedKept, PutsKept DEF CInv

----------------------------------------------------------------------------
(* Theorems *)

\* The API implements the key store: its handlers and the authentication change
\* the API keys through the operations of KeyStore alone.
THEOREM ImplementsKeyStore == Spec => KeySpec
<1>1. CInv /\ [Next]_vars => [KeyNext]_keyVars
  BY KeyPart
<1> QED
  BY <1>1, InitParts, InitCInv, StepCInv, PTL DEF Spec, KeySpec

\* The API implements the watch channel: it sends to it and reads from it through
\* the operations of Watch alone.
THEOREM ImplementsWatch == Spec => WatchSpec
<1>1. CInv /\ [Next]_vars => [WatchNext]_watchVars
  BY WatchPart
<1> QED
  BY <1>1, InitParts, InitCInv, StepCInv, PTL DEF Spec, WatchSpec

\* Whatever requests overlap, a key that is refused once is refused for ever.
THEOREM ApiRefusalIsFinal == Spec => RefusalIsFinal
BY ImplementsKeyStore, RefusalsAreFinal, PTL

\* Whatever requests overlap, hash_to_id leads to the keys that are there and to
\* those whose deletion overtook their generation.
THEOREM ApiHashIndexExact == Spec => []HashIndexExact
BY ImplementsKeyStore, HashIndexCorrect, PTL

\* Every client of the watch channel sees the events without a silent gap.
THEOREM ApiNoSilentGap == Spec => []NoSilentGap
BY ImplementsWatch, StreamsHaveNoGap, PTL

\* A revocation or deletion that is announced or in the audit log has happened,
\* and the key is refused from then on.
THEOREM ApiReportsAreTrue == Spec => []ReportsAreTrue
<1>1. CInv => ReportsAreTrue
  BY DEF CInv, Reported, ReportsAreTrue
<1> QED
  BY <1>1, InitCInv, StepCInv, PTL DEF Spec

\* Every stored PUT is followed by an event for its key.
THEOREM ApiPutsAnnounced == Spec => []PutsAnnounced
<1>1. CInv => PutsAnnounced
  BY DEF CInv
<1> QED
  BY <1>1, InitCInv, StepCInv, PTL DEF Spec
============================================================================
