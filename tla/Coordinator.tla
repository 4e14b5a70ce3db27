--------------------------- MODULE Coordinator ---------------------------
(***************************************************************************)
(* The HTTP API of the coordinator: concurrent requests over the value     *)
(* store (STORAGE), the metadata store, the API keys and the watch channel.*)
(*                                                                         *)
(* A request runs one handler.  Each call of a store takes and releases    *)
(* the lock of that store, so a handler is one action per such call, and   *)
(* requests interleave between any two of them.  The values that a request *)
(* writes are named after the request and the place of the operation in    *)
(* it.  Keys are numbers, since ranges compare them.  Requests that are    *)
(* refused without having touched a store are left out.                    *)
(***************************************************************************)
EXTENDS KeyStore, Watch, FiniteSetsExt

CONSTANTS
    Req,            \* requests
    Key,            \* the keys of values and metadata, a set of numbers
    Old,            \* a value described by metadata from before the start
    Transactions,   \* the operation lists of POST /transaction
    Imports,        \* the operation lists of POST /admin/import
    Batches,        \* the operation lists of POST /batch
    MaxOps          \* bound: operations in such a list

\* "invalid": an unknown operation, or a put without a value.
Op == [op : {"put", "delete", "get", "invalid"}, key : Key]

ASSUME KeyAssumption == Key \subseteq Nat /\ IsFiniteSet(Key)

\* Only POST /batch knows "get"; for the others it is an unknown operation.
ASSUME OpsAssumption ==
    /\ MaxOps \in Nat \ {0}
    /\ \A ops \in Transactions \cup Imports \cup Batches : ops \in Seq(Op) /\ Len(ops) <= MaxOps
    /\ \A ops \in Transactions \cup Imports : \A i \in 1..Len(ops) : ops[i].op # "get"

\* A key that a request creates is named after the request.
ASSUME IdAssumption == Req \subseteq KeyId
ASSUME EventAssumption ==
    [event : {"put"}, key : Key] \cup [event : {"revoke", "delete"}, key : KeyId] \subseteq Event

Value == Req \X (1..MaxOps)

VARIABLES
    storage,    \* STORAGE: the value of a key or None
    metadata,   \* MetadataStore: the value that the entry of a key describes, or None
    audit,      \* the entries of AUDIT_LOGGER, in no order
    req,        \* what each request is doing
    dirty,      \* history: the entries that others wrote while a request was running
    silent      \* history: keys that PUT wrote and no later event names

dataVars == <<storage, metadata, dirty, silent>>
vars == <<keyVars, watchVars, dataVars, audit, req>>

New == [at |-> "new"]
Done == [at |-> "done"]

Init ==
    /\ KeyInit
    /\ WatchInit
    /\ storage = [k \in Key |-> None]
    /\ metadata \in [Key -> {Old, None}]
    /\ audit = {}
    /\ req = [r \in Req |-> New]
    /\ dirty = [r \in Req |-> {}]
    /\ silent = {}

Goto(r, state) == req' = [req EXCEPT ![r] = state]

\* r writes key k of a store: the requests that are running may see it.
MarkDirty(r, store, k) ==
    dirty' = [q \in Req |-> IF q # r /\ req[q] \notin {New, Done} THEN dirty[q] \cup {<<store, k>>}
                            ELSE dirty[q]]

Respond(r) ==
    /\ Goto(r, Done)
    /\ dirty' = [dirty EXCEPT ![r] = {}]

log_event(event, target) == audit' = audit \cup {[event |-> event, target |-> target]}

----------------------------------------------------------------------------
(* PUT /s3/bucket/key *)

\* The value is stored.
S3Put(r, k) ==
    /\ req[r] = New
    /\ storage' = [storage EXCEPT ![k] = <<r, 1>>]
    /\ MarkDirty(r, "storage", k)
    /\ silent' = silent \cup {k}
    /\ Goto(r, [at |-> "s3_stored", key |-> k])
    /\ UNCHANGED <<keyVars, watchVars, metadata, audit>>

\* Faulty variant: an event like the last one is not sent again.
S3Publish_once(r) ==
    /\ req[r].at = "s3_stored"
    /\ LET event == [event |-> "put", key |-> req[r].key]
           told == sent # << >> /\ sent[Len(sent)] = event IN
        IF told THEN UNCHANGED <<watchVars, silent>>
        ELSE send(event) /\ silent' = silent \ {req[r].key}
    /\ Respond(r)
    /\ UNCHANGED <<keyVars, storage, metadata, audit>>

\* The event is sent.  The placement that follows chooses volumes and contacts
\* none of them: prepare and commit are simulated and always succeed.
S3Publish(r) ==
    /\ req[r].at = "s3_stored"
    /\ send([event |-> "put", key |-> req[r].key])
    /\ silent' = silent \ {req[r].key}
    /\ Respond(r)
    /\ UNCHANGED <<keyVars, storage, metadata, audit>>

----------------------------------------------------------------------------
(* POST /transaction, /admin/import and /batch: one operation after another *)

StoreOf(kind) == IF kind = "batch" THEN "metadata" ELSE "storage"
Current(kind) == IF kind = "batch" THEN metadata ELSE storage

StartOps(r, kind, ops) ==
    /\ req[r] = New
    /\ Goto(r, [at |-> kind, ops |-> ops, results |-> << >>, before |-> Current(kind)])
    /\ UNCHANGED <<keyVars, watchVars, dataVars, audit>>

Running(r) == req[r].at \in {"transaction", "import", "batch"}
AllDone(r) == Len(req[r].results) = Len(req[r].ops)

SetEntry(kind, k, value) ==
    IF kind = "batch" THEN metadata' = [metadata EXCEPT ![k] = value] /\ UNCHANGED storage
    ELSE storage' = [storage EXCEPT ![k] = value] /\ UNCHANGED metadata

\* A put or delete is reported as done.
ValidResult(r) == [req[r] EXCEPT !.results = Append(@, TRUE)]

\* Faulty variant: the list of operations is left at the first invalid one.
InvalidResult_stops(r) == [req[r] EXCEPT !.results = [i \in 1..Len(req[r].ops) |-> FALSE]]

\* An invalid operation is reported and the next one is tried.
InvalidResult(r) == [req[r] EXCEPT !.results = Append(@, FALSE)]

\* The loop body of transaction_ops, admin_import and batch_ops.
ApplyOp(r) ==
    /\ Running(r)
    /\ ~AllDone(r)
    /\ LET i == Len(req[r].results) + 1
           op == req[r].ops[i]
           kind == req[r].at IN
        \/ /\ op.op \in {"put", "delete"}
           /\ SetEntry(kind, op.key, IF op.op = "put" THEN <<r, i>> ELSE None)
           /\ MarkDirty(r, StoreOf(kind), op.key)
           /\ Goto(r, ValidResult(r))
           /\ UNCHANGED silent
        \/ /\ op.op = "get"
           /\ Goto(r, [req[r] EXCEPT !.results = Append(@, metadata[op.key] # None)])
           /\ UNCHANGED dataVars
        \/ /\ op.op = "invalid"
           /\ Goto(r, InvalidResult(r))
           /\ UNCHANGED dataVars
    /\ UNCHANGED <<keyVars, watchVars, audit>>

\* transaction_ops and admin_import write one audit entry; batch_ops writes none.
EndOps(r) ==
    /\ Running(r)
    /\ AllDone(r)
    /\ IF req[r].at = "batch" THEN UNCHANGED audit ELSE log_event("System", None)
    /\ Respond(r)
    /\ UNCHANGED <<keyVars, watchVars, storage, metadata, silent>>

----------------------------------------------------------------------------
(* GET /admin/export, /search and /range: list the keys, then read each *)

\* The keys of a set in their order.
Ascending(S) ==
    CHOOSE s \in [1..Cardinality(S) -> S] : \A i, j \in 1..Cardinality(S) : i < j => s[i] < s[j]

\* MetadataStore::list_keys, in the order of the column family.
list_keys == Ascending({k \in Key : metadata[k] # None})

\* range_query filters what list_keys returns and sorts it again.
Selected(query) == Ascending({k \in query : metadata[k] # None})

\* admin_export and search_keys take every key, range_query those of the range.
StartListing(r, kind, query) ==
    /\ req[r] = New
    /\ Goto(r, [at |-> kind, query |-> query, out |-> << >>,
                todo |-> IF kind = "range" THEN Selected(query) ELSE list_keys])
    /\ UNCHANGED <<keyVars, watchVars, dataVars, audit>>

Listing(r) == req[r].at \in {"export", "search", "range"}

\* Faulty variant: the export ends at a key that has no value any more.
Skip_ends(r) == [req[r] EXCEPT !.todo = << >>]

\* A key without a value, or whose value does not match, is left out.
Skip(r) == [req[r] EXCEPT !.todo = Tail(@)]

\* The value of the next key, None where range_query answers null.
ReadNext(r) ==
    LET k == Head(req[r].todo) IN IF req[r].at = "range" THEN metadata[k] ELSE storage[k]

\* The loop body: range_query keeps every key, admin_export those that have a
\* value and search_keys those whose value matches the query.
ListNext(r) ==
    /\ Listing(r)
    /\ req[r].todo # << >>
    /\ LET v == ReadNext(r)
           taken == \/ req[r].at = "range"
                    \/ req[r].at = "export" /\ v # None
                    \/ req[r].at = "search" /\ v \in req[r].query IN
        Goto(r, IF taken
                THEN [req[r] EXCEPT !.todo = Tail(@), !.out = Append(@, <<Head(req[r].todo), v>>)]
                ELSE Skip(r))
    /\ UNCHANGED <<keyVars, watchVars, dataVars, audit>>

EndListing(r) ==
    /\ Listing(r)
    /\ req[r].todo = << >>
    /\ Respond(r)
    /\ UNCHANGED <<keyVars, watchVars, storage, metadata, silent, audit>>

----------------------------------------------------------------------------
(* The administration of API keys.  A key is named after its request. *)

\* admin_create_key: generate_key, in its two steps.
CreateKey(r, ttl) ==
    /\ req[r] = New
    /\ insert_key(r, ttl)
    /\ Goto(r, [at |-> "create_inserted"])
    /\ UNCHANGED <<watchVars, dataVars, audit>>

CreateKeyHash(r) ==
    /\ req[r].at = "create_inserted"
    /\ insert_hash(r)
    /\ Goto(r, [at |-> "created"])
    /\ UNCHANGED <<watchVars, dataVars, audit>>

CreateKeyAudit(r) ==
    /\ req[r].at = "created"
    /\ log_event("ApiKeyCreated", r)
    /\ Respond(r)
    /\ UNCHANGED <<keyVars, watchVars, storage, metadata, silent>>

\* admin_revoke_key and admin_delete_key: the change of the key store, the audit
\* entry, the event.  An id that is not there is answered with NOT_FOUND.
EndKey(r, id, event) ==
    /\ req[r] = New
    /\ \/ event = "revoke" /\ revoke_key(id)
       \/ event = "delete" /\ delete_key(id)
    /\ Goto(r, [at |-> "key_ended", id |-> id, event |-> event])
    /\ UNCHANGED <<watchVars, dataVars, audit>>

EndKeyNotFound(r, id) ==
    /\ req[r] = New
    /\ keys[id] = None
    /\ Respond(r)
    /\ UNCHANGED <<keyVars, watchVars, storage, metadata, silent, audit>>

EndKeyAudit(r) ==
    /\ req[r].at = "key_ended"
    /\ log_event(IF req[r].event = "revoke" THEN "ApiKeyRevoked" ELSE "ApiKeyDeleted", req[r].id)
    /\ Goto(r, [at |-> "key_audited", id |-> req[r].id, event |-> req[r].event])
    /\ UNCHANGED <<keyVars, watchVars, dataVars>>

EndKeyPublish(r) ==
    /\ req[r].at = "key_audited"
    /\ send([event |-> req[r].event, key |-> req[r].id])
    /\ Respond(r)
    /\ UNCHANGED <<keyVars, storage, metadata, silent, audit>>

----------------------------------------------------------------------------
(* auth_middleware around a request that presents an API key *)

Authenticate(r, id) ==
    /\ req[r] = New
    /\ validate_key(id)
    /\ Goto(r, [at |-> "authenticated", id |-> id])
    /\ UNCHANGED <<keyVars, watchVars, dataVars, audit>>

\* AuthResult::Invalid or AuthResult::Expired: the request is answered with 401.
AuthenticateFails(r, id) ==
    /\ req[r] = New
    /\ ~validate_key(id)
    /\ Respond(r)
    /\ UNCHANGED <<keyVars, watchVars, storage, metadata, silent, audit>>

\* touch_key, before the inner handler runs.
AuthenticatedTouch(r) ==
    /\ req[r].at = "authenticated"
    /\ touch_key(req[r].id)
    /\ Respond(r)
    /\ UNCHANGED <<watchVars, storage, metadata, silent, audit>>

----------------------------------------------------------------------------
(* The program *)

S3Steps(r) == (\E k \in Key : S3Put(r, k)) \/ S3Publish(r)

OpsSteps(r) ==
    \/ \E ops \in Transactions : StartOps(r, "transaction", ops)
    \/ \E ops \in Imports : StartOps(r, "import", ops)
    \/ \E ops \in Batches : StartOps(r, "batch", ops)
    \/ ApplyOp(r) \/ EndOps(r)

ListingSteps(r) ==
    \/ StartListing(r, "export", {})
    \/ \E q \in Req : StartListing(r, "search", {q} \X (1..MaxOps))
    \/ \E first, last \in Key : StartListing(r, "range", {k \in Key : first <= k /\ k <= last})
    \/ ListNext(r) \/ EndListing(r)

KeySteps(r) ==
    \/ \E ttl \in TTL : CreateKey(r, ttl)
    \/ CreateKeyHash(r) \/ CreateKeyAudit(r)
    \/ \E id \in issued, event \in {"revoke", "delete"} : EndKey(r, id, event)
    \/ \E id \in issued : EndKeyNotFound(r, id)
    \/ EndKeyAudit(r) \/ EndKeyPublish(r)
    \/ \E id \in issued : Authenticate(r, id) \/ AuthenticateFails(r, id)
    \/ AuthenticatedTouch(r)

WatchSteps ==
    /\ \E w \in Watcher : WatchStep(w)
    /\ UNCHANGED <<keyVars, dataVars, audit, req>>

ClockStep == Tick /\ UNCHANGED <<watchVars, dataVars, audit, req>>

Next ==
    \/ \E r \in Req : S3Steps(r) \/ OpsSteps(r) \/ ListingSteps(r) \/ KeySteps(r)
    \/ WatchSteps
    \/ ClockStep

Spec == Init /\ [][Next]_vars

----------------------------------------------------------------------------
(* Properties *)

Entry == Value \cup {Old, None}

\* Every variable has its type.
TypeOK ==
    /\ KeyTypeOK
    /\ WatchTypeOK
    /\ storage \in [Key -> Entry]
    /\ metadata \in [Key -> Entry]
    /\ silent \in SUBSET Key
    /\ dirty \in [Req -> SUBSET ({"storage", "metadata"} \X Key)]
    /\ \A r \in Req :
          /\ Running(r) => Len(req[r].results) <= Len(req[r].ops)
          /\ Listing(r) => req[r].out \in Seq(Key \X Entry)

\* What is reported has happened and lasts: a "revoke" or "delete" event on the
\* watch channel, or the audit entry of one, means that the key is refused from
\* then on (admin_revoke_key, admin_delete_key).
ReportsAreTrue ==
    /\ \A i \in 1..Len(sent) : sent[i].event # "put" => ~validate_key(sent[i].key)
    /\ \A a \in audit : a.event \in {"ApiKeyRevoked", "ApiKeyDeleted"} => ~validate_key(a.target)

\* A client that reads a key again at each of its "put" events ends with what the
\* PUT requests stored: every write is followed by an event for its key, although
\* the events of two requests may come in the other order than their writes
\* (s3_put_object).
PutsAnnounced ==
    \A k \in silent : \E r \in Req : req[r] = [at |-> "s3_stored", key |-> k]

\* The last operation before the i-th one of r that writes key k, 0 if none does.
LastWrite(r, k, i) ==
    Max({0} \cup {j \in 1..(i - 1) : req[r].ops[j].key = k /\ req[r].ops[j].op \in {"put", "delete"}})

\* What key k holds before the i-th operation of r if no other request wrote it.
Expected(r, k, i) ==
    LET j == LastWrite(r, k, i) IN
    IF j = 0 THEN req[r].before[k] ELSE IF req[r].ops[j].op = "put" THEN <<r, j>> ELSE None

\* The operations of a transaction, an import or a batch take effect in their
\* order, none twice and none left out after an invalid one, and the results
\* say which did: for every key that no other request wrote meanwhile, the store
\* holds what the operations one after another lead to, whatever other requests
\* did to other keys (transaction_ops, admin_import, batch_ops).
OpsInOrder ==
    \A r \in Req : Running(r) =>
        /\ \A k \in Key :
              <<StoreOf(req[r].at), k>> \notin dirty[r]
                  => Current(req[r].at)[k] = Expected(r, k, Len(req[r].results) + 1)
        /\ \A i \in 1..Len(req[r].results) :
              LET op == req[r].ops[i] IN
              CASE op.op = "get" ->
                     <<StoreOf(req[r].at), op.key>> \notin dirty[r]
                         => req[r].results[i] = (Expected(r, op.key, i) # None)
                [] OTHER -> req[r].results[i] = (op.op # "invalid")

\* A listing is right about every key that nobody wrote while it ran: an export
\* holds it with its value exactly if it has both metadata and a value, a search
\* exactly if the value also matches, a range exactly if it lies in the range;
\* and no key comes twice or out of order.  Keys that change meanwhile, whose
\* names are stale by then, do not disturb the others (admin_export,
\* search_keys, range_query).
ListingExact ==
    \A r \in Req : Listing(r) /\ req[r].todo = << >> =>
        LET out == req[r].out
            untouched == {k \in Key : {<<"storage", k>>, <<"metadata", k>>} \cap dirty[r] = {}}
            value(k) == IF req[r].at = "range" THEN metadata[k] ELSE storage[k]
            belongs(k) ==
                /\ metadata[k] # None
                /\ req[r].at = "export" => storage[k] # None
                /\ req[r].at = "search" => storage[k] \in req[r].query
                /\ req[r].at = "range" => k \in req[r].query IN
        /\ \A i, j \in 1..Len(out) : i < j => out[i][1] < out[j][1]
        /\ \A k \in untouched :
              (\E i \in 1..Len(out) : out[i] = <<k, value(k)>>) <=> belongs(k)

----------------------------------------------------------------------------
(* What the repository says of transactions and the code does not do *)

\* "Execute multiple operations atomically with POST /transaction": when some
\* operation of a transaction has failed, none of the keys that no other request
\* wrote has changed by the time it is answered (transaction_ops).
TransactionAtomic ==
    \A r \in Req :
        req[r].at = "transaction" /\ AllDone(r) /\ (\E i \in 1..Len(req[r].ops) : ~req[r].results[i]) =>
            \A k \in Key : <<"storage", k>> \notin dirty[r] => storage[k] = req[r].before[k]
============================================================================
