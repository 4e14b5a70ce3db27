----------------------------- MODULE KeyStore -----------------------------
(***************************************************************************)
(* The API keys of the coordinator (struct KeyStore).                      *)
(*                                                                         *)
(* The store holds two maps, each behind a RwLock: the keys by id, and     *)
(* hash_to_id, here the set of the ids it leads to, since every key has a  *)
(* hash of its own.  generate_key releases the first lock before it takes  *)
(* the second one and is two actions; every other method holds the lock of *)
(* the keys throughout and is one.  Names, tenants, roles, secrets and     *)
(* hashes are left out: a key verifies against its own entry only.         *)
(***************************************************************************)
EXTENDS Integers

CONSTANTS
    KeyId,      \* the uuids that generate_key draws
    None,       \* no entry, no time
    TTL,        \* the expires_in of new keys, in ticks; None: no expiry
    MaxNow      \* bound: the last tick

ASSUME TTLAssumption == TTL \subseteq Nat \cup {None}
ASSUME ClockAssumption == MaxNow \in Nat
ASSUME NoneAssumption == None \notin Nat

Time == 0..MaxNow
ApiKey == [expires_at : Nat \cup {None}, active : BOOLEAN, last_used_at : Time \cup {None}]

ASSUME NoKeyAssumption == None \notin ApiKey

VARIABLES
    keys,         \* KeyStore::keys
    hash_to_id,   \* KeyStore::hash_to_id
    clock,        \* the system clock, taken as monotonic
    generating,   \* ids whose generate_key is between its two locks
    issued,       \* history: ids of the keys generated so far
    raced         \* history: ids deleted while they were being generated

keyVars == <<keys, hash_to_id, clock, generating, issued, raced>>

KeyInit ==
    /\ keys = [id \in KeyId |-> None]
    /\ hash_to_id = {}
    /\ clock = 0
    /\ generating = {}
    /\ issued = {}
    /\ raced = {}

----------------------------------------------------------------------------
(* Operations *)

is_expired(key) == key.expires_at # None /\ clock >= key.expires_at

\* validate_key returns AuthResult::Ok for the secret of this id.
validate_key(id) == keys[id] # None /\ keys[id].active /\ ~is_expired(keys[id])

\* generate_key, first lock: the key is inserted under a fresh id.
insert_key(id, ttl) ==
    /\ id \notin issued
    /\ keys' = [keys EXCEPT ![id] =
                   [expires_at |-> IF ttl = None THEN None ELSE clock + ttl,
                    active |-> TRUE, last_used_at |-> None]]
    /\ generating' = generating \cup {id}
    /\ issued' = issued \cup {id}
    /\ UNCHANGED <<hash_to_id, clock, raced>>

\* generate_key, second lock.
insert_hash(id) ==
    /\ id \in generating
    /\ hash_to_id' = hash_to_id \cup {id}
    /\ generating' = generating \ {id}
    /\ UNCHANGED <<keys, clock, issued, raced>>

\* Faulty variant: the key is only made to expire soon.
revoke_key_grace(id) ==
    /\ keys[id] # None
    /\ keys' = [keys EXCEPT ![id].expires_at = clock + 1]
    /\ UNCHANGED <<hash_to_id, clock, generating, issued, raced>>

\* revoke_key of an id that is there.
revoke_key(id) ==
    /\ keys[id] # None
    /\ keys' = [keys EXCEPT ![id].active = FALSE]
    /\ UNCHANGED <<hash_to_id, clock, generating, issued, raced>>

\* Faulty variant: the hash is left behind.
delete_key_only(id) ==
    /\ keys[id] # None
    /\ keys' = [keys EXCEPT ![id] = None]
    /\ raced' = IF id \in generating THEN raced \cup {id} ELSE raced
    /\ UNCHANGED <<hash_to_id, clock, generating, issued>>

\* delete_key of an id that is there, with both locks held.
delete_key(id) ==
    /\ keys[id] # None
    /\ keys' = [keys EXCEPT ![id] = None]
    /\ hash_to_id' = hash_to_id \ {id}
    /\ raced' = IF id \in generating THEN raced \cup {id} ELSE raced
    /\ UNCHANGED <<clock, generating, issued>>

\* Faulty variant: the record that was validated is written back.
touch_key_writes_back(id) ==
    /\ keys' = IF keys[id] = None THEN keys
               ELSE [keys EXCEPT ![id].last_used_at = clock, ![id].active = TRUE]
    /\ UNCHANGED <<hash_to_id, clock, generating, issued, raced>>

\* Faulty variant: the entry is created when the key has gone.
touch_key_inserts(id) ==
    /\ keys' = [keys EXCEPT ![id] = IF @ = None THEN [last_used_at |-> clock]
                                    ELSE [@ EXCEPT !.last_used_at = clock]]
    /\ UNCHANGED <<hash_to_id, clock, generating, issued, raced>>

\* touch_key: nothing to do when the key has gone.
touch_key(id) ==
    /\ keys' = IF keys[id] = None THEN keys ELSE [keys EXCEPT ![id].last_used_at = clock]
    /\ UNCHANGED <<hash_to_id, clock, generating, issued, raced>>

Tick ==
    /\ clock < MaxNow
    /\ clock' = clock + 1
    /\ UNCHANGED <<keys, hash_to_id, generating, issued, raced>>

KeyNext ==
    \/ \E id \in KeyId :
          \/ \E ttl \in TTL : insert_key(id, ttl)
          \/ insert_hash(id) \/ revoke_key(id) \/ delete_key(id) \/ touch_key(id)
    \/ Tick

KeySpec == KeyInit /\ [][KeyNext]_keyVars

----------------------------------------------------------------------------
(* Properties *)

\* Every variable of the key store has its type.
KeyTypeOK ==
    /\ keys \in [KeyId -> ApiKey \cup {None}]
    /\ hash_to_id \in SUBSET KeyId
    /\ clock \in Time
    /\ generating \in SUBSET KeyId
    /\ issued \in SUBSET KeyId
    /\ raced \in SUBSET KeyId

\* A key that was issued and is refused once, because it was revoked, deleted
\* or has expired, is refused for ever, whatever overlaps with the refusal: the
\* end of generate_key, a touch_key of a request that was let in before, another
\* revocation or a deletion (validate_key, revoke_key, delete_key, touch_key).
RefusalIsFinal ==
    [][\A id \in issued : ~validate_key(id) => ~validate_key(id)']_keyVars

\* Once generate_key has returned, hash_to_id leads to exactly the keys that are
\* there, and to those that were deleted before generate_key took its second
\* lock: such entries stay behind (generate_key, delete_key).
HashIndexExact ==
    hash_to_id = {id \in issued \ generating : keys[id] # None \/ id \in raced}
============================================================================
