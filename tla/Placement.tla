---------------------------- MODULE Placement ----------------------------
(***************************************************************************)
(* Where a key's replicas go: the volume registry of the metadata store,   *)
(* highest-random-weight hashing, the PlacementManager with its shard      *)
(* ring, and the handler put_key, which selects the volumes of a write.    *)
(***************************************************************************)
EXTENDS Integers, FiniteSets

CONSTANTS
    Volume,     \* volume ids; the registry lists them in their order
    Key,        \* keys that are written
    Shard,      \* shards of the ring, each hashed under a name of its own
    Weight,     \* Weight[name][v]: the hash of a name and a volume id
    Replicas,   \* PlacementManager::replicas
    State,      \* the states that are registered, of NodeState
    Put,        \* calls of put_key
    MaxChanges  \* bound: volumes that become healthy or stop being so

ASSUME VolumeAssumption == Volume \subseteq Nat /\ IsFiniteSet(Volume)
ASSUME WeightAssumption == Weight \in [Key \cup Shard -> [Volume -> Nat]]
ASSUME ReplicasAssumption == Replicas \in Nat \ {0}

VARIABLES
    volumes,  \* column family "volumes": the state of each volume, "absent" without a record
    ring,     \* ConsistentHashRing::shard_to_nodes
    put,      \* the state of each put_key call
    changes,  \* history: changes of the set of healthy volumes so far
    balanced  \* history: the healthy volumes of the last rebalance

placementVars == <<volumes, ring, put, changes, balanced>>

NodeState == {"alive", "suspect", "dead", "draining"}

ASSUME StateAssumption == State \subseteq NodeState

is_healthy(state) == state = "alive"

\* MetadataStore::get_healthy_volumes.
Healthy == {v \in Volume : is_healthy(volumes[v])}

----------------------------------------------------------------------------
(* Hashing *)

\* The order of hrw_hash: higher weights first.  The sort is stable, so equal
\* weights stay in the order of the registry.
Before(name, a, b) ==
    \/ Weight[name][a] > Weight[name][b]
    \/ Weight[name][a] = Weight[name][b] /\ a < b

\* For the faulty variants: a node is hashed by its place in the list instead of its id.
hrw_hash_by_place(name, nodes) ==
    LET place(node) == 1 + Cardinality({a \in nodes : a < node})
    IN  [node \in nodes |-> Cardinality({a \in nodes : Before(name, place(a), place(node))})]

\* The position each node takes in the sorted vector.
hrw_hash(name, nodes) ==
    [node \in nodes |-> Cardinality({a \in nodes : Before(name, a, node)})]

\* Faulty variant: one node too few.
select_replicas_short(name, nodes, n) == {node \in nodes : hrw_hash(name, nodes)[node] < n - 1}

\* The first n nodes.
select_replicas(name, nodes, n) == {node \in nodes : hrw_hash(name, nodes)[node] < n}

\* Faulty variant: the volumes are taken by their place in the list.
select_volumes_by_place(key, healthy) ==
    IF Cardinality(healthy) < Replicas THEN {}
    ELSE {v \in healthy : hrw_hash_by_place(key, healthy)[v] < Replicas}

\* PlacementManager::select_volumes with the errors NoHealthyVolumes and
\* InsufficientReplicas, which its callers turn into no volume (unwrap_or_default).
select_volumes(key, healthy) ==
    LET selected == select_replicas(key, healthy, Replicas)
    IN  IF Cardinality(selected) < Replicas THEN {} ELSE selected

\* ConsistentHashRing::rebalance: every shard goes to the replicas of its name.
ring_rebalance(nodes) == [s \in Shard |-> select_replicas(s, nodes, Replicas)]

----------------------------------------------------------------------------
(* Operations *)

\* MetadataStore::put_volume: a volume is registered or updated.
PutVolume(v, state) ==
    /\ volumes' = [volumes EXCEPT ![v] = state]
    /\ changes' = IF is_healthy(state) = is_healthy(volumes[v]) THEN changes ELSE changes + 1
    /\ changes' <= MaxChanges
    /\ UNCHANGED <<ring, put, balanced>>

\* The mutex around the PlacementManager, which put_key holds to its end.
Unlocked == \A p \in Put : put[p].at # "reading"

\* put_key: the healthy volumes are read.
PutRead(p, key) ==
    /\ put[p].at = "new" /\ Unlocked
    /\ put' = [put EXCEPT ![p] = [at |-> "reading", key |-> key, healthy |-> Healthy, seen |-> changes]]
    /\ UNCHANGED <<volumes, ring, changes, balanced>>

\* put_key: the volumes of the write are selected; the two phases call none of them.
PutSelect(p) ==
    /\ put[p].at = "reading"
    /\ put' = [put EXCEPT ![p] = [at |-> "done", key |-> put[p].key, seen |-> put[p].seen,
                                  targets |-> select_volumes(put[p].key, put[p].healthy)]]
    /\ UNCHANGED <<volumes, ring, changes, balanced>>

\* Faulty variant: the nodes of a shard are taken by their place in the list.
Rebalance_by_place ==
    /\ Unlocked
    /\ ring' = [s \in Shard |-> {v \in Healthy : hrw_hash_by_place(s, Healthy)[v] < Replicas}]
    /\ balanced' = Healthy
    /\ UNCHANGED <<volumes, put, changes>>

\* PlacementManager::rebalance with the registered volumes.
Rebalance ==
    /\ Unlocked
    /\ ring' = ring_rebalance(Healthy)
    /\ balanced' = Healthy
    /\ UNCHANGED <<volumes, put, changes>>

PlacementInit ==
    /\ volumes \in [Volume -> State \cup {"absent"}]
    /\ ring = [s \in Shard |-> {}]
    /\ put = [p \in Put |-> [at |-> "new"]]
    /\ changes = 0
    /\ balanced = {}

Puts == \E p \in Put : PutSelect(p) \/ \E key \in Key : PutRead(p, key)

PlacementNext ==
    \/ \E v \in Volume, state \in State : PutVolume(v, state)
    \/ Puts
    \/ Rebalance

PlacementSpec == PlacementInit /\ [][PlacementNext]_placementVars

----------------------------------------------------------------------------
(* Properties *)

Done == {p \in Put : put[p].at = "done"}

Apart(p, q) == IF put[p].seen > put[q].seen THEN put[p].seen - put[q].seen ELSE put[q].seen - put[p].seen

\* put_key never writes to some of the replicas: it selects exactly Replicas volumes,
\* also when weights collide, and none only when the registry it read had too few.
FullOrNone ==
    \A p \in Put :
        /\ put[p].at = "done" => Cardinality(put[p].targets) \in {0, Replicas}
        /\ put[p].at = "reading" =>
               (select_volumes(put[p].key, put[p].healthy) = {}) = (Cardinality(put[p].healthy) < Replicas)

\* "This ensures consistent placement even as the cluster changes" (hash.rs): two writes
\* of a key share all their volumes but one for each change of health between them.
PlacementsOverlap ==
    \A p, q \in Done :
        (put[p].key = put[q].key /\ put[p].targets # {} /\ put[q].targets # {}) =>
            Cardinality(put[p].targets \cap put[q].targets) >= Replicas - Apart(p, q)

\* What rebalance may move.  Since the last one, if volumes only left, a shard keeps
\* the volumes it has that are still healthy; if volumes only joined, it gains no
\* other volume.
KeepsShards ==
    \A s \in Shard :
        /\ balanced' \subseteq balanced => ring[s] \cap balanced' \subseteq ring'[s]
        /\ balanced \subseteq balanced' => ring'[s] \cap balanced \subseteq ring[s]

\* Every rebalance moves a shard only where the change of the volumes makes it.
RebalanceKeepsShards == [][KeepsShards]_placementVars
============================================================================
