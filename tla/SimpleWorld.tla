---------------------------- MODULE SimpleWorld ----------------------------
(***************************************************************************)
(* One SimpleWorld (src/src/simple_world.rs) under every sequence of calls *)
(* a contract can make, and the query caches (src/src/query.rs) it keeps   *)
(* beside the world, one SimpleQueryCache per component type.              *)
(*                                                                         *)
(* The history variable typed is TRUE for as long as every component was   *)
(* added with the storage its type selects, which is what the typed        *)
(* methods (set_typed, remove_typed) do.  Some promises hold for every     *)
(* sequence of calls, others only for the contracts that keep this rule.   *)
(***************************************************************************)
EXTENDS SimpleWorldOps

CONSTANT DefaultStorage   \* T::default_storage(), for each component type

ASSUME StorageAssumption == DefaultStorage \in [ComponentType -> ComponentStorage]

VARIABLES
    world,   \* the SimpleWorld
    cache,   \* cache[t]: the SimpleQueryCache for component type t
    typed    \* history: every add used the storage its type selects

vars == <<world, cache, typed>>

Caches == [cached_results : SUBSET EntityId, cached_version : 0..U64Max]

NewCache == [cached_results |-> {}, cached_version |-> 0]

Init ==
    /\ world = EmptyWorld
    /\ cache = [t \in ComponentType |-> NewCache]
    /\ typed = TRUE

-----------------------------------------------------------------------------
(* SimpleWorld *)

SpawnEntity ==
    /\ CanSpawn(world)
    /\ world' = SpawnedWorld(world)
    /\ UNCHANGED <<cache, typed>>

AddComponentWithStorage(e, t, data, storage) ==
    /\ CanBump(world)
    /\ world' = AddedComponent(world, e, t, data, storage)
    /\ typed' = (typed /\ storage = DefaultStorage[t])
    /\ UNCHANGED cache

AddComponent(e, t, data) == AddComponentWithStorage(e, t, data, Table)

RemoveComponent(e, t) ==
    /\ CanBump(world)
    /\ world' = RemovedComponent(world, e, t)
    /\ UNCHANGED <<cache, typed>>

DespawnEntity(e) ==
    /\ CanBump(world)
    /\ world' = DespawnedEntity(world, e)
    /\ UNCHANGED <<cache, typed>>

SetTyped(e, t, data) == AddComponentWithStorage(e, t, data, DefaultStorage[t])

RemoveTyped(e, t) == RemoveComponent(e, t)

-----------------------------------------------------------------------------
(* SimpleQueryCache *)

IsValid(t) == cache[t].cached_version = world.version

ExecuteQuery(t) ==
    /\ cache' = IF IsValid(t) THEN cache
                ELSE [cache EXCEPT ![t] =
                        [cached_results |-> GetEntitiesWithComponent(world, t),
                         cached_version |-> world.version]]
    /\ UNCHANGED <<world, typed>>

Invalidate(t) ==
    /\ cache' = [cache EXCEPT ![t].cached_version = 0]
    /\ UNCHANGED <<world, typed>>

RecreateCache(t) ==
    /\ cache' = [cache EXCEPT ![t] = NewCache]
    /\ UNCHANGED <<world, typed>>

-----------------------------------------------------------------------------

CacheNext ==
    \E t \in ComponentType : ExecuteQuery(t) \/ Invalidate(t) \/ RecreateCache(t)

Next ==
    \/ SpawnEntity
    \/ \E e \in EntityId, t \in ComponentType, data \in Bytes :
         \/ AddComponent(e, t, data)
         \/ SetTyped(e, t, data)
         \/ \E storage \in ComponentStorage :
              AddComponentWithStorage(e, t, data, storage)
    \/ \E e \in EntityId, t \in ComponentType :
         RemoveComponent(e, t) \/ RemoveTyped(e, t)
    \/ \E e \in EntityId : DespawnEntity(e)
    \/ CacheNext

Spec == Init /\ [][Next]_vars

-----------------------------------------------------------------------------
(* Properties *)

\* Every field has its type; the counters stay within u32 and u64.
TypeOK ==
    /\ world \in SimpleWorlds
    /\ cache \in [ComponentType -> Caches]
    /\ typed \in BOOLEAN

\* A type that add_component listed for an entity has data in one of the two
\* maps for as long as it is listed, whatever storage kinds callers mix:
\* despawn_entity and the queries trust the lists, not the maps.
ListedComponentsExist ==
    \A e \in EntityId : \A t \in world.entity_components[e] : HasComponent(world, e, t)

\* SimpleQueryCache::execute never serves a stale answer: whenever it would
\* skip the scan because the versions agree, its results are those of a scan.
CacheCoherent ==
    \A t \in ComponentType :
        IsValid(t) => cache[t].cached_results = GetEntitiesWithComponent(world, t)

\* The strengthening that makes CacheCoherent inductive: versions only grow, so
\* a cache is never ahead of its world, and version 0 (where a new or an
\* invalidated cache counts as valid) is the empty world.
CacheInv ==
    /\ TypeOK
    /\ \A t \in ComponentType : cache[t].cached_version =< world.version
    /\ world.version = 0 => \A e \in EntityId : world.entity_components[e] = {}
    /\ CacheCoherent

\* For a contract that keeps the rule of typed, a component lives in the map
\* its type selects, and the list of an entity names exactly the components
\* the entity has.
TypedInv ==
    /\ TypeOK
    /\ typed => \A e \in EntityId, t \in ComponentType :
         /\ t \in world.entity_components[e] <=> HasComponent(world, e, t)
         /\ DefaultStorage[t] = Table  => world.sparse_components[<<e, t>>] = None
         /\ DefaultStorage[t] = Sparse => world.components[<<e, t>>] = None

\* For such a contract the three query methods tell the same story: the
\* list-based query finds what a scan of both maps finds, and the table query
\* finds it exactly for the types that live in the table map.  So the default
\* query finds Sparse types too, against the documentation of SimpleWorld, which
\* says that they are "Not included in the default entity query"
\* (simple_world.rs:18): only get_table_entities_with_component leaves them out.
QueriesAgree ==
    typed => \A t \in ComponentType :
        /\ GetEntitiesWithComponent(world, t) = GetAllEntitiesWithComponent(world, t)
        /\ GetTableEntitiesWithComponent(world, t) =
             IF DefaultStorage[t] = Table THEN GetEntitiesWithComponent(world, t)
                                          ELSE {}

\* For such a contract the two maps, the lists and the queries implement a
\* plain store from (entity, type) to data, up to the step that breaks the
\* rule: nothing survives remove_component or despawn_entity, and no step has
\* an effect on another component.
Abstract == INSTANCE EcsStore WITH
    store <- [e \in EntityId |->
                [t \in ComponentType |-> GetComponent(world, e, t)]],
    found <- [t \in ComponentType |-> GetEntitiesWithComponent(world, t)]

ImplementsEcsStore ==
    Abstract!Init /\ [][typed' => [Abstract!Next]_(Abstract!svars)]_vars
=============================================================================
