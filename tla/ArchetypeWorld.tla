--------------------------- MODULE ArchetypeWorld ---------------------------
(***************************************************************************)
(* The archetype storage of src/src/archetype_world: entities with the     *)
(* same component types share an archetype, and a change of types moves    *)
(* the entity, data and all, to another archetype.  Beside it one          *)
(* ArchetypeQueryCache (query.rs).                                         *)
(*                                                                         *)
(* Lists of component types are sorted wherever they are built, so a list  *)
(* is the set of its members; the entity list of an archetype may hold     *)
(* what add_entity pushes, in order and repeated.                          *)
(***************************************************************************)
EXTENDS Integers, Sequences

CONSTANTS
    U32Max,          \* largest u32: bounds the two id counters
    U64Max,          \* largest u64: bound of version
    ComponentType,   \* the Symbols that name component types
    SymbolOrder,     \* these Symbols in their order
    Bytes,           \* serialized component data
    Required,        \* the component types the cached query requires
    None             \* an absent map entry

ASSUME ArchetypeAssumption ==
    /\ U32Max \in Nat \ {0}
    /\ U64Max \in Nat \ {0}
    /\ SymbolOrder \in Seq(ComponentType)
    /\ \A t \in ComponentType : \E i \in DOMAIN SymbolOrder : SymbolOrder[i] = t
    /\ Required \subseteq ComponentType
    /\ None \notin Bytes
    /\ None \notin 0..(U32Max - 1)

EntityId == 1..U32Max

ArchetypeId == 0..(U32Max - 1)

Key == EntityId \X ComponentType

TypeSets == (SUBSET ComponentType) \ {{}}

Elements(s) == {s[i] : i \in DOMAIN s}

\* What a loop that copies the elements of s that are in keep leaves.
Filtered(s, keep) ==
    LET copied[i \in 0..Len(s)] ==
            IF i = 0 THEN <<>>
            ELSE IF s[i] \in keep THEN Append(copied[i - 1], s[i])
            ELSE copied[i - 1]
    IN  copied[Len(s)]

VARIABLES
    world,   \* the ArchetypeWorld
    cache    \* the ArchetypeQueryCache for Required

vars == <<world, cache>>

EmptyWorld ==
    [next_entity_id    |-> 1,
     next_archetype_id |-> 0,
     archetypes        |-> [id \in ArchetypeId |-> None],
     archetype_index   |-> [types \in TypeSets |-> None],
     entity_archetype  |-> [e \in EntityId |-> None],
     version           |-> 0]

\* A world may really have the version u64::MAX, but then not these results.
NewCache == [cached_version |-> U64Max, cached_results |-> None]

Init == world = EmptyWorld /\ cache = NewCache

-----------------------------------------------------------------------------
(* Archetype *)

NewArchetype(types) ==
    [component_types |-> types,
     entities        |-> <<>>,
     data            |-> [k \in Key |-> None]]

\* What remove_entity takes out for e.
Extracted(arch, e) ==
    [t \in ComponentType |->
        IF t \in arch.component_types THEN arch.data[<<e, t>>] ELSE None]

RemovedEntity(arch, e) ==
    [arch EXCEPT
        !.entities = Filtered(@, EntityId \ {e}),
        !.data = [k \in Key |-> IF k[1] = e /\ k[2] \in arch.component_types
                                THEN None ELSE arch.data[k]]]

\* add_entity, then set_component of everything that was extracted.
ReceivedEntity(arch, e, extracted) ==
    [arch EXCEPT
        !.entities = Append(@, e),
        !.data = [k \in Key |-> IF k[1] = e /\ extracted[k[2]] # None
                                THEN extracted[k[2]] ELSE arch.data[k]]]

\* Faulty variant of the next definition: one required type is enough.
MatchesAny(arch, required) ==
    required = {} \/ arch.component_types \cap required # {}

Matches(arch, required) == required \subseteq arch.component_types

-----------------------------------------------------------------------------
(* ArchetypeWorld *)

ArchetypeOf(w, e) == w.archetypes[w.entity_archetype[e]]

WithArchetype(w, types) ==
    IF w.archetype_index[types] # None THEN w
    ELSE [w EXCEPT !.next_archetype_id = @ + 1,
                   !.archetypes[w.next_archetype_id] = NewArchetype(types),
                   !.archetype_index[types] = w.next_archetype_id]

\* Faulty variant of the next definition: the entity keeps its old archetype id.
MovedKeepsId(w, e, types, extracted) ==
    LET v == WithArchetype(w, types)
    IN  [v EXCEPT !.archetypes[v.archetype_index[types]] =
                     ReceivedEntity(@, e, extracted)]

Moved(w, e, types, extracted) ==
    LET v  == WithArchetype(w, types)
        id == v.archetype_index[types]
    IN  [v EXCEPT !.archetypes[id] = ReceivedEntity(@, e, extracted),
                  !.entity_archetype[e] = id]

\* Counters are checked: at their limit the call panics and is reverted.
CanBump(w) == w.version < U64Max

CanMoveTo(w, types) ==
    w.archetype_index[types] # None \/ w.next_archetype_id < U32Max

Bumped(w) == [w EXCEPT !.version = @ + 1]

WithoutEntity(w, e) ==
    [w EXCEPT !.archetypes[w.entity_archetype[e]] = RemovedEntity(@, e)]

SpawnEntity ==
    /\ world.next_entity_id < U32Max
    /\ world' = [world EXCEPT !.next_entity_id = @ + 1]
    /\ UNCHANGED cache

\* The first component of e, a new value of one it has, or a further one.
Added(w, e, t, data) ==
    IF w.entity_archetype[e] = None
    THEN Moved(Bumped(w), e, {t}, [u \in ComponentType |-> IF u = t THEN data ELSE None])
    ELSE LET arch == ArchetypeOf(w, e)
         IN  IF t \in arch.component_types
             THEN [Bumped(w) EXCEPT !.archetypes[w.entity_archetype[e]].data[<<e, t>>] = data]
             ELSE Moved(WithoutEntity(Bumped(w), e), e, arch.component_types \cup {t},
                        [Extracted(arch, e) EXCEPT ![t] = data])

TypesOf(w, e) ==
    IF w.entity_archetype[e] = None THEN {} ELSE ArchetypeOf(w, e).component_types

AddComponent(e, t, data) ==
    /\ CanBump(world)
    /\ t \notin TypesOf(world, e) => CanMoveTo(world, TypesOf(world, e) \cup {t})
    /\ world' = Added(world, e, t, data)
    /\ UNCHANGED cache

\* What is left of w when e loses t.
Removed(w, e, t) ==
    LET arch  == ArchetypeOf(w, e)
        types == arch.component_types \ {t}
        v     == WithoutEntity(w, e)
    IN  IF types = {} THEN [v EXCEPT !.entity_archetype[e] = None]
        ELSE Moved(v, e, types, [Extracted(arch, e) EXCEPT ![t] = None])

\* Faulty variant of RemoveComponent: the version is not bumped.
RemoveComponentNoBump(e, t) ==
    /\ world.entity_archetype[e] # None
    /\ t \in ArchetypeOf(world, e).component_types
    /\ ArchetypeOf(world, e).component_types # {t} =>
          CanMoveTo(world, ArchetypeOf(world, e).component_types \ {t})
    /\ world' = Removed(world, e, t)
    /\ UNCHANGED cache

\* A component that is not there is refused before the version is bumped.
RemoveComponent(e, t) ==
    /\ world.entity_archetype[e] # None
    /\ t \in ArchetypeOf(world, e).component_types
    /\ CanBump(world)
    /\ ArchetypeOf(world, e).component_types # {t} =>
          CanMoveTo(world, ArchetypeOf(world, e).component_types \ {t})
    /\ world' = Removed(Bumped(world), e, t)
    /\ UNCHANGED cache

DespawnEntity(e) ==
    /\ CanBump(world)
    /\ world' = IF world.entity_archetype[e] = None THEN Bumped(world)
                ELSE [WithoutEntity(Bumped(world), e) EXCEPT
                        !.entity_archetype[e] = None]
    /\ UNCHANGED cache

GetComponent(w, e, t) ==
    IF w.entity_archetype[e] = None THEN None ELSE ArchetypeOf(w, e).data[<<e, t>>]

HasComponent(w, e, t) ==
    w.entity_archetype[e] # None /\ t \in ArchetypeOf(w, e).component_types

\* The entity lists of the matching archetypes, in the order of their ids.
Query(w, required) ==
    LET results[n \in 0..w.next_archetype_id] ==
            IF n = 0 THEN <<>>
            ELSE IF Matches(w.archetypes[n - 1], required)
            THEN results[n - 1] \o w.archetypes[n - 1].entities
            ELSE results[n - 1]
    IN  results[w.next_archetype_id]

\* archetype_query: what Query finds, without those that have an excluded type.
ExcludingQuery(w, required, excluded) ==
    Filtered(Query(w, required),
             {e \in EntityId : \A t \in excluded : ~HasComponent(w, e, t)})

\* The table data of the SimpleWorld that to_simple_world builds.
ToSimpleWorld(w) ==
    [k \in Key |->
        LET holders == {id \in 0..(w.next_archetype_id - 1) :
                          /\ k[1] \in Elements(w.archetypes[id].entities)
                          /\ k[2] \in w.archetypes[id].component_types
                          /\ w.archetypes[id].data[k] # None}
        IN  IF holders = {} THEN None
            ELSE w.archetypes[CHOOSE id \in holders : \A i \in holders : i =< id].data[k]]

\* The worlds that from_simple_world passes through when it adds the components
\* of e, which to_simple_world has listed in the order of the Symbols.
Refilling(w, e, simple) ==
    LET worlds[i \in 0..Len(SymbolOrder)] ==
            IF i = 0 THEN w
            ELSE IF simple[<<e, SymbolOrder[i]>>] = None THEN worlds[i - 1]
            ELSE Added(worlds[i - 1], e, SymbolOrder[i], simple[<<e, SymbolOrder[i]>>])
    IN  worlds

\* The worlds that it passes through after each entity.
Rebuilding(simple, next_entity_id) ==
    LET worlds[e \in 0..U32Max] ==
            IF e = 0 THEN [EmptyWorld EXCEPT !.next_entity_id = next_entity_id]
            ELSE Refilling(worlds[e - 1], e, simple)[Len(SymbolOrder)]
    IN  worlds

FromSimpleWorld(simple, next_entity_id, version) ==
    [Rebuilding(simple, next_entity_id)[U32Max] EXCEPT !.version = version]

\* No add_component on the way runs out of archetype ids.
CanRebuild(simple, next_entity_id) ==
    \A e \in EntityId, i \in 1..Len(SymbolOrder) :
        LET w == Refilling(Rebuilding(simple, next_entity_id)[e - 1], e, simple)[i - 1]
            t == SymbolOrder[i]
        IN  simple[<<e, t>>] # None /\ t \notin TypesOf(w, e) =>
                CanMoveTo(w, TypesOf(w, e) \cup {t})

\* To a SimpleWorld and back: the version comes back with the world, and the
\* query cache of the old world is still there.
Migrate ==
    LET simple == ToSimpleWorld(world)
    IN  /\ CanRebuild(simple, world.next_entity_id)
        /\ world' = FromSimpleWorld(simple, world.next_entity_id, world.version)
        /\ UNCHANGED cache

-----------------------------------------------------------------------------
(* ArchetypeQueryCache *)

IsValid == cache.cached_version = world.version /\ cache.cached_results # None

ExecuteQuery ==
    /\ cache' = IF IsValid THEN cache
                ELSE [cached_version |-> world.version,
                      cached_results |-> Query(world, Required)]
    /\ UNCHANGED world

Invalidate == cache' = NewCache /\ UNCHANGED world

Next ==
    \/ SpawnEntity
    \/ \E e \in EntityId :
         \/ DespawnEntity(e)
         \/ \E t \in ComponentType :
              \/ RemoveComponent(e, t)
              \/ \E data \in Bytes : AddComponent(e, t, data)
    \/ Migrate
    \/ ExecuteQuery
    \/ Invalidate

Spec == Init /\ [][Next]_vars

-----------------------------------------------------------------------------
(* Properties *)

\* Queries with any required and excluded types return each entity that fits
\* exactly once, through all moves between archetypes; with nothing required,
\* the entities that have any component at all.
QueriesAreExact ==
    \A required, excluded \in SUBSET ComponentType :
        LET found == ExcludingQuery(world, required, excluded)
        IN  /\ \A i, j \in DOMAIN found : found[i] = found[j] => i = j
            /\ Elements(found) =
                 {e \in EntityId :
                    /\ \E t \in ComponentType : GetComponent(world, e, t) # None
                    /\ \A t \in required : GetComponent(world, e, t) # None
                    /\ \A t \in excluded : GetComponent(world, e, t) = None}

\* A cached answer finds what the query would find now, each entity once: no
\* change of composition leaves the version where it was.  Only the order may
\* differ, when the world was rebuilt from a SimpleWorld under its old version.
CacheCoherent ==
    IsValid => /\ Elements(cache.cached_results) = Elements(Query(world, Required))
               /\ Len(cache.cached_results) = Len(Query(world, Required))

\* Archetypes, their index and the moves between them are invisible: the world
\* is the plain store that SimpleWorld is with typed calls, and the way through
\* a SimpleWorld and back changes nothing.
Abstract == INSTANCE EcsStore WITH
    store <- [e \in EntityId |->
                [t \in ComponentType |-> GetComponent(world, e, t)]],
    found <- [t \in ComponentType |-> Elements(Query(world, {t}))]

ImplementsEcsStore == Abstract!Spec
=============================================================================
