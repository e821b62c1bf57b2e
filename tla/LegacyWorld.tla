----------------------------- MODULE LegacyWorld ----------------------------
(***************************************************************************)
(* The World that SimpleWorld replaces (src/src/world.rs): a list of       *)
(* entities with the types of their components, kept by an EntityManager   *)
(* that gives freed ids out again (entity.rs), and beside it a flat list   *)
(* of component data (storage.rs).  Resources and events, which are lists  *)
(* of their own, are left out.                                             *)
(*                                                                         *)
(* get_entity_mut hands out a copy of an entity, so what the methods of    *)
(* World do to the types of an entity does not reach the list: the types   *)
(* stay those the entity was spawned with, none.                           *)
(***************************************************************************)
EXTENDS Integers, Sequences

CONSTANTS
    ComponentType,
    Bytes,
    MaxId         \* bound of the ids given out

VARIABLES
    next_id,    \* the next fresh id
    entities,   \* the living entities, with the types of their components
    free_list,  \* ids freed by despawn, the last one first to be reused
    storage,    \* the data: id, type and bytes of every stored component
    despawned   \* history: ids despawned, and given no component since

vars == <<next_id, entities, free_list, storage, despawned>>

Init ==
    /\ next_id = 1
    /\ entities = <<>>
    /\ free_list = <<>>
    /\ storage = <<>>
    /\ despawned = {}

Ids == 1..MaxId

\* Storage::remove_component
Without(stored, id, t) ==
    SelectSeq(stored, LAMBDA c : ~(c.id = id /\ c.component_type = t))

\* ... for every type of a set
WithoutAll(stored, id, types) ==
    SelectSeq(stored, LAMBDA c : ~(c.id = id /\ c.component_type \in types))

\* A freed id is taken from the end of the list, a fresh one when it is empty.
Spawn ==
    LET reuse == free_list # <<>>
        id    == IF reuse THEN free_list[Len(free_list)] ELSE next_id
    IN  /\ id \in Ids
        /\ next_id' = IF reuse THEN next_id ELSE next_id + 1
        /\ free_list' = IF reuse THEN SubSeq(free_list, 1, Len(free_list) - 1)
                                 ELSE free_list
        /\ entities' = Append(entities, [id |-> id, component_types |-> {}])
        /\ UNCHANGED <<storage, despawned>>

AddComponent(id, t, data) ==
    /\ storage' = Append(Without(storage, id, t),
                         [id |-> id, component_type |-> t, data |-> data])
    /\ despawned' = despawned \ {id}
    /\ UNCHANGED <<next_id, entities, free_list>>

RemoveComponent(id, t) ==
    /\ storage' = Without(storage, id, t)
    /\ UNCHANGED <<next_id, entities, free_list, despawned>>

\* The types to remove are those the entity in the list has.
Despawn(id) ==
    \E i \in DOMAIN entities :
        /\ entities[i].id = id
        /\ storage' = WithoutAll(storage, id, entities[i].component_types)
        /\ entities' = SelectSeq(entities, LAMBDA e : e.id # id)
        /\ free_list' = Append(free_list, id)
        /\ despawned' = despawned \cup {id}
        /\ UNCHANGED next_id

ClearEntities ==
    /\ next_id' = 1
    /\ entities' = <<>>
    /\ free_list' = <<>>
    /\ storage' = <<>>
    /\ despawned' = {}

Next ==
    \/ Spawn
    \/ \E id \in Ids, t \in ComponentType, data \in Bytes : AddComponent(id, t, data)
    \/ \E id \in Ids, t \in ComponentType : RemoveComponent(id, t)
    \/ \E id \in Ids : Despawn(id)
    \/ ClearEntities

Spec == Init /\ [][Next]_vars

-----------------------------------------------------------------------------
(* A statement of the repository that the code does not meet *)

\* world.rs:113, "Despawn an entity and remove all its components": no data is
\* left under the id of an entity that was despawned, which the next entity
\* spawned would get with the id.
DespawnRemovesComponents ==
    \A i \in DOMAIN storage : storage[i].id \notin despawned
=============================================================================
