---------------------------- MODULE StorageWorld ----------------------------
(***************************************************************************)
(* The incremental world of src/src/incremental: metadata, one entry per   *)
(* entity and one per component in persistent storage; a StorageWorld in   *)
(* memory that loads entities on demand, tracks what it changed in a       *)
(* DirtyTracker and writes it on flush().                                  *)
(*                                                                         *)
(* An invocation holds one StorageWorld.  The host runs invocations one    *)
(* after the other and atomically, so another invocation only ever sees    *)
(* storage between invocations: NewInvocation ends one, flushed or not,    *)
(* and starts the next with load_metadata.  A panic reverts the writes of  *)
(* its invocation, which is as if it had not run.                          *)
(*                                                                         *)
(* Abstractions.  The lists of component types, of entity ids and of dirty *)
(* entries hold no element twice (each push is guarded by a search) and    *)
(* their order is not observable: they are sets.  The linear lists of      *)
(* loaded entities and components are functions to None or the data.       *)
(* Callers pass ids below next_entity_id of the loaded metadata, which is  *)
(* what spawn_entity and entity_ids() hand out: a restriction of the       *)
(* model, as the code takes any id.                                        *)
(*                                                                         *)
(* "Entities must be explicitly loaded before they can be queried or       *)
(* modified" is a rule for callers that the code does not enforce.  The    *)
(* history variable by_the_rule is TRUE for as long as they kept it.       *)
(***************************************************************************)
EXTENDS SimpleWorldOps, FiniteSets

VARIABLES
    stored_metadata,     \* "cougr_meta": a WorldMetadata or None
    stored_entities,     \* ("cougr_ent", e): the types listed for e, or None
    stored_components,   \* ("cougr_cmp", e, t): data, or None
    metadata,            \* StorageWorld.metadata
    loaded_entities,     \* the types listed for each loaded entity, or None
    loaded_components,   \* the loaded data, or None
    dirty,               \* the DirtyTracker
    by_the_rule,         \* history: every call kept the loading rule
    buried               \* history: entities whose despawn was flushed and that no
                         \* call has brought back since

storage == <<stored_metadata, stored_entities, stored_components>>

memory == <<metadata, loaded_entities, loaded_components, dirty>>

vars == <<storage, memory, by_the_rule, buried>>

ASSUME ListAssumption == \A types \in SUBSET ComponentType : types # None

\* entity_count only grows with next_entity_id, so it needs no bound of its own.
WorldMetadata ==
    [next_entity_id : EntityId, version : 0..U64Max,
     entity_count   : Nat, entity_ids : SUBSET EntityId]

ASSUME MetadataAssumption == None \notin WorldMetadata

DirtyTracker ==
    [dirty_entities : SUBSET EntityId, dirty_components : SUBSET Key,
     despawned      : SUBSET EntityId, new_entities     : SUBSET EntityId,
     meta_dirty     : BOOLEAN]

Clean ==
    [dirty_entities |-> {}, dirty_components |-> {}, despawned |-> {},
     new_entities   |-> {}, meta_dirty       |-> FALSE]

IsDirty == dirty # Clean

FreshMetadata ==
    [next_entity_id |-> 1, version |-> 0, entity_count |-> 0, entity_ids |-> {}]

StoredMetadata == IF stored_metadata = None THEN FreshMetadata ELSE stored_metadata

Init ==
    /\ stored_metadata = None
    /\ stored_entities = [e \in EntityId |-> None]
    /\ stored_components = [k \in Key |-> None]
    /\ metadata = FreshMetadata
    /\ loaded_entities = [e \in EntityId |-> None]
    /\ loaded_components = [k \in Key |-> None]
    /\ dirty = Clean
    /\ by_the_rule = TRUE
    /\ buried = {}

-----------------------------------------------------------------------------

\* load_metadata: the StorageWorld an invocation starts with.
NewInvocation ==
    /\ metadata' = StoredMetadata
    /\ loaded_entities' = [e \in EntityId |-> None]
    /\ loaded_components' = [k \in Key |-> None]
    /\ dirty' = Clean
    /\ UNCHANGED storage

\* load_entity, when storage has the entity (Err(EntityNotFound) otherwise).
LoadEntity(e) ==
    /\ loaded_entities[e] = None
    /\ stored_entities[e] # None
    /\ loaded_entities' = [loaded_entities EXCEPT ![e] = stored_entities[e]]
    /\ loaded_components' =
         [k \in Key |-> IF /\ k[1] = e
                           /\ k[2] \in stored_entities[e]
                           /\ stored_components[k] # None
                        THEN stored_components[k] ELSE loaded_components[k]]
    /\ UNCHANGED <<storage, metadata, dirty>>

SpawnEntity ==
    LET id == metadata.next_entity_id IN
    /\ id < U32Max
    /\ metadata' = [metadata EXCEPT !.next_entity_id = @ + 1,
                                    !.entity_count = @ + 1,
                                    !.entity_ids = @ \cup {id}]
    /\ loaded_entities' = [loaded_entities EXCEPT ![id] = {}]
    /\ dirty' = [dirty EXCEPT !.new_entities = @ \cup {id},
                              !.dirty_entities = @ \cup {id},
                              !.meta_dirty = TRUE]
    /\ UNCHANGED <<storage, loaded_components>>

\* add_component and remove_component mark the same entries.
MarkedComponent(e, t) ==
    [dirty EXCEPT !.dirty_entities = @ \cup {e},
                  !.dirty_components = @ \cup {<<e, t>>},
                  !.meta_dirty = TRUE]

\* An entity that is not loaded is added to the loaded set with this type only.
AddComponent(e, t, data) ==
    /\ metadata.version < U64Max
    /\ loaded_entities' =
         [loaded_entities EXCEPT
            ![e] = IF loaded_entities[e] = None THEN {t} ELSE loaded_entities[e] \cup {t}]
    /\ loaded_components' = [loaded_components EXCEPT ![<<e, t>>] = data]
    /\ metadata' = [metadata EXCEPT !.version = @ + 1]
    /\ dirty' = MarkedComponent(e, t)
    /\ UNCHANGED storage

\* Faulty variant of the next definition: the type stays listed.
RemoveComponentKeepsList(e, t) ==
    /\ loaded_components[<<e, t>>] # None
    /\ metadata.version < U64Max
    /\ loaded_components' = [loaded_components EXCEPT ![<<e, t>>] = None]
    /\ metadata' = [metadata EXCEPT !.version = @ + 1]
    /\ dirty' = MarkedComponent(e, t)
    /\ UNCHANGED <<storage, loaded_entities>>

\* remove_component, when the component is loaded (it returns false otherwise).
RemoveComponent(e, t) ==
    /\ loaded_components[<<e, t>>] # None
    /\ metadata.version < U64Max
    /\ loaded_components' = [loaded_components EXCEPT ![<<e, t>>] = None]
    /\ loaded_entities' =
         [loaded_entities EXCEPT
            ![e] = IF loaded_entities[e] = None THEN None ELSE loaded_entities[e] \ {t}]
    /\ metadata' = [metadata EXCEPT !.version = @ + 1]
    /\ dirty' = MarkedComponent(e, t)
    /\ UNCHANGED storage

\* Faulty variant of DespawnEntity: the loaded data and the counter stay.
DespawnEntityListsOnly(e) ==
    /\ metadata.version < U64Max
    /\ loaded_entities' = [loaded_entities EXCEPT ![e] = None]
    /\ metadata' = [metadata EXCEPT !.entity_ids = @ \ {e}, !.version = @ + 1]
    /\ dirty' = [dirty EXCEPT !.despawned = @ \cup {e}, !.meta_dirty = TRUE]
    /\ UNCHANGED <<storage, loaded_components>>

\* entity_count.saturating_sub(1), whether or not the entity was live.
DespawnEntity(e) ==
    /\ metadata.version < U64Max
    /\ loaded_components' =
         [k \in Key |-> IF k[1] = e THEN None ELSE loaded_components[k]]
    /\ loaded_entities' = [loaded_entities EXCEPT ![e] = None]
    /\ metadata' =
         [metadata EXCEPT !.entity_ids = @ \ {e},
                          !.entity_count = IF @ = 0 THEN 0 ELSE @ - 1,
                          !.version = @ + 1]
    /\ dirty' = [dirty EXCEPT !.despawned = @ \cup {e}, !.meta_dirty = TRUE]
    /\ UNCHANGED storage

\* The stored lists once the lists of the dirty entities are written.
WrittenLists ==
    [e \in EntityId |->
        IF e \in dirty.dirty_entities /\ loaded_entities[e] # None
        THEN loaded_entities[e] ELSE stored_entities[e]]

\* The stored data once the dirty components are written.
WrittenComponents ==
    [k \in Key |->
        IF /\ k \in dirty.dirty_components
           /\ k[1] \notin dirty.despawned
           /\ loaded_components[k] # None
        THEN loaded_components[k] ELSE stored_components[k]]

\* Faulty variant of the next definition: despawned entities are handled first.
FlushDespawnedFirst ==
    /\ IsDirty
    /\ stored_metadata' = IF dirty.meta_dirty THEN metadata ELSE stored_metadata
    /\ stored_entities' =
         [e \in EntityId |->
            IF e \in dirty.dirty_entities /\ loaded_entities[e] # None
            THEN loaded_entities[e]
            ELSE IF e \in dirty.despawned THEN None ELSE stored_entities[e]]
    /\ stored_components' = WrittenComponents
    /\ dirty' = Clean
    /\ UNCHANGED <<metadata, loaded_entities, loaded_components>>

\* Metadata, then lists, then data, then the entries of despawned entities,
\* whose components are looked up in the list that is stored by then.
Flush ==
    /\ IsDirty
    /\ stored_metadata' = IF dirty.meta_dirty THEN metadata ELSE stored_metadata
    /\ stored_entities' =
         [e \in EntityId |-> IF e \in dirty.despawned THEN None ELSE WrittenLists[e]]
    /\ stored_components' =
         [k \in Key |-> IF /\ k[1] \in dirty.despawned
                           /\ WrittenLists[k[1]] # None
                           /\ k[2] \in WrittenLists[k[1]]
                        THEN None ELSE WrittenComponents[k]]
    /\ dirty' = Clean
    /\ UNCHANGED <<metadata, loaded_entities, loaded_components>>

-----------------------------------------------------------------------------
(* Reading, and going through a SimpleWorld *)

\* StorageWorld::to_simple_world: the loaded entities, all in the table map.
ToSimpleWorld ==
    [next_entity_id    |-> metadata.next_entity_id,
     components        |-> [k \in Key |->
                              IF /\ loaded_entities[k[1]] # None
                                 /\ k[2] \in loaded_entities[k[1]]
                              THEN loaded_components[k] ELSE None],
     sparse_components |-> [k \in Key |-> None],
     entity_components |-> [e \in EntityId |->
                              IF loaded_entities[e] = None THEN {} ELSE loaded_entities[e]],
     version           |-> metadata.version]

\* Faulty variant of the next definition: only table components are taken.
FromSimpleWorldTableOnly(w, ids) ==
    /\ metadata' = [next_entity_id |-> w.next_entity_id, version |-> w.version,
                    entity_count |-> Cardinality(ids), entity_ids |-> ids]
    /\ loaded_entities' =
         [e \in EntityId |-> IF e \in ids THEN w.entity_components[e] ELSE None]
    /\ loaded_components' =
         [k \in Key |-> IF k[2] \in w.entity_components[k[1]]
                        THEN w.components[k] ELSE None]
    /\ dirty' =
         [dirty_entities |-> ids, new_entities |-> ids, despawned |-> {},
          dirty_components |-> {k \in Key : loaded_components'[k] # None},
          meta_dirty |-> TRUE]

\* StorageWorld::from_simple_world, for a world with the keys ids in its map of
\* lists: everything in it is marked, nothing is remembered to be removed.
FromSimpleWorld(w, ids) ==
    /\ metadata' = [next_entity_id |-> w.next_entity_id, version |-> w.version,
                    entity_count |-> Cardinality(ids), entity_ids |-> ids]
    /\ loaded_entities' =
         [e \in EntityId |-> IF e \in ids THEN w.entity_components[e] ELSE None]
    /\ loaded_components' =
         [k \in Key |-> IF k[2] \in w.entity_components[k[1]]
                        THEN GetComponent(w, k[1], k[2]) ELSE None]
    /\ dirty' =
         [dirty_entities |-> ids, new_entities |-> ids, despawned |-> {},
          dirty_components |-> {k \in Key : loaded_components'[k] # None},
          meta_dirty |-> TRUE]

Loaded == {e \in EntityId : loaded_entities[e] # None}

\* to_simple_world keeps the key of a loaded entity without components; the
\* methods of SimpleWorld remove a key with its last component.
KeysAfter(w) ==
    {e \in EntityId : w.entity_components[e] # {}}
        \cup {e \in EntityId : loaded_entities[e] = {}}

\* The worlds a system leaves that adds or removes a component, or does nothing.
LeftBySystem ==
    {ToSimpleWorld}
        \cup (IF ~CanBump(ToSimpleWorld) THEN {}
              ELSE {AddedComponent(ToSimpleWorld, e, t, data, storage_kind) :
                        e \in Loaded, t \in ComponentType, data \in Bytes,
                        storage_kind \in ComponentStorage}
                   \cup {RemovedComponent(ToSimpleWorld, e, t) :
                        e \in Loaded, t \in ComponentType})

\* Run a system that expects a SimpleWorld and take its world back.
RunSystem(w, ids) ==
    /\ FromSimpleWorld(w, ids)
    /\ UNCHANGED storage

\* A system that spawns an entity without components: the world that is taken
\* back has no key for it.
RunSpawningSystem ==
    /\ CanSpawn(ToSimpleWorld)
    /\ RunSystem(SpawnedWorld(ToSimpleWorld), Loaded)

\* A system that despawns e: its key is gone, and no despawn is marked for it.
RunDespawningSystem(e) ==
    /\ CanBump(ToSimpleWorld)
    /\ RunSystem(DespawnedEntity(ToSimpleWorld, e), Loaded \ {e})

\* What a later invocation that loads e will read.
StoredComponent(e, t) ==
    IF stored_entities[e] # None /\ t \in stored_entities[e]
    THEN stored_components[<<e, t>>] ELSE None

\* What this invocation reads of e, once it has loaded e.
WorkingComponent(e, t) ==
    IF e \notin metadata.entity_ids THEN None
    ELSE IF loaded_entities[e] # None THEN loaded_components[<<e, t>>]
    ELSE StoredComponent(e, t)

-----------------------------------------------------------------------------

\* Calls are about ids that were given out; the code does not restrict its callers.
Allocated == {e \in EntityId : e < metadata.next_entity_id}

\* The rule, for a step: live entities only, loaded before they are modified;
\* a SimpleWorld is taken back only when the whole world is loaded, with no
\* despawn unflushed, and the system neither spawned nor despawned and left
\* every entity a component it had.
Rule(kept) == by_the_rule' = (by_the_rule /\ kept)

\* A flush buries what it was told to despawn; an entity comes back by a change of
\* its components, or with a world that a system leaves and that has its key.
Buried(ids) == buried' = ids

Next ==
    \/ NewInvocation /\ Rule(TRUE) /\ Buried(buried)
    \/ SpawnEntity /\ Rule(TRUE) /\ Buried(buried)
    \/ Flush /\ Rule(TRUE) /\ Buried(buried \cup dirty.despawned)
    \/ \E w \in LeftBySystem :
         /\ RunSystem(w, KeysAfter(w))
         /\ Rule(/\ Loaded = metadata.entity_ids
                 /\ dirty.despawned = {}
                 /\ KeysAfter(w) = Loaded)
         /\ Buried(buried \ KeysAfter(w))
    \/ RunSpawningSystem /\ Rule(FALSE) /\ Buried(buried \ Loaded)
    \/ \E e \in Allocated :
         \/ LoadEntity(e) /\ Rule(e \in metadata.entity_ids) /\ Buried(buried)
         \/ DespawnEntity(e) /\ Rule(e \in metadata.entity_ids) /\ Buried(buried)
         \/ RunDespawningSystem(e) /\ Rule(FALSE) /\ Buried(buried \ (Loaded \ {e}))
         \/ \E t \in ComponentType :
              /\ \/ RemoveComponent(e, t)
                 \/ \E data \in Bytes : AddComponent(e, t, data)
              /\ Rule(e \in metadata.entity_ids /\ loaded_entities[e] # None)
              /\ Buried(buried \ {e})

Spec == Init /\ [][Next]_vars

-----------------------------------------------------------------------------
(* Properties *)

\* Whatever a contract calls, loaded data is found through the lists: it belongs
\* to a loaded entity whose list names its type, so a later removal, despawn or
\* conversion that walks the lists misses nothing.
LoadedDataIsListed ==
    \A e \in EntityId, t \in ComponentType :
        loaded_components[<<e, t>>] # None =>
            loaded_entities[e] # None /\ t \in loaded_entities[e]

\* Under the loading rule, the SimpleWorld that to_simple_world builds reads
\* exactly as the loaded entities do, and its queries find exactly them.
ConvertedWorldReadsTheSame ==
    by_the_rule => \A e \in EntityId, t \in ComponentType :
        /\ GetComponent(ToSimpleWorld, e, t) = loaded_components[<<e, t>>]
        /\ HasComponent(ToSimpleWorld, e, t) <=>
             e \in GetEntitiesWithComponent(ToSimpleWorld, t)

\* Under the loading rule, invocations see a durable store: loading an entity is
\* invisible, an unflushed change is visible to its invocation only, a system
\* that runs on the converted world changes what it says it changes, and a
\* flush makes the whole working world what the next invocation finds.
Abstract == INSTANCE DurableStore WITH
    working <- [next  |-> metadata.next_entity_id,
                live  |-> metadata.entity_ids,
                store |-> [e \in EntityId |->
                             [t \in ComponentType |-> WorkingComponent(e, t)]]],
    durable <- [next  |-> StoredMetadata.next_entity_id,
                live  |-> StoredMetadata.entity_ids,
                store |-> [e \in EntityId |->
                             [t \in ComponentType |-> StoredComponent(e, t)]]]

ImplementsDurableStore ==
    Abstract!Init /\ [][by_the_rule' => [Abstract!Next]_(Abstract!svars)]_vars

\* "Total number of live entities" (storage_world.rs:40): under the loading rule
\* the counter agrees with the list of live entities it is stored with.
EntityCountIsLiveCount ==
    by_the_rule => metadata.entity_count = Cardinality(metadata.entity_ids)

\* Whatever a contract calls, and not only under the loading rule, a flushed
\* despawn is final: until a call changes a component of the entity again, or a
\* system hands it back, no later flush and no later invocation finds a list for it
\* in storage or names it in the metadata.  This is also so when the entity was
\* loaded again from storage, or given components, between the despawn and its flush.
DespawnIsFinal ==
    \A e \in buried :
        /\ stored_entities[e] = None
        /\ e \notin StoredMetadata.entity_ids
        /\ e \notin metadata.entity_ids
=============================================================================
