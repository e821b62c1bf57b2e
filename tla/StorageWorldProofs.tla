------------------------- MODULE StorageWorldProofs -------------------------
(***************************************************************************)
(* Proofs about StorageWorld for every number of entities, every set of    *)
(* component types and every sequence of invocations: what memory lists,   *)
(* and, under the loading rule, what is counted, what the converted world  *)
(* reads, and that the world is a DurableStore; and, whatever is called,   *)
(* that a flushed despawn is final.                                        *)
(***************************************************************************)
EXTENDS StorageWorld, FiniteSetTheorems, TLAPS

-----------------------------------------------------------------------------
(***************************************************************************)
(* What the methods of SimpleWorld do to a well-formed world.              *)
(***************************************************************************)

\* add_component_with_storage writes one entry of one map and lists its type.
LEMMA AddedFields ==
  ASSUME NEW w \in SimpleWorlds, CanBump(w),
         NEW e \in EntityId, NEW t \in ComponentType, NEW data \in Bytes,
         NEW kind \in ComponentStorage
  PROVE  LET v == AddedComponent(w, e, t, data, kind) IN
         /\ v \in SimpleWorlds
         /\ v.version = w.version + 1
         /\ v.components =
              IF kind = Table THEN [w.components EXCEPT ![<<e, t>>] = data]
                              ELSE w.components
         /\ v.sparse_components =
              IF kind = Sparse THEN [w.sparse_components EXCEPT ![<<e, t>>] = data]
                               ELSE w.sparse_components
         /\ v.entity_components =
              [w.entity_components EXCEPT ![e] = w.entity_components[e] \cup {t}]
<1> DEFINE k == <<e, t>>
<1>1. w.version + 1 \in 0..U64Max
  BY BoundsAssumption DEF SimpleWorlds, CanBump
<1>2. k \in Key
  BY DEF Key
<1>3. [w.components EXCEPT ![k] = data] \in [Key -> Bytes \cup {None}]
  BY <1>2 DEF SimpleWorlds
<1>4. [w.sparse_components EXCEPT ![k] = data] \in [Key -> Bytes \cup {None}]
  BY <1>2 DEF SimpleWorlds
<1>5. [w.entity_components EXCEPT ![e] = w.entity_components[e] \cup {t}]
        \in [EntityId -> SUBSET ComponentType]
  BY DEF SimpleWorlds
<1> HIDE DEF k
<1> QED
  BY <1>1, <1>3, <1>4, <1>5 DEF AddedComponent, SimpleWorlds, k

\* remove_component clears one entry and drops the type when it found data.
LEMMA RemovedFields ==
  ASSUME NEW w \in SimpleWorlds, CanBump(w),
         NEW e \in EntityId, NEW t \in ComponentType
  PROVE  LET v == RemovedComponent(w, e, t) IN
         /\ v \in SimpleWorlds
         /\ v.version = w.version + 1
         /\ v.components = [w.components EXCEPT ![<<e, t>>] = None]
         /\ v.sparse_components =
              IF w.components[<<e, t>>] # None THEN w.sparse_components
              ELSE [w.sparse_components EXCEPT ![<<e, t>>] = None]
         /\ v.entity_components =
              IF HasComponent(w, e, t)
              THEN [w.entity_components EXCEPT ![e] = w.entity_components[e] \ {t}]
              ELSE w.entity_components
<1> DEFINE k == <<e, t>>
<1>1. w.version + 1 \in 0..U64Max
  BY BoundsAssumption DEF SimpleWorlds, CanBump
<1>2. k \in Key
  BY DEF Key
<1>3. [w.components EXCEPT ![k] = None] \in [Key -> Bytes \cup {None}]
  BY <1>2 DEF SimpleWorlds
<1>4. [w.sparse_components EXCEPT ![k] = None] \in [Key -> Bytes \cup {None}]
  BY <1>2 DEF SimpleWorlds
<1>5. [w.entity_components EXCEPT ![e] = w.entity_components[e] \ {t}]
        \in [EntityId -> SUBSET ComponentType]
  BY DEF SimpleWorlds
<1> HIDE DEF k
<1> QED
  BY <1>1, <1>3, <1>4, <1>5 DEF RemovedComponent, SimpleWorlds, HasComponent, k

\* despawn_entity allocates no id and empties the entity's list.
LEMMA DespawnedFields ==
  ASSUME NEW w \in SimpleWorlds, CanBump(w), NEW e \in EntityId
  PROVE  LET v == DespawnedEntity(w, e) IN
         /\ v \in SimpleWorlds
         /\ v.next_entity_id = w.next_entity_id
         /\ v.entity_components = [w.entity_components EXCEPT ![e] = {}]
<1> DEFINE cleared(m) == [k \in Key |->
             IF k[1] = e /\ k[2] \in w.entity_components[e] THEN None ELSE m[k]]
<1>1. w.version + 1 \in 0..U64Max
  BY BoundsAssumption DEF SimpleWorlds, CanBump
<1>2. /\ cleared(w.components) \in [Key -> Bytes \cup {None}]
      /\ cleared(w.sparse_components) \in [Key -> Bytes \cup {None}]
  BY DEF SimpleWorlds
<1>3. [w.entity_components EXCEPT ![e] = {}] \in [EntityId -> SUBSET ComponentType]
  BY DEF SimpleWorlds
<1>4. DespawnedEntity(w, e) =
        [w EXCEPT !.version = w.version + 1,
                  !.components = cleared(w.components),
                  !.sparse_components = cleared(w.sparse_components),
                  !.entity_components = [w.entity_components EXCEPT ![e] = {}]]
  BY DEF DespawnedEntity, SimpleWorlds
<1> HIDE DEF cleared
<1> QED
  BY <1>1, <1>2, <1>3, <1>4 DEF SimpleWorlds

\* After add_component_with_storage the entity has that component too.
LEMMA AddedHas ==
  ASSUME NEW w \in SimpleWorlds, CanBump(w),
         NEW e \in EntityId, NEW t \in ComponentType, NEW data \in Bytes,
         NEW kind \in ComponentStorage,
         NEW f \in EntityId, NEW u \in ComponentType
  PROVE  LET v == AddedComponent(w, e, t, data, kind) IN
         /\ HasComponent(v, f, u) <=> HasComponent(w, f, u) \/ <<f, u>> = <<e, t>>
         /\ u \in v.entity_components[f] <=>
              u \in w.entity_components[f] \/ <<f, u>> = <<e, t>>
<1> DEFINE v == AddedComponent(w, e, t, data, kind)
<1>1. /\ w.components \in [Key -> Bytes \cup {None}]
      /\ w.sparse_components \in [Key -> Bytes \cup {None}]
      /\ w.entity_components \in [EntityId -> SUBSET ComponentType]
  BY DEF SimpleWorlds
<1>2. /\ v.components =
           IF kind = Table THEN [w.components EXCEPT ![<<e, t>>] = data]
                           ELSE w.components
      /\ v.sparse_components =
           IF kind = Sparse THEN [w.sparse_components EXCEPT ![<<e, t>>] = data]
                            ELSE w.sparse_components
      /\ v.entity_components =
           [w.entity_components EXCEPT ![e] = w.entity_components[e] \cup {t}]
  BY AddedFields
<1>3. <<e, t>> \in Key /\ <<f, u>> \in Key
  BY DEF Key
<1> HIDE DEF v
<1>4. u \in v.entity_components[f] <=>
        u \in w.entity_components[f] \/ <<f, u>> = <<e, t>>
  BY <1>1, <1>2
<1>5. HasComponent(v, f, u) <=> HasComponent(w, f, u) \/ <<f, u>> = <<e, t>>
  <2>1. CASE kind = Table
    BY <2>1, <1>1, <1>2, <1>3, NoneAssumption DEF HasComponent, Table, Sparse
  <2>2. CASE kind = Sparse
    BY <2>2, <1>1, <1>2, <1>3, NoneAssumption DEF HasComponent, Table, Sparse
  <2> QED BY <2>1, <2>2 DEF ComponentStorage
<1> QED BY <1>4, <1>5 DEF v

\* remove_component leaves all other components and their listing alone, and
\* the removed component is not listed any more.
LEMMA RemovedHas ==
  ASSUME NEW w \in SimpleWorlds, CanBump(w),
         NEW e \in EntityId, NEW t \in ComponentType,
         NEW f \in EntityId, NEW u \in ComponentType
  PROVE  LET v == RemovedComponent(w, e, t) IN
         /\ (f # e \/ u # t) =>
              /\ HasComponent(v, f, u) <=> HasComponent(w, f, u)
              /\ u \in v.entity_components[f] <=> u \in w.entity_components[f]
         /\ HasComponent(v, e, t) <=>
              w.components[<<e, t>>] # None /\ w.sparse_components[<<e, t>>] # None
         /\ t \in v.entity_components[e] <=>
              t \in w.entity_components[e] /\ ~HasComponent(w, e, t)
<1> DEFINE v == RemovedComponent(w, e, t)
<1>1. /\ w.components \in [Key -> Bytes \cup {None}]
      /\ w.sparse_components \in [Key -> Bytes \cup {None}]
      /\ w.entity_components \in [EntityId -> SUBSET ComponentType]
  BY DEF SimpleWorlds
<1>2. /\ v.components = [w.components EXCEPT ![<<e, t>>] = None]
      /\ v.sparse_components =
           IF w.components[<<e, t>>] # None THEN w.sparse_components
           ELSE [w.sparse_components EXCEPT ![<<e, t>>] = None]
      /\ v.entity_components =
           IF HasComponent(w, e, t)
           THEN [w.entity_components EXCEPT ![e] = w.entity_components[e] \ {t}]
           ELSE w.entity_components
  BY RemovedFields
<1>3. <<e, t>> \in Key /\ <<f, u>> \in Key
  BY DEF Key
<1> HIDE DEF v
<1>4. (f # e \/ u # t) => (HasComponent(v, f, u) <=> HasComponent(w, f, u))
  BY <1>1, <1>2, <1>3 DEF HasComponent
<1>5. (f # e \/ u # t) =>
        (u \in v.entity_components[f] <=> u \in w.entity_components[f])
  BY <1>1, <1>2
<1>6. HasComponent(v, e, t) <=>
        w.components[<<e, t>>] # None /\ w.sparse_components[<<e, t>>] # None
  BY <1>1, <1>2, <1>3 DEF HasComponent
<1>7. t \in v.entity_components[e] <=>
        t \in w.entity_components[e] /\ ~HasComponent(w, e, t)
  BY <1>1, <1>2
<1> QED BY <1>4, <1>5, <1>6, <1>7 DEF v

\* What a read finds: the data of either map, and None exactly when the entity
\* does not have the component.
LEMMA GetIsHas ==
  ASSUME NEW w \in SimpleWorlds, NEW e \in EntityId, NEW t \in ComponentType
  PROVE  HasComponent(w, e, t) <=> GetComponent(w, e, t) # None
  BY DEF HasComponent, GetComponent

\* What get_component reads after a removal: nothing of the removed component, when
\* the sparse map held no second copy of it.
LEMMA ReadAfterRemoval ==
  ASSUME NEW w \in SimpleWorlds, CanBump(w), NEW e \in EntityId, NEW t \in ComponentType,
         w.sparse_components[<<e, t>>] = None, NEW f \in EntityId, NEW u \in ComponentType
  PROVE  GetComponent(RemovedComponent(w, e, t), f, u) =
           IF f = e /\ u = t THEN None ELSE GetComponent(w, f, u)
<1> DEFINE v == RemovedComponent(w, e, t)
<1>1. /\ w.components \in [Key -> Bytes \cup {None}]
      /\ w.sparse_components \in [Key -> Bytes \cup {None}]
      /\ <<e, t>> \in Key /\ <<f, u>> \in Key
      /\ <<f, u>> = <<e, t>> <=> f = e /\ u = t
  BY DEF SimpleWorlds, Key
<1>2. /\ v.components = [w.components EXCEPT ![<<e, t>>] = None]
      /\ v.sparse_components =
           IF w.components[<<e, t>>] # None THEN w.sparse_components
           ELSE [w.sparse_components EXCEPT ![<<e, t>>] = None]
      /\ v.entity_components =
           IF HasComponent(w, e, t)
           THEN [w.entity_components EXCEPT ![e] = w.entity_components[e] \ {t}]
           ELSE w.entity_components
  BY RemovedFields
<1> HIDE DEF v
<1>3. GetComponent(v, f, u) = IF f = e /\ u = t THEN None ELSE GetComponent(w, f, u)
  BY <1>1, <1>2 DEF GetComponent
<1> QED
  BY <1>3 DEF v

\* What it reads after an addition: the data, unless the table map hides it.
LEMMA ReadAfterAddition ==
  ASSUME NEW w \in SimpleWorlds, CanBump(w), NEW e \in EntityId, NEW t \in ComponentType,
         NEW data \in Bytes, NEW kind \in ComponentStorage,
         NEW f \in EntityId, NEW u \in ComponentType
  PROVE  GetComponent(AddedComponent(w, e, t, data, kind), f, u) =
           IF f = e /\ u = t /\ (kind = Table \/ w.components[<<e, t>>] = None)
           THEN data ELSE GetComponent(w, f, u)
<1> DEFINE v == AddedComponent(w, e, t, data, kind)
<1>1. /\ w.components \in [Key -> Bytes \cup {None}]
      /\ w.sparse_components \in [Key -> Bytes \cup {None}]
      /\ <<e, t>> \in Key /\ <<f, u>> \in Key
      /\ <<f, u>> = <<e, t>> <=> f = e /\ u = t
  BY DEF SimpleWorlds, Key
<1>2. /\ v.components = IF kind = Table THEN [w.components EXCEPT ![<<e, t>>] = data]
                                        ELSE w.components
      /\ v.sparse_components =
           IF kind = Sparse THEN [w.sparse_components EXCEPT ![<<e, t>>] = data]
                            ELSE w.sparse_components
      /\ v.entity_components =
           [w.entity_components EXCEPT ![e] = w.entity_components[e] \cup {t}]
  BY AddedFields
<1> HIDE DEF v
<1>3. GetComponent(v, f, u) =
        IF f = e /\ u = t /\ (kind = Table \/ w.components[<<e, t>>] = None)
        THEN data ELSE GetComponent(w, f, u)
  BY <1>1, <1>2, NoneAssumption DEF GetComponent, ComponentStorage, Table, Sparse
<1> QED
  BY <1>3 DEF v

Metadata ==
    [next_entity_id : EntityId, version : 0..U64Max,
     entity_count   : Nat, entity_ids : SUBSET EntityId]

Lists == [EntityId -> (SUBSET ComponentType) \cup {None}]

Data == [Key -> Bytes \cup {None}]

StorageTypes ==
    /\ stored_metadata \in Metadata \cup {None}
    /\ stored_entities \in Lists
    /\ stored_components \in Data
    /\ metadata \in Metadata
    /\ loaded_entities \in Lists
    /\ loaded_components \in Data
    /\ dirty \in DirtyTracker

\* What a step under the loading rule kept.
Kept(kept) == by_the_rule' => by_the_rule /\ kept

-----------------------------------------------------------------------------
(* Facts about the data *)

\* The calls, each with what the loading rule asks of it.
LEMMA NextCases ==
    ASSUME Next
    PROVE  \/ NewInvocation /\ Kept(TRUE) /\ Buried(buried)
           \/ SpawnEntity /\ Kept(TRUE) /\ Buried(buried)
           \/ Flush /\ Kept(TRUE) /\ Buried(buried \cup dirty.despawned)
           \/ \E w \in LeftBySystem :
                /\ RunSystem(w, KeysAfter(w))
                /\ Kept(/\ Loaded = metadata.entity_ids
                        /\ dirty.despawned = {}
                        /\ KeysAfter(w) = Loaded)
                /\ Buried(buried \ KeysAfter(w))
           \/ RunSpawningSystem /\ Kept(FALSE) /\ Buried(buried \ Loaded)
           \/ \E e \in Allocated :
                LoadEntity(e) /\ Kept(e \in metadata.entity_ids) /\ Buried(buried)
           \/ \E e \in Allocated :
                DespawnEntity(e) /\ Kept(e \in metadata.entity_ids) /\ Buried(buried)
           \/ \E e \in Allocated :
                RunDespawningSystem(e) /\ Kept(FALSE) /\ Buried(buried \ (Loaded \ {e}))
           \/ \E e \in Allocated, t \in ComponentType :
                /\ RemoveComponent(e, t)
                /\ Kept(e \in metadata.entity_ids /\ loaded_entities[e] # None)
                /\ Buried(buried \ {e})
           \/ \E e \in Allocated, t \in ComponentType, data \in Bytes :
                /\ AddComponent(e, t, data)
                /\ Kept(e \in metadata.entity_ids /\ loaded_entities[e] # None)
                /\ Buried(buried \ {e})
  BY Zenon DEF Next, Rule, Kept

\* Allocated ids are ids.
LEMMA AllocatedIds == Allocated \subseteq EntityId
  BY DEF Allocated

\* A list of types is not the absent list.
LEMMA ListsAreNotNone == \A types \in SUBSET ComponentType : types # None
  BY ListAssumption

\* An entity and a type are a key.
LEMMA Keys == \A e \in EntityId, t \in ComponentType : <<e, t>> \in Key
  BY DEF Key

\* The metadata of a new world is well typed.
LEMMA FreshIsMetadata == FreshMetadata \in Metadata
  BY BoundsAssumption DEF FreshMetadata, Metadata, EntityId

\* A metadata record is there.
LEMMA MetadataIsNotNone == \A m \in Metadata : m # None
  BY MetadataAssumption DEF Metadata, WorldMetadata

\* What load_metadata finds is well typed.
LEMMA StoredIsMetadata == StorageTypes => StoredMetadata \in Metadata
  BY FreshIsMetadata DEF StorageTypes, StoredMetadata

\* There are finitely many ids, so sets of them can be counted.
LEMMA IdsAreFinite ==
    ASSUME NEW ids \in SUBSET EntityId
    PROVE  /\ IsFiniteSet(ids)
           /\ Cardinality(ids) \in 0..U32Max
<1>1. IsFiniteSet(EntityId) /\ Cardinality(EntityId) = U32Max
  BY BoundsAssumption, FS_Interval DEF EntityId
<1>2. IsFiniteSet(ids) /\ Cardinality(ids) =< Cardinality(EntityId)
  BY <1>1, FS_Subset
<1>3. Cardinality(ids) \in Nat
  BY <1>2, FS_CardinalityType
<1> QED
  BY <1>1, <1>2, <1>3, BoundsAssumption

\* A new tracker marks nothing.
LEMMA CleanTracker ==
    /\ Clean \in DirtyTracker
    /\ Clean.dirty_entities = {} /\ Clean.dirty_components = {}
    /\ Clean.despawned = {} /\ Clean.meta_dirty = FALSE
<1>1. {} \in SUBSET EntityId /\ {} \in SUBSET Key /\ FALSE \in BOOLEAN
  OBVIOUS
<1> QED
  BY <1>1, Zenon DEF Clean, DirtyTracker

-----------------------------------------------------------------------------
(* The fields of the metadata and of the tracker after a call *)

\* The metadata with three fields replaced, as spawn and despawn do.
WithSpawned(m, n, count, ids) ==
    [m EXCEPT !.next_entity_id = n, !.entity_count = count, !.entity_ids = ids]

WithDespawned(m, ids, count, v) ==
    [m EXCEPT !.entity_ids = ids, !.entity_count = count, !.version = v]

SpawnedIn(m, id) ==
    WithSpawned(m, m.next_entity_id + 1, m.entity_count + 1, m.entity_ids \cup {id})

OneLess(count) == IF count = 0 THEN 0 ELSE count - 1

DespawnedIn(m, e) ==
    WithDespawned(m, m.entity_ids \ {e}, OneLess(m.entity_count), m.version + 1)

\* bump_version changes the version only.
LEMMA BumpedMetadata ==
    ASSUME NEW m \in Metadata, m.version < U64Max
    PROVE  LET n == [m EXCEPT !.version = @ + 1] IN
           /\ n \in Metadata
           /\ n.next_entity_id = m.next_entity_id
           /\ n.entity_ids = m.entity_ids
           /\ n.entity_count = m.entity_count
  BY BoundsAssumption DEF Metadata

\* Metadata with new values in some of its fields.
LEMMA ReplacedFields ==
    \A m \in Metadata, n \in EntityId, v \in 0..U64Max, count \in Nat,
       ids \in SUBSET EntityId :
        /\ WithSpawned(m, n, count, ids) \in Metadata
        /\ WithSpawned(m, n, count, ids).next_entity_id = n
        /\ WithSpawned(m, n, count, ids).entity_count = count
        /\ WithSpawned(m, n, count, ids).entity_ids = ids
        /\ WithDespawned(m, ids, count, v) \in Metadata
        /\ WithDespawned(m, ids, count, v).next_entity_id = m.next_entity_id
        /\ WithDespawned(m, ids, count, v).entity_count = count
        /\ WithDespawned(m, ids, count, v).entity_ids = ids
<1> TAKE m \in Metadata, n \in EntityId, v \in 0..U64Max, count \in Nat,
         ids \in SUBSET EntityId
<1>1. /\ WithSpawned(m, n, count, ids) \in Metadata
      /\ WithSpawned(m, n, count, ids).next_entity_id = n
      /\ WithSpawned(m, n, count, ids).entity_count = count
      /\ WithSpawned(m, n, count, ids).entity_ids = ids
  BY DEF Metadata, WithSpawned
<1>2. /\ WithDespawned(m, ids, count, v) \in Metadata
      /\ WithDespawned(m, ids, count, v).next_entity_id = m.next_entity_id
      /\ WithDespawned(m, ids, count, v).entity_count = count
      /\ WithDespawned(m, ids, count, v).entity_ids = ids
  BY DEF Metadata, WithDespawned
<1> QED
  BY <1>1, <1>2

\* spawn_entity counts the new id and adds it to the list.
LEMMA SpawnedMetadata ==
    ASSUME NEW m \in Metadata, NEW id, id = m.next_entity_id, id < U32Max
    PROVE  /\ SpawnedIn(m, id) \in Metadata
           /\ SpawnedIn(m, id).next_entity_id = m.next_entity_id + 1
           /\ SpawnedIn(m, id).entity_ids = m.entity_ids \cup {id}
           /\ SpawnedIn(m, id).entity_count = m.entity_count + 1
<1>1. /\ m.next_entity_id + 1 \in EntityId
      /\ m.entity_count + 1 \in Nat
      /\ m.version \in 0..U64Max
      /\ m.entity_ids \cup {id} \in SUBSET EntityId
  BY BoundsAssumption DEF Metadata, EntityId
<1> QED
  BY <1>1, ReplacedFields DEF SpawnedIn

\* despawn_entity takes the id off the list and counts down.
LEMMA DespawnedMetadata ==
    ASSUME NEW m \in Metadata, m.version < U64Max, NEW e
    PROVE  /\ DespawnedIn(m, e) \in Metadata
           /\ DespawnedIn(m, e).next_entity_id = m.next_entity_id
           /\ DespawnedIn(m, e).entity_ids = m.entity_ids \ {e}
           /\ DespawnedIn(m, e).entity_count = OneLess(m.entity_count)
<1>1. /\ m.next_entity_id \in EntityId
      /\ OneLess(m.entity_count) \in Nat
      /\ m.version + 1 \in 0..U64Max
      /\ m.entity_ids \ {e} \in SUBSET EntityId
  BY BoundsAssumption DEF Metadata, OneLess
<1> QED
  BY <1>1, ReplacedFields DEF DespawnedIn

\* A changed component marks itself, its entity and the metadata.
LEMMA MarkedTracker ==
    ASSUME dirty \in DirtyTracker, NEW e \in EntityId, NEW t \in ComponentType
    PROVE  /\ MarkedComponent(e, t) \in DirtyTracker
           /\ MarkedComponent(e, t).dirty_entities = dirty.dirty_entities \cup {e}
           /\ MarkedComponent(e, t).dirty_components = dirty.dirty_components \cup {<<e, t>>}
           /\ MarkedComponent(e, t).despawned = dirty.despawned
           /\ MarkedComponent(e, t).meta_dirty = TRUE
  BY Keys, Zenon DEF MarkedComponent, DirtyTracker

-----------------------------------------------------------------------------
(* Worlds that systems leave *)

\* to_simple_world puts the listed components of loaded entities in the table map.
LEMMA ConvertedWorld ==
    ASSUME StorageTypes
    PROVE  /\ ToSimpleWorld \in SimpleWorlds
           /\ ToSimpleWorld.next_entity_id = metadata.next_entity_id
           /\ \A e \in EntityId, t \in ComponentType :
                /\ ToSimpleWorld.sparse_components[<<e, t>>] = None
                /\ ToSimpleWorld.components[<<e, t>>] =
                     IF loaded_entities[e] # None /\ t \in loaded_entities[e]
                     THEN loaded_components[<<e, t>>] ELSE None
           /\ \A e \in EntityId : ToSimpleWorld.entity_components[e] =
                IF loaded_entities[e] = None THEN {} ELSE loaded_entities[e]
<1> DEFINE comps == [k \in Key |->
                       IF /\ loaded_entities[k[1]] # None
                          /\ k[2] \in loaded_entities[k[1]]
                       THEN loaded_components[k] ELSE None]
           sparse == [k \in Key |-> None]
           lists == [e \in EntityId |->
                       IF loaded_entities[e] = None THEN {} ELSE loaded_entities[e]]
<1>1. comps \in Data /\ sparse \in Data
  BY DEF StorageTypes, Data
<1>2. lists \in [EntityId -> SUBSET ComponentType]
  BY DEF StorageTypes, Lists
<1>3. metadata.next_entity_id \in EntityId /\ metadata.version \in 0..U64Max
  BY DEF StorageTypes, Metadata
<1>4. \A e \in EntityId, t \in ComponentType :
        /\ <<e, t>> \in Key
        /\ sparse[<<e, t>>] = None
        /\ comps[<<e, t>>] = IF loaded_entities[e] # None /\ t \in loaded_entities[e]
                             THEN loaded_components[<<e, t>>] ELSE None
  BY Keys
<1>5. \A e \in EntityId :
        lists[e] = IF loaded_entities[e] = None THEN {} ELSE loaded_entities[e]
  OBVIOUS
<1>6. ToSimpleWorld = [next_entity_id |-> metadata.next_entity_id, components |-> comps,
                       sparse_components |-> sparse, entity_components |-> lists,
                       version |-> metadata.version]
  BY DEF ToSimpleWorld
<1> HIDE DEF comps, sparse, lists
<1>7. ToSimpleWorld \in SimpleWorlds
  BY <1>1, <1>2, <1>3, <1>6 DEF SimpleWorlds, Data
<1>8. /\ ToSimpleWorld.next_entity_id = metadata.next_entity_id
      /\ ToSimpleWorld.components = comps
      /\ ToSimpleWorld.sparse_components = sparse
      /\ ToSimpleWorld.entity_components = lists
  BY <1>6
<1> QED
  BY <1>4, <1>5, <1>7, <1>8

\* Adding and removing components allocates no id.
LEMMA CallsKeepNextId ==
    ASSUME NEW w \in SimpleWorlds, NEW e \in EntityId, NEW t \in ComponentType,
           NEW data, NEW kind
    PROVE  /\ AddedComponent(w, e, t, data, kind).next_entity_id = w.next_entity_id
           /\ RemovedComponent(w, e, t).next_entity_id = w.next_entity_id
  BY DEF AddedComponent, RemovedComponent, SimpleWorlds

\* Adding a component lists it for its own entity only.
LEMMA AddedElsewhere ==
    ASSUME NEW w \in SimpleWorlds, NEW e \in EntityId, NEW t \in ComponentType,
           NEW data, NEW kind, NEW f \in EntityId, f # e
    PROVE  AddedComponent(w, e, t, data, kind).entity_components[f] = w.entity_components[f]
  BY DEF AddedComponent, SimpleWorlds

\* A system leaves the converted world as it was, or with one call made on it.
LEMMA LeftCases ==
    ASSUME StorageTypes, NEW w \in LeftBySystem
    PROVE  \/ w = ToSimpleWorld
           \/ /\ CanBump(ToSimpleWorld)
              /\ \E e \in Loaded, t \in ComponentType, data \in Bytes,
                    kind \in ComponentStorage :
                    w = AddedComponent(ToSimpleWorld, e, t, data, kind)
           \/ /\ CanBump(ToSimpleWorld)
              /\ \E e \in Loaded, t \in ComponentType :
                    w = RemovedComponent(ToSimpleWorld, e, t)
<1>1. CASE w = ToSimpleWorld
  BY <1>1
<1>2. CASE w # ToSimpleWorld
  <2> DEFINE added == {AddedComponent(ToSimpleWorld, e, t, data, kind) :
                         e \in Loaded, t \in ComponentType, data \in Bytes,
                         kind \in ComponentStorage}
             removed == {RemovedComponent(ToSimpleWorld, e, t) :
                           e \in Loaded, t \in ComponentType}
  <2>1. w \in {ToSimpleWorld} \cup (IF ~CanBump(ToSimpleWorld) THEN {} ELSE added \cup removed)
    BY SMT DEF LeftBySystem
  <2>2. CanBump(ToSimpleWorld) /\ (w \in added \/ w \in removed)
    <3> HIDE DEF added, removed
    <3> QED
      BY <1>2, <2>1
  <2>3. w \in added => \E e \in Loaded, t \in ComponentType, data \in Bytes,
                            kind \in ComponentStorage :
                           w = AddedComponent(ToSimpleWorld, e, t, data, kind)
    BY SMT
  <2>4. w \in removed => \E e \in Loaded, t \in ComponentType :
                             w = RemovedComponent(ToSimpleWorld, e, t)
    BY SMT
  <2> HIDE DEF added, removed
  <2> QED
    BY <2>2, <2>3, <2>4, Zenon
<1> QED
  BY <1>1, <1>2, Zenon

\* What a system leaves is a well-formed world with the same ids.
LEMMA LeftWorlds ==
    ASSUME StorageTypes, NEW w \in LeftBySystem
    PROVE  /\ w \in SimpleWorlds
           /\ w.next_entity_id = metadata.next_entity_id
<1>1. /\ ToSimpleWorld \in SimpleWorlds
      /\ ToSimpleWorld.next_entity_id = metadata.next_entity_id
  BY ConvertedWorld
<1>2. Loaded \subseteq EntityId
  BY DEF Loaded
<1>3. CASE w = ToSimpleWorld
  BY <1>1, <1>3
<1>4. ASSUME CanBump(ToSimpleWorld),
             NEW e \in Loaded, NEW t \in ComponentType, NEW data \in Bytes,
             NEW kind \in ComponentStorage,
             w = AddedComponent(ToSimpleWorld, e, t, data, kind)
      PROVE  w \in SimpleWorlds /\ w.next_entity_id = metadata.next_entity_id
  <2>1. e \in EntityId
    BY <1>2
  <2>2. AddedComponent(ToSimpleWorld, e, t, data, kind) \in SimpleWorlds
    BY <1>1, <1>4, <2>1, AddedFields
  <2>3. AddedComponent(ToSimpleWorld, e, t, data, kind).next_entity_id =
          ToSimpleWorld.next_entity_id
    BY <1>1, <2>1, CallsKeepNextId
  <2> QED
    BY <1>1, <1>4, <2>2, <2>3
<1>5. ASSUME CanBump(ToSimpleWorld), NEW e \in Loaded, NEW t \in ComponentType,
             w = RemovedComponent(ToSimpleWorld, e, t)
      PROVE  w \in SimpleWorlds /\ w.next_entity_id = metadata.next_entity_id
  <2>1. e \in EntityId
    BY <1>2
  <2> QED
    BY <1>1, <1>5, <2>1, RemovedFields, CallsKeepNextId
<1> QED
  BY <1>3, <1>4, <1>5, LeftCases

-----------------------------------------------------------------------------
(* What each call does to memory and storage, entity by entity *)

RestartOutcome ==
    /\ StorageTypes'
    /\ UNCHANGED storage
    /\ metadata' = StoredMetadata
    /\ \A e \in EntityId : loaded_entities'[e] = None
    /\ \A e \in EntityId, t \in ComponentType : loaded_components'[<<e, t>>] = None
    /\ dirty' = Clean

\* NewInvocation reads the metadata and forgets the memory.
LEMMA NewInvocationEffects ==
    ASSUME StorageTypes, NewInvocation
    PROVE  RestartOutcome
<1>1. metadata' \in Metadata
  BY StoredIsMetadata DEF NewInvocation
<1>2. loaded_entities' \in Lists /\ loaded_components' \in Data
  BY DEF NewInvocation, Lists, Data
<1>3. dirty' \in DirtyTracker
  BY CleanTracker DEF NewInvocation
<1> QED
  BY <1>1, <1>2, <1>3, Keys DEF NewInvocation, StorageTypes, storage, RestartOutcome

LoadOutcome(x) ==
    /\ StorageTypes'
    /\ loaded_entities[x] = None /\ stored_entities[x] # None
    /\ UNCHANGED <<storage, metadata, dirty>>
    /\ \A e \in EntityId : loaded_entities'[e] =
         IF e = x THEN stored_entities[x] ELSE loaded_entities[e]
    /\ \A e \in EntityId, t \in ComponentType : loaded_components'[<<e, t>>] =
         IF e = x /\ t \in stored_entities[x] /\ stored_components[<<e, t>>] # None
         THEN stored_components[<<e, t>>] ELSE loaded_components[<<e, t>>]

\* load_entity copies the stored list and data of one entity.
LEMMA LoadEffects ==
    ASSUME StorageTypes, NEW x \in EntityId, LoadEntity(x)
    PROVE  LoadOutcome(x)
<1>1. loaded_entities' \in Lists
  BY DEF StorageTypes, Lists, LoadEntity
<1>2. loaded_components' \in Data
  BY DEF StorageTypes, Data, LoadEntity
<1>3. StorageTypes'
  BY <1>1, <1>2 DEF StorageTypes, LoadEntity, storage
<1> QED
  BY <1>3, Keys DEF StorageTypes, Lists, LoadEntity, LoadOutcome

SpawnOutcome ==
    LET id == metadata.next_entity_id IN
    /\ StorageTypes'
    /\ id \in EntityId /\ id < U32Max
    /\ UNCHANGED <<storage, loaded_components>>
    /\ metadata'.next_entity_id = id + 1
    /\ metadata'.entity_ids = metadata.entity_ids \cup {id}
    /\ metadata'.entity_count = metadata.entity_count + 1
    /\ \A e \in EntityId : loaded_entities'[e] =
         IF e = id THEN {} ELSE loaded_entities[e]
    /\ dirty'.dirty_entities = dirty.dirty_entities \cup {id}
    /\ dirty'.dirty_components = dirty.dirty_components
    /\ dirty'.despawned = dirty.despawned
    /\ dirty'.meta_dirty = TRUE

\* spawn_entity adds one loaded entity without components.
LEMMA SpawnEffects ==
    ASSUME StorageTypes, SpawnEntity
    PROVE  SpawnOutcome
<1> DEFINE id == metadata.next_entity_id
<1>1. metadata \in Metadata /\ id \in EntityId /\ id < U32Max
  BY DEF StorageTypes, Metadata, SpawnEntity
<1>2. metadata' = SpawnedIn(metadata, id)
  BY DEF SpawnEntity, SpawnedIn, WithSpawned
<1>3. loaded_entities' \in Lists
  BY <1>1 DEF StorageTypes, Lists, SpawnEntity
<1>4. /\ dirty' \in DirtyTracker
      /\ dirty'.dirty_entities = dirty.dirty_entities \cup {id}
      /\ dirty'.dirty_components = dirty.dirty_components
      /\ dirty'.despawned = dirty.despawned
      /\ dirty'.meta_dirty = TRUE
  <2>1. dirty' = [dirty EXCEPT !.new_entities = @ \cup {id},
                               !.dirty_entities = @ \cup {id},
                               !.meta_dirty = TRUE]
    BY DEF SpawnEntity
  <2>2. dirty \in DirtyTracker
    BY DEF StorageTypes
  <2> HIDE DEF id
  <2> QED
    BY <1>1, <2>1, <2>2, Zenon DEF DirtyTracker
<1>5. UNCHANGED <<storage, loaded_components>>
  BY DEF SpawnEntity
<1>6. \A e \in EntityId : loaded_entities'[e] = IF e = id THEN {} ELSE loaded_entities[e]
  BY <1>1 DEF StorageTypes, Lists, SpawnEntity
<1>7. /\ metadata' \in Metadata
      /\ metadata'.next_entity_id = id + 1
      /\ metadata'.entity_ids = metadata.entity_ids \cup {id}
      /\ metadata'.entity_count = metadata.entity_count + 1
  BY <1>1, <1>2, SpawnedMetadata
<1>8. StorageTypes'
  BY <1>3, <1>4, <1>5, <1>7 DEF StorageTypes, storage
<1> QED
  BY <1>1, <1>4, <1>5, <1>6, <1>7, <1>8 DEF SpawnOutcome

AddOutcome(x, u, data) ==
    /\ StorageTypes'
    /\ UNCHANGED storage
    /\ metadata'.next_entity_id = metadata.next_entity_id
    /\ metadata'.entity_ids = metadata.entity_ids
    /\ metadata'.entity_count = metadata.entity_count
    /\ \A e \in EntityId : loaded_entities'[e] =
         IF e # x THEN loaded_entities[e]
         ELSE IF loaded_entities[x] = None THEN {u} ELSE loaded_entities[x] \cup {u}
    /\ \A e \in EntityId, t \in ComponentType : loaded_components'[<<e, t>>] =
         IF e = x /\ t = u THEN data ELSE loaded_components[<<e, t>>]
    /\ dirty' = MarkedComponent(x, u)

\* add_component writes, lists and marks one component.
LEMMA AddEffects ==
    ASSUME StorageTypes, NEW x \in EntityId, NEW u \in ComponentType, NEW data \in Bytes,
           AddComponent(x, u, data)
    PROVE  AddOutcome(x, u, data)
<1>1. loaded_entities' \in Lists
  BY DEF StorageTypes, Lists, AddComponent
<1>2. loaded_components' \in Data
  BY DEF StorageTypes, Data, AddComponent
<1>3. /\ metadata' \in Metadata
      /\ metadata'.next_entity_id = metadata.next_entity_id
      /\ metadata'.entity_ids = metadata.entity_ids
      /\ metadata'.entity_count = metadata.entity_count
  BY BumpedMetadata DEF StorageTypes, AddComponent
<1>4. dirty' = MarkedComponent(x, u) /\ dirty' \in DirtyTracker
  BY MarkedTracker DEF StorageTypes, AddComponent
<1>5. UNCHANGED storage
  BY DEF AddComponent
<1>6. StorageTypes'
  BY <1>1, <1>2, <1>3, <1>4, <1>5 DEF StorageTypes, storage
<1>7. \A e \in EntityId : loaded_entities'[e] =
        IF e # x THEN loaded_entities[e]
        ELSE IF loaded_entities[x] = None THEN {u} ELSE loaded_entities[x] \cup {u}
  BY DEF StorageTypes, Lists, AddComponent
<1>8. \A e \in EntityId, t \in ComponentType : loaded_components'[<<e, t>>] =
        IF e = x /\ t = u THEN data ELSE loaded_components[<<e, t>>]
  BY Keys DEF StorageTypes, Data, AddComponent
<1> QED
  BY <1>3, <1>4, <1>5, <1>6, <1>7, <1>8 DEF AddOutcome

RemoveOutcome(x, u) ==
    /\ StorageTypes'
    /\ UNCHANGED storage
    /\ loaded_components[<<x, u>>] # None
    /\ metadata'.next_entity_id = metadata.next_entity_id
    /\ metadata'.entity_ids = metadata.entity_ids
    /\ metadata'.entity_count = metadata.entity_count
    /\ \A e \in EntityId : loaded_entities'[e] =
         IF e # x \/ loaded_entities[e] = None THEN loaded_entities[e]
         ELSE loaded_entities[e] \ {u}
    /\ \A e \in EntityId, t \in ComponentType : loaded_components'[<<e, t>>] =
         IF e = x /\ t = u THEN None ELSE loaded_components[<<e, t>>]
    /\ dirty' = MarkedComponent(x, u)

\* remove_component takes out, unlists and marks one component.
LEMMA RemoveEffects ==
    ASSUME StorageTypes, NEW x \in EntityId, NEW u \in ComponentType, RemoveComponent(x, u)
    PROVE  RemoveOutcome(x, u)
<1>1. loaded_entities' \in Lists
  BY DEF StorageTypes, Lists, RemoveComponent
<1>2. loaded_components' \in Data
  BY DEF StorageTypes, Data, RemoveComponent
<1>3. /\ metadata' \in Metadata
      /\ metadata'.next_entity_id = metadata.next_entity_id
      /\ metadata'.entity_ids = metadata.entity_ids
      /\ metadata'.entity_count = metadata.entity_count
  BY BumpedMetadata DEF StorageTypes, RemoveComponent
<1>4. dirty' = MarkedComponent(x, u) /\ dirty' \in DirtyTracker
  BY MarkedTracker DEF StorageTypes, RemoveComponent
<1>5. UNCHANGED storage /\ loaded_components[<<x, u>>] # None
  BY DEF RemoveComponent
<1>6. StorageTypes'
  BY <1>1, <1>2, <1>3, <1>4, <1>5 DEF StorageTypes, storage
<1>7. \A e \in EntityId : loaded_entities'[e] =
        IF e # x \/ loaded_entities[e] = None THEN loaded_entities[e]
        ELSE loaded_entities[e] \ {u}
  BY DEF StorageTypes, Lists, RemoveComponent
<1>8. \A e \in EntityId, t \in ComponentType : loaded_components'[<<e, t>>] =
        IF e = x /\ t = u THEN None ELSE loaded_components[<<e, t>>]
  BY Keys DEF StorageTypes, Data, RemoveComponent
<1> QED
  BY <1>3, <1>4, <1>5, <1>6, <1>7, <1>8 DEF RemoveOutcome

DespawnOutcome(x) ==
    /\ StorageTypes'
    /\ UNCHANGED storage
    /\ metadata'.next_entity_id = metadata.next_entity_id
    /\ metadata'.entity_ids = metadata.entity_ids \ {x}
    /\ metadata'.entity_count = OneLess(metadata.entity_count)
    /\ \A e \in EntityId : loaded_entities'[e] =
         IF e = x THEN None ELSE loaded_entities[e]
    /\ \A e \in EntityId, t \in ComponentType : loaded_components'[<<e, t>>] =
         IF e = x THEN None ELSE loaded_components[<<e, t>>]
    /\ dirty'.dirty_entities = dirty.dirty_entities
    /\ dirty'.dirty_components = dirty.dirty_components
    /\ dirty'.despawned = dirty.despawned \cup {x}
    /\ dirty'.meta_dirty = TRUE

\* despawn_entity forgets the entity and marks it as despawned.
LEMMA DespawnEffects ==
    ASSUME StorageTypes, NEW x \in EntityId, DespawnEntity(x)
    PROVE  DespawnOutcome(x)
<1>1. metadata \in Metadata /\ metadata.version < U64Max
  BY DEF StorageTypes, DespawnEntity
<1>2. metadata' = DespawnedIn(metadata, x)
  BY DEF DespawnEntity, DespawnedIn, WithDespawned, OneLess
<1>3. loaded_entities' \in Lists
  BY DEF StorageTypes, Lists, DespawnEntity
<1>4. loaded_components' \in Data
  BY DEF StorageTypes, Data, DespawnEntity
<1>5. /\ dirty' \in DirtyTracker
      /\ dirty'.dirty_entities = dirty.dirty_entities
      /\ dirty'.dirty_components = dirty.dirty_components
      /\ dirty'.despawned = dirty.despawned \cup {x}
      /\ dirty'.meta_dirty = TRUE
  <2>1. dirty' = [dirty EXCEPT !.despawned = @ \cup {x}, !.meta_dirty = TRUE]
    BY DEF DespawnEntity
  <2>2. dirty \in DirtyTracker
    BY DEF StorageTypes
  <2> QED
    BY <2>1, <2>2, Zenon DEF DirtyTracker
<1>6. UNCHANGED storage
  BY DEF DespawnEntity
<1>7. \A e \in EntityId : loaded_entities'[e] = IF e = x THEN None ELSE loaded_entities[e]
  BY DEF StorageTypes, Lists, DespawnEntity
<1>8. \A e \in EntityId, t \in ComponentType : loaded_components'[<<e, t>>] =
        IF e = x THEN None ELSE loaded_components[<<e, t>>]
  BY Keys DEF StorageTypes, Data, DespawnEntity
<1>9. /\ metadata' \in Metadata
      /\ metadata'.next_entity_id = metadata.next_entity_id
      /\ metadata'.entity_ids = metadata.entity_ids \ {x}
      /\ metadata'.entity_count = OneLess(metadata.entity_count)
  BY <1>1, <1>2, DespawnedMetadata
<1>10. StorageTypes'
  BY <1>3, <1>4, <1>5, <1>6, <1>9 DEF StorageTypes, storage
<1> QED
  BY <1>5, <1>6, <1>7, <1>8, <1>9, <1>10 DEF DespawnOutcome

\* What a flush leaves stored for an entity.
FlushedList(e) ==
    CASE e \in dirty.despawned -> None
      [] e \notin dirty.despawned /\ e \in dirty.dirty_entities
           /\ loaded_entities[e] # None -> loaded_entities[e]
      [] OTHER -> stored_entities[e]

FlushOutcome ==
    /\ StorageTypes' /\ IsDirty
    /\ UNCHANGED <<metadata, loaded_entities, loaded_components>>
    /\ stored_metadata' = IF dirty.meta_dirty THEN metadata ELSE stored_metadata
    /\ \A e \in EntityId : stored_entities'[e] = FlushedList(e)
    /\ \A e \in EntityId, t \in ComponentType :
         e \notin dirty.despawned =>
            stored_components'[<<e, t>>] =
              IF <<e, t>> \in dirty.dirty_components
                 /\ loaded_components[<<e, t>>] # None
              THEN loaded_components[<<e, t>>] ELSE stored_components[<<e, t>>]
    /\ dirty' = Clean

\* flush writes what is marked and clears the marks.
LEMMA FlushEffects ==
    ASSUME StorageTypes, Flush
    PROVE  FlushOutcome
<1>1. WrittenLists \in Lists
  BY DEF WrittenLists, StorageTypes, Lists
<1>2. WrittenComponents \in Data
  BY DEF WrittenComponents, StorageTypes, Data
<1>3. stored_entities' \in Lists
  BY <1>1 DEF Flush, Lists
<1>4. stored_components' \in Data
  BY <1>2 DEF Flush, Data
<1>5. stored_metadata' = IF dirty.meta_dirty THEN metadata ELSE stored_metadata
  BY DEF Flush
<1>6. stored_metadata' \in Metadata \cup {None}
  BY <1>5 DEF StorageTypes
<1>7. UNCHANGED <<metadata, loaded_entities, loaded_components>> /\ dirty' = Clean
  BY DEF Flush
<1>8. StorageTypes'
  BY <1>3, <1>4, <1>6, <1>7, CleanTracker DEF StorageTypes
<1>9. \A e \in EntityId : stored_entities'[e] = FlushedList(e)
  BY DEF Flush, WrittenLists, FlushedList
<1>10. ASSUME NEW e \in EntityId, NEW t \in ComponentType, e \notin dirty.despawned
       PROVE  stored_components'[<<e, t>>] =
                IF <<e, t>> \in dirty.dirty_components /\ loaded_components[<<e, t>>] # None
                THEN loaded_components[<<e, t>>] ELSE stored_components[<<e, t>>]
  <2>1. stored_components'[<<e, t>>] = WrittenComponents[<<e, t>>]
    BY <1>10, Keys DEF Flush
  <2>2. WrittenComponents[<<e, t>>] =
          IF <<e, t>> \in dirty.dirty_components /\ loaded_components[<<e, t>>] # None
          THEN loaded_components[<<e, t>>] ELSE stored_components[<<e, t>>]
    BY <1>10, Keys DEF WrittenComponents
  <2> QED
    BY <2>1, <2>2
<1> QED
  BY <1>5, <1>7, <1>8, <1>9, <1>10 DEF Flush, FlushOutcome

TakenBack(w, ids) ==
    /\ StorageTypes'
    /\ UNCHANGED storage
    /\ metadata'.next_entity_id = w.next_entity_id
    /\ metadata'.entity_ids = ids
    /\ metadata'.entity_count = Cardinality(ids)
    /\ \A e \in EntityId : loaded_entities'[e] =
         IF e \in ids THEN w.entity_components[e] ELSE None
    /\ \A e \in EntityId, t \in ComponentType : loaded_components'[<<e, t>>] =
         IF t \in w.entity_components[e] THEN GetComponent(w, e, t) ELSE None
    /\ dirty'.dirty_entities = ids
    /\ dirty'.dirty_components = {k \in Key : loaded_components'[k] # None}
    /\ dirty'.despawned = {}
    /\ dirty'.meta_dirty = TRUE

SystemOutcome(w) ==
    /\ TakenBack(w, KeysAfter(w))
    /\ metadata'.next_entity_id = metadata.next_entity_id

\* What a system that spawns or despawns makes of the memory: some loaded entities
\* come back, and no id that was handed out is handed out again.
PartlyTakenBack(w, ids) ==
    /\ TakenBack(w, ids)
    /\ metadata.next_entity_id =< metadata'.next_entity_id
    /\ \A e \in EntityId : w.entity_components[e] # {} => e \in ids

\* from_simple_world replaces the memory and marks all of it.
LEMMA SystemEffects ==
    ASSUME StorageTypes, NEW w \in SimpleWorlds, NEW ids \in SUBSET EntityId,
           RunSystem(w, ids)
    PROVE  TakenBack(w, ids)
<1>2. /\ w.entity_components \in [EntityId -> SUBSET ComponentType]
      /\ w.components \in Data /\ w.sparse_components \in Data
      /\ w.version \in 0..U64Max
      /\ w.next_entity_id \in EntityId
  BY DEF SimpleWorlds, Data
<1>4. Cardinality(ids) \in Nat
  BY IdsAreFinite
<1>5. /\ metadata' = [next_entity_id |-> w.next_entity_id, version |-> w.version,
                      entity_count |-> Cardinality(ids), entity_ids |-> ids]
      /\ loaded_entities' =
           [e \in EntityId |-> IF e \in ids THEN w.entity_components[e] ELSE None]
      /\ loaded_components' =
           [k \in Key |-> IF k[2] \in w.entity_components[k[1]]
                          THEN GetComponent(w, k[1], k[2]) ELSE None]
      /\ dirty' =
           [dirty_entities |-> ids, new_entities |-> ids, despawned |-> {},
            dirty_components |-> {k \in Key : loaded_components'[k] # None},
            meta_dirty |-> TRUE]
      /\ UNCHANGED storage
  BY Zenon DEF RunSystem, FromSimpleWorld
<1>6. metadata' \in Metadata
  BY <1>2, <1>4, <1>5 DEF Metadata
<1>7. loaded_entities' \in Lists
  BY <1>2, <1>5 DEF Lists
<1>8. \A k \in Key : GetComponent(w, k[1], k[2]) \in Bytes \cup {None}
  BY <1>2 DEF GetComponent, Data, Key
<1>9. loaded_components' \in Data
  BY <1>5, <1>8 DEF Data
<1>10. dirty' \in DirtyTracker
  <2>1. {k \in Key : loaded_components'[k] # None} \in SUBSET Key
    OBVIOUS
  <2> DEFINE marked == {k \in Key : loaded_components'[k] # None}
  <2> HIDE DEF marked
  <2>2. dirty' = [dirty_entities |-> ids, new_entities |-> ids, despawned |-> {},
                  dirty_components |-> marked, meta_dirty |-> TRUE]
    BY <1>5 DEF marked
  <2> QED
    BY <2>1, <2>2 DEF DirtyTracker, marked
<1>11. StorageTypes'
  BY <1>5, <1>6, <1>7, <1>9, <1>10 DEF StorageTypes, storage
<1>12. \A e \in EntityId : loaded_entities'[e] =
         IF e \in ids THEN w.entity_components[e] ELSE None
  BY <1>5
<1>13. \A e \in EntityId, t \in ComponentType : loaded_components'[<<e, t>>] =
         IF t \in w.entity_components[e] THEN GetComponent(w, e, t) ELSE None
  BY <1>5, Keys
<1>14. /\ metadata'.next_entity_id = w.next_entity_id
       /\ metadata'.entity_ids = ids
       /\ metadata'.entity_count = Cardinality(ids)
  BY <1>5
<1>15. /\ dirty'.dirty_entities = ids
       /\ dirty'.dirty_components = {k \in Key : loaded_components'[k] # None}
       /\ dirty'.despawned = {}
       /\ dirty'.meta_dirty = TRUE
  BY <1>5, Zenon
<1> QED
  BY <1>5, <1>11, <1>12, <1>13, <1>14, <1>15 DEF TakenBack

\* A system that adds or removes hands out no id.
LEMMA ChangingSystemEffects ==
    ASSUME StorageTypes, NEW w \in LeftBySystem, RunSystem(w, KeysAfter(w))
    PROVE  SystemOutcome(w)
<1>1. w \in SimpleWorlds /\ w.next_entity_id = metadata.next_entity_id
  BY LeftWorlds
<1>2. KeysAfter(w) \in SUBSET EntityId
  BY DEF KeysAfter
<1>3. TakenBack(w, KeysAfter(w))
  BY <1>1, <1>2, SystemEffects
<1> QED
  BY <1>1, <1>3 DEF SystemOutcome, TakenBack

\* A system that spawns, or despawns an entity, loses that entity.
LEMMA ForgettingSystemEffects ==
    ASSUME StorageTypes
    PROVE  /\ RunSpawningSystem =>
                /\ SpawnedWorld(ToSimpleWorld) \in SimpleWorlds
                /\ PartlyTakenBack(SpawnedWorld(ToSimpleWorld), Loaded)
           /\ \A x \in EntityId : RunDespawningSystem(x) =>
                /\ DespawnedEntity(ToSimpleWorld, x) \in SimpleWorlds
                /\ PartlyTakenBack(DespawnedEntity(ToSimpleWorld, x), Loaded \ {x})
<1>1. /\ ToSimpleWorld \in SimpleWorlds
      /\ ToSimpleWorld.next_entity_id = metadata.next_entity_id
      /\ \A e \in EntityId : ToSimpleWorld.entity_components[e] # {} => e \in Loaded
  BY ConvertedWorld DEF Loaded
<1>2. metadata.next_entity_id \in 1..U32Max /\ U32Max \in Nat
  BY BoundsAssumption DEF StorageTypes, Metadata, EntityId
<1>3. Loaded \in SUBSET EntityId
  BY DEF Loaded
<1> DEFINE world == ToSimpleWorld
<1>4. world \in SimpleWorlds
  BY <1>1
<1>5. ASSUME RunSpawningSystem
      PROVE  /\ SpawnedWorld(world) \in SimpleWorlds
             /\ PartlyTakenBack(SpawnedWorld(world), Loaded)
  <2>1. world.next_entity_id < U32Max /\ RunSystem(SpawnedWorld(world), Loaded)
    BY <1>5 DEF RunSpawningSystem, CanSpawn
  <2> HIDE DEF world
  <2>2. /\ SpawnedWorld(world) \in SimpleWorlds
        /\ SpawnedWorld(world).next_entity_id = world.next_entity_id + 1
        /\ SpawnedWorld(world).entity_components = world.entity_components
    BY <1>2, <1>4, <2>1 DEF SpawnedWorld, SimpleWorlds, EntityId
  <2>3. TakenBack(SpawnedWorld(world), Loaded)
    BY <1>3, <2>1, <2>2, SystemEffects
  <2> QED
    BY <1>1, <1>2, <2>2, <2>3 DEF PartlyTakenBack, TakenBack, world
<1>6. ASSUME NEW x \in EntityId, RunDespawningSystem(x)
      PROVE  /\ DespawnedEntity(world, x) \in SimpleWorlds
             /\ PartlyTakenBack(DespawnedEntity(world, x), Loaded \ {x})
  <2>1. CanBump(world) /\ RunSystem(DespawnedEntity(world, x), Loaded \ {x})
    BY <1>6 DEF RunDespawningSystem
  <2> HIDE DEF world
  <2>2. /\ DespawnedEntity(world, x) \in SimpleWorlds
        /\ DespawnedEntity(world, x).next_entity_id = world.next_entity_id
        /\ DespawnedEntity(world, x).entity_components =
              [world.entity_components EXCEPT ![x] = {}]
    BY <1>4, <2>1, DespawnedFields
  <2>3. TakenBack(DespawnedEntity(world, x), Loaded \ {x})
    BY <1>3, <2>1, <2>2, SystemEffects
  <2>4. \A e \in EntityId : DespawnedEntity(world, x).entity_components[e] # {} =>
           e \in Loaded \ {x}
    BY <1>1, <1>4, <2>2 DEF SimpleWorlds, world
  <2> QED
    BY <1>1, <1>2, <2>2, <2>3, <2>4 DEF PartlyTakenBack, TakenBack, world
<1> QED
  BY <1>5, <1>6

\* So every step has one of these outcomes.
LEMMA NextOutcomes ==
    ASSUME StorageTypes, Next
    PROVE  \/ RestartOutcome /\ Kept(TRUE) /\ Buried(buried)
           \/ SpawnOutcome /\ Kept(TRUE) /\ Buried(buried)
           \/ FlushOutcome /\ Kept(TRUE) /\ Buried(buried \cup dirty.despawned)
           \/ \E w \in LeftBySystem :
                /\ SystemOutcome(w)
                /\ Kept(/\ Loaded = metadata.entity_ids
                        /\ dirty.despawned = {}
                        /\ KeysAfter(w) = Loaded)
                /\ Buried(buried \ KeysAfter(w))
           \/ \E w \in SimpleWorlds, ids \in SUBSET Loaded :
                PartlyTakenBack(w, ids) /\ Kept(FALSE) /\ Buried(buried \ ids)
           \/ \E x \in Allocated :
                LoadOutcome(x) /\ Kept(x \in metadata.entity_ids) /\ Buried(buried)
           \/ \E x \in Allocated :
                DespawnOutcome(x) /\ Kept(x \in metadata.entity_ids) /\ Buried(buried)
           \/ \E x \in Allocated, u \in ComponentType :
                /\ RemoveOutcome(x, u)
                /\ Kept(x \in metadata.entity_ids /\ loaded_entities[x] # None)
                /\ Buried(buried \ {x})
           \/ \E x \in Allocated, u \in ComponentType, data \in Bytes :
                /\ AddOutcome(x, u, data)
                /\ Kept(x \in metadata.entity_ids /\ loaded_entities[x] # None)
                /\ Buried(buried \ {x})
<1>1. NewInvocation => RestartOutcome
  BY NewInvocationEffects
<1>2. SpawnEntity => SpawnOutcome
  BY SpawnEffects
<1>3. Flush => FlushOutcome
  BY FlushEffects
<1>4. ASSUME NEW w \in LeftBySystem, RunSystem(w, KeysAfter(w))
      PROVE  SystemOutcome(w)
  BY <1>4, ChangingSystemEffects
<1>5. ASSUME NEW x \in Allocated, LoadEntity(x)
      PROVE  LoadOutcome(x)
  BY <1>5, LoadEffects, AllocatedIds
<1>6. ASSUME NEW x \in Allocated, DespawnEntity(x)
      PROVE  DespawnOutcome(x)
  BY <1>6, DespawnEffects, AllocatedIds
<1>7. ASSUME NEW x \in Allocated, NEW u \in ComponentType, RemoveComponent(x, u)
      PROVE  RemoveOutcome(x, u)
  BY <1>7, RemoveEffects, AllocatedIds
<1>8. ASSUME NEW x \in Allocated, NEW u \in ComponentType, NEW data \in Bytes,
             AddComponent(x, u, data)
      PROVE  AddOutcome(x, u, data)
  BY <1>8, AddEffects, AllocatedIds
<1>9. ASSUME RunSpawningSystem, Buried(buried \ Loaded)
      PROVE  \E w \in SimpleWorlds, ids \in SUBSET Loaded :
                PartlyTakenBack(w, ids) /\ Buried(buried \ ids)
  BY <1>9, ForgettingSystemEffects
<1>10. ASSUME NEW x \in Allocated, RunDespawningSystem(x), Buried(buried \ (Loaded \ {x}))
       PROVE  \E w \in SimpleWorlds, ids \in SUBSET Loaded :
                 PartlyTakenBack(w, ids) /\ Buried(buried \ ids)
  <2>1. Loaded \ {x} \in SUBSET Loaded
    OBVIOUS
  <2> QED
    BY <1>10, <2>1, ForgettingSystemEffects, AllocatedIds, Zenon
<1> QED
  BY <1>1, <1>2, <1>3, <1>4, <1>5, <1>6, <1>7, <1>8, <1>9, <1>10, NextCases, Zenon

-----------------------------------------------------------------------------
(* Loaded data is listed *)

\* The entities that come back from a system were loaded before.
LEMMA SystemKeys ==
    ASSUME StorageTypes, NEW w \in LeftBySystem
    PROVE  /\ \A e \in EntityId : w.entity_components[e] # {} => e \in KeysAfter(w)
           /\ KeysAfter(w) \subseteq Loaded
<1>1. \A e \in EntityId : w.entity_components[e] # {} => e \in KeysAfter(w)
  BY DEF KeysAfter
<1>2. ASSUME NEW e \in EntityId, w.entity_components[e] # {}
      PROVE  e \in Loaded
  <2>1. /\ ToSimpleWorld \in SimpleWorlds
        /\ ToSimpleWorld.entity_components[e] # {} => e \in Loaded
    BY ConvertedWorld DEF Loaded
  <2>2. CASE w = ToSimpleWorld
    BY <1>2, <2>1, <2>2
  <2>3. ASSUME CanBump(ToSimpleWorld),
               NEW x \in Loaded, NEW t \in ComponentType, NEW data \in Bytes,
               NEW kind \in ComponentStorage,
               w = AddedComponent(ToSimpleWorld, x, t, data, kind)
        PROVE  e \in Loaded
    <3>1. x \in EntityId
      BY DEF Loaded
    <3>2. e # x => AddedComponent(ToSimpleWorld, x, t, data, kind).entity_components[e] =
                     ToSimpleWorld.entity_components[e]
      BY <2>1, <2>3, <3>1, AddedElsewhere
    <3> QED
      BY <1>2, <2>1, <2>3, <3>1, <3>2
  <2>4. ASSUME CanBump(ToSimpleWorld), NEW x \in Loaded, NEW t \in ComponentType,
               w = RemovedComponent(ToSimpleWorld, x, t)
        PROVE  e \in Loaded
    <3>1. x \in EntityId
      BY DEF Loaded
    <3>2. \/ w.entity_components = ToSimpleWorld.entity_components
          \/ w.entity_components = [ToSimpleWorld.entity_components EXCEPT
                ![x] = ToSimpleWorld.entity_components[x] \ {t}]
      BY <2>1, <2>4, <3>1, RemovedFields
    <3> QED
      BY <1>2, <2>1, <3>1, <3>2 DEF SimpleWorlds
  <2> QED
    BY <2>2, <2>3, <2>4, LeftCases
<1>3. ASSUME NEW e \in EntityId, loaded_entities[e] = {}
      PROVE  e \in Loaded
  BY <1>3, ListsAreNotNone DEF Loaded
<1> QED
  BY <1>1, <1>2, <1>3 DEF KeysAfter

\* Ids that were not handed out are not loaded: a spawn empties no list.
LoadedIsAllocated == \A e \in EntityId : loaded_entities[e] # None => e < metadata.next_entity_id

ListedInv == StorageTypes /\ LoadedIsAllocated /\ LoadedDataIsListed

\* Listed data stays loaded, whatever a contract calls.
LEMMA ListedHolds == Spec => []ListedInv
<1>1. Init => ListedInv
  <2> SUFFICES ASSUME Init PROVE ListedInv
    OBVIOUS
  <2>1. StorageTypes
    BY FreshIsMetadata, CleanTracker DEF Init, StorageTypes, Lists, Data
  <2>2. LoadedDataIsListed /\ LoadedIsAllocated
    BY Keys DEF Init, LoadedDataIsListed, LoadedIsAllocated
  <2> QED
    BY <2>1, <2>2 DEF ListedInv
<1>2. ListedInv /\ [Next]_vars => ListedInv'
  <2> SUFFICES ASSUME ListedInv, [Next]_vars PROVE ListedInv'
    OBVIOUS
  <2> USE DEF ListedInv, LoadedDataIsListed, LoadedIsAllocated
  <2>1. CASE RestartOutcome
    BY <2>1 DEF RestartOutcome
  <2>2. CASE SpawnOutcome
    <3>1. metadata.next_entity_id \in Int
      BY DEF StorageTypes, Metadata, EntityId
    <3>2. LoadedIsAllocated'
      BY <2>2, <3>1 DEF SpawnOutcome, EntityId
    <3>3. LoadedDataIsListed'
      BY <2>2, <3>1 DEF SpawnOutcome
    <3> QED
      BY <2>2, <3>2, <3>3 DEF SpawnOutcome
  <2>3. CASE FlushOutcome
    BY <2>3 DEF FlushOutcome
  <2>4. ASSUME NEW w \in LeftBySystem, SystemOutcome(w)
        PROVE  ListedInv'
    <3>1. \A e \in EntityId : w.entity_components[e] \in SUBSET ComponentType
      BY LeftWorlds DEF SimpleWorlds
    <3>2. /\ \A e \in EntityId : w.entity_components[e] # {} => e \in KeysAfter(w)
          /\ \A e \in KeysAfter(w) : loaded_entities[e] # None
      BY SystemKeys DEF Loaded
    <3>3. LoadedDataIsListed'
      BY <2>4, <3>1, <3>2, ListsAreNotNone DEF SystemOutcome, TakenBack
    <3>4. LoadedIsAllocated'
      BY <2>4, <3>2 DEF SystemOutcome, TakenBack
    <3> QED
      BY <2>4, <3>3, <3>4 DEF SystemOutcome, TakenBack
  <2>5. ASSUME NEW x \in Allocated, LoadOutcome(x)
        PROVE  ListedInv'
    <3>1. x \in EntityId /\ x < metadata.next_entity_id
      BY DEF Allocated
    <3>2. LoadedDataIsListed'
      BY <2>5, <3>1 DEF LoadOutcome
    <3>3. LoadedIsAllocated'
      BY <2>5, <3>1 DEF LoadOutcome
    <3> QED
      BY <2>5, <3>2, <3>3 DEF LoadOutcome
  <2>6. ASSUME NEW x \in Allocated, DespawnOutcome(x)
        PROVE  ListedInv'
    BY <2>6 DEF DespawnOutcome
  <2>7. ASSUME NEW x \in Allocated, NEW u \in ComponentType, RemoveOutcome(x, u)
        PROVE  ListedInv'
    <3>1. \A e \in EntityId : loaded_entities[e] # None =>
            loaded_entities[e] \ {u} \in SUBSET ComponentType
      BY DEF StorageTypes, Lists
    <3>2. \A e \in EntityId : loaded_entities[e] # None => loaded_entities'[e] # None
      BY <2>7, <3>1, ListsAreNotNone DEF RemoveOutcome
    <3>3. LoadedDataIsListed'
      BY <2>7, <3>2 DEF RemoveOutcome
    <3>4. LoadedIsAllocated'
      BY <2>7 DEF RemoveOutcome
    <3> QED
      BY <2>7, <3>3, <3>4 DEF RemoveOutcome
  <2>8. ASSUME NEW x \in Allocated, NEW u \in ComponentType, NEW data \in Bytes,
               AddOutcome(x, u, data)
        PROVE  ListedInv'
    <3>1. x \in EntityId /\ x < metadata.next_entity_id
      BY DEF Allocated
    <3>2. loaded_entities'[x] # None /\ u \in loaded_entities'[x]
      BY <2>8, <3>1, ListsAreNotNone DEF StorageTypes, Lists, AddOutcome
    <3>3. LoadedDataIsListed'
      BY <2>8, <3>1, <3>2 DEF AddOutcome
    <3>4. LoadedIsAllocated'
      BY <2>8, <3>1, <3>2 DEF AddOutcome
    <3> QED
      BY <2>8, <3>3, <3>4 DEF AddOutcome
  <2>9. ASSUME NEW w \in SimpleWorlds, NEW ids \in SUBSET Loaded, PartlyTakenBack(w, ids)
        PROVE  ListedInv'
    <3>1. \A e \in EntityId : w.entity_components[e] \in SUBSET ComponentType
      BY DEF SimpleWorlds
    <3>2. \A e \in ids : e \in EntityId /\ loaded_entities[e] # None
      BY DEF Loaded
    <3>3. LoadedDataIsListed'
      BY <2>9, <3>1, <3>2, ListsAreNotNone DEF PartlyTakenBack, TakenBack
    <3>4. LoadedIsAllocated'
      <4>1. /\ metadata.next_entity_id \in Int /\ metadata'.next_entity_id \in Int
            /\ metadata.next_entity_id =< metadata'.next_entity_id
        BY <2>9 DEF PartlyTakenBack, TakenBack, StorageTypes, Metadata, EntityId
      <4>2. \A e \in EntityId : loaded_entities'[e] # None => e \in ids
        BY <2>9 DEF PartlyTakenBack, TakenBack
      <4> QED
        BY <3>2, <4>1, <4>2 DEF EntityId
    <3> QED
      BY <2>9, <3>3, <3>4 DEF PartlyTakenBack, TakenBack
  <2>10. CASE UNCHANGED vars
    BY <2>10 DEF vars, storage, memory, StorageTypes
  <2> QED
    BY <2>1, <2>2, <2>3, <2>4, <2>5, <2>6, <2>7, <2>8, <2>9, <2>10, NextOutcomes
<1> QED
  BY <1>1, <1>2, PTL DEF Spec

\* Whatever a contract calls, and in any invocation, data in memory belongs to
\* a loaded entity whose list names its type.
THEOREM LoadedIsListed == Spec => []LoadedDataIsListed
<1>1. ListedInv => LoadedDataIsListed
  BY DEF ListedInv
<1> QED
  BY <1>1, ListedHolds, PTL

-----------------------------------------------------------------------------
(* The loading rule *)

Sound(m) ==
    /\ m.entity_count = Cardinality(m.entity_ids)
    /\ \A e \in m.entity_ids : e < m.next_entity_id

LoadedIsLive == \A e \in EntityId : loaded_entities[e] # None => e \in metadata.entity_ids

DespawnedIsDead ==
    \A e \in dirty.despawned : e \notin metadata.entity_ids /\ e < metadata.next_entity_id

\* Storage holds the entities of its metadata; only unflushed despawns are behind.
StorageIsLive ==
    /\ \A e \in EntityId : stored_entities[e] # None => e \in StoredMetadata.entity_ids
    /\ \A e \in StoredMetadata.entity_ids :
         e \in metadata.entity_ids \/ e \in dirty.despawned

ListedIsPresent ==
    \A e \in EntityId, t \in ComponentType :
        loaded_entities[e] # None /\ t \in loaded_entities[e] =>
            loaded_components[<<e, t>>] # None

StoredIsPresent ==
    \A e \in EntityId, t \in ComponentType :
        stored_entities[e] # None /\ t \in stored_entities[e] =>
            stored_components[<<e, t>>] # None

\* What is not marked is as it is stored.
UnmarkedIsStored ==
    \A e \in EntityId :
        loaded_entities[e] # None =>
            /\ e \notin dirty.dirty_entities => loaded_entities[e] = stored_entities[e]
            /\ \A t \in ComponentType :
                 t \in loaded_entities[e] /\ <<e, t>> \notin dirty.dirty_components =>
                     loaded_components[<<e, t>>] = stored_components[<<e, t>>]

RuleFacts ==
    /\ Sound(metadata) /\ Sound(StoredMetadata)
    /\ LoadedIsLive
    /\ DespawnedIsDead
    /\ StorageIsLive
    /\ ListedIsPresent
    /\ StoredIsPresent
    /\ UnmarkedIsStored

\* Every mark comes with the one that makes a flush write the metadata.
MarksMetadata == IsDirty => dirty.meta_dirty

\* The stored metadata is part of the storage.
LEMMA StoredMetadataKept == UNCHANGED storage => UNCHANGED StoredMetadata
  BY DEF storage, StoredMetadata

\* A new invocation starts from what storage holds.
LEMMA RestartKeepsRule ==
    ASSUME ListedInv, RuleFacts, RestartOutcome
    PROVE  RuleFacts'
<1>1. /\ UNCHANGED storage /\ UNCHANGED StoredMetadata
      /\ metadata' = StoredMetadata
      /\ \A e \in EntityId : loaded_entities'[e] = None
      /\ dirty' = Clean
  BY StoredMetadataKept DEF RestartOutcome
<1>2. Sound(metadata)' /\ Sound(StoredMetadata)'
  BY <1>1 DEF RuleFacts, Sound
<1>3. LoadedIsLive' /\ ListedIsPresent' /\ UnmarkedIsStored'
  BY <1>1 DEF LoadedIsLive, ListedIsPresent, UnmarkedIsStored
<1>4. DespawnedIsDead' /\ StorageIsLive'
  BY <1>1, CleanTracker DEF RuleFacts, storage, DespawnedIsDead, StorageIsLive
<1>5. StoredIsPresent'
  BY <1>1 DEF RuleFacts, storage, StoredIsPresent
<1> QED
  BY <1>2, <1>3, <1>4, <1>5 DEF RuleFacts

\* A spawned id is new to memory and storage.
LEMMA SpawnKeepsRule ==
    ASSUME ListedInv, RuleFacts, SpawnOutcome
    PROVE  RuleFacts'
<1> DEFINE id == metadata.next_entity_id
<1>1. /\ metadata \in Metadata /\ id \in EntityId /\ id \in Int
      /\ metadata.entity_ids \subseteq EntityId
      /\ UNCHANGED StoredMetadata
  BY StoredMetadataKept DEF SpawnOutcome, ListedInv, StorageTypes, Metadata, EntityId
<1>2. id \notin metadata.entity_ids
  BY <1>1 DEF RuleFacts, Sound
<1>3. Sound(metadata)'
  <2>1. IsFiniteSet(metadata.entity_ids)
    BY <1>1, IdsAreFinite
  <2>2. Cardinality(metadata.entity_ids \cup {id}) = Cardinality(metadata.entity_ids) + 1
    BY <1>2, <2>1, FS_AddElement
  <2>3. /\ metadata'.entity_ids = metadata.entity_ids \cup {id}
        /\ metadata'.entity_count = metadata.entity_count + 1
        /\ metadata'.next_entity_id = id + 1
    BY DEF SpawnOutcome
  <2>4. \A e \in metadata.entity_ids \cup {id} : e < id + 1
    BY <1>1 DEF RuleFacts, Sound, EntityId
  <2> QED
    BY <2>2, <2>3, <2>4 DEF RuleFacts, Sound
<1>4. Sound(StoredMetadata)'
  BY <1>1 DEF RuleFacts, Sound
<1>5. LoadedIsLive'
  BY DEF RuleFacts, SpawnOutcome, LoadedIsLive
<1>6. DespawnedIsDead'
  <2>1. dirty.despawned \subseteq EntityId
    BY DEF ListedInv, StorageTypes, DirtyTracker
  <2> QED
    BY <1>1, <2>1 DEF RuleFacts, SpawnOutcome, DespawnedIsDead, EntityId
<1>7. StorageIsLive'
  BY <1>1 DEF RuleFacts, SpawnOutcome, StorageIsLive, storage
<1>8. ListedIsPresent'
  BY DEF RuleFacts, SpawnOutcome, ListedIsPresent
<1>9. StoredIsPresent'
  BY DEF RuleFacts, SpawnOutcome, StoredIsPresent, storage
<1>10. UnmarkedIsStored'
  BY <1>1 DEF RuleFacts, SpawnOutcome, UnmarkedIsStored, storage
<1> QED
  BY <1>3, <1>4, <1>5, <1>6, <1>7, <1>8, <1>9, <1>10 DEF RuleFacts

\* A loaded entity reads as it is stored.
LEMMA LoadKeepsRule ==
    ASSUME ListedInv, RuleFacts, NEW x \in EntityId, LoadOutcome(x), x \in metadata.entity_ids
    PROVE  RuleFacts'
<1>1. UNCHANGED storage /\ UNCHANGED StoredMetadata /\ UNCHANGED <<metadata, dirty>>
  BY StoredMetadataKept DEF LoadOutcome
<1>2. Sound(metadata)' /\ Sound(StoredMetadata)' /\ DespawnedIsDead'
  BY <1>1 DEF RuleFacts, Sound, DespawnedIsDead
<1>3. LoadedIsLive'
  BY DEF RuleFacts, LoadOutcome, LoadedIsLive
<1>4. StorageIsLive' /\ StoredIsPresent'
  BY <1>1 DEF RuleFacts, StorageIsLive, StoredIsPresent, storage
<1>5. ListedIsPresent'
  BY DEF RuleFacts, LoadOutcome, ListedIsPresent, StoredIsPresent
<1>6. UnmarkedIsStored'
  BY DEF RuleFacts, LoadOutcome, UnmarkedIsStored, StoredIsPresent, storage
<1> QED
  BY <1>2, <1>3, <1>4, <1>5, <1>6 DEF RuleFacts

\* A despawned live entity is gone from memory and marked.
LEMMA DespawnKeepsRule ==
    ASSUME ListedInv, RuleFacts, NEW x \in EntityId, DespawnOutcome(x),
           x \in metadata.entity_ids
    PROVE  RuleFacts'
<1>1. UNCHANGED storage /\ UNCHANGED StoredMetadata
  BY StoredMetadataKept DEF DespawnOutcome
<1>2. Sound(metadata)'
  <2>1. metadata.entity_ids \subseteq EntityId /\ metadata.entity_count \in Nat
    BY DEF ListedInv, StorageTypes, Metadata
  <2>2. IsFiniteSet(metadata.entity_ids)
    BY <2>1, IdsAreFinite
  <2>3. Cardinality(metadata.entity_ids \ {x}) = Cardinality(metadata.entity_ids) - 1
    BY <2>2, FS_RemoveElement
  <2>4. Cardinality(metadata.entity_ids \ {x}) \in Nat
    BY <2>1, IdsAreFinite
  <2>5. /\ metadata'.entity_ids = metadata.entity_ids \ {x}
        /\ metadata'.entity_count = OneLess(metadata.entity_count)
        /\ metadata'.next_entity_id = metadata.next_entity_id
    BY DEF DespawnOutcome
  <2>6. metadata'.entity_count = Cardinality(metadata.entity_ids \ {x})
    BY <2>1, <2>3, <2>4, <2>5 DEF RuleFacts, Sound, OneLess
  <2> QED
    BY <2>5, <2>6 DEF RuleFacts, Sound
<1>3. Sound(StoredMetadata)'
  BY <1>1 DEF RuleFacts, Sound
<1>4. LoadedIsLive'
  BY DEF RuleFacts, DespawnOutcome, LoadedIsLive
<1>5. DespawnedIsDead'
  BY DEF RuleFacts, DespawnOutcome, DespawnedIsDead, Sound
<1>6. StorageIsLive'
  BY <1>1 DEF RuleFacts, DespawnOutcome, StorageIsLive, storage
<1>7. ListedIsPresent' /\ StoredIsPresent'
  BY <1>1 DEF RuleFacts, DespawnOutcome, ListedIsPresent, StoredIsPresent, storage
<1>8. UnmarkedIsStored'
  BY <1>1 DEF RuleFacts, DespawnOutcome, UnmarkedIsStored, storage
<1> QED
  BY <1>2, <1>3, <1>4, <1>5, <1>6, <1>7, <1>8 DEF RuleFacts

\* add_component and remove_component only touch a loaded, live entity.
LEMMA ChangesKeepRule ==
    ASSUME ListedInv, RuleFacts, NEW x \in EntityId, NEW u \in ComponentType,
           x \in metadata.entity_ids, loaded_entities[x] # None,
           \/ RemoveOutcome(x, u)
           \/ \E data \in Bytes : AddOutcome(x, u, data)
    PROVE  RuleFacts'
<1>1. /\ UNCHANGED storage /\ UNCHANGED StoredMetadata
      /\ metadata'.next_entity_id = metadata.next_entity_id
      /\ metadata'.entity_ids = metadata.entity_ids
      /\ metadata'.entity_count = metadata.entity_count
      /\ dirty' = MarkedComponent(x, u)
  BY StoredMetadataKept DEF RemoveOutcome, AddOutcome
<1>2. /\ dirty'.dirty_entities = dirty.dirty_entities \cup {x}
      /\ dirty'.dirty_components = dirty.dirty_components \cup {<<x, u>>}
      /\ dirty'.despawned = dirty.despawned
  BY <1>1, MarkedTracker DEF ListedInv, StorageTypes
<1>3. Sound(metadata)' /\ Sound(StoredMetadata)'
  BY <1>1 DEF RuleFacts, Sound
<1>4. \A e \in EntityId : e # x =>
        /\ loaded_entities'[e] = loaded_entities[e]
        /\ \A t \in ComponentType : loaded_components'[<<e, t>>] = loaded_components[<<e, t>>]
  BY DEF RemoveOutcome, AddOutcome
<1>5. \A t \in ComponentType : t # u =>
        /\ t \in loaded_entities'[x] => t \in loaded_entities[x]
        /\ loaded_components'[<<x, t>>] = loaded_components[<<x, t>>]
  BY DEF RemoveOutcome, AddOutcome
<1>6. u \in loaded_entities'[x] => loaded_components'[<<x, u>>] # None
  BY NoneAssumption DEF RemoveOutcome, AddOutcome
<1>7. LoadedIsLive'
  BY <1>1, <1>4 DEF RuleFacts, LoadedIsLive
<1>8. DespawnedIsDead' /\ StorageIsLive' /\ StoredIsPresent'
  BY <1>1, <1>2 DEF RuleFacts, DespawnedIsDead, StorageIsLive, StoredIsPresent, storage
<1>9. ListedIsPresent'
  BY <1>4, <1>5, <1>6 DEF RuleFacts, ListedIsPresent
<1>10. UnmarkedIsStored'
  BY <1>1, <1>2, <1>4, <1>5 DEF RuleFacts, UnmarkedIsStored, storage
<1> QED
  BY <1>3, <1>7, <1>8, <1>9, <1>10 DEF RuleFacts

\* After a flush, storage is what memory was.
LEMMA FlushKeepsRule ==
    ASSUME ListedInv, MarksMetadata, RuleFacts, FlushOutcome
    PROVE  RuleFacts'
<1>1. /\ UNCHANGED <<metadata, loaded_entities, loaded_components>>
      /\ StoredMetadata' = metadata
      /\ dirty' = Clean
  <2>1. dirty.meta_dirty
    BY DEF MarksMetadata, FlushOutcome
  <2>2. stored_metadata' = metadata /\ metadata # None
    BY <2>1, MetadataIsNotNone DEF FlushOutcome, RuleFacts, ListedInv, StorageTypes
  <2> QED
    BY <2>2 DEF FlushOutcome, StoredMetadata
<1>2. Sound(metadata)' /\ Sound(StoredMetadata)'
  BY <1>1 DEF RuleFacts, Sound
<1>3. LoadedIsLive' /\ ListedIsPresent' /\ DespawnedIsDead'
  BY <1>1, CleanTracker DEF RuleFacts, LoadedIsLive, ListedIsPresent, DespawnedIsDead
<1>4. \A e \in EntityId : stored_entities'[e] = FlushedList(e)
  BY DEF FlushOutcome
<1>5. \A e \in EntityId : loaded_entities[e] # None => e \notin dirty.despawned
  BY DEF RuleFacts, LoadedIsLive, DespawnedIsDead
<1>6. StorageIsLive'
  <2>1. ASSUME NEW e \in EntityId, stored_entities'[e] # None
        PROVE  e \in metadata.entity_ids
    <3>1. e \notin dirty.despawned
      BY <1>4, <2>1 DEF FlushedList
    <3>2. loaded_entities[e] # None \/ stored_entities[e] # None
      BY <1>4, <2>1 DEF FlushedList
    <3> QED
      BY <3>1, <3>2 DEF RuleFacts, LoadedIsLive, StorageIsLive
  <2> QED
    BY <1>1, <2>1 DEF StorageIsLive
<1>7. ASSUME NEW e \in EntityId, NEW t \in ComponentType,
             loaded_entities[e] # None, t \in loaded_entities[e]
      PROVE  /\ stored_entities'[e] = loaded_entities[e]
             /\ stored_components'[<<e, t>>] = loaded_components[<<e, t>>]
  <2>1. stored_entities'[e] = loaded_entities[e]
    BY <1>4, <1>5, <1>7 DEF FlushedList, RuleFacts, UnmarkedIsStored
  <2>2. stored_components'[<<e, t>>] =
          IF <<e, t>> \in dirty.dirty_components /\ loaded_components[<<e, t>>] # None
          THEN loaded_components[<<e, t>>] ELSE stored_components[<<e, t>>]
    BY <1>5, <1>7 DEF FlushOutcome
  <2>3. loaded_components[<<e, t>>] # None
    BY <1>7 DEF RuleFacts, ListedIsPresent
  <2>4. <<e, t>> \notin dirty.dirty_components =>
          loaded_components[<<e, t>>] = stored_components[<<e, t>>]
    BY <1>7 DEF RuleFacts, UnmarkedIsStored
  <2> QED
    BY <2>1, <2>2, <2>3, <2>4
<1>8. \A e \in EntityId : loaded_entities[e] # None => stored_entities'[e] = loaded_entities[e]
  BY <1>4, <1>5 DEF FlushedList, RuleFacts, UnmarkedIsStored
<1>9. UnmarkedIsStored'
  BY <1>1, <1>7, <1>8 DEF UnmarkedIsStored
<1>10. StoredIsPresent'
  <2>1. ASSUME NEW e \in EntityId, NEW t \in ComponentType,
               stored_entities'[e] # None, t \in stored_entities'[e]
        PROVE  stored_components'[<<e, t>>] # None
    <3>1. CASE loaded_entities[e] # None
      BY <1>7, <1>8, <2>1, <3>1 DEF RuleFacts, ListedIsPresent
    <3>2. CASE loaded_entities[e] = None
      <4>1. e \notin dirty.despawned /\ stored_entities'[e] = stored_entities[e]
        BY <1>4, <2>1, <3>2 DEF FlushedList
      <4>2. stored_components[<<e, t>>] # None
        BY <2>1, <4>1 DEF RuleFacts, StoredIsPresent
      <4> QED
        BY <4>1, <4>2 DEF FlushOutcome
    <3> QED
      BY <3>1, <3>2
  <2> QED
    BY <2>1 DEF StoredIsPresent
<1> QED
  BY <1>2, <1>3, <1>6, <1>9, <1>10 DEF RuleFacts

-----------------------------------------------------------------------------
(* A system that runs on the converted world under the rule *)

Coherent(w) ==
    \A e \in EntityId, t \in ComponentType :
        t \in w.entity_components[e] <=> HasComponent(w, e, t)

\* Under the rule, the converted world reads as memory does.
LEMMA ConvertedReads ==
    ASSUME ListedInv, RuleFacts
    PROVE  /\ Coherent(ToSimpleWorld)
           /\ \A e \in EntityId, t \in ComponentType :
                GetComponent(ToSimpleWorld, e, t) = loaded_components[<<e, t>>]
<1> DEFINE w == ToSimpleWorld
<1>1. \A e \in EntityId, t \in ComponentType :
        /\ w.sparse_components[<<e, t>>] = None
        /\ w.components[<<e, t>>] = IF loaded_entities[e] # None /\ t \in loaded_entities[e]
                                    THEN loaded_components[<<e, t>>] ELSE None
  BY ConvertedWorld DEF ListedInv
<1>2. \A e \in EntityId : w.entity_components[e] =
        IF loaded_entities[e] = None THEN {} ELSE loaded_entities[e]
  BY ConvertedWorld DEF ListedInv
<1>3. \A e \in EntityId, t \in ComponentType :
        w.components[<<e, t>>] = loaded_components[<<e, t>>]
  BY <1>1 DEF ListedInv, LoadedDataIsListed
<1>4. \A e \in EntityId, t \in ComponentType :
        t \in w.entity_components[e] <=> loaded_components[<<e, t>>] # None
  BY <1>2 DEF ListedInv, LoadedDataIsListed, RuleFacts, ListedIsPresent
<1> HIDE DEF w
<1>5. \A e \in EntityId, t \in ComponentType :
        /\ HasComponent(w, e, t) <=> loaded_components[<<e, t>>] # None
        /\ GetComponent(w, e, t) = loaded_components[<<e, t>>]
  BY <1>1, <1>3 DEF HasComponent, GetComponent, w
<1> QED
  BY <1>4, <1>5 DEF Coherent, w

\* Adding a component keeps list and data of a SimpleWorld together.
LEMMA AddedStaysCoherent ==
    ASSUME NEW w \in SimpleWorlds, CanBump(w), Coherent(w), NEW x \in EntityId,
           NEW u \in ComponentType, NEW data \in Bytes, NEW kind \in ComponentStorage
    PROVE  Coherent(AddedComponent(w, x, u, data, kind))
  BY AddedHas DEF Coherent

\* So does removing one that is not in the sparse map.
LEMMA RemovedStaysCoherent ==
    ASSUME NEW w \in SimpleWorlds, CanBump(w), Coherent(w), NEW x \in EntityId,
           NEW u \in ComponentType, w.sparse_components[<<x, u>>] = None
    PROVE  Coherent(RemovedComponent(w, x, u))
<1> DEFINE v == RemovedComponent(w, x, u)
<1>1. ASSUME NEW f \in EntityId, NEW t \in ComponentType
      PROVE  t \in v.entity_components[f] <=> HasComponent(v, f, t)
  <2>1. (f # x \/ t # u) =>
          /\ HasComponent(v, f, t) <=> HasComponent(w, f, t)
          /\ t \in v.entity_components[f] <=> t \in w.entity_components[f]
    BY RemovedHas
  <2>2. /\ HasComponent(v, x, u) <=>
             w.components[<<x, u>>] # None /\ w.sparse_components[<<x, u>>] # None
        /\ u \in v.entity_components[x] <=>
             u \in w.entity_components[x] /\ ~HasComponent(w, x, u)
    BY RemovedHas
  <2> QED
    BY <2>1, <2>2 DEF Coherent
<1> QED
  BY <1>1 DEF Coherent

\* So the world that a system leaves is coherent.
LEMMA LeftIsCoherent ==
    ASSUME ListedInv, RuleFacts, NEW w \in LeftBySystem
    PROVE  Coherent(w)
<1>1. /\ ToSimpleWorld \in SimpleWorlds
      /\ Coherent(ToSimpleWorld)
      /\ \A e \in EntityId, t \in ComponentType : ToSimpleWorld.sparse_components[<<e, t>>] = None
  BY ConvertedReads, ConvertedWorld DEF ListedInv
<1>2. Loaded \subseteq EntityId
  BY DEF Loaded
<1>3. CASE w = ToSimpleWorld
  BY <1>1, <1>3
<1>4. ASSUME CanBump(ToSimpleWorld), NEW x \in Loaded, NEW u \in ComponentType,
             NEW data \in Bytes, NEW kind \in ComponentStorage,
             w = AddedComponent(ToSimpleWorld, x, u, data, kind)
      PROVE  Coherent(w)
  <2>1. Coherent(AddedComponent(ToSimpleWorld, x, u, data, kind))
    BY <1>1, <1>2, <1>4, AddedStaysCoherent
  <2> QED
    BY <1>4, <2>1
<1>5. ASSUME CanBump(ToSimpleWorld), NEW x \in Loaded, NEW u \in ComponentType,
             w = RemovedComponent(ToSimpleWorld, x, u)
      PROVE  Coherent(w)
  <2>1. Coherent(RemovedComponent(ToSimpleWorld, x, u))
    BY <1>1, <1>2, <1>5, RemovedStaysCoherent
  <2> QED
    BY <1>5, <2>1
<1> QED
  BY <1>3, <1>4, <1>5, LeftCases DEF ListedInv

\* A whole world that comes back is all marked, hence all flushed.
LEMMA SystemKeepsRule ==
    ASSUME ListedInv, RuleFacts, NEW w \in LeftBySystem, SystemOutcome(w),
           Loaded = metadata.entity_ids, dirty.despawned = {}, KeysAfter(w) = Loaded
    PROVE  RuleFacts'
<1>1. /\ UNCHANGED storage /\ UNCHANGED StoredMetadata
      /\ metadata'.next_entity_id = metadata.next_entity_id
      /\ metadata'.entity_ids = metadata.entity_ids
      /\ metadata'.entity_count = Cardinality(metadata.entity_ids)
      /\ dirty'.dirty_entities = metadata.entity_ids
      /\ dirty'.despawned = {}
  BY StoredMetadataKept DEF SystemOutcome, TakenBack
<1>2. \A e \in EntityId : loaded_entities'[e] =
        IF e \in metadata.entity_ids THEN w.entity_components[e] ELSE None
  BY DEF SystemOutcome, TakenBack
<1>3. \A e \in EntityId, t \in ComponentType :
        t \in w.entity_components[e] => loaded_components'[<<e, t>>] # None
  <2>1. w \in SimpleWorlds /\ Coherent(w)
    BY LeftWorlds, LeftIsCoherent DEF ListedInv
  <2>2. \A e \in EntityId, t \in ComponentType :
          t \in w.entity_components[e] => GetComponent(w, e, t) # None
    BY <2>1, GetIsHas DEF Coherent
  <2> QED
    BY <2>2 DEF SystemOutcome, TakenBack
<1>4. Sound(metadata)' /\ Sound(StoredMetadata)'
  BY <1>1 DEF RuleFacts, Sound
<1>5. LoadedIsLive' /\ DespawnedIsDead'
  BY <1>1, <1>2 DEF LoadedIsLive, DespawnedIsDead
<1>6. StorageIsLive' /\ StoredIsPresent'
  BY <1>1 DEF RuleFacts, StorageIsLive, StoredIsPresent, storage
<1>7. ListedIsPresent'
  BY <1>2, <1>3 DEF ListedIsPresent
<1>8. UnmarkedIsStored'
  <2>1. \A e \in EntityId, t \in ComponentType :
          t \in w.entity_components[e] => <<e, t>> \in dirty'.dirty_components
    BY <1>3, Keys DEF SystemOutcome, TakenBack
  <2> QED
    BY <1>1, <1>2, <2>1 DEF UnmarkedIsStored
<1> QED
  BY <1>4, <1>5, <1>6, <1>7, <1>8 DEF RuleFacts

-----------------------------------------------------------------------------
(* The rule is kept by every step that keeps it *)

\* Nothing is marked without the mark for the metadata.
LEMMA MarksHolds ==
    ASSUME StorageTypes, MarksMetadata, [Next]_vars
    PROVE  MarksMetadata'
<1>1. CASE RestartOutcome
  BY <1>1 DEF RestartOutcome, MarksMetadata, IsDirty
<1>2. CASE FlushOutcome
  BY <1>2 DEF FlushOutcome, MarksMetadata, IsDirty
<1>3. CASE SpawnOutcome \/ (\E x \in Allocated : DespawnOutcome(x))
  BY <1>3, Zenon DEF SpawnOutcome, DespawnOutcome, MarksMetadata
<1>4. CASE \E w \in LeftBySystem : SystemOutcome(w)
  BY <1>4, Zenon DEF SystemOutcome, TakenBack, MarksMetadata
<1>5. CASE \E x \in Allocated : LoadOutcome(x)
  BY <1>5 DEF LoadOutcome, MarksMetadata, IsDirty
<1>6. ASSUME NEW x \in Allocated, NEW u \in ComponentType,
             RemoveOutcome(x, u) \/ \E data \in Bytes : AddOutcome(x, u, data)
      PROVE  MarksMetadata'
  <2>1. dirty' = MarkedComponent(x, u) /\ dirty \in DirtyTracker /\ x \in EntityId
    BY <1>6, AllocatedIds, Zenon DEF RemoveOutcome, AddOutcome, StorageTypes
  <2>2. dirty'.meta_dirty = TRUE
    BY <2>1, MarkedTracker
  <2> QED
    BY <2>2, Zenon DEF MarksMetadata
<1>7. CASE \E w \in SimpleWorlds, ids \in SUBSET Loaded : PartlyTakenBack(w, ids)
  BY <1>7, Zenon DEF PartlyTakenBack, TakenBack, MarksMetadata
<1>8. CASE UNCHANGED vars
  BY <1>8 DEF vars, memory, MarksMetadata, IsDirty
<1> QED
  BY <1>1, <1>2, <1>3, <1>4, <1>5, <1>6, <1>7, <1>8, NextOutcomes

\* A step that keeps the rule keeps what rests on it.
LEMMA RuleStep ==
    ASSUME ListedInv, MarksMetadata, by_the_rule => RuleFacts, [Next]_vars, by_the_rule'
    PROVE  by_the_rule /\ RuleFacts'
<1> USE DEF Kept
<1> Allocated \subseteq EntityId
  BY AllocatedIds
<1>1. CASE RestartOutcome /\ Kept(TRUE)
  BY <1>1, RestartKeepsRule
<1>2. CASE SpawnOutcome /\ Kept(TRUE)
  BY <1>2, SpawnKeepsRule
<1>3. CASE FlushOutcome /\ Kept(TRUE)
  BY <1>3, FlushKeepsRule
<1>4. ASSUME NEW w \in LeftBySystem, SystemOutcome(w),
             Kept(/\ Loaded = metadata.entity_ids
                  /\ dirty.despawned = {}
                  /\ KeysAfter(w) = Loaded)
      PROVE  by_the_rule /\ RuleFacts'
  BY <1>4, SystemKeepsRule
<1>5. ASSUME NEW x \in Allocated, LoadOutcome(x), Kept(x \in metadata.entity_ids)
      PROVE  by_the_rule /\ RuleFacts'
  BY <1>5, LoadKeepsRule
<1>6. ASSUME NEW x \in Allocated, DespawnOutcome(x), Kept(x \in metadata.entity_ids)
      PROVE  by_the_rule /\ RuleFacts'
  BY <1>6, DespawnKeepsRule
<1>7. ASSUME NEW x \in Allocated, NEW u \in ComponentType,
             RemoveOutcome(x, u) \/ \E data \in Bytes : AddOutcome(x, u, data),
             Kept(x \in metadata.entity_ids /\ loaded_entities[x] # None)
      PROVE  by_the_rule /\ RuleFacts'
  BY <1>7, ChangesKeepRule
<1>8. CASE UNCHANGED vars
  <2>1. by_the_rule /\ RuleFacts
    BY <1>8 DEF vars
  <2>2. UNCHANGED storage /\ UNCHANGED StoredMetadata
    BY <1>8, StoredMetadataKept DEF vars
  <2> QED
    BY <1>8, <2>1, <2>2 DEF vars, memory, storage, RuleFacts, Sound, LoadedIsLive, DespawnedIsDead,
       StorageIsLive, ListedIsPresent, StoredIsPresent, UnmarkedIsStored
<1>9. StorageTypes
  BY DEF ListedInv
<1> QED
  BY <1>1, <1>2, <1>3, <1>4, <1>5, <1>6, <1>7, <1>8, <1>9, NextOutcomes DEF Kept

\* Nothing is stored, loaded or marked at first.
LEMMA RuleInit == Init => MarksMetadata /\ RuleFacts
<1> SUFFICES ASSUME Init PROVE MarksMetadata /\ RuleFacts
  OBVIOUS
<1>1. MarksMetadata
  BY DEF Init, MarksMetadata, IsDirty
<1>2. /\ metadata = FreshMetadata /\ StoredMetadata = FreshMetadata
      /\ FreshMetadata.entity_ids = {} /\ FreshMetadata.entity_count = 0
  BY DEF Init, StoredMetadata, FreshMetadata
<1>3. Sound(metadata) /\ Sound(StoredMetadata)
  BY <1>2, FS_EmptySet DEF Sound
<1>4. /\ \A e \in EntityId : loaded_entities[e] = None /\ stored_entities[e] = None
      /\ dirty.despawned = {}
  BY CleanTracker DEF Init
<1>5. LoadedIsLive /\ DespawnedIsDead /\ StorageIsLive
  BY <1>2, <1>4 DEF LoadedIsLive, DespawnedIsDead, StorageIsLive
<1>6. ListedIsPresent /\ StoredIsPresent /\ UnmarkedIsStored
  BY <1>4 DEF ListedIsPresent, StoredIsPresent, UnmarkedIsStored
<1> QED
  BY <1>1, <1>3, <1>5, <1>6 DEF RuleFacts

\* What rests on the rule holds as long as the rule is kept.
LEMMA RuleHolds == Spec => [](MarksMetadata /\ (by_the_rule => RuleFacts))
<1>1. Init => MarksMetadata /\ (by_the_rule => RuleFacts)
  BY RuleInit
<1>2. /\ ListedInv /\ MarksMetadata /\ (by_the_rule => RuleFacts)
      /\ [Next]_vars
      => (MarksMetadata /\ (by_the_rule => RuleFacts))'
  BY RuleStep, MarksHolds DEF ListedInv
<1> QED
  BY <1>1, <1>2, ListedHolds, PTL DEF Spec

\* For a contract that loads what it modifies, the counter of the metadata is the
\* number of the entities it lists, through despawns, flushes and conversions.
THEOREM CountIsExact == Spec => []EntityCountIsLiveCount
<1>1. (by_the_rule => RuleFacts) => EntityCountIsLiveCount
  BY DEF RuleFacts, Sound, EntityCountIsLiveCount
<1> QED
  BY <1>1, RuleHolds, PTL

\* For such a contract the SimpleWorld made of the loaded entities reads as they
\* do, and its queries find exactly the entities that have the component.
THEOREM ConversionIsFaithful == Spec => []ConvertedWorldReadsTheSame
<1>1. ListedInv /\ (by_the_rule => RuleFacts) => ConvertedWorldReadsTheSame
  <2> SUFFICES ASSUME ListedInv, RuleFacts, NEW e \in EntityId, NEW t \in ComponentType
               PROVE  /\ GetComponent(ToSimpleWorld, e, t) = loaded_components[<<e, t>>]
                      /\ HasComponent(ToSimpleWorld, e, t) <=>
                           e \in GetEntitiesWithComponent(ToSimpleWorld, t)
    BY DEF ConvertedWorldReadsTheSame
  <2> QED
    BY ConvertedReads DEF Coherent, GetEntitiesWithComponent
<1> QED
  BY <1>1, RuleHolds, ListedHolds, PTL

-----------------------------------------------------------------------------
(* Under the rule, the world is a DurableStore *)

Stores == [EntityId -> [ComponentType -> Bytes \cup {None}]]

WorkingStore ==
    [e \in EntityId |-> [t \in ComponentType |-> WorkingComponent(e, t)]]

DurableContents ==
    [e \in EntityId |-> [t \in ComponentType |-> StoredComponent(e, t)]]

WorldOf(n, l, s) == [next |-> n, live |-> l, store |-> s]

\* The world w without entity x.
Without(w, x) ==
    [w EXCEPT !.live = @ \ {x}, !.store[x] = [t \in ComponentType |-> None]]

WorkingWorld == WorldOf(metadata.next_entity_id, metadata.entity_ids, WorkingStore)

DurableWorld ==
    WorldOf(StoredMetadata.next_entity_id, StoredMetadata.entity_ids, DurableContents)

\* The actions of DurableStore, in terms of the mapped worlds.
LEMMA WorldsAreMapped ==
    /\ Abstract!svars = <<WorkingWorld, DurableWorld>>
    /\ Abstract!Flush = (DurableWorld' = WorkingWorld /\ UNCHANGED WorkingWorld)
    /\ Abstract!Restart = (WorkingWorld' = DurableWorld /\ UNCHANGED DurableWorld)
    /\ Abstract!Spawn =
         (WorkingWorld' = [WorkingWorld EXCEPT !.next = @ + 1,
                                               !.live = @ \cup {WorkingWorld.next}])
    /\ \A x, u, data : Abstract!Set(x, u, data) =
         (WorkingWorld' = [WorkingWorld EXCEPT !.store[x][u] = data])
    /\ \A x, u : Abstract!Remove(x, u) =
         (WorkingWorld' = [WorkingWorld EXCEPT !.store[x][u] = None])
    /\ \A x : Abstract!Despawn(x) =
         (WorkingWorld' = Without(WorkingWorld, x))
  BY DEF Without, Abstract!svars, Abstract!Spawn, Abstract!Set, Abstract!Remove, Abstract!Despawn, Abstract!Flush, Abstract!Restart, WorkingWorld, DurableWorld,
     WorldOf, WorkingStore, DurableContents

\* Memory and storage are read as stores.
LEMMA StoreTypes == StorageTypes => WorkingStore \in Stores /\ DurableContents \in Stores
<1> SUFFICES ASSUME StorageTypes PROVE WorkingStore \in Stores /\ DurableContents \in Stores
  OBVIOUS
<1>1. \A e \in EntityId, t \in ComponentType :
        /\ loaded_components[<<e, t>>] \in Bytes \cup {None}
        /\ stored_components[<<e, t>>] \in Bytes \cup {None}
  BY Keys DEF StorageTypes, Data
<1>2. \A e \in EntityId, t \in ComponentType :
        /\ StoredComponent(e, t) \in Bytes \cup {None}
        /\ WorkingComponent(e, t) \in Bytes \cup {None}
  BY <1>1 DEF StoredComponent, WorkingComponent
<1> QED
  BY <1>2 DEF Stores, WorkingStore, DurableContents

\* A spawn, on the mapped world.
LEMMA SpawnedWorldOf ==
    ASSUME NEW n \in Int, NEW l \in SUBSET Int, NEW s \in Stores
    PROVE  WorldOf(n + 1, l \cup {n}, s) =
             [WorldOf(n, l, s) EXCEPT !.next = @ + 1, !.live = @ \cup {WorldOf(n, l, s).next}]
<1> DEFINE v == [WorldOf(n, l, s) EXCEPT !.next = @ + 1,
                                         !.live = @ \cup {WorldOf(n, l, s).next}]
<1>1. \A m \in Int, k \in SUBSET Int :
        /\ [WorldOf(n, l, s) EXCEPT !.next = m, !.live = k]
             \in [next : Int, live : SUBSET Int, store : Stores]
        /\ [WorldOf(n, l, s) EXCEPT !.next = m, !.live = k].next = m
        /\ [WorldOf(n, l, s) EXCEPT !.next = m, !.live = k].live = k
        /\ [WorldOf(n, l, s) EXCEPT !.next = m, !.live = k].store = s
  BY DEF WorldOf
<1>2. v = [WorldOf(n, l, s) EXCEPT !.next = n + 1, !.live = l \cup {n}]
  BY DEF WorldOf
<1>3. n + 1 \in Int /\ l \cup {n} \in SUBSET Int
  OBVIOUS
<1> HIDE DEF v
<1>4. v \in [next : Int, live : SUBSET Int, store : Stores]
  BY <1>1, <1>2, <1>3
<1>5. v.next = n + 1 /\ v.live = l \cup {n} /\ v.store = s
  BY <1>1, <1>2, <1>3
<1>6. v = WorldOf(n + 1, l \cup {n}, s)
  BY <1>4, <1>5 DEF WorldOf
<1> QED
  BY <1>6 DEF v

\* A changed component, on the mapped world.
LEMMA ChangedWorldOf ==
    ASSUME NEW n, NEW l, NEW s \in Stores, NEW s2 \in Stores,
           NEW x \in EntityId, NEW u \in ComponentType, NEW data,
           \A e \in EntityId, t \in ComponentType :
              s2[e][t] = IF e = x /\ t = u THEN data ELSE s[e][t]
    PROVE  WorldOf(n, l, s2) = [WorldOf(n, l, s) EXCEPT !.store[x][u] = data]
<1>1. s2 = [s EXCEPT ![x][u] = data]
  <2>1. \A e \in EntityId : s2[e] = IF e = x THEN [s[x] EXCEPT ![u] = data] ELSE s[e]
    BY DEF Stores
  <2> QED
    BY <2>1 DEF Stores
<1> QED
  BY <1>1 DEF WorldOf

\* A despawn, on the mapped world.
LEMMA BuriedWorldOf ==
    ASSUME NEW n \in Int, NEW l \in SUBSET Int, NEW s \in Stores, NEW s2 \in Stores,
           NEW x \in EntityId,
           \A e \in EntityId, t \in ComponentType :
              s2[e][t] = IF e = x THEN None ELSE s[e][t]
    PROVE  WorldOf(n, l \ {x}, s2) = Without(WorldOf(n, l, s), x)
<1>1. s2 = [s EXCEPT ![x] = [t \in ComponentType |-> None]]
  <2>1. \A e \in EntityId :
          s2[e] = IF e = x THEN [t \in ComponentType |-> None] ELSE s[e]
    BY DEF Stores
  <2> QED
    BY <2>1 DEF Stores
<1> DEFINE v == [WorldOf(n, l, s) EXCEPT !.live = @ \ {x},
                                         !.store[x] = [t \in ComponentType |-> None]]
<1>2. v.next = n /\ v.live = l \ {x} /\ v.store = s2
  BY <1>1 DEF WorldOf
<1>3. v \in [next : Int, live : SUBSET Int, store : Stores]
  BY <1>1 DEF WorldOf
<1> HIDE DEF v
<1>4. v = WorldOf(n, l \ {x}, s2)
  BY <1>2, <1>3 DEF WorldOf
<1> QED
  BY <1>4 DEF v, Without

\* What the rule facts say of what is read.
LEMMA ReadFacts ==
    ASSUME ListedInv, RuleFacts
    PROVE  /\ WorkingStore \in Stores /\ DurableContents \in Stores
           /\ metadata.next_entity_id \in Int
           /\ metadata.entity_ids \in SUBSET Int
           /\ \A e \in EntityId, t \in ComponentType :
                /\ loaded_entities[e] = None => loaded_components[<<e, t>>] = None
                /\ e \notin StoredMetadata.entity_ids => StoredComponent(e, t) = None
                /\ e \notin metadata.entity_ids => WorkingComponent(e, t) = None
<1>1. WorkingStore \in Stores /\ DurableContents \in Stores
  BY StoreTypes DEF ListedInv
<1>2. /\ metadata.next_entity_id \in Int
      /\ metadata.entity_ids \in SUBSET Int
  BY DEF ListedInv, StorageTypes, Metadata, EntityId
<1>3. ASSUME NEW e \in EntityId, NEW t \in ComponentType
      PROVE  /\ loaded_entities[e] = None => loaded_components[<<e, t>>] = None
             /\ e \notin StoredMetadata.entity_ids => StoredComponent(e, t) = None
             /\ e \notin metadata.entity_ids => WorkingComponent(e, t) = None
  <2>1. loaded_entities[e] = None => loaded_components[<<e, t>>] = None
    BY DEF ListedInv, LoadedDataIsListed
  <2>2. e \notin StoredMetadata.entity_ids => StoredComponent(e, t) = None
    BY DEF RuleFacts, StorageIsLive, StoredComponent
  <2>3. e \notin metadata.entity_ids => WorkingComponent(e, t) = None
    BY DEF WorkingComponent
  <2> QED
    BY <2>1, <2>2, <2>3
<1> QED
  BY <1>1, <1>2, <1>3

\* The durable world is what storage holds.
LEMMA DurableKept == UNCHANGED storage => UNCHANGED DurableWorld
  BY StoredMetadataKept DEF storage, DurableWorld, DurableContents, StoredComponent

\* A new invocation is a restart of the store.
LEMMA RestartMaps ==
    ASSUME ListedInv, RuleFacts, ListedInv', RuleFacts', RestartOutcome
    PROVE  Abstract!Next
<1>1. UNCHANGED DurableWorld
  BY DurableKept DEF RestartOutcome
<1>2. /\ metadata' = StoredMetadata
      /\ \A e \in EntityId : loaded_entities'[e] = None
      /\ UNCHANGED storage
  BY DEF RestartOutcome
<1>3. \A e \in EntityId, t \in ComponentType :
        WorkingComponent(e, t)' = StoredComponent(e, t)
  BY <1>2, ReadFacts DEF WorkingComponent, StoredComponent, storage
<1>4. WorkingStore' = DurableContents
  BY <1>3 DEF WorkingStore, DurableContents
<1>5. WorkingWorld' = DurableWorld
  BY <1>2, <1>4 DEF WorkingWorld, DurableWorld
<1> QED
  BY <1>1, <1>5, WorldsAreMapped DEF Abstract!Next

\* A flush is a flush of the store: it makes the whole world durable.
LEMMA FlushMaps ==
    ASSUME ListedInv, MarksMetadata, RuleFacts, ListedInv', RuleFacts', FlushOutcome
    PROVE  Abstract!Next
<1>1. /\ UNCHANGED <<metadata, loaded_entities, loaded_components>>
      /\ StoredMetadata' = metadata
  <2>1. stored_metadata' = metadata /\ metadata # None
    BY MetadataIsNotNone DEF MarksMetadata, FlushOutcome, RuleFacts, ListedInv, StorageTypes
  <2> QED
    BY <2>1 DEF FlushOutcome, StoredMetadata
<1>2. \A e \in EntityId : loaded_entities[e] # None => e \notin dirty.despawned
  BY DEF RuleFacts, LoadedIsLive, DespawnedIsDead
<1>3. ASSUME NEW e \in EntityId, NEW t \in ComponentType
      PROVE  /\ WorkingComponent(e, t)' = WorkingComponent(e, t)
             /\ StoredComponent(e, t)' = WorkingComponent(e, t)
  <2>1. CASE e \notin metadata.entity_ids
    <3>1. StoredComponent(e, t)' = None
      <4>1. stored_entities'[e] = None
        BY <1>1, <2>1 DEF RuleFacts, StorageIsLive
      <4> QED
        BY <4>1 DEF StoredComponent
    <3> QED
      BY <1>1, <2>1, <3>1 DEF WorkingComponent
  <2>2. CASE e \in metadata.entity_ids /\ loaded_entities[e] # None
    <3>1. /\ WorkingComponent(e, t) = loaded_components[<<e, t>>]
          /\ WorkingComponent(e, t)' = loaded_components[<<e, t>>]
      BY <1>1, <2>2 DEF WorkingComponent
    <3>2. stored_entities'[e] = loaded_entities[e]
      BY <1>1, <2>2, CleanTracker DEF FlushOutcome, RuleFacts, UnmarkedIsStored
    <3>3. t \in loaded_entities[e] => stored_components'[<<e, t>>] = loaded_components[<<e, t>>]
      BY <1>1, <2>2, CleanTracker DEF FlushOutcome, RuleFacts, UnmarkedIsStored
    <3>4. t \notin loaded_entities[e] => loaded_components[<<e, t>>] = None
      BY DEF ListedInv, LoadedDataIsListed
    <3> QED
      BY <2>2, <3>1, <3>2, <3>3, <3>4 DEF StoredComponent
  <2>3. CASE e \in metadata.entity_ids /\ loaded_entities[e] = None
    <3>1. e \notin dirty.despawned
      BY <2>3 DEF RuleFacts, DespawnedIsDead
    <3>2. stored_entities'[e] = stored_entities[e]
      BY <2>3, <3>1 DEF FlushOutcome, FlushedList
    <3>3. loaded_components[<<e, t>>] = None
      BY <2>3, ReadFacts
    <3>4. stored_components'[<<e, t>>] = stored_components[<<e, t>>]
      BY <3>1, <3>3 DEF FlushOutcome
    <3>5. StoredComponent(e, t)' = StoredComponent(e, t)
      BY <3>2, <3>4 DEF StoredComponent
    <3> QED
      BY <1>1, <2>3, <3>5 DEF WorkingComponent
  <2> QED
    BY <2>1, <2>2, <2>3
<1>4. UNCHANGED WorkingStore
  BY <1>3 DEF WorkingStore
<1>5. DurableContents' = WorkingStore
  BY <1>3 DEF DurableContents, WorkingStore
<1>6. UNCHANGED WorkingWorld /\ DurableWorld' = WorkingWorld
  BY <1>1, <1>4, <1>5 DEF WorkingWorld, DurableWorld
<1> QED
  BY <1>6, WorldsAreMapped DEF Abstract!Next

\* A change of the working world only, to one of its live entities.
LEMMA WorkingSteps ==
    ASSUME UNCHANGED DurableWorld
    PROVE  /\ Abstract!Spawn => Abstract!Next
           /\ \A x \in metadata.entity_ids : Abstract!Despawn(x) => Abstract!Next
           /\ \A x \in metadata.entity_ids, u \in ComponentType :
                Abstract!Remove(x, u) => Abstract!Next
           /\ \A x \in metadata.entity_ids, u \in ComponentType, data \in Bytes :
                Abstract!Set(x, u, data) => Abstract!Next
           /\ UNCHANGED WorkingWorld => UNCHANGED Abstract!svars
<1>1. \/ Abstract!Spawn
      \/ \E x \in WorkingWorld.live :
           \/ Abstract!Despawn(x)
           \/ \E u \in ComponentType :
                Abstract!Remove(x, u) \/ \E data \in Bytes : Abstract!Set(x, u, data)
      => Abstract!Next
  BY DEF Abstract!Next, WorkingWorld, DurableWorld, WorkingStore, DurableContents, WorldOf
<1>2. WorkingWorld.live = metadata.entity_ids
  BY DEF WorkingWorld, WorldOf
<1>3. Abstract!Spawn => Abstract!Next
  BY <1>1
<1>4. \A x \in metadata.entity_ids : Abstract!Despawn(x) => Abstract!Next
  BY <1>1, <1>2, Zenon
<1>5. \A x \in metadata.entity_ids, u \in ComponentType :
        Abstract!Remove(x, u) => Abstract!Next
  BY <1>1, <1>2, Zenon
<1>6. \A x \in metadata.entity_ids, u \in ComponentType, data \in Bytes :
        Abstract!Set(x, u, data) => Abstract!Next
  BY <1>1, <1>2, Zenon
<1>7. UNCHANGED WorkingWorld => UNCHANGED Abstract!svars
  BY DEF Abstract!svars, WorkingWorld, DurableWorld, WorkingStore, DurableContents, WorldOf
<1> QED
  BY <1>3, <1>4, <1>5, <1>6, <1>7, Zenon

\* Memory after a step is read as a store too.
LEMMA NextStoreTypes == StorageTypes' => (WorkingStore \in Stores)'
<1>1. StorageTypes => WorkingStore \in Stores
  BY StoreTypes
<1> QED
  BY <1>1, PTL

\* spawn_entity is a spawn.
LEMMA SpawnMaps ==
    ASSUME ListedInv, RuleFacts, SpawnOutcome
    PROVE  Abstract!Next
<1> DEFINE id == metadata.next_entity_id
<1>1. /\ UNCHANGED <<storage, loaded_components>>
      /\ metadata'.next_entity_id = id + 1
      /\ metadata'.entity_ids = metadata.entity_ids \cup {id}
      /\ \A e \in EntityId : loaded_entities'[e] =
           IF e = id THEN {} ELSE loaded_entities[e]
  BY DEF SpawnOutcome
<1>2. /\ id \in Int /\ metadata.entity_ids \in SUBSET Int
      /\ id \notin metadata.entity_ids
      /\ id \in EntityId => loaded_entities[id] = None
  BY ReadFacts DEF RuleFacts, Sound, ListedInv, LoadedIsAllocated
<1>3. ASSUME NEW e \in EntityId, NEW t \in ComponentType
      PROVE  WorkingComponent(e, t)' = WorkingComponent(e, t)
  <2>1. CASE e = id
    <3>1. WorkingComponent(e, t) = None
      BY <1>2, <2>1 DEF WorkingComponent
    <3>2. loaded_entities'[e] # None
      BY <1>1, <2>1, ListsAreNotNone
    <3>3. loaded_components'[<<e, t>>] = None
      BY <1>1, <1>2, <2>1, ReadFacts
    <3> QED
      BY <3>1, <3>2, <3>3 DEF WorkingComponent
  <2>2. CASE e # id
    <3>1. e \in metadata'.entity_ids <=> e \in metadata.entity_ids
      BY <1>1, <2>2
    <3>2. StoredComponent(e, t)' = StoredComponent(e, t)
      BY <1>1 DEF StoredComponent, storage
    <3> QED
      BY <1>1, <2>2, <3>1, <3>2 DEF WorkingComponent
  <2> QED
    BY <2>1, <2>2
<1>4. UNCHANGED WorkingStore
  BY <1>3 DEF WorkingStore
<1>5. WorkingWorld' = WorldOf(id + 1, metadata.entity_ids \cup {id}, WorkingStore)
  BY <1>1, <1>4 DEF WorkingWorld
<1>6. WorkingStore \in Stores
  BY ReadFacts
<1> HIDE DEF id
<1>7. WorkingWorld' =
        [WorldOf(id, metadata.entity_ids, WorkingStore) EXCEPT
           !.next = @ + 1,
           !.live = @ \cup {WorldOf(id, metadata.entity_ids, WorkingStore).next}]
  BY <1>2, <1>5, <1>6, SpawnedWorldOf
<1>8. Abstract!Spawn
  BY <1>7, WorldsAreMapped DEF WorkingWorld, id
<1>9. UNCHANGED DurableWorld
  BY <1>1, DurableKept
<1> QED
  BY <1>8, <1>9, WorkingSteps

\* load_entity changes nothing the store sees.
LEMMA LoadMaps ==
    ASSUME ListedInv, RuleFacts, NEW x \in EntityId, LoadOutcome(x)
    PROVE  UNCHANGED Abstract!svars
<1>1. UNCHANGED <<storage, metadata>>
  BY DEF LoadOutcome
<1>2. ASSUME NEW e \in EntityId, NEW t \in ComponentType
      PROVE  WorkingComponent(e, t)' = WorkingComponent(e, t)
  <2>1. StoredComponent(e, t)' = StoredComponent(e, t)
    BY <1>1 DEF StoredComponent, storage
  <2>2. CASE e # x
    BY <1>1, <2>1, <2>2 DEF LoadOutcome, WorkingComponent
  <2>3. CASE e = x
    <3>1. loaded_entities[e] = None /\ loaded_entities'[e] # None
      BY <2>3 DEF LoadOutcome
    <3>2. loaded_components'[<<e, t>>] = StoredComponent(e, t)
      BY <2>3, <3>1, ReadFacts DEF LoadOutcome, StoredComponent
    <3> QED
      BY <1>1, <3>1, <3>2 DEF WorkingComponent
  <2> QED
    BY <2>2, <2>3
<1>3. UNCHANGED WorkingStore
  BY <1>2 DEF WorkingStore
<1>4. UNCHANGED WorkingWorld
  BY <1>1, <1>3 DEF WorkingWorld
<1>5. UNCHANGED DurableWorld
  BY <1>1, DurableKept
<1> QED
  BY <1>4, <1>5, WorkingSteps

\* A step that changes one component of a live entity and nothing else that is read.
LEMMA ChangeMaps ==
    ASSUME ListedInv, RuleFacts, StorageTypes', UNCHANGED storage,
           metadata'.next_entity_id = metadata.next_entity_id,
           metadata'.entity_ids = metadata.entity_ids,
           NEW x \in EntityId, NEW u \in ComponentType, NEW data,
           \A e \in EntityId, t \in ComponentType :
              WorkingComponent(e, t)' =
                IF e = x /\ t = u THEN data ELSE WorkingComponent(e, t)
    PROVE  /\ UNCHANGED DurableWorld
           /\ WorkingWorld' = [WorkingWorld EXCEPT !.store[x][u] = data]
<1>1. UNCHANGED DurableWorld
  BY DurableKept
<1>2. WorkingStore \in Stores /\ WorkingStore' \in Stores
  BY ReadFacts, NextStoreTypes
<1>3. \A e \in EntityId, t \in ComponentType :
        /\ WorkingStore[e][t] = WorkingComponent(e, t)
        /\ WorkingStore'[e][t] = WorkingComponent(e, t)'
  BY DEF WorkingStore
<1>4. \A e \in EntityId, t \in ComponentType :
        WorkingStore'[e][t] = IF e = x /\ t = u THEN data ELSE WorkingStore[e][t]
  BY <1>3
<1>5. WorldOf(metadata.next_entity_id, metadata.entity_ids, WorkingStore') =
        [WorldOf(metadata.next_entity_id, metadata.entity_ids, WorkingStore)
           EXCEPT !.store[x][u] = data]
  BY <1>2, <1>4, ChangedWorldOf
<1> QED
  BY <1>1, <1>5 DEF WorkingWorld

\* add_component sets one value.
LEMMA AddMaps ==
    ASSUME ListedInv, RuleFacts, NEW x \in EntityId, NEW u \in ComponentType,
           NEW data \in Bytes, AddOutcome(x, u, data),
           x \in metadata.entity_ids, loaded_entities[x] # None
    PROVE  Abstract!Next
<1>1. /\ StorageTypes' /\ UNCHANGED storage
      /\ metadata'.next_entity_id = metadata.next_entity_id
      /\ metadata'.entity_ids = metadata.entity_ids
  BY DEF AddOutcome
<1>2. loaded_entities'[x] # None
  BY ListsAreNotNone DEF AddOutcome, ListedInv, StorageTypes, Lists
<1>3. ASSUME NEW e \in EntityId, NEW t \in ComponentType
      PROVE  WorkingComponent(e, t)' =
               IF e = x /\ t = u THEN data ELSE WorkingComponent(e, t)
  <2>1. StoredComponent(e, t)' = StoredComponent(e, t)
    BY <1>1 DEF StoredComponent, storage
  <2> QED
    BY <1>1, <1>2, <2>1 DEF AddOutcome, WorkingComponent
<1>4. /\ UNCHANGED DurableWorld
      /\ WorkingWorld' = [WorkingWorld EXCEPT !.store[x][u] = data]
  BY <1>1, <1>3, ChangeMaps
<1>5. Abstract!Set(x, u, data)
  BY <1>4, WorldsAreMapped
<1> QED
  BY <1>4, <1>5, WorkingSteps

\* remove_component clears one value.
LEMMA RemoveMaps ==
    ASSUME ListedInv, RuleFacts, NEW x \in EntityId, NEW u \in ComponentType,
           RemoveOutcome(x, u), x \in metadata.entity_ids, loaded_entities[x] # None
    PROVE  Abstract!Next
<1>1. /\ StorageTypes' /\ UNCHANGED storage
      /\ metadata'.next_entity_id = metadata.next_entity_id
      /\ metadata'.entity_ids = metadata.entity_ids
  BY DEF RemoveOutcome
<1>2. loaded_entities'[x] # None
  <2>1. loaded_entities[x] \ {u} \in SUBSET ComponentType
    BY DEF ListedInv, StorageTypes, Lists
  <2> QED
    BY <2>1, ListsAreNotNone DEF RemoveOutcome
<1>3. ASSUME NEW e \in EntityId, NEW t \in ComponentType
      PROVE  WorkingComponent(e, t)' =
               IF e = x /\ t = u THEN None ELSE WorkingComponent(e, t)
  <2>1. StoredComponent(e, t)' = StoredComponent(e, t)
    BY <1>1 DEF StoredComponent, storage
  <2> QED
    BY <1>1, <1>2, <2>1 DEF RemoveOutcome, WorkingComponent
<1>4. /\ UNCHANGED DurableWorld
      /\ WorkingWorld' = [WorkingWorld EXCEPT !.store[x][u] = None]
  BY <1>1, <1>3, ChangeMaps
<1>5. Abstract!Remove(x, u)
  BY <1>4, WorldsAreMapped
<1> QED
  BY <1>4, <1>5, WorkingSteps

\* despawn_entity buries a live entity.
LEMMA DespawnMaps ==
    ASSUME ListedInv, RuleFacts, NEW x \in EntityId, DespawnOutcome(x),
           x \in metadata.entity_ids
    PROVE  Abstract!Next
<1>1. /\ StorageTypes' /\ UNCHANGED storage
      /\ metadata'.next_entity_id = metadata.next_entity_id
      /\ metadata'.entity_ids = metadata.entity_ids \ {x}
  BY DEF DespawnOutcome
<1>2. ASSUME NEW e \in EntityId, NEW t \in ComponentType
      PROVE  WorkingComponent(e, t)' = IF e = x THEN None ELSE WorkingComponent(e, t)
  <2>1. StoredComponent(e, t)' = StoredComponent(e, t)
    BY <1>1 DEF StoredComponent, storage
  <2>2. CASE e = x
    BY <1>1, <2>2 DEF WorkingComponent
  <2>3. CASE e # x
    BY <1>1, <2>1, <2>3 DEF DespawnOutcome, WorkingComponent
  <2> QED
    BY <2>2, <2>3
<1>3. WorkingStore \in Stores /\ WorkingStore' \in Stores
  BY <1>1, ReadFacts, NextStoreTypes
<1>4. \A e \in EntityId, t \in ComponentType :
        /\ WorkingStore[e][t] = WorkingComponent(e, t)
        /\ WorkingStore'[e][t] = WorkingComponent(e, t)'
  BY DEF WorkingStore
<1>5. \A e \in EntityId, t \in ComponentType :
        WorkingStore'[e][t] = IF e = x THEN None ELSE WorkingStore[e][t]
  BY <1>2, <1>4
<1>6. metadata.next_entity_id \in Int /\ metadata.entity_ids \in SUBSET Int
  BY ReadFacts
<1>7. WorldOf(metadata.next_entity_id, metadata.entity_ids \ {x}, WorkingStore') =
        Without(WorldOf(metadata.next_entity_id, metadata.entity_ids, WorkingStore), x)
  BY <1>3, <1>5, <1>6, BuriedWorldOf
<1>8. Abstract!Despawn(x)
  BY <1>1, <1>7, WorldsAreMapped DEF WorkingWorld
<1>9. UNCHANGED DurableWorld
  BY <1>1, DurableKept
<1> QED
  BY <1>8, <1>9, WorkingSteps

\* What a loaded, live world reads after a system: the world the system left.
LEMMA ReadAfterSystem ==
    ASSUME ListedInv, RuleFacts, NEW w \in LeftBySystem, SystemOutcome(w),
           Loaded = metadata.entity_ids, KeysAfter(w) = Loaded,
           NEW e \in EntityId, NEW t \in ComponentType
    PROVE  /\ WorkingComponent(e, t) = GetComponent(ToSimpleWorld, e, t)
           /\ WorkingComponent(e, t)' = GetComponent(w, e, t)
<1>1. GetComponent(ToSimpleWorld, e, t) = loaded_components[<<e, t>>]
  BY ConvertedReads
<1>2. e \in metadata.entity_ids <=> loaded_entities[e] # None
  BY DEF Loaded
<1>3. WorkingComponent(e, t) = GetComponent(ToSimpleWorld, e, t)
  BY <1>1, <1>2, ReadFacts DEF WorkingComponent
<1>4. w \in SimpleWorlds /\ Coherent(w)
  BY LeftWorlds, LeftIsCoherent DEF ListedInv
<1>5. t \notin w.entity_components[e] => GetComponent(w, e, t) = None
  BY <1>4, GetIsHas DEF Coherent
<1>6. loaded_components'[<<e, t>>] = GetComponent(w, e, t)
  BY <1>5 DEF SystemOutcome, TakenBack
<1>7. e \in metadata'.entity_ids <=> e \in metadata.entity_ids
  BY DEF SystemOutcome, TakenBack
<1>8. CASE e \in metadata.entity_ids
  <2>1. loaded_entities'[e] = w.entity_components[e]
    BY <1>8 DEF SystemOutcome, TakenBack
  <2>2. loaded_entities'[e] # None
    BY <1>4, <2>1, ListsAreNotNone DEF SimpleWorlds
  <2> QED
    BY <1>3, <1>6, <1>7, <1>8, <2>2 DEF WorkingComponent
<1>9. CASE e \notin metadata.entity_ids
  <2>1. w.entity_components[e] = {}
    BY <1>9, SystemKeys DEF ListedInv
  <2> QED
    BY <1>3, <1>5, <1>7, <1>9, <2>1 DEF WorkingComponent
<1> QED
  BY <1>8, <1>9

\* A system does to the store what its one call did, or nothing.
LEMMA SystemMaps ==
    ASSUME ListedInv, RuleFacts, NEW w \in LeftBySystem, SystemOutcome(w),
           Loaded = metadata.entity_ids, KeysAfter(w) = Loaded
    PROVE  [Abstract!Next]_(Abstract!svars)
<1>1. /\ StorageTypes' /\ UNCHANGED storage
      /\ metadata'.next_entity_id = metadata.next_entity_id
      /\ metadata'.entity_ids = metadata.entity_ids
  BY DEF SystemOutcome, TakenBack
<1>2. \A e \in EntityId, t \in ComponentType :
        /\ WorkingComponent(e, t) = GetComponent(ToSimpleWorld, e, t)
        /\ WorkingComponent(e, t)' = GetComponent(w, e, t)
  BY ReadAfterSystem
<1>3. ASSUME \A e \in EntityId, t \in ComponentType :
                WorkingComponent(e, t)' = WorkingComponent(e, t)
      PROVE  UNCHANGED Abstract!svars
  <2>1. UNCHANGED WorkingStore
    BY <1>3 DEF WorkingStore
  <2>2. UNCHANGED WorkingWorld
    BY <1>1, <2>1 DEF WorkingWorld
  <2>3. UNCHANGED DurableWorld
    BY <1>1, DurableKept
  <2> QED
    BY <2>2, <2>3, WorkingSteps
<1>4. /\ ToSimpleWorld \in SimpleWorlds
      /\ \A e \in EntityId, t \in ComponentType :
           ToSimpleWorld.sparse_components[<<e, t>>] = None
  BY ConvertedWorld DEF ListedInv
<1>5. CASE w = ToSimpleWorld
  BY <1>2, <1>3, <1>5
<1>6. ASSUME CanBump(ToSimpleWorld), NEW x \in Loaded, NEW u \in ComponentType,
             NEW data \in Bytes, NEW kind \in ComponentStorage,
             w = AddedComponent(ToSimpleWorld, x, u, data, kind)
      PROVE  [Abstract!Next]_(Abstract!svars)
  <2>1. x \in EntityId /\ x \in metadata.entity_ids
    BY DEF Loaded
  <2> DEFINE seen == kind = Table \/ ToSimpleWorld.components[<<x, u>>] = None
  <2>2. \A e \in EntityId, t \in ComponentType :
          GetComponent(AddedComponent(ToSimpleWorld, x, u, data, kind), e, t) =
            IF e = x /\ t = u /\ seen THEN data ELSE GetComponent(ToSimpleWorld, e, t)
    BY <1>4, <1>6, <2>1, ReadAfterAddition
  <2> HIDE DEF seen
  <2>3. CASE ~seen
    BY <1>2, <1>3, <1>6, <2>2, <2>3
  <2>4. CASE seen
    <3>1. \A e \in EntityId, t \in ComponentType :
            WorkingComponent(e, t)' = IF e = x /\ t = u THEN data ELSE WorkingComponent(e, t)
      BY <1>2, <1>6, <2>2, <2>4
    <3>2. /\ UNCHANGED DurableWorld
          /\ WorkingWorld' = [WorkingWorld EXCEPT !.store[x][u] = data]
      BY <1>1, <2>1, <3>1, ChangeMaps
    <3>3. Abstract!Set(x, u, data)
      BY <3>2, WorldsAreMapped
    <3> QED
      BY <2>1, <3>2, <3>3, WorkingSteps
  <2> QED
    BY <2>3, <2>4
<1>7. ASSUME CanBump(ToSimpleWorld), NEW x \in Loaded, NEW u \in ComponentType,
             w = RemovedComponent(ToSimpleWorld, x, u)
      PROVE  [Abstract!Next]_(Abstract!svars)
  <2>1. x \in EntityId /\ x \in metadata.entity_ids
    BY DEF Loaded
  <2>2. \A e \in EntityId, t \in ComponentType :
          GetComponent(RemovedComponent(ToSimpleWorld, x, u), e, t) =
            IF e = x /\ t = u THEN None ELSE GetComponent(ToSimpleWorld, e, t)
    BY <1>4, <1>7, <2>1, ReadAfterRemoval
  <2>3. \A e \in EntityId, t \in ComponentType :
          WorkingComponent(e, t)' = IF e = x /\ t = u THEN None ELSE WorkingComponent(e, t)
    BY <1>2, <1>7, <2>2
  <2>4. /\ UNCHANGED DurableWorld
        /\ WorkingWorld' = [WorkingWorld EXCEPT !.store[x][u] = None]
    BY <1>1, <2>1, <2>3, ChangeMaps
  <2>5. Abstract!Remove(x, u)
    BY <2>4, WorldsAreMapped
  <2> QED
    BY <2>1, <2>4, <2>5, WorkingSteps
<1> QED
  BY <1>5, <1>6, <1>7, LeftCases DEF ListedInv

\* Every step that keeps the rule is a step of the store or changes nothing.
LEMMA RuleStepMaps ==
    ASSUME ListedInv, MarksMetadata, by_the_rule => RuleFacts, [Next]_vars,
           ListedInv', by_the_rule'
    PROVE  [Abstract!Next]_(Abstract!svars)
<1> Allocated \subseteq EntityId
  BY AllocatedIds
<1>1. by_the_rule /\ RuleFacts /\ RuleFacts' /\ StorageTypes
  BY RuleStep DEF ListedInv
<1>2. CASE RestartOutcome
  BY <1>1, <1>2, RestartMaps
<1>3. CASE SpawnOutcome
  BY <1>1, <1>3, SpawnMaps
<1>4. CASE FlushOutcome
  BY <1>1, <1>4, FlushMaps
<1>5. ASSUME NEW w \in LeftBySystem, SystemOutcome(w),
             Kept(/\ Loaded = metadata.entity_ids
                  /\ dirty.despawned = {}
                  /\ KeysAfter(w) = Loaded)
      PROVE  [Abstract!Next]_(Abstract!svars)
  BY <1>1, <1>5, SystemMaps DEF Kept
<1>6. ASSUME NEW x \in Allocated, LoadOutcome(x)
      PROVE  [Abstract!Next]_(Abstract!svars)
  BY <1>1, <1>6, LoadMaps
<1>7. ASSUME NEW x \in Allocated, DespawnOutcome(x), Kept(x \in metadata.entity_ids)
      PROVE  [Abstract!Next]_(Abstract!svars)
  BY <1>1, <1>7, DespawnMaps DEF Kept
<1>8. ASSUME NEW x \in Allocated, NEW u \in ComponentType, RemoveOutcome(x, u),
             Kept(x \in metadata.entity_ids /\ loaded_entities[x] # None)
      PROVE  [Abstract!Next]_(Abstract!svars)
  BY <1>1, <1>8, RemoveMaps DEF Kept
<1>9. ASSUME NEW x \in Allocated, NEW u \in ComponentType, NEW data \in Bytes,
             AddOutcome(x, u, data),
             Kept(x \in metadata.entity_ids /\ loaded_entities[x] # None)
      PROVE  [Abstract!Next]_(Abstract!svars)
  BY <1>1, <1>9, AddMaps DEF Kept
<1>10. CASE UNCHANGED vars
  <2>1. /\ UNCHANGED <<storage, metadata>>
        /\ \A e \in EntityId, t \in ComponentType :
             WorkingComponent(e, t)' = WorkingComponent(e, t)
    BY <1>10 DEF vars, memory, storage, WorkingComponent, StoredComponent
  <2>2. UNCHANGED WorkingWorld
    BY <2>1 DEF WorkingWorld, WorkingStore
  <2>3. UNCHANGED DurableWorld
    BY <2>1, DurableKept
  <2> QED
    BY <2>2, <2>3, WorkingSteps
<1>11. ~Kept(FALSE)
  BY DEF Kept
<1> QED
  BY <1>1, <1>2, <1>3, <1>4, <1>5, <1>6, <1>7, <1>8, <1>9, <1>10, <1>11, NextOutcomes

\* The new world is the empty store.
LEMMA InitMaps == Init => Abstract!Init
<1> SUFFICES ASSUME Init PROVE Abstract!Init
  OBVIOUS
<1>1. /\ metadata = FreshMetadata /\ StoredMetadata = FreshMetadata
      /\ FreshMetadata.next_entity_id = 1 /\ FreshMetadata.entity_ids = {}
  BY DEF Init, StoredMetadata, FreshMetadata
<1>2. \A e \in EntityId, t \in ComponentType :
        WorkingComponent(e, t) = None /\ StoredComponent(e, t) = None
  BY <1>1 DEF Init, WorkingComponent, StoredComponent
<1> QED
  BY <1>1, <1>2 DEF Abstract!Init

\* A contract that keeps the loading rule sees a durable store over any number of
\* invocations: every call is one of its steps or changes nothing it shows.
THEOREM StorageIsDurable == Spec => ImplementsDurableStore
<1>1. /\ ListedInv /\ MarksMetadata /\ (by_the_rule => RuleFacts)
      /\ [Next]_vars /\ ListedInv'
      => (by_the_rule' => [Abstract!Next]_(Abstract!svars))
  BY RuleStepMaps
<1> QED
  BY <1>1, InitMaps, RuleHolds, ListedHolds, PTL DEF Spec, ImplementsDurableStore

-----------------------------------------------------------------------------
(* Buried entities *)

\* What is marked as despawned is already gone from the metadata, which the next
\* flush writes too; a buried id is never handed out again nor marked to be written.
BuriedInv ==
    /\ MarksMetadata
    /\ DespawnedIsDead
    /\ DespawnIsFinal
    /\ buried \subseteq EntityId
    /\ \A e \in buried :
         /\ e < StoredMetadata.next_entity_id /\ e < metadata.next_entity_id
         /\ e \notin dirty.dirty_entities

\* A flush finds the despawned entities gone from the metadata that it writes, and
\* writes no list for them or for those that were buried before.
LEMMA FlushBuries ==
    ASSUME StorageTypes, BuriedInv, FlushOutcome, Buried(buried \cup dirty.despawned)
    PROVE  BuriedInv'
<1>1. dirty' = Clean /\ metadata' = metadata /\ StoredMetadata' = metadata
  <2>1. stored_metadata' = metadata /\ metadata # None
    BY MetadataIsNotNone DEF BuriedInv, MarksMetadata, FlushOutcome, StorageTypes
  <2> QED
    BY <2>1 DEF FlushOutcome, StoredMetadata
<1>2. MarksMetadata' /\ DespawnedIsDead'
  BY <1>1, CleanTracker DEF MarksMetadata, IsDirty, DespawnedIsDead
<1>3. dirty.despawned \subseteq EntityId /\ buried' \subseteq EntityId
  BY DEF StorageTypes, DirtyTracker, BuriedInv, Buried
<1>4. ASSUME NEW e \in buried'
      PROVE  /\ e \in EntityId /\ stored_entities'[e] = None
             /\ e \notin metadata.entity_ids /\ e < metadata.next_entity_id
  <2>1. CASE e \in dirty.despawned
    BY <1>3, <2>1 DEF BuriedInv, DespawnedIsDead, FlushOutcome, FlushedList
  <2>2. CASE e \in buried /\ e \notin dirty.despawned
    BY <2>2 DEF BuriedInv, DespawnIsFinal, FlushOutcome, FlushedList
  <2> QED
    BY <1>4, <2>1, <2>2 DEF Buried
<1>5. DespawnIsFinal'
  BY <1>1, <1>4 DEF DespawnIsFinal
<1> QED
  BY <1>1, <1>2, <1>3, <1>4, <1>5, CleanTracker DEF BuriedInv

\* A world that is taken back digs up the entities it has, and no others.
LEMMA TakingBackBuries ==
    ASSUME StorageTypes, BuriedInv, MarksMetadata', NEW w, NEW ids, TakenBack(w, ids),
           metadata.next_entity_id =< metadata'.next_entity_id, Buried(buried \ ids)
    PROVE  BuriedInv'
<1>1. /\ UNCHANGED storage /\ UNCHANGED StoredMetadata
      /\ metadata'.entity_ids = ids /\ dirty'.dirty_entities = ids
      /\ dirty'.despawned = {}
  BY StoredMetadataKept DEF TakenBack
<1>2. DespawnIsFinal' /\ DespawnedIsDead'
  BY <1>1 DEF BuriedInv, DespawnIsFinal, DespawnedIsDead, Buried, storage
<1>3. /\ metadata.next_entity_id \in Int /\ metadata'.next_entity_id \in Int
      /\ \A e \in EntityId : e \in Int
  BY DEF StorageTypes, TakenBack, Metadata, EntityId
<1> QED
  BY <1>1, <1>2, <1>3 DEF BuriedInv, Buried

\* A buried entity stays buried.
LEMMA BuriedStep ==
    ASSUME StorageTypes, BuriedInv, [Next]_vars
    PROVE  BuriedInv'
<1> Allocated \subseteq EntityId
  BY AllocatedIds
<1> UNCHANGED storage => UNCHANGED StoredMetadata
  BY StoredMetadataKept
<1>1. MarksMetadata'
  BY MarksHolds DEF BuriedInv
<1>2. CASE RestartOutcome /\ Buried(buried)
  BY <1>1, <1>2, CleanTracker
     DEF RestartOutcome, Buried, BuriedInv, DespawnIsFinal, DespawnedIsDead, storage
<1>3. CASE SpawnOutcome /\ Buried(buried)
  <2>1. metadata.next_entity_id \in Int /\ \A e \in EntityId : e \in Int
    BY DEF StorageTypes, Metadata, EntityId
  <2>2. dirty.despawned \subseteq EntityId
    BY DEF StorageTypes, DirtyTracker
  <2> QED
    BY <1>1, <1>3, <2>1, <2>2
       DEF SpawnOutcome, Buried, BuriedInv, DespawnIsFinal, DespawnedIsDead, storage
<1>4. CASE FlushOutcome /\ Buried(buried \cup dirty.despawned)
  BY <1>4, FlushBuries
<1>5. ASSUME NEW w \in LeftBySystem, SystemOutcome(w), Buried(buried \ KeysAfter(w))
      PROVE  BuriedInv'
  <2>1. metadata.next_entity_id =< metadata'.next_entity_id
    BY <1>5 DEF SystemOutcome, StorageTypes, Metadata, EntityId
  <2> QED
    BY <1>1, <1>5, <2>1, TakingBackBuries DEF SystemOutcome
<1>6. ASSUME NEW w \in SimpleWorlds, NEW ids \in SUBSET Loaded, PartlyTakenBack(w, ids),
             Buried(buried \ ids)
      PROVE  BuriedInv'
  BY <1>1, <1>6, TakingBackBuries DEF PartlyTakenBack
<1>7. ASSUME NEW x \in Allocated, LoadOutcome(x), Buried(buried)
      PROVE  BuriedInv'
  BY <1>1, <1>7 DEF LoadOutcome, Buried, BuriedInv, DespawnIsFinal, DespawnedIsDead, storage
<1>8. ASSUME NEW x \in Allocated, DespawnOutcome(x), Buried(buried)
      PROVE  BuriedInv'
  BY <1>1, <1>8 DEF DespawnOutcome, Allocated, Buried, BuriedInv, DespawnIsFinal,
     DespawnedIsDead, storage
<1>9. ASSUME NEW x \in Allocated, NEW u \in ComponentType,
             RemoveOutcome(x, u) \/ \E data \in Bytes : AddOutcome(x, u, data),
             Buried(buried \ {x})
      PROVE  BuriedInv'
  <2>1. /\ UNCHANGED storage /\ x \in EntityId
        /\ metadata'.next_entity_id = metadata.next_entity_id
        /\ metadata'.entity_ids = metadata.entity_ids
        /\ dirty' = MarkedComponent(x, u) /\ dirty \in DirtyTracker
    BY <1>9, Zenon DEF RemoveOutcome, AddOutcome, StorageTypes
  <2>2. /\ dirty'.dirty_entities = dirty.dirty_entities \cup {x}
        /\ dirty'.despawned = dirty.despawned
    BY <2>1, MarkedTracker
  <2> QED
    BY <1>1, <1>9, <2>1, <2>2 DEF Buried, BuriedInv, DespawnIsFinal, DespawnedIsDead, storage
<1>10. CASE UNCHANGED vars
  BY <1>1, <1>10 DEF vars, memory, storage, BuriedInv, DespawnIsFinal, DespawnedIsDead
<1> QED
  BY <1>2, <1>3, <1>4, <1>5, <1>6, <1>7, <1>8, <1>9, <1>10, NextOutcomes

\* Whatever a contract calls, and not only under the loading rule, an entity whose
\* despawn was flushed has no list in storage and is named by no metadata, in that
\* invocation and in all later ones, until a call changes one of its components
\* again or a system hands it back.
THEOREM DespawnsAreFinal == Spec => []DespawnIsFinal
<1>1. Init => BuriedInv
  BY RuleInit DEF Init, BuriedInv, RuleFacts, DespawnIsFinal
<1>2. ListedInv /\ BuriedInv /\ [Next]_vars => BuriedInv'
  BY BuriedStep DEF ListedInv
<1>3. BuriedInv => DespawnIsFinal
  BY DEF BuriedInv
<1> QED
  BY <1>1, <1>2, <1>3, ListedHolds, PTL DEF Spec
=============================================================================
