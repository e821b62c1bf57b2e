------------------------- MODULE SimpleWorldProofs -------------------------
(***************************************************************************)
(* Theorems about SimpleWorld, for every set of component types and data   *)
(* and for every bound of the counters.                                    *)
(***************************************************************************)
EXTENDS SimpleWorld, TLAPS

-----------------------------------------------------------------------------
(***************************************************************************)
(* What the methods of SimpleWorld do to a well-formed world.              *)
(***************************************************************************)

\* SimpleWorld::new returns a well-formed world.
LEMMA EmptyWorldType == EmptyWorld \in SimpleWorlds
  BY BoundsAssumption DEF EmptyWorld, SimpleWorlds, EntityId, Key

\* spawn_entity changes next_entity_id only, up to the u32 overflow check.
LEMMA SpawnFields ==
  ASSUME NEW w \in SimpleWorlds, CanSpawn(w)
  PROVE  LET v == SpawnedWorld(w) IN
         /\ v \in SimpleWorlds
         /\ v.version = w.version
         /\ v.components = w.components
         /\ v.sparse_components = w.sparse_components
         /\ v.entity_components = w.entity_components
  BY BoundsAssumption DEF SpawnedWorld, SimpleWorlds, EntityId, CanSpawn

\* add_component_with_storage writes one entry of one map and lists its type.
LEMMA AddedFields ==
  ASSUME NEW w \in SimpleWorlds, CanBump(w),
         NEW e \in EntityId, NEW t \in ComponentType, NEW data \in Bytes,
         NEW storage \in ComponentStorage
  PROVE  LET v == AddedComponent(w, e, t, data, storage) IN
         /\ v \in SimpleWorlds
         /\ v.version = w.version + 1
         /\ v.components =
              IF storage = Table THEN [w.components EXCEPT ![<<e, t>>] = data]
                                 ELSE w.components
         /\ v.sparse_components =
              IF storage = Sparse THEN [w.sparse_components EXCEPT ![<<e, t>>] = data]
                                  ELSE w.sparse_components
         /\ v.entity_components =
              [w.entity_components EXCEPT ![e] = w.entity_components[e] \cup {t}]
<1> DEFINE k == <<e, t>>
<1>1. w.version + 1 \in 0..U64Max
  BY BoundsAssumption DEF SimpleWorlds, CanBump
<1>2. k \in Key
  BY DEF Key
<1>3. [w.components EXCEPT ![k] = data] \in [Key -> Bytes \cup {None}]
  BY <1>2 DEF SimpleWorlds
<1>4. [w.sparse_components EXCEPT ![k] = data] \in [Key -> Bytes \cup {None}]
  BY <1>2 DEF SimpleWorlds
<1>5. [w.entity_components EXCEPT ![e] = w.entity_components[e] \cup {t}]
        \in [EntityId -> SUBSET ComponentType]
  BY DEF SimpleWorlds
<1> HIDE DEF k
<1> QED
  BY <1>1, <1>3, <1>4, <1>5 DEF AddedComponent, SimpleWorlds, k

\* remove_component clears one entry and drops the type when it found data.
LEMMA RemovedFields ==
  ASSUME NEW w \in SimpleWorlds, CanBump(w),
         NEW e \in EntityId, NEW t \in ComponentType
  PROVE  LET v == RemovedComponent(w, e, t) IN
         /\ v \in SimpleWorlds
         /\ v.version = w.version + 1
         /\ v.components = [w.components EXCEPT ![<<e, t>>] = None]
         /\ v.sparse_components =
              IF w.components[<<e, t>>] # None THEN w.sparse_components
              ELSE [w.sparse_components EXCEPT ![<<e, t>>] = None]
         /\ v.entity_components =
              IF HasComponent(w, e, t)
              THEN [w.entity_components EXCEPT ![e] = w.entity_components[e] \ {t}]
              ELSE w.entity_components
<1> DEFINE k == <<e, t>>
<1>1. w.version + 1 \in 0..U64Max
  BY BoundsAssumption DEF SimpleWorlds, CanBump
<1>2. k \in Key
  BY DEF Key
<1>3. [w.components EXCEPT ![k] = None] \in [Key -> Bytes \cup {None}]
  BY <1>2 DEF SimpleWorlds
<1>4. [w.sparse_components EXCEPT ![k] = None] \in [Key -> Bytes \cup {None}]
  BY <1>2 DEF SimpleWorlds
<1>5. [w.entity_components EXCEPT ![e] = w.entity_components[e] \ {t}]
        \in [EntityId -> SUBSET ComponentType]
  BY DEF SimpleWorlds
<1> HIDE DEF k
<1> QED
  BY <1>1, <1>3, <1>4, <1>5 DEF RemovedComponent, SimpleWorlds, HasComponent, k

\* despawn_entity clears the listed entries of the entity in both maps.
LEMMA DespawnedFields ==
  ASSUME NEW w \in SimpleWorlds, CanBump(w), NEW e \in EntityId
  PROVE  LET v == DespawnedEntity(w, e)
             cleared(m) == [k \in Key |->
                              IF k[1] = e /\ k[2] \in w.entity_components[e]
                              THEN None ELSE m[k]] IN
         /\ v \in SimpleWorlds
         /\ v.version = w.version + 1
         /\ v.components = cleared(w.components)
         /\ v.sparse_components = cleared(w.sparse_components)
         /\ v.entity_components = [w.entity_components EXCEPT ![e] = {}]
<1> DEFINE cleared(m) == [k \in Key |->
                            IF k[1] = e /\ k[2] \in w.entity_components[e]
                            THEN None ELSE m[k]]
<1>1. w.version + 1 \in 0..U64Max
  BY BoundsAssumption DEF SimpleWorlds, CanBump
<1>2. cleared(w.components) \in [Key -> Bytes \cup {None}]
  BY DEF SimpleWorlds
<1>3. cleared(w.sparse_components) \in [Key -> Bytes \cup {None}]
  BY DEF SimpleWorlds
<1>4. [w.entity_components EXCEPT ![e] = {}] \in [EntityId -> SUBSET ComponentType]
  BY DEF SimpleWorlds
<1> QED
  BY <1>1, <1>2, <1>3, <1>4 DEF DespawnedEntity, SimpleWorlds

\* After add_component_with_storage the entity has that component too.
LEMMA AddedHas ==
  ASSUME NEW w \in SimpleWorlds, CanBump(w),
         NEW e \in EntityId, NEW t \in ComponentType, NEW data \in Bytes,
         NEW storage \in ComponentStorage,
         NEW f \in EntityId, NEW u \in ComponentType
  PROVE  LET v == AddedComponent(w, e, t, data, storage) IN
         /\ HasComponent(v, f, u) <=> HasComponent(w, f, u) \/ <<f, u>> = <<e, t>>
         /\ u \in v.entity_components[f] <=>
              u \in w.entity_components[f] \/ <<f, u>> = <<e, t>>
<1> DEFINE v == AddedComponent(w, e, t, data, storage)
<1>1. /\ w.components \in [Key -> Bytes \cup {None}]
      /\ w.sparse_components \in [Key -> Bytes \cup {None}]
      /\ w.entity_components \in [EntityId -> SUBSET ComponentType]
  BY DEF SimpleWorlds
<1>2. /\ v.components =
           IF storage = Table THEN [w.components EXCEPT ![<<e, t>>] = data]
                              ELSE w.components
      /\ v.sparse_components =
           IF storage = Sparse THEN [w.sparse_components EXCEPT ![<<e, t>>] = data]
                               ELSE w.sparse_components
      /\ v.entity_components =
           [w.entity_components EXCEPT ![e] = w.entity_components[e] \cup {t}]
  BY AddedFields
<1>3. <<e, t>> \in Key /\ <<f, u>> \in Key
  BY DEF Key
<1> HIDE DEF v
<1>4. u \in v.entity_components[f] <=>
        u \in w.entity_components[f] \/ <<f, u>> = <<e, t>>
  BY <1>1, <1>2
<1>5. HasComponent(v, f, u) <=> HasComponent(w, f, u) \/ <<f, u>> = <<e, t>>
  <2>1. CASE storage = Table
    BY <2>1, <1>1, <1>2, <1>3, NoneAssumption DEF HasComponent, Table, Sparse
  <2>2. CASE storage = Sparse
    BY <2>2, <1>1, <1>2, <1>3, NoneAssumption DEF HasComponent, Table, Sparse
  <2> QED BY <2>1, <2>2 DEF ComponentStorage
<1> QED BY <1>4, <1>5 DEF v

\* After despawn_entity the listed components of the entity are gone.
LEMMA DespawnedHas ==
  ASSUME NEW w \in SimpleWorlds, CanBump(w), NEW e \in EntityId,
         NEW f \in EntityId, NEW u \in ComponentType
  PROVE  LET v == DespawnedEntity(w, e) IN
         /\ HasComponent(v, f, u) <=>
              HasComponent(w, f, u) /\ ~(f = e /\ u \in w.entity_components[e])
         /\ u \in v.entity_components[f] <=> u \in w.entity_components[f] /\ f # e
<1> DEFINE v == DespawnedEntity(w, e)
           gone == f = e /\ u \in w.entity_components[e]
<1>1. <<f, u>> \in Key
  BY DEF Key
<1>2. /\ v.components[<<f, u>>] = IF gone THEN None ELSE w.components[<<f, u>>]
      /\ v.sparse_components[<<f, u>>] =
           IF gone THEN None ELSE w.sparse_components[<<f, u>>]
  <2>1. v.components = [k \in Key |-> IF k[1] = e /\ k[2] \in w.entity_components[e]
                                     THEN None ELSE w.components[k]]
    BY DespawnedFields
  <2>2. v.sparse_components =
          [k \in Key |-> IF k[1] = e /\ k[2] \in w.entity_components[e]
                        THEN None ELSE w.sparse_components[k]]
    BY DespawnedFields
  <2> HIDE DEF v
  <2> QED BY <1>1, <2>1, <2>2
<1>3. v.entity_components = [w.entity_components EXCEPT ![e] = {}]
  BY DespawnedFields
<1>4. w.entity_components \in [EntityId -> SUBSET ComponentType]
  BY DEF SimpleWorlds
<1> HIDE DEF v
<1>5. u \in v.entity_components[f] <=> u \in w.entity_components[f] /\ f # e
  BY <1>3, <1>4
<1>6. HasComponent(v, f, u) <=> HasComponent(w, f, u) /\ ~gone
  BY <1>2 DEF HasComponent
<1> QED BY <1>5, <1>6 DEF v

\* remove_component leaves all other components and their listing alone, and
\* the removed component is not listed any more.
LEMMA RemovedHas ==
  ASSUME NEW w \in SimpleWorlds, CanBump(w),
         NEW e \in EntityId, NEW t \in ComponentType,
         NEW f \in EntityId, NEW u \in ComponentType
  PROVE  LET v == RemovedComponent(w, e, t) IN
         /\ (f # e \/ u # t) =>
              /\ HasComponent(v, f, u) <=> HasComponent(w, f, u)
              /\ u \in v.entity_components[f] <=> u \in w.entity_components[f]
         /\ HasComponent(v, e, t) <=>
              w.components[<<e, t>>] # None /\ w.sparse_components[<<e, t>>] # None
         /\ t \in v.entity_components[e] <=>
              t \in w.entity_components[e] /\ ~HasComponent(w, e, t)
<1> DEFINE v == RemovedComponent(w, e, t)
<1>1. /\ w.components \in [Key -> Bytes \cup {None}]
      /\ w.sparse_components \in [Key -> Bytes \cup {None}]
      /\ w.entity_components \in [EntityId -> SUBSET ComponentType]
  BY DEF SimpleWorlds
<1>2. /\ v.components = [w.components EXCEPT ![<<e, t>>] = None]
      /\ v.sparse_components =
           IF w.components[<<e, t>>] # None THEN w.sparse_components
           ELSE [w.sparse_components EXCEPT ![<<e, t>>] = None]
      /\ v.entity_components =
           IF HasComponent(w, e, t)
           THEN [w.entity_components EXCEPT ![e] = w.entity_components[e] \ {t}]
           ELSE w.entity_components
  BY RemovedFields
<1>3. <<e, t>> \in Key /\ <<f, u>> \in Key
  BY DEF Key
<1> HIDE DEF v
<1>4. (f # e \/ u # t) => (HasComponent(v, f, u) <=> HasComponent(w, f, u))
  BY <1>1, <1>2, <1>3 DEF HasComponent
<1>5. (f # e \/ u # t) =>
        (u \in v.entity_components[f] <=> u \in w.entity_components[f])
  BY <1>1, <1>2
<1>6. HasComponent(v, e, t) <=>
        w.components[<<e, t>>] # None /\ w.sparse_components[<<e, t>>] # None
  BY <1>1, <1>2, <1>3 DEF HasComponent
<1>7. t \in v.entity_components[e] <=>
        t \in w.entity_components[e] /\ ~HasComponent(w, e, t)
  BY <1>1, <1>2
<1> QED BY <1>4, <1>5, <1>6, <1>7 DEF v

\* What a read finds: the data of either map, and None exactly when the entity
\* does not have the component.
LEMMA GetIsHas ==
  ASSUME NEW w \in SimpleWorlds, NEW e \in EntityId, NEW t \in ComponentType
  PROVE  HasComponent(w, e, t) <=> GetComponent(w, e, t) # None
  BY DEF HasComponent, GetComponent


-----------------------------------------------------------------------------
(***************************************************************************)
(* Type correctness, for the whole interface.                              *)
(***************************************************************************)

\* The other adds and removes of the interface are add_component_with_storage
\* for some storage, and remove_component.
LEMMA NextCases ==
  Next <=> \/ SpawnEntity
           \/ \E e \in EntityId, t \in ComponentType, data \in Bytes,
                 storage \in ComponentStorage :
                AddComponentWithStorage(e, t, data, storage)
           \/ \E e \in EntityId, t \in ComponentType : RemoveComponent(e, t)
           \/ \E e \in EntityId : DespawnEntity(e)
           \/ CacheNext
<1>1. Table \in ComponentStorage
  BY DEF ComponentStorage
<1>2. \A t \in ComponentType : DefaultStorage[t] \in ComponentStorage
  BY StorageAssumption
<1> QED
  BY <1>1, <1>2 DEF Next, AddComponent, SetTyped, RemoveTyped

\* A step of a query cache keeps the types and leaves the world alone.
LEMMA CacheStepType ==
  ASSUME TypeOK, CacheNext
  PROVE  TypeOK' /\ UNCHANGED <<world, typed>>
<1>1. PICK t \in ComponentType : ExecuteQuery(t) \/ Invalidate(t) \/ RecreateCache(t)
  BY DEF CacheNext
<1>2. UNCHANGED <<world, typed>>
  BY <1>1 DEF ExecuteQuery, Invalidate, RecreateCache
<1>3. world.version \in 0..U64Max /\ 0 \in 0..U64Max
  BY BoundsAssumption DEF TypeOK, SimpleWorlds
<1>4. GetEntitiesWithComponent(world, t) \in SUBSET EntityId
  BY DEF GetEntitiesWithComponent
<1>5. cache' \in [ComponentType -> Caches]
  <2>1. CASE ExecuteQuery(t)
    BY <2>1, <1>3, <1>4 DEF ExecuteQuery, TypeOK, Caches
  <2>2. CASE Invalidate(t)
    BY <2>2, <1>3 DEF Invalidate, TypeOK, Caches
  <2>3. CASE RecreateCache(t)
    BY <2>3, <1>3 DEF RecreateCache, TypeOK, Caches, NewCache
  <2> QED BY <1>1, <2>1, <2>2, <2>3
<1> QED BY <1>2, <1>5 DEF TypeOK

\* Every step of the interface keeps the types.
LEMMA StepType == TypeOK /\ [Next]_vars => TypeOK'
<1> SUFFICES ASSUME TypeOK, [Next]_vars PROVE TypeOK'
  OBVIOUS
<1> world \in SimpleWorlds
  BY DEF TypeOK
<1>1. CASE SpawnEntity
  BY <1>1, SpawnFields DEF SpawnEntity, TypeOK
<1>2. ASSUME NEW e \in EntityId, NEW t \in ComponentType, NEW data \in Bytes,
             NEW storage \in ComponentStorage,
             AddComponentWithStorage(e, t, data, storage)
      PROVE  TypeOK'
  BY <1>2, AddedFields DEF AddComponentWithStorage, TypeOK
<1>3. ASSUME NEW e \in EntityId, NEW t \in ComponentType, RemoveComponent(e, t)
      PROVE  TypeOK'
  BY <1>3, RemovedFields DEF RemoveComponent, TypeOK
<1>4. ASSUME NEW e \in EntityId, DespawnEntity(e)
      PROVE  TypeOK'
  BY <1>4, DespawnedFields DEF DespawnEntity, TypeOK
<1>5. CASE CacheNext
  BY <1>5, CacheStepType
<1>6. CASE UNCHANGED vars
  BY <1>6 DEF vars, TypeOK
<1> QED
  BY <1>1, <1>2, <1>3, <1>4, <1>5, <1>6, NextCases

\* The initial world and caches have their types.
LEMMA InitType == Init => TypeOK
  BY EmptyWorldType, BoundsAssumption DEF Init, TypeOK, NewCache, Caches

\* Whatever a contract calls, every field of the world and of the caches keeps
\* its type and the counters stay within u32 and u64.
THEOREM TypeCorrect == Spec => []TypeOK
  BY InitType, StepType, PTL DEF Spec

-----------------------------------------------------------------------------
(***************************************************************************)
(* Cache coherence, for the whole interface.                               *)
(***************************************************************************)

\* A step that bumps the version or changes no list keeps CacheInv, when the
\* caches are left alone: this is what every method of the world does.
LEMMA WorldStepCache ==
  ASSUME CacheInv, TypeOK', UNCHANGED cache,
         \/ world'.version = world.version + 1
         \/ /\ world'.version = world.version
            /\ world'.entity_components = world.entity_components
  PROVE  CacheInv'
<1> world \in SimpleWorlds /\ world' \in SimpleWorlds
  BY DEF CacheInv, TypeOK
<1> /\ world.version \in Nat
    /\ \A t \in ComponentType : cache[t].cached_version \in Nat
  BY BoundsAssumption DEF CacheInv, TypeOK, SimpleWorlds, Caches
<1>1. CASE world'.version = world.version + 1
  <2>1. \A t \in ComponentType : cache'[t].cached_version < world'.version
    BY <1>1 DEF CacheInv
  <2> QED
    BY <1>1, <2>1 DEF CacheInv, CacheCoherent, IsValid
<1>2. CASE /\ world'.version = world.version
           /\ world'.entity_components = world.entity_components
  BY <1>2 DEF CacheInv, CacheCoherent, IsValid, GetEntitiesWithComponent
<1> QED BY <1>1, <1>2

\* A scan fills a cache with the results of the query; invalidate() and a new
\* cache claim version 0, where the query finds nothing.
LEMMA CacheStepCache ==
  ASSUME CacheInv, CacheNext
  PROVE  CacheInv'
<1>1. TypeOK' /\ UNCHANGED world
  BY CacheStepType DEF CacheInv
<1>2. PICK t \in ComponentType : ExecuteQuery(t) \/ Invalidate(t) \/ RecreateCache(t)
  BY DEF CacheNext
<1>3. world.version \in Nat /\ cache \in [ComponentType -> Caches]
  BY BoundsAssumption DEF CacheInv, TypeOK, SimpleWorlds
<1>4. world.version = 0 =>
        \A u \in ComponentType : GetEntitiesWithComponent(world, u) = {}
  BY DEF CacheInv, GetEntitiesWithComponent
<1> DEFINE Good(c, u) ==
      /\ c.cached_version =< world.version
      /\ c.cached_version = world.version =>
           c.cached_results = GetEntitiesWithComponent(world, u)
<1>5. \A u \in ComponentType : Good(cache[u], u)
  BY DEF CacheInv, CacheCoherent, IsValid
<1>6. Good(cache'[t], t)
  <2>1. CASE ExecuteQuery(t)
    <3>1. CASE IsValid(t)
      BY <2>1, <3>1, <1>5 DEF ExecuteQuery
    <3>2. CASE ~IsValid(t)
      BY <2>1, <3>2, <1>3 DEF ExecuteQuery
    <3> QED BY <3>1, <3>2
  <2>2. CASE Invalidate(t)
    <3>1. /\ cache'[t].cached_version = 0
          /\ cache'[t].cached_results = cache[t].cached_results
      BY <2>2, <1>3 DEF Invalidate, Caches
    <3>2. cache[t].cached_version \in Nat
      BY BoundsAssumption, <1>3 DEF Caches
    <3> QED BY <3>1, <3>2, <1>3, <1>5
  <2>3. CASE RecreateCache(t)
    <3>1. cache'[t] = [cached_results |-> {}, cached_version |-> 0]
      BY <2>3, <1>3 DEF RecreateCache, NewCache
    <3> QED BY <3>1, <1>3, <1>4
  <2> QED BY <1>2, <2>1, <2>2, <2>3
<1>7. \A u \in ComponentType \ {t} : cache'[u] = cache[u]
  BY <1>2, <1>3 DEF ExecuteQuery, Invalidate, RecreateCache
<1>8. \A u \in ComponentType : Good(cache'[u], u)
  BY <1>5, <1>6, <1>7
<1> QED
  BY <1>1, <1>8 DEF CacheInv, CacheCoherent, IsValid

\* CacheInv is inductive.
LEMMA CacheInvStep == CacheInv /\ [Next]_vars => CacheInv'
<1> SUFFICES ASSUME CacheInv, [Next]_vars PROVE CacheInv'
  OBVIOUS
<1>0. world \in SimpleWorlds /\ TypeOK'
  BY StepType DEF CacheInv, TypeOK
<1>1. CASE SpawnEntity
  BY <1>0, <1>1, SpawnFields, WorldStepCache DEF SpawnEntity
<1>2. ASSUME NEW e \in EntityId, NEW t \in ComponentType, NEW data \in Bytes,
             NEW storage \in ComponentStorage,
             AddComponentWithStorage(e, t, data, storage)
      PROVE  CacheInv'
  <2>1. world'.version = world.version + 1 /\ UNCHANGED cache
    <3>1. /\ CanBump(world) /\ UNCHANGED cache
          /\ world' = AddedComponent(world, e, t, data, storage)
      BY <1>2 DEF AddComponentWithStorage
    <3>2. AddedComponent(world, e, t, data, storage).version = world.version + 1
      BY <1>0 DEF AddedComponent, SimpleWorlds
    <3> QED BY <3>1, <3>2
  <2> QED BY <1>0, <2>1, WorldStepCache
<1>3. ASSUME NEW e \in EntityId, NEW t \in ComponentType, RemoveComponent(e, t)
      PROVE  CacheInv'
  BY <1>0, <1>3, RemovedFields, WorldStepCache DEF RemoveComponent
<1>4. ASSUME NEW e \in EntityId, DespawnEntity(e)
      PROVE  CacheInv'
  BY <1>0, <1>4, DespawnedFields, WorldStepCache DEF DespawnEntity
<1>5. CASE CacheNext
  BY <1>5, CacheStepCache
<1>6. CASE UNCHANGED vars
  BY <1>0, <1>6, WorldStepCache DEF vars
<1> QED
  BY <1>1, <1>2, <1>3, <1>4, <1>5, <1>6, NextCases

\* SimpleQueryCache::execute never serves a stale answer, for any number of
\* calls, types and entities: when the versions agree, a scan would find the
\* cached results.
THEOREM CachesAreCoherent == Spec => []CacheCoherent
<1>1. Init => CacheInv
  <2> SUFFICES ASSUME Init PROVE CacheInv
    OBVIOUS
  <2>1. /\ world.version = 0
        /\ \A e \in EntityId : world.entity_components[e] = {}
    BY DEF Init, EmptyWorld
  <2>2. \A t \in ComponentType : /\ cache[t].cached_version = 0
                                /\ cache[t].cached_results = {}
    BY DEF Init, NewCache
  <2> QED
    BY <2>1, <2>2, InitType
    DEF CacheInv, CacheCoherent, IsValid, GetEntitiesWithComponent
<1>2. CacheInv => CacheCoherent
  BY DEF CacheInv
<1> QED
  BY <1>1, <1>2, CacheInvStep, PTL DEF Spec

-----------------------------------------------------------------------------
(***************************************************************************)
(* The lists of types against the two maps.                                *)
(***************************************************************************)

\* Every step of the interface keeps listed components backed by data.
LEMMA ListedStep ==
  ASSUME TypeOK, ListedComponentsExist, [Next]_vars
  PROVE  ListedComponentsExist'
<1> USE DEF ListedComponentsExist
<1> world \in SimpleWorlds /\ world.entity_components \in [EntityId -> SUBSET ComponentType]
  BY DEF TypeOK, SimpleWorlds
<1>0. ASSUME \A f \in EntityId, u \in ComponentType :
               u \in world'.entity_components[f] => HasComponent(world', f, u)
      PROVE  ListedComponentsExist'
  <2>1. world'.entity_components \in [EntityId -> SUBSET ComponentType]
    BY StepType DEF TypeOK, SimpleWorlds
  <2> QED BY <1>0, <2>1
<1>1. CASE SpawnEntity
  <2>1. CanSpawn(world) /\ world' = SpawnedWorld(world)
    BY <1>1 DEF SpawnEntity
  <2>2. /\ world'.entity_components = world.entity_components
        /\ world'.components = world.components
        /\ world'.sparse_components = world.sparse_components
    BY <2>1, SpawnFields
  <2> QED BY <1>0, <2>2 DEF HasComponent
<1>2. ASSUME NEW e \in EntityId, NEW t \in ComponentType, NEW data \in Bytes,
             NEW storage \in ComponentStorage,
             AddComponentWithStorage(e, t, data, storage)
      PROVE  ListedComponentsExist'
  <2>1. CanBump(world) /\ world' = AddedComponent(world, e, t, data, storage)
    BY <1>2 DEF AddComponentWithStorage
  <2> QED BY <1>0, <2>1, AddedHas
<1>3. ASSUME NEW e \in EntityId, NEW t \in ComponentType, RemoveComponent(e, t)
      PROVE  ListedComponentsExist'
  <2>1. CanBump(world) /\ world' = RemovedComponent(world, e, t)
    BY <1>3 DEF RemoveComponent
  <2>2. ASSUME NEW f \in EntityId, NEW u \in ComponentType,
               u \in world'.entity_components[f]
        PROVE  HasComponent(world', f, u)
    <3>1. CASE (f # e \/ u # t)
      <4>1. u \in world.entity_components[f]
        BY <2>1, <2>2, <3>1, RemovedHas
      <4>2. HasComponent(world, f, u)
        BY <4>1
      <4> QED BY <2>1, <3>1, <4>2, RemovedHas
    <3>2. CASE f = e /\ u = t
      BY <2>1, <2>2, <3>2, RemovedHas
    <3> QED BY <3>1, <3>2
  <2> QED BY <1>0, <2>2
<1>4. ASSUME NEW e \in EntityId, DespawnEntity(e)
      PROVE  ListedComponentsExist'
  <2>1. CanBump(world) /\ world' = DespawnedEntity(world, e)
    BY <1>4 DEF DespawnEntity
  <2> QED BY <1>0, <2>1, DespawnedHas
<1>5. CASE UNCHANGED world
  BY <1>5 DEF HasComponent
<1> QED
  BY <1>1, <1>2, <1>3, <1>4, <1>5, CacheStepType, NextCases DEF vars

\* Whatever storage kinds a contract mixes, a type that is listed for an entity
\* has data in one of the two maps.
THEOREM ListedComponentsAreStored == Spec => []ListedComponentsExist
<1>1. Init => ListedComponentsExist
  BY DEF Init, EmptyWorld, ListedComponentsExist
<1>2. TypeOK /\ ListedComponentsExist /\ [Next]_vars => ListedComponentsExist'
  BY ListedStep
<1> QED
  BY <1>1, <1>2, TypeCorrect, PTL DEF Spec

-----------------------------------------------------------------------------
(***************************************************************************)
(* Typed calls implement EcsStore.                                         *)
(***************************************************************************)

\* The part of TypedInv about one component, on a world w.
Placed(w, e, t) ==
    /\ t \in w.entity_components[e] <=> HasComponent(w, e, t)
    /\ DefaultStorage[t] = Table  => w.sparse_components[<<e, t>>] = None
    /\ DefaultStorage[t] = Sparse => w.components[<<e, t>>] = None

\* set_typed writes the map of the type: the component is placed there, it is
\* read back, and every other component reads as before.
LEMMA SetTypedEffect ==
  ASSUME NEW w \in SimpleWorlds, CanBump(w),
         NEW e \in EntityId, NEW t \in ComponentType, NEW data \in Bytes,
         NEW f \in EntityId, NEW u \in ComponentType, Placed(w, f, u)
  PROVE  LET v == AddedComponent(w, e, t, data, DefaultStorage[t]) IN
         /\ Placed(v, f, u)
         /\ GetComponent(v, f, u) =
              IF f = e /\ u = t THEN data ELSE GetComponent(w, f, u)
<1> DEFINE v == AddedComponent(w, e, t, data, DefaultStorage[t])
<1>0. DefaultStorage[t] \in ComponentStorage
  BY StorageAssumption
<1>1. /\ w.components \in [Key -> Bytes \cup {None}]
      /\ w.sparse_components \in [Key -> Bytes \cup {None}]
  BY DEF SimpleWorlds
<1>2. /\ v.components =
           IF DefaultStorage[t] = Table
           THEN [w.components EXCEPT ![<<e, t>>] = data] ELSE w.components
      /\ v.sparse_components =
           IF DefaultStorage[t] = Sparse
           THEN [w.sparse_components EXCEPT ![<<e, t>>] = data]
           ELSE w.sparse_components
  BY DEF AddedComponent, SimpleWorlds
<1>3. <<e, t>> \in Key /\ <<f, u>> \in Key
  BY DEF Key
<1>4. u \in v.entity_components[f] <=> HasComponent(v, f, u)
  BY <1>0, AddedHas DEF Placed
<1>5. data # None
  BY NoneAssumption
<1> HIDE DEF v
<1>6. CASE DefaultStorage[t] = Table
  <2>1. /\ v.components = [w.components EXCEPT ![<<e, t>>] = data]
        /\ v.sparse_components = w.sparse_components
    BY <1>2, <1>6 DEF Table, Sparse
  <2>2. /\ v.components[<<f, u>>] =
             IF f = e /\ u = t THEN data ELSE w.components[<<f, u>>]
        /\ v.sparse_components[<<f, u>>] = w.sparse_components[<<f, u>>]
    BY <1>1, <1>3, <2>1
  <2>3. f = e /\ u = t => DefaultStorage[u] # Sparse
    BY <1>6 DEF Table, Sparse
  <2> QED
    BY <1>4, <1>5, <2>2, <2>3 DEF Placed, GetComponent, v
<1>7. CASE DefaultStorage[t] = Sparse
  <2>1. /\ v.components = w.components
        /\ v.sparse_components = [w.sparse_components EXCEPT ![<<e, t>>] = data]
    BY <1>2, <1>7 DEF Table, Sparse
  <2>2. /\ v.components[<<f, u>>] = w.components[<<f, u>>]
        /\ v.sparse_components[<<f, u>>] =
             IF f = e /\ u = t THEN data ELSE w.sparse_components[<<f, u>>]
    BY <1>1, <1>3, <2>1
  <2>3. f = e /\ u = t => DefaultStorage[u] = Sparse /\ DefaultStorage[u] # Table
    BY <1>7 DEF Table, Sparse
  <2> QED
    BY <1>4, <1>5, <2>2, <2>3 DEF Placed, GetComponent, v
<1> QED BY <1>0, <1>6, <1>7 DEF ComponentStorage

\* remove_typed removes the component, whichever map holds it.
LEMMA RemoveTypedEffect ==
  ASSUME NEW w \in SimpleWorlds, CanBump(w),
         NEW e \in EntityId, NEW t \in ComponentType, Placed(w, e, t),
         NEW f \in EntityId, NEW u \in ComponentType, Placed(w, f, u)
  PROVE  LET v == RemovedComponent(w, e, t) IN
         /\ Placed(v, f, u)
         /\ GetComponent(v, f, u) =
              IF f = e /\ u = t THEN None ELSE GetComponent(w, f, u)
<1> DEFINE v == RemovedComponent(w, e, t)
<1>0. DefaultStorage[t] = Table \/ DefaultStorage[t] = Sparse
  BY StorageAssumption DEF ComponentStorage
<1>1. /\ w.components \in [Key -> Bytes \cup {None}]
      /\ w.sparse_components \in [Key -> Bytes \cup {None}]
  BY DEF SimpleWorlds
<1>2. /\ v.components = [w.components EXCEPT ![<<e, t>>] = None]
      /\ v.sparse_components =
           IF w.components[<<e, t>>] # None THEN w.sparse_components
           ELSE [w.sparse_components EXCEPT ![<<e, t>>] = None]
  BY DEF RemovedComponent, SimpleWorlds
<1>3. <<e, t>> \in Key /\ <<f, u>> \in Key
  BY DEF Key
<1>4. w.components[<<e, t>>] = None \/ w.sparse_components[<<e, t>>] = None
  BY <1>0 DEF Placed
<1>5. CASE f = e /\ u = t
  <2>1. v.components[<<e, t>>] = None
    BY <1>1, <1>2, <1>3
  <2>2. v.sparse_components[<<e, t>>] = None
    BY <1>1, <1>2, <1>3, <1>4
  <2>3. t \notin v.entity_components[e]
    BY <1>5, RemovedHas DEF Placed
  <2> QED
    BY <1>5, <2>1, <2>2, <2>3 DEF Placed, HasComponent, GetComponent
<1>6. CASE f # e \/ u # t
  <2>1. /\ v.components[<<f, u>>] = w.components[<<f, u>>]
        /\ v.sparse_components[<<f, u>>] = w.sparse_components[<<f, u>>]
    BY <1>1, <1>2, <1>3, <1>6
  <2>2. u \in v.entity_components[f] <=> u \in w.entity_components[f]
    BY <1>6, RemovedHas
  <2> HIDE DEF v
  <2> QED
    BY <1>6, <2>1, <2>2 DEF Placed, HasComponent, GetComponent, v
<1> QED BY <1>5, <1>6

\* despawn_entity removes every component of the entity and no other.
LEMMA DespawnEffect ==
  ASSUME NEW w \in SimpleWorlds, CanBump(w), NEW e \in EntityId,
         NEW f \in EntityId, NEW u \in ComponentType, Placed(w, f, u)
  PROVE  LET v == DespawnedEntity(w, e) IN
         /\ Placed(v, f, u)
         /\ GetComponent(v, f, u) = IF f = e THEN None ELSE GetComponent(w, f, u)
<1> DEFINE v == DespawnedEntity(w, e)
           gone == f = e /\ u \in w.entity_components[e]
<1>1. <<f, u>> \in Key
  BY DEF Key
<1>2. v.components = [k \in Key |-> IF k[1] = e /\ k[2] \in w.entity_components[e]
                                   THEN None ELSE w.components[k]]
  BY DespawnedFields
<1>3. v.sparse_components =
        [k \in Key |-> IF k[1] = e /\ k[2] \in w.entity_components[e]
                      THEN None ELSE w.sparse_components[k]]
  BY DespawnedFields
<1>4. u \in v.entity_components[f] <=> u \in w.entity_components[f] /\ f # e
  BY DespawnedHas
<1> HIDE DEF v
<1>5. /\ v.components[<<f, u>>] = IF gone THEN None ELSE w.components[<<f, u>>]
      /\ v.sparse_components[<<f, u>>] =
           IF gone THEN None ELSE w.sparse_components[<<f, u>>]
  BY <1>1, <1>2, <1>3
<1>6. CASE f = e
  BY <1>4, <1>5, <1>6 DEF Placed, HasComponent, GetComponent, v
<1>7. CASE f # e
  BY <1>4, <1>5, <1>7 DEF Placed, HasComponent, GetComponent, v
<1> QED BY <1>6, <1>7

\* The mapped state after a step of the world: every component is placed, and
\* the store changes as EcsStore says.
View(w) == [e \in EntityId |-> [t \in ComponentType |-> GetComponent(w, e, t)]]

AllPlaced(w) == \A e \in EntityId, t \in ComponentType : Placed(w, e, t)

\* set_typed is Set of EcsStore.
LEMMA SetTypedStep ==
  ASSUME NEW w \in SimpleWorlds, CanBump(w), AllPlaced(w),
         NEW e \in EntityId, NEW t \in ComponentType, NEW data \in Bytes
  PROVE  LET v == AddedComponent(w, e, t, data, DefaultStorage[t]) IN
         AllPlaced(v) /\ View(v) = [View(w) EXCEPT ![e][t] = data]
<1> DEFINE v == AddedComponent(w, e, t, data, DefaultStorage[t])
<1>1. \A f \in EntityId, u \in ComponentType :
        /\ Placed(v, f, u)
        /\ GetComponent(v, f, u) =
             IF f = e /\ u = t THEN data ELSE GetComponent(w, f, u)
  BY SetTypedEffect DEF AllPlaced
<1> HIDE DEF v
<1>2. View(v) = [View(w) EXCEPT ![e][t] = data]
  BY <1>1 DEF View
<1> QED BY <1>1, <1>2 DEF AllPlaced, v

\* remove_typed is Remove of EcsStore.
LEMMA RemoveTypedStep ==
  ASSUME NEW w \in SimpleWorlds, CanBump(w), AllPlaced(w),
         NEW e \in EntityId, NEW t \in ComponentType
  PROVE  LET v == RemovedComponent(w, e, t) IN
         AllPlaced(v) /\ View(v) = [View(w) EXCEPT ![e][t] = None]
<1> DEFINE v == RemovedComponent(w, e, t)
<1>1. \A f \in EntityId, u \in ComponentType :
        /\ Placed(v, f, u)
        /\ GetComponent(v, f, u) =
             IF f = e /\ u = t THEN None ELSE GetComponent(w, f, u)
  BY RemoveTypedEffect DEF AllPlaced
<1> HIDE DEF v
<1>2. View(v) = [View(w) EXCEPT ![e][t] = None]
  BY <1>1 DEF View
<1> QED BY <1>1, <1>2 DEF AllPlaced, v

\* despawn_entity is Despawn of EcsStore.
LEMMA DespawnStep ==
  ASSUME NEW w \in SimpleWorlds, CanBump(w), AllPlaced(w), NEW e \in EntityId
  PROVE  LET v == DespawnedEntity(w, e) IN
         /\ AllPlaced(v)
         /\ View(v) = [View(w) EXCEPT ![e] = [t \in ComponentType |-> None]]
<1> DEFINE v == DespawnedEntity(w, e)
<1>1. \A f \in EntityId, u \in ComponentType :
        /\ Placed(v, f, u)
        /\ GetComponent(v, f, u) = IF f = e THEN None ELSE GetComponent(w, f, u)
  BY DespawnEffect DEF AllPlaced
<1> HIDE DEF v
<1>2. View(v) = [View(w) EXCEPT ![e] = [t \in ComponentType |-> None]]
  BY <1>1 DEF View
<1> QED BY <1>1, <1>2 DEF AllPlaced, v

\* With every component placed, a query returns what EcsStore says it finds.
LEMMA FoundIsMatching ==
  ASSUME NEW w \in SimpleWorlds, AllPlaced(w)
  PROVE  [t \in ComponentType |-> GetEntitiesWithComponent(w, t)] =
           Abstract!Matching(View(w))
  BY GetIsHas DEF AllPlaced, Placed, View, GetEntitiesWithComponent, Abstract!Matching

\* A step that leaves typed TRUE keeps TypedInv, and it is a step of EcsStore
\* or changes nothing EcsStore sees.
LEMMA TypedStep ==
  ASSUME TypedInv, [Next]_vars, typed'
  PROVE  TypedInv' /\ [Abstract!Next]_(Abstract!svars)
<1>0. typed
  <2>1. CASE CacheNext
    BY <2>1, CacheStepType DEF TypedInv
  <2>2. CASE SpawnEntity \/ \E e \in EntityId : DespawnEntity(e)
    BY <2>2 DEF SpawnEntity, DespawnEntity
  <2>3. CASE \E e \in EntityId, t \in ComponentType : RemoveComponent(e, t)
    BY <2>3 DEF RemoveComponent
  <2>4. CASE \E e \in EntityId, t \in ComponentType, data \in Bytes,
               storage \in ComponentStorage :
               AddComponentWithStorage(e, t, data, storage)
    BY <2>4 DEF AddComponentWithStorage
  <2>5. CASE UNCHANGED vars
    BY <2>5 DEF vars
  <2> QED BY <2>1, <2>2, <2>3, <2>4, <2>5, NextCases
<1>a. /\ world \in SimpleWorlds /\ AllPlaced(world)
      /\ world' \in SimpleWorlds /\ TypeOK'
  BY <1>0, StepType DEF TypedInv, TypeOK, AllPlaced, Placed
<1> DEFINE found(w) == [t \in ComponentType |-> GetEntitiesWithComponent(w, t)]
<1>1. ASSUME AllPlaced(world')
      PROVE  TypedInv' /\ found(world') = Abstract!Matching(View(world'))
  <2>1. TypedInv'
    BY <1>a, <1>1 DEF TypedInv, AllPlaced, Placed
  <2>2. found(world') = Abstract!Matching(View(world'))
    BY <1>a, <1>1, FoundIsMatching
  <2> QED BY <2>1, <2>2
<1>2. ASSUME UNCHANGED <<world.components, world.sparse_components,
                         world.entity_components>>
      PROVE  TypedInv' /\ UNCHANGED Abstract!svars
  <2>1. AllPlaced(world')
    BY <1>a, <1>2 DEF AllPlaced, Placed, HasComponent
  <2>2. View(world') = View(world) /\ found(world') = found(world)
    BY <1>2 DEF View, GetComponent, GetEntitiesWithComponent
  <2> QED BY <1>1, <2>1, <2>2 DEF Abstract!svars, View
<1>3. CASE SpawnEntity
  <2>1. CanSpawn(world) /\ world' = SpawnedWorld(world)
    BY <1>3 DEF SpawnEntity
  <2> QED BY <1>a, <1>2, <2>1, SpawnFields
<1>4. ASSUME NEW e \in EntityId, NEW t \in ComponentType, NEW data \in Bytes,
             SetTyped(e, t, data)
      PROVE  TypedInv' /\ Abstract!Next
  <2>1. /\ CanBump(world)
        /\ world' = AddedComponent(world, e, t, data, DefaultStorage[t])
    BY <1>4 DEF SetTyped, AddComponentWithStorage
  <2>2. AllPlaced(world') /\ View(world') = [View(world) EXCEPT ![e][t] = data]
    BY <1>a, <2>1, SetTypedStep
  <2>3. Abstract!Set(e, t, data)
    BY <2>2 DEF Abstract!Set, View
  <2>4. TypedInv' /\ found(world') = Abstract!Matching(View(world'))
    BY <1>1, <2>2
  <2> QED BY <2>3, <2>4 DEF Abstract!Next, View
<1>5. ASSUME NEW e \in EntityId, NEW t \in ComponentType, RemoveComponent(e, t)
      PROVE  TypedInv' /\ Abstract!Next
  <2>1. CanBump(world) /\ world' = RemovedComponent(world, e, t)
    BY <1>5 DEF RemoveComponent
  <2>2. AllPlaced(world') /\ View(world') = [View(world) EXCEPT ![e][t] = None]
    BY <1>a, <2>1, RemoveTypedStep
  <2> QED BY <1>1, <2>2 DEF Abstract!Next, Abstract!Remove, View
<1>6. ASSUME NEW e \in EntityId, DespawnEntity(e)
      PROVE  TypedInv' /\ Abstract!Next
  <2>1. CanBump(world) /\ world' = DespawnedEntity(world, e)
    BY <1>6 DEF DespawnEntity
  <2>2. /\ AllPlaced(world')
        /\ View(world') = [View(world) EXCEPT ![e] = [t \in ComponentType |-> None]]
    BY <1>a, <2>1, DespawnStep
  <2> QED BY <1>1, <2>2 DEF Abstract!Next, Abstract!Despawn, View
<1>7. CASE UNCHANGED world
  BY <1>2, <1>7
<1>8. ASSUME NEW e \in EntityId, NEW t \in ComponentType, NEW data \in Bytes,
             NEW storage \in ComponentStorage,
             AddComponentWithStorage(e, t, data, storage)
      PROVE  TypedInv' /\ Abstract!Next
  <2>1. SetTyped(e, t, data)
    BY <1>8 DEF SetTyped, AddComponentWithStorage
  <2> QED BY <1>4, <2>1
<1> QED
  BY <1>3, <1>4, <1>5, <1>6, <1>7, <1>8, CacheStepType, NextCases
  DEF TypedInv, vars

\* TypedInv is inductive: once the rule is broken it only says TypeOK.
LEMMA TypedInvStep == TypedInv /\ [Next]_vars => TypedInv'
  BY TypedStep, StepType DEF TypedInv

\* The empty world places every component and maps to the empty store.
LEMMA TypedInit == Init => TypedInv /\ Abstract!Init
<1> SUFFICES ASSUME Init PROVE TypedInv /\ Abstract!Init
  OBVIOUS
<1>1. world \in SimpleWorlds
  BY InitType DEF TypeOK
<1>2. \A e \in EntityId, t \in ComponentType :
        /\ world.components[<<e, t>>] = None
        /\ world.sparse_components[<<e, t>>] = None
        /\ world.entity_components[e] = {}
  BY DEF Init, EmptyWorld, Key
<1>3. AllPlaced(world)
  BY <1>2 DEF AllPlaced, Placed, HasComponent
<1>4. View(world) = [e \in EntityId |-> [t \in ComponentType |-> None]]
  BY <1>2 DEF View, GetComponent
<1> QED
  BY <1>1, <1>3, <1>4, InitType, FoundIsMatching
  DEF TypedInv, AllPlaced, Placed, Abstract!Init, View

\* A contract that adds every component with the storage its type selects sees a plain store from (entity, type)
\* to data: set_typed, remove_typed and despawn_entity have exactly the effects
\* of Set, Remove and Despawn, and a query finds exactly the entities that have
\* the type.
THEOREM TypedWorldIsAStore == Spec => ImplementsEcsStore
<1>1. TypedInv /\ [Next]_vars => (typed' => [Abstract!Next]_(Abstract!svars))
  BY TypedStep
<1> QED
  BY <1>1, TypedInit, TypedInvStep, PTL DEF Spec, ImplementsEcsStore

\* For such a contract the list-based query and the scans of the maps agree.
THEOREM TypedQueriesAgree == Spec => []QueriesAgree
<1>1. TypedInv => QueriesAgree
  <2> SUFFICES ASSUME TypedInv, typed, NEW t \in ComponentType
               PROVE  /\ GetEntitiesWithComponent(world, t) =
                            GetAllEntitiesWithComponent(world, t)
                      /\ GetTableEntitiesWithComponent(world, t) =
                            IF DefaultStorage[t] = Table
                            THEN GetEntitiesWithComponent(world, t) ELSE {}
    BY DEF QueriesAgree
  <2>1. \A e \in EntityId : t \in world.entity_components[e] <=> HasComponent(world, e, t)
    BY DEF TypedInv
  <2>2. GetEntitiesWithComponent(world, t) = GetAllEntitiesWithComponent(world, t)
    BY <2>1 DEF GetEntitiesWithComponent, GetAllEntitiesWithComponent
  <2>3. DefaultStorage[t] = Table =>
          GetTableEntitiesWithComponent(world, t) = GetEntitiesWithComponent(world, t)
    <3> SUFFICES ASSUME DefaultStorage[t] = Table
                 PROVE  \A e \in EntityId :
                          (world.entity_components[e] # {} /\ world.components[<<e, t>>] # None)
                            <=> t \in world.entity_components[e]
      BY DEF GetEntitiesWithComponent, GetTableEntitiesWithComponent
    <3> QED BY <2>1 DEF TypedInv, HasComponent
  <2>4. DefaultStorage[t] # Table => GetTableEntitiesWithComponent(world, t) = {}
    <3>1. DefaultStorage[t] # Table => DefaultStorage[t] = Sparse
      BY StorageAssumption DEF ComponentStorage
    <3> QED BY <3>1 DEF TypedInv, GetTableEntitiesWithComponent
  <2> QED
    BY <2>2, <2>3, <2>4
<1> QED
  BY <1>1, TypedInit, TypedInvStep, PTL DEF Spec
=============================================================================
