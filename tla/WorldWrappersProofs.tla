------------------------ MODULE WorldWrappersProofs ------------------------
(***************************************************************************)
(* Theorems about the wrappers, the command queue and the snapshots of     *)
(* WorldWrappers, for every set of component types and data, every set of  *)
(* callbacks and every bound of the counters and of the queue.             *)
(***************************************************************************)
EXTENDS WorldWrappers, WellFoundedInduction, TLAPS

-----------------------------------------------------------------------------
(***************************************************************************)
(* What the methods of SimpleWorld do to a well-formed world.              *)
(***************************************************************************)

\* SimpleWorld::new returns a well-formed world.
LEMMA EmptyWorldType == EmptyWorld \in SimpleWorlds
  BY BoundsAssumption DEF EmptyWorld, SimpleWorlds, EntityId, Key

\* spawn_entity changes next_entity_id only, up to the u32 overflow check.
LEMMA SpawnFields ==
  ASSUME NEW w \in SimpleWorlds, CanSpawn(w)
  PROVE  LET v == SpawnedWorld(w) IN
         /\ v \in SimpleWorlds
         /\ v.version = w.version
         /\ v.components = w.components
         /\ v.sparse_components = w.sparse_components
         /\ v.entity_components = w.entity_components
  BY BoundsAssumption DEF SpawnedWorld, SimpleWorlds, EntityId, CanSpawn

\* add_component_with_storage writes one entry of one map and lists its type.
LEMMA AddedFields ==
  ASSUME NEW w \in SimpleWorlds, CanBump(w),
         NEW e \in EntityId, NEW t \in ComponentType, NEW data \in Bytes,
         NEW storage \in ComponentStorage
  PROVE  LET v == AddedComponent(w, e, t, data, storage) IN
         /\ v \in SimpleWorlds
         /\ v.version = w.version + 1
         /\ v.components =
              IF storage = Table THEN [w.components EXCEPT ![<<e, t>>] = data]
                                 ELSE w.components
         /\ v.sparse_components =
              IF storage = Sparse THEN [w.sparse_components EXCEPT ![<<e, t>>] = data]
                                  ELSE w.sparse_components
         /\ v.entity_components =
              [w.entity_components EXCEPT ![e] = w.entity_components[e] \cup {t}]
<1> DEFINE k == <<e, t>>
<1>1. w.version + 1 \in 0..U64Max
  BY BoundsAssumption DEF SimpleWorlds, CanBump
<1>2. k \in Key
  BY DEF Key
<1>3. [w.components EXCEPT ![k] = data] \in [Key -> Bytes \cup {None}]
  BY <1>2 DEF SimpleWorlds
<1>4. [w.sparse_components EXCEPT ![k] = data] \in [Key -> Bytes \cup {None}]
  BY <1>2 DEF SimpleWorlds
<1>5. [w.entity_components EXCEPT ![e] = w.entity_components[e] \cup {t}]
        \in [EntityId -> SUBSET ComponentType]
  BY DEF SimpleWorlds
<1> HIDE DEF k
<1> QED
  BY <1>1, <1>3, <1>4, <1>5 DEF AddedComponent, SimpleWorlds, k

\* remove_component clears one entry and drops the type when it found data.
LEMMA RemovedFields ==
  ASSUME NEW w \in SimpleWorlds, CanBump(w),
         NEW e \in EntityId, NEW t \in ComponentType
  PROVE  LET v == RemovedComponent(w, e, t) IN
         /\ v \in SimpleWorlds
         /\ v.version = w.version + 1
         /\ v.components = [w.components EXCEPT ![<<e, t>>] = None]
         /\ v.sparse_components =
              IF w.components[<<e, t>>] # None THEN w.sparse_components
              ELSE [w.sparse_components EXCEPT ![<<e, t>>] = None]
         /\ v.entity_components =
              IF HasComponent(w, e, t)
              THEN [w.entity_components EXCEPT ![e] = w.entity_components[e] \ {t}]
              ELSE w.entity_components
<1> DEFINE k == <<e, t>>
<1>1. w.version + 1 \in 0..U64Max
  BY BoundsAssumption DEF SimpleWorlds, CanBump
<1>2. k \in Key
  BY DEF Key
<1>3. [w.components EXCEPT ![k] = None] \in [Key -> Bytes \cup {None}]
  BY <1>2 DEF SimpleWorlds
<1>4. [w.sparse_components EXCEPT ![k] = None] \in [Key -> Bytes \cup {None}]
  BY <1>2 DEF SimpleWorlds
<1>5. [w.entity_components EXCEPT ![e] = w.entity_components[e] \ {t}]
        \in [EntityId -> SUBSET ComponentType]
  BY DEF SimpleWorlds
<1> HIDE DEF k
<1> QED
  BY <1>1, <1>3, <1>4, <1>5 DEF RemovedComponent, SimpleWorlds, HasComponent, k

\* despawn_entity clears the listed entries of the entity in both maps.
LEMMA DespawnedFields ==
  ASSUME NEW w \in SimpleWorlds, CanBump(w), NEW e \in EntityId
  PROVE  LET v == DespawnedEntity(w, e)
             cleared(m) == [k \in Key |->
                              IF k[1] = e /\ k[2] \in w.entity_components[e]
                              THEN None ELSE m[k]] IN
         /\ v \in SimpleWorlds
         /\ v.version = w.version + 1
         /\ v.components = cleared(w.components)
         /\ v.sparse_components = cleared(w.sparse_components)
         /\ v.entity_components = [w.entity_components EXCEPT ![e] = {}]
<1> DEFINE cleared(m) == [k \in Key |->
                            IF k[1] = e /\ k[2] \in w.entity_components[e]
                            THEN None ELSE m[k]]
<1>1. w.version + 1 \in 0..U64Max
  BY BoundsAssumption DEF SimpleWorlds, CanBump
<1>2. cleared(w.components) \in [Key -> Bytes \cup {None}]
  BY DEF SimpleWorlds
<1>3. cleared(w.sparse_components) \in [Key -> Bytes \cup {None}]
  BY DEF SimpleWorlds
<1>4. [w.entity_components EXCEPT ![e] = {}] \in [EntityId -> SUBSET ComponentType]
  BY DEF SimpleWorlds
<1> QED
  BY <1>1, <1>2, <1>3, <1>4 DEF DespawnedEntity, SimpleWorlds

\* After add_component_with_storage the entity has that component too.
LEMMA AddedHas ==
  ASSUME NEW w \in SimpleWorlds, CanBump(w),
         NEW e \in EntityId, NEW t \in ComponentType, NEW data \in Bytes,
         NEW storage \in ComponentStorage,
         NEW f \in EntityId, NEW u \in ComponentType
  PROVE  LET v == AddedComponent(w, e, t, data, storage) IN
         /\ HasComponent(v, f, u) <=> HasComponent(w, f, u) \/ <<f, u>> = <<e, t>>
         /\ u \in v.entity_components[f] <=>
              u \in w.entity_components[f] \/ <<f, u>> = <<e, t>>
<1> DEFINE v == AddedComponent(w, e, t, data, storage)
<1>1. /\ w.components \in [Key -> Bytes \cup {None}]
      /\ w.sparse_components \in [Key -> Bytes \cup {None}]
      /\ w.entity_components \in [EntityId -> SUBSET ComponentType]
  BY DEF SimpleWorlds
<1>2. /\ v.components =
           IF storage = Table THEN [w.components EXCEPT ![<<e, t>>] = data]
                              ELSE w.components
      /\ v.sparse_components =
           IF storage = Sparse THEN [w.sparse_components EXCEPT ![<<e, t>>] = data]
                               ELSE w.sparse_components
      /\ v.entity_components =
           [w.entity_components EXCEPT ![e] = w.entity_components[e] \cup {t}]
  BY AddedFields
<1>3. <<e, t>> \in Key /\ <<f, u>> \in Key
  BY DEF Key
<1> HIDE DEF v
<1>4. u \in v.entity_components[f] <=>
        u \in w.entity_components[f] \/ <<f, u>> = <<e, t>>
  BY <1>1, <1>2
<1>5. HasComponent(v, f, u) <=> HasComponent(w, f, u) \/ <<f, u>> = <<e, t>>
  <2>1. CASE storage = Table
    BY <2>1, <1>1, <1>2, <1>3, NoneAssumption DEF HasComponent, Table, Sparse
  <2>2. CASE storage = Sparse
    BY <2>2, <1>1, <1>2, <1>3, NoneAssumption DEF HasComponent, Table, Sparse
  <2> QED BY <2>1, <2>2 DEF ComponentStorage
<1> QED BY <1>4, <1>5 DEF v

\* After despawn_entity the listed components of the entity are gone.
LEMMA DespawnedHas ==
  ASSUME NEW w \in SimpleWorlds, CanBump(w), NEW e \in EntityId,
         NEW f \in EntityId, NEW u \in ComponentType
  PROVE  LET v == DespawnedEntity(w, e) IN
         /\ HasComponent(v, f, u) <=>
              HasComponent(w, f, u) /\ ~(f = e /\ u \in w.entity_components[e])
         /\ u \in v.entity_components[f] <=> u \in w.entity_components[f] /\ f # e
<1> DEFINE v == DespawnedEntity(w, e)
           gone == f = e /\ u \in w.entity_components[e]
<1>1. <<f, u>> \in Key
  BY DEF Key
<1>2. /\ v.components[<<f, u>>] = IF gone THEN None ELSE w.components[<<f, u>>]
      /\ v.sparse_components[<<f, u>>] =
           IF gone THEN None ELSE w.sparse_components[<<f, u>>]
  <2>1. v.components = [k \in Key |-> IF k[1] = e /\ k[2] \in w.entity_components[e]
                                     THEN None ELSE w.components[k]]
    BY DespawnedFields
  <2>2. v.sparse_components =
          [k \in Key |-> IF k[1] = e /\ k[2] \in w.entity_components[e]
                        THEN None ELSE w.sparse_components[k]]
    BY DespawnedFields
  <2> HIDE DEF v
  <2> QED BY <1>1, <2>1, <2>2
<1>3. v.entity_components = [w.entity_components EXCEPT ![e] = {}]
  BY DespawnedFields
<1>4. w.entity_components \in [EntityId -> SUBSET ComponentType]
  BY DEF SimpleWorlds
<1> HIDE DEF v
<1>5. u \in v.entity_components[f] <=> u \in w.entity_components[f] /\ f # e
  BY <1>3, <1>4
<1>6. HasComponent(v, f, u) <=> HasComponent(w, f, u) /\ ~gone
  BY <1>2 DEF HasComponent
<1> QED BY <1>5, <1>6 DEF v

\* remove_component leaves all other components and their listing alone, and
\* the removed component is not listed any more.
LEMMA RemovedHas ==
  ASSUME NEW w \in SimpleWorlds, CanBump(w),
         NEW e \in EntityId, NEW t \in ComponentType,
         NEW f \in EntityId, NEW u \in ComponentType
  PROVE  LET v == RemovedComponent(w, e, t) IN
         /\ (f # e \/ u # t) =>
              /\ HasComponent(v, f, u) <=> HasComponent(w, f, u)
              /\ u \in v.entity_components[f] <=> u \in w.entity_components[f]
         /\ HasComponent(v, e, t) <=>
              w.components[<<e, t>>] # None /\ w.sparse_components[<<e, t>>] # None
         /\ t \in v.entity_components[e] <=>
              t \in w.entity_components[e] /\ ~HasComponent(w, e, t)
<1> DEFINE v == RemovedComponent(w, e, t)
<1>1. /\ w.components \in [Key -> Bytes \cup {None}]
      /\ w.sparse_components \in [Key -> Bytes \cup {None}]
      /\ w.entity_components \in [EntityId -> SUBSET ComponentType]
  BY DEF SimpleWorlds
<1>2. /\ v.components = [w.components EXCEPT ![<<e, t>>] = None]
      /\ v.sparse_components =
           IF w.components[<<e, t>>] # None THEN w.sparse_components
           ELSE [w.sparse_components EXCEPT ![<<e, t>>] = None]
      /\ v.entity_components =
           IF HasComponent(w, e, t)
           THEN [w.entity_components EXCEPT ![e] = w.entity_components[e] \ {t}]
           ELSE w.entity_components
  BY RemovedFields
<1>3. <<e, t>> \in Key /\ <<f, u>> \in Key
  BY DEF Key
<1> HIDE DEF v
<1>4. (f # e \/ u # t) => (HasComponent(v, f, u) <=> HasComponent(w, f, u))
  BY <1>1, <1>2, <1>3 DEF HasComponent
<1>5. (f # e \/ u # t) =>
        (u \in v.entity_components[f] <=> u \in w.entity_components[f])
  BY <1>1, <1>2
<1>6. HasComponent(v, e, t) <=>
        w.components[<<e, t>>] # None /\ w.sparse_components[<<e, t>>] # None
  BY <1>1, <1>2, <1>3 DEF HasComponent
<1>7. t \in v.entity_components[e] <=>
        t \in w.entity_components[e] /\ ~HasComponent(w, e, t)
  BY <1>1, <1>2
<1> QED BY <1>4, <1>5, <1>6, <1>7 DEF v

\* What a read finds: the data of either map, and None exactly when the entity
\* does not have the component.
LEMMA GetIsHas ==
  ASSUME NEW w \in SimpleWorlds, NEW e \in EntityId, NEW t \in ComponentType
  PROVE  HasComponent(w, e, t) <=> GetComponent(w, e, t) # None
  BY DEF HasComponent, GetComponent

\* What it reads after an addition: the data, unless the table map hides it.
LEMMA ReadAfterAddition ==
  ASSUME NEW w \in SimpleWorlds, CanBump(w), NEW e \in EntityId, NEW t \in ComponentType,
         NEW data \in Bytes, NEW storage \in ComponentStorage,
         NEW f \in EntityId, NEW u \in ComponentType
  PROVE  GetComponent(AddedComponent(w, e, t, data, storage), f, u) =
           IF f = e /\ u = t /\ (storage = Table \/ w.components[<<e, t>>] = None)
           THEN data ELSE GetComponent(w, f, u)
<1> DEFINE v == AddedComponent(w, e, t, data, storage)
<1>1. /\ w.components \in [Key -> Bytes \cup {None}]
      /\ w.sparse_components \in [Key -> Bytes \cup {None}]
      /\ <<e, t>> \in Key /\ <<f, u>> \in Key
      /\ <<f, u>> = <<e, t>> <=> f = e /\ u = t
  BY DEF SimpleWorlds, Key
<1>2. /\ v.components = IF storage = Table THEN [w.components EXCEPT ![<<e, t>>] = data]
                                           ELSE w.components
      /\ v.sparse_components =
           IF storage = Sparse THEN [w.sparse_components EXCEPT ![<<e, t>>] = data]
                               ELSE w.sparse_components
      /\ v.entity_components =
           [w.entity_components EXCEPT ![e] = w.entity_components[e] \cup {t}]
  BY AddedFields
<1> HIDE DEF v
<1>3. GetComponent(v, f, u) =
        IF f = e /\ u = t /\ (storage = Table \/ w.components[<<e, t>>] = None)
        THEN data ELSE GetComponent(w, f, u)
  BY <1>1, <1>2, NoneAssumption DEF GetComponent, ComponentStorage, Table, Sparse
<1> QED
  BY <1>3 DEF v


-----------------------------------------------------------------------------
(***************************************************************************)
(* Induction along a queue.                                                *)
(***************************************************************************)

\* Every set of numbers that is not empty has a least member.
LEMMA LeastNumber ==
  ASSUME NEW S, S \subseteq Nat, S # {}
  PROVE  \E n \in S : \A m \in S : n =< m
<1> DEFINE less == OpToRel(<, Nat)
<1>1. PICK n \in S : \A m \in S : <<m, n>> \notin less
  BY NatLessThanWellFounded, WFMin, Zenon
<1>2. ASSUME NEW m \in S
      PROVE  n =< m
  <2>1. m \in Nat /\ n \in Nat
    BY <1>2
  <2>2. m < n => <<m, n>> \in less
    BY <2>1 DEF OpToRel
  <2>3. ~ (m < n)
    BY <1>1, <1>2, <2>2, Zenon
  <2> QED BY <2>1, <2>3
<1> QED BY <1>2

\* A set that contains 0 and with a number its successor contains all numbers.
LEMMA NumberInduction ==
  ASSUME NEW S, 0 \in S, \A n \in Nat : n \in S => n + 1 \in S
  PROVE  \A n \in Nat : n \in S
<1> DEFINE T == Nat \ S
<1> SUFFICES ASSUME T # {} PROVE FALSE
  OBVIOUS
<1>1. PICK n \in T : \A m \in T : n =< m
  BY LeastNumber
<1>2. n \in Nat /\ n # 0 /\ n - 1 \in Nat /\ n - 1 \notin T
  BY <1>1
<1> QED
  BY <1>1, <1>2

\* Every set of numbers up to a bound that is not empty has a greatest member.
LEMMA GreatestNumber ==
  ASSUME NEW n \in Nat, NEW S, S \subseteq 1..n, S # {}
  PROVE  \E i \in S : \A j \in S : j =< i
<1> DEFINE T == {m \in Nat : \A j \in S : j =< m}
<1>1. n \in T
  OBVIOUS
<1>2. PICK m \in T : \A o \in T : m =< o
  BY <1>1, LeastNumber
<1>3. m # 0
  <2>1. PICK j \in S : j \in 1..n
    OBVIOUS
  <2> QED BY <1>2, <2>1
<1>4. m - 1 \notin T /\ m - 1 \in Nat
  BY <1>2, <1>3
<1>5. PICK i \in S : ~ (i =< m - 1)
  BY <1>4
<1>6. i = m
  BY <1>2, <1>5
<1> QED
  BY <1>2, <1>5, <1>6

-----------------------------------------------------------------------------
(***************************************************************************)
(* The worlds that calls and commands lead to.                             *)
(***************************************************************************)

\* The list of an entity names only components that it has.
SoundWorld(w) ==
    /\ w \in SimpleWorlds
    /\ \A e \in EntityId, t \in ComponentType :
          t \in w.entity_components[e] => HasComponent(w, e, t)

\* No component is in both maps, and the list of an entity names what it has.
ExactWorld(w) ==
    /\ SoundWorld(w)
    /\ OneMapEach(w)
    /\ \A e \in EntityId, t \in ComponentType :
          HasComponent(w, e, t) => t \in w.entity_components[e]

\* The world that a call makes of w is sound when w is, and exact when w is and
\* the call puts no component into a second map.
Keeps(w, v) ==
    /\ SoundWorld(v)
    /\ ExactWorld(w) /\ OneMapEach(v) => ExactWorld(v)

\* An empty world is exact.
LEMMA EmptyExact == ExactWorld(EmptyWorld)
<1>1. \A e \in EntityId, t \in ComponentType :
        <<e, t>> \in Key /\ ~HasComponent(EmptyWorld, e, t)
  BY DEF Key, HasComponent, EmptyWorld
<1>2. \A e \in EntityId, t \in ComponentType : t \notin EmptyWorld.entity_components[e]
  BY DEF EmptyWorld
<1> QED
  BY <1>1, <1>2, EmptyWorldType DEF ExactWorld, SoundWorld, OneMapEach, EmptyWorld

\* spawn_entity keeps worlds sound and exact, and no read tells them apart.
LEMMA SpawnKeeps ==
  ASSUME NEW w, SoundWorld(w), CanSpawn(w)
  PROVE  /\ Keeps(w, SpawnedWorld(w))
         /\ \A k \in Key : GetComponent(SpawnedWorld(w), k[1], k[2]) =
                             GetComponent(w, k[1], k[2])
<1>1. w \in SimpleWorlds
  BY DEF SoundWorld
<1> QED
  BY <1>1, SpawnFields
  DEF Keeps, SoundWorld, ExactWorld, OneMapEach, HasComponent, GetComponent

\* add_component_with_storage keeps worlds sound and exact.
LEMMA AddKeeps ==
  ASSUME NEW w, SoundWorld(w), CanBump(w), NEW e \in EntityId,
         NEW t \in ComponentType, NEW data \in Bytes, NEW storage \in ComponentStorage
  PROVE  Keeps(w, AddedComponent(w, e, t, data, storage))
<1> DEFINE v == AddedComponent(w, e, t, data, storage)
<1>1. w \in SimpleWorlds
  BY DEF SoundWorld
<1>2. v \in SimpleWorlds
  BY <1>1, AddedFields
<1>3. \A f \in EntityId, u \in ComponentType :
        /\ HasComponent(v, f, u) <=> HasComponent(w, f, u) \/ <<f, u>> = <<e, t>>
        /\ u \in v.entity_components[f] <=>
             u \in w.entity_components[f] \/ <<f, u>> = <<e, t>>
  BY <1>1, AddedHas
<1> HIDE DEF v
<1>4. Keeps(w, v)
  BY <1>2, <1>3 DEF Keeps, SoundWorld, ExactWorld
<1> QED
  BY <1>4 DEF v

\* remove_component keeps worlds sound and exact.
LEMMA RemoveKeeps ==
  ASSUME NEW w, SoundWorld(w), CanBump(w), NEW e \in EntityId, NEW t \in ComponentType
  PROVE  Keeps(w, RemovedComponent(w, e, t))
<1> DEFINE v == RemovedComponent(w, e, t)
<1>1. w \in SimpleWorlds
  BY DEF SoundWorld
<1>2. v \in SimpleWorlds
  BY <1>1, RemovedFields
<1>3. \A f \in EntityId, u \in ComponentType :
        (f # e \/ u # t) =>
           /\ HasComponent(v, f, u) <=> HasComponent(w, f, u)
           /\ u \in v.entity_components[f] <=> u \in w.entity_components[f]
  BY <1>1, RemovedHas
<1>4. /\ HasComponent(v, e, t) <=>
           w.components[<<e, t>>] # None /\ w.sparse_components[<<e, t>>] # None
      /\ t \in v.entity_components[e] <=>
           t \in w.entity_components[e] /\ ~HasComponent(w, e, t)
  BY <1>1, RemovedHas
<1>5. <<e, t>> \in Key
  BY DEF Key
<1> HIDE DEF v
<1>6. SoundWorld(v)
  BY <1>2, <1>3, <1>4 DEF SoundWorld
<1>7. ASSUME ExactWorld(w)
      PROVE  ~HasComponent(v, e, t)
  BY <1>4, <1>5, <1>7 DEF ExactWorld, OneMapEach
<1>8. Keeps(w, v)
  BY <1>3, <1>6, <1>7 DEF Keeps, ExactWorld
<1> QED
  BY <1>8 DEF v

\* despawn_entity keeps worlds sound and exact.
LEMMA DespawnKeeps ==
  ASSUME NEW w, SoundWorld(w), CanBump(w), NEW e \in EntityId
  PROVE  Keeps(w, DespawnedEntity(w, e))
<1> DEFINE v == DespawnedEntity(w, e)
<1>1. w \in SimpleWorlds
  BY DEF SoundWorld
<1>2. v \in SimpleWorlds
  BY <1>1, DespawnedFields
<1>3. \A f \in EntityId, u \in ComponentType :
        /\ HasComponent(v, f, u) <=>
             HasComponent(w, f, u) /\ ~(f = e /\ u \in w.entity_components[e])
        /\ u \in v.entity_components[f] <=> u \in w.entity_components[f] /\ f # e
  BY <1>1, DespawnedHas
<1> HIDE DEF v
<1>4. Keeps(w, v)
  BY <1>2, <1>3 DEF Keeps, SoundWorld, ExactWorld
<1> QED
  BY <1>4 DEF v

-----------------------------------------------------------------------------
(***************************************************************************)
(* What reads and snapshots find after a call.                             *)
(***************************************************************************)

\* A component is the pair of an entity and a type.
LEMMA KeyPair ==
  ASSUME NEW k \in Key
  PROVE  k[1] \in EntityId /\ k[2] \in ComponentType /\ k = <<k[1], k[2]>>
  BY DEF Key

\* An added component reads as its data, when no other copy of it hides them,
\* and every other component as before.
LEMMA AddReads ==
  ASSUME NEW w, SoundWorld(w), CanBump(w), NEW e \in EntityId,
         NEW t \in ComponentType, NEW data \in Bytes, NEW storage \in ComponentStorage,
         NEW k \in Key
  PROVE  LET v == AddedComponent(w, e, t, data, storage) IN
         /\ k # <<e, t>> => /\ GetComponent(v, k[1], k[2]) = GetComponent(w, k[1], k[2])
                            /\ Snapshot(v)[k] = Snapshot(w)[k]
         /\ OneMapEach(v) /\ k = <<e, t>> => GetComponent(v, k[1], k[2]) = data
         /\ k = <<e, t>> => HasComponent(v, k[1], k[2]) /\ Snapshot(v)[k] # None
<1> DEFINE v == AddedComponent(w, e, t, data, storage)
<1>0. w \in SimpleWorlds
  BY DEF SoundWorld
<1>1. /\ w \in SimpleWorlds /\ k[1] \in EntityId /\ k[2] \in ComponentType
      /\ k = <<k[1], k[2]>> /\ <<e, t>> \in Key
      /\ <<k[1], k[2]>> = <<e, t>> <=> k[1] = e /\ k[2] = t
  BY <1>0, KeyPair DEF Key
<1>2. v \in SimpleWorlds
  BY <1>0, AddedFields
<1>3. GetComponent(v, k[1], k[2]) =
        IF k[1] = e /\ k[2] = t /\ (storage = Table \/ w.components[<<e, t>>] = None)
        THEN data ELSE GetComponent(w, k[1], k[2])
  BY <1>1, ReadAfterAddition
<1>4. /\ HasComponent(v, k[1], k[2]) <=> HasComponent(w, k[1], k[2]) \/ k = <<e, t>>
      /\ k[2] \in v.entity_components[k[1]] <=>
           k[2] \in w.entity_components[k[1]] \/ k = <<e, t>>
  <2>1. /\ HasComponent(v, k[1], k[2]) <=>
             HasComponent(w, k[1], k[2]) \/ <<k[1], k[2]>> = <<e, t>>
        /\ k[2] \in v.entity_components[k[1]] <=>
             k[2] \in w.entity_components[k[1]] \/ <<k[1], k[2]>> = <<e, t>>
    BY <1>1, AddedHas
  <2> HIDE DEF v
  <2> QED BY <1>1, <2>1
<1>5. OneMapEach(v) /\ storage = Sparse => w.components[<<e, t>>] = None
  <2>1. /\ v.components = IF storage = Table THEN [w.components EXCEPT ![<<e, t>>] = data]
                                             ELSE w.components
        /\ v.sparse_components =
             IF storage = Sparse THEN [w.sparse_components EXCEPT ![<<e, t>>] = data]
                                 ELSE w.sparse_components
        /\ v.entity_components =
             [w.entity_components EXCEPT ![e] = w.entity_components[e] \cup {t}]
    BY <1>0, AddedFields
  <2>2. w.sparse_components \in [Key -> Bytes \cup {None}]
    BY <1>1 DEF SimpleWorlds
  <2> HIDE DEF v
  <2> QED
    BY <1>1, <2>1, <2>2, NoneAssumption DEF OneMapEach, Table, Sparse
<1>6. HasComponent(v, k[1], k[2]) <=> GetComponent(v, k[1], k[2]) # None
  BY <1>1, <1>2, GetIsHas
<1> HIDE DEF v
<1>7. /\ k # <<e, t>> => /\ GetComponent(v, k[1], k[2]) = GetComponent(w, k[1], k[2])
                         /\ Snapshot(v)[k] = Snapshot(w)[k]
      /\ OneMapEach(v) /\ k = <<e, t>> => GetComponent(v, k[1], k[2]) = data
      /\ k = <<e, t>> => HasComponent(v, k[1], k[2]) /\ Snapshot(v)[k] # None
  BY <1>1, <1>3, <1>4, <1>5, <1>6 DEF Snapshot, ComponentStorage
<1> QED
  BY <1>7 DEF v

\* A removed component reads as nothing, unless it was in both maps, and every
\* other component as before.
LEMMA RemoveReads ==
  ASSUME NEW w, SoundWorld(w), CanBump(w), NEW e \in EntityId, NEW t \in ComponentType,
         NEW k \in Key
  PROVE  LET v == RemovedComponent(w, e, t) IN
         /\ k # <<e, t>> => /\ GetComponent(v, k[1], k[2]) = GetComponent(w, k[1], k[2])
                            /\ Snapshot(v)[k] = Snapshot(w)[k]
         /\ OneMapEach(w) /\ k = <<e, t>> => GetComponent(v, k[1], k[2]) = None
         /\ \/ GetComponent(v, k[1], k[2]) \in {None, GetComponent(w, k[1], k[2])}
            \/ /\ w.components[k] # None /\ w.sparse_components[k] # None
               /\ v.components[k] = None
         /\ k = <<e, t>> => Snapshot(v)[k] = None
<1> DEFINE v == RemovedComponent(w, e, t)
<1>0. w \in SimpleWorlds
  BY DEF SoundWorld
<1>1. /\ w \in SimpleWorlds /\ k[1] \in EntityId /\ k[2] \in ComponentType
      /\ k = <<k[1], k[2]>> /\ <<e, t>> \in Key
      /\ <<k[1], k[2]>> = <<e, t>> <=> k[1] = e /\ k[2] = t
  BY <1>0, KeyPair DEF Key
<1>2. /\ w.components \in [Key -> Bytes \cup {None}]
      /\ w.sparse_components \in [Key -> Bytes \cup {None}]
  BY <1>1 DEF SimpleWorlds
<1>3. /\ v.components = [w.components EXCEPT ![<<e, t>>] = None]
      /\ v.sparse_components =
           IF w.components[<<e, t>>] # None THEN w.sparse_components
           ELSE [w.sparse_components EXCEPT ![<<e, t>>] = None]
      /\ v.entity_components =
           IF HasComponent(w, e, t)
           THEN [w.entity_components EXCEPT ![e] = w.entity_components[e] \ {t}]
           ELSE w.entity_components
  BY <1>0, RemovedFields
<1>4. k # <<e, t>> => (k[2] \in v.entity_components[k[1]] <=>
                         k[2] \in w.entity_components[k[1]])
  <2>1. (k[1] # e \/ k[2] # t) =>
          (k[2] \in v.entity_components[k[1]] <=> k[2] \in w.entity_components[k[1]])
    BY <1>1, RemovedHas
  <2> HIDE DEF v
  <2> QED BY <1>1, <2>1
<1>5. t \notin v.entity_components[e]
  <2>1. t \in v.entity_components[e] <=>
          t \in w.entity_components[e] /\ ~HasComponent(w, e, t)
    BY <1>1, RemovedHas
  <2> HIDE DEF v
  <2> QED BY <2>1 DEF SoundWorld
<1> HIDE DEF v
<1>6. k # <<e, t>> => GetComponent(v, k[1], k[2]) = GetComponent(w, k[1], k[2])
  BY <1>1, <1>2, <1>3 DEF GetComponent
<1>7. OneMapEach(w) => GetComponent(v, e, t) = None
  BY <1>1, <1>2, <1>3 DEF GetComponent, OneMapEach
<1>8. /\ k # <<e, t>> => /\ GetComponent(v, k[1], k[2]) = GetComponent(w, k[1], k[2])
                         /\ Snapshot(v)[k] = Snapshot(w)[k]
      /\ OneMapEach(w) /\ k = <<e, t>> => GetComponent(v, k[1], k[2]) = None
      /\ k = <<e, t>> => Snapshot(v)[k] = None
  BY <1>1, <1>4, <1>5, <1>6, <1>7 DEF Snapshot
<1>9. \/ GetComponent(v, k[1], k[2]) \in {None, GetComponent(w, k[1], k[2])}
      \/ /\ w.components[k] # None /\ w.sparse_components[k] # None
         /\ v.components[k] = None
  BY <1>1, <1>2, <1>3, <1>6 DEF GetComponent
<1> QED
  BY <1>8, <1>9 DEF v

\* The listed components of a despawned entity read as nothing, and the
\* components of every other entity as before.
LEMMA DespawnReads ==
  ASSUME NEW w, SoundWorld(w), CanBump(w), NEW e \in EntityId, NEW k \in Key
  PROVE  LET v == DespawnedEntity(w, e) IN
         /\ k[1] # e => /\ GetComponent(v, k[1], k[2]) = GetComponent(w, k[1], k[2])
                        /\ Snapshot(v)[k] = Snapshot(w)[k]
         /\ ExactWorld(w) /\ k[1] = e => GetComponent(v, k[1], k[2]) = None
         /\ GetComponent(v, k[1], k[2]) \in {None, GetComponent(w, k[1], k[2])}
         /\ k[1] = e => Snapshot(v)[k] = None
<1> DEFINE v == DespawnedEntity(w, e)
           gone == k[1] = e /\ k[2] \in w.entity_components[e]
<1>1. /\ w \in SimpleWorlds /\ k[1] \in EntityId /\ k[2] \in ComponentType
      /\ k = <<k[1], k[2]>>
  BY KeyPair DEF SoundWorld
<1>2. /\ v.components[k] = IF gone THEN None ELSE w.components[k]
      /\ v.sparse_components[k] = IF gone THEN None ELSE w.sparse_components[k]
  <2>1. v.components = [x \in Key |-> IF x[1] = e /\ x[2] \in w.entity_components[e]
                                     THEN None ELSE w.components[x]]
    BY <1>1, DespawnedFields
  <2>2. v.sparse_components =
          [x \in Key |-> IF x[1] = e /\ x[2] \in w.entity_components[e]
                        THEN None ELSE w.sparse_components[x]]
    BY <1>1, DespawnedFields
  <2> HIDE DEF v
  <2> QED BY <2>1, <2>2
<1>3. k[2] \in v.entity_components[k[1]] <=>
        k[2] \in w.entity_components[k[1]] /\ k[1] # e
  BY <1>1, DespawnedHas
<1> HIDE DEF v
<1>4. GetComponent(v, k[1], k[2]) = IF gone THEN None ELSE GetComponent(w, k[1], k[2])
  BY <1>1, <1>2 DEF GetComponent
<1>5. HasComponent(w, k[1], k[2]) <=> GetComponent(w, k[1], k[2]) # None
  BY <1>1, GetIsHas
<1>6. ExactWorld(w) => (k[2] \in w.entity_components[k[1]] <=>
                          HasComponent(w, k[1], k[2]))
  BY <1>1 DEF ExactWorld, SoundWorld
<1>7. /\ k[1] # e => /\ GetComponent(v, k[1], k[2]) = GetComponent(w, k[1], k[2])
                     /\ Snapshot(v)[k] = Snapshot(w)[k]
      /\ ExactWorld(w) /\ k[1] = e => GetComponent(v, k[1], k[2]) = None
      /\ GetComponent(v, k[1], k[2]) \in {None, GetComponent(w, k[1], k[2])}
      /\ k[1] = e => Snapshot(v)[k] = None
  BY <1>3, <1>4, <1>5, <1>6 DEF Snapshot
<1> QED
  BY <1>7 DEF v

\* A snapshot names exactly the listed components; in an exact world, those the
\* entity has.
LEMMA SnapshotNames ==
  ASSUME NEW w, SoundWorld(w), NEW k \in Key
  PROVE  /\ Snapshot(w)[k] # None <=> k[2] \in w.entity_components[k[1]]
         /\ ExactWorld(w) => (Snapshot(w)[k] # None <=> HasComponent(w, k[1], k[2]))
<1>1. w \in SimpleWorlds /\ k[1] \in EntityId /\ k[2] \in ComponentType
  BY KeyPair DEF SoundWorld
<1>2. HasComponent(w, k[1], k[2]) <=> GetComponent(w, k[1], k[2]) # None
  BY <1>1, GetIsHas
<1>3. k[2] \in w.entity_components[k[1]] => HasComponent(w, k[1], k[2])
  BY <1>1 DEF SoundWorld
<1>4. ExactWorld(w) /\ HasComponent(w, k[1], k[2]) => k[2] \in w.entity_components[k[1]]
  BY <1>1 DEF ExactWorld
<1> QED
  BY <1>2, <1>3, <1>4 DEF Snapshot

-----------------------------------------------------------------------------
(***************************************************************************)
(* Commands, and the worlds that applying a queue passes through.          *)
(***************************************************************************)

\* No counter that the command bumps is at its limit.
CanApply(w, c) == IF c.op = "Spawn" THEN CanSpawn(w) ELSE CanBump(w)

\* The command writes or clears the component.
IsAbout(c, k) ==
    \/ c.op = "Despawn" /\ c.entity_id = k[1]
    \/ c.op \in {"Add", "Remove"} /\ <<c.entity_id, c.component_type>> = k

\* The arguments that each command carries.
LEMMA CommandArguments ==
  ASSUME NEW c \in Commands
  PROVE  /\ c.op \in {"Spawn", "Despawn", "Add", "Remove"}
         /\ c.op # "Spawn" => c.entity_id \in EntityId
         /\ c.op \in {"Add", "Remove"} => c.component_type \in ComponentType
         /\ c.op = "Add" => c.data \in Bytes /\ c.storage \in ComponentStorage
  BY DEF Commands

\* What the match on a command calls.
LEMMA AppliedCases ==
  ASSUME NEW w, NEW c
  PROVE  /\ c.op = "Spawn" => Applied(w, c) = SpawnedWorld(w)
         /\ c.op = "Despawn" => Applied(w, c) = DespawnedEntity(w, c.entity_id)
         /\ c.op = "Add" =>
              Applied(w, c) = AddedComponent(w, c.entity_id, c.component_type,
                                             c.data, c.storage)
         /\ c.op = "Remove" =>
              Applied(w, c) = RemovedComponent(w, c.entity_id, c.component_type)
  BY DEF Applied

\* Every command keeps worlds sound and exact.
LEMMA AppliedKeeps ==
  ASSUME NEW w, SoundWorld(w), NEW c \in Commands, CanApply(w, c)
  PROVE  Keeps(w, Applied(w, c))
<1>1. CASE c.op = "Spawn"
  BY <1>1, AppliedCases, SpawnKeeps DEF CanApply
<1>2. CASE c.op = "Despawn"
  BY <1>2, AppliedCases, CommandArguments, DespawnKeeps DEF CanApply
<1>3. CASE c.op = "Add"
  BY <1>3, AppliedCases, CommandArguments, AddKeeps DEF CanApply
<1>4. CASE c.op = "Remove"
  BY <1>4, AppliedCases, CommandArguments, RemoveKeeps DEF CanApply
<1> QED
  BY <1>1, <1>2, <1>3, <1>4, CommandArguments

\* A command decides how the components it is about read, and no others.
LEMMA AppliedReads ==
  ASSUME NEW w, ExactWorld(w), NEW c \in Commands, CanApply(w, c),
         OneMapEach(Applied(w, c)), NEW k \in Key
  PROVE  GetComponent(Applied(w, c), k[1], k[2]) =
           IF IsAbout(c, k) THEN IF c.op = "Add" THEN c.data ELSE None
                            ELSE GetComponent(w, k[1], k[2])
<1>1. SoundWorld(w) /\ OneMapEach(w)
  BY DEF ExactWorld
<1>2. k[1] \in EntityId /\ k[2] \in ComponentType /\ k = <<k[1], k[2]>>
  BY KeyPair
<1>3. CASE c.op = "Spawn"
  BY <1>1, <1>3, AppliedCases, SpawnKeeps DEF CanApply, IsAbout
<1>4. CASE c.op = "Despawn"
  <2>1. Applied(w, c) = DespawnedEntity(w, c.entity_id) /\ c.entity_id \in EntityId
    BY <1>4, AppliedCases, CommandArguments
  <2> QED
    BY <1>1, <1>4, <2>1, DespawnReads DEF CanApply, IsAbout
<1>5. CASE c.op = "Add"
  <2> DEFINE e == c.entity_id
             t == c.component_type
             v == Applied(w, c)
  <2>1. /\ v = AddedComponent(w, e, t, c.data, c.storage)
        /\ e \in EntityId /\ t \in ComponentType
        /\ c.data \in Bytes /\ c.storage \in ComponentStorage
    BY <1>5, AppliedCases, CommandArguments
  <2>2. CanBump(w)
    BY <1>5 DEF CanApply
  <2>3. /\ k # <<e, t>> => GetComponent(v, k[1], k[2]) = GetComponent(w, k[1], k[2])
        /\ OneMapEach(v) /\ k = <<e, t>> => GetComponent(v, k[1], k[2]) = c.data
    BY <1>1, <2>1, <2>2, AddReads
  <2> QED
    BY <1>5, <2>3 DEF IsAbout
<1>6. CASE c.op = "Remove"
  <2> DEFINE e == c.entity_id
             t == c.component_type
             v == Applied(w, c)
  <2>1. v = RemovedComponent(w, e, t) /\ e \in EntityId /\ t \in ComponentType
    BY <1>6, AppliedCases, CommandArguments
  <2>2. CanBump(w)
    BY <1>6 DEF CanApply
  <2>3. /\ k # <<e, t>> => GetComponent(v, k[1], k[2]) = GetComponent(w, k[1], k[2])
        /\ k = <<e, t>> => GetComponent(v, k[1], k[2]) = None
    BY <1>1, <2>1, <2>2, RemoveReads
  <2> QED
    BY <1>6, <2>3 DEF IsAbout
<1> QED
  BY <1>3, <1>4, <1>5, <1>6, CommandArguments

\* The first n worlds of a replay exist: the recursion of apply is well defined.
LEMMA ReplayExists ==
  ASSUME NEW w, NEW q
  PROVE  \A n \in Nat :
            \E g : g = [i \in 0..n |-> IF i = 0 THEN w ELSE Applied(g[i - 1], q[i])]
<1> DEFINE Good(g, n) ==
               g = [i \in 0..n |-> IF i = 0 THEN w ELSE Applied(g[i - 1], q[i])]
           S == {n \in Nat : \E g : Good(g, n)}
<1>1. 0 \in S
  <2> DEFINE g == [i \in 0..0 |-> w]
  <2>1. Good(g, 0)
    OBVIOUS
  <2> QED BY <2>1
<1>2. ASSUME NEW n \in Nat, n \in S
      PROVE  n + 1 \in S
  <2>1. PICK g : Good(g, n)
    BY <1>2
  <2> DEFINE h == [i \in 0..(n + 1) |-> IF i = n + 1 THEN Applied(g[n], q[n + 1])
                                                    ELSE g[i]]
  <2>2. \A i \in 0..(n + 1) :
          h[i] = IF i = 0 THEN w ELSE Applied(h[i - 1], q[i])
    <3> SUFFICES ASSUME NEW i \in 0..(n + 1)
                 PROVE  h[i] = IF i = 0 THEN w ELSE Applied(h[i - 1], q[i])
      OBVIOUS
    <3>1. CASE i = n + 1
      <4>1. h[i] = Applied(g[n], q[n + 1]) /\ h[n] = g[n] /\ n = i - 1 /\ i # 0
        BY <3>1
      <4> HIDE DEF h
      <4> QED BY <3>1, <4>1
    <3>2. CASE i # n + 1
      <4>1. i \in 0..n /\ h[i] = g[i] /\ (i # 0 => h[i - 1] = g[i - 1])
        BY <3>2
      <4>2. g[i] = IF i = 0 THEN w ELSE Applied(g[i - 1], q[i])
        BY <2>1, <4>1
      <4> HIDE DEF h
      <4> QED BY <4>1, <4>2
    <3> QED BY <3>1, <3>2
  <2>3. h = [i \in 0..(n + 1) |-> h[i]]
    OBVIOUS
  <2> HIDE DEF h
  <2>4. Good(h, n + 1)
    BY <2>2, <2>3
  <2> QED BY <2>4
<1> HIDE DEF S
<1>3. \A n \in Nat : n \in S
  BY <1>1, <1>2, NumberInduction
<1> QED
  BY <1>3 DEF S

\* apply takes the commands in the order they were queued.
LEMMA ReplaySteps ==
  ASSUME NEW w, NEW q \in Seq(Commands)
  PROVE  /\ Replay(w, q)[0] = w
         /\ \A i \in 1..Len(q) : Replay(w, q)[i] = Applied(Replay(w, q)[i - 1], q[i])
<1> DEFINE R == Replay(w, q)
<1>1. Len(q) \in Nat
  OBVIOUS
<1>2. R = [i \in 0..Len(q) |-> IF i = 0 THEN w ELSE Applied(R[i - 1], q[i])]
  BY <1>1, ReplayExists DEF Replay
<1> HIDE DEF R
<1>3. R[0] = w /\ \A i \in 1..Len(q) : R[i] = Applied(R[i - 1], q[i])
  BY <1>1, <1>2
<1> QED
  BY <1>3 DEF R

\* Every world that a replay passes through is sound, and exact while no
\* component gets into both maps.
LEMMA ReplayKeeps ==
  ASSUME NEW w, SoundWorld(w), NEW q \in Seq(Commands), CanReplay(w, q)
  PROVE  \A n \in 0..Len(q) :
            /\ SoundWorld(Replay(w, q)[n])
            /\ ExactWorld(w) /\ (\A i \in 0..Len(q) : OneMapEach(Replay(w, q)[i])) =>
                 ExactWorld(Replay(w, q)[n])
<1> DEFINE R == Replay(w, q)
           neat == ExactWorld(w) /\ \A i \in 0..Len(q) : OneMapEach(R[i])
           S == {n \in Nat : n =< Len(q) =>
                               SoundWorld(R[n]) /\ (neat => ExactWorld(R[n]))}
<1>1. R[0] = w /\ \A i \in 1..Len(q) : R[i] = Applied(R[i - 1], q[i])
  BY ReplaySteps
<1>2. \A i \in 1..Len(q) : CanApply(R[i - 1], q[i])
  BY DEF CanReplay, CanApply
<1> HIDE DEF R
<1>3. 0 \in S
  BY <1>1
<1>4. ASSUME NEW n \in Nat, n \in S
      PROVE  n + 1 \in S
  <2> SUFFICES ASSUME n + 1 =< Len(q)
               PROVE  SoundWorld(R[n + 1]) /\ (neat => ExactWorld(R[n + 1]))
    OBVIOUS
  <2>1. n + 1 \in 1..Len(q) /\ (n + 1) - 1 = n /\ q[n + 1] \in Commands
    OBVIOUS
  <2>2. /\ SoundWorld(R[n]) /\ (neat => ExactWorld(R[n]))
        /\ R[n + 1] = Applied(R[n], q[n + 1])
        /\ CanApply(R[n], q[n + 1])
    BY <1>1, <1>2, <1>4, <2>1
  <2>3. Keeps(R[n], R[n + 1])
    BY <2>1, <2>2, AppliedKeeps
  <2>4. neat => OneMapEach(R[n + 1])
    BY <2>1
  <2> QED
    BY <2>2, <2>3, <2>4 DEF Keeps
<1> HIDE DEF S
<1>5. \A n \in Nat : n \in S
  BY <1>3, <1>4, NumberInduction
<1>6. \A n \in 0..Len(q) : SoundWorld(R[n]) /\ (neat => ExactWorld(R[n]))
  BY <1>5 DEF S
<1> QED
  BY <1>6 DEF R

\* The commands from i to n are not about the component.
Untouched(q, k, i, n) == \A j \in i..n : ~IsAbout(q[j], k)

\* After the first n commands a component reads as the last of them about it
\* says, and as at first when none is about it.
LEMMA ReplayReads ==
  ASSUME NEW w, ExactWorld(w), NEW q \in Seq(Commands), CanReplay(w, q),
         \A i \in 0..Len(q) : OneMapEach(Replay(w, q)[i]), NEW k \in Key
  PROVE  \A n \in 0..Len(q) :
            LET v == Replay(w, q)[n] IN
            /\ Untouched(q, k, 1, n) =>
                 GetComponent(v, k[1], k[2]) = GetComponent(w, k[1], k[2])
            /\ \A i \in 1..n :
                 IsAbout(q[i], k) /\ Untouched(q, k, i + 1, n) =>
                    GetComponent(v, k[1], k[2]) = IF q[i].op = "Add" THEN q[i].data ELSE None
<1> DEFINE R == Replay(w, q)
           get(n) == GetComponent(R[n], k[1], k[2])
           says(i) == IF q[i].op = "Add" THEN q[i].data ELSE None
           P(n) == /\ Untouched(q, k, 1, n) =>
                        get(n) = GetComponent(w, k[1], k[2])
                   /\ \A i \in 1..n : IsAbout(q[i], k) /\ Untouched(q, k, i + 1, n) =>
                                         get(n) = says(i)
           S == {n \in Nat : n =< Len(q) => P(n)}
<1>1. R[0] = w /\ \A i \in 1..Len(q) : R[i] = Applied(R[i - 1], q[i])
  BY ReplaySteps
<1>2. \A i \in 1..Len(q) : CanApply(R[i - 1], q[i])
  BY DEF CanReplay, CanApply
<1>3. \A n \in 0..Len(q) : ExactWorld(R[n]) /\ OneMapEach(R[n])
  BY ReplayKeeps DEF ExactWorld
<1> HIDE DEF R
<1>4. 0 \in S
  BY <1>1
<1>5. ASSUME NEW n \in Nat, n \in S
      PROVE  n + 1 \in S
  <2> SUFFICES ASSUME n + 1 =< Len(q)
               PROVE  P(n + 1)
    OBVIOUS
  <2>1. /\ n + 1 \in 1..Len(q) /\ (n + 1) - 1 = n /\ q[n + 1] \in Commands
        /\ n \in 0..Len(q) /\ n + 1 \in 0..Len(q)
    OBVIOUS
  <2>2. P(n)
    BY <1>5, <2>1
  <2>3. get(n + 1) = IF IsAbout(q[n + 1], k) THEN says(n + 1) ELSE get(n)
    <3>1. /\ R[n + 1] = Applied(R[n], q[n + 1])
          /\ CanApply(R[n], q[n + 1])
          /\ ExactWorld(R[n]) /\ OneMapEach(R[n + 1])
      BY <1>1, <1>2, <1>3, <2>1
    <3> QED BY <2>1, <3>1, AppliedReads
  <2> HIDE DEF get, says
  <2>4. ASSUME Untouched(q, k, 1, n + 1)
        PROVE  get(n + 1) = GetComponent(w, k[1], k[2])
    <3>1. ~IsAbout(q[n + 1], k) /\ Untouched(q, k, 1, n)
      BY <2>4 DEF Untouched
    <3> QED BY <2>2, <2>3, <3>1
  <2>5. ASSUME NEW i \in 1..(n + 1), IsAbout(q[i], k), Untouched(q, k, i + 1, n + 1)
        PROVE  get(n + 1) = says(i)
    <3>1. CASE i = n + 1
      BY <2>3, <2>5, <3>1
    <3>2. CASE i # n + 1
      <4>1. i \in 1..n /\ ~IsAbout(q[n + 1], k) /\ Untouched(q, k, i + 1, n)
        BY <2>5, <3>2 DEF Untouched
      <4> QED BY <2>2, <2>3, <2>5, <4>1
    <3> QED BY <3>1, <3>2
  <2> QED BY <2>4, <2>5
<1> HIDE DEF S
<1>6. \A n \in Nat : n \in S
  BY <1>4, <1>5, NumberInduction
<1>7. \A n \in 0..Len(q) : P(n)
  BY <1>6 DEF S
<1> QED
  BY <1>7 DEF R

-----------------------------------------------------------------------------
(***************************************************************************)
(* The inductive invariant of the wrappers.                                *)
(***************************************************************************)

\* A ChangeTracker.
Trackers == [added : [Key -> Nat], removed : [Key -> Nat], modified : [Key -> Nat],
             tick : Nat]

\* The lists of the tracker count; the world is sound, and exact while no
\* component has been in both maps.
IInv ==
    /\ SoundWorld(world)
    /\ single => ExactWorld(world)
    /\ queue \in Seq(Commands)
    /\ tracker \in Trackers

\* Recording counts one entry more, in the named list, for each of the components.
LEMMA RecordedCounts ==
  ASSUME tracker \in Trackers, NEW ks, NEW list \in {"added", "removed", "modified"}
  PROVE  LET r == Recorded(list, ks) IN
         /\ r \in Trackers
         /\ \A k \in Key :
              /\ r.added[k] = tracker.added[k] +
                                (IF list = "added" /\ k \in ks THEN 1 ELSE 0)
              /\ r.removed[k] = tracker.removed[k] +
                                (IF list = "removed" /\ k \in ks THEN 1 ELSE 0)
              /\ r.modified[k] = tracker.modified[k] +
                                (IF list = "modified" /\ k \in ks THEN 1 ELSE 0)
<1> DEFINE more == [k \in Key |-> tracker[list][k] + (IF k \in ks THEN 1 ELSE 0)]
<1>1. tracker[list] \in [Key -> Nat]
  BY DEF Trackers
<1>2. more \in [Key -> Nat]
  BY <1>1
<1>3. \A k \in Key : more[k] = tracker[list][k] + (IF k \in ks THEN 1 ELSE 0)
  OBVIOUS
<1>4. \A k \in Key : tracker.added[k] \in Nat /\ tracker.removed[k] \in Nat
                                             /\ tracker.modified[k] \in Nat
  BY DEF Trackers
<1>5. Recorded(list, ks) = [tracker EXCEPT ![list] = more]
  BY DEF Recorded
<1> HIDE DEF more
<1>6. CASE list = "added"
  BY <1>2, <1>3, <1>4, <1>5, <1>6 DEF Trackers
<1>7. CASE list = "removed"
  BY <1>2, <1>3, <1>4, <1>5, <1>7 DEF Trackers
<1>8. CASE list = "modified"
  BY <1>2, <1>3, <1>4, <1>5, <1>8 DEF Trackers
<1> QED
  BY <1>6, <1>7, <1>8

\* A call through a wrapper is one call of the world it owns.
LEMMA ViaWrapperWorld ==
  ASSUME IInv, ViaWrapper
  PROVE  /\ \E v : Keeps(world, v) /\ Through(v)
         /\ tracker' \in Trackers
<1>1. SoundWorld(world) /\ tracker \in Trackers
  BY DEF IInv
<1>2. Table \in ComponentStorage
  BY DEF ComponentStorage
<1>3. CanBump(world)
  BY DEF ViaWrapper, TrackedDespawn, HookedDespawn, ObservedDespawn, TrackedRemove,
         HookedRemove, ObservedRemove, HookedAdd, ObservedAdd, TrackedAdd, Through
<1>4. \A ks : \A list \in {"added", "removed", "modified"} :
         Recorded(list, ks) \in Trackers
  BY <1>1, RecordedCounts
<1>5. ASSUME NEW e \in EntityId,
             TrackedDespawn(e) \/ HookedDespawn(e) \/ ObservedDespawn(e)
      PROVE  Through(DespawnedEntity(world, e)) /\ tracker' \in Trackers
  BY <1>1, <1>4, <1>5 DEF TrackedDespawn, HookedDespawn, ObservedDespawn
<1>6. ASSUME NEW e \in EntityId, NEW t \in ComponentType,
             TrackedRemove(e, t) \/ HookedRemove(e, t) \/ ObservedRemove(e, t)
      PROVE  Through(RemovedComponent(world, e, t)) /\ tracker' \in Trackers
  BY <1>1, <1>4, <1>6 DEF TrackedRemove, HookedRemove, ObservedRemove
<1>7. ASSUME NEW e \in EntityId, NEW t \in ComponentType, NEW data \in Bytes,
             HookedAdd(e, t, data) \/ ObservedAdd(e, t, data)
      PROVE  Through(AddedComponent(world, e, t, data, Table)) /\ tracker' \in Trackers
  BY <1>1, <1>7 DEF HookedAdd, ObservedAdd
<1>8. ASSUME NEW e \in EntityId, NEW t \in ComponentType, NEW data \in Bytes,
             NEW storage \in ComponentStorage, TrackedAdd(e, t, data, storage)
      PROVE  Through(AddedComponent(world, e, t, data, storage)) /\ tracker' \in Trackers
  BY <1>1, <1>4, <1>8 DEF TrackedAdd
<1> QED
  BY <1>1, <1>2, <1>3, <1>5, <1>6, <1>7, <1>8, AddKeeps, RemoveKeeps, DespawnKeeps
  DEF ViaWrapper

\* Applying a queue keeps the world sound, and exact while no component got into
\* both maps on the way.
LEMMA ApplyWorld ==
  ASSUME IInv, Apply
  PROVE  SoundWorld(world') /\ (single' => ExactWorld(world'))
<1>1. /\ SoundWorld(world) /\ (single => ExactWorld(world))
      /\ queue \in Seq(Commands) /\ CanReplay(world, queue)
  BY DEF IInv, Apply
<1>2. /\ world' = Replay(world, queue)[Len(queue)]
      /\ single' => single /\ \A i \in 0..Len(queue) : OneMapEach(Replay(world, queue)[i])
  BY DEF Apply, BehindTheWrapper
<1>3. Len(queue) \in 0..Len(queue)
  BY <1>1
<1> QED
  BY <1>1, <1>2, <1>3, ReplayKeeps

\* Every step keeps the world sound, and exact while single.
LEMMA StepWorld ==
  ASSUME IInv, [Next]_vars
  PROVE  SoundWorld(world') /\ (single' => ExactWorld(world'))
<1>1. SoundWorld(world) /\ (single => ExactWorld(world))
  BY DEF IInv
<1>2. CASE UNCHANGED <<world, single>>
  BY <1>1, <1>2
<1>3. CASE ViaWrapper
  <2>1. PICK v : Keeps(world, v) /\ Through(v)
    BY <1>3, ViaWrapperWorld
  <2> QED BY <1>1, <2>1 DEF Through, Keeps
<1>4. CASE SpawnEntity
  <2>1. CanSpawn(world) /\ world' = SpawnedWorld(world) /\ single' = single
    BY <1>4 DEF SpawnEntity
  <2>2. Keeps(world, world')
    BY <1>1, <2>1, SpawnKeeps
  <2>3. OneMapEach(world) => OneMapEach(world')
    BY <1>1, <2>1, SpawnFields DEF OneMapEach, SoundWorld
  <2> QED BY <1>1, <2>1, <2>2, <2>3 DEF Keeps, ExactWorld
<1>5. ASSUME NEW c \in Commands, BareCall(c)
      PROVE  SoundWorld(world') /\ (single' => ExactWorld(world'))
  <2>1. /\ CanApply(world, c) /\ world' = Applied(world, c)
        /\ single' = (single /\ OneMapEach(world'))
    BY <1>5 DEF BareCall, BehindTheWrapper, CanApply
  <2>2. Keeps(world, world')
    BY <1>1, <2>1, AppliedKeeps
  <2> QED BY <1>1, <2>1, <2>2 DEF Keeps
<1>6. CASE Apply
  BY <1>6, ApplyWorld
<1>7. ASSUME ~ UNCHANGED <<world, single>>
      PROVE  ViaWrapper \/ SpawnEntity \/ Apply \/ \E c \in Commands : BareCall(c)
  BY <1>7 DEF Next, vars, Wrap, IntoInner, Register, ClearTracker, AdvanceTick, Enqueue,
              DropQueue
<1> QED
  BY <1>2, <1>3, <1>4, <1>5, <1>6, <1>7

\* A new tracker has no entries.
LEMMA NewTrackerType ==
  /\ NewTracker \in Trackers
  /\ \A k \in Key : /\ NewTracker.added[k] = 0 /\ NewTracker.removed[k] = 0
                    /\ NewTracker.modified[k] = 0
  BY DEF NewTracker, Trackers, NoChanges

\* Every step keeps the invariant.
LEMMA StepIInv == IInv /\ [Next]_vars => IInv'
<1> SUFFICES ASSUME IInv, [Next]_vars PROVE IInv'
  OBVIOUS
<1>1. SoundWorld(world') /\ (single' => ExactWorld(world'))
  BY StepWorld
<1>2. queue \in Seq(Commands) /\ tracker \in Trackers
  BY DEF IInv
<1>3. queue' \in Seq(Commands)
  <2>1. ASSUME NEW c \in Commands, Enqueue(c)
        PROVE  queue' \in Seq(Commands)
    BY <1>2, <2>1 DEF Enqueue
  <2>2. CASE ViaWrapper
    <3>1. UNCHANGED queue
      BY <2>2, ViaWrapperWorld DEF Through
    <3> QED BY <1>2, <3>1
  <2>3. \/ UNCHANGED queue \/ queue' = <<>> \/ ViaWrapper
        \/ \E c \in Commands : Enqueue(c)
    BY DEF Next, vars, wrapping, Wrap, IntoInner, Register, ClearTracker, AdvanceTick,
           SpawnEntity, BareCall, Apply, DropQueue, BehindTheWrapper
  <2>4. <<>> \in Seq(Commands)
    OBVIOUS
  <2> QED
    BY <1>2, <2>1, <2>2, <2>3, <2>4, Zenon
<1>4. tracker' \in Trackers
  <2>1. tracker.tick \in Nat /\ tracker.tick + 1 \in Nat
    BY <1>2 DEF Trackers
  <2>2. CASE ClearTracker
    BY <2>1, <2>2, NewTrackerType DEF ClearTracker, Trackers
  <2>3. CASE AdvanceTick
    BY <1>2, <2>1, <2>3 DEF AdvanceTick, Trackers
  <2>4. CASE ViaWrapper
    BY <2>4, ViaWrapperWorld
  <2>5. CASE \/ IntoInner
             \/ \E k \in Kinds, callbacks \in SUBSET (ComponentType \X Events) :
                   Wrap(k, callbacks)
    BY <2>5, NewTrackerType DEF Wrap, IntoInner
  <2>6. CASE UNCHANGED tracker
    BY <1>2, <2>6
  <2>7. \/ ViaWrapper \/ ClearTracker \/ AdvanceTick \/ IntoInner
        \/ UNCHANGED tracker
        \/ \E k \in Kinds, callbacks \in SUBSET (ComponentType \X Events) :
              Wrap(k, callbacks)
    BY DEF Next, vars, wrapping, Register, SpawnEntity, BareCall, Enqueue, Apply,
           DropQueue, BehindTheWrapper
  <2> QED
    BY <2>2, <2>3, <2>4, <2>5, <2>6, <2>7
<1> QED
  BY <1>1, <1>3, <1>4 DEF IInv

\* The invariant holds at first.
LEMMA InitIInv == Init => IInv
  BY EmptyExact, NewTrackerType DEF Init, IInv, ExactWorld

-----------------------------------------------------------------------------
(***************************************************************************)
(* Callbacks.                                                              *)
(***************************************************************************)

\* Whoever is registered for an announced component is called, and nobody else.
LEMMA FiredCalls ==
  ASSUME NEW event, NEW ks \in SUBSET Key, NEW w
  PROVE  /\ \A k \in ks : <<k[2], event>> \in registry =>
              \E h \in Fired(event, ks, w) :
                 h.key = k /\ h.event = event /\ h.present = Holds(w, k)
         /\ \A h \in Fired(event, ks, w) : h.event = event
         /\ {h.key : h \in Fired(event, ks, w)} = {k \in ks : <<k[2], event>> \in registry}
<1> DEFINE call(k) == [key |-> k, event |-> event, present |-> Holds(w, k)]
           called == {k \in ks : <<k[2], event>> \in registry}
<1>1. Fired(event, ks, w) = {call(k) : k \in called}
  BY DEF Fired
<1>2. \A k : call(k).key = k /\ call(k).event = event /\ call(k).present = Holds(w, k)
  OBVIOUS
<1> HIDE DEF call
<1>3. \A k \in called : call(k) \in Fired(event, ks, w)
  BY <1>1
<1>4. \A h \in Fired(event, ks, w) : \E k \in called : h = call(k)
  BY <1>1
<1>5. \A k \in ks : <<k[2], event>> \in registry => k \in called
  OBVIOUS
<1> HIDE DEF called
<1>6. {h.key : h \in Fired(event, ks, w)} = called
  <2>1. ASSUME NEW k \in called
        PROVE  k \in {h.key : h \in Fired(event, ks, w)}
    BY <1>2, <1>3
  <2>2. ASSUME NEW k \in {h.key : h \in Fired(event, ks, w)}
        PROVE  k \in called
    <3>1. PICK h \in Fired(event, ks, w) : k = h.key
      OBVIOUS
    <3> QED BY <1>2, <1>4, <3>1
  <2> QED BY <2>1, <2>2
<1> QED
  BY <1>2, <1>3, <1>4, <1>5, <1>6 DEF called

\* A call adds one component, removes one, or removes what an entity is listed
\* with: which components appear and disappear.
LEMMA AddChanges ==
  ASSUME NEW w, SoundWorld(w), CanBump(w), NEW e \in EntityId,
         NEW t \in ComponentType, NEW data \in Bytes, NEW storage \in ComponentStorage,
         NEW k \in Key
  PROVE  Holds(AddedComponent(w, e, t, data, storage), k) <=> Holds(w, k) \/ k = <<e, t>>
<1>1. w \in SimpleWorlds /\ k[1] \in EntityId /\ k[2] \in ComponentType
  BY KeyPair DEF SoundWorld
<1>2. HasComponent(AddedComponent(w, e, t, data, storage), k[1], k[2]) <=>
        HasComponent(w, k[1], k[2]) \/ <<k[1], k[2]>> = <<e, t>>
  BY <1>1, AddedHas
<1> QED
  BY <1>2, KeyPair DEF Holds

\* remove_component takes away at most the component it names.
LEMMA RemoveChanges ==
  ASSUME NEW w, SoundWorld(w), CanBump(w), NEW e \in EntityId, NEW t \in ComponentType,
         NEW k \in Key
  PROVE  LET v == RemovedComponent(w, e, t) IN
         /\ k # <<e, t>> => (Holds(v, k) <=> Holds(w, k))
         /\ k = <<e, t>> /\ OneMapEach(w) => ~Holds(v, k)
<1>1. w \in SimpleWorlds /\ k[1] \in EntityId /\ k[2] \in ComponentType
  BY KeyPair DEF SoundWorld
<1>2. /\ (k[1] # e \/ k[2] # t) =>
           (HasComponent(RemovedComponent(w, e, t), k[1], k[2]) <=>
              HasComponent(w, k[1], k[2]))
      /\ HasComponent(RemovedComponent(w, e, t), e, t) <=>
           w.components[<<e, t>>] # None /\ w.sparse_components[<<e, t>>] # None
  BY <1>1, RemovedHas
<1>3. k = <<k[1], k[2]>> /\ <<e, t>> \in Key
  BY KeyPair DEF Key
<1> QED
  BY <1>2, <1>3 DEF Holds, OneMapEach

\* despawn_entity takes away the listed components of its entity and no others.
LEMMA DespawnChanges ==
  ASSUME NEW w, SoundWorld(w), CanBump(w), NEW e \in EntityId, NEW k \in Key
  PROVE  Holds(DespawnedEntity(w, e), k) <=> Holds(w, k) /\ k \notin Listed(w, e)
<1>1. w \in SimpleWorlds /\ k[1] \in EntityId /\ k[2] \in ComponentType
  BY KeyPair DEF SoundWorld
<1>2. HasComponent(DespawnedEntity(w, e), k[1], k[2]) <=>
        HasComponent(w, k[1], k[2]) /\ ~(k[1] = e /\ k[2] \in w.entity_components[e])
  BY <1>1, DespawnedHas
<1>3. k \in Listed(w, e) <=> k[1] = e /\ k[2] \in w.entity_components[e]
  BY KeyPair DEF Listed
<1> QED
  BY <1>2, <1>3 DEF Holds

\* The components that an entity is listed with.
LEMMA ListedKeys ==
  ASSUME NEW w, SoundWorld(w), NEW e \in EntityId
  PROVE  Listed(w, e) \in SUBSET Key /\ \A k \in Listed(w, e) : Holds(w, k)
<1>1. w.entity_components[e] \in SUBSET ComponentType
  BY DEF SoundWorld, SimpleWorlds
<1>2. \A t \in w.entity_components[e] : <<e, t>> \in Key /\ Holds(w, <<e, t>>)
  BY <1>1 DEF Key, SoundWorld, Holds
<1> QED
  BY <1>2 DEF Listed

\* What the calls through a wrapper with callbacks do: add_component,
\* remove_component, despawn_entity.
AnnouncedAdd(e, t) ==
    /\ \E data \in Bytes : world' = AddedComponent(world, e, t, data, Table)
    /\ heard' = Fired("Added", {<<e, t>>}, world')

AnnouncedRemove(e, t) ==
    /\ world' = RemovedComponent(world, e, t)
    /\ IF kind = "Hooked" THEN heard' = Fired("Removed", {<<e, t>>}, world)
       ELSE heard' = IF HasComponent(world, e, t)
                     THEN Fired("Removed", {<<e, t>>}, world') ELSE {}

AnnouncedDespawn(e) ==
    /\ world' = DespawnedEntity(world, e)
    /\ heard' = Fired("Removed", Listed(world, e), world)

\* There are no others.
LEMMA AnnouncedCases ==
  ASSUME ViaWrapper, kind \in {"Hooked", "Observed"}
  PROVE  /\ CanBump(world)
         /\ single' => single /\ OneMapEach(world')
         /\ \E e \in EntityId : \/ AnnouncedDespawn(e)
                                \/ \E t \in ComponentType : \/ AnnouncedRemove(e, t)
                                                            \/ AnnouncedAdd(e, t)
<1>1. kind # "Tracked"
  OBVIOUS
<1>2. PICK e \in EntityId :
        \/ HookedDespawn(e) \/ ObservedDespawn(e)
        \/ \E t \in ComponentType :
             \/ HookedRemove(e, t) \/ ObservedRemove(e, t)
             \/ \E data \in Bytes : HookedAdd(e, t, data) \/ ObservedAdd(e, t, data)
  BY <1>1 DEF ViaWrapper, TrackedDespawn, TrackedRemove, TrackedAdd
<1>3. CASE HookedDespawn(e) \/ ObservedDespawn(e)
  BY <1>3 DEF HookedDespawn, ObservedDespawn, Through, AnnouncedDespawn
<1>4. ASSUME NEW t \in ComponentType, HookedRemove(e, t) \/ ObservedRemove(e, t)
      PROVE  /\ CanBump(world) /\ AnnouncedRemove(e, t)
             /\ single' => single /\ OneMapEach(world')
  BY <1>4 DEF HookedRemove, ObservedRemove, Through, AnnouncedRemove
<1>5. ASSUME NEW t \in ComponentType, NEW data \in Bytes,
             HookedAdd(e, t, data) \/ ObservedAdd(e, t, data)
      PROVE  /\ CanBump(world) /\ AnnouncedAdd(e, t)
             /\ single' => single /\ OneMapEach(world')
  BY <1>5 DEF HookedAdd, ObservedAdd, Through, AnnouncedAdd
<1> QED
  BY <1>2, <1>3, <1>4, <1>5

\* A component that a call takes away or changes is announced, removals
\* by hooks before they are carried out.
LEMMA HeardStep ==
  ASSUME IInv, ViaWrapper, kind \in {"Hooked", "Observed"}, NEW k \in Key
  PROVE  /\ Holds(world, k) /\ ~Holds(world', k) /\ <<k[2], "Removed">> \in registry =>
              \E h \in heard' : /\ h.key = k /\ h.event = "Removed"
                                /\ kind = "Hooked" => h.present
         /\ /\ DataOf(world', k) \notin {None, DataOf(world, k)}
            /\ <<k[2], "Added">> \in registry
            /\ ~Uncovered(k)
            => \E h \in heard' : h.key = k /\ h.event = "Added" /\ h.present
<1>1. SoundWorld(world) /\ CanBump(world)
  BY AnnouncedCases DEF IInv
<1>2. PICK e \in EntityId : \/ AnnouncedDespawn(e)
                            \/ \E t \in ComponentType : \/ AnnouncedRemove(e, t)
                                                        \/ AnnouncedAdd(e, t)
  BY AnnouncedCases
<1>3. CASE AnnouncedDespawn(e)
  <2>1. Holds(world', k) <=> Holds(world, k) /\ k \notin Listed(world, e)
    BY <1>1, <1>3, DespawnChanges DEF AnnouncedDespawn
  <2>2. Listed(world, e) \in SUBSET Key
    BY <1>1, ListedKeys
  <2>3. \A x \in Listed(world, e) : <<x[2], "Removed">> \in registry =>
          \E h \in heard' : h.key = x /\ h.event = "Removed" /\ h.present = Holds(world, x)
    BY <1>3, <2>2, FiredCalls DEF AnnouncedDespawn
  <2>4. DataOf(world', k) \in {None, DataOf(world, k)}
    BY <1>1, <1>3, DespawnReads DEF AnnouncedDespawn, DataOf
  <2> QED BY <2>1, <2>3, <2>4
<1>4. ASSUME NEW t \in ComponentType, AnnouncedRemove(e, t)
      PROVE  /\ DataOf(world', k) \in {None, DataOf(world, k)} \/ Uncovered(k)
             /\ Holds(world, k) /\ ~Holds(world', k) /\ <<k[2], "Removed">> \in registry =>
                  \E h \in heard' : /\ h.key = k /\ h.event = "Removed"
                                    /\ kind = "Hooked" => h.present
  <2>1. k # <<e, t>> => (Holds(world', k) <=> Holds(world, k))
    BY <1>1, <1>4, RemoveChanges DEF AnnouncedRemove
  <2>2. {<<e, t>>} \in SUBSET Key /\ (Holds(world, <<e, t>>) <=> HasComponent(world, e, t))
    BY DEF Key, Holds
  <2>3. HasComponent(world, e, t) =>
          \A x \in {<<e, t>>} : <<x[2], "Removed">> \in registry =>
            \E h \in heard' : /\ h.key = x /\ h.event = "Removed"
                              /\ kind = "Hooked" => h.present = Holds(world, x)
    BY <1>4, <2>2, FiredCalls DEF AnnouncedRemove
  <2>4. DataOf(world', k) \in {None, DataOf(world, k)} \/ Uncovered(k)
    BY <1>1, <1>4, RemoveReads DEF AnnouncedRemove, DataOf, Uncovered
  <2> QED BY <2>1, <2>2, <2>3, <2>4
<1>5. ASSUME NEW t \in ComponentType, AnnouncedAdd(e, t)
      PROVE  /\ Holds(world, k) => Holds(world', k)
             /\ DataOf(world', k) # DataOf(world, k) /\ <<k[2], "Added">> \in registry =>
                  \E h \in heard' : h.key = k /\ h.event = "Added" /\ h.present
  <2>1. Holds(world', k) <=> Holds(world, k) \/ k = <<e, t>>
    <3>1. Table \in ComponentStorage
      BY DEF ComponentStorage
    <3> QED BY <1>1, <1>5, <3>1, AddChanges DEF AnnouncedAdd
  <2>2. {<<e, t>>} \in SUBSET Key
    BY DEF Key
  <2>3. \A x \in {<<e, t>>} : <<x[2], "Added">> \in registry =>
          \E h \in heard' : h.key = x /\ h.event = "Added" /\ h.present = Holds(world', x)
    <3>1. heard' = Fired("Added", {<<e, t>>}, world')
      BY <1>5 DEF AnnouncedAdd
    <3>2. \A w : \A x \in {<<e, t>>} : <<x[2], "Added">> \in registry =>
            \E h \in Fired("Added", {<<e, t>>}, w) :
               h.key = x /\ h.event = "Added" /\ h.present = Holds(w, x)
      BY <2>2, FiredCalls
    <3> QED BY <3>1, <3>2
  <2>4. k # <<e, t>> => DataOf(world', k) = DataOf(world, k)
    <3>1. Table \in ComponentStorage
      BY DEF ComponentStorage
    <3> QED BY <1>1, <1>5, <3>1, AddReads DEF AnnouncedAdd, DataOf
  <2> QED BY <2>1, <2>3, <2>4
<1> QED
  BY <1>2, <1>3, <1>4, <1>5, Zenon

\* No component comes, goes or changes in silence: every callback that is
\* registered for it is called, hooks of a removal before it is carried out.
THEOREM NoChangeIsSilent == Spec => ChangesAreHeard
<1>1. ASSUME IInv, [Next]_vars
      PROVE  [ViaWrapper /\ kind \in {"Hooked", "Observed"} =>
        \A k \in Key :
            /\ Holds(world, k) /\ ~Holds(world', k) /\ <<k[2], "Removed">> \in registry =>
                 \E h \in heard' : /\ h.key = k /\ h.event = "Removed"
                                   /\ kind = "Hooked" => h.present
            /\ /\ DataOf(world', k) \notin {None, DataOf(world, k)}
               /\ <<k[2], "Added">> \in registry
               /\ ~Uncovered(k)
               => \E h \in heard' : h.key = k /\ h.event = "Added" /\ h.present]_vars
  BY <1>1, HeardStep
<1> QED
  BY <1>1, InitIInv, StepIInv, PTL DEF Spec, ChangesAreHeard

\* While no component is in both maps, the observers of removals that a call of
\* an ObservedWorld calls are those of the components it takes away.
LEMMA ExactStep ==
  ASSUME IInv, ViaWrapper, kind = "Observed", single'
  PROVE  {h.key : h \in {h \in heard' : h.event = "Removed"}} =
            {k \in Key : /\ <<k[2], "Removed">> \in registry
                         /\ Holds(world, k) /\ ~Holds(world', k)}
<1> DEFINE called == {h.key : h \in {h \in heard' : h.event = "Removed"}}
           gone == {k \in Key : /\ <<k[2], "Removed">> \in registry
                                /\ Holds(world, k) /\ ~Holds(world', k)}
           watched(ks) == {k \in ks : <<k[2], "Removed">> \in registry}
<1>1. SoundWorld(world) /\ CanBump(world) /\ ExactWorld(world) /\ OneMapEach(world)
  BY AnnouncedCases DEF IInv, ExactWorld
<1>2. PICK e \in EntityId : \/ AnnouncedDespawn(e)
                            \/ \E t \in ComponentType : \/ AnnouncedRemove(e, t)
                                                        \/ AnnouncedAdd(e, t)
  BY AnnouncedCases
<1>3. ASSUME NEW ks \in SUBSET Key, NEW w, heard' = Fired("Removed", ks, w)
      PROVE  called = watched(ks)
  <2>1. \A h \in heard' : h.event = "Removed"
    BY <1>3, FiredCalls
  <2>2. {h \in heard' : h.event = "Removed"} = heard'
    BY <2>1
  <2>3. {h.key : h \in heard'} = watched(ks)
    BY <1>3, FiredCalls
  <2> QED BY <2>2, <2>3
<1> HIDE DEF called
<1>4. ASSUME AnnouncedDespawn(e)
      PROVE  called = gone
  <2>1. /\ Listed(world, e) \in SUBSET Key
        /\ \A k \in Listed(world, e) : Holds(world, k)
    BY <1>1, ListedKeys
  <2>2. called = watched(Listed(world, e))
    BY <1>3, <1>4, <2>1 DEF AnnouncedDespawn
  <2>3. \A k \in Key : Holds(world', k) <=> Holds(world, k) /\ k \notin Listed(world, e)
    BY <1>1, <1>4, DespawnChanges DEF AnnouncedDespawn
  <2>4. watched(Listed(world, e)) = gone
    BY <2>1, <2>3
  <2> QED BY <2>2, <2>4
<1>5. ASSUME NEW t \in ComponentType, AnnouncedRemove(e, t)
      PROVE  called = gone
  <2>1. /\ <<e, t>> \in Key /\ {<<e, t>>} \in SUBSET Key
        /\ Holds(world, <<e, t>>) <=> HasComponent(world, e, t)
    BY DEF Key, Holds
  <2>2. \A k \in Key : /\ k # <<e, t>> => (Holds(world', k) <=> Holds(world, k))
                       /\ k = <<e, t>> => ~Holds(world', k)
    BY <1>1, <1>5, RemoveChanges DEF AnnouncedRemove
  <2>3. CASE HasComponent(world, e, t)
    <3>1. heard' = Fired("Removed", {<<e, t>>}, world')
      BY <1>5, <2>3 DEF AnnouncedRemove
    <3>2. called = watched({<<e, t>>})
      BY <1>3, <2>1, <3>1
    <3>3. \A k \in Key : Holds(world, k) /\ ~Holds(world', k) <=> k = <<e, t>>
      BY <2>1, <2>2, <2>3
    <3>4. watched({<<e, t>>}) = gone
      BY <2>1, <3>3
    <3> QED BY <3>2, <3>4
  <2>4. CASE ~HasComponent(world, e, t)
    <3>1. heard' = {}
      BY <1>5, <2>4 DEF AnnouncedRemove
    <3>2. called = {}
      BY <3>1 DEF called
    <3>3. \A k \in Key : ~ (Holds(world, k) /\ ~Holds(world', k))
      BY <2>1, <2>2, <2>4
    <3>4. gone = {}
      BY <3>3
    <3> QED BY <3>2, <3>4
  <2> QED BY <2>3, <2>4
<1>6. ASSUME NEW t \in ComponentType, AnnouncedAdd(e, t)
      PROVE  called = gone
  <2>1. \A k \in Key : Holds(world', k) <=> Holds(world, k) \/ k = <<e, t>>
    <3>1. Table \in ComponentStorage
      BY DEF ComponentStorage
    <3> QED BY <1>1, <1>6, <3>1, AddChanges DEF AnnouncedAdd
  <2>2. \A h \in heard' : h.event = "Added"
    <3>1. heard' = Fired("Added", {<<e, t>>}, world')
      BY <1>6 DEF AnnouncedAdd
    <3>2. {<<e, t>>} \in SUBSET Key
      BY DEF Key
    <3> QED BY <3>1, <3>2, FiredCalls
  <2>3. {h \in heard' : h.event = "Removed"} = {}
    BY <2>2
  <2>4. called = {}
    BY <2>3 DEF called
  <2>5. gone = {}
    BY <2>1
  <2> QED BY <2>4, <2>5
<1> QED
  BY <1>2, <1>4, <1>5, <1>6 DEF called

\* An ObservedWorld cries no wolf: its observers of removals hear of exactly
\* what the call took away.
THEOREM ObserversHearTheTruth == Spec => ObserversAreExact
<1>1. ASSUME IInv, [Next]_vars
      PROVE  [ViaWrapper /\ kind = "Observed" /\ single' =>
                {h.key : h \in {h \in heard' : h.event = "Removed"}} =
                  {k \in Key : /\ <<k[2], "Removed">> \in registry
                               /\ Holds(world, k) /\ ~Holds(world', k)}]_vars
  BY <1>1, ExactStep
<1> QED
  BY <1>1, InitIInv, StepIInv, PTL DEF Spec, ObserversAreExact

-----------------------------------------------------------------------------
(***************************************************************************)
(* The command queue.                                                      *)
(***************************************************************************)

\* LastAbout finds the last command about the component, or 0.
LEMMA LastAboutIsLast ==
  ASSUME queue \in Seq(Commands), NEW k \in Key
  PROVE  \/ LastAbout(k) = 0 /\ Untouched(queue, k, 1, Len(queue))
         \/ /\ LastAbout(k) \in 1..Len(queue)
            /\ IsAbout(queue[LastAbout(k)], k)
            /\ Untouched(queue, k, LastAbout(k) + 1, Len(queue))
<1> DEFINE about == {i \in 1..Len(queue) : IsAbout(queue[i], k)}
<1>1. LastAbout(k) = IF about = {} THEN 0 ELSE CHOOSE i \in about : \A j \in about : j =< i
  BY DEF LastAbout, IsAbout
<1>2. Len(queue) \in Nat
  OBVIOUS
<1>3. CASE about = {}
  BY <1>1, <1>3 DEF Untouched
<1>4. CASE about # {}
  <2>1. \E i \in about : \A j \in about : j =< i
    BY <1>2, <1>4, GreatestNumber
  <2>2. LastAbout(k) \in about /\ \A j \in about : j =< LastAbout(k)
    BY <1>1, <1>4, <2>1
  <2> QED BY <1>2, <2>2 DEF Untouched
<1> QED BY <1>3, <1>4

\* Applying a queue leaves a component as the last command about it says.
LEMMA LastCommandStep ==
  ASSUME IInv, Apply, single', NEW k \in Key
  PROVE  LET i == LastAbout(k) IN
         GetComponent(world', k[1], k[2]) =
            CASE i = 0               -> GetComponent(world, k[1], k[2])
              [] i > 0 /\ queue[i].op = "Add" -> queue[i].data
              [] OTHER               -> None
<1> DEFINE n == Len(queue)
           i == LastAbout(k)
           now == GetComponent(world', k[1], k[2])
<1>1. /\ world' = Replay(world, queue)[n]
      /\ single /\ \A j \in 0..n : OneMapEach(Replay(world, queue)[j])
      /\ CanReplay(world, queue)
  BY DEF Apply, BehindTheWrapper
<1>2. /\ ExactWorld(world) /\ queue \in Seq(Commands)
      /\ n \in 0..n /\ n \in Nat
  BY <1>1 DEF IInv
<1>3. /\ Untouched(queue, k, 1, n) => now = GetComponent(world, k[1], k[2])
      /\ \A j \in 1..n : IsAbout(queue[j], k) /\ Untouched(queue, k, j + 1, n) =>
                            now = IF queue[j].op = "Add" THEN queue[j].data ELSE None
  BY <1>1, <1>2, ReplayReads
<1>4. \/ i = 0 /\ Untouched(queue, k, 1, n)
      \/ /\ i \in 1..n
         /\ IsAbout(queue[i], k) /\ Untouched(queue, k, i + 1, n)
  BY <1>2, LastAboutIsLast
<1> HIDE DEF i, now
<1>5. CASE i = 0 /\ Untouched(queue, k, 1, n)
  BY <1>3, <1>5 DEF now, i
<1>6. CASE i \in 1..n /\ IsAbout(queue[i], k) /\ Untouched(queue, k, i + 1, n)
  <2>1. now = IF queue[i].op = "Add" THEN queue[i].data ELSE None
    BY <1>3, <1>6
  <2>2. i > 0 /\ i # 0
    BY <1>6
  <2> QED BY <2>1, <2>2 DEF now, i
<1> QED BY <1>4, <1>5, <1>6

\* The last command decides, however long the queue and whatever happened to
\* the world while it waited.
THEOREM TheLastCommandDecides == Spec => LastCommandDecides
<1>1. ASSUME IInv, [Next]_vars
      PROVE  [Apply /\ single' =>
                \A k \in Key :
                    LET i == LastAbout(k) IN
                    GetComponent(world', k[1], k[2]) =
                        CASE i = 0               -> GetComponent(world, k[1], k[2])
                          [] i > 0 /\ queue[i].op = "Add" -> queue[i].data
                          [] OTHER               -> None]_vars
  BY <1>1, LastCommandStep
<1> QED
  BY <1>1, InitIInv, StepIInv, PTL DEF Spec, LastCommandDecides

-----------------------------------------------------------------------------
(***************************************************************************)
(* The tracker and the snapshots.                                          *)
(***************************************************************************)

\* The books of the tracker about one component: a change since the last
\* clear() is in one of the lists; while no component is in both maps, what was
\* there plus what was added is what is there plus what was removed; and new
\* data of a component were written by an add or a modification.
Accounts(k) ==
    LET now == Snapshot(world)[k] IN
    /\ since[k] # now => tracker.added[k] + tracker.removed[k] + tracker.modified[k] > 0
    /\ single => tracker.added[k] + (IF since[k] # None THEN 1 ELSE 0) =
                    tracker.removed[k] + (IF now # None THEN 1 ELSE 0)
    /\ since[k] # None /\ now # None /\ since[k] # now =>
          tracker.modified[k] + tracker.added[k] > 0

TrackerInv == kind = "Tracked" /\ through => \A k \in Key : Accounts(k)

\* A call through a TrackedWorld keeps the books.
LEMMA TrackedStep ==
  ASSUME IInv, ViaWrapper, kind = "Tracked", NEW k \in Key, Accounts(k)
  PROVE  Accounts(k)'
<1> DEFINE a == tracker.added[k]
           r == tracker.removed[k]
           m == tracker.modified[k]
           was == Snapshot(world)[k]
           now == Snapshot(world')[k]
<1>1. /\ kind # "Hooked" /\ kind # "Observed"
      /\ SoundWorld(world) /\ (single => ExactWorld(world)) /\ tracker \in Trackers
  BY DEF IInv
<1>2. a \in Nat /\ r \in Nat /\ m \in Nat
  BY <1>1 DEF Trackers
<1>3. /\ was # None <=> k[2] \in world.entity_components[k[1]]
      /\ single => (was # None <=> HasComponent(world, k[1], k[2]))
  BY <1>1, SnapshotNames
<1>4. /\ since[k] # was => a + r + m > 0
      /\ single => a + (IF since[k] # None THEN 1 ELSE 0) =
                      r + (IF was # None THEN 1 ELSE 0)
      /\ since[k] # None /\ was # None /\ since[k] # was => m + a > 0
  BY DEF Accounts
<1>5. PICK e \in EntityId :
        \/ TrackedDespawn(e)
        \/ \E t \in ComponentType :
             \/ TrackedRemove(e, t)
             \/ \E data \in Bytes, storage \in ComponentStorage :
                  TrackedAdd(e, t, data, storage)
  BY <1>1 DEF ViaWrapper, HookedDespawn, ObservedDespawn, HookedRemove, ObservedRemove,
              HookedAdd, ObservedAdd
<1>6. CanBump(world) /\ UNCHANGED since /\ (single' => single)
  BY <1>5 DEF TrackedDespawn, TrackedRemove, TrackedAdd, Through
<1> DEFINE kept ==
      /\ since[k] # now =>
           tracker'.added[k] + tracker'.removed[k] + tracker'.modified[k] > 0
      /\ single => tracker'.added[k] + (IF since[k] # None THEN 1 ELSE 0) =
                      tracker'.removed[k] + (IF now # None THEN 1 ELSE 0)
      /\ since[k] # None /\ now # None /\ since[k] # now =>
           tracker'.modified[k] + tracker'.added[k] > 0
<1>7. ASSUME TrackedDespawn(e)
      PROVE  kept
  <2>1. /\ k[1] # e => now = was
        /\ k[1] = e => now = None
    BY <1>1, <1>6, <1>7, DespawnReads DEF TrackedDespawn, Through
  <2>2. k \in Listed(world, e) <=> k[1] = e /\ was # None
    BY <1>3, KeyPair DEF Listed
  <2>3. /\ tracker'.added[k] = a
        /\ tracker'.removed[k] = r + (IF k \in Listed(world, e) THEN 1 ELSE 0)
        /\ tracker'.modified[k] = m
    BY <1>1, <1>2, <1>7, RecordedCounts DEF TrackedDespawn
  <2> HIDE DEF a, r, m, was, now
  <2> QED BY <1>2, <1>4, <2>1, <2>2, <2>3
<1>8. ASSUME NEW t \in ComponentType, TrackedRemove(e, t)
      PROVE  kept
  <2>1. /\ k # <<e, t>> => now = was
        /\ k = <<e, t>> => now = None
    BY <1>1, <1>6, <1>8, RemoveReads DEF TrackedRemove, Through
  <2>2. k = <<e, t>> => (single => (was # None <=> HasComponent(world, e, t)))
                        /\ (was # None => HasComponent(world, e, t))
    BY <1>1, <1>3, KeyPair DEF SoundWorld
  <2>3. /\ tracker'.added[k] = a
        /\ tracker'.removed[k] =
             r + (IF HasComponent(world, e, t) /\ k = <<e, t>> THEN 1 ELSE 0)
        /\ tracker'.modified[k] = m
    <3>1. CASE HasComponent(world, e, t)
      BY <1>1, <1>2, <1>8, <3>1, RecordedCounts DEF TrackedRemove
    <3>2. CASE ~HasComponent(world, e, t)
      BY <1>2, <1>8, <3>2 DEF TrackedRemove
    <3> QED BY <3>1, <3>2
  <2> HIDE DEF a, r, m, was, now
  <2> QED BY <1>2, <1>4, <2>1, <2>2, <2>3
<1>9. ASSUME NEW t \in ComponentType, NEW data \in Bytes, NEW storage \in ComponentStorage,
             TrackedAdd(e, t, data, storage)
      PROVE  kept
  <2>1. /\ k # <<e, t>> => now = was
        /\ k = <<e, t>> => now # None
    BY <1>1, <1>6, <1>9, AddReads DEF TrackedAdd, Through
  <2>2. k = <<e, t>> => (single => (was # None <=> HasComponent(world, e, t)))
    BY <1>3
  <2>3. /\ tracker'.added[k] =
             a + (IF ~HasComponent(world, e, t) /\ k = <<e, t>> THEN 1 ELSE 0)
        /\ tracker'.removed[k] = r
        /\ tracker'.modified[k] =
             m + (IF HasComponent(world, e, t) /\ k = <<e, t>> THEN 1 ELSE 0)
    <3>1. CASE HasComponent(world, e, t)
      BY <1>1, <1>2, <1>9, <3>1, RecordedCounts DEF TrackedAdd
    <3>2. CASE ~HasComponent(world, e, t)
      BY <1>1, <1>2, <1>9, <3>2, RecordedCounts DEF TrackedAdd
    <3> QED BY <3>1, <3>2
  <2> HIDE DEF a, r, m, was, now
  <2> QED BY <1>2, <1>4, <2>1, <2>2, <2>3
<1>10. kept
  BY <1>5, <1>7, <1>8, <1>9
<1> QED
  BY <1>6, <1>10 DEF Accounts

\* A step that changes neither the snapshot nor the lists keeps the books.
LEMMA IdleStep ==
  ASSUME NEW k \in Key, Accounts(k), Snapshot(world')[k] = Snapshot(world)[k],
         UNCHANGED <<since, single>>,
         /\ tracker'.added = tracker.added
         /\ tracker'.removed = tracker.removed
         /\ tracker'.modified = tracker.modified
  PROVE  Accounts(k)'
  BY DEF Accounts

\* The books of a new tracker are in order.
LEMMA FreshStep ==
  ASSUME NEW k \in Key, UNCHANGED <<world, single>>, since' = Snapshot(world),
         /\ tracker'.added = NewTracker.added
         /\ tracker'.removed = NewTracker.removed
         /\ tracker'.modified = NewTracker.modified
  PROVE  Accounts(k)'
  BY NewTrackerType DEF Accounts

\* Every step keeps the books of a tracker that saw all changes.
LEMMA StepTracker == IInv /\ TrackerInv /\ [Next]_vars => TrackerInv'
<1> SUFFICES ASSUME IInv, TrackerInv, [Next]_vars, kind' = "Tracked", through',
                    NEW k \in Key
             PROVE  Accounts(k)'
  BY DEF TrackerInv
<1>1. CASE ViaWrapper
  <2>1. kind = "Tracked" /\ through
    BY <1>1, ViaWrapperWorld DEF Through
  <2> QED BY <1>1, <2>1, TrackedStep DEF TrackerInv
<1>2. CASE SpawnEntity
  <2>1. /\ UNCHANGED <<kind, through, since, tracker, single>>
        /\ CanSpawn(world) /\ world' = SpawnedWorld(world)
    BY <1>2 DEF SpawnEntity, wrapping
  <2>2. Snapshot(world')[k] = Snapshot(world)[k]
    BY <2>1, SpawnKeeps, SpawnFields DEF IInv, SoundWorld, Snapshot
  <2> QED BY <2>1, <2>2, IdleStep DEF TrackerInv
<1>3. CASE ClearTracker
  <2>1. /\ tracker'.added = NewTracker.added
        /\ tracker'.removed = NewTracker.removed
        /\ tracker'.modified = NewTracker.modified
    BY <1>3 DEF ClearTracker, NewTracker
  <2> QED BY <1>3, <2>1, FreshStep DEF ClearTracker
<1>4. ASSUME NEW callbacks, NEW owner, Wrap(owner, callbacks)
      PROVE  Accounts(k)'
  BY <1>4, FreshStep DEF Wrap
<1>5. CASE AdvanceTick
  <2>1. /\ tracker'.added = tracker.added
        /\ tracker'.removed = tracker.removed
        /\ tracker'.modified = tracker.modified
        /\ UNCHANGED <<kind, through, since, world, single>>
    BY <1>5 DEF AdvanceTick, IInv, Trackers
  <2> QED BY <2>1, IdleStep DEF TrackerInv
<1>6. CASE UNCHANGED <<kind, through, since, tracker, world, single>>
  BY <1>6, IdleStep DEF TrackerInv
<1>7. \/ ViaWrapper \/ SpawnEntity \/ ClearTracker \/ AdvanceTick
      \/ \E callbacks, owner : Wrap(owner, callbacks)
      \/ UNCHANGED <<kind, through, since, tracker, world, single>>
  BY DEF Next, vars, wrapping, IntoInner, Register, BareCall, BehindTheWrapper, Enqueue,
         Apply, DropQueue
<1> QED
  BY <1>1, <1>2, <1>3, <1>4, <1>5, <1>6, <1>7

\* A system that skips what the tracker does not name misses no change.
THEOREM TrackerMissesNothing == Spec => []TrackerCoversChanges
<1>1. Init => TrackerInv
  BY DEF Init, TrackerInv
<1>2. TrackerInv => TrackerCoversChanges
  BY DEF TrackerInv, TrackerCoversChanges, Accounts
<1> QED
  BY <1>1, <1>2, InitIInv, StepIInv, StepTracker, PTL DEF Spec

\* The diff of two snapshots says the same as the books.
LEMMA BooksAgreeWithDiff ==
  ASSUME IInv, TrackerInv
  PROVE  TrackerAgreesWithDiff
<1> SUFFICES ASSUME kind = "Tracked", through, single, NEW k \in Key
    PROVE  LET now == Snapshot(world) IN
           /\ tracker.added[k] = tracker.removed[k] +
                (CASE k \in AddedComponents(since, now)      -> 1
                   [] \/ k \in RemovedComponents(since, now)
                      \/ /\ k[1] \in RemovedEntities(since, now)
                         /\ since[k] # None                 -> -1
                   [] OTHER                                 -> 0)
           /\ k \in ModifiedComponents(since, now) =>
                tracker.modified[k] + tracker.added[k] > 0
  BY DEF TrackerAgreesWithDiff
<1> DEFINE now == Snapshot(world)
           removed == \/ k \in RemovedComponents(since, now)
                      \/ /\ k[1] \in RemovedEntities(since, now)
                         /\ since[k] # None
<1>1. Accounts(k)
  BY DEF TrackerInv
<1>2. k[1] \in EntityId /\ k[2] \in ComponentType /\ k = <<k[1], k[2]>>
  BY KeyPair
<1>3. tracker.added[k] \in Nat /\ tracker.removed[k] \in Nat
  BY DEF IInv, Trackers
<1>4. k \in AddedComponents(since, now) <=> since[k] = None /\ now[k] # None
  BY DEF AddedComponents
<1>5. /\ since[k] # None => k[1] \in EntitiesOf(since)
      /\ now[k] # None => k[1] \in EntitiesOf(now)
  BY <1>2 DEF EntitiesOf
<1>6. removed <=> since[k] # None /\ now[k] = None
  BY <1>5 DEF RemovedComponents, RemovedEntities
<1>7. k \in ModifiedComponents(since, now) =>
        since[k] # None /\ now[k] # None /\ since[k] # now[k]
  BY DEF ModifiedComponents
<1> HIDE DEF now, removed
<1>8. /\ tracker.added[k] + (IF since[k] # None THEN 1 ELSE 0) =
           tracker.removed[k] + (IF now[k] # None THEN 1 ELSE 0)
      /\ since[k] # None /\ now[k] # None /\ since[k] # now[k] =>
           tracker.modified[k] + tracker.added[k] > 0
  BY <1>1 DEF Accounts, now
<1>9. tracker.added[k] = tracker.removed[k] +
        (CASE k \in AddedComponents(since, now) -> 1 [] removed -> -1 [] OTHER -> 0)
  <2>1. CASE k \in AddedComponents(since, now)
    BY <1>3, <1>4, <1>6, <1>8, <2>1
  <2>2. CASE removed
    BY <1>3, <1>4, <1>6, <1>8, <2>2
  <2>3. CASE ~removed /\ k \notin AddedComponents(since, now)
    BY <1>3, <1>4, <1>6, <1>8, <2>3
  <2> QED BY <2>1, <2>2, <2>3
<1> QED
  BY <1>7, <1>8, <1>9 DEF now, removed

\* The tracker and the diff of two snapshots tell the same story.
THEOREM TrackerMatchesDiff == Spec => []TrackerAgreesWithDiff
<1>1. Init => TrackerInv
  BY DEF Init, TrackerInv
<1> QED
  BY <1>1, BooksAgreeWithDiff, InitIInv, StepIInv, StepTracker, PTL DEF Spec
=============================================================================
