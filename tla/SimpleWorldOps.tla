--------------------------- MODULE SimpleWorldOps ---------------------------
(***************************************************************************)
(* The SimpleWorld value of src/src/simple_world.rs and its methods, as    *)
(* functions from a world to a world.  Methods that only read the world    *)
(* are operators on it.                                                    *)
(*                                                                         *)
(* Abstractions.  A `Map<K, V>` is a function from K to V or None.  The    *)
(* `Vec<Symbol>` of component types that `entity_components` keeps per     *)
(* entity is the set of the types it lists: the code never pushes a type   *)
(* that is already there, removes the key when the list gets empty, and    *)
(* the order is not observable through the methods modelled here.  Hence   *)
(* an absent key is the empty set.  The entity lists that queries return   *)
(* (in key order, without repetition) are sets.                            *)
(***************************************************************************)
EXTENDS Integers

CONSTANTS
    U32Max,          \* largest u32: the bound of next_entity_id
    U64Max,          \* largest u64: the bound of version
    ComponentType,   \* the Symbols that name component types
    Bytes,           \* serialized component data
    None             \* an absent map entry

ASSUME BoundsAssumption == U32Max \in Nat \ {0} /\ U64Max \in Nat \ {0}

ASSUME NoneAssumption == None \notin Bytes

\* Any u32 may be passed by a caller.  U32Max stands for the ids that no spawn hands
\* out; id 0, which CommandQueue::spawn returns as a placeholder, is one of them,
\* and no method treats it in a way of its own.
EntityId == 1..U32Max

Key == EntityId \X ComponentType

Table == "Table"

Sparse == "Sparse"

ComponentStorage == {Table, Sparse}

SimpleWorlds ==
    [next_entity_id    : EntityId,
     components        : [Key -> Bytes \cup {None}],
     sparse_components : [Key -> Bytes \cup {None}],
     entity_components : [EntityId -> SUBSET ComponentType],
     version           : 0..U64Max]

EmptyWorld ==
    [next_entity_id    |-> 1,
     components        |-> [k \in Key |-> None],
     sparse_components |-> [k \in Key |-> None],
     entity_components |-> [e \in EntityId |-> {}],
     version           |-> 0]

-----------------------------------------------------------------------------
(***************************************************************************)
(* Mutating methods.  `+= 1` panics on overflow (the release profile keeps *)
(* overflow checks) and a panic reverts the invocation, so an operation    *)
(* happens only when its counter has room.                                 *)
(***************************************************************************)

CanSpawn(w) == w.next_entity_id < U32Max

\* Faulty variant of the next definition: version wraps past u64 unchecked.
CanBumpUnchecked(w) == w.version =< U64Max

CanBump(w) == w.version < U64Max

SpawnedWorld(w) == [w EXCEPT !.next_entity_id = @ + 1]

AddedComponent(w, e, t, data, storage) ==
    [w EXCEPT
        !.version = @ + 1,
        !.components =
            IF storage = Table THEN [@ EXCEPT ![<<e, t>>] = data] ELSE @,
        !.sparse_components =
            IF storage = Sparse THEN [@ EXCEPT ![<<e, t>>] = data] ELSE @,
        !.entity_components[e] = @ \cup {t}]

\* Faulty variant of the next definition: the type stays listed.
RemovedComponentKeepsList(w, e, t) ==
    [w EXCEPT
        !.version = @ + 1,
        !.components[<<e, t>>] = None,
        !.sparse_components[<<e, t>>] = None]

\* The sparse map is only tried when the table map had nothing to remove.
RemovedComponent(w, e, t) ==
    LET inTable  == w.components[<<e, t>>] # None
        inSparse == w.sparse_components[<<e, t>>] # None
    IN  [w EXCEPT
            !.version = @ + 1,
            !.components[<<e, t>>] = None,
            !.sparse_components =
                IF inTable THEN @ ELSE [@ EXCEPT ![<<e, t>>] = None],
            !.entity_components =
                IF inTable \/ inSparse THEN [@ EXCEPT ![e] = w.entity_components[e] \ {t}]
                                       ELSE @]

\* Faulty variant of the next definition: the version is not bumped.
DespawnedEntityNoBump(w, e) ==
    LET cleared(m) == [k \in Key |-> IF k[1] = e THEN None ELSE m[k]]
    IN  [w EXCEPT !.components = cleared(@),
                  !.sparse_components = cleared(@),
                  !.entity_components[e] = {}]

\* Faulty variant of the next definition: the sparse map is forgotten.
DespawnedEntityTableOnly(w, e) ==
    [w EXCEPT
        !.version = @ + 1,
        !.components = [k \in Key |-> IF k[1] = e THEN None ELSE @[k]],
        !.entity_components[e] = {}]

\* Only the types listed for the entity are removed from the two maps.
DespawnedEntity(w, e) ==
    LET cleared(m) ==
            [k \in Key |->
                IF k[1] = e /\ k[2] \in w.entity_components[e]
                THEN None ELSE m[k]]
    IN  [w EXCEPT
            !.version = @ + 1,
            !.components = cleared(@),
            !.sparse_components = cleared(@),
            !.entity_components[e] = {}]

-----------------------------------------------------------------------------
(* Reading methods. *)

GetComponent(w, e, t) ==
    IF w.components[<<e, t>>] # None THEN w.components[<<e, t>>]
                                     ELSE w.sparse_components[<<e, t>>]

HasComponent(w, e, t) ==
    \/ w.components[<<e, t>>] # None
    \/ w.sparse_components[<<e, t>>] # None

\* Faulty variant of the next definition: only the table map is scanned.
GetEntitiesInTable(w, t) == {e \in EntityId : w.components[<<e, t>>] # None}

\* get_entities_with_component reads the lists, not the two maps.
GetEntitiesWithComponent(w, t) == {e \in EntityId : t \in w.entity_components[e]}

GetTableEntitiesWithComponent(w, t) ==
    {e \in EntityId : /\ w.entity_components[e] # {}
                      /\ w.components[<<e, t>>] # None}

GetAllEntitiesWithComponent(w, t) ==
    {e \in EntityId : w.entity_components[e] # {} /\ HasComponent(w, e, t)}
=============================================================================
