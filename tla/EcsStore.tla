------------------------------ MODULE EcsStore ------------------------------
(***************************************************************************)
(* What an entity-component container promises, whatever maps, lists or    *)
(* archetypes it keeps: a component that is set is read back until it is   *)
(* set again, removed, or its entity is despawned; a query for a type      *)
(* finds exactly the entities that have it.                                *)
(***************************************************************************)
CONSTANTS EntityId, ComponentType, Bytes, None

VARIABLES
    store,    \* store[e][t]: the data of component t of entity e, or None
    found     \* found[t]: the entities a query for t returns

svars == <<store, found>>

Matching(s) ==
    [t \in ComponentType |-> {e \in EntityId : s[e][t] # None}]

Init ==
    /\ store = [e \in EntityId |-> [t \in ComponentType |-> None]]
    /\ found = Matching(store)

Set(e, t, data) == store' = [store EXCEPT ![e][t] = data]

Remove(e, t) == store' = [store EXCEPT ![e][t] = None]

Despawn(e) == store' = [store EXCEPT ![e] = [t \in ComponentType |-> None]]

Next ==
    /\ \E e \in EntityId :
         \/ \E t \in ComponentType, data \in Bytes : Set(e, t, data)
         \/ \E t \in ComponentType : Remove(e, t)
         \/ Despawn(e)
    /\ found' = Matching(store')

Spec == Init /\ [][Next]_svars
=============================================================================
