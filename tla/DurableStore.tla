---------------------------- MODULE DurableStore ----------------------------
(***************************************************************************)
(* What a world kept in contract storage promises to the contract that     *)
(* uses it over many invocations: an invocation starts from the last       *)
(* flushed world, sees its own changes, and a flush makes all of them, and *)
(* nothing else, what the next invocation finds.                           *)
(***************************************************************************)
EXTENDS Integers

CONSTANTS EntityId, ComponentType, Bytes, None

VARIABLES
    working,   \* the world of the current invocation
    durable    \* the world the next invocation will start from

svars == <<working, durable>>

\* A world: the next id to hand out, the live entities, and their components.
Init ==
    /\ working = [next |-> 1, live |-> {},
                  store |-> [e \in EntityId |-> [t \in ComponentType |-> None]]]
    /\ durable = working

Spawn ==
    working' = [working EXCEPT !.next = @ + 1, !.live = @ \cup {working.next}]

Set(e, t, data) == working' = [working EXCEPT !.store[e][t] = data]

Remove(e, t) == working' = [working EXCEPT !.store[e][t] = None]

Despawn(e) ==
    working' = [working EXCEPT !.live = @ \ {e},
                               !.store[e] = [t \in ComponentType |-> None]]

Flush == durable' = working /\ UNCHANGED working

Restart == working' = durable /\ UNCHANGED durable

Next ==
    \/ /\ \/ Spawn
          \/ \E e \in working.live :
               \/ Despawn(e)
               \/ \E t \in ComponentType :
                    Remove(e, t) \/ \E data \in Bytes : Set(e, t, data)
       /\ UNCHANGED durable
    \/ Flush
    \/ Restart

Spec == Init /\ [][Next]_svars
=============================================================================
