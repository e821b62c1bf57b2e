--------------------------- MODULE WorldWrappers ---------------------------
(***************************************************************************)
(* What is built around a SimpleWorld for one invocation of a contract:    *)
(* the wrappers TrackedWorld (change_tracker.rs), HookedWorld (hooks.rs)   *)
(* and ObservedWorld (observers.rs), which own the world and record or     *)
(* announce what their methods change, the CommandQueue (commands.rs) that *)
(* systems fill and apply to a bare world, and the snapshots and diffs of  *)
(* debug/snapshot.rs, which report the changes in a second way.            *)
(*                                                                         *)
(* world_mut() of every wrapper lends the bare world, so the methods of    *)
(* SimpleWorld and the queue may change it behind the wrapper at any time. *)
(* A queue is filled and applied here while the world is bare: applied     *)
(* behind a wrapper it is to the wrapper the bare calls it stands for.     *)
(*                                                                         *)
(* Abstractions.  Callbacks are the contract's code: they get no mutable   *)
(* access to the world, so only their being called is modelled, with what  *)
(* the world held at that moment.  The lists of the tracker are bags: how  *)
(* often each (entity, type) was recorded.                                 *)
(***************************************************************************)
EXTENDS SimpleWorldOps, Sequences, FiniteSets

CONSTANTS
    MaxTick,     \* bound of the tracker's tick counter
    MaxQueue     \* bound of the commands in a queue

ASSUME TickAssumption == MaxTick \in Nat /\ MaxQueue \in Nat

VARIABLES
    world,       \* the SimpleWorld
    kind,        \* what owns it: nothing, or one of the wrappers
    tracker,     \* the ChangeTracker of a TrackedWorld
    registry,    \* the (type, event) pairs a callback is registered for
    queue,       \* the CommandQueue
    heard,       \* history: the callbacks of the last call
    since,       \* history: snapshot at the last clear() of the tracker
    through,     \* history: every change since then went through the wrapper
    single       \* history: no component has been in both maps of the world

wrapping == <<kind, tracker, registry, since>>

vars == <<world, wrapping, queue, heard, through, single>>

Kinds == {"Bare", "Tracked", "Hooked", "Observed"}

Events == {"Added", "Removed"}

NoChanges == [k \in Key |-> 0]

NewTracker ==
    [added |-> NoChanges, removed |-> NoChanges, modified |-> NoChanges, tick |-> 0]

-----------------------------------------------------------------------------
(* debug/snapshot.rs *)

\* take_snapshot: the data of every listed component.
Snapshot(w) ==
    [k \in Key |-> IF k[2] \in w.entity_components[k[1]]
                   THEN GetComponent(w, k[1], k[2]) ELSE None]

EntitiesOf(snap) == {e \in EntityId : \E t \in ComponentType : snap[<<e, t>>] # None}

RemovedEntities(before, after) == EntitiesOf(before) \ EntitiesOf(after)

AddedComponents(before, after) == {k \in Key : before[k] = None /\ after[k] # None}

\* The components of a removed entity are not listed.
RemovedComponents(before, after) ==
    {k \in Key : /\ k[1] \in EntitiesOf(before) \cap EntitiesOf(after)
                 /\ before[k] # None /\ after[k] = None}

ModifiedComponents(before, after) ==
    {k \in Key : before[k] # None /\ after[k] # None /\ before[k] # after[k]}

-----------------------------------------------------------------------------
(* ChangeTracker, the callbacks, and the command queue as operators *)

Recorded(list, ks) ==
    [tracker EXCEPT ![list] =
        [k \in Key |-> tracker[list][k] + (IF k \in ks THEN 1 ELSE 0)]]

Holds(w, k) == HasComponent(w, k[1], k[2])

DataOf(w, k) == GetComponent(w, k[1], k[2])

Listed(w, e) == {<<e, t>> : t \in w.entity_components[e]}

\* fire, fire_on_add, fire_on_remove: every callback registered for the type
\* and the event is called; w is the world at that moment.
Fired(event, ks, w) ==
    {[key |-> k, event |-> event, present |-> Holds(w, k)] :
        k \in {k \in ks : <<k[2], event>> \in registry}}

Commands ==
    [op : {"Spawn"}]
        \cup [op : {"Despawn"}, entity_id : EntityId]
        \cup [op : {"Add"}, entity_id : EntityId, component_type : ComponentType,
              data : Bytes, storage : ComponentStorage]
        \cup [op : {"Remove"}, entity_id : EntityId, component_type : ComponentType]

Applied(w, c) ==
    CASE c.op = "Spawn"   -> SpawnedWorld(w)
      [] c.op = "Despawn" -> DespawnedEntity(w, c.entity_id)
      [] c.op = "Add"     -> AddedComponent(w, c.entity_id, c.component_type,
                                            c.data, c.storage)
      [] c.op = "Remove"  -> RemovedComponent(w, c.entity_id, c.component_type)

\* Faulty variant of the next definition: the last command is popped first.
ReplayPopped(w, q) ==
    LET f[i \in 0..Len(q)] ==
            IF i = 0 THEN w ELSE Applied(f[i - 1], q[Len(q) - i + 1])
    IN  f

\* The worlds that applying the queue passes through.
Replay(w, q) ==
    LET f[i \in 0..Len(q)] == IF i = 0 THEN w ELSE Applied(f[i - 1], q[i])
    IN  f

\* No command of the queue meets a counter at its limit.
CanReplay(w, q) ==
    \A i \in 1..Len(q) :
        IF q[i].op = "Spawn" THEN CanSpawn(Replay(w, q)[i - 1])
                             ELSE CanBump(Replay(w, q)[i - 1])

OneMapEach(w) ==
    \A k \in Key : w.components[k] = None \/ w.sparse_components[k] = None

Init ==
    /\ world = EmptyWorld
    /\ kind = "Bare"
    /\ tracker = NewTracker
    /\ registry = {}
    /\ since = Snapshot(EmptyWorld)
    /\ queue = <<>>
    /\ heard = {}
    /\ through = TRUE
    /\ single = TRUE

-----------------------------------------------------------------------------
(* Wrapping and unwrapping *)

\* TrackedWorld::new, HookedWorld::with_hooks, ObservedWorld::with_observers.
Wrap(k, callbacks) ==
    /\ kind = "Bare" /\ queue = <<>>
    /\ kind' = k
    /\ registry' = callbacks
    /\ tracker' = NewTracker
    /\ since' = Snapshot(world)
    /\ through' = TRUE
    /\ heard' = {}
    /\ UNCHANGED <<world, queue, single>>

\* The bare world comes back: records and callbacks go with the wrapper.
IntoInner ==
    /\ kind # "Bare"
    /\ kind' = "Bare"
    /\ registry' = {}
    /\ tracker' = NewTracker
    /\ since' = Snapshot(EmptyWorld)
    /\ through' = TRUE
    /\ heard' = {}
    /\ UNCHANGED <<world, queue, single>>

\* on_add, on_remove of a registry that is already in use.
Register(t, event) ==
    /\ kind \in {"Hooked", "Observed"}
    /\ registry' = registry \cup {<<t, event>>}
    /\ heard' = {}
    /\ UNCHANGED <<world, kind, tracker, since, queue, through, single>>

ClearTracker ==
    /\ kind = "Tracked"
    /\ tracker' = [NewTracker EXCEPT !.tick = tracker.tick]
    /\ since' = Snapshot(world)
    /\ through' = TRUE
    /\ UNCHANGED <<world, kind, registry, queue, heard, single>>

\* The lists are kept.
AdvanceTick ==
    /\ kind = "Tracked"
    /\ tracker.tick < MaxTick
    /\ tracker' = [tracker EXCEPT !.tick = @ + 1]
    /\ UNCHANGED <<world, kind, registry, since, queue, heard, through, single>>

-----------------------------------------------------------------------------
(* Calls made through a wrapper *)

Through(w) ==
    /\ CanBump(world)
    /\ world' = w
    /\ single' = (single /\ OneMapEach(world'))
    /\ UNCHANGED <<kind, registry, since, queue, through>>

\* Faulty variant of the next definition: has_component is asked too late.
TrackedAddAsksLate(e, t, data, storage) ==
    /\ kind = "Tracked"
    /\ Through(AddedComponent(world, e, t, data, storage))
    /\ tracker' = Recorded(IF HasComponent(world', e, t) THEN "modified" ELSE "added",
                           {<<e, t>>})
    /\ heard' = {}

TrackedAdd(e, t, data, storage) ==
    /\ kind = "Tracked"
    /\ Through(AddedComponent(world, e, t, data, storage))
    /\ tracker' = Recorded(IF HasComponent(world, e, t) THEN "modified" ELSE "added",
                           {<<e, t>>})
    /\ heard' = {}

TrackedRemove(e, t) ==
    /\ kind = "Tracked"
    /\ Through(RemovedComponent(world, e, t))
    /\ tracker' = IF HasComponent(world, e, t) THEN Recorded("removed", {<<e, t>>})
                                               ELSE tracker
    /\ heard' = {}

\* Faulty variant of the next definition: the list is walked when it is gone.
TrackedDespawnTooLate(e) ==
    /\ kind = "Tracked"
    /\ Through(DespawnedEntity(world, e))
    /\ tracker' = Recorded("removed", Listed(world', e))
    /\ heard' = {}

TrackedDespawn(e) ==
    /\ kind = "Tracked"
    /\ Through(DespawnedEntity(world, e))
    /\ tracker' = Recorded("removed", Listed(world, e))
    /\ heard' = {}

HookedAdd(e, t, data) ==
    /\ kind = "Hooked"
    /\ Through(AddedComponent(world, e, t, data, Table))
    /\ heard' = Fired("Added", {<<e, t>>}, world')
    /\ UNCHANGED tracker

\* The hooks fire whatever the removal is going to find.
HookedRemove(e, t) ==
    /\ kind = "Hooked"
    /\ Through(RemovedComponent(world, e, t))
    /\ heard' = Fired("Removed", {<<e, t>>}, world)
    /\ UNCHANGED tracker

\* Faulty variant of the next definition: the list is walked when it is gone.
HookedDespawnTooLate(e) ==
    /\ kind = "Hooked"
    /\ Through(DespawnedEntity(world, e))
    /\ heard' = Fired("Removed", Listed(world', e), world')
    /\ UNCHANGED tracker

HookedDespawn(e) ==
    /\ kind = "Hooked"
    /\ Through(DespawnedEntity(world, e))
    /\ heard' = Fired("Removed", Listed(world, e), world)
    /\ UNCHANGED tracker

ObservedAdd(e, t, data) ==
    /\ kind = "Observed"
    /\ Through(AddedComponent(world, e, t, data, Table))
    /\ heard' = Fired("Added", {<<e, t>>}, world')
    /\ UNCHANGED tracker

\* Faulty variant of the next definition: nobody asks what was removed.
ObservedRemoveAlways(e, t) ==
    /\ kind = "Observed"
    /\ Through(RemovedComponent(world, e, t))
    /\ heard' = Fired("Removed", {<<e, t>>}, world')
    /\ UNCHANGED tracker

ObservedRemove(e, t) ==
    /\ kind = "Observed"
    /\ Through(RemovedComponent(world, e, t))
    /\ heard' = IF HasComponent(world, e, t)
                THEN Fired("Removed", {<<e, t>>}, world') ELSE {}
    /\ UNCHANGED tracker

\* Unlike the other two, the observers of a despawn see the world before it.
ObservedDespawn(e) ==
    /\ kind = "Observed"
    /\ Through(DespawnedEntity(world, e))
    /\ heard' = Fired("Removed", Listed(world, e), world)
    /\ UNCHANGED tracker

ViaWrapper ==
    \E e \in EntityId :
        \/ TrackedDespawn(e)
        \/ HookedDespawn(e)
        \/ ObservedDespawn(e)
        \/ \E t \in ComponentType :
             \/ TrackedRemove(e, t)
             \/ HookedRemove(e, t)
             \/ ObservedRemove(e, t)
             \/ \E data \in Bytes :
                  \/ HookedAdd(e, t, data)
                  \/ ObservedAdd(e, t, data)
                  \/ \E storage \in ComponentStorage : TrackedAdd(e, t, data, storage)

-----------------------------------------------------------------------------
(* Calls on the bare world: nothing wraps it, or world_mut() lent it *)

\* spawn_entity of every wrapper only delegates.
SpawnEntity ==
    /\ CanSpawn(world)
    /\ world' = SpawnedWorld(world)
    /\ heard' = {}
    /\ UNCHANGED <<wrapping, queue, through, single>>

BehindTheWrapper(w) ==
    /\ world' = w
    /\ through' = (through /\ kind = "Bare")
    /\ heard' = {}
    /\ UNCHANGED wrapping

BareCall(c) ==
    /\ c.op # "Spawn"
    /\ CanBump(world)
    /\ BehindTheWrapper(Applied(world, c))
    /\ single' = (single /\ OneMapEach(world'))
    /\ UNCHANGED queue

\* spawn, despawn, add_component, add_sparse_component, remove_component of the
\* queue: nothing is looked up and nothing changes yet.
Enqueue(c) ==
    /\ kind = "Bare"
    /\ Len(queue) < MaxQueue
    /\ queue' = Append(queue, c)
    /\ heard' = {}
    /\ UNCHANGED <<world, wrapping, through, single>>

\* apply consumes the queue.
Apply ==
    /\ queue # <<>>
    /\ CanReplay(world, queue)
    /\ BehindTheWrapper(Replay(world, queue)[Len(queue)])
    /\ single' = (single /\ \A i \in 0..Len(queue) : OneMapEach(Replay(world, queue)[i]))
    /\ queue' = <<>>

\* A queue that is not applied is dropped, as when its invocation is reverted.
DropQueue ==
    /\ queue # <<>>
    /\ queue' = <<>>
    /\ heard' = {}
    /\ UNCHANGED <<world, wrapping, through, single>>

Next ==
    \/ \E k \in Kinds \ {"Bare"} :
         \E callbacks \in IF k = "Tracked" THEN {{}} ELSE SUBSET (ComponentType \X Events) :
            Wrap(k, callbacks)
    \/ IntoInner
    \/ \E t \in ComponentType, event \in Events : Register(t, event)
    \/ ClearTracker
    \/ AdvanceTick
    \/ ViaWrapper
    \/ SpawnEntity
    \/ \E c \in Commands : BareCall(c) \/ Enqueue(c)
    \/ Apply
    \/ DropQueue

Spec == Init /\ [][Next]_vars

-----------------------------------------------------------------------------
(* Properties *)

\* A system that skips what the tracker does not name misses nothing: when all
\* changes since the last clear() went through the TrackedWorld, a component
\* that was added, removed or has other data than then is in one of its three
\* lists, whatever storage kinds were mixed and however often it changed.
TrackerCoversChanges ==
    kind = "Tracked" /\ through =>
        \A k \in Key : since[k] # Snapshot(world)[k] =>
            tracker.added[k] + tracker.removed[k] + tracker.modified[k] > 0

\* The tracker and the diff of two snapshots tell the same story: while no
\* component is in both maps, a component was recorded as added once more than
\* as removed exactly when the diff calls it added, once less exactly when the
\* diff calls it or its whole entity removed, and one the diff calls modified
\* is in a list of changes that wrote data.
TrackerAgreesWithDiff ==
    kind = "Tracked" /\ through /\ single =>
        \A k \in Key :
            LET now == Snapshot(world) IN
            /\ tracker.added[k] = tracker.removed[k] +
                 (CASE k \in AddedComponents(since, now)      -> 1
                    [] \/ k \in RemovedComponents(since, now)
                       \/ /\ k[1] \in RemovedEntities(since, now)
                          /\ since[k] # None                 -> -1
                    [] OTHER                                 -> 0)
            /\ k \in ModifiedComponents(since, now) =>
                 tracker.modified[k] + tracker.added[k] > 0

\* Component k was in both maps, and the copy that was read is gone: the removal
\* uncovers the other copy.
Uncovered(k) ==
    /\ world.components[k] # None /\ world.sparse_components[k] # None
    /\ world'.components[k] = None

\* No component comes, goes or changes in silence: a call through a HookedWorld or
\* an ObservedWorld that takes a component away calls the callbacks registered for
\* its removal, hooks while the component is still there; and one after which a
\* component reads as data it did not read before calls those registered for
\* adding, with the data in place.  The one change that is heard as a removal only
\* is that of a component that was in both maps.
ChangesAreHeard ==
    [][ViaWrapper /\ kind \in {"Hooked", "Observed"} =>
        \A k \in Key :
            /\ Holds(world, k) /\ ~Holds(world', k) /\ <<k[2], "Removed">> \in registry =>
                 \E h \in heard' : /\ h.key = k /\ h.event = "Removed"
                                   /\ kind = "Hooked" => h.present
            /\ /\ DataOf(world', k) \notin {None, DataOf(world, k)}
               /\ <<k[2], "Added">> \in registry
               /\ ~Uncovered(k)
               => \E h \in heard' : h.key = k /\ h.event = "Added" /\ h.present]_vars

\* An ObservedWorld cries no wolf: while no component is in both maps, an
\* observer of removals is called exactly for the components the call took
\* away, in remove_component as in despawn_entity.
ObserversAreExact ==
    [][ViaWrapper /\ kind = "Observed" /\ single' =>
        {h.key : h \in {h \in heard' : h.event = "Removed"}} =
            {k \in Key : /\ <<k[2], "Removed">> \in registry
                         /\ Holds(world, k) /\ ~Holds(world', k)}]_vars

\* The position of the last command of the queue that is about component k.
LastAbout(k) ==
    LET about == {i \in 1..Len(queue) :
                    \/ queue[i].op = "Despawn" /\ queue[i].entity_id = k[1]
                    \/ /\ queue[i].op \in {"Add", "Remove"}
                       /\ <<queue[i].entity_id, queue[i].component_type>> = k}
    IN  IF about = {} THEN 0 ELSE CHOOSE i \in about : \A j \in about : j =< i

\* The last command decides: while no component is in both maps, applying a
\* queue leaves every component as the last command about it says, whatever
\* was queued before it and however the world changed since it was queued, and
\* a component no command is about as it was.
LastCommandDecides ==
    [][Apply /\ single' =>
        \A k \in Key :
            LET i == LastAbout(k) IN
            GetComponent(world', k[1], k[2]) =
                CASE i = 0               -> GetComponent(world, k[1], k[2])
                  [] i > 0 /\ queue[i].op = "Add" -> queue[i].data
                  [] OTHER               -> None]_vars
=============================================================================
