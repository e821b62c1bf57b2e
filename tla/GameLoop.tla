------------------------------ MODULE GameLoop ------------------------------
(***************************************************************************)
(* The game loop of a contract: each invocation builds a PluginApp         *)
(* (src/src/plugin.rs) around the stored world, runs its SimpleScheduler   *)
(* (scheduler.rs) once and stores the world again.  Two of the systems are *)
(* the library's: they remove commitments whose reveal is overdue and      *)
(* verified markers that are too old (src/src/zk/systems.rs).  Between     *)
(* such invocations the contract commits, reveals and submits proofs       *)
(* (GameWorld::submit_proof, game_world.rs).                               *)
(*                                                                         *)
(* One step is one item of a build, or one system of a run: both loops are *)
(* sequential, and the ledger time is the same for the whole invocation.   *)
(* Plugins and game systems are the contract's code: a plugin is the list  *)
(* of what its build adds to the app, plugins included; the game's system  *)
(* may make, reveal or remove a commitment and remove a marker or the      *)
(* whole entity.  The world is seen as its components of the two types,    *)
(* which is what EcsStore says of a SimpleWorld; a game that stores bytes  *)
(* which are no such component, on which read_u64 or read_bool panic, is   *)
(* left out.  Hooks are registered and, the systems being given the bare   *)
(* world, not fired.                                                       *)
(***************************************************************************)
EXTENDS Integers, Sequences, FiniteSets

CONSTANTS
    EntityId,
    Plugin,     \* the plugin values of the contracts
    Name,       \* the names they return
    Contracts,  \* contracts: what they add to the app, and their plugins
    Deadline,   \* reveal deadlines the game sets
    MaxAge,     \* the age the contract passes to cleanup_verified_system
    MaxTime,    \* bound of the ledger clock
    None        \* an absent component

Items ==
    [adds : {"system"}, what : {"deadline", "cleanup", "game"}]
        \cup [adds : {"plugin"}, what : Plugin]
        \cup [adds : {"hook"}]

Commitments == [deadline : Deadline, revealed : BOOLEAN]

ASSUME LoopAssumption ==
    /\ MaxAge \in Nat
    /\ MaxTime \in Nat
    /\ Deadline \subseteq Nat
    /\ \A c \in Commitments : c # None
    /\ None \notin 0..MaxTime
    /\ \A c \in Contracts :
         /\ c.main \in Seq(Items)
         /\ c.name \in [Plugin -> Name]
         /\ \A p \in Plugin : c.build[p] \in Seq(Items)

VARIABLES
    contract,  \* the contract, which does not change
    phase,     \* what the current invocation is doing
    plugins,   \* plugins_registered: names in the order of registration
    systems,   \* the scheduler's list
    hooks,     \* the number of hooks registered
    stack,     \* the builds that are under way, the innermost one last
    position,  \* the index of the next system of run_all
    commits,   \* commits[e]: the CommitReveal component of e, or None
    markers,   \* markers[e]: verified_at of its VerifiedMarker, or None
    now,       \* env.ledger().timestamp()
    built,     \* history: the plugins whose build was called
    verified   \* history: when a proof for e was last verified, or None

app == <<plugins, systems, hooks, stack, built>>
world == <<commits, markers, verified>>
vars == <<contract, phase, app, position, world, now>>

Elements(s) == {s[i] : i \in DOMAIN s}

Init ==
    /\ contract \in Contracts
    /\ phase = "idle"
    /\ plugins = <<>>
    /\ systems = <<>>
    /\ hooks = 0
    /\ stack = <<>>
    /\ position = 1
    /\ commits = [e \in EntityId |-> None]
    /\ markers = [e \in EntityId |-> None]
    /\ now = 0
    /\ built = <<>>
    /\ verified = [e \in EntityId |-> None]

-----------------------------------------------------------------------------
(* Building the app *)

\* PluginApp::with_world, at the start of an invocation.
StartInvocation ==
    /\ phase = "idle"
    /\ phase' = "building"
    /\ plugins' = <<>>
    /\ systems' = <<>>
    /\ hooks' = 0
    /\ built' = <<>>
    /\ stack' = <<contract.main>>
    /\ UNCHANGED <<contract, position, world, now>>

\* Faulty variant of the next definition: only the last name is compared.
HasPluginLast(n) == plugins # <<>> /\ plugins[Len(plugins)] = n

HasPlugin(n) == n \in Elements(plugins)

Innermost == stack[Len(stack)]

\* The builds under way once the innermost one has done its first item.
Continued == [stack EXCEPT ![Len(stack)] = Tail(Innermost)]

\* The name is registered before build is called, and a plugin whose name is
\* registered is skipped.
AddPlugin(p) ==
    /\ UNCHANGED <<systems, hooks>>
    /\ IF HasPlugin(contract.name[p])
       THEN stack' = Continued /\ UNCHANGED <<plugins, built>>
       ELSE /\ plugins' = Append(plugins, contract.name[p])
            /\ built' = Append(built, p)
            /\ stack' = Append(Continued, contract.build[p])

AddSystem(s) ==
    /\ systems' = Append(systems, s)
    /\ stack' = Continued
    /\ UNCHANGED <<plugins, hooks, built>>

AddHook ==
    /\ hooks' = hooks + 1
    /\ stack' = Continued
    /\ UNCHANGED <<plugins, systems, built>>

BuildStep ==
    /\ phase = "building"
    /\ stack # <<>>
    /\ Innermost # <<>>
    /\ LET item == Head(Innermost)
       IN  \/ item.adds = "plugin" /\ AddPlugin(item.what)
           \/ item.adds = "system" /\ AddSystem(item.what)
           \/ item.adds = "hook"   /\ AddHook
    /\ UNCHANGED <<contract, phase, position, world, now>>

\* A build returns to the one that added the plugin; the contract's own calls
\* are followed by run.
BuildReturn ==
    /\ phase = "building"
    /\ stack # <<>>
    /\ Innermost = <<>>
    /\ stack' = SubSeq(stack, 1, Len(stack) - 1)
    /\ phase' = IF Len(stack) = 1 THEN "running" ELSE phase
    /\ UNCHANGED <<contract, plugins, systems, hooks, built, position, world, now>>

-----------------------------------------------------------------------------
(* Systems *)

\* An unrevealed commitment whose deadline has passed.
Overdue(e) ==
    commits[e] # None /\ ~commits[e].revealed /\ now > commits[e].deadline

\* Faulty variant of the next definition: the list of entities is read again
\* after each removal, so the one after a removed one is passed over.
SweepCommitmentsSkipping ==
    /\ \E e \in EntityId :
          commits' = [commits EXCEPT ![e] = IF Overdue(e) THEN None ELSE @]
    /\ UNCHANGED <<markers, verified>>

\* commit_reveal_deadline_system
SweepCommitments ==
    /\ commits' = [e \in EntityId |-> IF Overdue(e) THEN None ELSE commits[e]]
    /\ UNCHANGED <<markers, verified>>

\* Time does not run back, so the saturating subtraction does not saturate.
TooOld(e) == markers[e] # None /\ now - markers[e] > MaxAge

\* cleanup_verified_system
CleanupVerified ==
    /\ markers' = [e \in EntityId |-> IF TooOld(e) THEN None ELSE markers[e]]
    /\ verified' = [e \in EntityId |-> IF TooOld(e) THEN None ELSE verified[e]]
    /\ UNCHANGED commits

\* A commitment is made, or made anew, with encode_commit_reveal.
Commit(e, deadline) ==
    /\ commits' = [commits EXCEPT ![e] = [deadline |-> deadline, revealed |-> FALSE]]
    /\ UNCHANGED <<markers, verified>>

\* The same component, stored again with the flag set.
Reveal(e) ==
    /\ commits[e] # None
    /\ commits' = [commits EXCEPT ![e].revealed = TRUE]
    /\ UNCHANGED <<markers, verified>>

\* remove_component for one of the types, or despawn_entity for both.
Discard(e) ==
    \E types \in {{"commit_reveal"}, {"verified"}, {"commit_reveal", "verified"}} :
        /\ commits'  = IF "commit_reveal" \in types THEN [commits EXCEPT ![e] = None] ELSE commits
        /\ markers'  = IF "verified" \in types THEN [markers EXCEPT ![e] = None] ELSE markers
        /\ verified' = IF "verified" \in types THEN [verified EXCEPT ![e] = None] ELSE verified

GameSystem ==
    \/ \E e \in EntityId, d \in Deadline : Commit(e, d)
    \/ \E e \in EntityId : Reveal(e)
    \/ \E e \in EntityId : Discard(e)
    \/ UNCHANGED world

\* Faulty variant of the next definition: a system that changed the world is
\* run again.
AdvanceWhenStable == position' = IF world' = world THEN position + 1 ELSE position

Advance == position' = position + 1

\* run_all: the systems in the order they were added, each once.
RunSystem ==
    /\ phase = "running"
    /\ position =< Len(systems)
    /\ \/ systems[position] = "deadline" /\ SweepCommitments
       \/ systems[position] = "cleanup"  /\ CleanupVerified
       \/ systems[position] = "game"     /\ GameSystem
    /\ Advance
    /\ UNCHANGED <<contract, phase, app, now>>

\* into_world: the app is dropped and the invocation ends.
EndInvocation ==
    /\ phase = "running"
    /\ position > Len(systems)
    /\ phase' = "idle"
    /\ position' = 1
    /\ UNCHANGED <<contract, app, world, now>>

-----------------------------------------------------------------------------
(* Other invocations, and the ledger *)

Call(action) ==
    /\ phase = "idle"
    /\ action
    /\ UNCHANGED <<contract, phase, app, position, now>>

\* Faulty variant of the next definition: a marker that is there stays.
MarkedUnlessMarked(e) ==
    [markers EXCEPT ![e] = IF @ = None THEN now ELSE @]

Marked(e) == [markers EXCEPT ![e] = now]

\* verify_proofs_system when the host finds the proof valid; otherwise nothing
\* is changed.
SubmitProof(e) ==
    /\ markers' = Marked(e)
    /\ verified' = [verified EXCEPT ![e] = now]
    /\ UNCHANGED commits

Tick ==
    /\ phase = "idle"
    /\ now < MaxTime
    /\ now' = now + 1
    /\ UNCHANGED <<contract, phase, app, position, world>>

Next ==
    \/ StartInvocation
    \/ BuildStep
    \/ BuildReturn
    \/ RunSystem
    \/ EndInvocation
    \/ \E e \in EntityId, d \in Deadline : Call(Commit(e, d))
    \/ \E e \in EntityId : Call(Reveal(e))
    \/ \E e \in EntityId : Call(Discard(e))
    \/ \E e \in EntityId : Call(SubmitProof(e))
    \/ Tick

\* An invocation is one call without waiting: once begun, it goes on.  Nothing
\* makes anybody invoke the contract, so StartInvocation has no fairness.
Fairness == WF_vars(BuildStep \/ BuildReturn) /\ WF_vars(RunSystem \/ EndInvocation)

Spec == Init /\ [][Next]_vars /\ Fairness

-----------------------------------------------------------------------------
(* Properties *)

CountIn(s, item) == Cardinality({i \in DOMAIN s : s[i] = item})

\* How often the contract and the plugins in use ask for a system.
Asked(s) ==
    LET item == [adds |-> "system", what |-> s]
        total[i \in 0..Len(built)] ==
            IF i = 0 THEN CountIn(contract.main, item)
            ELSE total[i - 1] + CountIn(contract.build[built[i]], item)
    IN  total[Len(built)]

Lists == {contract.main} \cup {contract.build[p] : p \in Elements(built)}

\* When the systems run, the app is whole, however the plugins add each other,
\* in circles included (plugin.rs:73): of every name somebody asked for exactly
\* one plugin was built, once, and every system of those plugins is in the
\* scheduler as often as they added it.
AppIsWhole ==
    phase = "running" =>
        /\ \A i, j \in DOMAIN plugins : plugins[i] = plugins[j] => i = j
        /\ \A list \in Lists, p \in Plugin :
              [adds |-> "plugin", what |-> p] \in Elements(list) =>
                  contract.name[p] \in {contract.name[q] : q \in Elements(built)}
        /\ \A s \in {"deadline", "cleanup", "game"} : CountIn(systems, s) = Asked(s)

\* A game system that is scheduled after the deadline system, with no other
\* game system between them, finds no overdue commitment: the sweep covers
\* every entity, and time does not pass within the run (systems.rs:82).
GameFindsNoOverdue ==
    phase = "running" =>
        \A i \in 1..(position - 1) :
            /\ systems[i] = "deadline"
            /\ \A j \in (i + 1)..(position - 1) : systems[j] # "game"
            => ~\E e \in EntityId : Overdue(e)

\* The game's own code is called, by a player or as a system of the run.
GameActs ==
    \/ phase = "idle"
    \/ phase = "running" /\ position =< Len(systems) /\ systems[position] = "game"

\* Unless the game itself removes it, the commitment of a player who revealed,
\* or who has time left, is there until it is made anew, and a proof counts as
\* verified for MaxAge after its last verification (systems.rs:104), whichever
\* systems run in between.
NothingExpiresEarly ==
    [][~GameActs =>
          \A e \in EntityId :
              /\ commits[e] # None /\ commits'[e] = None => Overdue(e)
              /\ markers[e] # None /\ markers'[e] = None => now - verified[e] > MaxAge]_vars

\* Every invocation ends: builds that add each other in a circle return, and
\* the loop over the systems is finite.
InvocationsEnd == phase # "idle" ~> phase = "idle"

Ahead(s) ==
    phase = "running" /\ \E i \in position..Len(systems) : systems[i] = s

\* Whatever is overdue or too old when a run begins that has the system for it
\* is gone before the invocation ends.
OverdueIsSwept ==
    \A e \in EntityId :
        /\ Overdue(e) /\ Ahead("deadline") ~> phase = "running" /\ ~Overdue(e)
        /\ TooOld(e) /\ Ahead("cleanup") ~> phase = "running" /\ ~TooOld(e)
=============================================================================
