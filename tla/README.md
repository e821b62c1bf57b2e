# Cougr: a TLA+ model of the crate

Cougr is a Rust crate for on-chain games on Soroban: an entity-component system
(ECS), an account layer (session keys, social recovery, devices) and
zero-knowledge helpers, put together by `GameWorld`. This directory holds its
formal model: specifications translated from the code under `src/src`, TLC
configurations that check them on small instances, and proofs that TLAPS checks
for every value of the constants. `PROJECT.json` relates each definition to the
lines it models and lists the runs, the hazards and the findings.

Everything runs inside a contract invocation: one caller, one thread, and a
panic or an `Err` reverts what the invocation did. So an action is a whole
method call, and what makes the system hard is not preemption but

- *long sequences of legal calls* over state that is kept twice (two component
  maps and a list; archetypes and an index; memory and storage; a session and
  its copy; a tracker and the world it tracks; a record and its namesake);
- *versions and caches* that must agree with the world they summarise;
- *invocations that end*, with or without a flush, and lose what memory held;
- *a ledger clock* that moves between calls while deadlines, expiries and the
  configuration they came from stay stored or change;
- *the contract's own code* that the crate calls in the middle of things:
  plugins, systems, callbacks.

## Inventory

### Modelled

**SimpleWorld** (`simple_world.rs`). State: two maps from (entity, type) to data
(table and sparse), the list of types of each entity, the next id, a version.
Operations: spawn, add (with either storage), remove, despawn, typed variants,
queries. Correct when the list names what the maps hold, when nothing survives
a removal or a despawn, and when every structural change moves the version.

**SimpleQueryCache** (`query.rs:130`). State: results and the version they were
computed at. Correct when a cache that counts as valid holds what a scan finds.

**Wrappers** (`change_tracker.rs`, `hooks.rs`, `observers.rs`). Each owns a
SimpleWorld, has mutating methods of its own and lends the bare world through
`world_mut()`. State besides the world: three lists and a tick; callbacks by
type and event. Correct when the record, or what the callbacks hear, accounts
for what happened to the world.

**Command queue** (`commands.rs`). A list of deferred calls, applied in order to a
world that may have changed since. Correct when the world is left as the last
command about each component says.

**Snapshots and diffs** (`debug/snapshot.rs`): pure functions that report
changes independently of the tracker; the two are compared.

**Incremental storage world** (`incremental/`). State: persistent storage
(metadata, a list per entity, an entry per component) and, within an
invocation, the loaded part of it and a dirty tracker. Operations: a new
invocation, load, spawn, add, remove, despawn, flush, conversion to SimpleWorld
and back. Correct when a flush stores the working world, no more and no less,
and when an invocation that never flushes leaves no trace.

**Archetype world** (`archetype_world/`). State: archetypes (a set of types, a
list of entities, their data), an index from type sets to archetypes, each
entity's archetype, two id counters, a version; a cached query. Adding or
removing a type moves the entity and its data to another archetype. Correct
when that migration loses, leaks and duplicates nothing, when a query that
walks whole archetypes answers as a scan of the entities would, and when the
way through a SimpleWorld and back changes nothing.

**Social recovery** (`accounts/recovery.rs`, `recovery_storage.rs`). State: for
each account a configuration, guardians and at most one request, all stored;
and the account a handle stands for. Correct when an account changes hands only
with a quorum of guardians and not before its timelock.

**Session keys** (`accounts/contract.rs`, `storage.rs`, `degradation.rs`,
`batch.rs`, and the session in `game_world.rs`). State: the stored keys, the
copy of one of them that a `GameWorld` holds, the clock. Correct when an action
that nobody signed is covered by a live key.

**Devices and passkeys** (`accounts/multi_device.rs`, `device_storage.rs`,
`secp256r1_auth.rs`). State: a list of device records, revoked ones included, a
policy, an inactivity clock; a list of secp256r1 keys by label. Correct when at
most one record of a key is active, when what was revoked stays so, and when a
cleanup revokes only what was idle.

**Game loop** (`plugin.rs`, `scheduler.rs`, `zk/systems.rs`, `zk/components.rs`).
State: the app an invocation builds from plugins that may add plugins, the
systems in order, and the commitments and verified markers of entities. Correct
when the app is what its plugins asked for, when every invocation ends, and
when the sweeping systems take what is overdue and nothing else.

**Merkle trees** (`zk/merkle/`). Pure trees over a list and a sparse tree that is
updated path by path, with SHA256 and with Poseidon2; two verifiers. Correct when
proofs verify for exactly the leaves, and roots bind what they stand for.

**Legacy World** (`world.rs`, `entity.rs`, `storage.rs`), in part: entities, reused
ids and flat component storage.

### Not modelled

| Part | Why not |
|---|---|
| Resources and events of the legacy World; `component.rs` | lists that are appended to, filtered and cleared; conversions of values |
| `Query` and `QueryState` over the legacy World (`query.rs`) | they select entities by a list of types that nothing fills (finding 3), so they find nothing; `QueryState` never records the version it compares with |
| `SystemScheduler`, `system.rs`, `systems.rs` | the same loop as `SimpleScheduler` over boxed systems of the legacy World; samples that move positions |
| `verify_secp256r1`, Groth16, BLS12-381, BN254, Poseidon, Pedersen, circuits | calls of host functions; the arithmetic is the host's and no state is kept |
| Classic account, session builder, mocks, macros, error codes | no state: `require_auth`, a builder of scopes, byte layout |
| `debug/metrics.rs`, `debug/introspect.rs` | read-only counts of a SimpleWorld |
| Files under `src/src` that `lib.rs` does not declare (`archetype.rs`, `bundle.rs`, `lifecycle.rs`, ...) and the directories `entity`, `event`, `observer`, `query`, `reflect`, `relationship`, `schedule`, `storage`, `system`, `world` | they come from another engine, no `mod` declaration names them, and they are not compiled. They are most of the repository's lines. The crate that is compiled has some 9,000 lines without its tests; the models stand for about 2,900 of them |
| Example games | contracts that use the crate; the guild example was read for intended use |

### How the parts interact

`GameWorld` owns a SimpleWorld and an account and, for authorization, holds a
*copy* of a stored session. A query cache is kept beside a world by the contract
and is given the world on each call. StorageWorld and ArchetypeWorld convert to
and from SimpleWorld, where systems run. The wrappers own a SimpleWorld and hand
out mutable access to it; queues are applied to it. A PluginApp owns the world
for one invocation, gives it to its systems in order and keeps its hooks apart:
`PluginApp::run` fires none. Recovery, sessions and devices share nothing but
the address they store under.

In the models this composition is literal where state is shared: the methods of
SimpleWorld are operators (`SimpleWorldOps`) that `SimpleWorld`, `WorldWrappers`
and `StorageWorld` apply to worlds of their own; and `SimpleWorld` and
`ArchetypeWorld` implement one abstract store.

## Modules

| Module | What it is |
|---|---|
| `SimpleWorldOps` | SimpleWorld as a record and its methods as operators: `AddedComponent` is the world that `add_component_with_storage` leaves. |
| `SimpleWorld` | one world and one cache per type; an action per method. |
| `EcsStore` | abstract: an entity has at most one value per type; add, remove and despawn do that and no more; `found` is the answer of the queries. |
| `WorldWrappers` | one world, what owns it at the moment (nothing, tracker, hooks or observers), a command queue, and calls through and behind the wrapper. |
| `ArchetypeWorld` | archetypes, migration, the cached query, the way through a SimpleWorld and back; implements `EcsStore` too. The loops of the code (copying a list without an entity, collecting a query, adding the components of a SimpleWorld one by one) are recursive functions; `SymbolOrder` is the order in which a list of Symbols is sorted. |
| `StorageWorld` | storage, memory and dirty tracker; `NewInvocation` forgets the memory; `RunSystem` is the way through a SimpleWorld and back. |
| `DurableStore` | abstract: a working store and a durable one; flush copies the first to the second, a new invocation copies back. |
| `Recovery` | the stored recovery state of all accounts, and the handle. |
| `Sessions` | stored keys, the copy, the clock, the checks that authorize. |
| `Devices` | the lists of devices and of passkeys of one account. |
| `GameLoop` | building and running the app, the sweeping systems, and the calls between runs. |
| `MerkleTrees` | both trees, their proofs and verifiers as functions; an insertion (`Grow`) is a step of `TreesSpec`. A leaf index is halved and a power of 2 doubled by recursive functions (`At`, `PowerOf2`), as the code's loops do. |
| `LegacyWorld` | entities, ids and data of the old World. |
| `...Proofs` | the theorems about the module of that name, with their invariants and lemmas. `GameAndMerkleProofs` is about `GameLoop` and `MerkleTrees`, whose loops need the same induction. |
| `MC...` | values for the constants and symmetry sets, with the `.cfg` of that name. |

State corresponds to fields by name: `world.sparse_components` is
`SimpleWorld.sparse_components`, `dirty.despawned` is `DirtyTracker.despawned`,
and so on. What recurs:

- A nested `Map<u32, Map<Symbol, Bytes>>` is a function of (entity, type) with `None` for an
  absent entry. Data is a model value.
- A list whose order and repetitions decide nothing is a set or, in the tracker,
  a bag. Where they do decide, it stays a sequence (guardians, approvals, device
  records, systems, commands, the entities of an archetype).
- A call that panics or returns `Err` changes nothing and is no step, so its
  conditions are the guard. Counters that Rust checks (`spawn` at `u32::MAX`,
  version at `u64::MAX`) are guarded at `U32Max` and `U64Max`.
- Code of the contract is what it may do: a plugin is the list of what it adds, a
  game system makes, reveals or removes any commitment and removes markers and entities, a callback is only heard.
- A hash is the term it was computed from, so hashes do not collide.
- Ids of entities are those that `spawn_entity` gives out. The code takes any `u32`: id 0,
  which a queued spawn returns as a placeholder (`commands.rs:35`), is an id that no spawn
  gives out, as `U32Max` is, which the models have. In `StorageWorld`, whose spawn is part of the
  model, calls are made for allocated ids; an id that is used before it is given
  out is a contract's mistake that the model leaves out.

*History variables.* The stored state forgets what some properties speak of.
No guard reads these; each is set by the steps only:

- `SimpleWorld.typed`, `StorageWorld.by_the_rule`: no call has yet broken a rule
  that the crate's documentation gives to contracts and the code does not
  enforce (add with the storage of the type; load an entity before touching it,
  and take a whole world back from a system). The step that breaks it makes the
  variable false, so one specification serves what holds of all contracts and
  what holds of careful ones.
- `StorageWorld.buried`: the entities whose despawn has been flushed, of which no call has
  changed a component and which no system has handed back since.
- `WorldWrappers.heard` (callbacks of the last call), `since` (a snapshot at the
  last `clear`), `through` (nothing went behind the wrapper since), `single` (no
  component has been in both maps).
- `Recovery.votes`, `opened`, `taken`: who approved, when and with what period
  the request was made, which account the last step took over.
- `Sessions.granted`, `swept`: what the last step authorized; whether expired
  keys were swept at this time and none stored since.
- `Devices.used`, `revoked`, `again`, `latest`; `GameLoop.verified`, `built`;
  `MerkleTrees.written`.

## Runs

Distinct states in brackets. Deadlock is checked where something can always
happen: SimpleWorld, WorldWrappers, StorageWorld, Devices, GameLoop. In the
others the bounds on versions, clock or insertions end the behaviours.

**simple_world** (251,840): every call sequence over 2 entities, 2 types (one
sparse, one table by default), both storages, 2 data values, 5 versions. For all
contracts `ListedComponentsExist` and `CacheCoherent`; for typed ones
`QueriesAgree` and the refinement of `EcsStore`. These are the least
values with which an add can meet a copy in the other map, a removal can leave another type
or entity alone, and a despawn must walk a list longer than one. The versions
leave room for add, add, remove, despawn with a cache taken at any point.

**world_wrappers** (377,006): 2 entities, 2 types, 2 values, 4 versions, queues of
2 commands, every registry of callbacks. `TrackerCoversChanges` (a system that
skips what the tracker does not name misses nothing), `TrackerAgreesWithDiff`
(tracker and snapshot diff tell one story), `ChangesAreHeard` (no component
comes, goes or changes its data in silence, and hooks see it before it goes; only a component
that has a copy in each map is excepted, where a removal uncovers the other copy), `ObserversAreExact` (an observer
of removals hears those that happen and no others), `LastCommandDecides`. A
component added, removed and added again within a tick fits, and a queue in
which one command undoes the other's.

**storage_world** (816,790): 2 entities, 2 types, 2 values, 6 versions, and a system
that adds, removes, spawns or despawns on the converted world.
`LoadedDataIsListed` and `DespawnIsFinal` for whatever a contract
calls on allocated ids, also when it reloads or adds to an entity after despawning it: once a
despawn is flushed, no later flush, in this invocation or another, brings the
entity back unless a call changes a component of it or a system hands it back. Under the loading rule the refinement of `DurableStore`, `EntityCountIsLiveCount`,
`ConvertedWorldReadsTheSame`. Six versions allow a component to be stored in
one invocation, changed or removed in a second, and read in a third.

**archetype_world** (114,501): 3 ids, 2 types, a query for one of them, 7 versions.
`QueriesAreExact`, `CacheCoherent`, the refinement of `EcsStore`. With two types
there are three archetypes, hence migrations up, down and sideways through the
empty set; an entity has time to leave an archetype and come back.

**recovery** (710,119): 2 accounts, 2 people, a careful configuration (threshold 2,
timelock 1, two guardians) and a lax one (1, 0, 1), times 0 to 2.
`ApprovalsAreVotes`, `GuardiansWithinLimit`, `QuorumBacksExecution`,
`TimelockRespected`. Two configurations are what it takes to change the rules
under a pending request; two accounts, for the handle to move. With `U64Max = 2`
the addition of the timelock also meets its limit.

**sessions** (59,455): 2 key ids, one of them the placeholder, 2 actions, three scopes
that run out by time, by count, or allow nothing, times 0 to 2.
`CarefulGrantsAreBacked`: a contract that sweeps expired keys in the invocation
and holds no stale copy authorizes without a signature only what
a live key covers. The three checks it goes through treat expiry and empty
scopes differently; the property says that they add up.

**devices** (422,788): 3 devices, lists of 4 records, policies for 1 and 2 devices
with idle periods 2 and 1, 2 passkey labels, times 0 to 3. `OneActiveRecordPerKey`,
`RevokedStaysRevoked` (a record out of use stays so, and an id comes back with a new record only),
`OnlyIdleDevicesExpire`, `LatestPasskeyIsFound`. Four records hold a device
registered twice beside two others, and four times an idle period with a
use in its middle.

**game_loop** (68,666): 2 entities, deadlines 0 and 1, times 0 to 3, and three
contracts whose plugins form a circle entered twice, share a plugin, and
shadow one another's name. `AppIsWhole`, `GameFindsNoOverdue`,
`NothingExpiresEarly` (no step but the game's own), and the liveness properties `InvocationsEnd` and
`OverdueIsSwept`.

**merkle_trees** (1,830): both hashes, for what the code has with each (the Poseidon2
trees have no form on chain, and the sparse one neither `get` nor `prove`), up to 5 insertions into 16 slots (2 key bytes
of 4 values, for 2 of 256), 4 keys of which two share a slot and two are
neighbours, two values of which one is the padding. Five leaves need a tree of
depth 3 that is padded unevenly. Each state is checked against *all* other lists
of leaves (`RootBindsLeaves`) and all proofs made of hashes of the tree that are
no longer than it is deep (`ProofsBindLeaves`). Besides, `EveryLeafProves`, `GetAnswersLastInsert`,
`SparseRootIsCanonical`, `StaleProofsFail`.

**recovery_executed**, **sessions_expired**, **legacy_despawn** (violations): see Findings.

*Symmetry* is declared over data values, types, people, accounts, devices and
labels only where no step or property singles one out, and in no run that checks
liveness.

*Fairness.* `GameLoop` alone states it, and only for what goes on by itself: an
invocation that has begun is one synchronous call, so the step that builds and
the step that runs a system are taken eventually (`WF` on `BuildStep \/ BuildReturn` and on
`RunSystem \/ EndInvocation`; each is a loop of the code). Nothing makes anybody
invoke the contract and nothing is assumed of the clock. Therefore
`OverdueIsSwept` promises a sweep to an invocation that has the system, not to
a commitment whose contract is never called. The other modules state no
liveness because every step of theirs is a caller's, and no caller must call
again: a request that nobody executes or a key that nobody sweeps stays.

Each property of a passing run has a mutant: a plausible bug in one definition
(a version not moved, a list not updated, a guard dropped), written beside it
in the module as a faulty variant, with which the same run fails. Together the
passing runs take every action of the modules they check.

## Findings

The first three are counterexamples of violation runs, the fourth is what a passing
property says against the documentation; `PROJECT.json` quotes the lines.

1. **recovery_executed**: `execute_recovery` moves the handle before it removes
   the request, so it removes the new owner's request and leaves the executed
   one (`recovery.rs:255`).
2. **sessions_expired**: `ContractAccount::authorize` does not look at
   `expires_at` (`contract.rs:55`).
3. **legacy_despawn**: `World::add_component_to_entity` records the type on a copy
   of the entity, so `despawn` finds no types, removes no data, and the
   next entity with the reused id has it (`world.rs:62`, `:116`).
4. **simple_world**, `QueriesAgree`: the default query includes sparse components. The
   struct's documentation says that they are left out and that
   `get_all_entities_with_component` is for including them (`simple_world.rs:18`); the
   query reads the lists, which name components of either storage
   (`simple_world.rs:169`), and so finds what `get_all_entities_with_component` finds.

Other places where the code is not what its documentation or one's
expectation says, part of the models, without a run of their own:

- *Recovery.* The timelock runs from the initiation, not from the moment the
  threshold is met (`recovery.rs:177` against the comment at `:38`): a recovery
  may be executed at the time of its last approval. The approval of a guardian who
  is then removed still counts (`:244`), so `ApprovalsAreVotes` speaks of people
  who were guardians.
- *Devices.* `update_device` changes the first record of an id
  (`device_storage.rs:68`). Once a revoked device is registered again, a second
  `revoke_device` reaches the old record and leaves the device active, though it
  returns `Ok`; a use is recorded on the old record too. The last part of
  `RevokedStaysRevoked` says that nothing but an older record has this effect, and
  `OnlyIdleDevicesExpire` leaves such ids out: that a device registered twice can be revoked
  is no property of this code. `auto_revoke_after` is documented in ledger slots
  (`multi_device.rs:28`) and compared with seconds (`:203`).
- *Sessions.* A session revoked in storage lives on in the copy of a `GameWorld`
  (`game_world.rs:70`); an empty scope permits all actions there and none in
  `ContractAccount`; the actions of a batch are not counted one by one.
- *SimpleWorld.* `remove_component` on a component that is in both maps removes
  the table copy only; the sparse one stays, unlisted (`simple_world.rs:122`,
  `:125`). `typed` excludes this. `SimpleQueryCache::invalidate` sets version 0,
  which a new world has (`query.rs:173`); within one world this is harmless,
  which `CacheCoherent` shows.
- *StorageWorld.* A component added to an entity after `despawn_entity`, in the
  same invocation, reads back from memory, is marked dirty, and is dropped by
  `flush` (`storage_world.rs:305`, `:333`). Despawning a dead id makes `entity_count`
  too small (`:298`); adding to an entity that is stored but not loaded replaces
  its stored list (`:189`); `from_simple_world` forgets entities that were not
  loaded and despawns that were not flushed (`:448`). `by_the_rule` excludes these.
  The storage entry of a removed component is never deleted (`:336`), rule or no rule.
- *Wrappers.* Observers of a despawn see the world before it (`observers.rs:205`),
  where the comment promises the world after the mutation (`:22`). `advance_tick`
  does not clear the lists. `diff_snapshots` does not list the components of
  entities that vanished. `PluginApp::run` fires no hooks (`plugin.rs:126`).
- *ZK systems.* `cleanup_verified_system` documents `max_age` in ledgers
  (`zk/systems.rs:101`) and compares timestamps, which are seconds (`:112`).
- *Merkle trees.* The Poseidon2 hash of a leaf has the form of a padded pair
  (`tree.rs:230`): a pair whose right half is padding can pass for a leaf, hence
  the bound on the depth in `ProofsBindLeaves`. The verifiers take the leaf's hash as
  given: `verify_inclusion` accepts an inner node or the padding as `leaf`
  (`proof.rs:59`), with fewer siblings or none, so a contract has to hash the value
  itself; the properties speak of proofs that start at the hash of a value. The sparse tree takes its slot
  from two bytes of a 256-bit key, so keys that agree there overwrite each other.

## Proofs

Forty-two theorems in eight modules; every leaf is checked by `tlapm`. They
assume only the named assumptions of the modules: counters' limits are naturals,
`None` is no datum, constants are well typed, two bytes of a key number the slots of
the sparse tree. No set is assumed finite, except that those of ids are intervals and
that `ArchetypeWorld` lists the component types in an order. `InvocationsComeToAnEnd` alone
speaks of a finite set of names, as a condition within its property.

Loops are recursive functions on the naturals (`Replay`, `Asked`, `new_keys`, `Climb`),
and what they compute is proved by an induction that the provers can follow:
the set of the numbers at which a claim fails, if not empty, has a least one
(`LeastNumber`, from `WFMin` of the library), and that is neither 0 nor a
successor. `NumberInduction` states this with a set in place of the predicate.
That such a function is what its defining equation says is a lemma too
(`ReplayExists`, `TakenOverExists`, `IteratedExists`), as TLA+ defines it by a choice.

A lemma that several modules need is stated and proved in each proofs module that
cites it: these two about numbers, and those about the methods of `SimpleWorldOps`,
which say field by field what a call does to a well-formed world.

**SimpleWorld** (`SimpleWorldProofs`)

- `TypeCorrect`: `Spec => []TypeOK`.
- `CachesAreCoherent`: `Spec => []CacheCoherent`. Coherence is not inductive:
  a cache *ahead* of its world would become valid, with old results, when the
  world catches up. `CacheInv` adds that no cache is ahead, and that the world of
  version 0 is empty, which is what makes the version of a new or an
  invalidated cache a safe one.
- `ListedComponentsAreStored`: inductive with `TypeOK`.
- `TypedWorldIsAStore`: `Spec => ImplementsEcsStore`. A step of the world maps to
  a step of the store or to a stutter only where the list names exactly the
  components that exist and each is in the map its type selects: `TypedInv`.
- `TypedQueriesAgree`: from `TypedInv` too.

**StorageWorld** (`StorageWorldProofs`)

- `LoadedIsListed`: `Spec => []LoadedDataIsListed`, for every contract. Inductive with
  the types and with "a loaded entity has an allocated id", without which a
  spawn could give out the id of loaded data.
- `CountIsExact`, `ConversionIsFaithful` and the refinement `StorageIsDurable`:
  `Spec => ImplementsDurableStore`. They rest on `RuleFacts`, which holds as long
  as the rule is kept and says how memory, storage and tracker fit together: in
  both metadata records the count is the cardinality of the ids and the ids are
  below the next one; loaded entities are live, and despawned ones are not;
  storage holds the entities of its metadata, of which those that memory lacks
  are marked as despawned; what is listed is there, in memory and in storage;
  what is not marked is as it is stored. The last is what makes a flush that writes only the marked
  entries a copy of the whole world, and the proof of the flush step
  has a case for each kind of entry. `MarksMetadata` (no mark without the one
  for the metadata) holds of every contract.
- `DespawnsAreFinal`: `Spec => []DespawnIsFinal`, for every contract. `BuriedInv` adds that no buried entity is marked to be written, that its id
  is below the next one, in memory and in storage, so that no spawn gives it out again, and that
  despawned entities are gone from the metadata: so no flush, load or new invocation can
  bring one back.
- The proofs first reduce each action to an *outcome*, a statement entity by
  entity and type by type, and reason from outcomes only.

**Wrappers** (`WorldWrappersProofs`), for a world of any size and queues of any length

- `NoChangeIsSilent`: `Spec => ChangesAreHeard`, changed data included, and `ObserversHearTheTruth`:
  `Spec => ObserversAreExact`. `IInv`: the types; the world is *sound* (an entity's list
  names only what the maps hold); and it is *exact* (the list names all of that)
  as long as no component has been in both maps. Every call and every queue
  keeps this (`ReplayKeeps`), which is why a despawn, which goes by the list, fires for
  what it takes away and for nothing else.
- `TheLastCommandDecides`: `Spec => LastCommandDecides`, by induction along the queue:
  the world after n commands holds for each component what the last of these n
  says of it, or what it held before.
- `TrackerMissesNothing`: `Spec => []TrackerCoversChanges`, and `TrackerMatchesDiff`:
  `Spec => []TrackerAgreesWithDiff`, from `TrackerInv`, the books of each component:
  what differs from the last clear is in some list; additions, plus one if it was
  there at the clear, are removals, plus one if it is there now (exact worlds only);
  what was there, is there and differs was written by an add or a modification.
  Each method keeps the books for what it is about and for all else.

**Archetype world** (`ArchetypeWorldProofs`), for any number of types, entities and archetypes

- `Sound` says that the three places which tell where an entity is agree: an entity is in
  the list of the archetype that `entity_archetype` names, once, in no other list, and has
  data there for exactly the types of that archetype, and nowhere else; whatever the
  index has for a set of types is an archetype of exactly these types.
- Every move goes through a world that is not sound: the entity is out of its old
  archetype and not yet in the new one. `SoundBut` describes it (sound but for one entity,
  which is nowhere). `WithoutSound` takes an entity out, `WithArchetypeSound` finds or makes the
  archetype of its new types, `MovedSound` puts it there; adding, removing and despawning are
  put together from these, and each is shown to change what can be read of its entity
  as the store does, and of all others not at all.
- `QueriesFindEachOnce`: `Spec => []QueriesAreExact`. By induction over the archetypes in the
  order of their ids: what has been collected has no repetitions, since an entity
  is in one list and there once.
- `CachedAnswersAreCurrent`: `Spec => []CacheCoherent`. `CacheInv` adds that the cached
  results are of no later version than the world, and that at the same version
  they are the same entities. Every change of what queries find moves the version, except the
  rebuild from a SimpleWorld, which takes the old version over; it is harmless
  because the rebuilt world reads the same (`MigratedSound`, by an induction over
  entities and within it over their types).
- `ArchetypesAreInvisible`: `Spec => ImplementsEcsStore`.

**Recovery** (`RecoveryProofs`), all from `RecoveryInv` (types, `ApprovalsAreVotes`, and
`DeadlineIsKept`: the stored deadline is the opening time plus the period in
force then), except the third, which needs the types only:

- `TypeCorrect`, `ApprovalsAreGuardianVotes`, `GuardiansStayWithinLimit`.
- `TakeoverNeedsQuorum`: `Spec => QuorumBacksExecution`. The code compares the
  *length* of a list with the threshold. As the list has no duplicates and its
  elements are the voters, its length is their number.
- `TakeoverRespectsTimelock`: `Spec => TimelockRespected`.

**Sessions** (`SessionsProofs`)

- `TypeCorrect`, and `CarefulContractsAreSafe`: `Spec => CarefulGrantsAreBacked`. The
  invariant adds `SweptKeysAreAlive`: after a sweep, until time passes or a key
  is stored, no stored key has expired. It stands in for the expiry test that
  `authorize` does not make.

**Devices** (`DevicesProofs`)

- `OneActiveRecord`, `RevocationLasts` (`Spec => RevokedStaysRevoked`), `ExpiryIsEarned`. All
  calls but a registration edit records in place and activate none
  (`EditedInPlace`); a registration appends one. The invariant adds that only an id registered again has several records, and that the record of
  any other id tells when it was last used. It is what an update of the
  *first* record needs to be an update of the right one.
- `LatestIsFound`: `Spec => []LatestPasskeyIsFound`. `PasskeyInv` describes the key store:
  every stored key is the latest of its label, and no label that has a latest
  key is missing. `store` and `remove` rebuild the list in a loop;
  by induction on its index, the list it leaves has the other labels' keys,
  all of them and nothing else.

**GameLoop** (`GameAndMerkleProofs`)

- `DeadlinesComeFirst`: `Spec => []GameFindsNoOverdue`, and `NothingIsSweptEarly`:
  `Spec => NothingExpiresEarly`. The invariant adds that a marker tells when the proof was
  last verified, and that each run starts at the first system.
- `TheAppIsWhole`: `Spec => []AppIsWhole`, with plugins that add systems, hooks and
  plugins in any nesting. `BuildInv` is a
  balance: what the plugins built so far ask for (`Asked`, counted along their
  lists) is what is scheduled plus what is still pending on the stack of builds.
  With it go that the registered names are those of the
  plugins built, each once, and that a plugin that a list asks for has its name
  registered or is still to come on the stack.
- `InvocationsComeToAnEnd`: `Spec => StepsNearTheEnd`, the part of `InvocationsEnd` that is no
  liveness. While an invocation is under way, each step leads to the next phase or
  lowers a tuple of naturals in its order of importance: while building, the names that no
  plugin has yet, the builds under way, the items left in the innermost build; while running,
  the systems left. A plugin that adds itself, or the one that added it, pushes a build only
  with a name that was free. With finitely many names the measure is natural
  (the registered names are distinct, so they are no more than `Cardinality(Name)`), so no
  invocation has infinitely many steps.

**Merkle trees** (`GameAndMerkleProofs`), for lists of any length, any depth of the sparse
tree, and either hash. A hash is a term, so what it was computed from can be read off
it (`PairBinds`, `LeafBinds`); which terms look alike is what the proofs turn on.

- `TreeOf(t, depth)` says that each node is the hash of the two below it. The layers of
  `from_leaves` are such a tree (`LayersAreTree`), and so are the nodes that `get_node`
  finds (`SparseIsTree`). About every tree: climbing with the siblings of a leaf leads to
  the root (`ClimbUp`); whatever climbs to the root comes through its nodes, as many levels
  down as there are siblings and layers (`ClimbInto`, `ClimbDown`), and with the directions of leaf i, at leaf i
  (`ClimbBack`); equal roots have equal nodes below them (`Descend`), and equal
  leaves equal roots (`Ascend`). The arithmetic is that of halving an index, and of
  adding powers of 2 for the directions that a verifier reads back (`Unpacked`).
- `EveryLeafHasAProof`: `TreesSpec => []EveryLeafProves`.
- `RootsBindTheirLeaves`: `TreesSpec => []RootBindsLeaves`. In trees of one depth, padding
  is told from every leaf. A shallower tree would have the hash of its first
  leaf where the deeper one has a pair; with Poseidon2, where a leaf is a pair, the
  right half of that pair would be padding, but it is a pair too or the second leaf.
- `ForgedProofsFail`: `TreesSpec => []AnyProofBinds`. A proof that starts at the hash of a value
  verifies only for a leaf, for siblings and sides of any kind: of the tree's depth with
  Poseidon2, and of any length with SHA256, where a shorter proof would make a tagged leaf a
  pair, and a longer one a pair a leaf (`ClimbsAreShort`). `ProofsBindTheirLeaves`,
  `TreesSpec => []ProofsBindLeaves`, is the part of it that the run checks.
- `GetFindsTheLastInsert`, `TheSparseRootIsCanonical` and `StaleProofsAreRefused`
  (`TreesSpec => StaleProofsFail`), from `TreesInv`: a slot is free or holds the hash of a
  value; `NodesAgree`, every node of the sparse tree is the hash of what `get_node` finds below it;
  `root` is the node at the top. The properties speak of slots and root only; what holds
  them together through an insertion is the levels between. A node on the
  path is the hash of the next one on it and of one beside, whose subtree is as
  before; all other nodes keep their children.
- `EveryKeyHasAProof` and `ProofsBindTheSlot` go beyond the runs: what `prove` returns verifies
  at once (with SHA256, as all that is said of `prove` and `get`), for keys without a value too; and of all leaves and siblings there could
  be, those that verify with a key's directions have the leaf of its slot. So the
  premise of `StaleProofsFail` does occur, and it occurs for no other reason.

*Only model-checked*: `InvocationsEnd` and `OverdueIsSwept`, which are liveness under
fairness. That an invocation cannot go on for ever is proved (`InvocationsComeToAnEnd`);
that it does not stop midway rests on the fairness and on `ENABLED`, and is left to TLC.

## What is left

The components of the table under "Not modelled" keep no state, or none that any
compiled code reads. What could still be added with profit:

- The resources and events of the legacy World, once code of the crate uses them.
- `GameLoop` over the whole of `SimpleWorldOps` instead of two component types; it
  would multiply the states without a new interaction, since systems get the bare world.
