------------------------------ MODULE Sessions ------------------------------
(***************************************************************************)
(* Session keys of one contract account: SessionStorage                    *)
(* (src/src/accounts/storage.rs), ContractAccount (contract.rs), the       *)
(* fallback and the batches (degradation.rs, batch.rs), and the session a  *)
(* GameWorld holds (src/src/game_world.rs).                                *)
(*                                                                         *)
(* The stored list never holds two keys with one id (store removes the old *)
(* one), and its order decides nothing, so it is a function from ids to    *)
(* keys; lists of different accounts are stored apart and do not meet.     *)
(* require_auth() is the caller's signature: without it the call panics    *)
(* and is reverted, so an unsigned call that needs it is not a step.       *)
(***************************************************************************)
EXTENDS Integers

CONSTANTS
    Action,        \* system names of game actions
    KeyId,         \* ids of session keys
    PlaceholderId, \* the id [0; 32] that create_session gives to every key
    Scopes,        \* the SessionScope values contracts ask for
    U32Max,        \* largest u32: bound of operations_used
    MaxTime,       \* bound of the ledger clock
    None           \* an absent key, session or result

SessionScopes ==
    [allowed_actions : SUBSET Action, max_operations : 0..U32Max, expires_at : Nat]

ASSUME SessionAssumption ==
    /\ U32Max \in Nat
    /\ MaxTime \in Nat
    /\ PlaceholderId \in KeyId
    /\ Scopes \subseteq SessionScopes

\* created_at is left out: nothing in the code reads it.
SessionKeys ==
    [key_id : KeyId, scope : SessionScopes, operations_used : 0..U32Max]

\* A key that a caller makes up, or has kept from an earlier invocation.
CallerKeys == [key_id : KeyId, scope : Scopes, operations_used : 0..U32Max]

VARIABLES
    keys,            \* keys[id]: the stored session key, or None
    active_session,  \* the key GameWorld holds a copy of, or None
    now,             \* env.ledger().timestamp()
    granted,         \* history: what the last step authorized, or None
    swept            \* history: cleanup_expired has run at this ledger time
                     \* and no key was stored since

vars == <<keys, active_session, now, granted, swept>>

Init ==
    /\ keys = [id \in KeyId |-> None]
    /\ active_session = None
    /\ now = 0
    /\ granted = None
    /\ swept = FALSE

-----------------------------------------------------------------------------
(* Checks *)

NewKey(id, scope) ==
    [key_id |-> id, scope |-> scope, operations_used |-> 0]

Expired(key) == now >= key.scope.expires_at

HasOperationsLeft(key) == key.operations_used < key.scope.max_operations

\* An empty list permits every action here ...
IsActionAllowed(key, action) ==
    \/ key.scope.allowed_actions = {}
    \/ action \in key.scope.allowed_actions

\* ContractAccount::validate_session
ValidateSession(key) == ~Expired(key) /\ HasOperationsLeft(key)

\* ... and none here: the check of ContractAccount::authorize, on stored keys.
CoveredByStoredKey(action) ==
    \E id \in KeyId :
        /\ keys[id] # None
        /\ action \in keys[id].scope.allowed_actions
        /\ HasOperationsLeft(keys[id])

\* authorize_with_fallback, on the copy the GameWorld holds.
CoveredBySession(action) ==
    /\ active_session # None
    /\ ~Expired(active_session)
    /\ HasOperationsLeft(active_session)
    /\ IsActionAllowed(active_session, action)

-----------------------------------------------------------------------------
(* SessionStorage *)

\* Any key, also one that is used up or expired, in place of the one with its id.
Store(key) ==
    /\ keys' = [keys EXCEPT ![key.key_id] = key]
    /\ granted' = None
    /\ swept' = FALSE
    /\ UNCHANGED <<active_session, now>>

Remove(id) ==
    /\ keys[id] # None
    /\ keys' = [keys EXCEPT ![id] = None]
    /\ granted' = None
    /\ UNCHANGED <<active_session, now, swept>>

\* Faulty variant of the next definition: the addition may pass u32.
IncrementUsageUnchecked(id) ==
    /\ keys[id] # None
    /\ keys' = [keys EXCEPT ![id].operations_used = @ + 1]
    /\ granted' = None
    /\ UNCHANGED <<active_session, now, swept>>

IncrementUsage(id) ==
    /\ keys[id] # None
    /\ keys[id].operations_used < U32Max     \* else the addition panics
    /\ keys' = [keys EXCEPT ![id].operations_used = @ + 1]
    /\ granted' = None
    /\ UNCHANGED <<active_session, now, swept>>

\* Faulty variant of the next definition: keys live on at their expiry time.
CleanupExpiredLate ==
    /\ keys' = [id \in KeyId |->
                  IF keys[id] # None /\ now > keys[id].scope.expires_at
                  THEN None ELSE keys[id]]
    /\ granted' = None
    /\ swept' = TRUE
    /\ UNCHANGED <<active_session, now>>

CleanupExpired ==
    /\ keys' = [id \in KeyId |->
                  IF keys[id] # None /\ Expired(keys[id]) THEN None ELSE keys[id]]
    /\ granted' = None
    /\ swept' = TRUE
    /\ UNCHANGED <<active_session, now>>

-----------------------------------------------------------------------------
(* ContractAccount and GameWorld *)

CreateSession(scope) == Store(NewKey(PlaceholderId, scope))

StartSession(scope) ==
    /\ keys' = [keys EXCEPT ![PlaceholderId] = NewKey(PlaceholderId, scope)]
    /\ active_session' = NewKey(PlaceholderId, scope)
    /\ granted' = None
    /\ swept' = FALSE
    /\ UNCHANGED now

RevokeSession(id) == Remove(id)

\* Any key: one just loaded from the storage, or one that never was in it.
SetSession(key) ==
    /\ active_session' = key
    /\ granted' = None
    /\ UNCHANGED <<keys, now, swept>>

EndSession ==
    /\ active_session' = None
    /\ granted' = None
    /\ UNCHANGED <<keys, now, swept>>

Grant(actions, signed) ==
    /\ granted' = [actions |-> actions, signed |-> signed]
    /\ UNCHANGED <<keys, active_session, now, swept>>

\* GameWorld::batch_execute; execute_authorized is the batch of one action.
ExecuteAuthorized(actions, signed) ==
    /\ \A action \in actions :
         CoveredBySession(action) \/ CoveredByStoredKey(action) \/ signed
    /\ Grant(actions, signed)

\* batch_or_sequential and BatchBuilder::execute authorize each action with the
\* account and refuse the empty batch; one action is ContractAccount::authorize.
BatchOrSequential(actions, signed) ==
    /\ actions # {}
    /\ \A action \in actions : CoveredByStoredKey(action) \/ signed
    /\ Grant(actions, signed)

Tick ==
    /\ now < MaxTime
    /\ now' = now + 1
    /\ granted' = None
    /\ swept' = FALSE
    /\ UNCHANGED <<keys, active_session>>

Next ==
    \/ \E scope \in Scopes :
         CreateSession(scope) \/ StartSession(scope)
    \/ \E key \in CallerKeys : Store(key) \/ SetSession(key)
    \/ \E id \in KeyId :
         \/ Remove(id)
         \/ IncrementUsage(id)
         \/ RevokeSession(id)
    \/ CleanupExpired
    \/ EndSession
    \/ \E actions \in SUBSET Action, signed \in BOOLEAN :
         \/ ExecuteAuthorized(actions, signed)
         \/ BatchOrSequential(actions, signed)
    \/ Tick

Spec == Init /\ [][Next]_vars

-----------------------------------------------------------------------------
(* Properties *)

TypeOK ==
    /\ DOMAIN keys = KeyId
    /\ \A id \in KeyId : keys[id] # None => keys[id] \in SessionKeys
    /\ active_session # None => active_session \in SessionKeys
    /\ now \in 0..MaxTime
    /\ granted # None => granted \in [actions : SUBSET Action, signed : BOOLEAN]
    /\ swept \in BOOLEAN

\* A live session of the account stands behind an action.
BackedByLiveSession(action) ==
    \E id \in KeyId :
        /\ keys[id] # None
        /\ ValidateSession(keys[id])
        /\ IsActionAllowed(keys[id], action)

\* The copy a GameWorld holds is the key as it is stored.
SessionIsFresh == active_session # None => keys[active_session.key_id] = active_session

\* A contract that runs cleanup_expired in each invocation, after storing keys,
\* and keeps no stale copy of a session (it reloads it, or ends it) authorizes
\* without a signature only what a stored key that validate_session accepts
\* allows: three checks that differ on expiry and on empty scopes add up to one.
CarefulGrantsAreBacked ==
    [][granted' # None /\ swept /\ SessionIsFresh =>
          granted'.signed \/ \A a \in granted'.actions : BackedByLiveSession(a)]_vars

\* "Check if any active session key covers this action" (contract.rs:44): what
\* ContractAccount authorizes without a signature, a session that is still
\* active covers.  (Without a GameWorld session all grants are the account's.)
AccountGrantsAreBacked ==
    [][granted' # None /\ active_session = None =>
          granted'.signed \/ \A a \in granted'.actions : BackedByLiveSession(a)]_vars
=============================================================================
