--------------------------- MODULE SessionsProofs ---------------------------
(***************************************************************************)
(* Proofs about Sessions for every set of actions, key ids and scopes:     *)
(* types, and that a contract which sweeps expired keys and holds no stale *)
(* copy authorizes only what a live session allows.                        *)
(***************************************************************************)
EXTENDS Sessions, TLAPS

\* After a sweep, and until time passes or a key is stored, no key is expired.
SweptKeysAreAlive ==
    swept => \A id \in KeyId : keys[id] # None => ~Expired(keys[id])

SessionInv == TypeOK /\ SweptKeysAreAlive

-----------------------------------------------------------------------------

\* A new session key is well typed, and so is every key of a caller.
LEMMA NewKeyType ==
    /\ \A id \in KeyId, scope \in Scopes : NewKey(id, scope) \in SessionKeys
    /\ CallerKeys \subseteq SessionKeys
  BY SessionAssumption DEF NewKey, SessionKeys, CallerKeys

\* The disjuncts of Next, one call each.
LEMMA NextCases ==
    ASSUME Next
    PROVE  \/ \E key \in SessionKeys : Store(key)
           \/ \E scope \in Scopes : StartSession(scope)
           \/ \E id \in KeyId : Remove(id)
           \/ \E id \in KeyId : IncrementUsage(id)
           \/ \E key \in SessionKeys : SetSession(key)
           \/ CleanupExpired
           \/ EndSession
           \/ \E actions \in SUBSET Action, signed \in BOOLEAN :
                 ExecuteAuthorized(actions, signed)
           \/ \E actions \in SUBSET Action, signed \in BOOLEAN :
                 BatchOrSequential(actions, signed)
           \/ Tick
<1>1. \A scope \in Scopes : CreateSession(scope) => \E key \in SessionKeys : Store(key)
  BY NewKeyType, SessionAssumption DEF CreateSession
<1>2. \A key \in CallerKeys : key \in SessionKeys
  BY NewKeyType
<1> QED
  BY <1>1, <1>2, Zenon DEF Next, RevokeSession

\* increment_usage changes the counter of a key, within u32, and nothing else.
LEMMA CountedKey ==
    ASSUME NEW key \in SessionKeys, key.operations_used < U32Max
    PROVE  /\ [key EXCEPT !.operations_used = @ + 1] \in SessionKeys
           /\ [key EXCEPT !.operations_used = @ + 1].scope = key.scope
  BY SessionAssumption DEF SessionKeys

\* No key is stored at first.
LEMMA InitInv == Init => SessionInv
<1> SUFFICES ASSUME Init PROVE SessionInv
  OBVIOUS
<1>1. now \in 0..MaxTime
  BY SessionAssumption DEF Init
<1>2. swept \in BOOLEAN /\ SweptKeysAreAlive
  BY DEF Init, SweptKeysAreAlive
<1>3. /\ DOMAIN keys = KeyId
      /\ \A id \in KeyId : keys[id] = None
      /\ active_session = None
      /\ granted = None
  BY DEF Init
<1> QED
  BY <1>1, <1>2, <1>3 DEF SessionInv, TypeOK

-----------------------------------------------------------------------------
(* Types *)

\* Every call keeps the types.
LEMMA StepType ==
    ASSUME TypeOK, [Next]_vars
    PROVE  TypeOK'
<1> USE DEF TypeOK
<1>1. CASE \E key \in SessionKeys : Store(key)
  BY <1>1 DEF Store, SessionKeys
<1>2. CASE \E scope \in Scopes : StartSession(scope)
  BY <1>2, NewKeyType, SessionAssumption DEF StartSession
<1>3. CASE \E id \in KeyId : Remove(id)
  BY <1>3 DEF Remove
<1>4. CASE \E id \in KeyId : IncrementUsage(id)
  <2>1. PICK id \in KeyId : IncrementUsage(id)
    BY <1>4
  <2>2. /\ keys[id] \in SessionKeys
        /\ keys[id].operations_used < U32Max
    BY <2>1 DEF IncrementUsage
  <2>3. [keys[id] EXCEPT !.operations_used = @ + 1] \in SessionKeys
    BY <2>2, CountedKey
  <2>4. keys' = [keys EXCEPT ![id] = [keys[id] EXCEPT !.operations_used = @ + 1]]
    BY <2>1 DEF IncrementUsage
  <2> QED
    BY <2>1, <2>3, <2>4 DEF IncrementUsage
<1>5. CASE \E key \in SessionKeys : SetSession(key)
  BY <1>5 DEF SetSession
<1>6. CASE CleanupExpired
  BY <1>6 DEF CleanupExpired
<1>7. CASE EndSession
  BY <1>7 DEF EndSession
<1>8. CASE \E actions \in SUBSET Action, signed \in BOOLEAN :
              ExecuteAuthorized(actions, signed)
  BY <1>8 DEF ExecuteAuthorized, Grant
<1>9. CASE \E actions \in SUBSET Action, signed \in BOOLEAN :
              BatchOrSequential(actions, signed)
  BY <1>9 DEF BatchOrSequential, Grant
<1>10. CASE Tick
  <2>1. now' \in 0..MaxTime
    BY <1>10, SessionAssumption DEF Tick
  <2>2. swept' \in BOOLEAN
    BY <1>10 DEF Tick
  <2> QED
    BY <1>10, <2>1, <2>2 DEF Tick
<1>11. CASE UNCHANGED vars
  BY <1>11 DEF vars
<1> QED
  BY <1>1, <1>2, <1>3, <1>4, <1>5, <1>6, <1>7, <1>8, <1>9, <1>10, <1>11, NextCases

\* Every call keeps the stored keys, the copy of a session and the clock well
\* typed; in particular operations_used stays within u32.
THEOREM TypeCorrect == Spec => []TypeOK
<1>1. Init => TypeOK
  BY InitInv DEF SessionInv
<1> QED
  BY <1>1, StepType, PTL DEF Spec

-----------------------------------------------------------------------------
(* What stands behind a grant *)

\* After a sweep, only time and new keys can bring back an expired one.
LEMMA StepSwept ==
    ASSUME SessionInv, [Next]_vars
    PROVE  SweptKeysAreAlive'
<1> USE DEF SessionInv, TypeOK
<1> SUFFICES ASSUME swept', NEW id \in KeyId, keys'[id] # None
             PROVE  ~(now' >= keys'[id].scope.expires_at)
  BY DEF SweptKeysAreAlive, Expired
<1>1. CASE UNCHANGED <<keys, now, swept>>
  BY <1>1 DEF SweptKeysAreAlive, Expired
<1>2. CASE \/ \E key \in SessionKeys : Store(key)
           \/ \E scope \in Scopes : StartSession(scope)
           \/ Tick
  BY <1>2 DEF Store, StartSession, Tick
<1>3. CASE \E k \in KeyId : Remove(k)
  BY <1>3 DEF Remove, SweptKeysAreAlive, Expired
<1>4. CASE \E k \in KeyId : IncrementUsage(k)
  <2>1. PICK k \in KeyId : IncrementUsage(k)
    BY <1>4
  <2>2. CASE k = id
    <3>1. /\ keys[id] \in SessionKeys
          /\ keys[id].operations_used < U32Max
      BY <2>1, <2>2 DEF IncrementUsage
    <3>2. keys'[id] = [keys[id] EXCEPT !.operations_used = @ + 1]
      BY <2>1, <2>2 DEF IncrementUsage
    <3>3. keys'[id].scope = keys[id].scope
      BY <3>1, <3>2, CountedKey
    <3> QED
      BY <2>1, <2>2, <3>3 DEF IncrementUsage, SweptKeysAreAlive, Expired
  <2>3. CASE k # id
    BY <2>1, <2>3 DEF IncrementUsage, SweptKeysAreAlive, Expired
  <2> QED
    BY <2>2, <2>3
<1>5. CASE CleanupExpired
  BY <1>5 DEF CleanupExpired, Expired
<1>6. CASE \/ \E key \in SessionKeys : SetSession(key)
           \/ EndSession
           \/ \E actions \in SUBSET Action, signed \in BOOLEAN :
                 ExecuteAuthorized(actions, signed)
           \/ \E actions \in SUBSET Action, signed \in BOOLEAN :
                 BatchOrSequential(actions, signed)
           \/ UNCHANGED vars
  BY <1>1, <1>6 DEF SetSession, EndSession, ExecuteAuthorized, BatchOrSequential,
                    Grant, vars
<1> QED
  BY <1>2, <1>3, <1>4, <1>5, <1>6, NextCases

\* The invariant holds of every reachable state.
LEMMA Invariance == Spec => []SessionInv
<1>1. SessionInv /\ [Next]_vars => SessionInv'
  BY StepType, StepSwept DEF SessionInv
<1> QED
  BY <1>1, InitInv, PTL DEF Spec

\* An action that passes either check is allowed by a live stored session.
LEMMA CoveredIsBacked ==
    ASSUME SessionInv, swept, SessionIsFresh, NEW action \in Action,
           CoveredBySession(action) \/ CoveredByStoredKey(action)
    PROVE  BackedByLiveSession(action)
<1>1. CASE CoveredBySession(action)
  <2>1. /\ active_session # None
        /\ active_session.key_id \in KeyId
        /\ keys[active_session.key_id] = active_session
    BY <1>1 DEF CoveredBySession, SessionIsFresh, SessionInv, TypeOK, SessionKeys
  <2> QED
    BY <1>1, <2>1 DEF CoveredBySession, BackedByLiveSession, ValidateSession
<1>2. CASE CoveredByStoredKey(action)
  <2>1. PICK id \in KeyId :
          /\ keys[id] # None
          /\ action \in keys[id].scope.allowed_actions
          /\ HasOperationsLeft(keys[id])
    BY <1>2 DEF CoveredByStoredKey
  <2>2. ~Expired(keys[id])
    BY <2>1 DEF SessionInv, SweptKeysAreAlive
  <2> QED
    BY <2>1, <2>2 DEF BackedByLiveSession, ValidateSession, IsActionAllowed
<1> QED
  BY <1>1, <1>2

\* A contract that sweeps expired keys in each invocation, after storing keys,
\* and keeps no stale copy of a session authorizes without a signature only
\* what a stored session that is still valid allows.
THEOREM CarefulContractsAreSafe == Spec => CarefulGrantsAreBacked
<1>1. ASSUME SessionInv, Next, granted' # None, swept, SessionIsFresh
      PROVE  granted'.signed \/ \A a \in granted'.actions : BackedByLiveSession(a)
  <2>1. CASE \E actions \in SUBSET Action, signed \in BOOLEAN :
                ExecuteAuthorized(actions, signed)
    <3>1. PICK actions \in SUBSET Action, signed \in BOOLEAN :
            ExecuteAuthorized(actions, signed)
      BY <2>1
    <3>2. granted'.actions = actions /\ granted'.signed = signed
      BY <3>1 DEF ExecuteAuthorized, Grant
    <3>3. \A a \in actions : signed \/ BackedByLiveSession(a)
      BY <1>1, <3>1, CoveredIsBacked DEF ExecuteAuthorized
    <3> QED
      BY <3>2, <3>3
  <2>2. CASE \E actions \in SUBSET Action, signed \in BOOLEAN :
                BatchOrSequential(actions, signed)
    <3>1. PICK actions \in SUBSET Action, signed \in BOOLEAN :
            BatchOrSequential(actions, signed)
      BY <2>2
    <3>2. granted'.actions = actions /\ granted'.signed = signed
      BY <3>1 DEF BatchOrSequential, Grant
    <3>3. \A a \in actions : signed \/ BackedByLiveSession(a)
      BY <1>1, <3>1, CoveredIsBacked DEF BatchOrSequential
    <3> QED
      BY <3>2, <3>3
  <2>3. CASE \/ \E key \in SessionKeys : Store(key) \/ SetSession(key)
             \/ \E scope \in Scopes : StartSession(scope)
             \/ \E id \in KeyId : Remove(id) \/ IncrementUsage(id)
             \/ CleanupExpired
             \/ EndSession
             \/ Tick
    BY <1>1, <2>3 DEF Store, StartSession, Remove, IncrementUsage, SetSession,
                      CleanupExpired, EndSession, Tick
  <2> QED
    BY <1>1, <2>1, <2>2, <2>3, NextCases
<1>2. SessionInv /\ [Next]_vars =>
        [granted' # None /\ swept /\ SessionIsFresh =>
            granted'.signed \/ \A a \in granted'.actions : BackedByLiveSession(a)]_vars
  BY <1>1
<1> QED
  BY <1>2, Invariance, PTL DEF Spec, CarefulGrantsAreBacked
=============================================================================
