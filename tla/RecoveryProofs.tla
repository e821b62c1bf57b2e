--------------------------- MODULE RecoveryProofs ---------------------------
(***************************************************************************)
(* Proofs about Recovery for every set of accounts, people and             *)
(* configurations: types, what the stored approvals are worth, and the two *)
(* conditions of a takeover, quorum and timelock.                          *)
(***************************************************************************)
EXTENDS Recovery, FiniteSetTheorems, TLAPS

\* A stored request may be executed no earlier than its period after its start.
DeadlineIsKept ==
    \A a \in Account : request[a] # None =>
        request[a].timelock_until = opened[a].at + opened[a].period

RecoveryInv == TypeOK /\ ApprovalsAreVotes /\ DeadlineIsKept

-----------------------------------------------------------------------------

\* Removing a guardian leaves a list of people.
LEMMA WithoutType ==
    ASSUME NEW s \in Seq(Person), NEW x \in Elements(s)
    PROVE  Without(s, x) \in Seq(Person)
<1> DEFINE i == CHOOSE j \in 1..Len(s) : s[j] = x
<1>1. i \in 1..Len(s)
  BY DEF Elements
<1>2. Len(s) \in Nat /\ \A j \in 1..Len(s) : s[j] \in Person
  OBVIOUS
<1>3. Len(s) - 1 \in Nat
  BY <1>1, <1>2
<1> HIDE DEF i
<1>4. \A j \in 1..(Len(s) - 1) : (IF j < i THEN s[j] ELSE s[j + 1]) \in Person
  BY <1>1, <1>2
<1>5. [j \in 1..(Len(s) - 1) |-> IF j < i THEN s[j] ELSE s[j + 1]] \in Seq(Person)
  BY <1>3, <1>4
<1> QED
  BY <1>5 DEF Without, i

\* initiate_recovery stores a well-typed request.
LEMMA NewRequestType ==
    ASSUME TypeOK, config[address] # None,
           now + config[address].timelock_period =< U64Max,
           NEW o \in Account
    PROVE  NewRequest(o) \in RecoveryRequests
<1>1. config[address] \in RecoveryConfigs
  BY ConfigAssumption DEF TypeOK
<1>2. config[address].timelock_period \in Nat
  BY <1>1 DEF RecoveryConfigs
<1>3. /\ now \in 0..U64Max
      /\ now + config[address].timelock_period \in 0..U64Max
  BY <1>2, TimeAssumption DEF TypeOK
<1> QED
  BY <1>3 DEF NewRequest, RecoveryRequests

\* An approval is appended, and the deadline stays.
LEMMA ApprovedRequestType ==
    ASSUME NEW r \in RecoveryRequests, NEW g \in Person
    PROVE  /\ [r EXCEPT !.approvals = Append(@, g)] \in RecoveryRequests
           /\ [r EXCEPT !.approvals = Append(@, g)].approvals = Append(r.approvals, g)
           /\ [r EXCEPT !.approvals = Append(@, g)].timelock_until = r.timelock_until
  BY DEF RecoveryRequests

\* Adding an element that is not there yet keeps a list free of duplicates.
LEMMA AppendFresh ==
    ASSUME NEW S, NEW s \in Seq(S), NEW x \in S
    PROVE  /\ Elements(Append(s, x)) = Elements(s) \cup {x}
           /\ NoDuplicates(s) /\ x \notin Elements(s) => NoDuplicates(Append(s, x))
<1>1. /\ Len(Append(s, x)) = Len(s) + 1
      /\ Len(s) \in Nat
      /\ \A j \in 1..Len(s) : Append(s, x)[j] = s[j]
      /\ Append(s, x)[Len(s) + 1] = x
  OBVIOUS
<1>2. 1..(Len(s) + 1) = (1..Len(s)) \cup {Len(s) + 1}
  BY <1>1
<1>3. Elements(Append(s, x)) = Elements(s) \cup {x}
  BY <1>1, <1>2 DEF Elements
<1>4. ASSUME NoDuplicates(s), x \notin Elements(s)
      PROVE  NoDuplicates(Append(s, x))
  <2> SUFFICES ASSUME NEW j \in 1..(Len(s) + 1), NEW k \in 1..(Len(s) + 1),
                      Append(s, x)[j] = Append(s, x)[k]
               PROVE  j = k
    BY <1>1 DEF NoDuplicates
  <2>1. CASE j \in 1..Len(s) /\ k \in 1..Len(s)
    BY <1>1, <1>4, <2>1 DEF NoDuplicates
  <2>2. CASE j \in 1..Len(s) /\ k = Len(s) + 1
    BY <1>1, <1>4, <2>2 DEF Elements
  <2>3. CASE j = Len(s) + 1 /\ k \in 1..Len(s)
    BY <1>1, <1>4, <2>3 DEF Elements
  <2> QED
    BY <1>1, <2>1, <2>2, <2>3
<1> QED
  BY <1>3, <1>4

\* A further vote adds its voter and no other.
LEMMA OneMoreVoter ==
    ASSUME NEW V, NEW g, NEW t
    PROVE  {v.by : v \in V \cup {[by |-> g, at |-> t]}} = {v.by : v \in V} \cup {g}
<1> DEFINE n == [by |-> g, at |-> t]
<1>1. n.by = g
  OBVIOUS
<1> HIDE DEF n
<1>2. {v.by : v \in V \cup {n}} = {v.by : v \in V} \cup {n.by}
  OBVIOUS
<1> QED
  BY <1>1, <1>2 DEF n

\* A list without duplicates is as long as the set of its elements is large.
LEMMA LengthIsCardinality ==
    ASSUME NEW S, NEW s \in Seq(S), NoDuplicates(s)
    PROVE  Cardinality(Elements(s)) = Len(s)
<1>1. Len(s) \in Nat
  OBVIOUS
<1>2. s \in Bijection(1..Len(s), Elements(s))
  <2>1. s \in [1..Len(s) -> Elements(s)]
    BY DEF Elements
  <2>2. \A t \in Elements(s) : \E j \in 1..Len(s) : s[j] = t
    BY DEF Elements
  <2> QED
    BY <2>1, <2>2 DEF Bijection, Injection, Surjection, NoDuplicates, IsInjective
<1>3. IsFiniteSet(1..Len(s)) /\ Cardinality(1..Len(s)) = Len(s)
  BY <1>1, FS_Interval
<1>4. ExistsBijection(1..Len(s), Elements(s))
  BY <1>2 DEF ExistsBijection
<1> QED
  BY <1>3, <1>4, FS_Bijection

-----------------------------------------------------------------------------
(* Types *)

\* Nothing is stored at first.
LEMMA InitType == Init => TypeOK
  BY TimeAssumption DEF Init, TypeOK, Openings

\* Every call keeps the types.
LEMMA StepType ==
    ASSUME TypeOK, [Next]_vars
    PROVE  TypeOK'
<1> USE DEF TypeOK
<1>1. ASSUME NEW a \in Account, NEW c \in Configs, NewAccount(a, c)
      PROVE  TypeOK'
  BY <1>1 DEF NewAccount
<1>2. ASSUME NEW a \in Account, Load(a)
      PROVE  TypeOK'
  BY <1>2 DEF Load, storage
<1>3. ASSUME NEW g \in Person, AddGuardian(g)
      PROVE  TypeOK'
  <2>1. guardians' \in [Account -> Seq(Person)]
    BY <1>3 DEF AddGuardian
  <2> QED
    BY <1>3, <2>1 DEF AddGuardian
<1>4. ASSUME NEW g \in Person, RemoveGuardian(g)
      PROVE  TypeOK'
  <2>1. Without(guardians[address], g) \in Seq(Person)
    BY <1>4, WithoutType DEF RemoveGuardian
  <2> QED
    BY <1>4, <2>1 DEF RemoveGuardian
<1>5. ASSUME NEW o \in Account, InitiateRecovery(o)
      PROVE  TypeOK'
  <2>1. NewRequest(o) \in RecoveryRequests
    BY <1>5, NewRequestType DEF InitiateRecovery
  <2>2. config[address].timelock_period \in Nat
    BY <1>5, ConfigAssumption DEF InitiateRecovery, RecoveryConfigs
  <2>3. [at |-> now, period |-> config[address].timelock_period] \in Openings
    BY <2>2 DEF Openings
  <2> QED
    BY <1>5, <2>1, <2>3 DEF InitiateRecovery, StartHistory
<1>6. ASSUME NEW g \in Person, ApproveRecovery(g)
      PROVE  TypeOK'
  <2>1. request[address] \in RecoveryRequests
    BY <1>6 DEF ApproveRecovery
  <2>2. [request[address] EXCEPT !.approvals = Append(@, g)] \in RecoveryRequests
    BY <2>1, ApprovedRequestType
  <2>3. request' \in [Account -> RecoveryRequests \cup {None}]
    BY <1>6, <2>2 DEF ApproveRecovery
  <2>4. [by |-> g, at |-> now] \in Votes
    BY DEF Votes
  <2>5. votes' \in [Account -> SUBSET Votes]
    BY <1>6, <2>4 DEF ApproveRecovery, VotesWith
  <2> QED
    BY <1>6, <2>3, <2>5 DEF ApproveRecovery
<1>7. [at |-> 0, period |-> 0] \in Openings
  BY TimeAssumption DEF Openings
<1>8. ASSUME CancelRecovery
      PROVE  TypeOK'
  BY <1>7, <1>8 DEF CancelRecovery, ClearHistory
<1>9. ASSUME ExecuteRecovery
      PROVE  TypeOK'
  <2>1. request[address].new_owner \in Account
    BY <1>9 DEF ExecuteRecovery, RecoveryRequests
  <2> QED
    BY <1>7, <1>9, <2>1 DEF ExecuteRecovery, ClearHistory
<1>10. ASSUME Tick
       PROVE  TypeOK'
  BY <1>10, TimeAssumption DEF Tick, storage
<1>11. ASSUME UNCHANGED vars
       PROVE  TypeOK'
  BY <1>11 DEF vars, storage
<1> QED
  BY <1>1, <1>2, <1>3, <1>4, <1>5, <1>6, <1>8, <1>9, <1>10, <1>11 DEF Next

\* Every call keeps the stored entries, the clock and the history well typed;
\* in particular timelock_until stays within u64.
THEOREM TypeCorrect == Spec => []TypeOK
  BY InitType, StepType, PTL DEF Spec

-----------------------------------------------------------------------------
(* Approvals and deadlines *)

\* There is no request at first.
LEMMA InitInv == Init => ApprovalsAreVotes /\ DeadlineIsKept
  BY DEF Init, ApprovalsAreVotes, DeadlineIsKept

\* A step that leaves the request of a and its history alone, or removes the
\* request, keeps what is said of a.
LEMMA QuietAccount ==
    ASSUME NEW a \in Account, request'[a] # None,
           request'[a] = request[a], opened'[a] = opened[a], votes'[a] = votes[a],
           ApprovalsAreVotes, DeadlineIsKept
    PROVE  /\ NoDuplicates(request'[a].approvals)
           /\ Elements(request'[a].approvals) = {v.by : v \in votes'[a]}
           /\ request'[a].timelock_until = opened'[a].at + opened'[a].period
  BY DEF ApprovalsAreVotes, DeadlineIsKept, Voters

\* Every call keeps approvals and deadlines in step with the votes.
LEMMA StepInv ==
    ASSUME RecoveryInv, [Next]_vars
    PROVE  (ApprovalsAreVotes /\ DeadlineIsKept)'
<1> USE DEF RecoveryInv
<1> SUFFICES ASSUME NEW a \in Account, request'[a] # None
             PROVE  /\ NoDuplicates(request'[a].approvals)
                    /\ Elements(request'[a].approvals) = {v.by : v \in votes'[a]}
                    /\ request'[a].timelock_until = opened'[a].at + opened'[a].period
  BY DEF ApprovalsAreVotes, DeadlineIsKept, Voters
<1>1. CASE request'[a] = request[a] /\ opened'[a] = opened[a] /\ votes'[a] = votes[a]
  BY <1>1, QuietAccount
<1>3. ASSUME NEW o \in Account, InitiateRecovery(o), a = address
      PROVE  /\ NoDuplicates(request'[a].approvals)
             /\ Elements(request'[a].approvals) = {v.by : v \in votes'[a]}
             /\ request'[a].timelock_until = opened'[a].at + opened'[a].period
  <2>0. /\ request'[a] = NewRequest(o)
        /\ opened'[a] = [at |-> now, period |-> config[address].timelock_period]
        /\ votes'[a] = {}
    BY <1>3 DEF InitiateRecovery, StartHistory, TypeOK
  <2>1. request'[a].approvals = <<>> /\ votes'[a] = {}
    BY <2>0 DEF NewRequest
  <2>2. NoDuplicates(<<>>) /\ Elements(<<>>) = {}
    BY DEF NoDuplicates, Elements
  <2>3. {v.by : v \in {}} = {}
    OBVIOUS
  <2>4. request'[a].timelock_until = opened'[a].at + opened'[a].period
    BY <2>0 DEF NewRequest
  <2> QED
    BY <2>1, <2>2, <2>3, <2>4
<1>4. ASSUME NEW g \in Person, ApproveRecovery(g), a = address
      PROVE  /\ NoDuplicates(request'[a].approvals)
             /\ Elements(request'[a].approvals) = {v.by : v \in votes'[a]}
             /\ request'[a].timelock_until = opened'[a].at + opened'[a].period
  <2>1. /\ request[a] # None
        /\ request[a] \in RecoveryRequests
        /\ g \notin Elements(request[a].approvals)
        /\ g \in Elements(guardians[a])
    BY <1>4 DEF ApproveRecovery, TypeOK
  <2>2. request'[a] = [request[a] EXCEPT !.approvals = Append(@, g)]
    BY <1>4 DEF ApproveRecovery, TypeOK
  <2>3. /\ request'[a].approvals = Append(request[a].approvals, g)
        /\ request'[a].timelock_until = request[a].timelock_until
    BY <2>1, <2>2, ApprovedRequestType
  <2>4. request[a].approvals \in Seq(Person)
    BY <2>1 DEF RecoveryRequests
  <2>5. /\ NoDuplicates(request[a].approvals)
        /\ Elements(request[a].approvals) = {v.by : v \in votes[a]}
        /\ request[a].timelock_until = opened[a].at + opened[a].period
    BY <2>1 DEF ApprovalsAreVotes, DeadlineIsKept, Voters
  <2>6. /\ NoDuplicates(request'[a].approvals)
        /\ Elements(request'[a].approvals) = Elements(request[a].approvals) \cup {g}
    BY <2>1, <2>3, <2>4, <2>5, AppendFresh
  <2>7. votes'[a] = votes[a] \cup {[by |-> g, at |-> now]}
    BY <1>4, <2>1 DEF ApproveRecovery, VotesWith, TypeOK
  <2>8. {v.by : v \in votes'[a]} = {v.by : v \in votes[a]} \cup {g}
    <3>1. {v.by : v \in votes[a] \cup {[by |-> g, at |-> now]}}
              = {v.by : v \in votes[a]} \cup {g}
      BY OneMoreVoter
    <3> QED
      BY <2>7, <3>1, Zenon
  <2>9. opened'[a] = opened[a]
    BY <1>4 DEF ApproveRecovery
  <2> QED
    BY <2>3, <2>5, <2>6, <2>8, <2>9
<1>5. ASSUME NEW b \in Account, request' = [request EXCEPT ![b] = None], ClearHistory(b)
      PROVE  request'[a] = request[a] /\ opened'[a] = opened[a] /\ votes'[a] = votes[a]
  BY <1>5 DEF ClearHistory, TypeOK
<1>6. CASE CancelRecovery
  BY <1>1, <1>5, <1>6 DEF CancelRecovery, TypeOK
<1>7. CASE ExecuteRecovery
  <2>1. address' \in Account
    BY <1>7, StepType DEF TypeOK
  <2> QED
    BY <1>1, <1>5, <1>7, <2>1 DEF ExecuteRecovery
<1>8. CASE \E o \in Account : InitiateRecovery(o)
  <2>1. PICK o \in Account : InitiateRecovery(o)
    BY <1>8
  <2>2. CASE a = address
    BY <1>3, <2>1, <2>2
  <2>3. CASE a # address
    BY <1>1, <2>1, <2>3 DEF InitiateRecovery, StartHistory, TypeOK
  <2> QED
    BY <2>2, <2>3
<1>9. CASE \E g \in Person : ApproveRecovery(g)
  <2>1. PICK g \in Person : ApproveRecovery(g)
    BY <1>9
  <2>2. CASE a = address
    BY <1>4, <2>1, <2>2
  <2>3. CASE a # address
    BY <1>1, <2>1, <2>3 DEF ApproveRecovery, VotesWith, TypeOK
  <2> QED
    BY <2>2, <2>3
<1>10. CASE \E b \in Account, c \in Configs : NewAccount(b, c)
  BY <1>1, <1>10 DEF NewAccount
<1>11. CASE \/ \E b \in Account : Load(b)
            \/ \E g \in Person : AddGuardian(g) \/ RemoveGuardian(g)
            \/ Tick
            \/ UNCHANGED vars
  BY <1>1, <1>11 DEF Load, AddGuardian, RemoveGuardian, Tick, vars, storage
<1> QED
  BY <1>6, <1>7, <1>8, <1>9, <1>10, <1>11 DEF Next

\* The invariant holds of every reachable state.
LEMMA Invariance == Spec => []RecoveryInv
<1>1. Init => RecoveryInv
  BY InitType, InitInv DEF RecoveryInv
<1>2. RecoveryInv /\ [Next]_vars => RecoveryInv'
  BY StepType, StepInv DEF RecoveryInv
<1> QED
  BY <1>1, <1>2, PTL DEF Spec

\* The approvals stored with a request are the votes of distinct guardians.
THEOREM ApprovalsAreGuardianVotes == Spec => []ApprovalsAreVotes
<1>1. RecoveryInv => ApprovalsAreVotes
  BY DEF RecoveryInv
<1> QED
  BY <1>1, Invariance, PTL

-----------------------------------------------------------------------------
(* Guardians *)

\* Taking out an element of a list without duplicates leaves none, and the
\* list is no longer than it was.
LEMMA WithoutShortens ==
    ASSUME NEW s \in Seq(Person), NEW x \in Elements(s), NoDuplicates(s)
    PROVE  /\ NoDuplicates(Without(s, x))
           /\ Len(Without(s, x)) =< Len(s)
<1> DEFINE i == CHOOSE j \in 1..Len(s) : s[j] = x
           t == [j \in 1..(Len(s) - 1) |-> IF j < i THEN s[j] ELSE s[j + 1]]
<1>1. i \in 1..Len(s)
  BY DEF Elements
<1>2. Len(s) \in Nat /\ Len(s) - 1 \in Nat
  BY <1>1
<1> HIDE DEF i
<1>3. Len(t) = Len(s) - 1
  <2>1. t \in Seq(Person)
    <3>1. \A j \in 1..(Len(s) - 1) : (IF j < i THEN s[j] ELSE s[j + 1]) \in Person
      BY <1>1, <1>2
    <3> QED
      BY <1>2, <3>1
  <2>2. DOMAIN t = 1..(Len(s) - 1)
    OBVIOUS
  <2> HIDE DEF t
  <2> QED
    BY <1>2, <2>1, <2>2
<1>4. NoDuplicates(t)
  <2> SUFFICES ASSUME NEW j \in 1..(Len(s) - 1), NEW k \in 1..(Len(s) - 1), t[j] = t[k]
               PROVE  j = k
    BY <1>3 DEF NoDuplicates
  <2> DEFINE at(n) == IF n < i THEN n ELSE n + 1
  <2>1. t[j] = s[at(j)] /\ t[k] = s[at(k)]
    OBVIOUS
  <2>2. at(j) \in 1..Len(s) /\ at(k) \in 1..Len(s)
    BY <1>1, <1>2
  <2>3. at(j) = at(k)
    BY <2>1, <2>2 DEF NoDuplicates
  <2> QED
    BY <1>1, <1>2, <2>3
<1>5. Without(s, x) = t
  BY DEF Without, i
<1> HIDE DEF t
<1> QED
  BY <1>2, <1>3, <1>4, <1>5

\* Every call keeps the guardian lists within the configuration.
LEMMA StepGuardians ==
    ASSUME TypeOK, GuardiansWithinLimit, [Next]_vars
    PROVE  GuardiansWithinLimit'
<1> USE DEF TypeOK
<1> SUFFICES ASSUME NEW a \in Account
             PROVE  /\ NoDuplicates(guardians'[a])
                    /\ guardians'[a] # <<>> =>
                          /\ config'[a] # None
                          /\ Len(guardians'[a]) =< config'[a].max_guardians
  BY DEF GuardiansWithinLimit
<1>1. CASE guardians'[a] = guardians[a] /\ config'[a] = config[a]
  BY <1>1 DEF GuardiansWithinLimit
<1>2. CASE \E b \in Account, c \in Configs : NewAccount(b, c)
  <2>1. PICK b \in Account, c \in Configs : NewAccount(b, c)
    BY <1>2
  <2>2. CASE a = b
    BY <2>1, <2>2 DEF NewAccount, NoDuplicates
  <2>3. CASE a # b
    BY <1>1, <2>1, <2>3 DEF NewAccount
  <2> QED
    BY <2>2, <2>3
<1>3. CASE \E g \in Person : AddGuardian(g)
  <2>1. PICK g \in Person : AddGuardian(g)
    BY <1>3
  <2>2. CASE a = address
    <3>1. /\ guardians'[a] = Append(guardians[a], g)
          /\ guardians[a] \in Seq(Person)
          /\ config'[a] = config[a] /\ config[a] # None
          /\ config[a].max_guardians \in Nat
          /\ g \notin Elements(guardians[a])
          /\ Len(guardians[a]) < config[a].max_guardians
      BY <2>1, <2>2, ConfigAssumption DEF AddGuardian, RecoveryConfigs
    <3>2. NoDuplicates(guardians'[a])
      BY <3>1, AppendFresh DEF GuardiansWithinLimit
    <3>3. Len(guardians'[a]) = Len(guardians[a]) + 1 /\ Len(guardians[a]) \in Nat
      BY <3>1
    <3> QED
      BY <3>1, <3>2, <3>3
  <2>3. CASE a # address
    BY <1>1, <2>1, <2>3 DEF AddGuardian
  <2> QED
    BY <2>2, <2>3
<1>4. CASE \E g \in Person : RemoveGuardian(g)
  <2>1. PICK g \in Person : RemoveGuardian(g)
    BY <1>4
  <2>2. CASE a = address
    <3>1. /\ guardians'[a] = Without(guardians[a], g)
          /\ guardians[a] \in Seq(Person)
          /\ config'[a] = config[a]
          /\ g \in Elements(guardians[a])
      BY <2>1, <2>2 DEF RemoveGuardian
    <3>2. guardians[a] # <<>> /\ NoDuplicates(guardians[a])
      BY <3>1 DEF Elements, GuardiansWithinLimit
    <3>3. /\ config[a] # None
          /\ Len(guardians[a]) =< config[a].max_guardians
          /\ config[a].max_guardians \in Nat
      BY <3>2, ConfigAssumption DEF GuardiansWithinLimit, RecoveryConfigs
    <3>4. /\ NoDuplicates(guardians'[a])
          /\ Len(guardians'[a]) =< Len(guardians[a])
      BY <3>1, <3>2, WithoutShortens
    <3>5. Len(guardians'[a]) \in Nat /\ Len(guardians[a]) \in Nat
      BY <3>1, WithoutType
    <3> QED
      BY <3>1, <3>3, <3>4, <3>5
  <2>3. CASE a # address
    BY <1>1, <2>1, <2>3 DEF RemoveGuardian
  <2> QED
    BY <2>2, <2>3
<1>5. CASE \/ \E b \in Account : Load(b)
           \/ \E o \in Account : InitiateRecovery(o)
           \/ \E g \in Person : ApproveRecovery(g)
           \/ CancelRecovery
           \/ ExecuteRecovery
           \/ Tick
           \/ UNCHANGED vars
  BY <1>1, <1>5 DEF Load, InitiateRecovery, ApproveRecovery, CancelRecovery,
                    ExecuteRecovery, Tick, vars, storage
<1> QED
  BY <1>2, <1>3, <1>4, <1>5 DEF Next

\* An account never has more guardians than its configuration allows, and none
\* twice, also after it is created anew with a lower maximum.
THEOREM GuardiansStayWithinLimit == Spec => []GuardiansWithinLimit
<1>1. Init => TypeOK /\ GuardiansWithinLimit
  BY InitType DEF Init, GuardiansWithinLimit, NoDuplicates
<1>2. TypeOK /\ GuardiansWithinLimit /\ [Next]_vars => (TypeOK /\ GuardiansWithinLimit)'
  BY StepType, StepGuardians
<1> QED
  BY <1>1, <1>2, PTL DEF Spec

-----------------------------------------------------------------------------
(* Takeovers *)

\* Only execute_recovery takes an account over.
LEMMA OnlyExecutionTakes ==
    ASSUME TypeOK, Next, taken' # None
    PROVE  ExecuteRecovery /\ taken' = address
  BY DEF Next, NewAccount, Load, AddGuardian, RemoveGuardian, InitiateRecovery,
         ApproveRecovery, CancelRecovery, ExecuteRecovery, Tick

\* No account is taken over with fewer guardian votes than its threshold.
THEOREM TakeoverNeedsQuorum == Spec => QuorumBacksExecution
<1>1. ASSUME RecoveryInv, Next, taken' # None
      PROVE  Cardinality(Voters(taken')) >= config[taken'].threshold
  <2>1. ExecuteRecovery /\ taken' = address
    BY <1>1, OnlyExecutionTakes DEF RecoveryInv
  <2>2. /\ address \in Account
        /\ request[address] # None
        /\ request[address] \in RecoveryRequests
        /\ Len(request[address].approvals) >= config[address].threshold
    BY <1>1, <2>1 DEF ExecuteRecovery, RecoveryInv, TypeOK
  <2>3. /\ request[address].approvals \in Seq(Person)
        /\ NoDuplicates(request[address].approvals)
        /\ Elements(request[address].approvals) = Voters(address)
    BY <1>1, <2>2 DEF RecoveryInv, ApprovalsAreVotes, RecoveryRequests
  <2>4. Cardinality(Voters(address)) = Len(request[address].approvals)
    BY <2>3, LengthIsCardinality
  <2> QED
    BY <2>1, <2>2, <2>4
<1>2. RecoveryInv /\ [Next]_vars =>
        [taken' # None =>
            Cardinality(Voters(taken')) >= config[taken'].threshold]_vars
  BY <1>1
<1> QED
  BY <1>2, Invariance, PTL DEF Spec, QuorumBacksExecution

\* No account is taken over before the timelock of its request has run.
THEOREM TakeoverRespectsTimelock == Spec => TimelockRespected
<1>1. ASSUME RecoveryInv, Next, taken' # None
      PROVE  now >= opened[taken'].at + opened[taken'].period
  <2>1. ExecuteRecovery /\ taken' = address
    BY <1>1, OnlyExecutionTakes DEF RecoveryInv
  <2> QED
    BY <1>1, <2>1 DEF ExecuteRecovery, RecoveryInv, DeadlineIsKept, TypeOK
<1>2. RecoveryInv /\ [Next]_vars =>
        [taken' # None => now >= opened[taken'].at + opened[taken'].period]_vars
  BY <1>1
<1> QED
  BY <1>2, Invariance, PTL DEF Spec, TimelockRespected
=============================================================================
