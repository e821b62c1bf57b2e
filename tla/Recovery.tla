------------------------------ MODULE Recovery ------------------------------
(***************************************************************************)
(* Social recovery of accounts: RecoverableAccount of                      *)
(* src/src/accounts/recovery.rs over the persistent entries that           *)
(* src/src/accounts/recovery_storage.rs keys by account address.           *)
(*                                                                         *)
(* A contract works on one account at a time through a RecoverableAccount  *)
(* value, which holds nothing but the address it was created or loaded     *)
(* with; the variable `address` is that value.  A call the code refuses    *)
(* changes nothing and is not a step.  The code leaves it to the contract  *)
(* to authenticate callers.                                                *)
(*                                                                         *)
(* RecoverableAccount::new may be called again on an account that exists.  *)
(***************************************************************************)
EXTENDS Integers, Sequences, FiniteSets

CONSTANTS
    Account,    \* addresses that are accounts or proposed owners
    Person,     \* addresses that may be guardians
    Configs,    \* the RecoveryConfig values contracts use
    U64Max,     \* largest u64: bound of timelock_until
    MaxTime,    \* bound of the ledger clock
    None        \* an absent storage entry

ASSUME TimeAssumption ==
    /\ U64Max \in Nat
    /\ MaxTime \in 0..U64Max

RecoveryConfigs ==
    [threshold : Nat, timelock_period : Nat, max_guardians : Nat]

ASSUME AccountAssumption == None \notin Account

ASSUME ConfigAssumption ==
    /\ Configs \subseteq RecoveryConfigs
    /\ \A c \in Configs : c # None

VARIABLES
    address,     \* the account the RecoverableAccount value stands for
    guardians,   \* guardians[a]: the stored guardian list
    config,      \* config[a]: the stored RecoveryConfig, or None
    request,     \* request[a]: the stored RecoveryRequest, or None
    now,         \* env.ledger().timestamp()
    opened,      \* history: when the stored request of an account was
                 \* initiated, and under which timelock_period
    votes,       \* history: who has approved that request as a guardian, and when
    taken        \* history: the account the last step took over, or None

storage == <<guardians, config, request>>

vars == <<address, storage, now, opened, votes, taken>>

\* `cancelled` is left out: no code sets it, a cancelled request is removed.
RecoveryRequests ==
    [new_owner      : Account,
     approvals      : Seq(Person),
     initiated_at   : 0..U64Max,
     timelock_until : 0..U64Max]

Openings == [at : 0..MaxTime, period : Nat]

Votes == [by : Person, at : 0..MaxTime]

Elements(s) == {s[i] : i \in 1..Len(s)}

NoDuplicates(s) == \A i, j \in 1..Len(s) : s[i] = s[j] => i = j

\* The list without x, which it holds once.
Without(s, x) ==
    LET i == CHOOSE i \in 1..Len(s) : s[i] = x
    IN  [j \in 1..(Len(s) - 1) |-> IF j < i THEN s[j] ELSE s[j + 1]]

Init ==
    /\ address \in Account
    /\ guardians = [a \in Account |-> <<>>]
    /\ config = [a \in Account |-> None]
    /\ request = [a \in Account |-> None]
    /\ now = 0
    /\ opened = [a \in Account |-> [at |-> 0, period |-> 0]]
    /\ votes = [a \in Account |-> {}]
    /\ taken = None

-----------------------------------------------------------------------------
(* The RecoverableAccount value *)

\* Faulty variant of the next definition: the guardian list is left alone.
NewAccountKeepsGuardians(a, c) ==
    /\ address' = a
    /\ config' = [config EXCEPT ![a] = c]
    /\ taken' = None
    /\ UNCHANGED <<guardians, request, now, opened, votes>>

NewAccount(a, c) ==
    /\ address' = a
    /\ config' = [config EXCEPT ![a] = c]
    /\ guardians' = [guardians EXCEPT ![a] = <<>>]
    /\ taken' = None
    /\ UNCHANGED <<request, now, opened, votes>>

Load(a) ==
    /\ address' = a
    /\ taken' = None
    /\ UNCHANGED <<storage, now, opened, votes>>

-----------------------------------------------------------------------------
(* Guardians *)

AddGuardian(guardian) ==
    /\ config[address] # None
    /\ Len(guardians[address]) < config[address].max_guardians
    /\ guardian \notin Elements(guardians[address])
    /\ guardians' = [guardians EXCEPT ![address] = Append(@, guardian)]
    /\ taken' = None
    /\ UNCHANGED <<address, config, request, now, opened, votes>>

RemoveGuardian(guardian) ==
    /\ guardian \in Elements(guardians[address])
    /\ guardians' = [guardians EXCEPT ![address] = Without(@, guardian)]
    /\ taken' = None
    /\ UNCHANGED <<address, config, request, now, opened, votes>>

-----------------------------------------------------------------------------
(* Requests *)

StartHistory ==
    /\ opened' = [opened EXCEPT ![address] =
                     [at |-> now, period |-> config[address].timelock_period]]
    /\ votes' = [votes EXCEPT ![address] = {}]

ClearHistory(a) ==
    /\ opened' = [opened EXCEPT ![a] = [at |-> 0, period |-> 0]]
    /\ votes' = [votes EXCEPT ![a] = {}]

\* Faulty variant of the next definition: the period is taken for a time.
NewRequestPeriodOnly(new_owner) ==
    [new_owner |-> new_owner, approvals |-> <<>>, initiated_at |-> now,
     timelock_until |-> config[address].timelock_period]

NewRequest(new_owner) ==
    [new_owner |-> new_owner, approvals |-> <<>>, initiated_at |-> now,
     timelock_until |-> now + config[address].timelock_period]

\* Faulty variant of InitiateRecovery: the addition may pass u64.
InitiateRecoveryUnchecked(new_owner) ==
    /\ request[address] = None
    /\ config[address] # None
    /\ request' = [request EXCEPT ![address] = NewRequest(new_owner)]
    /\ StartHistory
    /\ taken' = None
    /\ UNCHANGED <<address, guardians, config, now>>

InitiateRecovery(new_owner) ==
    /\ request[address] = None
    /\ config[address] # None
    /\ now + config[address].timelock_period =< U64Max   \* else it panics
    /\ request' = [request EXCEPT ![address] = NewRequest(new_owner)]
    /\ StartHistory
    /\ taken' = None
    /\ UNCHANGED <<address, guardians, config, now>>

\* A vote exists when a guardian gives it, whatever the code stores.
VotesWith(guardian) ==
    IF guardian \in Elements(guardians[address])
    THEN [votes EXCEPT ![address] = @ \cup {[by |-> guardian, at |-> now]}]
    ELSE votes

\* Faulty variant of the next definition: a second approval counts again.
ApproveRecoveryTwice(guardian) ==
    /\ request[address] # None
    /\ guardian \in Elements(guardians[address])
    /\ Len(request[address].approvals) < Cardinality(Person)
    /\ request' = [request EXCEPT ![address].approvals = Append(@, guardian)]
    /\ votes' = VotesWith(guardian)
    /\ taken' = None
    /\ UNCHANGED <<address, guardians, config, now, opened>>

\* Faulty variant of the next definition: anyone may approve.
ApproveRecoveryAnyone(guardian) ==
    /\ request[address] # None
    /\ guardian \notin Elements(request[address].approvals)
    /\ request' = [request EXCEPT ![address].approvals = Append(@, guardian)]
    /\ votes' = VotesWith(guardian)
    /\ taken' = None
    /\ UNCHANGED <<address, guardians, config, now, opened>>

ApproveRecovery(guardian) ==
    /\ request[address] # None
    /\ guardian \in Elements(guardians[address])
    /\ guardian \notin Elements(request[address].approvals)
    /\ request' = [request EXCEPT ![address].approvals = Append(@, guardian)]
    /\ votes' = VotesWith(guardian)
    /\ taken' = None
    /\ UNCHANGED <<address, guardians, config, now, opened>>

CancelRecovery ==
    /\ request[address] # None
    /\ request' = [request EXCEPT ![address] = None]
    /\ ClearHistory(address)
    /\ taken' = None
    /\ UNCHANGED <<address, guardians, config, now>>

\* The value moves to the new owner first; the request removed is then the
\* one stored for the new owner, not the one just executed.
ExecuteRecovery ==
    /\ request[address] # None
    /\ config[address] # None
    /\ Len(request[address].approvals) >= config[address].threshold
    /\ now >= request[address].timelock_until
    /\ address' = request[address].new_owner
    /\ request' = [request EXCEPT ![address'] = None]
    /\ ClearHistory(address')
    /\ taken' = address
    /\ UNCHANGED <<guardians, config, now>>

Tick ==
    /\ now < MaxTime
    /\ now' = now + 1
    /\ taken' = None
    /\ UNCHANGED <<address, storage, opened, votes>>

-----------------------------------------------------------------------------

Next ==
    \/ \E a \in Account, c \in Configs : NewAccount(a, c)
    \/ \E a \in Account : Load(a)
    \/ \E g \in Person : AddGuardian(g)
    \/ \E g \in Person : RemoveGuardian(g)
    \/ \E o \in Account : InitiateRecovery(o)
    \/ \E g \in Person : ApproveRecovery(g)
    \/ CancelRecovery
    \/ ExecuteRecovery
    \/ Tick

Spec == Init /\ [][Next]_vars

-----------------------------------------------------------------------------
(* Properties *)

TypeOK ==
    /\ address \in Account
    /\ guardians \in [Account -> Seq(Person)]
    /\ config \in [Account -> Configs \cup {None}]
    /\ request \in [Account -> RecoveryRequests \cup {None}]
    /\ now \in 0..MaxTime
    /\ opened \in [Account -> Openings]
    /\ votes \in [Account -> SUBSET Votes]
    /\ taken \in Account \cup {None}

Voters(a) == {v.by : v \in votes[a]}

\* The approvals a request counts are votes of distinct people, each of whom
\* was a guardian when approving and approved after the request was initiated:
\* execute_recovery may compare their number with the threshold.
ApprovalsAreVotes ==
    \A a \in Account : request[a] # None =>
        /\ NoDuplicates(request[a].approvals)
        /\ Elements(request[a].approvals) = Voters(a)

\* An account never has more guardians than its configuration allows, and none
\* of them twice, also after the account is created anew with a lower maximum.
GuardiansWithinLimit ==
    \A a \in Account :
        /\ NoDuplicates(guardians[a])
        /\ guardians[a] # <<>> =>
              /\ config[a] # None
              /\ Len(guardians[a]) =< config[a].max_guardians

\* Whoever takes an account over has as many votes as the threshold asks for.
QuorumBacksExecution ==
    [][taken' # None =>
          Cardinality(Voters(taken')) >= config[taken'].threshold]_vars

\* No account is taken over before the timelock that its configuration asked
\* for when the request was initiated has run, whatever it asks for by then.
TimelockRespected ==
    [][taken' # None =>
          now >= opened[taken'].at + opened[taken'].period]_vars

-----------------------------------------------------------------------------
(* A statement of the repository that the code does not meet *)

\* recovery.rs:102, active_request "Returns the active recovery request": a
\* recovery that was executed is no longer active.
ExecutionEndsRequest == taken # None => request[taken] = None
=============================================================================
