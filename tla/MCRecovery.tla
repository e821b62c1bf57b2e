----------------------------- MODULE MCRecovery -----------------------------
(* Recovery with two accounts, two people and short timelocks. *)
EXTENDS Recovery, TLC

\* One careful and one lax configuration; the lax one admits no second guardian.
CarefulConfig == [threshold |-> 2, timelock_period |-> 1, max_guardians |-> 2]

LaxConfig == [threshold |-> 1, timelock_period |-> 0, max_guardians |-> 1]

BothConfigs == {CarefulConfig, LaxConfig}

OneConfig == {CarefulConfig}

\* No step or property singles out an account or a person.
Peers == Permutations(Person) \cup Permutations(Account)
=============================================================================
