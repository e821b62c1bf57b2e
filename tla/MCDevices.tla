----------------------------- MODULE MCDevices ------------------------------
(* Devices with three key ids, and policies that differ in both fields. *)
EXTENDS Devices, TLC

CONSTANTS d0, d1, d2, l0, l1, p0, p1

SomePolicies ==
    {[max_devices |-> 1, auto_revoke_after |-> 2],
     [max_devices |-> 2, auto_revoke_after |-> 1]}

Alike == Permutations(KeyId) \cup Permutations(Label) \cup Permutations(PublicKey)
=============================================================================
