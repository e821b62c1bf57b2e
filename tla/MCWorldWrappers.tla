-------------------------- MODULE MCWorldWrappers --------------------------
(* Small instances of WorldWrappers for TLC. *)
EXTENDS WorldWrappers, TLC

Alike == Permutations(Bytes) \cup Permutations(ComponentType)
=============================================================================
