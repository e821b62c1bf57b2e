--------------------------- MODULE MCStorageWorld ---------------------------
(* Small instances of StorageWorld for TLC. *)
EXTENDS StorageWorld, TLC

Alike == Permutations(ComponentType) \cup Permutations(Bytes)
=============================================================================
