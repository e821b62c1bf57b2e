--------------------------- MODULE MCSimpleWorld ---------------------------
(* Small instances of SimpleWorld for TLC. *)
EXTENDS SimpleWorld, TLC

CONSTANTS tag, pos   \* two component types

\* tag lives in the sparse map, every other type in the table map.
MCStorage == [t \in ComponentType |-> IF t = tag THEN Sparse ELSE Table]

Data == Permutations(Bytes)
=============================================================================
