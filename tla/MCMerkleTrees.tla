--------------------------- MODULE MCMerkleTrees ----------------------------
(* Sixteen slots; four keys, of which two share one and two are neighbours. *)
EXTENDS MerkleTrees, TLC

CONSTANT v

SomeKeys == {<<0, 0, 0>>, <<1, 0, 0>>, <<0, 3, 0>>, <<0, 3, 1>>}

\* Zero is a value like another, also for the hash that pads with it.
SomeData == {v, Zero}
=============================================================================
