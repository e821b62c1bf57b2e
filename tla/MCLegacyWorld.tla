--------------------------- MODULE MCLegacyWorld ----------------------------
(* The legacy World with two ids, two component types and two values. *)
EXTENDS LegacyWorld, TLC

CONSTANTS pos, tag, b1, b2
=============================================================================
