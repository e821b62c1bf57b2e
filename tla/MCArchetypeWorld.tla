-------------------------- MODULE MCArchetypeWorld --------------------------
(* A small instance of ArchetypeWorld for TLC. *)
EXTENDS ArchetypeWorld

CONSTANTS pos, vel   \* two component types

\* pos comes before vel, as Symbol compares them.
MCOrder == <<pos, vel>>
=============================================================================
