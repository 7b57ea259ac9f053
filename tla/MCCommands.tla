----------------------------- MODULE MCCommands -----------------------------
(* Instances of Commands for TLC: one bundle item the user may run twice,   *)
(* and two runs of it under way.                                           *)
EXTENDS Commands

CONSTANTS c1, c2, r1, r2
=============================================================================
