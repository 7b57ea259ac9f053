--------------------------- MODULE MCOakDocument ---------------------------
(* Instances of OakDocument for TLC: the user writes one line, other        *)
(* programs another, and the file starts with the second.                   *)
EXTENDS OakDocument

CONSTANTS myLine, theirLine

MCMyLines    == {myLine}
MCTheirLines == {theirLine}
MCFirstText  == {theirLine}
=============================================================================
