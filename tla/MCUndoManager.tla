--------------------------- MODULE MCUndoManager ---------------------------
(* Instances of UndoManager for TLC: one letter and one blank, put in one   *)
(* at a time or taken out.                                                  *)
EXTENDS UndoManager

CONSTANTS a, sp

MCWords  == {a}
MCBlanks == {sp}
MCPieces == {<<>>, <<a>>, <<sp>>}
=============================================================================
