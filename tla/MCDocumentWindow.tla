-------------------------- MODULE MCDocumentWindow --------------------------
(* Instances of DocumentWindow for TLC: two windows, a document with a path  *)
(* and untitled ones.                                                      *)
EXTENDS DocumentWindow

CONSTANTS d1, u1, u2, w1, w2, j1, j2
=============================================================================
