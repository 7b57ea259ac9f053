----------------------------- MODULE MCFileOpen -----------------------------
(* Instances of FileOpen for TLC: a binary filter, two text filters and     *)
(* three encodings, one of them with a byte order mark.                     *)
EXTENDS FileOpen

CONSTANTS t1, t2, b1, ascii, utf8, latin1
=============================================================================
