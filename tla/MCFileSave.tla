----------------------------- MODULE MCFileSave -----------------------------
(* Instances of FileSave for TLC: two text filters, a binary filter and two *)
(* encodings of which the text fits one.                                    *)
EXTENDS FileSave

CONSTANTS t1, t2, b1, latin1, utf8
=============================================================================
