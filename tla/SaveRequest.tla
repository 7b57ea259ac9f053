---------------------------- MODULE SaveRequest ----------------------------
(* What OakDocument takes file::save for (OakDocument.mm:983): the file is   *)
(* written or it is not, then the save is answered once, and a success means *)
(* that it was written.                                                      *)
VARIABLES written, answer

Init == ~written /\ answer = "none"

Write   == answer = "none" /\ ~written /\ written' = TRUE /\ UNCHANGED answer
Succeed == answer = "none" /\ written /\ answer' = "success" /\ UNCHANGED written
Fail    == answer = "none" /\ answer' = "failure" /\ UNCHANGED written

Spec == Init /\ [][Write \/ Succeed \/ Fail]_<<written, answer>>
=============================================================================
