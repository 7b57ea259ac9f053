---------------------------- MODULE LoadRequest ----------------------------
(* What OakDocument takes file::open for (OakDocument.mm:793): the bytes of  *)
(* the file are obtained or they are not, and then the load is answered      *)
(* once, with a text only if there are bytes and no filter has failed.       *)
VARIABLES bytes, failed, answer

Init == bytes \in BOOLEAN /\ ~failed /\ answer = "none"

Obtain == answer = "none" /\ ~bytes /\ bytes' = TRUE /\ UNCHANGED <<failed, answer>>
Show   == answer = "none" /\ bytes /\ ~failed /\ answer' = "content"
          /\ UNCHANGED <<bytes, failed>>
Fail   == answer = "none" /\ answer' = "error" /\ failed' \in {failed, TRUE} /\ UNCHANGED bytes

Spec == Init /\ [][Obtain \/ Show \/ Fail]_<<bytes, failed, answer>>
=============================================================================
