---------------------------- MODULE UndoHistory ----------------------------
(***************************************************************************)
(* What undo promises, without records, selections or merging: a document  *)
(* has a line of past and future states and a position in it.  Finishing a *)
(* group of changes forgets the future and adds one state; undo and redo   *)
(* only move the position, and what is shown is always the state there.    *)
(***************************************************************************)
EXTENDS Naturals, Sequences

CONSTANT Texts  \* the contents a document can have

VARIABLES states,  \* the states the user can reach with undo and redo
          cur,     \* the position in them
          shown    \* the text in the editor while no command is running

vars == <<states, cur, shown>>

Init == shown \in Texts /\ states = <<shown>> /\ cur = 1

(* The first change of a group gives up what could have been redone. *)
ForgetFuture ==
  /\ cur < Len(states)
  /\ states' = SubSeq(states, 1, cur)
  /\ UNCHANGED <<cur, shown>>

Commit ==
  /\ cur = Len(states)
  /\ shown' \in Texts
  /\ states' = Append(states, shown')
  /\ cur' = cur + 1

Move(n) ==
  /\ n # cur
  /\ cur' = n
  /\ shown' = states[n]
  /\ UNCHANGED states

Next == \/ ForgetFuture
        \/ Commit
        \/ \E n \in 1..Len(states) : Move(n)

Spec == Init /\ [][Next]_vars
=============================================================================
