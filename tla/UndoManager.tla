---------------------------- MODULE UndoManager ----------------------------
(***************************************************************************)
(* ng::undo_manager_t (Frameworks/undo) on top of the text and revision    *)
(* counters of ng::buffer_t (Frameworks/buffer), as OakTextView and        *)
(* OakDocument drive them.  Each replacement in the buffer becomes a       *)
(* record; the records made between the outermost begin_undo_group and its *)
(* end form a group.  undo () and redo () loop over records, one buffer    *)
(* replacement per iteration, until they reach the edge of a group that is *)
(* not merged with its neighbour: an iteration is a step here, and nothing *)
(* else can run until the loop has ended.                                  *)
(***************************************************************************)
EXTENDS Integers, Sequences

CONSTANTS
  Words,         \* characters that are not white space
  Blanks,        \* white space: find_first_of(" \n\t")
  Ranges,        \* the non-empty ng::ranges_t values a selection can have
  NoRanges,      \* the empty ng::ranges_t
  Pieces,        \* the strings one replacement can put in
  CommandLists,  \* may several commands share one group (a key binding that
                 \* is an array of selectors, OakTextView.mm:2034)?
  MaxText,       \* bound: characters in the buffer
  MaxRecords,    \* bound: records kept
  MaxRevision,   \* bound: revisions given out
  MaxNesting     \* bound: groups open inside each other

ASSUME UndoAssumption ==
  /\ NoRanges \notin Ranges
  /\ Words \cap Blanks = {}
  /\ Pieces \subseteq Seq(Words \cup Blanks)
  /\ CommandLists \in BOOLEAN
  /\ {MaxText, MaxRecords, MaxRevision, MaxNesting} \subseteq Nat

VARIABLES
  text, revision, nextRevision,    \* buffer_t: _storage, _revision, _next_revision
  records, index,                  \* undo_manager_t: _records, _index
  nesting, changes,                \* _nesting_count, _changes
  preSelection, preRevision,       \* _pre_selection, _pre_revision
  phase,                           \* which loop is running, if any
  command,                         \* what the open group has been used for
  savedRevision, savedText,        \* OakDocument: _savedRevision, and what it stood for
  states                           \* history: the text before and after each record

bufferVars  == <<text, revision, nextRevision>>
recordVars  == <<records, index, states>>
groupVars   == <<nesting, changes, preSelection, preRevision, command>>
savedVars   == <<savedRevision, savedText>>
vars == <<text, revision, nextRevision, records, index, nesting, changes,
          preSelection, preRevision, phase, command, savedRevision, savedText,
          states>>

Chars == Words \cup Blanks
Text  == Seq(Chars)

-----------------------------------------------------------------------------
(* The buffer. *)

(* Characters from+1 .. to of t replaced by s. *)
Splice(t, from, to, s) ==
  SubSeq(t, 1, from) \o s \o SubSeq(t, to + 1, Len(t))

(* buffer_t::replace cuts off what the old and the new text have in common  *)
(* at either end before the callbacks run, so a replacement that reaches    *)
(* the undo manager differs from what it replaces in its first and last     *)
(* character.                                                               *)
Shrunk(t, from, to, s) ==
  from < to /\ s # <<>> => t[from + 1] # s[1] /\ t[to] # s[Len(s)]

-----------------------------------------------------------------------------
(* Merging: two neighbouring groups are undone as one when both only insert *)
(* or only erase, and both only white space or only other characters.       *)

IsInsert(r) == r.before = <<>> /\ r.after # <<>>
IsErase(r)  == r.before # <<>> /\ r.after = <<>>
Touched(r)  == IF IsInsert(r) THEN r.after ELSE r.before
AllBlank(r) == \A i \in DOMAIN Touched(r) : Touched(r)[i] \in Blanks
NoBlank(r)  == \A i \in DOMAIN Touched(r) : Touched(r)[i] \notin Blanks

ShouldMerge(r, t) ==
  /\ IsInsert(r) = IsInsert(t)
  /\ IsErase(r) = IsErase(t)
  /\ AllBlank(r) \/ NoBlank(r)
  /\ AllBlank(r) = AllBlank(t)
  /\ NoBlank(r) = NoBlank(t)

-----------------------------------------------------------------------------
(* A document that has just been loaded: didLoadContent creates the undo    *)
(* manager after the content is in the buffer and then bumps the revision.  *)
Init ==
  /\ text = <<>> /\ revision = 1 /\ nextRevision = 2
  /\ records = <<>> /\ index = 0
  /\ nesting = 0 /\ changes = 0
  /\ preSelection = NoRanges /\ preRevision = 0
  /\ phase = "idle" /\ command = "none"
  /\ savedRevision = 1 /\ savedText = <<>>
  /\ states = << <<>> >>

BeginUndoGroup(ranges) ==
  /\ phase = "idle"
  /\ nesting < MaxNesting
  /\ nesting' = nesting + 1
  /\ IF nesting = 0
     THEN /\ preSelection' = ranges
          /\ preRevision' = revision
          /\ changes' = 0
          /\ command' = "none"
     ELSE UNCHANGED <<preSelection, preRevision, changes, command>>
  /\ UNCHANGED <<bufferVars, recordVars, phase, savedVars>>

(* Slips the properties must notice, here and below: each stands in for the *)
(* definition after it.                                                     *)
ClosedWithOldRevision(r, ranges) ==   \* bump_revision called a line too late
  [r EXCEPT !.postSelection = ranges, !.postRevision = revision]

ClosedWithoutSelection(r, ranges) ==  \* post_selection not filled in
  [r EXCEPT !.postRevision = nextRevision]

Closed(r, ranges) ==
  [r EXCEPT !.postSelection = ranges, !.postRevision = nextRevision]

EndUnopenedGroup(ranges) ==  \* an end without a begin
  /\ phase = "idle" /\ nesting = 0 /\ changes = 0
  /\ nesting' = nesting - 1
  /\ UNCHANGED <<bufferVars, recordVars, changes, preSelection, preRevision,
                 phase, command, savedVars>>

(* `force` is never passed in the program and is left out. *)
EndUndoGroup(ranges) ==
  /\ phase = "idle"
  /\ nesting > 0
  /\ nesting' = nesting - 1
  /\ IF nesting = 1 /\ changes # 0
     THEN /\ records' = [records EXCEPT ![index] = Closed(@, ranges)]
          /\ revision' = nextRevision
          /\ nextRevision' = nextRevision + 1
          /\ changes' = 0
     ELSE UNCHANGED <<records, revision, nextRevision, changes>>
  /\ UNCHANGED <<text, index, states, preSelection, preRevision, phase, command,
                 savedVars>>

RecordWithoutErased(from, to, s) ==  \* substr (from, from)
  [pos |-> from, before |-> <<>>, after |-> s,
   preSelection |-> preSelection, preRevision |-> preRevision,
   postSelection |-> NoRanges, postRevision |-> 0]

(* buffer_t::actual_replace with the undo manager's will_replace callback.  *)
(* post_selection is empty and post_revision not yet written (0 stands for  *)
(* its indeterminate value) until the group ends.                           *)
Record(from, to, s) ==
  [pos |-> from, before |-> SubSeq(text, from + 1, to), after |-> s,
   preSelection |-> preSelection, preRevision |-> preRevision,
   postSelection |-> NoRanges, postRevision |-> 0]

ReplaceKeepsFuture(from, to, s) ==  \* will_replace without its erase
  /\ phase = "idle" /\ nesting > 0
  /\ CommandLists \/ command # "history"
  /\ from <= to /\ to <= Len(text)
  /\ Shrunk(text, from, to, s)
  /\ Len(Splice(text, from, to, s)) <= MaxText
  /\ Len(records) < MaxRecords /\ nextRevision <= MaxRevision
  /\ text' = Splice(text, from, to, s)
  /\ records' = Append(records, Record(from, to, s))
  /\ states' = Append(states, Splice(text, from, to, s))
  /\ index' = index + 1
  /\ preSelection' = NoRanges
  /\ changes' = changes + 1
  /\ command' = "edit"
  /\ UNCHANGED <<revision, nextRevision, nesting, preRevision, phase, savedVars>>

Replace(from, to, s) ==
  /\ phase = "idle"
  /\ nesting > 0
  /\ CommandLists \/ command # "history"
  /\ from <= to /\ to <= Len(text)
  /\ Shrunk(text, from, to, s)
  /\ Len(Splice(text, from, to, s)) <= MaxText
  /\ index < MaxRecords /\ nextRevision <= MaxRevision
  /\ text' = Splice(text, from, to, s)
  /\ records' = Append(SubSeq(records, 1, index), Record(from, to, s))
  /\ states' = Append(SubSeq(states, 1, index + 1), Splice(text, from, to, s))
  /\ index' = index + 1
  /\ preSelection' = NoRanges
  /\ changes' = changes + 1
  /\ command' = "edit"
  /\ UNCHANGED <<revision, nextRevision, nesting, preRevision, phase, savedVars>>

CanUndo == index # 0
CanAlwaysRedo == TRUE  \* redo: without its can_redo () check
CanRedo == index # Len(records)

(* OakTextView's undo: and redo: open a group of their own (AUTO_REFRESH)   *)
(* and check that there is something to undo before they call the manager.  *)
MayRunHistoryCommand ==
  /\ phase = "idle"
  /\ nesting > 0
  /\ CommandLists \/ command = "none"

Undo ==
  /\ MayRunHistoryCommand
  /\ CanUndo
  /\ phase' = "undoing"
  /\ command' = "history"
  /\ UNCHANGED <<bufferVars, recordVars, nesting, changes, preSelection,
                 preRevision, savedVars>>

Redo ==
  /\ MayRunHistoryCommand
  /\ CanRedo
  /\ phase' = "redoing"
  /\ command' = "history"
  /\ UNCHANGED <<bufferVars, recordVars, nesting, changes, preSelection,
                 preRevision, savedVars>>

LoopEndsAtOnce(done, rev) ==  \* one record per undo or redo
  /\ phase' = "idle" /\ revision' = rev /\ changes' = 0
  /\ UNCHANGED <<nextRevision, records, states, nesting, preSelection,
                 preRevision, command, savedVars>>

LoopDropsFuture(done, rev) ==  \* the records after the position erased at the end
  /\ phase' = IF done THEN "idle" ELSE phase
  /\ revision' = IF done THEN rev ELSE revision
  /\ changes' = IF done THEN 0 ELSE changes
  /\ records' = IF done THEN SubSeq(records, 1, index') ELSE records
  /\ states' = IF done THEN SubSeq(states, 1, index' + 1) ELSE states
  /\ UNCHANGED <<nextRevision, nesting, preSelection, preRevision, command, savedVars>>

(* The end of either loop when done, with the revision of the last record. *)
LoopEnds(done, rev) ==
  /\ phase' = IF done THEN "idle" ELSE phase
  /\ revision' = IF done THEN rev ELSE revision
  /\ changes' = IF done THEN 0 ELSE changes
  /\ UNCHANGED <<nextRevision, records, states, nesting, preSelection,
                 preRevision, command, savedVars>>

UndoMergesAt(i) ==
  /\ i > 1 /\ i # Len(records)
  /\ records[i].preSelection = records[i - 1].postSelection
  /\ ShouldMerge(records[i], records[i - 1])

UndoIteration ==
  /\ phase = "undoing"
  /\ index > 0
  /\ LET r == records[index] IN
     /\ text' = Splice(text, r.pos, r.pos + Len(r.after), r.before)
     /\ index' = index - 1
     /\ LoopEnds(r.preSelection # NoRanges /\ ~UndoMergesAt(index), r.preRevision)

RedoMergesAt(i) ==
  /\ i < Len(records)
  /\ records[i].postSelection = records[i + 1].preSelection
  /\ ShouldMerge(records[i], records[i + 1])

RedoIteration ==
  /\ phase = "redoing"
  /\ index < Len(records)
  /\ LET r == records[index + 1] IN
     /\ text' = Splice(text, r.pos, r.pos + Len(r.before), r.after)
     /\ index' = index + 1
     /\ LoopEnds(r.postSelection # NoRanges /\ ~RedoMergesAt(index + 1),
                 r.postRevision)

(* OakDocument's markDocumentSaved, while no group is open. *)
MarkSaved ==
  /\ phase = "idle" /\ nesting = 0
  /\ savedRevision # revision
  /\ savedRevision' = revision
  /\ savedText' = text
  /\ UNCHANGED <<bufferVars, recordVars, groupVars, phase>>

Next ==
  \/ \E ranges \in Ranges : BeginUndoGroup(ranges) \/ EndUndoGroup(ranges)
  \/ \E from, to \in 0..Len(text) : \E s \in Pieces : Replace(from, to, s)
  \/ Undo \/ Redo \/ UndoIteration \/ RedoIteration
  \/ MarkSaved

Spec == Init /\ [][Next]_vars

(* The loops are ordinary code on the main thread: once entered they run on. *)
FairSpec == Spec /\ WF_vars(UndoIteration) /\ WF_vars(RedoIteration)
-----------------------------------------------------------------------------
(* Properties. *)

RecordType ==
  [pos : Nat, before : Text, after : Text,
   preSelection : Ranges \cup {NoRanges}, preRevision : Nat,
   postSelection : Ranges \cup {NoRanges}, postRevision : Nat]

(* The types of the state, with the index inside the records. *)
TypeOK ==
  /\ text \in Text /\ savedText \in Text
  /\ revision \in Nat /\ nextRevision \in Nat /\ savedRevision \in Nat
  /\ records \in Seq(RecordType)
  /\ states \in Seq(Text)
  /\ index \in 0..Len(records)
  /\ nesting \in Nat /\ changes \in Nat
  /\ preSelection \in Ranges \cup {NoRanges} /\ preRevision \in Nat
  /\ phase \in {"idle", "undoing", "redoing"}
  /\ command \in {"none", "edit", "history"}

(* Undo and redo put back exactly the text there was: at every moment, in   *)
(* the middle of a loop too, the buffer holds the text that was there when  *)
(* the position in the records was first reached.                           *)
UndoRestoresText ==
  /\ Len(states) = Len(records) + 1
  /\ text = states[index + 1]

AtRest == phase = "idle" /\ changes = 0

(* isDocumentEdited compares revisions only (OakDocument.mm:1141), and undo *)
(* puts old revisions back: whenever no group is open and the revision is   *)
(* the saved one, the text is the saved one, whatever was undone, redone,   *)
(* saved and edited in between.                                             *)
SavedRevisionMeansSavedText ==
  phase = "idle" /\ nesting = 0 /\ revision = savedRevision => text = savedText

(* ASSERT(_index != 0) and ASSERT(_index != _records.size ()) in the loops  *)
(* of undo () and redo (), undo.cc:65 and undo.cc:89: a loop that is still  *)
(* running has a record to take.  Without assertions it would read outside  *)
(* the vector, so the model has no step there.                              *)
LoopsStayInRecords ==
  /\ phase = "undoing" => index > 0
  /\ phase = "redoing" => index < Len(records)

(* set_revision asserts that a revision put back was given out before       *)
(* (buffer.h:168), so a later bump_revision cannot repeat it.               *)
RevisionsAreOld == revision < nextRevision /\ savedRevision < nextRevision

(* The position after i records is the edge of a group. *)
Boundary(i) == i = 0 \/ records[i].postSelection # NoRanges

(* Undo and redo never leave half a group: whenever nothing is running the  *)
(* position is the edge of a group.                                         *)
RestsAtGroupEdge == AtRest => Boundary(index)

(* Undo and redo change no record, so what was undone can be redone: only a *)
(* new replacement drops records, and only those after the position.        *)
OnlyEditsDropRecords ==
  [][ /\ phase # "idle" => records' = records
      /\ Len(records') < Len(records) =>
            changes' = changes + 1 /\ Len(records') = index + 1 ]_vars

(* An undo or redo command ends: the loops terminate. *)
LoopsEnd == phase \in {"undoing", "redoing"} ~> phase = "idle"

-----------------------------------------------------------------------------
(* The refinement mapping to UndoHistory: its states are those at the edges *)
(* of groups; while a command runs it still shows the last of them.         *)

(* The states at the edges of groups up to position n, in order. *)
EdgeStates[n \in 0..Len(records)] ==
  IF n = 0 THEN <<states[1]>>
  ELSE IF Boundary(n) THEN Append(EdgeStates[n - 1], states[n + 1]) ELSE EdgeStates[n - 1]

Reached == EdgeStates[Len(records)]
Position == Len(EdgeStates[index])
Shown == IF phase = "idle" /\ nesting = 0 THEN text ELSE Reached[Position]

History == INSTANCE UndoHistory WITH
  Texts <- Text, states <- Reached, cur <- Position, shown <- Shown

(* Groups of changes, merged undo and redo over them and the truncation of  *)
(* the redo records together are a linear history of whole groups.          *)
ImplementsHistory == History!Spec
=============================================================================
