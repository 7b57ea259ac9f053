--------------------------- MODULE FileOpenProofs ---------------------------
(***************************************************************************)
(* Theorems about FileOpen, for every set of filters, encodings and bytes, *)
(* every way the commands of filters may end and every bound.  The         *)
(* inductive invariants are:                                               *)
(*   TypeOK          the types;                                            *)
(*   PipesOK         the processes of the filters (ProcessProofs);         *)
(*   OneFilter       a process runs only for the filter that holds the     *)
(*                   load;                                                 *)
(*   HeldUntilDone   whoever holds the load may still answer it, and it    *)
(*                   has bytes from the read on;                           *)
(*   AnsweredAtEnd   the load is answered when nobody holds it any more;   *)
(*   PreparedSoFar   what has been done to the text in each state.         *)
(***************************************************************************)
EXTENDS FileOpen, ProcessProofs, SequenceTheorems

Items == Filters \cup Charsets \cup {"lf", "truncated"}

(* The filters whose command has been started and has not been handled.     *)
Pending == {f \in Filters : proc[f].child # "none"}

OneFilter ==
  /\ holder # "filter" => Pending = {}
  /\ holder = "filter" =>
       \E f \in ran : /\ Pending = {f}
                     /\ \/ state = "binary filters" /\ f \in BinaryFilters
                        \/ state = "text filters" /\ f \in TextFilters

AnsweredAtEnd ==
  /\ answers = <<>> <=> holder # "nobody"
  /\ answers # <<>> => Len(answers) = 1 /\ (answers[1].shown => state = "done")

HeldUntilDone ==
  /\ holder # "nobody" => error = "none" /\ state # "done"
  /\ state \in {"start", "authorize", "load"} => holder \in {"loop", "nobody"}
  /\ holder \in {"reader", "reply"} => state = "binary filters"
  /\ holder = "charset" => state = "decode"
  /\ state \in {"authorize", "load"} \/ holder = "reader" => bytes = Null
  /\ state \in States \ {"start", "authorize", "load", "binary filters"} \/ holder = "filter"
       => bytes # Null

InOrder(s) ==
  \A i, j \in 1..Len(s) : i < j => s[i] # s[j] /\ Stage(s[i]) <= Stage(s[j])

PreparedSoFar ==
  /\ InOrder(content)
  /\ holder \in {"reader", "reply"} => ran = {}
  /\ state \in {"start", "authorize", "load"} => content = <<>> /\ ran = {}
  /\ state \in {"binary filters", "estimate encoding", "select encoding", "decode",
                "estimate line feeds", "harmonize"} => ran \subseteq BinaryFilters
  /\ state \in {"estimate line feeds", "harmonize", "text filters", "show", "done"} =>
       Encoding \in Charsets
  /\ state \in {"show", "done"} => TextFilters \subseteq ran
  /\ holder # "nobody" \/ state = "done" =>
       /\ state \in {"binary filters", "estimate encoding", "select encoding", "decode"} =>
            Done(content) = ran \ Pending
       /\ state \in {"estimate line feeds", "harmonize"} => Done(content) = ran \cup {Encoding}
       /\ state \in {"text filters", "show", "done"} =>
            Done(content) = (ran \ Pending) \cup {Encoding, "lf"}
-----------------------------------------------------------------------------
(* The types. *)
AnswerType == [shown : BOOLEAN, error : {"none", "filter"}]

ControlType == state \in States /\ holder \in Holders /\ answers \in Seq(AnswerType)

DataType ==
  /\ asks \in BOOLEAN /\ bytes \in Bytes \cup {Null}
  /\ content \in Seq(Items)
  /\ charset \in Charsets \cup {Unknown, NoCharset}
  /\ guess \in 1..Len(Guesses) /\ ran \subseteq Filters
  /\ error \in {"none", "filter"}
  /\ file \in {"readable", "locked", "gone", "unreadable"}
  /\ asked \in 0..MaxAnswers /\ changes \in 0..MaxChanges

LEMMA TypeParts == /\ TypeOK <=> ProcessTypeOK /\ ControlType /\ DataType
                   /\ TypeOK' <=> ProcessTypeOK' /\ ControlType' /\ DataType'
BY DEF TypeOK, ControlType, DataType, AnswerType, Items

LEMMA DestroyedType ==
  ASSUME ControlType, NEW e \in {"none", "filter"}, Destroyed(e)
  PROVE  ControlType'
<1>1. [shown |-> FALSE, error |-> e] \in AnswerType
  BY DEF AnswerType
<1>2. answers' \in Seq(AnswerType)
  BY <1>1, AppendProperties DEF ControlType, Destroyed
<1> QED BY <1>2 DEF Destroyed, ControlType, Holders

LEMMA ProceedType ==
  ASSUME ControlType, NEW s \in States, Proceed(s)
  PROVE  ControlType'
BY DEF Proceed, ControlType, Holders

LEMMA BytesOf == /\ Empty \in Bytes /\ Text \in Bytes
                 /\ \A b \in Bytes : b # Null /\ b.bom \in Charsets \cup {NoCharset}
                                   /\ b.fits \subseteq Charsets
<1>1. Empty \in Bytes /\ Text \in Bytes
  BY OpenAssumption DEF Bytes, Empty, Text
<1>2. ASSUME NEW b \in Bytes
      PROVE  b # Null /\ b.bom \in Charsets \cup {NoCharset} /\ b.fits \subseteq Charsets
  <2>1. b.bom \in Charsets \cup {NoCharset} /\ b.fits \subseteq Charsets
    BY OpenAssumption DEF Bytes
  <2>2. Null.bom = Unknown /\ Unknown \notin Charsets \cup {NoCharset}
    BY OpenAssumption DEF Null
  <2> QED BY <2>1, <2>2
<1> QED BY <1>1, <1>2

LEMMA InitType == Init => TypeOK
<1> SUFFICES ASSUME Init PROVE ProcessTypeOK /\ ControlType /\ DataType
  BY TypeParts
<1>1. content \in Seq(Items) /\ answers \in Seq(AnswerType)
  BY EmptySeq DEF Init
<1>2. asked \in 0..MaxAnswers /\ changes \in 0..MaxChanges
  BY OpenAssumption DEF Init
<1>3. asks \in BOOLEAN /\ bytes \in Bytes \cup {Null} /\ charset = NoCharset /\ ran = {}
  BY DEF Init
<1>4. file \in {"readable", "locked", "gone", "unreadable"} /\ error = "none"
  BY DEF Init
<1>5. guess \in 1..Len(Guesses)
  BY DEF Init, Guesses
<1>6. state \in States /\ holder \in Holders
  BY DEF Init, States, Holders
<1>7. ProcessTypeOK
  BY ProcessInitType DEF Init
<1> QED BY <1>1, <1>2, <1>3, <1>4, <1>5, <1>6, <1>7 DEF ControlType, DataType

LEMMA RunFilterType ==
  ASSUME ProcessTypeOK, ControlType, NEW f \in Filters, RunFilter(f)
  PROVE  ProcessTypeOK' /\ ControlType'
<1>1. proc' \in [Runs -> Processes]
  BY LaunchType, OpenAssumption DEF RunFilter
<1> QED BY <1>1 DEF RunFilter, ProcessTypeOK, ControlType, Holders

LEMMA GuessType == ASSUME DataType PROVE Guess(Guesses[guess]) \subseteq Charsets \cup {Unknown, NoCharset}
<1>1. bytes.bom # NoCharset => bytes.bom \in Charsets \cup {Unknown}
  BY BytesOf DEF DataType, Null
<1> QED BY <1>1, OpenAssumption DEF Guess, DataType

LEMMA LoopType ==
  ASSUME TypeOK,
         Start \/ Authorize \/ LoadContent \/ BinaryFilter \/ EstimateEncoding \/ SelectEncoding
           \/ DecodeContent \/ HarmonizeLineFeeds \/ TextFilter \/ ShowContent
  PROVE  TypeOK'
<1> USE TypeParts
<1>0. ProcessTypeOK /\ ControlType /\ DataType
  OBVIOUS
<1>a. procVars' = procVars => ProcessTypeOK'
  BY <1>0 DEF procVars, ProcessTypeOK
<1>1. CASE Start
  <2>1. ControlType'
    BY <1>0, <1>1, ProceedType DEF Start, States
  <2> QED BY <1>0, <1>1, <1>a, <2>1 DEF Start, outside, DataType
<1>2. CASE Authorize
  <2>1. ControlType'
    BY <1>0, <1>2, ProceedType, DestroyedType DEF Authorize, States, DataType
  <2> QED BY <1>0, <1>2, <1>a, <2>1 DEF Authorize, outside, DataType
<1>3. CASE LoadContent
  BY <1>0, <1>3, <1>a DEF LoadContent, outside, ControlType, DataType, States, Holders
<1>4. CASE BinaryFilter
  <2>1. ProcessTypeOK' /\ ControlType'
    BY <1>0, <1>4, <1>a, RunFilterType, ProceedType, DestroyedType
       DEF BinaryFilter, States, DataType, Filters
  <2>2. ran' \subseteq Filters
    <3>1. ran' = ran \/ \E f \in BinaryFilters : ran' = ran \cup {f}
      BY <1>4 DEF BinaryFilter, RunFilter
    <3> QED BY <1>0, <3>1 DEF DataType, Filters
  <2> QED BY <1>0, <1>4, <2>1, <2>2 DEF BinaryFilter, outside, DataType
<1>5. CASE EstimateEncoding
  <2>1. ControlType'
    BY <1>0, <1>5, ProceedType DEF EstimateEncoding, States
  <2>2. charset' \in Charsets \cup {Unknown, NoCharset}
    BY <1>0, <1>5, GuessType DEF EstimateEncoding
  <2>3. guess' \in 1..Len(Guesses)
    <3>1. Len(Guesses) = 6
      BY DEF Guesses
    <3>2. guess' = guess \/ (guess < Len(Guesses) /\ guess' = guess + 1)
      BY <1>5 DEF EstimateEncoding
    <3> QED BY <1>0, <3>1, <3>2 DEF DataType
  <2> QED BY <1>0, <1>5, <1>a, <2>1, <2>2, <2>3 DEF EstimateEncoding, outside, DataType
<1>6. CASE SelectEncoding
  <2>1. ControlType'
    BY <1>0, <1>6, DestroyedType DEF SelectEncoding, States, Holders, ControlType, DataType
  <2> QED BY <1>0, <1>6, <1>a, <2>1 DEF SelectEncoding, outside, DataType
<1>7. CASE DecodeContent
  <2>1. ControlType'
    BY <1>0, <1>7, ProceedType DEF DecodeContent, States
  <2>2. content' \in Seq(Items) /\ bytes' \in Bytes \cup {Null}
    <3>1. Encoding \in bytes.fits => Encoding \in Items
      BY <1>0, BytesOf DEF DataType, Items, Null
    <3>2. Encoding \in bytes.fits => Append(content, Encoding) \in Seq(Items)
      BY <1>0, <3>1, AppendProperties DEF DataType
    <3> QED BY <1>0, <1>7, <3>2, BytesOf DEF DecodeContent, DataType
  <2> QED BY <1>0, <1>7, <1>a, <2>1, <2>2 DEF DecodeContent, outside, DataType
<1>8. CASE HarmonizeLineFeeds
  <2>1. ControlType'
    BY <1>0, <1>8, ProceedType DEF HarmonizeLineFeeds, LineFeeds, States
  <2>2. content' \in Seq(Items)
    <3>1. content \in Seq(Items) /\ "lf" \in Items
      BY <1>0 DEF DataType, Items
    <3>2. Append(content, "lf") \in Seq(Items)
      BY <3>1, AppendProperties
    <3> QED BY <1>8, <3>1, <3>2 DEF HarmonizeLineFeeds, LineFeeds
  <2> QED BY <1>0, <1>8, <1>a, <2>1, <2>2 DEF HarmonizeLineFeeds, outside, DataType
<1>9. CASE TextFilter
  <2>1. ProcessTypeOK' /\ ControlType'
    BY <1>0, <1>9, <1>a, RunFilterType, ProceedType DEF TextFilter, States, Filters
  <2>2. ran' \subseteq Filters
    <3>1. ran' = ran \/ \E f \in TextFilters : ran' = ran \cup {f}
      BY <1>9 DEF TextFilter, RunFilter
    <3> QED BY <1>0, <3>1 DEF DataType, Filters
  <2> QED BY <1>0, <1>9, <2>1, <2>2 DEF TextFilter, outside, DataType
<1>10. CASE ShowContent
  <2>1. [shown |-> TRUE, error |-> error] \in AnswerType
    BY <1>0 DEF AnswerType, DataType
  <2>2. answers' \in Seq(AnswerType)
    BY <1>0, <1>10, <2>1, AppendProperties DEF ShowContent, ControlType
  <2> QED BY <1>0, <1>10, <1>a, <2>2 DEF ShowContent, ControlType, DataType, outside, Holders, States
<1> QED BY <1>1, <1>2, <1>3, <1>4, <1>5, <1>6, <1>7, <1>8, <1>9, <1>10

LEMMA HoldersType ==
  ASSUME TypeOK,
         \/ ReadFile \/ Reply \/ ChooseEncoding \/ Cancel \/ OutsideChange \/ Command
         \/ \E f \in Filters : FilterEnds(f)
  PROVE  TypeOK'
<1> USE TypeParts
<1>0. ProcessTypeOK /\ ControlType /\ DataType
  OBVIOUS
<1>a. procVars' = procVars => ProcessTypeOK'
  BY <1>0 DEF procVars, ProcessTypeOK
<1>1. CASE ReadFile
  BY <1>0, <1>1, <1>a, BytesOf DEF ReadFile, outside, ControlType, DataType, Holders
<1>2. CASE Reply
  <2>1. ControlType'
    BY <1>0, <1>2, ProceedType DEF Reply, ControlType
  <2> QED BY <1>0, <1>2, <1>a, <2>1 DEF Reply, outside, DataType
<1>3. CASE ChooseEncoding
  <2>1. ControlType'
    BY <1>0, <1>3, ProceedType DEF ChooseEncoding, ControlType
  <2>2. asked' \in 0..MaxAnswers
    BY <1>0, <1>3, OpenAssumption DEF ChooseEncoding, DataType
  <2> QED BY <1>0, <1>3, <1>a, <2>1, <2>2 DEF ChooseEncoding, outside, DataType
<1>4. CASE Cancel
  <2>1. ControlType'
    BY <1>0, <1>4, DestroyedType DEF Cancel, DataType
  <2> QED BY <1>0, <1>4, <1>a, <2>1 DEF Cancel, outside, DataType
<1>5. CASE OutsideChange
  BY <1>0, <1>5, <1>a, OpenAssumption DEF OutsideChange, ControlType, DataType
<1>6. CASE Command
  <2>1. ProcessTypeOK'
    BY <1>0, <1>6, ProcessStepType, OpenAssumption DEF Command
  <2> QED BY <1>0, <1>6, <2>1 DEF Command, outside, ControlType, DataType
<1>7. ASSUME NEW f \in Filters, FilterEnds(f) PROVE TypeOK'
  <2>1. ProcessTypeOK'
    <3>1. proc' \in [Runs -> Processes]
      BY <1>0, <1>7, IdleType, OpenAssumption DEF FilterEnds
    <3> QED BY <1>0, <1>7, <3>1 DEF FilterEnds, Completes, ProcessTypeOK
  <2>2. ControlType'
    BY <1>0, <1>7, ProceedType, DestroyedType DEF FilterEnds, ControlType, DataType
  <2>3. content' \in Seq(Items)
    <3>1. content \in Seq(Items) /\ f \in Items /\ "truncated" \in Items
      BY <1>0 DEF DataType, Items
    <3>2. Append(content, f) \in Seq(Items) /\ Append(content, "truncated") \in Seq(Items)
      BY <3>1, AppendProperties
    <3> QED BY <1>7, <3>1, <3>2 DEF FilterEnds
  <2>4. bytes' \in Bytes \cup {Null}
    BY <1>0, <1>7 DEF FilterEnds, DataType
  <2>5. error' \in {"none", "filter"}
    BY <1>0, <1>7 DEF FilterEnds, DataType
  <2> QED BY <1>0, <1>7, <2>1, <2>2, <2>3, <2>4, <2>5 DEF FilterEnds, outside, DataType
<1> QED BY <1>1, <1>2, <1>3, <1>4, <1>5, <1>6, <1>7

LEMMA NextType == TypeOK /\ [Next]_vars => TypeOK'
<1> SUFFICES ASSUME TypeOK, [Next]_vars PROVE TypeOK'
  OBVIOUS
<1>1. CASE UNCHANGED vars
  BY <1>1 DEF vars, TypeOK, ProcessTypeOK
<1> QED BY <1>1, LoopType, HoldersType DEF Next, Machine

(* The types of the state hold in every reachable state. *)
THEOREM TypeCorrect == Spec => []TypeOK
BY InitType, NextType, PTL DEF Spec

-----------------------------------------------------------------------------
(* The processes of the filters. *)
LEMMA LaunchPending ==
  ASSUME TypeOK, PipesOK, Pending = {}, NEW f \in Filters, RunFilter(f)
  PROVE  PipesOK' /\ Pending' = {f}
<1>1. f \in Runs /\ proc \in [Runs -> Processes] /\ ProcessTypeOK /\ Runs = Filters
  BY OpenAssumption DEF TypeOK, ProcessTypeOK
<1>2. Launch(f) /\ posted' = posted /\ proc[f].child = "none"
  BY DEF RunFilter, Pending
<1>3. PipesOK'
  BY <1>1, <1>2, LaunchPipes
<1>4. proc' = [proc EXCEPT ![f] = Started] /\ Started.child = "running"
  BY <1>2, IdleFields DEF Launch
<1>5. Pending' = {f}
  BY <1>1, <1>4 DEF Pending
<1> QED BY <1>3, <1>5

LEMMA CommandPending ==
  ASSUME TypeOK, PipesOK, Command
  PROVE  PipesOK' /\ Pending' = Pending
<1>1. PICK f \in Filters : ProcessStep(f)
  BY DEF Command
<1>2. f \in Runs /\ ProcessTypeOK /\ Runs = Filters
  BY OpenAssumption DEF TypeOK
<1>3. PipesOK' /\ proc[f].child # "none" /\ proc'[f].child # "none"
      /\ \A q \in Filters \ {f} : proc'[q] = proc[q]
  BY <1>1, <1>2, ProcessStepPipes, StepOfRun
<1> QED BY <1>3 DEF Pending

LEMMA EndsPending ==
  ASSUME TypeOK, PipesOK, OneFilter, NEW f \in Filters, FilterEnds(f)
  PROVE  /\ PipesOK' /\ Pending' = {} /\ holder = "filter" /\ Pending = {f} /\ f \in ran
         /\ \/ state = "binary filters" /\ f \in BinaryFilters
            \/ state = "text filters" /\ f \in TextFilters
         /\ proc[f].got["out"] = proc[f].wrote["out"]
<1>1. /\ f \in Runs /\ proc \in [Runs -> Processes] /\ ProcessTypeOK /\ Runs = Filters
      /\ Completes(f) /\ proc' = [proc EXCEPT ![f] = Idle]
  BY OpenAssumption DEF TypeOK, ProcessTypeOK, FilterEnds
<1>2. PipesOK' /\ proc[f].child = "reported" /\ proc[f].got["out"] = proc[f].wrote["out"]
  BY <1>1, CompletesPipes, EndOfRun, ProcessAssumption
<1>3. f \in Pending
  BY <1>2 DEF Pending
<1>4. /\ holder = "filter" /\ Pending = {f} /\ f \in ran
      /\ \/ state = "binary filters" /\ f \in BinaryFilters
         \/ state = "text filters" /\ f \in TextFilters
  BY <1>3 DEF OneFilter
<1>5. Pending' = {}
  BY <1>1, <1>4, IdleFields DEF Pending
<1> QED BY <1>2, <1>4, <1>5

LEMMA InitFilter == Init => PipesOK /\ OneFilter
<1> SUFFICES ASSUME Init PROVE PipesOK /\ OneFilter
  OBVIOUS
<1>1. PipesOK /\ \A f \in Filters : proc[f].child = "none"
  BY ProcessInitPipes, IdleFields, OpenAssumption DEF Init, ProcessInit
<1> QED BY <1>1 DEF Init, OneFilter, Pending

(* A filter runs while it holds the load, and no other does. *)
LEMMA FilterStep ==
  ASSUME TypeOK, PipesOK, OneFilter, [Next]_vars
  PROVE  PipesOK' /\ OneFilter'
<1>1. CASE \E f \in BinaryFilters : At("binary filters") /\ RunFilter(f)
  <2>1. PICK f \in BinaryFilters : At("binary filters") /\ RunFilter(f)
    BY <1>1
  <2>2. Pending = {} /\ f \in Filters
    BY <2>1 DEF At, OneFilter, Filters
  <2>3. PipesOK' /\ Pending' = {f}
    BY <2>1, <2>2, LaunchPending
  <2> QED BY <2>1, <2>3 DEF At, RunFilter, OneFilter
<1>2. CASE \E f \in TextFilters : At("text filters") /\ RunFilter(f)
  <2>1. PICK f \in TextFilters : At("text filters") /\ RunFilter(f)
    BY <1>2
  <2>2. Pending = {} /\ f \in Filters
    BY <2>1 DEF At, OneFilter, Filters
  <2>3. PipesOK' /\ Pending' = {f}
    BY <2>1, <2>2, LaunchPending
  <2> QED BY <2>1, <2>3 DEF At, RunFilter, OneFilter
<1>3. CASE Command
  <2>1. holder' = holder /\ state' = state /\ ran' = ran
    BY <1>3 DEF Command
  <2> QED BY <1>3, <2>1, CommandPending DEF OneFilter
<1>4. ASSUME NEW f \in Filters, FilterEnds(f) PROVE PipesOK' /\ OneFilter'
  <2>1. holder' # "filter"
    BY <1>4 DEF FilterEnds, Proceed, Destroyed
  <2> QED BY <1>4, <2>1, EndsPending DEF OneFilter
<1>5. ASSUME procVars' = procVars,
             \/ holder # "filter" /\ holder' # "filter"
             \/ holder' = holder /\ state' = state /\ ran' = ran
      PROVE  PipesOK' /\ OneFilter'
  <2>1. PipesOK' /\ Pending' = Pending
    BY <1>5 DEF procVars, PipesOK, Piped, Pending
  <2> QED BY <1>5, <2>1 DEF OneFilter
<1>6. \/ \E f \in BinaryFilters : At("binary filters") /\ RunFilter(f)
      \/ \E f \in TextFilters : At("text filters") /\ RunFilter(f)
      \/ Command
      \/ \E f \in Filters : FilterEnds(f)
      \/ /\ procVars' = procVars
         /\ \/ holder # "filter" /\ holder' # "filter"
            \/ holder' = holder /\ state' = state /\ ran' = ran
  BY DEF Next, Machine, Start, Authorize, LoadContent, BinaryFilter, EstimateEncoding,
         SelectEncoding, DecodeContent, HarmonizeLineFeeds, LineFeeds, TextFilter, ShowContent,
         ReadFile, Reply, ChooseEncoding, Cancel, OutsideChange, At, Proceed, Destroyed, vars,
         procVars
<1> QED BY <1>1, <1>2, <1>3, <1>4, <1>5, <1>6

-----------------------------------------------------------------------------
(* How a load is answered. *)
LEMMA InitHeld == Init => HeldUntilDone /\ AnsweredAtEnd
BY DEF Init, HeldUntilDone, AnsweredAtEnd, States

(* Whoever holds the load has its bytes, from the read on. *)
LEMMA HeldStep ==
  ASSUME TypeOK, PipesOK, OneFilter, HeldUntilDone, [Next]_vars
  PROVE  HeldUntilDone'
<1>1. CASE Start
  BY <1>1 DEF Start, At, Proceed, HeldUntilDone, States
<1>2. CASE Authorize
  BY <1>2 DEF Authorize, At, Proceed, Destroyed, HeldUntilDone, States
<1>3. CASE LoadContent
  BY <1>3 DEF LoadContent, At, HeldUntilDone, States
<1>4. CASE BinaryFilter
  BY <1>4 DEF BinaryFilter, RunFilter, At, Proceed, Destroyed, HeldUntilDone, States
<1>5. CASE EstimateEncoding
  <2>1. /\ holder = "loop" /\ holder' = "loop" /\ state = "estimate encoding"
        /\ state' \in {"decode", "select encoding"} /\ bytes' = bytes /\ error' = error
    BY <1>5 DEF EstimateEncoding, At, Proceed
  <2> QED BY <2>1 DEF HeldUntilDone, States
<1>6. CASE SelectEncoding
  BY <1>6 DEF SelectEncoding, At, Destroyed, HeldUntilDone, States
<1>7. CASE DecodeContent
  <2>1. /\ holder = "loop" /\ holder' = "loop" /\ state = "decode" /\ error' = error
        /\ state' \in {"estimate line feeds", "estimate encoding"} /\ bytes' \in {bytes, Text}
    BY <1>7 DEF DecodeContent, At, Proceed
  <2> QED BY <2>1, BytesOf DEF HeldUntilDone, States
<1>8. CASE HarmonizeLineFeeds
  <2>1. /\ holder = "loop" /\ holder' = "loop" /\ bytes' = bytes /\ error' = error
        /\ state \in {"estimate line feeds", "harmonize"} /\ state' \in {"harmonize", "text filters"}
    BY <1>8 DEF HarmonizeLineFeeds, LineFeeds, At, Proceed
  <2> QED BY <2>1 DEF HeldUntilDone, States
<1>9. CASE TextFilter
  <2>1. /\ holder = "loop" /\ holder' \in {"loop", "filter"} /\ bytes' = bytes /\ error' = error
        /\ state = "text filters" /\ state' \in {"text filters", "show"}
    BY <1>9 DEF TextFilter, RunFilter, At, Proceed
  <2> QED BY <2>1 DEF HeldUntilDone, States
<1>10. CASE ShowContent
  BY <1>10 DEF ShowContent, At, HeldUntilDone, States
<1>11. CASE ReadFile
  <2>1. holder = "reader" /\ holder' = "reply" /\ state' = state /\ error' = error
    BY <1>11 DEF ReadFile
  <2> QED BY <2>1 DEF HeldUntilDone, States
<1>12. CASE Reply \/ ChooseEncoding \/ Cancel
  BY <1>12 DEF Reply, ChooseEncoding, Cancel, Proceed, Destroyed, HeldUntilDone, States
<1>13. ASSUME NEW f \in Filters, FilterEnds(f) PROVE HeldUntilDone'
  <2>1. holder = "filter" /\ state \in {"binary filters", "text filters"}
    BY <1>13, EndsPending
  <2>2. state' = state /\ bytes' \in Bytes \cup {bytes}
    BY <1>13 DEF FilterEnds, Proceed, Destroyed
  <2>3. holder' = "nobody" \/ (holder' = "loop" /\ error' = error)
    BY <1>13 DEF FilterEnds, Proceed, Destroyed
  <2> QED BY <2>1, <2>2, <2>3, BytesOf DEF HeldUntilDone, States
<1>14. CASE OutsideChange \/ Command \/ UNCHANGED vars
  BY <1>14 DEF OutsideChange, Command, vars, HeldUntilDone
<1> QED BY <1>1, <1>2, <1>3, <1>4, <1>5, <1>6, <1>7, <1>8, <1>9, <1>10, <1>11, <1>12, <1>13,
           <1>14 DEF Next, Machine

LEMMA FirstAnswer ==
  ASSUME NEW a
  PROVE  /\ Append(<<>>, a) # <<>> /\ Len(Append(<<>>, a)) = 1
         /\ Append(<<>>, a)[1] = a
OBVIOUS

(* A step leaves the answers alone, or it is the one that answers: that the  *)
(* load failed, or with the text.                                            *)
LeavesAnswers ==
  /\ answers' = answers /\ error' = error
  /\ holder' = "nobody" <=> holder = "nobody"
  /\ state' = "done" <=> state = "done"

GivesAnswer(a) ==
  /\ holder # "nobody" /\ holder' = "nobody"
  /\ answers' = Append(answers, a) /\ bytes' = bytes /\ error' \in {error, "filter"}
  /\ a.shown => state' = "done" /\ bytes # Null /\ error' = "none"

LEMMA OneAnswer ==
  ASSUME TypeOK, PipesOK, OneFilter, HeldUntilDone, [Next]_vars
  PROVE  LeavesAnswers \/ \E a : GivesAnswer(a)
<1>1. ASSUME NEW e, Destroyed(e), holder # "nobody", bytes' = bytes, error' \in {error, "filter"}
      PROVE  \E a : GivesAnswer(a)
  <2> DEFINE a == [shown |-> FALSE, error |-> e]
  <2>1. answers' = Append(answers, a) /\ ~a.shown /\ holder' = "nobody"
    BY <1>1 DEF Destroyed
  <2> HIDE DEF a
  <2> QED BY <1>1, <2>1 DEF GivesAnswer
<1>2. ASSUME NEW s, Proceed(s), s # "done", holder # "nobody", state # "done", error' = error
      PROVE  LeavesAnswers
  BY <1>2 DEF Proceed, LeavesAnswers
<1>3. CASE ShowContent
  <2> DEFINE a == [shown |-> TRUE, error |-> error]
  <2>1. /\ answers' = Append(answers, a) /\ state' = "done" /\ holder = "loop"
        /\ holder' = "nobody" /\ state = "show" /\ bytes' = bytes /\ error' = error
    BY <1>3 DEF ShowContent, At
  <2>2. bytes # Null /\ error = "none"
    BY <2>1 DEF HeldUntilDone, States
  <2> HIDE DEF a
  <2> QED BY <2>1, <2>2 DEF GivesAnswer
<1>4. CASE Start \/ EstimateEncoding \/ HarmonizeLineFeeds \/ DecodeContent
  <2>1. holder = "loop" /\ state # "done" /\ error' = error
    BY <1>4 DEF Start, EstimateEncoding, HarmonizeLineFeeds, LineFeeds, DecodeContent, At
  <2>2. \E s : s # "done" /\ Proceed(s)
    BY <1>4 DEF Start, EstimateEncoding, HarmonizeLineFeeds, LineFeeds, DecodeContent
  <2> QED BY <1>2, <2>1, <2>2
<1>5. CASE Authorize \/ SelectEncoding \/ BinaryFilter \/ TextFilter
  <2>1. holder = "loop" /\ state # "done" /\ error' = error /\ bytes' = bytes
    BY <1>5 DEF Authorize, SelectEncoding, BinaryFilter, TextFilter, At
  <2>2. \/ \E s : s # "done" /\ Proceed(s)
        \/ Destroyed(error)
        \/ holder' = "charset" /\ state' = "decode" /\ answers' = answers
        \/ holder' = "filter" /\ state' = state /\ answers' = answers
    BY <1>5 DEF Authorize, SelectEncoding, BinaryFilter, TextFilter, RunFilter
  <2>3. CASE \E s : s # "done" /\ Proceed(s)
    BY <1>2, <2>1, <2>3
  <2>4. CASE Destroyed(error)
    BY <1>1, <2>1, <2>4
  <2> QED BY <2>1, <2>2, <2>3, <2>4 DEF LeavesAnswers
<1>6. CASE Cancel
  BY <1>1, <1>6 DEF Cancel
<1>7. CASE Reply \/ ChooseEncoding
  <2>1. holder # "nobody" /\ error' = error /\ Proceed(state)
    BY <1>7 DEF Reply, ChooseEncoding
  <2> QED BY <1>2, <2>1 DEF HeldUntilDone
<1>8. ASSUME NEW f \in Filters, FilterEnds(f)
      PROVE  LeavesAnswers \/ \E a : GivesAnswer(a)
  <2>1. holder = "filter" /\ state # "done"
    BY <1>8, EndsPending
  <2>2. \/ Proceed(state) /\ error' = error
        \/ \E e : Destroyed(e) /\ bytes' = bytes /\ error' \in {error, "filter"}
    BY <1>8 DEF FilterEnds
  <2> QED BY <1>1, <1>2, <2>1, <2>2
<1>9. CASE LoadContent \/ ReadFile \/ OutsideChange \/ Command \/ UNCHANGED vars
  BY <1>9 DEF LoadContent, ReadFile, OutsideChange, Command, vars, At, LeavesAnswers
<1> QED BY <1>3, <1>4, <1>5, <1>6, <1>7, <1>8, <1>9 DEF Next, Machine

(* There are bytes until the end once there are any. *)
LEMMA BytesStay ==
  ASSUME TypeOK, PipesOK, OneFilter, HeldUntilDone, [Next]_vars
  PROVE  bytes' = bytes \/ (holder # "nobody" /\ (bytes # Null => bytes' # Null))
<1>1. CASE ReadFile
  BY <1>1 DEF ReadFile, HeldUntilDone
<1>2. CASE DecodeContent
  BY <1>2, BytesOf DEF DecodeContent, At
<1>3. ASSUME NEW f \in Filters, FilterEnds(f)
      PROVE  holder # "nobody" /\ (bytes # Null => bytes' # Null)
  <2>1. holder = "filter" /\ bytes' \in Bytes \cup {bytes}
    BY <1>3, EndsPending DEF FilterEnds
  <2> QED BY <2>1, BytesOf
<1>4. \/ ReadFile \/ DecodeContent \/ \E f \in Filters : FilterEnds(f)
      \/ bytes' = bytes
  BY DEF Next, Machine, Start, Authorize, LoadContent, BinaryFilter, EstimateEncoding,
         SelectEncoding, HarmonizeLineFeeds, TextFilter, ShowContent, Reply, ChooseEncoding,
         Cancel, OutsideChange, Command, vars
<1> QED BY <1>1, <1>2, <1>3, <1>4

LEMMA AnsweredStep ==
  ASSUME TypeOK, PipesOK, OneFilter, HeldUntilDone, AnsweredAtEnd, [Next]_vars
  PROVE  AnsweredAtEnd'
<1>1. CASE LeavesAnswers
  BY <1>1 DEF LeavesAnswers, AnsweredAtEnd
<1>2. ASSUME NEW a, GivesAnswer(a) PROVE AnsweredAtEnd'
  BY <1>2, FirstAnswer DEF GivesAnswer, AnsweredAtEnd
<1> QED BY <1>1, <1>2, OneAnswer

(* The steps of a load are steps of the request, or none. *)
LEMMA RequestInit == Init => Request!Init
BY DEF Init, Request!Init, Answer

LEMMA RequestStep ==
  ASSUME TypeOK, PipesOK, OneFilter, HeldUntilDone, AnsweredAtEnd, [Next]_vars
  PROVE  [Request!Obtain \/ Request!Show \/ Request!Fail]_<<bytes # Null, error # "none", Answer>>
<1>1. CASE LeavesAnswers
  <2>1. Answer' = Answer /\ error' = error
    BY <1>1 DEF Answer, LeavesAnswers
  <2>2. holder # "nobody" => Answer = "none"
    BY DEF AnsweredAtEnd, Answer
  <2> QED BY <2>1, <2>2, BytesStay DEF Request!Obtain
<1>2. ASSUME NEW a, GivesAnswer(a)
      PROVE  Request!Show \/ Request!Fail
  <2>1. Answer = "none" /\ answers = <<>>
    BY <1>2 DEF GivesAnswer, AnsweredAtEnd, Answer
  <2>2. Answer' = IF a.shown THEN "content" ELSE "error"
    BY <1>2, <2>1, FirstAnswer DEF Answer, GivesAnswer
  <2>3. error = "none" /\ bytes' = bytes /\ error' \in {error, "filter"}
    BY <1>2 DEF GivesAnswer, HeldUntilDone
  <2>4. CASE a.shown
    BY <1>2, <2>1, <2>2, <2>3, <2>4 DEF Request!Show, GivesAnswer
  <2>5. CASE ~a.shown
    BY <2>1, <2>2, <2>3, <2>5 DEF Request!Fail
  <2> QED BY <2>4, <2>5
<1> QED BY <1>1, <1>2, OneAnswer

(* A load implements the request: it is answered at most once, with a text   *)
(* only if one was read and no filter failed, however the commands of the    *)
(* filters and other programs behave (open.cc:37-41, 445-450).               *)
THEOREM LoadImplementsRequest == Spec => ImplementsLoad
<1> DEFINE IInv == PipesOK /\ OneFilter /\ HeldUntilDone /\ AnsweredAtEnd
<1>1. TypeOK /\ IInv /\ [Next]_vars => IInv'
  BY FilterStep, HeldStep, AnsweredStep
<1>2. TypeOK /\ IInv /\ [Next]_vars
        => [Request!Obtain \/ Request!Show \/ Request!Fail]_<<bytes # Null, error # "none", Answer>>
  BY RequestStep
<1>3. Init => IInv
  BY InitFilter, InitHeld
<1> HIDE DEF IInv
<1> QED BY <1>1, <1>2, <1>3, RequestInit, TypeCorrect, PTL DEF Spec, ImplementsLoad, Request!Spec

-----------------------------------------------------------------------------
(* How the text is prepared. *)

(* What was appended is done, and is in order if its stage is not over.      *)
LEMMA ItemAppend ==
  ASSUME NEW s \in Seq(Items), NEW x \in Items
  PROVE  /\ Done(Append(s, x)) = Done(s) \cup {x}
         /\ InOrder(s) /\ x \notin Done(s) /\ (\A y \in Done(s) : Stage(y) <= Stage(x))
              => InOrder(Append(s, x))
<1>1. /\ Len(Append(s, x)) = Len(s) + 1 /\ Len(s) \in Nat
      /\ \A i \in 1..Len(s) : Append(s, x)[i] = s[i]
      /\ Append(s, x)[Len(s) + 1] = x
  BY AppendProperties
<1>2. Done(Append(s, x)) = Done(s) \cup {x}
  BY <1>1 DEF Done
<1>3. ASSUME InOrder(s), x \notin Done(s), \A y \in Done(s) : Stage(y) <= Stage(x)
      PROVE  InOrder(Append(s, x))
  <2>1. \A i \in 1..Len(s) : s[i] # x /\ Stage(s[i]) <= Stage(x)
    BY <1>3 DEF Done
  <2> QED BY <1>1, <1>3, <2>1 DEF InOrder
<1> QED BY <1>2, <1>3

LEMMA Stages ==
  /\ \A x \in BinaryFilters : Stage(x) = 1
  /\ \A x \in Charsets : Stage(x) = 2
  /\ Stage("lf") = 3
  /\ \A x \in TextFilters : Stage(x) = 4
BY OpenAssumption DEF Stage, Filters

LEMMA StagesFollow ==
  /\ \A x \in BinaryFilters, y \in BinaryFilters \cup Charsets : Stage(x) <= Stage(y)
  /\ \A x \in BinaryFilters \cup Charsets : Stage(x) <= Stage("lf")
  /\ \A x \in Filters \cup Charsets \cup {"lf"}, y \in TextFilters : Stage(x) <= Stage(y)
<1>1. ASSUME NEW x \in BinaryFilters, NEW y \in BinaryFilters \cup Charsets
      PROVE  Stage(x) <= Stage(y)
  <2>1. Stage(x) = 1 /\ Stage(y) \in {1, 2}
    BY Stages
  <2> QED BY <2>1
<1>2. ASSUME NEW x \in BinaryFilters \cup Charsets
      PROVE  Stage(x) <= Stage("lf")
  <2>1. Stage(x) \in {1, 2} /\ Stage("lf") = 3
    BY Stages
  <2> QED BY <2>1
<1>3. ASSUME NEW x \in Filters \cup Charsets \cup {"lf"}, NEW y \in TextFilters
      PROVE  Stage(x) <= Stage(y)
  <2>1. Stage(x) \in {1, 2, 3, 4}
    <3>1. CASE x = "lf"
      BY <3>1, Stages
    <3>2. CASE x \in Filters \cup Charsets
      BY <3>2, Stages DEF Filters
    <3> QED BY <3>1, <3>2
  <2>2. Stage(y) = 4
    BY Stages
  <2> QED BY <2>1, <2>2
<1> QED BY <1>1, <1>2, <1>3

(* Where no command is killed: every filter that ends well hands over its    *)
(* whole output.                                                             *)
NoSignal == \A f \in Filters : proc[f].status # "signal"

LEMMA InitNoSignal == Init => NoSignal
BY IdleFields, OpenAssumption DEF Init, ProcessInit, NoSignal

LEMMA NoSignalStep ==
  ASSUME "signal" \notin ExitStatuses, TypeOK, PipesOK, NoSignal, [Next]_vars
  PROVE  NoSignal'
<1>0. Runs = Filters /\ proc \in [Runs -> Processes] /\ ProcessTypeOK
  BY OpenAssumption DEF TypeOK, ProcessTypeOK
<1>1. CASE Command
  <2>1. PICK f \in Filters : ProcessStep(f)
    BY <1>1 DEF Command
  <2>2. /\ proc'[f].status \in ExitStatuses \cup {proc[f].status}
        /\ \A q \in Filters \ {f} : proc'[q] = proc[q]
    BY <1>0, <2>1, StepOfRun
  <2> QED BY <2>2 DEF NoSignal
<1>2. ASSUME NEW f \in Filters, proc' = [proc EXCEPT ![f] = Idle] \/ proc' = [proc EXCEPT ![f] = Started]
      PROVE  NoSignal'
  <2>1. Idle.status = "success" /\ Started.status = "success"
    BY IdleFields
  <2> QED BY <1>0, <1>2, <2>1 DEF NoSignal
<1>3. CASE proc' = proc
  BY <1>3 DEF NoSignal
<1>4. \/ Command \/ proc' = proc
      \/ \E f \in Filters : proc' = [proc EXCEPT ![f] = Idle] \/ proc' = [proc EXCEPT ![f] = Started]
  BY DEF Next, Machine, Start, Authorize, LoadContent, BinaryFilter, EstimateEncoding,
         SelectEncoding, DecodeContent, HarmonizeLineFeeds, LineFeeds, TextFilter, ShowContent,
         ReadFile, Reply, ChooseEncoding, Cancel, OutsideChange, vars, procVars, RunFilter,
         Launch, FilterEnds, Filters
<1> QED BY <1>1, <1>2, <1>3, <1>4

LEMMA InitPrepared == Init => PreparedSoFar
<1> SUFFICES ASSUME Init PROVE PreparedSoFar
  OBVIOUS
<1>1. content = <<>> /\ Len(content) = 0 /\ InOrder(content)
  BY DEF Init, InOrder
<1> QED BY <1>1 DEF Init, PreparedSoFar

(* Steps that leave the text and the filters alone. *)
LEMMA OtherPrepared ==
  ASSUME TypeOK, PipesOK, OneFilter, HeldUntilDone, PreparedSoFar,
         \/ Start \/ Authorize \/ LoadContent \/ EstimateEncoding \/ SelectEncoding \/ ShowContent
         \/ ReadFile \/ Reply \/ ChooseEncoding \/ Cancel \/ OutsideChange \/ Command
         \/ UNCHANGED vars
  PROVE  PreparedSoFar'
<1>1. content' = content /\ ran' = ran
  BY DEF Start, Authorize, LoadContent, EstimateEncoding, SelectEncoding, ShowContent, ReadFile,
         Reply, ChooseEncoding, Cancel, OutsideChange, Command, vars
<1>2. Pending' = Pending
  <2>1. CASE Command
    BY <2>1, CommandPending
  <2>2. CASE proc' = proc
    BY <2>2 DEF Pending
  <2> QED BY <2>1, <2>2
      DEF Start, Authorize, LoadContent, EstimateEncoding, SelectEncoding, ShowContent, ReadFile,
          Reply, ChooseEncoding, Cancel, OutsideChange, procVars, vars
<1>3. InOrder(content') /\ Done(content') = Done(content)
  BY <1>1 DEF PreparedSoFar
<1>4. Done(<<>>) = {}
  BY DEF Done
<1>5. CASE Start \/ Authorize \/ LoadContent
  <2>1. /\ state \in {"start", "authorize", "load"} /\ holder = "loop"
        /\ state' \in {"start", "authorize", "load", "binary filters"}
    BY <1>5 DEF Start, Authorize, LoadContent, At, Proceed, Destroyed
  <2>2. content = <<>> /\ ran = {}
    BY <2>1 DEF PreparedSoFar
  <2> QED BY <1>1, <1>2, <1>3, <1>4, <2>1, <2>2 DEF PreparedSoFar
<1>6. CASE EstimateEncoding \/ SelectEncoding
  <2>1. /\ state \in {"estimate encoding", "select encoding"} /\ holder = "loop"
        /\ state' \in {"decode", "select encoding"} /\ holder' \in {"loop", "charset", "nobody"}
    BY <1>6 DEF EstimateEncoding, SelectEncoding, At, Proceed, Destroyed
  <2> QED BY <1>1, <1>2, <1>3, <2>1 DEF PreparedSoFar
<1>7. CASE ShowContent
  <2>1. state = "show" /\ state' = "done" /\ holder = "loop" /\ holder' = "nobody"
    BY <1>7 DEF ShowContent, At
  <2>2. Encoding' = Encoding
    BY <1>7 DEF ShowContent, Encoding
  <2> QED BY <1>1, <1>2, <1>3, <2>1, <2>2 DEF PreparedSoFar
<1>8. CASE ChooseEncoding
  <2>1. holder = "charset" /\ state = "decode" /\ state' = "decode" /\ holder' = "loop"
    BY <1>8 DEF ChooseEncoding, Proceed, HeldUntilDone
  <2> QED BY <1>1, <1>2, <1>3, <2>1 DEF PreparedSoFar
<1>9. CASE ReadFile \/ Reply \/ Cancel
  <2>1. /\ state' = state
        /\ \/ holder = "reader" /\ holder' = "reply"
           \/ holder = "reply" /\ holder' = "loop"
           \/ holder = "charset" /\ holder' = "nobody"
    BY <1>9 DEF ReadFile, Reply, Cancel, Proceed, Destroyed
  <2>2. Encoding' = Encoding
    BY <1>9 DEF ReadFile, Reply, Cancel, Encoding
  <2> QED BY <1>1, <1>2, <1>3, <2>1, <2>2 DEF PreparedSoFar
<1>10. CASE OutsideChange \/ Command \/ UNCHANGED vars
  <2>1. state' = state /\ holder' = holder
    BY <1>10 DEF OutsideChange, Command, vars
  <2>2. Encoding' = Encoding
    BY <1>10 DEF OutsideChange, Command, vars, Encoding
  <2> QED BY <1>1, <1>2, <1>3, <2>1, <2>2 DEF PreparedSoFar
<1> QED BY <1>5, <1>6, <1>7, <1>8, <1>9, <1>10

(* Decoding and the line feeds. *)
LEMMA DecodePrepared ==
  ASSUME TypeOK, PipesOK, OneFilter, HeldUntilDone, PreparedSoFar,
         DecodeContent \/ HarmonizeLineFeeds
  PROVE  PreparedSoFar'
<1>1. /\ content \in Seq(Items) /\ InOrder(content) /\ ran' = ran /\ Encoding' = Encoding
      /\ holder = "loop" /\ holder' = "loop"
  BY DEF TypeOK, Items, PreparedSoFar, DecodeContent, HarmonizeLineFeeds, LineFeeds, At, Proceed,
         Encoding
<1>2. Pending = {} /\ Pending' = {}
  <2>1. proc' = proc
    BY DEF DecodeContent, HarmonizeLineFeeds, procVars
  <2> QED BY <1>1, <2>1 DEF OneFilter, Pending
<1>3. CASE DecodeContent /\ Encoding \notin bytes.fits
  <2>1. /\ content' = content /\ state = "decode" /\ state' = "estimate encoding"
    BY <1>3 DEF DecodeContent, At, Proceed
  <2>2. InOrder(content') /\ Done(content') = Done(content)
    BY <2>1, <1>1
  <2> QED BY <1>1, <1>2, <2>1, <2>2 DEF PreparedSoFar
<1>4. CASE DecodeContent /\ Encoding \in bytes.fits
  <2>1. content' = Append(content, Encoding) /\ state = "decode" /\ state' = "estimate line feeds"
    BY <1>4 DEF DecodeContent, At, Proceed
  <2>2. Done(content) = ran /\ ran \subseteq BinaryFilters
    BY <1>1, <1>2, <2>1 DEF PreparedSoFar
  <2>3. Encoding \in Charsets /\ Encoding \in Items /\ Encoding \notin BinaryFilters
    <3>1. Encoding \in Charsets
      BY <1>4, BytesOf DEF TypeOK, Null
    <3> QED BY <3>1, OpenAssumption DEF Items, Filters
  <2>4. \A y \in Done(content) : Stage(y) <= Stage(Encoding)
    BY <2>2, <2>3, StagesFollow
  <2>5. InOrder(content') /\ Done(content') = ran \cup {Encoding}
    BY <1>1, <2>1, <2>2, <2>3, <2>4, ItemAppend
  <2> QED BY <1>1, <1>2, <2>1, <2>2, <2>3, <2>5 DEF PreparedSoFar
<1>5. CASE HarmonizeLineFeeds /\ state = "estimate line feeds"
  <2>1. content' = content /\ state' = "harmonize"
    BY <1>5 DEF HarmonizeLineFeeds, LineFeeds, At, Proceed
  <2>2. InOrder(content') /\ Done(content') = Done(content)
    BY <2>1, <1>1
  <2> QED BY <1>1, <1>2, <1>5, <2>1, <2>2 DEF PreparedSoFar
<1>6. CASE HarmonizeLineFeeds /\ state = "harmonize"
  <2>1. content' = Append(content, "lf") /\ state' = "text filters"
    BY <1>6 DEF HarmonizeLineFeeds, LineFeeds, At, Proceed
  <2>2. Done(content) = ran \cup {Encoding} /\ ran \subseteq BinaryFilters /\ Encoding \in Charsets
    BY <1>1, <1>2, <1>6 DEF PreparedSoFar
  <2>3. "lf" \in Items /\ "lf" \notin BinaryFilters \cup Charsets
    BY OpenAssumption DEF Items, Filters
  <2>4. \A y \in Done(content) : Stage(y) <= Stage("lf")
    BY <2>2, StagesFollow
  <2>5. "lf" \notin Done(content)
    BY <2>2, <2>3
  <2>6. InOrder(content') /\ Done(content') = ran \cup {Encoding} \cup {"lf"}
    BY <1>1, <2>1, <2>2, <2>3, <2>4, <2>5, ItemAppend
  <2> QED BY <1>1, <1>2, <2>1, <2>2, <2>6 DEF PreparedSoFar
<1> QED BY <1>3, <1>4, <1>5, <1>6 DEF HarmonizeLineFeeds, LineFeeds, At

(* A filter is started, or all have run. *)
LEMMA FilterPrepared ==
  ASSUME TypeOK, PipesOK, OneFilter, HeldUntilDone, PreparedSoFar, BinaryFilter \/ TextFilter
  PROVE  PreparedSoFar'
<1>1. /\ content' = content /\ Encoding' = Encoding /\ holder = "loop" /\ Pending = {}
      /\ state \in {"binary filters", "text filters"}
  BY DEF BinaryFilter, TextFilter, At, Encoding, OneFilter
<1>2. InOrder(content') /\ Done(content') = Done(content)
  BY <1>1 DEF PreparedSoFar
<1>3. ASSUME NEW f \in Filters, RunFilter(f), f \in BinaryFilters \/ state = "text filters"
      PROVE  PreparedSoFar'
  <2>1. Pending' = {f} /\ ran' = ran \cup {f} /\ f \notin ran /\ state' = state /\ holder' = "filter"
    BY <1>1, <1>3, LaunchPending DEF RunFilter
  <2>2. ran' \ Pending' = ran \ Pending
    BY <1>1, <2>1
  <2> QED BY <1>1, <1>2, <1>3, <2>1, <2>2 DEF PreparedSoFar
<1>4. CASE procVars' = procVars /\ ran' = ran
  <2>1. Pending' = {}
    BY <1>1, <1>4 DEF procVars, Pending
  <2>2. \/ holder' = "nobody" /\ state' = state
        \/ state = "binary filters" /\ state' = "estimate encoding" /\ holder' = "loop"
        \/ /\ state = "text filters" /\ state' = "show" /\ holder' = "loop"
           /\ TextFilters \subseteq ran
    BY <1>4 DEF BinaryFilter, TextFilter, RunFilter, At, Proceed, Destroyed
  <2> QED BY <1>1, <1>2, <1>4, <2>1, <2>2 DEF PreparedSoFar
<1> QED BY <1>3, <1>4 DEF BinaryFilter, TextFilter, At, Filters

(* A filter ends: its output is all that it wrote, unless it was killed. *)
LEMMA EndsPrepared ==
  ASSUME TypeOK, PipesOK, OneFilter, HeldUntilDone, NoSignal, PreparedSoFar,
         NEW f \in Filters, FilterEnds(f)
  PROVE  PreparedSoFar'
<1>1. /\ holder = "filter" /\ Pending = {f} /\ Pending' = {} /\ f \in ran /\ ran' = ran
      /\ state' = state /\ Encoding' = Encoding /\ Whole(f)
      /\ \/ state = "binary filters" /\ f \in BinaryFilters
         \/ state = "text filters" /\ f \in TextFilters
  BY EndsPending DEF FilterEnds, Proceed, Destroyed, Encoding, Whole, NoSignal
<1>2. content \in Seq(Items) /\ f \in Items /\ InOrder(content)
  BY DEF TypeOK, Items, PreparedSoFar
<1>3. CASE content' = content /\ holder' = "nobody"
  <2>1. InOrder(content')
    BY <1>2, <1>3
  <2> QED BY <1>1, <1>3, <2>1 DEF PreparedSoFar
<1>4. CASE content' = Append(content, f) /\ holder' = "loop"
  <2>1. Done(content') = Done(content) \cup {f}
    BY <1>2, <1>4, ItemAppend
  <2>2. CASE state = "binary filters"
    <3>1. Done(content) = ran \ {f} /\ ran \subseteq BinaryFilters /\ f \in BinaryFilters
      BY <1>1, <2>2 DEF PreparedSoFar
    <3>2. f \notin Done(content) /\ \A y \in Done(content) : Stage(y) <= Stage(f)
      BY <3>1, StagesFollow
    <3>3. InOrder(content')
      BY <1>2, <1>4, <3>2, ItemAppend
    <3>4. Done(content') = ran' \ Pending'
      BY <1>1, <2>1, <3>1
    <3> QED BY <1>1, <1>4, <2>2, <3>1, <3>3, <3>4 DEF PreparedSoFar
  <2>3. CASE state = "text filters"
    <3>1. /\ Done(content) = (ran \ {f}) \cup {Encoding, "lf"} /\ Encoding \in Charsets
          /\ ran \subseteq Filters /\ f \in TextFilters
      BY <1>1, <2>3, OpenAssumption DEF PreparedSoFar, TypeOK
    <3>2. f \notin Done(content) /\ \A y \in Done(content) : Stage(y) <= Stage(f)
      BY <3>1, StagesFollow, OpenAssumption DEF Filters
    <3>3. InOrder(content')
      BY <1>2, <1>4, <3>2, ItemAppend
    <3>4. Done(content') = (ran' \ Pending') \cup {Encoding, "lf"}
      BY <1>1, <2>1, <3>1
    <3> QED BY <1>1, <1>4, <2>3, <3>1, <3>3, <3>4 DEF PreparedSoFar
  <2> QED BY <1>1, <2>2, <2>3
<1> QED BY <1>1, <1>3, <1>4 DEF FilterEnds, Proceed, Destroyed

(* Unless a command is killed, the text that is shown is the whole output of *)
(* every filter that ran, each once, decoded once between the binary and the *)
(* text filters, from the encoding the callback is told, and every text      *)
(* filter ran (open.cc:291-449).                                             *)
THEOREM ShownTextIsPrepared ==
  ASSUME "signal" \notin ExitStatuses
  PROVE  Spec => []ShownIsPrepared
<1> DEFINE IInv == /\ PipesOK /\ OneFilter /\ HeldUntilDone /\ AnsweredAtEnd /\ NoSignal
                   /\ PreparedSoFar
<1>1. TypeOK /\ IInv /\ [Next]_vars => IInv'
  <2> SUFFICES ASSUME TypeOK, IInv, [Next]_vars PROVE IInv'
    OBVIOUS
  <2>1. PreparedSoFar'
    BY OtherPrepared, DecodePrepared, FilterPrepared, EndsPrepared DEF Next, Machine
  <2> QED BY <2>1, FilterStep, HeldStep, AnsweredStep, NoSignalStep
<1>2. Init => IInv
  BY InitFilter, InitHeld, InitNoSignal, InitPrepared
<1>3. TypeOK /\ IInv => ShownIsPrepared
  <2> SUFFICES ASSUME TypeOK, IInv, Len(answers) > 0, answers[1].shown
               PROVE  /\ InOrder(content) /\ Done(content) = ran \cup {Encoding, "lf"}
                      /\ TextFilters \subseteq ran
    BY DEF ShownIsPrepared, InOrder
  <2>1. answers # <<>>
    OBVIOUS
  <2>2. state = "done" /\ holder = "nobody"
    BY <2>1 DEF AnsweredAtEnd
  <2>3. Pending = {}
    BY <2>2 DEF OneFilter
  <2> QED BY <2>2, <2>3 DEF PreparedSoFar
<1> HIDE DEF IInv
<1> QED BY <1>1, <1>2, <1>3, TypeCorrect, PTL DEF Spec
=============================================================================
