--------------------------- MODULE FileSaveProofs ---------------------------
(***************************************************************************)
(* Theorems about FileSave, for every set of filters and encodings, every  *)
(* way the commands of filters end and every bound.  The inductive         *)
(* invariants are:                                                         *)
(*   TypeOK          the types;                                            *)
(*   PreparedSoFar   how much of the text's preparation is done in each    *)
(*                   state of the machine;                                 *)
(*   WrittenAtEnd    the file is written at most once, at the end, and     *)
(*                   there is an error whenever it is not;                 *)
(*   AnsweredAtEnd   the save is answered when nobody holds it any more.   *)
(***************************************************************************)
EXTENDS FileSave, SequenceTheorems, TLAPS

Items == TextFilters \cup BinaryFilters \cup Charsets \cup {"crlf", "truncated"}

Converted == IF request.crlf THEN {"crlf"} ELSE {}

InOrder(s) ==
  \A i, j \in 1..Len(s) : i < j => s[i] # s[j] /\ Stage(s[i]) <= Stage(s[j])

(* Without filters that are killed half-way: what content holds in each state. *)
PreparedSoFar ==
  /\ InOrder(content)
  /\ state \in {"start", "make writable", "authorize"} => content = <<>>
  /\ state = "text filters" => Done(content) \subseteq TextFilters
  /\ state = "newlines" => Done(content) = TextFilters
  /\ state \in {"encode", "select encoding"} => Done(content) = TextFilters \cup Converted
  /\ state \in {"binary filters", "save", "notify", "done"} =>
       \E c \in Fits :
         /\ TextFilters \cup Converted \cup {c} \subseteq Done(content)
         /\ Done(content) \subseteq TextFilters \cup Converted \cup {c} \cup BinaryFilters
         /\ state # "binary filters" => BinaryFilters \subseteq Done(content)
  /\ holder = "filter" => state \in {"text filters", "binary filters"}
  /\ holder \in {"worker", "reply"} => state = "notify"
  /\ wrote => state \in {"notify", "done"}

(* With other programs that leave the file in a folder: the status is one    *)
(* that write_to_path writes with, from the authorization on; the file is    *)
(* written once, at the end, and there is an error whenever it is not.       *)
WrittenAtEnd ==
  /\ state = "done" => holder = "nobody"
  /\ state \in {"notify", "done"} => holder \in {"loop", "worker", "reply", "nobody"}
  /\ holder = "worker" => state = "notify"
  /\ wrote => state \in {"notify", "done"} /\ holder # "worker"
  /\ file.content = "new" => wrote
  /\ state \in {"text filters", "newlines", "select encoding", "encode", "binary filters",
                "save", "notify"} => file.status \notin {"no parent", "read only"}
  /\ holder # "nobody" /\ state # "notify" => error = "none"
  /\ holder = "worker" => error = "none"
  /\ state = "notify" /\ holder \in {"reply", "loop"} => wrote \/ error # "none"

AnsweredAtEnd ==
  /\ answers = <<>> <=> holder # "nobody"
  /\ answers # <<>> => Len(answers) = 1 /\ (answers[1].success => wrote)
-----------------------------------------------------------------------------
(* Sequences of preparations. *)

(* Appending adds one element, at the end. *)
LEMMA DoneAppend ==
  ASSUME NEW S, NEW s \in Seq(S), NEW x \in S
  PROVE  /\ Append(s, x) \in Seq(S) /\ Len(Append(s, x)) = Len(s) + 1
         /\ \A i \in 1..Len(s) : Append(s, x)[i] = s[i]
         /\ Append(s, x)[Len(s) + 1] = x
         /\ Done(Append(s, x)) = Done(s) \cup {x}
<1>1. /\ Append(s, x) \in Seq(S) /\ Len(Append(s, x)) = Len(s) + 1 /\ Len(s) \in Nat
      /\ \A i \in 1..Len(s) : Append(s, x)[i] = s[i]
      /\ Append(s, x)[Len(s) + 1] = x
  BY AppendProperties
<1> QED BY <1>1 DEF Done

(* An element of a stage that is not over yet may be appended, once.         *)
LEMMA AppendInOrder ==
  ASSUME NEW S, NEW s \in Seq(S), NEW x \in S, InOrder(s), x \notin Done(s),
         \A y \in Done(s) : Stage(y) <= Stage(x)
  PROVE  InOrder(Append(s, x))
<1>1. /\ Len(Append(s, x)) = Len(s) + 1 /\ Len(s) \in Nat
      /\ \A i \in 1..Len(s) : Append(s, x)[i] = s[i] /\ s[i] \in Done(s)
      /\ Append(s, x)[Len(s) + 1] = x
  BY DoneAppend DEF Done
<1> QED BY <1>1 DEF InOrder

LEMMA ItemAppend ==
  ASSUME NEW s \in Seq(Items), NEW x \in Items
  PROVE  Done(Append(s, x)) = Done(s) \cup {x}
BY DoneAppend

LEMMA ItemAppendInOrder ==
  ASSUME NEW s \in Seq(Items), NEW x \in Items, InOrder(s), x \notin Done(s),
         \A y \in Done(s) : Stage(y) <= Stage(x)
  PROVE  InOrder(Append(s, x))
BY AppendInOrder

(* The stages of filters, line feeds and encodings follow each other.        *)
LEMMA Stages ==
  /\ \A x \in TextFilters : Stage(x) = 1
  /\ Stage("crlf") = 2
  /\ \A x \in Charsets : Stage(x) = 3
  /\ \A x \in BinaryFilters : Stage(x) = 4
BY SaveAssumption DEF Stage

LEMMA StagesFollow ==
  ASSUME NEW lineFeeds \in SUBSET {"crlf"}
  PROVE  /\ \A x, y \in TextFilters : Stage(x) <= Stage(y)
         /\ \A x \in TextFilters \cup lineFeeds, y \in Charsets : Stage(x) <= Stage(y)
         /\ \A x \in TextFilters \cup lineFeeds \cup Charsets \cup BinaryFilters,
               y \in BinaryFilters : Stage(x) <= Stage(y)
<1>1. ASSUME NEW x \in TextFilters \cup lineFeeds
      PROVE  Stage(x) \in {1, 2}
  <2>1. CASE x \in TextFilters
    BY <2>1, Stages
  <2>2. CASE x = "crlf"
    BY <2>2, Stages
  <2> QED BY <2>1, <2>2
<1>2. ASSUME NEW x \in TextFilters \cup lineFeeds \cup Charsets \cup BinaryFilters
      PROVE  Stage(x) \in {1, 2, 3, 4}
  BY <1>1, Stages
<1>3. ASSUME NEW x \in TextFilters, NEW y \in TextFilters
      PROVE  Stage(x) <= Stage(y)
  BY Stages
<1>4. ASSUME NEW x \in TextFilters \cup lineFeeds, NEW y \in Charsets
      PROVE  Stage(x) <= Stage(y)
  <2>1. Stage(y) = 3 /\ Stage(x) \in {1, 2}
    BY <1>1, Stages
  <2> QED BY <2>1
<1>5. ASSUME NEW x \in TextFilters \cup lineFeeds \cup Charsets \cup BinaryFilters,
             NEW y \in BinaryFilters
      PROVE  Stage(x) <= Stage(y)
  <2>1. Stage(y) = 4 /\ Stage(x) \in {1, 2, 3, 4}
    BY <1>2, Stages
  <2> QED BY <2>1
<1> QED BY <1>3, <1>4, <1>5

-----------------------------------------------------------------------------
(* The destructor's answer, and going on or asking, keep the types.          *)
AnswerType == [success : BOOLEAN, error : {"none", "filter", "write", "attributes"}]

ControlType == state \in States /\ holder \in Holders /\ answers \in Seq(AnswerType)

LEMMA DestroyedType ==
  ASSUME TypeOK, NEW e \in {"none", "filter", "write", "attributes"}, Destroyed(e)
  PROVE  ControlType'
<1>1. [success |-> FALSE, error |-> e] \in AnswerType
  BY DEF AnswerType
<1>2. answers' \in Seq(AnswerType)
  BY <1>1, AppendProperties DEF TypeOK, Destroyed, AnswerType
<1> QED BY <1>2 DEF TypeOK, Destroyed, ControlType, Holders

LEMMA ProceedType ==
  ASSUME TypeOK, NEW s \in States, Proceed(s)
  PROVE  ControlType'
BY DEF TypeOK, Proceed, ControlType, Holders, AnswerType

LEMMA AskType ==
  ASSUME TypeOK, NEW s \in States, NEW who \in Holders, Ask(who, s)
  PROVE  ControlType'
<1>1. CASE request.window
  BY <1>1 DEF Ask, TypeOK, ControlType, AnswerType
<1>2. CASE ~request.window
  BY <1>2, DestroyedType DEF Ask, TypeOK
<1> QED BY <1>1, <1>2

LEMMA RunFilterType ==
  ASSUME TypeOK, NEW filters, NEW s \in States, RunFilter(filters, s)
  PROVE  ControlType'
BY ProceedType DEF RunFilter, TypeOK, ControlType, AnswerType, Holders

DataType ==
  /\ request \in [window : BOOLEAN, path : BOOLEAN, crlf : BOOLEAN, atomic : BOOLEAN]
  /\ charset \in Charsets \cup {NoCharset}
  /\ {makeWritable, createParent, cancelled, wrote} \subseteq BOOLEAN
  /\ content \in Seq(Items)
  /\ error \in {"none", "filter", "write", "attributes"}
  /\ file \in Files
  /\ asked \in 0..MaxAnswers /\ changes \in 0..MaxChanges

LEMMA TypeParts == /\ TypeOK <=> ControlType /\ DataType
                   /\ TypeOK' <=> ControlType' /\ DataType'
BY DEF TypeOK, ControlType, DataType, AnswerType, Items

LEMMA InitType == Init => TypeOK
<1> SUFFICES ASSUME Init PROVE ControlType /\ DataType
  BY TypeParts
<1>1. content \in Seq(Items) /\ answers \in Seq(AnswerType)
  BY EmptySeq DEF Init
<1>2. {makeWritable, createParent, cancelled, wrote} \subseteq BOOLEAN
  BY DEF Init
<1>3. asked \in 0..MaxAnswers /\ changes \in 0..MaxChanges
  BY SaveAssumption DEF Init
<1>4. charset \in Charsets \cup {NoCharset} /\ file \in Files
  BY SaveAssumption DEF Init
<1>5. request \in [window : BOOLEAN, path : BOOLEAN, crlf : BOOLEAN, atomic : BOOLEAN]
  BY DEF Init
<1>6. state \in States /\ holder \in Holders /\ error = "none"
  BY DEF Init, States, Holders
<1> QED BY <1>1, <1>2, <1>3, <1>4, <1>5, <1>6 DEF ControlType, DataType

LEMMA LoopType ==
  ASSUME TypeOK,
         Start \/ MakeWritable \/ Authorize \/ TextFilter \/ ConvertLineFeeds \/ SelectEncoding
           \/ EncodeContent \/ BinaryFilter \/ SaveContent \/ NotifyCallback
  PROVE  TypeOK'
<1> USE TypeParts
<1>1. CASE Start
  <2>1. ControlType'
    BY <1>1, ProceedType, AskType DEF Start, States, Holders
  <2> QED BY <1>1, <2>1 DEF Start, choices, outside, DataType
<1>2. CASE MakeWritable
  <2>1. ControlType'
    BY <1>2, ProceedType, AskType, DestroyedType DEF MakeWritable, States, Holders, DataType
  <2>2. file' \in Files
    BY <1>2 DEF MakeWritable, DataType, Files, Statuses, Locked
  <2> QED BY <1>2, <2>1, <2>2 DEF MakeWritable, choices, DataType
<1>3. CASE Authorize
  <2>1. ControlType'
    BY <1>3, ProceedType, AskType, DestroyedType DEF Authorize, States, Holders, DataType
  <2> QED BY <1>3, <2>1 DEF Authorize, choices, outside, DataType
<1>4. CASE TextFilter
  <2>1. ControlType'
    BY <1>4, RunFilterType DEF TextFilter, States
  <2> QED BY <1>4, <2>1 DEF TextFilter, choices, outside, DataType
<1>5. CASE ConvertLineFeeds
  <2>1. ControlType'
    BY <1>5, ProceedType DEF ConvertLineFeeds, States
  <2>2. content' \in Seq(Items)
    BY <1>5, AppendProperties DEF ConvertLineFeeds, DataType, Items
  <2> QED BY <1>5, <2>1, <2>2 DEF ConvertLineFeeds, choices, outside, DataType
<1>6. CASE SelectEncoding
  <2>1. ControlType'
    BY <1>6, ProceedType, AskType DEF SelectEncoding, States, Holders
  <2> QED BY <1>6, <2>1, SaveAssumption DEF SelectEncoding, outside, DataType
<1>7. CASE EncodeContent
  <2>1. ControlType'
    BY <1>7, ProceedType DEF EncodeContent, States
  <2>2. content' \in Seq(Items)
    <3>1. charset \in Fits => charset \in Items
      BY SaveAssumption DEF Items
    <3>2. charset \in Fits => Append(content, charset) \in Seq(Items)
      BY <3>1, AppendProperties DEF DataType
    <3> QED BY <1>7, <3>2 DEF EncodeContent, DataType
  <2> QED BY <1>7, <2>1, <2>2 DEF EncodeContent, choices, outside, DataType
<1>8. CASE BinaryFilter
  <2>1. ControlType'
    BY <1>8, RunFilterType DEF BinaryFilter, States
  <2> QED BY <1>8, <2>1 DEF BinaryFilter, choices, outside, DataType
<1>9. CASE SaveContent
  BY <1>9 DEF SaveContent, ControlType, DataType, choices, outside, Holders, States
<1>10. CASE NotifyCallback
  <2>1. [success |-> error = "none", error |-> error] \in AnswerType
    BY DEF AnswerType, DataType
  <2>2. answers' \in Seq(AnswerType)
    BY <1>10, <2>1, AppendProperties DEF NotifyCallback, ControlType
  <2> QED BY <1>10, <2>2 DEF NotifyCallback, ControlType, DataType, choices, outside,
                             Holders, States
<1> QED BY <1>1, <1>2, <1>3, <1>4, <1>5, <1>6, <1>7, <1>8, <1>9, <1>10

LEMMA HoldersType ==
  ASSUME TypeOK, FilterEnds \/ WriteToPath \/ Reply \/ Cancel \/ Accept \/ ChooseEncoding
                   \/ OutsideChange
  PROVE  TypeOK'
<1> USE TypeParts
<1>1. CASE FilterEnds
  <2>1. PICK f \in TextFilters \cup BinaryFilters, outcome \in FilterOutcomes :
          \/ /\ outcome = "replaced"
             /\ content' = Append(content, f) /\ Proceed(state) /\ UNCHANGED error
          \/ /\ outcome = "truncated"
             /\ content' = content \o <<f, outcome>> /\ Proceed(state) /\ UNCHANGED error
          \/ /\ outcome = "error"
             /\ error' = "filter" /\ Destroyed("filter") /\ UNCHANGED content
          \/ outcome = "other output" /\ Destroyed(error) /\ UNCHANGED <<content, error>>
    BY <1>1 DEF FilterEnds
  <2>2. ControlType'
    BY <2>1, ProceedType, DestroyedType DEF ControlType, DataType
  <2>3. content' \in Seq(Items)
    <3>1. f \in Items /\ "truncated" \in Items
      BY DEF Items
    <3>2. <<f, "truncated">> \in Seq(Items)
      BY <3>1
    <3>3. content \in Seq(Items)
      BY DEF DataType
    <3>4. content \o <<f, "truncated">> \in Seq(Items)
      BY <3>2, <3>3, ConcatProperties
    <3>5. Append(content, f) \in Seq(Items)
      BY <3>1, <3>3, AppendProperties
    <3> QED BY <2>1, <3>3, <3>4, <3>5
  <2>4. error' \in {"none", "filter", "write", "attributes"}
    BY <2>1 DEF DataType
  <2> QED BY <1>1, <2>2, <2>3, <2>4 DEF FilterEnds, choices, outside, DataType
<1>2. CASE WriteToPath
  <2>1. file' \in Files /\ error' \in {"none", "filter", "write", "attributes"}
        /\ wrote' \in BOOLEAN
    BY <1>2 DEF WriteToPath, WriteSucceeds, WriteFails, Written, DataType, Files, Statuses,
                Locked
  <2> QED BY <1>2, <2>1 DEF WriteToPath, choices, ControlType, DataType, Holders
<1>3. CASE Reply
  <2>1. ControlType'
    BY <1>3, ProceedType DEF Reply, ControlType
  <2> QED BY <1>3, <2>1 DEF Reply, choices, outside, DataType
<1>4. CASE Cancel
  <2>1. ControlType'
    BY <1>4, DestroyedType DEF Cancel, DataType
  <2> QED BY <1>4, <2>1 DEF Cancel, outside, DataType
<1>5. CASE Accept
  <2>1. ControlType'
    BY <1>5, ProceedType DEF Accept, ControlType
  <2> QED BY <1>5, <2>1 DEF Accept, outside, DataType
<1>6. CASE ChooseEncoding
  <2>1. ControlType'
    BY <1>6, ProceedType DEF ChooseEncoding, ControlType
  <2> QED BY <1>6, <2>1, SaveAssumption DEF ChooseEncoding, outside, DataType
<1>7. CASE OutsideChange
  BY <1>7, SaveAssumption DEF OutsideChange, choices, ControlType, DataType
<1> QED BY <1>1, <1>2, <1>3, <1>4, <1>5, <1>6, <1>7

LEMMA NextType == TypeOK /\ [Next]_vars => TypeOK'
<1> SUFFICES ASSUME TypeOK, [Next]_vars PROVE TypeOK'
  OBVIOUS
<1>1. CASE UNCHANGED vars
  BY <1>1 DEF vars, TypeOK
<1> QED BY <1>1, LoopType, HoldersType DEF Next, Machine

(* The types of the state hold in every reachable state. *)
THEOREM TypeCorrect == Spec => []TypeOK
BY InitType, NextType, PTL DEF Spec

-----------------------------------------------------------------------------
(* How the text is prepared. *)

LEMMA InitPrepared == Init => PreparedSoFar
<1> SUFFICES ASSUME Init PROVE PreparedSoFar
  OBVIOUS
<1>1. content = <<>> /\ Len(content) = 0
  BY DEF Init
<1>2. InOrder(content)
  BY <1>1 DEF InOrder
<1> QED BY <1>1, <1>2 DEF Init, PreparedSoFar

(* Steps that leave the text alone. *)
LEMMA OtherPrepared ==
  ASSUME TypeOK, PreparedSoFar,
         \/ Start \/ MakeWritable \/ Authorize \/ TextFilter \/ SelectEncoding \/ BinaryFilter
         \/ SaveContent \/ NotifyCallback \/ WriteToPath \/ Reply \/ Cancel \/ Accept
         \/ ChooseEncoding \/ OutsideChange \/ UNCHANGED vars
  PROVE  PreparedSoFar'
<1>1. content' = content /\ request'.crlf = request.crlf
  BY DEF Start, MakeWritable, Authorize, TextFilter, SelectEncoding, BinaryFilter, SaveContent,
         NotifyCallback, WriteToPath, Reply, Cancel, Accept, ChooseEncoding, OutsideChange, vars,
         choices, outside, TypeOK
<1>2. InOrder(content') /\ Done(content') = Done(content) /\ Converted' = Converted
  BY <1>1 DEF PreparedSoFar, Converted
<1>3. Done(<<>>) = {}
  BY DEF Done
<1> HIDE DEF Converted
<1>4. CASE Start \/ MakeWritable \/ Authorize
  <2>1. /\ content = <<>> /\ wrote' = wrote /\ ~wrote
        /\ state' \in {"start", "make writable", "authorize", "text filters"}
        /\ holder' \notin {"filter", "worker", "reply"}
    BY <1>4 DEF Start, MakeWritable, Authorize, Proceed, Ask, Destroyed, Runs, PreparedSoFar,
                outside, TypeOK
  <2> QED BY <1>1, <1>2, <1>3, <2>1 DEF PreparedSoFar
<1>5. CASE TextFilter
  BY <1>1, <1>2, <1>5 DEF TextFilter, RunFilter, Proceed, Runs, PreparedSoFar, choices, outside
<1>6. CASE SelectEncoding
  BY <1>1, <1>2, <1>6 DEF SelectEncoding, Ask, Destroyed, Proceed, Runs, PreparedSoFar, outside
<1>7. CASE BinaryFilter
  BY <1>1, <1>2, <1>7 DEF BinaryFilter, RunFilter, Proceed, Runs, PreparedSoFar, choices, outside
<1>8. CASE SaveContent \/ NotifyCallback
  BY <1>1, <1>2, <1>8 DEF SaveContent, NotifyCallback, Runs, PreparedSoFar, outside
<1>9. CASE WriteToPath
  BY <1>1, <1>2, <1>9 DEF WriteToPath, PreparedSoFar
<1>10. CASE Reply \/ Cancel \/ Accept \/ ChooseEncoding
  <2>1. /\ wrote' = wrote /\ state' = state /\ holder' \in {"loop", "nobody"}
    BY <1>10 DEF Reply, Cancel, Accept, ChooseEncoding, Destroyed, Proceed, outside
  <2> QED BY <1>1, <1>2, <2>1 DEF PreparedSoFar
<1>11. CASE OutsideChange \/ UNCHANGED vars
  <2>1. wrote' = wrote /\ state' = state /\ holder' = holder
    BY <1>11 DEF OutsideChange, vars
  <2> QED BY <1>1, <1>2, <2>1 DEF PreparedSoFar
<1> QED BY <1>4, <1>5, <1>6, <1>7, <1>8, <1>9, <1>10, <1>11

(* Steps that append to it. *)
LEMMA AppendPrepared ==
  ASSUME "truncated" \notin FilterOutcomes, TypeOK, PreparedSoFar,
         ConvertLineFeeds \/ EncodeContent \/ FilterEnds
  PROVE  PreparedSoFar'
<1>1. content \in Seq(Items) /\ InOrder(content)
  BY DEF TypeOK, Items, PreparedSoFar
<1>2. request' = request /\ Converted' = Converted /\ wrote' = wrote
  BY DEF ConvertLineFeeds, EncodeContent, FilterEnds, choices, outside, Converted
<1>3. Converted \subseteq {"crlf"} /\ (request.crlf <=> Converted = {"crlf"})
  BY DEF Converted, TypeOK
<1>4. ASSUME content' = content, InOrder(content'), Done(content') = Done(content),
             \/ state = "newlines" /\ ~request.crlf /\ state' = "encode"
             \/ state = "encode" /\ state' = "select encoding"
             \/ state' = state,
             holder' # "filter", holder' \notin {"worker", "reply"}
      PROVE  PreparedSoFar'
  BY <1>2, <1>3, <1>4 DEF PreparedSoFar
<1>5. CASE ConvertLineFeeds
  <2>1. Done(content) = TextFilters /\ state = "newlines" /\ state' = "encode" /\ holder' = "loop"
    BY <1>5 DEF ConvertLineFeeds, Runs, Proceed, PreparedSoFar
  <2>2. CASE request.crlf
    <3>1. content' = Append(content, "crlf") /\ "crlf" \in Items /\ "crlf" \notin TextFilters
      BY <1>5, <2>2, SaveAssumption DEF ConvertLineFeeds, Items
    <3>2. InOrder(content')
      BY <1>1, <2>1, <3>1, Stages, AppendInOrder
    <3>3. Done(content') = TextFilters \cup Converted
      BY <1>1, <1>3, <2>1, <2>2, <3>1, DoneAppend
    <3> QED BY <1>2, <2>1, <3>2, <3>3 DEF PreparedSoFar
  <2>3. CASE ~request.crlf
    BY <1>1, <1>4, <1>5, <2>1, <2>3 DEF ConvertLineFeeds
  <2> QED BY <2>2, <2>3
<1>6. CASE EncodeContent
  <2>1. Done(content) = TextFilters \cup Converted /\ state = "encode" /\ holder' = "loop"
    BY <1>6 DEF EncodeContent, Runs, Proceed, PreparedSoFar
  <2>2. CASE charset \in Fits
    <3>1. /\ content' = Append(content, charset) /\ state' = "binary filters"
          /\ charset \in Items /\ charset \in Charsets
          /\ charset \notin TextFilters \cup Converted
      BY <1>3, <1>6, <2>2, SaveAssumption DEF EncodeContent, Proceed, Items
    <3>a. charset \notin Done(content) /\ \A y \in Done(content) : Stage(y) <= Stage(charset)
      BY <1>3, <2>1, <3>1, StagesFollow
    <3>b. InOrder(Append(content, charset))
      BY <1>1, <3>1, <3>a, ItemAppendInOrder
    <3>c. Done(Append(content, charset)) = Done(content) \cup {charset}
      BY <1>1, <3>1, ItemAppend
    <3>2. InOrder(content')
      BY <3>1, <3>b
    <3>3. Done(content') = TextFilters \cup Converted \cup {charset}
      BY <2>1, <3>1, <3>c
    <3>4. wrote' = FALSE
      BY <1>2, <2>1 DEF PreparedSoFar, TypeOK
    <3> QED BY <1>2, <2>1, <2>2, <3>1, <3>2, <3>3, <3>4 DEF PreparedSoFar
  <2>3. CASE charset \notin Fits
    BY <1>1, <1>4, <1>6, <2>1, <2>3 DEF EncodeContent, Proceed
  <2> QED BY <2>2, <2>3
<1>7. CASE FilterEnds
  <2> DEFINE filters == IF state = "text filters" THEN TextFilters ELSE BinaryFilters
  <2>1. /\ state \in {"text filters", "binary filters"} /\ state' = state
        /\ holder' \in {"loop", "nobody"}
    BY <1>7 DEF FilterEnds, Proceed, Destroyed, PreparedSoFar
  <2>2. \/ content' = content
        \/ \E f \in filters \ Done(content) : content' = Append(content, f)
    BY <1>7 DEF FilterEnds
  <2>3. CASE content' = content
    BY <1>1, <1>4, <2>1, <2>3
  <2>4. ASSUME NEW f \in filters \ Done(content), content' = Append(content, f)
        PROVE  PreparedSoFar'
    <3>0. f \in Items /\ f \notin Done(content)
      BY <2>4 DEF Items
    <3>1. Done(content') = Done(content) \cup {f}
      <4>1. Done(Append(content, f)) = Done(content) \cup {f}
        BY <1>1, <3>0, ItemAppend
      <4> QED BY <2>4, <4>1
    <3>2. wrote' = FALSE
      BY <1>2, <2>1 DEF PreparedSoFar, TypeOK
    <3>3. CASE state = "text filters"
      <4>1. f \in TextFilters /\ Done(content) \subseteq TextFilters
        BY <2>4, <3>3 DEF PreparedSoFar
      <4>a. \A y \in Done(content) : Stage(y) <= Stage(f)
        BY <4>1, StagesFollow
      <4>2. InOrder(content')
        BY <1>1, <2>4, <3>0, <4>a, AppendInOrder
      <4> QED BY <2>1, <3>1, <3>2, <3>3, <4>1, <4>2 DEF PreparedSoFar
    <3>4. CASE state = "binary filters"
      <4>1. f \in BinaryFilters
        BY <2>4, <3>4
      <4>2. PICK c \in Fits :
              /\ TextFilters \cup Converted \cup {c} \subseteq Done(content)
              /\ Done(content) \subseteq TextFilters \cup Converted \cup {c} \cup BinaryFilters
        BY <3>4 DEF PreparedSoFar
      <4>3. \A y \in Done(content) : Stage(y) <= Stage(f)
        <5>1. Done(content) \subseteq TextFilters \cup Converted \cup Charsets \cup BinaryFilters
          BY <4>2, SaveAssumption
        <5> QED BY <1>3, <4>1, <5>1, StagesFollow
      <4>4. InOrder(content')
        BY <1>1, <2>4, <3>0, <4>3, AppendInOrder
      <4> QED BY <1>2, <2>1, <3>1, <3>2, <3>4, <4>1, <4>2, <4>4 DEF PreparedSoFar
    <3> QED BY <2>1, <3>3, <3>4
  <2> QED BY <2>2, <2>3, <2>4
<1> QED BY <1>5, <1>6, <1>7

LEMMA PreparedInvariant ==
  ASSUME "truncated" \notin FilterOutcomes
  PROVE  Spec => []PreparedSoFar
<1>1. TypeOK /\ PreparedSoFar /\ [Next]_vars => PreparedSoFar'
  BY OtherPrepared, AppendPrepared DEF Next, Machine
<1> QED BY <1>1, InitPrepared, TypeCorrect, PTL DEF Spec

(* Unless a filter's command can be killed half-way, what is written has     *)
(* been through every filter, the line feeds and the encoding, each once and *)
(* in order, however often the user chose another encoding (save.cc:241-341). *)
THEOREM SavedTextIsPrepared ==
  ASSUME "truncated" \notin FilterOutcomes
  PROVE  Spec => []WrittenIsPrepared
<1>1. PreparedSoFar => WrittenIsPrepared
  <2> SUFFICES ASSUME PreparedSoFar, wrote PROVE WrittenIsPrepared
    BY DEF WrittenIsPrepared
  <2>1. PICK c \in Fits :
          Done(content) = TextFilters \cup BinaryFilters \cup {c} \cup Converted
    BY DEF PreparedSoFar
  <2> QED BY <2>1 DEF PreparedSoFar, WrittenIsPrepared, InOrder, Converted
<1> QED BY <1>1, PreparedInvariant, PTL

-----------------------------------------------------------------------------
(* What happens to the file. *)

(* With atomic saves, a write that fails leaves a file that is there alone,  *)
(* in place and through the helper, and nothing else damages it              *)
(* (intermediate.mm).                                                        *)
THEOREM FailedWriteIsHarmless == Spec => FailedWriteKeepsFile
<1>1. TypeOK /\ [Next]_vars =>
        [request.atomic /\ file.content = "old" => file'.content # "partial"]_vars
  <2> SUFFICES ASSUME TypeOK, [Next]_vars, request.atomic, file.content = "old"
               PROVE  file'.content # "partial"
    OBVIOUS
  <2>1. file \in [status : Statuses, content : {"none", "old", "partial", "new"}]
    BY DEF TypeOK, Files
  <2>2. CASE WriteToPath
    BY <2>1, <2>2 DEF WriteToPath, WriteSucceeds, WriteFails, Written
  <2>3. CASE MakeWritable
    BY <2>1, <2>3 DEF MakeWritable
  <2>4. CASE OutsideChange
    BY <2>4 DEF OutsideChange
  <2>5. CASE UNCHANGED file
    BY <2>5
  <2> QED BY <2>2, <2>3, <2>4, <2>5
          DEF Next, Machine, Start, Authorize, TextFilter, ConvertLineFeeds, SelectEncoding,
              EncodeContent, BinaryFilter, SaveContent, NotifyCallback, FilterEnds, Reply,
              Cancel, Accept, ChooseEncoding, outside, vars
<1> QED BY <1>1, TypeCorrect, PTL DEF Spec, FailedWriteKeepsFile

-----------------------------------------------------------------------------
(* How a save is answered. *)

(* The first answer. *)
LEMMA FirstAnswer ==
  ASSUME NEW a
  PROVE  /\ Append(<<>>, a) # <<>> /\ Len(Append(<<>>, a)) = 1
         /\ Append(<<>>, a)[1] = a
OBVIOUS

LEMMA InitAnswered == Init => WrittenAtEnd /\ AnsweredAtEnd
<1> SUFFICES ASSUME Init PROVE WrittenAtEnd /\ AnsweredAtEnd
  OBVIOUS
<1>1. file.content # "new" /\ answers = <<>>
  BY DEF Init
<1> QED BY <1>1 DEF Init, WrittenAtEnd, AnsweredAtEnd

(* A step leaves the answers alone, or it is the one that answers: that the  *)
(* save failed, or, when it notifies the callback, that there is no error.   *)
LEMMA OneAnswer ==
  ASSUME TypeOK, WrittenAtEnd, AnsweredAtEnd, [Next]_vars
  PROVE  \/ answers' = answers /\ (holder' = "nobody" <=> holder = "nobody")
         \/ /\ answers = <<>> /\ holder' = "nobody" /\ wrote' = wrote
            /\ \E a : answers' = Append(answers, a) /\ (a.success => wrote)
<1>1. ASSUME NEW e, Destroyed(e)
      PROVE  holder' = "nobody" /\ \E a : answers' = Append(answers, a) /\ ~a.success
  BY <1>1 DEF Destroyed
<1>2. ASSUME holder # "nobody" PROVE answers = <<>>
  BY <1>2 DEF AnsweredAtEnd
<1>3. ASSUME holder # "nobody", wrote' = wrote, NEW e, Destroyed(e)
      PROVE  /\ answers = <<>> /\ holder' = "nobody" /\ wrote' = wrote
             /\ \E a : answers' = Append(answers, a) /\ (a.success => wrote)
  BY <1>1, <1>2, <1>3
<1>4. ASSUME holder # "nobody", wrote' = wrote, NEW who \in Holders \ {"nobody"}, NEW s,
             Ask(who, s)
      PROVE  \/ answers' = answers /\ holder' # "nobody"
             \/ /\ answers = <<>> /\ holder' = "nobody" /\ wrote' = wrote
                /\ \E a : answers' = Append(answers, a) /\ (a.success => wrote)
  BY <1>3, <1>4 DEF Ask
<1>5. CASE Start \/ Authorize \/ SelectEncoding
  <2>1. holder # "nobody" /\ wrote' = wrote
    BY <1>5 DEF Start, Authorize, SelectEncoding, Runs, outside
  <2>2. \/ \E who \in Holders \ {"nobody"}, s \in States : Ask(who, s)
        \/ \E e : Destroyed(e)
        \/ \E s \in States : Proceed(s)
    BY <1>5 DEF Start, Authorize, SelectEncoding, Holders, States
  <2> QED BY <1>3, <1>4, <2>1, <2>2 DEF Proceed
<1>6. CASE MakeWritable
  <2>1. holder # "nobody" /\ wrote' = wrote
    BY <1>6 DEF MakeWritable, Runs
  <2>2. \/ \E who \in Holders \ {"nobody"}, s \in States : Ask(who, s)
        \/ \E e : Destroyed(e)
        \/ \E s \in States : Proceed(s)
    BY <1>6 DEF MakeWritable, Holders, States
  <2> QED BY <1>3, <1>4, <2>1, <2>2 DEF Proceed
<1>7. CASE NotifyCallback
  <2>1. /\ answers' = Append(answers, [success |-> error = "none", error |-> error])
        /\ holder' = "nobody" /\ holder # "nobody" /\ wrote' = wrote
        /\ error = "none" => wrote
    BY <1>7 DEF NotifyCallback, Runs, outside, WrittenAtEnd
  <2> DEFINE a == [success |-> error = "none", error |-> error]
  <2>2. answers' = Append(answers, a) /\ (a.success => wrote)
    BY <2>1
  <2> HIDE DEF a
  <2> QED BY <1>2, <2>1, <2>2
<1>8. CASE FilterEnds \/ Cancel
  <2>1. holder # "nobody" /\ wrote' = wrote
    BY <1>8 DEF FilterEnds, Cancel, outside
  <2>2. (\E e : Destroyed(e)) \/ (\E s : Proceed(s))
    BY <1>8 DEF FilterEnds, Cancel
  <2> QED BY <1>3, <2>1, <2>2 DEF Proceed
<1>9. CASE TextFilter \/ BinaryFilter \/ ConvertLineFeeds \/ EncodeContent \/ SaveContent
             \/ WriteToPath \/ Reply \/ Accept \/ ChooseEncoding \/ OutsideChange
             \/ UNCHANGED vars
  BY <1>9 DEF TextFilter, BinaryFilter, RunFilter, ConvertLineFeeds, EncodeContent, SaveContent,
              WriteToPath, Reply, Accept, ChooseEncoding, OutsideChange, Runs, Proceed, vars
<1> QED BY <1>5, <1>6, <1>7, <1>8, <1>9 DEF Next, Machine

(* The file is written once. *)
LEMMA WrittenOnce ==
  ASSUME TypeOK, WrittenAtEnd, AnsweredAtEnd, [Next]_vars
  PROVE  wrote' = wrote \/ (~wrote /\ holder = "worker" /\ holder' = "reply")
BY DEF WrittenAtEnd, Next, Machine, Start, MakeWritable, Authorize, TextFilter,
       ConvertLineFeeds, SelectEncoding, EncodeContent, BinaryFilter, SaveContent,
       NotifyCallback, FilterEnds, WriteToPath, Reply, Cancel, Accept, ChooseEncoding,
       OutsideChange, outside, vars

LEMMA AnsweredStep ==
  ASSUME TypeOK, WrittenAtEnd, AnsweredAtEnd, [Next]_vars
  PROVE  AnsweredAtEnd'
<1>1. CASE answers' = answers /\ (holder' = "nobody" <=> holder = "nobody")
  BY <1>1, WrittenOnce DEF AnsweredAtEnd
<1>2. CASE /\ answers = <<>> /\ holder' = "nobody" /\ wrote' = wrote
           /\ \E a : answers' = Append(answers, a) /\ (a.success => wrote)
  BY <1>2, FirstAnswer DEF AnsweredAtEnd
<1> QED BY <1>1, <1>2, OneAnswer

(* Where other programs leave the file in its folder.                        *)
LEMMA WrittenStep ==
  ASSUME OutsideStatuses \cap {"no parent", "read only"} = {},
         TypeOK, WrittenAtEnd, [Next]_vars
  PROVE  WrittenAtEnd'
<1>1. file \in [status : Statuses, content : {"none", "old", "partial", "new"}]
  BY DEF TypeOK, Files
<1>2. CASE Start
  BY <1>2 DEF Start, Runs, Proceed, Ask, Destroyed, outside, WrittenAtEnd
<1>3. CASE MakeWritable
  BY <1>1, <1>3 DEF MakeWritable, Runs, Proceed, Ask, Destroyed, WrittenAtEnd
<1>4. CASE Authorize
  BY <1>1, <1>4 DEF Authorize, Runs, Proceed, Ask, Destroyed, outside, WrittenAtEnd, Locked
<1> DEFINE before == {"text filters", "newlines", "select encoding", "encode",
                      "binary filters", "save"}
<1>5. ASSUME state \in before, state' \in before, holder = "loop", error' = error,
             holder' \in {"loop", "filter"}, file' = file, wrote' = wrote
      PROVE  WrittenAtEnd'
  BY <1>5 DEF WrittenAtEnd
<1>6. CASE TextFilter \/ BinaryFilter \/ ConvertLineFeeds \/ EncodeContent
  <2>1. /\ state \in before /\ state' \in before /\ holder = "loop"
        /\ holder' \in {"loop", "filter"}
    BY <1>6 DEF TextFilter, BinaryFilter, RunFilter, ConvertLineFeeds, EncodeContent, Runs, Proceed
  <2>2. error' = error /\ file' = file /\ wrote' = wrote
    BY <1>6 DEF TextFilter, BinaryFilter, ConvertLineFeeds, EncodeContent, outside
  <2> QED BY <1>5, <2>1, <2>2
<1>7. CASE SelectEncoding
  BY <1>7 DEF SelectEncoding, Runs, Proceed, Ask, Destroyed, outside, WrittenAtEnd
<1>8. CASE SaveContent
  BY <1>8 DEF SaveContent, Runs, outside, WrittenAtEnd
<1>9. CASE NotifyCallback
  BY <1>9 DEF NotifyCallback, Runs, outside, WrittenAtEnd
<1>10. CASE FilterEnds
  BY <1>10 DEF FilterEnds, Proceed, Destroyed, outside, WrittenAtEnd
<1>11. CASE WriteToPath
  BY <1>1, <1>11 DEF WriteToPath, WriteSucceeds, WriteFails, Written, WrittenAtEnd, Statuses
<1>12. CASE Reply \/ Accept \/ ChooseEncoding
  <2>1. /\ state' = state /\ holder' = "loop" /\ error' = error /\ file' = file
        /\ wrote' = wrote
        /\ holder \in {"reply", "path", "make writable", "parent", "authorization", "charset"}
    BY <1>12 DEF Reply, Accept, ChooseEncoding, Proceed, outside
  <2> QED BY <2>1 DEF WrittenAtEnd
<1>13. CASE Cancel
  BY <1>13 DEF Cancel, Destroyed, outside, WrittenAtEnd
<1>14. CASE OutsideChange
  BY <1>14 DEF OutsideChange, choices, WrittenAtEnd
<1>15. CASE UNCHANGED vars
  BY <1>15 DEF vars, WrittenAtEnd
<1> QED BY <1>2, <1>3, <1>4, <1>6, <1>7, <1>8, <1>9, <1>10, <1>11, <1>12, <1>13, <1>14, <1>15
    DEF Next, Machine

(* The steps of a save are steps of the request, or none. *)
LEMMA RequestInit == Init => Request!Init
BY DEF Init, Request!Init, Answer

LEMMA RequestStep ==
  ASSUME TypeOK, WrittenAtEnd, AnsweredAtEnd, AnsweredAtEnd', [Next]_vars
  PROVE  [Request!Write \/ Request!Succeed \/ Request!Fail]_<<wrote, Answer>>
<1>1. CASE answers' = answers /\ (holder' = "nobody" <=> holder = "nobody")
  <2>1. Answer' = Answer
    BY <1>1 DEF Answer
  <2>2. holder = "worker" => Answer = "none"
    BY DEF AnsweredAtEnd, Answer
  <2>3. wrote' = wrote \/ (~wrote /\ wrote' = TRUE /\ Answer = "none")
    BY <2>2, WrittenOnce, NextType DEF TypeOK
  <2> QED BY <2>1, <2>3 DEF Request!Write
<1>2. ASSUME answers = <<>>, wrote' = wrote, NEW a, answers' = Append(answers, a),
             a.success => wrote
      PROVE  Request!Succeed \/ Request!Fail
  <2>1. Answer = "none"
    BY <1>2 DEF Answer
  <2>2. Answer' = IF a.success THEN "success" ELSE "failure"
    BY <1>2, FirstAnswer DEF Answer
  <2> QED BY <1>2, <2>1, <2>2 DEF Request!Succeed, Request!Fail
<1> QED BY <1>1, <1>2, OneAnswer

(* Where other programs leave the file in its folder, a save implements the  *)
(* request: it is answered at most once, with success only after the file    *)
(* was written, and nothing is written after the answer (save.cc:22-29,      *)
(* 362-370).                                                                 *)
THEOREM SaveImplementsRequest ==
  ASSUME OutsideStatuses \cap {"no parent", "read only"} = {}
  PROVE  Spec => ImplementsRequest
<1>1. TypeOK /\ WrittenAtEnd /\ AnsweredAtEnd /\ [Next]_vars => WrittenAtEnd' /\ AnsweredAtEnd'
  BY AnsweredStep, WrittenStep
<1>2. TypeOK /\ WrittenAtEnd /\ AnsweredAtEnd /\ AnsweredAtEnd' /\ [Next]_vars
        => [Request!Write \/ Request!Succeed \/ Request!Fail]_<<wrote, Answer>>
  BY RequestStep
<1> QED BY <1>1, <1>2, InitAnswered, RequestInit, TypeCorrect, PTL
    DEF Spec, ImplementsRequest, Request!Spec
=============================================================================
