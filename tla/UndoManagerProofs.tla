------------------------- MODULE UndoManagerProofs -------------------------
(***************************************************************************)
(* Theorems about UndoManager, for every alphabet, every set of pieces and *)
(* selections and every bound.  The inductive invariant has three parts:   *)
(*   TextInvariant      each record turns the state before it into the one *)
(*                      after it, and back;                                *)
(*   GroupInvariant     a record opens a group exactly when the position   *)
(*                      before it is the edge of one, so a loop always     *)
(*                      meets an edge before it runs out of records;       *)
(*   RevisionInvariant  a revision never stands for two texts.             *)
(* The last two hold when each group runs one command.  With them, every   *)
(* step is one of UndoHistory or changes nothing there.                    *)
(***************************************************************************)
EXTENDS UndoManager, SequenceTheorems, NaturalsInduction, WellFoundedInduction, TLAPS

(* Record i leads from states[i] to states[i + 1], and undoing it leads back. *)
RecordMatches(i) ==
  LET r == records[i] IN
  /\ states[i + 1] = Splice(states[i], r.pos, r.pos + Len(r.before), r.after)
  /\ states[i] = Splice(states[i + 1], r.pos, r.pos + Len(r.after), r.before)

TextInvariant ==
  /\ UndoRestoresText
  /\ \A i \in 1..Len(records) : RecordMatches(i)

GroupInvariant ==
  /\ nesting = 0 => phase = "idle" /\ changes = 0
  /\ command # "edit" => changes = 0
  /\ phase # "idle" => command = "history"
  /\ nesting > 0 /\ command = "edit" => changes # 0
  /\ changes # 0 => preSelection = NoRanges /\ index = Len(records) /\ ~Boundary(index)
  /\ changes = 0 => Boundary(Len(records))
  /\ AtRest => Boundary(index)
  /\ nesting > 0 /\ command = "none" => preSelection # NoRanges /\ preRevision = revision
  /\ phase = "undoing" => index > 0
  /\ phase = "redoing" => index < Len(records)
  /\ \A i \in 1..Len(records) : records[i].preSelection # NoRanges <=> Boundary(i - 1)

(* The pairs of a revision and the text it stands for, wherever they are kept. *)
Stamps ==
  {<<records[i].preRevision, states[i]>> :
      i \in {j \in 1..Len(records) : records[j].preSelection # NoRanges}}
  \cup {<<records[i].postRevision, states[i + 1]>> :
      i \in {j \in 1..Len(records) : records[j].postSelection # NoRanges}}
  \cup {<<savedRevision, savedText>>}
  \cup (IF AtRest THEN {<<revision, text>>} ELSE {})

RevisionInvariant ==
  /\ revision < nextRevision
  /\ \A p \in Stamps : p[1] < nextRevision
  /\ \A p, q \in Stamps : p[1] = q[1] => p[2] = q[2]

IInv == TypeOK /\ TextInvariant /\ (~CommandLists => GroupInvariant /\ RevisionInvariant)
-----------------------------------------------------------------------------
(* The text operators. *)

(* r is t with the characters from+1 .. to replaced by s. *)
IsSplice(C, t, from, to, s, r) ==
  /\ r \in Seq(C)
  /\ Len(r) = Len(t) - (to - from) + Len(s)
  /\ \A i \in 1..from : r[i] = t[i]
  /\ \A i \in 1..Len(s) : r[from + i] = s[i]
  /\ \A i \in to+1..Len(t) : r[i - (to - from) + Len(s)] = t[i]

(* A splice is a sequence of the expected length, and its elements are      *)
(* those of the prefix, of the inserted string and of the suffix.           *)
LEMMA SpliceElements ==
  ASSUME NEW C, NEW t \in Seq(C), NEW s \in Seq(C),
         NEW from \in 0..Len(t), NEW to \in from..Len(t)
  PROVE  IsSplice(C, t, from, to, s, Splice(t, from, to, s))
<1> DEFINE pre == SubSeq(t, 1, from)
           suf == SubSeq(t, to + 1, Len(t))
           head == pre \o s
           all == head \o suf
<1>1. pre \in Seq(C) /\ Len(pre) = from /\ \A i \in 1..from : pre[i] = t[i]
  BY SubSeqProperties
<1>2. /\ suf \in Seq(C) /\ Len(suf) = Len(t) - to
      /\ \A i \in 1..Len(t) - to : suf[i] = t[to + i]
  BY SubSeqProperties
<1> HIDE DEF pre, suf
<1>3. /\ head \in Seq(C) /\ Len(head) = from + Len(s)
      /\ \A i \in 1..from + Len(s) :
            head[i] = IF i <= from THEN pre[i] ELSE s[i - from]
  BY <1>1, ConcatProperties
<1> HIDE DEF head
<1>4. /\ all \in Seq(C)
      /\ Len(all) = from + Len(s) + (Len(t) - to)
      /\ \A i \in 1..from + Len(s) + (Len(t) - to) :
            all[i] = IF i <= from + Len(s) THEN head[i] ELSE suf[i - (from + Len(s))]
  <2>1. head \in Seq(C) /\ suf \in Seq(C)
    BY <1>2, <1>3
  <2>2. /\ all \in Seq(C) /\ Len(all) = Len(head) + Len(suf)
        /\ \A i \in 1..Len(head) + Len(suf) :
              all[i] = IF i <= Len(head) THEN head[i] ELSE suf[i - Len(head)]
    BY <2>1, ConcatProperties
  <2>3. Len(head) = from + Len(s) /\ Len(suf) = Len(t) - to
    BY <1>2, <1>3
  <2> HIDE DEF all
  <2> QED BY <2>2, <2>3
<1>5. Splice(t, from, to, s) = all
  BY DEF Splice, all, head, pre, suf
<1> HIDE DEF all
<1>n. Len(t) \in Nat /\ Len(s) \in Nat /\ from \in Nat /\ to \in Nat
      /\ from <= to /\ to <= Len(t)
  OBVIOUS
<1>6. ASSUME NEW i \in to+1..Len(t)
      PROVE  all[i - (to - from) + Len(s)] = t[i]
  <2> DEFINE j == i - (to - from) + Len(s)
  <2>1. /\ j \in 1..from + Len(s) + (Len(t) - to) /\ ~(j <= from + Len(s))
        /\ j - (from + Len(s)) = i - to
    BY <1>n
  <2> HIDE DEF j
  <2>2. all[j] = suf[i - to]
    BY <2>1, <1>4
  <2>3. i - to \in 1..Len(t) - to /\ to + (i - to) = i
    BY <1>n
  <2>4. suf[i - to] = t[i]
    BY <2>3, <1>2
  <2> QED BY <2>2, <2>4 DEF j
<1>7. ASSUME NEW i \in 1..Len(s)
      PROVE  all[from + i] = s[i]
  <2> DEFINE j == from + i
  <2>1. /\ j \in 1..from + Len(s) + (Len(t) - to) /\ j <= from + Len(s)
        /\ j \in 1..from + Len(s) /\ ~(j <= from) /\ j - from = i
    BY <1>n
  <2> HIDE DEF j
  <2>2. all[j] = head[j] /\ head[j] = s[j - from]
    BY <2>1, <1>3, <1>4
  <2> QED BY <2>1, <2>2 DEF j
<1>8. ASSUME NEW i \in 1..from
      PROVE  all[i] = t[i]
  <2>1. /\ i \in 1..from + Len(s) + (Len(t) - to) /\ i <= from + Len(s)
        /\ i \in 1..from + Len(s) /\ i <= from
    BY <1>n
  <2> QED BY <2>1, <1>1, <1>3, <1>4
<1>9. IsSplice(C, t, from, to, s, all)
  BY <1>n, <1>4, <1>6, <1>7, <1>8 DEF IsSplice
<1> QED BY <1>5, <1>9

(* Putting back what a splice took out undoes it. *)
LEMMA SpliceInverse ==
  ASSUME NEW C, NEW t \in Seq(C), NEW s \in Seq(C),
         NEW from \in 0..Len(t), NEW to \in from..Len(t)
  PROVE  Splice(Splice(t, from, to, s), from, from + Len(s), SubSeq(t, from + 1, to)) = t
<1> DEFINE u == Splice(t, from, to, s)
           old == SubSeq(t, from + 1, to)
           back == Splice(u, from, from + Len(s), old)
<1>n. /\ Len(t) \in Nat /\ Len(s) \in Nat /\ from \in Nat /\ to \in Nat
      /\ from <= to /\ to <= Len(t)
  OBVIOUS
<1>1. /\ u \in Seq(C)
      /\ Len(u) = Len(t) - (to - from) + Len(s)
      /\ \A i \in 1..from : u[i] = t[i]
      /\ \A i \in 1..Len(s) : u[from + i] = s[i]
      /\ \A i \in to+1..Len(t) : u[i - (to - from) + Len(s)] = t[i]
  BY SpliceElements DEF IsSplice
<1>2. /\ old \in Seq(C) /\ Len(old) = to - from
      /\ \A i \in 1..to - from : old[i] = t[from + i]
  BY <1>n, SubSeqProperties
<1>o. old = SubSeq(t, from + 1, to)
  OBVIOUS
<1>u. u = Splice(t, from, to, s)
  OBVIOUS
<1> HIDE DEF u, old
<1>3. /\ from \in 0..Len(u) /\ from + Len(s) \in from..Len(u)
      /\ u \in Seq(C) /\ old \in Seq(C)
  BY <1>1, <1>2, <1>n
<1>4. /\ back \in Seq(C)
      /\ Len(back) = Len(u) - (from + Len(s) - from) + Len(old)
      /\ \A i \in 1..from : back[i] = u[i]
      /\ \A i \in 1..Len(old) : back[from + i] = old[i]
      /\ \A i \in (from + Len(s))+1..Len(u) :
            back[i - (from + Len(s) - from) + Len(old)] = u[i]
  <2>1. IsSplice(C, u, from, from + Len(s), old, back)
    BY <1>3, SpliceElements
  <2> QED BY <2>1 DEF IsSplice
<1>b. back = Splice(u, from, from + Len(s), old)
  OBVIOUS
<1> HIDE DEF back
<1>5. Len(back) = Len(t)
  BY <1>n, <1>1, <1>2, <1>4
<1>6. ASSUME NEW i \in 1..Len(t)
      PROVE  back[i] = t[i]
  <2>1. CASE i <= from
    BY <2>1, <1>1, <1>4, <1>n
  <2>2. CASE from < i /\ i <= to
    <3> DEFINE j == i - from
    <3>1. j \in 1..Len(old) /\ j \in 1..to - from /\ from + j = i
      BY <2>2, <1>2, <1>n
    <3> HIDE DEF j
    <3>2. back[from + j] = old[j] /\ old[j] = t[from + j]
      BY <3>1, <1>2, <1>4
    <3> QED BY <3>1, <3>2
  <2>3. CASE to < i
    <3> DEFINE j == i - (to - from) + Len(s)
    <3>1. j \in (from + Len(s))+1..Len(u) /\ i \in to+1..Len(t)
      BY <2>3, <1>1, <1>n
    <3>2. j - (from + Len(s) - from) + Len(old) = i
      BY <1>2, <1>n
    <3>3. u[j] = t[i]
      BY <3>1, <1>1
    <3> HIDE DEF j
    <3>4. back[j - (from + Len(s) - from) + Len(old)] = u[j]
      BY <3>1, <1>4
    <3> QED BY <3>2, <3>3, <3>4
  <2> QED BY <2>1, <2>2, <2>3, <1>n
<1>7. back = t
  BY <1>4, <1>5, <1>6, SeqEqual
<1> QED BY <1>7, <1>u, <1>o, <1>b
(* Dropping the elements of a sequence after the n-th and adding one. *)
LEMMA TruncateAppend ==
  ASSUME NEW S, NEW q \in Seq(S), NEW n \in 0..Len(q), NEW e \in S
  PROVE  LET r == Append(SubSeq(q, 1, n), e) IN
         /\ r \in Seq(S) /\ Len(r) = n + 1
         /\ \A i \in 1..n : r[i] = q[i]
         /\ r[n + 1] = e
<1> DEFINE p == SubSeq(q, 1, n)
<1>1. p \in Seq(S) /\ Len(p) = n /\ \A i \in 1..n : p[i] = q[i]
  BY SubSeqProperties
<1> HIDE DEF p
<1>2. /\ Append(p, e) \in Seq(S) /\ Len(Append(p, e)) = n + 1
      /\ \A i \in 1..n : Append(p, e)[i] = p[i]
      /\ Append(p, e)[n + 1] = e
  BY <1>1, AppendProperties
<1> QED BY <1>1, <1>2 DEF p

-----------------------------------------------------------------------------
(* Types, and the text at each position. *)

LEMMA InitTypeAndText == Init => TypeOK /\ TextInvariant
<1> SUFFICES ASSUME Init PROVE TypeOK /\ TextInvariant
  OBVIOUS
<1>1. <<>> \in Text /\ <<>> \in Seq(RecordType) /\ << <<>> >> \in Seq(Text)
  BY DEF Text
<1>2. Len(records) = 0 /\ Len(states) = 1 /\ states[1] = <<>>
  BY DEF Init
<1>3. TypeOK
  BY <1>1, <1>2 DEF Init, TypeOK
<1> QED BY <1>2, <1>3 DEF Init, TextInvariant, UndoRestoresText

(* What a replacement puts in, takes out and records is of the right types. *)
LEMMA ReplaceTypes ==
  ASSUME TypeOK, NEW from \in 0..Len(text), NEW to \in 0..Len(text), NEW s \in Pieces,
         from <= to
  PROVE  /\ text \in Text /\ s \in Text /\ to \in from..Len(text)
         /\ from \in Nat /\ to \in Nat /\ Len(text) \in Nat
         /\ SubSeq(text, from + 1, to) \in Text
         /\ Len(SubSeq(text, from + 1, to)) = to - from
         /\ Splice(text, from, to, s) \in Text
         /\ Record(from, to, s) \in RecordType
<1>1. text \in Seq(Chars) /\ s \in Seq(Chars)
  BY UndoAssumption DEF TypeOK, Text, Chars
<1>2. Len(text) \in Nat
  BY <1>1
<1>3. from \in Nat /\ to \in Nat /\ to \in from..Len(text)
  BY <1>2
<1>4. /\ SubSeq(text, from + 1, to) \in Seq(Chars)
      /\ Len(SubSeq(text, from + 1, to)) = to - from
  BY <1>1, <1>2, <1>3, SubSeqProperties
<1>5. Splice(text, from, to, s) \in Seq(Chars)
  BY <1>1, <1>3, SpliceElements DEF IsSplice
<1>6. preSelection \in Ranges \cup {NoRanges} /\ preRevision \in Nat
  BY DEF TypeOK
<1>7. Record(from, to, s) \in RecordType
  BY <1>1, <1>3, <1>4, <1>6 DEF Record, RecordType, Text
<1> QED BY <1>1, <1>2, <1>3, <1>4, <1>5, <1>7 DEF Text

LEMMA ReplaceTypeAndText ==
  ASSUME TypeOK, TextInvariant, NEW from \in 0..Len(text), NEW to \in 0..Len(text),
         NEW s \in Pieces, Replace(from, to, s)
  PROVE  TypeOK' /\ TextInvariant'
<1> DEFINE u == Splice(text, from, to, s)
           r == Record(from, to, s)
<1>0. from <= to
  BY DEF Replace
<1>1. /\ text \in Text /\ s \in Text /\ from <= to /\ to \in from..Len(text)
      /\ from \in Nat /\ to \in Nat /\ Len(text) \in Nat
  BY <1>0, ReplaceTypes
<1>2. u \in Text
  BY <1>0, ReplaceTypes
<1>3. /\ SubSeq(text, from + 1, to) \in Text
      /\ Len(SubSeq(text, from + 1, to)) = to - from
  BY <1>0, ReplaceTypes
<1>4. r \in RecordType
  BY <1>0, ReplaceTypes
<1>5. Splice(u, from, from + Len(s), SubSeq(text, from + 1, to)) = text
  BY <1>1, SpliceInverse DEF Text
<1>6. /\ r.pos = from /\ r.before = SubSeq(text, from + 1, to) /\ r.after = s
  BY DEF Record
<1>7. from + (to - from) = to
  BY <1>1
<1>8. /\ u = Splice(text, r.pos, r.pos + Len(r.before), r.after)
      /\ text = Splice(u, r.pos, r.pos + Len(r.after), r.before)
  BY <1>3, <1>5, <1>6, <1>7
<1>9. /\ text' = u /\ index' = index + 1
      /\ records' = Append(SubSeq(records, 1, index), r)
      /\ states' = Append(SubSeq(states, 1, index + 1), u)
  BY DEF Replace
<1> HIDE DEF u, r
<1>10. /\ records \in Seq(RecordType) /\ index \in 0..Len(records)
       /\ states \in Seq(Text) /\ index + 1 \in 0..Len(states)
       /\ Len(records) \in Nat /\ index \in Nat
  BY DEF TypeOK, TextInvariant, UndoRestoresText
<1>11. /\ records' \in Seq(RecordType) /\ Len(records') = index + 1
       /\ \A i \in 1..index : records'[i] = records[i]
       /\ records'[index + 1] = r
  BY <1>4, <1>9, <1>10, TruncateAppend
<1>12. /\ states' \in Seq(Text) /\ Len(states') = (index + 1) + 1
       /\ \A i \in 1..index + 1 : states'[i] = states[i]
       /\ states'[(index + 1) + 1] = u
  BY <1>2, <1>9, <1>10, TruncateAppend
<1>13. UndoRestoresText'
  BY <1>9, <1>10, <1>11, <1>12 DEF UndoRestoresText
<1>14. ASSUME NEW i \in 1..Len(records')
       PROVE  RecordMatches(i)'
  <2>1. CASE i \in 1..index
    <3>1. RecordMatches(i)
      BY <2>1, <1>10 DEF TextInvariant
    <3>2. i \in 1..index + 1 /\ i + 1 \in 1..index + 1
      BY <2>1, <1>10
    <3>3. records'[i] = records[i]
      BY <2>1, <1>11
    <3>4. states'[i] = states[i] /\ states'[i + 1] = states[i + 1]
      BY <3>2, <1>12
    <3> QED BY <3>1, <3>3, <3>4 DEF RecordMatches
  <2>2. CASE i = index + 1
    <3>1. states'[i] = text
      BY <2>2, <1>10, <1>12 DEF TextInvariant, UndoRestoresText
    <3> QED BY <2>2, <3>1, <1>8, <1>11, <1>12 DEF RecordMatches
  <2> QED BY <2>1, <2>2, <1>10, <1>11
<1>15. TypeOK'
  BY <1>1, <1>2, <1>9, <1>10, <1>11, <1>12 DEF TypeOK, Replace, savedVars
<1> QED BY <1>13, <1>14, <1>15 DEF TextInvariant

(* Closing a group changes no text and no record's text. *)
LEMMA EndKeepsTexts ==
  ASSUME TypeOK, NEW ranges \in Ranges, EndUndoGroup(ranges)
  PROVE  /\ records' \in Seq(RecordType) /\ Len(records') = Len(records)
         /\ \A i \in 1..Len(records) :
               /\ records'[i].pos = records[i].pos
               /\ records'[i].before = records[i].before
               /\ records'[i].after = records[i].after
<1>1. /\ records \in Seq(RecordType) /\ Len(records) \in Nat
      /\ index \in 0..Len(records) /\ nextRevision \in Nat
  BY DEF TypeOK
<1>2. CASE ~(nesting = 1 /\ changes # 0)
  BY <1>1, <1>2 DEF EndUndoGroup
<1>3. CASE nesting = 1 /\ changes # 0
  <2>2. records' = [records EXCEPT ![index] = Closed(records[index], ranges)]
    BY <1>3 DEF EndUndoGroup
  <2>3. ASSUME NEW q \in RecordType
        PROVE  /\ Closed(q, ranges) \in RecordType
               /\ Closed(q, ranges).pos = q.pos
               /\ Closed(q, ranges).before = q.before
               /\ Closed(q, ranges).after = q.after
    BY <1>1 DEF RecordType, Closed
  <2>4. CASE index = 0
    <3>1. records = [i \in 1..Len(records) |-> records[i]]
      BY <1>1
    <3>2. 0 \notin 1..Len(records) /\ DOMAIN records = 1..Len(records)
      BY <1>1
    <3>3. records' = [i \in 1..Len(records) |->
                         IF i = 0 THEN Closed(records[index], ranges) ELSE records[i]]
      BY <2>2, <2>4, <3>2, Zenon
    <3>4. records' = [i \in 1..Len(records) |-> records[i]]
      BY <3>2, <3>3
    <3> QED BY <1>1, <3>1, <3>4
  <2>5. CASE index \in 1..Len(records)
    <3>1. Closed(records[index], ranges) \in RecordType
      BY <1>1, <2>3, <2>5
    <3>2. /\ records' \in Seq(RecordType) /\ Len(records') = Len(records)
          /\ \A i \in 1..Len(records) :
                records'[i] = IF i = index THEN Closed(records[index], ranges)
                                           ELSE records[i]
      BY <1>1, <2>2, <2>5, <3>1, ExceptSeq
    <3> QED BY <1>1, <2>3, <2>5, <3>2
  <2> QED BY <1>1, <2>4, <2>5
<1> QED BY <1>2, <1>3

LEMMA EndTypeAndText ==
  ASSUME TypeOK, TextInvariant, NEW ranges \in Ranges, EndUndoGroup(ranges)
  PROVE  TypeOK' /\ TextInvariant'
<1>1. /\ records' \in Seq(RecordType) /\ Len(records') = Len(records)
      /\ \A i \in 1..Len(records) :
            /\ records'[i].pos = records[i].pos
            /\ records'[i].before = records[i].before
            /\ records'[i].after = records[i].after
  BY EndKeepsTexts
<1>2. UNCHANGED <<text, index, states>>
  BY DEF EndUndoGroup
<1>3. TypeOK'
  BY <1>1, <1>2 DEF TypeOK, EndUndoGroup, savedVars
<1> QED BY <1>1, <1>2, <1>3 DEF TextInvariant, UndoRestoresText, RecordMatches

LEMMA IterationTypeAndText ==
  ASSUME TypeOK, TextInvariant, UndoIteration \/ RedoIteration
  PROVE  TypeOK' /\ TextInvariant'
<1>1. /\ records \in Seq(RecordType) /\ index \in 0..Len(records)
      /\ states \in Seq(Text) /\ Len(states) = Len(records) + 1
      /\ Len(records) \in Nat /\ text = states[index + 1]
      /\ nextRevision \in Nat
  BY DEF TypeOK, TextInvariant, UndoRestoresText
<1>2. CASE UndoIteration
  <2> DEFINE r == records[index]
  <2>1. /\ index \in 1..Len(records) /\ r \in RecordType /\ index' = index - 1
        /\ UNCHANGED <<records, states>>
        /\ text' = Splice(text, r.pos, r.pos + Len(r.after), r.before)
    BY <1>1, <1>2 DEF UndoIteration, LoopEnds
  <2>2. text' = states[index]
    BY <1>1, <2>1 DEF TextInvariant, RecordMatches
  <2>3. UndoRestoresText'
    BY <1>1, <2>1, <2>2 DEF UndoRestoresText
  <2>4. r.preRevision \in Nat
    BY <2>1 DEF RecordType
  <2>5. TypeOK'
    BY <1>1, <1>2, <2>1, <2>2, <2>4 DEF TypeOK, UndoIteration, LoopEnds, savedVars
  <2> QED BY <2>1, <2>3, <2>5 DEF TextInvariant, RecordMatches
<1>3. CASE RedoIteration
  <2> DEFINE r == records[index + 1]
  <2>1. /\ index + 1 \in 1..Len(records) /\ r \in RecordType /\ index' = index + 1
        /\ UNCHANGED <<records, states>>
        /\ text' = Splice(text, r.pos, r.pos + Len(r.before), r.after)
    BY <1>1, <1>3 DEF RedoIteration, LoopEnds
  <2>2. text' = states[(index + 1) + 1]
    BY <1>1, <2>1 DEF TextInvariant, RecordMatches
  <2>3. UndoRestoresText'
    BY <1>1, <2>1, <2>2 DEF UndoRestoresText
  <2>4. r.postRevision \in Nat
    BY <2>1 DEF RecordType
  <2>5. TypeOK'
    BY <1>1, <1>3, <2>1, <2>2, <2>4 DEF TypeOK, RedoIteration, LoopEnds, savedVars
  <2> QED BY <2>1, <2>3, <2>5 DEF TextInvariant, RecordMatches
<1> QED BY <1>2, <1>3

LEMMA NextTypeAndText ==
  TypeOK /\ TextInvariant /\ [Next]_vars => TypeOK' /\ TextInvariant'
<1> SUFFICES ASSUME TypeOK, TextInvariant, [Next]_vars
             PROVE  TypeOK' /\ TextInvariant'
  OBVIOUS
<1>1. CASE UNCHANGED <<text, records, index, states>> /\ TypeOK'
  BY <1>1 DEF TextInvariant, UndoRestoresText, RecordMatches
<1>2. ASSUME NEW ranges \in Ranges, BeginUndoGroup(ranges)
      PROVE  UNCHANGED <<text, records, index, states>> /\ TypeOK'
  BY <1>2 DEF BeginUndoGroup, TypeOK, bufferVars, recordVars, savedVars
<1>3. ASSUME Undo \/ Redo
      PROVE  UNCHANGED <<text, records, index, states>> /\ TypeOK'
  BY <1>3 DEF Undo, Redo, TypeOK, bufferVars, recordVars, savedVars
<1>5. ASSUME MarkSaved
      PROVE  UNCHANGED <<text, records, index, states>> /\ TypeOK'
  BY <1>5 DEF MarkSaved, TypeOK, bufferVars, recordVars, groupVars
<1>6. ASSUME UNCHANGED vars
      PROVE  UNCHANGED <<text, records, index, states>> /\ TypeOK'
  BY <1>6 DEF TypeOK, vars
<1> QED BY <1>1, <1>2, <1>3, <1>5, <1>6, ReplaceTypeAndText,
           EndTypeAndText, IterationTypeAndText DEF Next

(* The state keeps its types and the position stays inside the records. *)
THEOREM TypeCorrect == Spec => []TypeOK
<1>1. Spec => [](TypeOK /\ TextInvariant)
  BY InitTypeAndText, NextTypeAndText, PTL DEF Spec
<1> QED BY <1>1, PTL

(* Undo and redo restore the text exactly, for every alphabet and every way *)
(* of grouping commands: UndoRestoresText holds in every reachable state.   *)
THEOREM UndoExact == Spec => []UndoRestoresText
<1>1. Spec => [](TypeOK /\ TextInvariant)
  BY InitTypeAndText, NextTypeAndText, PTL DEF Spec
<1>2. TypeOK /\ TextInvariant => UndoRestoresText
  BY DEF TextInvariant
<1> QED BY <1>1, <1>2, PTL

-----------------------------------------------------------------------------
(* Groups: no loop meets the end of the records.                            *)

LEMMA InitGroup == Init => GroupInvariant
<1> SUFFICES ASSUME Init PROVE GroupInvariant
  OBVIOUS
<1>1. Len(records) = 0
  BY DEF Init
<1> QED BY <1>1 DEF Init, GroupInvariant, Boundary, AtRest

LEMMA ReplaceGroup ==
  ASSUME ~CommandLists, TypeOK, TextInvariant, GroupInvariant,
         NEW from \in 0..Len(text), NEW to \in 0..Len(text),
         NEW s \in Pieces, Replace(from, to, s), TypeOK'
  PROVE  GroupInvariant'
<1> DEFINE r == Record(from, to, s)
<1>1. /\ records \in Seq(RecordType) /\ index \in 0..Len(records)
      /\ Len(records) \in Nat /\ index \in Nat /\ changes \in Nat
      /\ nesting \in Nat /\ nesting > 0 /\ phase = "idle"
      /\ command \in {"none", "edit"}
      /\ index' = index + 1 /\ changes' = changes + 1 /\ command' = "edit"
      /\ preSelection' = NoRanges /\ nesting' = nesting /\ phase' = phase
      /\ records' = Append(SubSeq(records, 1, index), r)
  BY DEF TypeOK, Replace
<1>2. /\ r.preSelection = preSelection /\ r.postSelection = NoRanges
  BY DEF Record
<1>3. r \in RecordType
  <2>1. from <= to
    BY DEF Replace
  <2> QED BY <2>1, ReplaceTypes
<1> HIDE DEF r
<1>4. /\ Len(records') = index + 1
      /\ \A i \in 1..index : records'[i] = records[i]
      /\ records'[index + 1] = r
  BY <1>1, <1>3, TruncateAppend
<1>5. preSelection # NoRanges <=> Boundary(index)
  BY <1>1 DEF GroupInvariant, AtRest
<1>6. ASSUME NEW i \in 0..index
      PROVE  Boundary(i)' <=> Boundary(i)
  <2>1. i = 0 \/ i \in 1..index
    BY <1>1
  <2> QED BY <2>1, <1>4 DEF Boundary
<1>7. ASSUME NEW i \in 1..Len(records')
      PROVE  (records[i].preSelection # NoRanges <=> Boundary(i - 1))'
  <2>1. CASE i \in 1..index
    <3>1. i \in 1..Len(records) /\ i - 1 \in 0..index
      BY <2>1, <1>1
    <3>2. records'[i] = records[i] /\ (Boundary(i - 1)' <=> Boundary(i - 1))
      BY <2>1, <3>1, <1>4, <1>6
    <3> QED BY <3>1, <3>2 DEF GroupInvariant
  <2>2. CASE i = index + 1
    <3>1. i - 1 = index /\ index \in 0..index
      BY <2>2, <1>1
    <3>2. Boundary(i - 1)' <=> Boundary(index)
      BY <3>1, <1>6
    <3> QED BY <2>2, <3>2, <1>2, <1>4, <1>5
  <2> QED BY <2>1, <2>2, <1>1, <1>4
<1>8. ~Boundary(index)' /\ index' = Len(records')
  BY <1>1, <1>2, <1>4 DEF Boundary
<1>9. changes' # 0
  BY <1>1
<1> QED BY <1>1, <1>7, <1>8, <1>9 DEF GroupInvariant, AtRest

LEMMA EndGroup ==
  ASSUME TypeOK, GroupInvariant, NEW ranges \in Ranges, EndUndoGroup(ranges)
  PROVE  GroupInvariant'
<1>1. CASE nesting = 1 /\ changes # 0
  <2>1. /\ records \in Seq(RecordType) /\ Len(records) \in Nat
        /\ index = Len(records) /\ index # 0 /\ phase = "idle"
        /\ index \in 1..Len(records)
    BY <1>1 DEF TypeOK, GroupInvariant, Boundary
  <2>2. /\ records' = [records EXCEPT ![index] = Closed(records[index], ranges)]
        /\ nesting' = 0 /\ changes' = 0
        /\ UNCHANGED <<index, phase, command, preSelection>>
    BY <1>1 DEF EndUndoGroup
  <2>3. /\ Len(records') = Len(records)
        /\ records'[index] = Closed(records[index], ranges)
        /\ \A i \in 1..Len(records) : i # index => records'[i] = records[i]
    <3>1. ASSUME NEW q \in RecordType PROVE Closed(q, ranges) \in RecordType
      BY DEF RecordType, Closed, TypeOK
    <3>2. Closed(records[index], ranges) \in RecordType
      BY <2>1, <3>1
    <3> QED BY <2>1, <2>2, <3>2, ExceptSeq
  <2>4. /\ records'[index].postSelection = ranges
        /\ records'[index].preSelection = records[index].preSelection
    <3>1. records[index] \in RecordType
      BY <2>1
    <3> QED BY <2>3, <3>1 DEF Closed, RecordType
  <2>5. Boundary(index)'
    BY <2>2, <2>4, UndoAssumption DEF Boundary
  <2>6. ASSUME NEW i \in 1..Len(records')
        PROVE  (records[i].preSelection # NoRanges <=> Boundary(i - 1))'
    <3>1. /\ i \in 1..Len(records) /\ i - 1 # index
          /\ i - 1 = 0 \/ i - 1 \in 1..Len(records)
      BY <2>1, <2>3
    <3>2. Boundary(i - 1)' <=> Boundary(i - 1)
      BY <2>3, <3>1 DEF Boundary
    <3>3. records'[i].preSelection = records[i].preSelection
      BY <2>3, <2>4, <3>1
    <3> QED BY <3>1, <3>2, <3>3 DEF GroupInvariant
  <2> QED BY <2>1, <2>2, <2>3, <2>5, <2>6 DEF GroupInvariant, AtRest
<1>2. CASE ~(nesting = 1 /\ changes # 0)
  <2>1. /\ UNCHANGED <<records, index, phase, changes, command, preSelection,
                       preRevision, revision>>
        /\ nesting' = nesting - 1 /\ nesting > 0 /\ nesting \in Nat
        /\ phase = "idle"
    BY <1>2 DEF EndUndoGroup, TypeOK
  <2>2. nesting' = 0 => changes' = 0
    BY <1>2, <2>1
  <2> QED BY <2>1, <2>2 DEF GroupInvariant, AtRest, Boundary
<1> QED BY <1>1, <1>2

LEMMA IterationGroup ==
  ASSUME TypeOK, GroupInvariant, UndoIteration \/ RedoIteration
  PROVE  GroupInvariant'
<1>1. /\ index \in 0..Len(records) /\ Len(records) \in Nat /\ nesting \in Nat
      /\ changes = 0 /\ command = "history" /\ nesting # 0
      /\ Boundary(Len(records))
  BY DEF TypeOK, GroupInvariant, UndoIteration, RedoIteration
<1>2. CASE UndoIteration
  <2> DEFINE done == /\ records[index].preSelection # NoRanges
                     /\ ~UndoMergesAt(index)
  <2>1. /\ phase = "undoing" /\ index \in 1..Len(records) /\ index' = index - 1
        /\ phase' = IF done THEN "idle" ELSE phase
        /\ changes' = IF done THEN 0 ELSE changes
        /\ UNCHANGED <<records, nesting, command>>
    BY <1>1, <1>2 DEF UndoIteration, LoopEnds
  <2>2. ~done => index > 1
    BY <1>1, <2>1 DEF GroupInvariant, Boundary, UndoMergesAt
  <2>3. done => Boundary(index - 1)
    BY <2>1 DEF GroupInvariant
  <2> HIDE DEF done
  <2>4. changes' = 0 /\ (done => phase' = "idle") /\ (~done => phase' = "undoing")
    BY <1>1, <2>1
  <2>5. Boundary(index)' <=> Boundary(index - 1)
    BY <2>1 DEF Boundary
  <2>6. /\ phase' = "undoing" => index' > 0
        /\ phase' = "redoing" => index' < Len(records')
    BY <2>1, <2>2, <2>4
  <2>7. AtRest' => Boundary(index)'
    BY <2>3, <2>4, <2>5 DEF AtRest
  <2>8. \A i \in 0..Len(records) : Boundary(i)' <=> Boundary(i)
    BY <2>1 DEF Boundary
  <2>9. UNCHANGED <<records, nesting, command>> /\ changes' = 0
    BY <2>1, <2>4
  <2> QED BY <1>1, <2>6, <2>7, <2>8, <2>9 DEF GroupInvariant
<1>3. CASE RedoIteration
  <2> DEFINE done == /\ records[index + 1].postSelection # NoRanges
                     /\ ~RedoMergesAt(index + 1)
  <2>1. /\ phase = "redoing" /\ index + 1 \in 1..Len(records) /\ index' = index + 1
        /\ phase' = IF done THEN "idle" ELSE phase
        /\ changes' = IF done THEN 0 ELSE changes
        /\ UNCHANGED <<records, nesting, command>>
    BY <1>1, <1>3 DEF RedoIteration, LoopEnds
  <2>2. ~done => index + 1 < Len(records)
    BY <1>1, <2>1 DEF Boundary, RedoMergesAt
  <2>3. done => Boundary(index + 1)
    BY <2>1 DEF Boundary
  <2> HIDE DEF done
  <2>4. changes' = 0 /\ (done => phase' = "idle") /\ (~done => phase' = "redoing")
    BY <1>1, <2>1
  <2>5. Boundary(index)' <=> Boundary(index + 1)
    BY <2>1 DEF Boundary
  <2> QED BY <1>1, <2>1, <2>2, <2>3, <2>4, <2>5 DEF GroupInvariant, AtRest, Boundary
<1> QED BY <1>2, <1>3

LEMMA NextGroup ==
  ASSUME ~CommandLists, TypeOK, TextInvariant, GroupInvariant, [Next]_vars, TypeOK'
  PROVE  GroupInvariant'
<1>1. ASSUME NEW ranges \in Ranges, BeginUndoGroup(ranges) PROVE GroupInvariant'
  <2>1. nesting \in Nat /\ nesting' = nesting + 1 /\ ranges # NoRanges
    BY <1>1, UndoAssumption DEF BeginUndoGroup, TypeOK
  <2>2. UNCHANGED <<records, index, phase, revision>>
    BY <1>1 DEF BeginUndoGroup, recordVars, bufferVars
  <2>3. CASE nesting = 0
    <3>1. /\ preSelection' = ranges /\ preRevision' = revision /\ changes' = 0
          /\ command' = "none" /\ changes = 0 /\ phase = "idle"
      BY <1>1, <2>3 DEF BeginUndoGroup, GroupInvariant
    <3> QED BY <2>1, <2>2, <2>3, <3>1 DEF GroupInvariant, AtRest, Boundary
  <2>4. CASE nesting # 0
    <3>1. UNCHANGED <<preSelection, preRevision, changes, command>> /\ nesting > 0
      BY <1>1, <2>1, <2>4 DEF BeginUndoGroup
    <3> QED BY <2>1, <2>2, <3>1 DEF GroupInvariant, AtRest, Boundary
  <2> QED BY <2>3, <2>4
<1>2. ASSUME Undo \/ Redo PROVE GroupInvariant'
  <2>1. /\ UNCHANGED <<records, index, nesting, changes, preSelection, preRevision, revision>>
        /\ command = "none" /\ command' = "history" /\ nesting > 0 /\ nesting \in Nat
        /\ index \in 0..Len(records) /\ Len(records) \in Nat
        /\ \/ phase' = "undoing" /\ index # 0
           \/ phase' = "redoing" /\ index # Len(records)
    BY <1>2 DEF Undo, Redo, MayRunHistoryCommand, CanUndo, CanRedo, recordVars,
                bufferVars, TypeOK
  <2>2. changes' = 0 /\ phase' # "idle"
    BY <2>1 DEF GroupInvariant
  <2>3. phase' = "undoing" => index > 0
    BY <2>1
  <2>4. phase' = "redoing" => index < Len(records)
    BY <2>1
  <2> QED BY <2>1, <2>2, <2>3, <2>4 DEF GroupInvariant, AtRest, Boundary
<1>4. ASSUME MarkSaved PROVE GroupInvariant'
  BY <1>4 DEF MarkSaved, GroupInvariant, AtRest, Boundary, bufferVars, recordVars, groupVars
<1>5. ASSUME UNCHANGED vars PROVE GroupInvariant'
  BY <1>5 DEF vars, GroupInvariant, AtRest, Boundary
<1> QED BY <1>1, <1>2, <1>4, <1>5, ReplaceGroup, EndGroup, IterationGroup DEF Next

-----------------------------------------------------------------------------
(* Revisions: none ever stands for two texts.                               *)

LEMMA InitRevision == Init => RevisionInvariant
<1> SUFFICES ASSUME Init PROVE RevisionInvariant
  OBVIOUS
<1>1. Len(records) = 0
  BY DEF Init
<1>2. Stamps = {<<1, <<>> >>}
  BY <1>1 DEF Init, Stamps, AtRest
<1> QED BY <1>2 DEF Init, RevisionInvariant

LEMMA StampNumbers ==
  ASSUME TypeOK, NEW p \in Stamps
  PROVE  p[1] \in Nat
<1>1. ASSUME NEW i \in 1..Len(records)
      PROVE  records[i].preRevision \in Nat /\ records[i].postRevision \in Nat
  <2>1. records[i] \in RecordType
    BY DEF TypeOK
  <2> QED BY <2>1 DEF RecordType
<1> QED BY <1>1 DEF Stamps, TypeOK

(* A step after which the stamps are old ones, or old ones and one for the   *)
(* revision that is given out in it.                                        *)
LEMMA StampsKept ==
  ASSUME TypeOK, RevisionInvariant, nextRevision' = nextRevision,
         revision' < nextRevision, Stamps' \subseteq Stamps
  PROVE  RevisionInvariant'
BY DEF RevisionInvariant

LEMMA StampsGrow ==
  ASSUME TypeOK, RevisionInvariant, nextRevision' = nextRevision + 1,
         revision' = nextRevision,
         Stamps' \subseteq Stamps \cup {<<nextRevision, text>>}
  PROVE  RevisionInvariant'
<1>1. nextRevision \in Nat
  BY DEF TypeOK
<1>2. ASSUME NEW p \in Stamps'
      PROVE  p[1] < nextRevision'
  <2>1. CASE p \in Stamps
    <3>1. p[1] \in Nat /\ p[1] < nextRevision
      BY <2>1, StampNumbers DEF RevisionInvariant
    <3> QED BY <1>1, <3>1
  <2>2. CASE p = <<nextRevision, text>>
    BY <1>1, <2>2
  <2> QED BY <1>2, <2>1, <2>2
<1>3. ASSUME NEW p \in Stamps', NEW q \in Stamps', p[1] = q[1]
      PROVE  p[2] = q[2]
  <2>1. CASE p \in Stamps /\ q \in Stamps
    BY <1>3, <2>1 DEF RevisionInvariant
  <2>2. CASE p = <<nextRevision, text>> /\ q = <<nextRevision, text>>
    BY <2>2
  <2>3. ASSUME NEW x \in Stamps PROVE x[1] # nextRevision
    BY <1>1, StampNumbers DEF RevisionInvariant
  <2> QED BY <1>3, <2>1, <2>2, <2>3
<1>4. revision' < nextRevision'
  BY <1>1
<1> QED BY <1>2, <1>3, <1>4 DEF RevisionInvariant

LEMMA ReplaceRevision ==
  ASSUME ~CommandLists, TypeOK, TextInvariant, GroupInvariant, RevisionInvariant,
         NEW from \in 0..Len(text), NEW to \in 0..Len(text),
         NEW s \in Pieces, Replace(from, to, s), TypeOK'
  PROVE  RevisionInvariant'
<1> DEFINE r == Record(from, to, s)
           u == Splice(text, from, to, s)
<1>1. /\ records \in Seq(RecordType) /\ index \in 0..Len(records)
      /\ Len(records) \in Nat /\ index \in Nat /\ changes \in Nat
      /\ states \in Seq(Text) /\ Len(states) = Len(records) + 1
      /\ text = states[index + 1] /\ changes' = changes + 1
      /\ UNCHANGED <<revision, nextRevision, savedRevision, savedText>>
      /\ records' = Append(SubSeq(records, 1, index), r)
      /\ states' = Append(SubSeq(states, 1, index + 1), u)
      /\ nextRevision \in Nat
  BY DEF TypeOK, Replace, TextInvariant, UndoRestoresText, savedVars
<1>2. /\ r.preSelection = preSelection /\ r.preRevision = preRevision
      /\ r.postSelection = NoRanges
  BY DEF Record
<1>3. r \in RecordType /\ u \in Text
  <2>1. from <= to
    BY DEF Replace
  <2> QED BY <2>1, ReplaceTypes
<1> HIDE DEF r, u
<1>4. /\ Len(records') = index + 1
      /\ \A i \in 1..index : records'[i] = records[i]
      /\ records'[index + 1] = r
  <2>1. records \in Seq(RecordType) /\ index \in 0..Len(records) /\ r \in RecordType
    BY <1>1, <1>3
  <2>2. LET q == Append(SubSeq(records, 1, index), r) IN
        /\ Len(q) = index + 1
        /\ \A i \in 1..index : q[i] = records[i]
        /\ q[index + 1] = r
    BY <2>1, TruncateAppend
  <2> QED BY <1>1, <2>2
<1>5. index + 1 \in 0..Len(states)
  BY <1>1
<1>6. \A i \in 1..index + 1 : states'[i] = states[i]
  <2>1. states \in Seq(Text) /\ u \in Text
    BY <1>1, <1>3
  <2>2. LET q == Append(SubSeq(states, 1, index + 1), u) IN
        \A i \in 1..index + 1 : q[i] = states[i]
    BY <1>5, <2>1, TruncateAppend
  <2> QED BY <1>1, <2>2
<1>7. preSelection # NoRanges => <<preRevision, text>> \in Stamps
  <2>1. preSelection # NoRanges => AtRest /\ preRevision = revision
    BY DEF GroupInvariant, AtRest, Replace, TypeOK
  <2> QED BY <2>1 DEF Stamps
<1>8. ~AtRest'
  BY <1>1 DEF AtRest
<1>9. ASSUME NEW i \in 1..Len(records'), records'[i].preSelection # NoRanges
      PROVE  <<records'[i].preRevision, states'[i]>> \in Stamps
  <2>0. i \in 1..index + 1 /\ states'[i] = states[i]
    BY <1>4, <1>6
  <2>1. CASE i \in 1..index
    <3>1. records'[i] = records[i] /\ i \in 1..Len(records)
      BY <2>1, <1>1, <1>4
    <3> QED BY <1>9, <2>0, <3>1 DEF Stamps
  <2>2. CASE i = index + 1
    BY <1>9, <2>0, <2>2, <1>1, <1>2, <1>4, <1>7
  <2>3. i \in 1..index \/ i = index + 1
    BY <2>0, <1>1
  <2> QED BY <2>1, <2>2, <2>3
<1>10. ASSUME NEW i \in 1..Len(records'), records'[i].postSelection # NoRanges
       PROVE  <<records'[i].postRevision, states'[i + 1]>> \in Stamps
  <2>1. i # index + 1
    BY <1>2, <1>4, <1>10
  <2>2. i \in 1..index /\ i \in 1..Len(records) /\ i + 1 \in 1..index + 1
    BY <1>1, <1>4, <2>1
  <2>3. records'[i] = records[i] /\ states'[i + 1] = states[i + 1]
    BY <1>4, <1>6, <2>2
  <2> QED BY <1>10, <2>2, <2>3 DEF Stamps
<1>11. <<savedRevision, savedText>>' \in Stamps
  BY <1>1 DEF Stamps
<1>12. Stamps' \subseteq Stamps
  BY <1>8, <1>9, <1>10, <1>11 DEF Stamps
<1> QED BY <1>1, <1>12, StampsKept DEF RevisionInvariant

LEMMA EndRevision ==
  ASSUME TypeOK, TextInvariant, GroupInvariant, RevisionInvariant,
         NEW ranges \in Ranges, EndUndoGroup(ranges)
  PROVE  RevisionInvariant'
<1>1. CASE nesting = 1 /\ changes # 0
  <2>1. /\ records \in Seq(RecordType) /\ Len(records) \in Nat
        /\ index \in 1..Len(records) /\ text = states[index + 1]
        /\ nextRevision \in Nat
    BY <1>1 DEF TypeOK, GroupInvariant, Boundary, TextInvariant, UndoRestoresText
  <2>2. /\ records' = [records EXCEPT ![index] = Closed(records[index], ranges)]
        /\ revision' = nextRevision /\ nextRevision' = nextRevision + 1
        /\ UNCHANGED <<text, index, states, savedRevision, savedText>>
    BY <1>1 DEF EndUndoGroup, savedVars
  <2>3. /\ Len(records') = Len(records)
        /\ records'[index] = Closed(records[index], ranges)
        /\ \A i \in 1..Len(records) : i # index => records'[i] = records[i]
    <3>1. ASSUME NEW q \in RecordType PROVE Closed(q, ranges) \in RecordType
      BY DEF RecordType, Closed, TypeOK
    <3>2. Closed(records[index], ranges) \in RecordType
      BY <2>1, <3>1
    <3> QED BY <2>1, <2>2, <3>2, ExceptSeq
  <2>4. /\ records'[index].postRevision = nextRevision
        /\ records'[index].preRevision = records[index].preRevision
        /\ records'[index].preSelection = records[index].preSelection
    <3>1. records[index] \in RecordType
      BY <2>1
    <3> QED BY <2>3, <3>1 DEF Closed, RecordType
  <2>5. ASSUME NEW i \in 1..Len(records'), records'[i].preSelection # NoRanges
        PROVE  <<records'[i].preRevision, states'[i]>> \in Stamps
    <3>1. /\ records'[i].preRevision = records[i].preRevision
          /\ records'[i].preSelection = records[i].preSelection
          /\ i \in 1..Len(records) /\ states'[i] = states[i]
      BY <2>2, <2>3, <2>4
    <3> QED BY <2>5, <3>1 DEF Stamps
  <2>6. ASSUME NEW i \in 1..Len(records'), records'[i].postSelection # NoRanges
        PROVE  \/ <<records'[i].postRevision, states'[i + 1]>> \in Stamps
               \/ <<records'[i].postRevision, states'[i + 1]>> = <<nextRevision, text>>
    <3>1. CASE i = index
      BY <2>1, <2>2, <2>4, <3>1
    <3>2. CASE i # index
      <4>1. records'[i] = records[i] /\ i \in 1..Len(records) /\ states' = states
        BY <2>2, <2>3, <3>2
      <4> QED BY <2>6, <4>1 DEF Stamps
    <3> QED BY <3>1, <3>2
  <2>7. <<savedRevision, savedText>>' \in Stamps
    BY <2>2 DEF Stamps
  <2>8. <<revision, text>>' = <<nextRevision, text>>
    BY <2>2
  <2>9. Stamps' \subseteq Stamps \cup {<<nextRevision, text>>}
    <3> DEFINE T == Stamps \cup {<<nextRevision, text>>}
    <3>1. \A i \in 1..Len(records') : records'[i].preSelection # NoRanges
             => <<records'[i].preRevision, states'[i]>> \in T
      BY <2>5
    <3>2. \A i \in 1..Len(records') : records'[i].postSelection # NoRanges
             => <<records'[i].postRevision, states'[i + 1]>> \in T
      BY <2>6
    <3>3. <<savedRevision, savedText>>' \in T /\ <<revision, text>>' \in T
      BY <2>7, <2>8
    <3> HIDE DEF T
    <3>4. Stamps' \subseteq T
      BY <3>1, <3>2, <3>3 DEF Stamps
    <3> QED BY <3>4 DEF T
  <2> QED BY <2>1, <2>2, <2>9, StampsGrow
<1>2. CASE ~(nesting = 1 /\ changes # 0)
  BY <1>2 DEF EndUndoGroup, RevisionInvariant, Stamps, AtRest, savedVars
<1> QED BY <1>1, <1>2

LEMMA IterationRevision ==
  ASSUME TypeOK, TextInvariant, GroupInvariant, RevisionInvariant,
         UndoIteration \/ RedoIteration, TypeOK', TextInvariant'
  PROVE  RevisionInvariant'
<1>1. /\ index \in 0..Len(records) /\ Len(records) \in Nat
      /\ nextRevision \in Nat
      /\ UNCHANGED <<records, states, nextRevision, savedRevision, savedText>>
  BY DEF TypeOK, UndoIteration, RedoIteration, LoopEnds, savedVars
<1>t. text' = states[index' + 1]
  BY <1>1 DEF TextInvariant, UndoRestoresText
<1>2. \/ ~AtRest' /\ revision' = revision
      \/ AtRest' /\ <<revision', text'>> \in Stamps
  <2>1. CASE UndoIteration
    <3> DEFINE done == /\ records[index].preSelection # NoRanges
                       /\ ~UndoMergesAt(index)
    <3>1. /\ phase = "undoing" /\ index \in 1..Len(records) /\ index' + 1 = index
          /\ phase' = (IF done THEN "idle" ELSE phase)
          /\ revision' = (IF done THEN records[index].preRevision ELSE revision)
      BY <1>1, <2>1 DEF UndoIteration, LoopEnds
    <3>2. done => <<records[index].preRevision, states[index]>> \in Stamps
      BY <3>1 DEF Stamps
    <3>3. changes' = 0
      BY <2>1 DEF UndoIteration, LoopEnds, GroupInvariant
    <3> HIDE DEF done
    <3> QED BY <1>1, <1>t, <3>1, <3>2, <3>3 DEF AtRest
  <2>2. CASE RedoIteration
    <3> DEFINE done == /\ records[index + 1].postSelection # NoRanges
                       /\ ~RedoMergesAt(index + 1)
    <3>1. /\ phase = "redoing" /\ index + 1 \in 1..Len(records) /\ index' = index + 1
          /\ phase' = (IF done THEN "idle" ELSE phase)
          /\ revision' = (IF done THEN records[index + 1].postRevision ELSE revision)
      BY <1>1, <2>2 DEF RedoIteration, LoopEnds
    <3>2. done => <<records[index + 1].postRevision, states[(index + 1) + 1]>> \in Stamps
      BY <3>1 DEF Stamps
    <3>3. changes' = 0
      BY <2>2 DEF RedoIteration, LoopEnds, GroupInvariant
    <3> HIDE DEF done
    <3> QED BY <1>1, <1>t, <3>1, <3>2, <3>3 DEF AtRest
  <2> QED BY <2>1, <2>2
<1>3. revision' < nextRevision'
  BY <1>1, <1>2 DEF RevisionInvariant
<1>4. Stamps' \subseteq Stamps
  BY <1>1, <1>2 DEF Stamps
<1> QED BY <1>1, <1>3, <1>4, StampsKept

LEMMA NextRevisions ==
  ASSUME ~CommandLists, TypeOK, TextInvariant, GroupInvariant, RevisionInvariant,
         [Next]_vars, TypeOK', TextInvariant'
  PROVE  RevisionInvariant'
<1>1. ASSUME NEW ranges \in Ranges, BeginUndoGroup(ranges) PROVE RevisionInvariant'
  <2>1. /\ UNCHANGED <<text, records, states, revision, nextRevision, savedRevision,
                       savedText, phase>>
        /\ changes' = changes
    BY <1>1 DEF BeginUndoGroup, GroupInvariant, bufferVars, recordVars, savedVars
  <2> QED BY <2>1 DEF RevisionInvariant, Stamps, AtRest
<1>2. ASSUME Undo \/ Redo PROVE RevisionInvariant'
  <2>1. /\ UNCHANGED <<text, records, states, revision, nextRevision, savedRevision,
                       savedText>>
        /\ ~AtRest' /\ nextRevision \in Nat
    BY <1>2 DEF Undo, Redo, AtRest, bufferVars, recordVars, savedVars, TypeOK
  <2>2. Stamps' \subseteq Stamps
    BY <2>1 DEF Stamps
  <2> QED BY <2>1, <2>2, StampsKept DEF RevisionInvariant
<1>4. ASSUME MarkSaved PROVE RevisionInvariant'
  <2>1. /\ UNCHANGED <<text, records, states, revision, nextRevision, phase, changes>>
        /\ AtRest /\ savedRevision' = revision /\ savedText' = text
        /\ nextRevision \in Nat
    BY <1>4 DEF MarkSaved, bufferVars, recordVars, groupVars, GroupInvariant, AtRest,
                TypeOK
  <2>2. Stamps' \subseteq Stamps
    BY <2>1 DEF Stamps, AtRest
  <2> QED BY <2>1, <2>2, StampsKept DEF RevisionInvariant
<1>5. ASSUME UNCHANGED vars PROVE RevisionInvariant'
  BY <1>5 DEF vars, RevisionInvariant, Stamps, AtRest
<1> QED BY <1>1, <1>2, <1>4, <1>5, ReplaceRevision, EndRevision,
           IterationRevision DEF Next

-----------------------------------------------------------------------------

LEMMA InvariantHolds == Spec => []IInv
<1>1. Init => IInv
  BY InitTypeAndText, InitGroup, InitRevision DEF IInv
<1>2. IInv /\ [Next]_vars => IInv'
  BY NextTypeAndText, NextGroup, NextRevisions DEF IInv
<1> QED BY <1>1, <1>2, PTL DEF Spec

(* When each group runs one command, no undo or redo runs out of records,   *)
(* whatever was typed, merged, undone and saved before: the ASSERTs at      *)
(* undo.cc:65 and undo.cc:89 never fail.                                    *)
THEOREM NoOverrun == Spec => [](~CommandLists => LoopsStayInRecords)
<1>1. IInv => (~CommandLists => LoopsStayInRecords)
  BY DEF IInv, GroupInvariant, LoopsStayInRecords
<1> QED BY <1>1, InvariantHolds, PTL

(* When each group runs one command, a document whose revision is the saved *)
(* one holds the saved text, so isDocumentEdited never answers NO wrongly.  *)
THEOREM RevisionIdentifiesText ==
  Spec => [](~CommandLists => SavedRevisionMeansSavedText)
<1>1. IInv => (~CommandLists => SavedRevisionMeansSavedText)
  <2> SUFFICES ASSUME GroupInvariant, RevisionInvariant, phase = "idle", nesting = 0,
                      revision = savedRevision
               PROVE  text = savedText
    BY DEF IInv, SavedRevisionMeansSavedText
  <2>1. <<revision, text>> \in Stamps /\ <<savedRevision, savedText>> \in Stamps
    BY DEF GroupInvariant, Stamps, AtRest
  <2> QED BY <2>1 DEF RevisionInvariant
<1> QED BY <1>1, InvariantHolds, PTL

(* When each group runs one command, the revisions in use are always ones   *)
(* given out before (the ASSERT_LT at buffer.h:168), so none is repeated.   *)
THEOREM RevisionsGivenOut == Spec => [](~CommandLists => RevisionsAreOld)
<1>1. IInv => (~CommandLists => RevisionsAreOld)
  <2> SUFFICES ASSUME RevisionInvariant PROVE RevisionsAreOld
    BY DEF IInv
  <2>1. <<savedRevision, savedText>> \in Stamps
    BY DEF Stamps
  <2> QED BY <2>1 DEF RevisionInvariant, RevisionsAreOld
<1> QED BY <1>1, InvariantHolds, PTL

(* When each group runs one command, undo and redo always stop at the edge  *)
(* of a group: no group is ever left half undone.                           *)
THEOREM WholeGroups == Spec => [](~CommandLists => RestsAtGroupEdge)
<1>1. IInv => (~CommandLists => RestsAtGroupEdge)
  BY DEF IInv, GroupInvariant, RestsAtGroupEdge
<1> QED BY <1>1, InvariantHolds, PTL

(* Undo and redo change no record: only a new replacement drops any, and    *)
(* only those after the position.                                           *)
THEOREM RedoSurvives == Spec => OnlyEditsDropRecords
<1> DEFINE A == /\ phase # "idle" => records' = records
                /\ Len(records') < Len(records) =>
                      changes' = changes + 1 /\ Len(records') = index + 1
<1>1. IInv /\ [Next]_vars => [A]_vars
  <2> SUFFICES ASSUME TypeOK, TextInvariant, Next PROVE A
    BY DEF IInv
  <2>1. /\ records \in Seq(RecordType) /\ index \in 0..Len(records)
        /\ Len(records) \in Nat
    BY DEF TypeOK
  <2>2. ASSUME records' = records PROVE A
    BY <2>1, <2>2
  <2>3. ASSUME NEW from \in 0..Len(text), NEW to \in 0..Len(text),
               NEW s \in Pieces, Replace(from, to, s)
        PROVE  A
    <3>1. TypeOK'
      BY <2>3, ReplaceTypeAndText
    <3>2. /\ phase = "idle" /\ changes' = changes + 1 /\ index' = index + 1
          /\ records' = Append(SubSeq(records, 1, index), Record(from, to, s))
      BY <2>3 DEF Replace
    <3>3. Len(SubSeq(records, 1, index)) = index /\ SubSeq(records, 1, index) \in Seq(RecordType)
      BY <2>1, SubSeqProperties
    <3>4. Len(records') = index + 1
      BY <3>2, <3>3, AppendProperties
    <3> QED BY <3>2, <3>4
  <2>4. ASSUME NEW ranges \in Ranges, EndUndoGroup(ranges) PROVE A
    <3>1. phase = "idle"
      BY <2>4 DEF EndUndoGroup
    <3>2. Len(records') = Len(records)
      BY <2>4, EndKeepsTexts
    <3> QED BY <2>1, <3>1, <3>2
  <2>5. ASSUME UndoIteration \/ RedoIteration PROVE records' = records
    BY <2>5 DEF UndoIteration, RedoIteration, LoopEnds
  <2>6. ASSUME Undo \/ Redo \/ MarkSaved PROVE records' = records
    BY <2>6 DEF Undo, Redo, MarkSaved, recordVars
  <2>7. ASSUME NEW ranges \in Ranges, BeginUndoGroup(ranges) PROVE records' = records
    BY <2>7 DEF BeginUndoGroup, recordVars
  <2> QED BY <2>2, <2>3, <2>4, <2>5, <2>6, <2>7 DEF Next
<1> QED BY <1>1, InvariantHolds, PTL DEF Spec, OnlyEditsDropRecords

-----------------------------------------------------------------------------
(* Induction and recursive functions. *)

(* A set of naturals that is not empty has a least element. *)
LEMMA NatMin ==
  ASSUME NEW T, T \subseteq Nat, T # {}
  PROVE  \E x \in T : \A y \in T : x <= y
<1>1. \E x \in T : \A y \in T : ~(<<y, x>> \in OpToRel(<, Nat))
  BY WFMin, NatLessThanWellFounded
<1>2. \E x \in T : \A y \in T : ~(y < x)
  BY <1>1 DEF OpToRel
<1> QED BY <1>2

(* What holds at 0, and at n if it does at n - 1, holds up to any bound.     *)
LEMMA UpTo ==
  ASSUME NEW N \in Nat, NEW P, 0 \in P, \A n \in 1..N : n - 1 \in P => n \in P
  PROVE  \A n \in 0..N : n \in P
<1> DEFINE Bad == {n \in 0..N : n \notin P}
<1> SUFFICES ASSUME Bad # {} PROVE FALSE
  OBVIOUS
<1>1. PICK b \in Bad : \A k \in Bad : b <= k
  <2>1. Bad \subseteq Nat
    OBVIOUS
  <2> HIDE DEF Bad
  <2> QED BY <2>1, NatMin
<1>2. b \in 0..N /\ b # 0 /\ b \notin P
  OBVIOUS
<1>3. b \in 1..N /\ b - 1 \in 0..N /\ b - 1 < b
  BY <1>2
<1>4. b - 1 \in P
  BY <1>1, <1>3
<1> QED BY <1>2, <1>3, <1>4

(* f starts with base, and step leads from each value to the next.           *)
Steps(N, base, step, f) ==
  f = [n \in 0..N |-> IF n = 0 THEN base ELSE step[n][f[n - 1]]]

(* There is such a function.                                                 *)
LEMMA Recursion ==
  ASSUME NEW N \in Nat, NEW base, NEW step, NEW D,
         base \in D[0], \A n \in 1..N : \A x \in D[n - 1] : step[n][x] \in D[n]
  PROVE  \E f : Steps(N, base, step, f) /\ \A n \in 0..N : f[n] \in D[n]
<1> DEFINE Part(f, k) == /\ f = [n \in 0..k |-> IF n = 0 THEN base ELSE step[n][f[n - 1]]]
                         /\ \A n \in 0..k : f[n] \in D[n]
           P == {k \in 0..N : \E f : Part(f, k)}
<1>1. 0 \in P
  <2> DEFINE f == [n \in 0..0 |-> base]
  <2>1. f = [n \in 0..0 |-> IF n = 0 THEN base ELSE step[n][f[n - 1]]]
    OBVIOUS
  <2>2. \A n \in 0..0 : f[n] \in D[n]
    OBVIOUS
  <2> HIDE DEF f
  <2>3. Part(f, 0)
    BY <2>1, <2>2
  <2> QED BY <2>3
<1>2. ASSUME NEW k \in 1..N, k - 1 \in P PROVE k \in P
  <2>1. PICK f : Part(f, k - 1)
    BY <1>2
  <2>2. k - 1 \in 0..k - 1 /\ k \in 0..N /\ k # 0
    OBVIOUS
  <2>3. /\ \A n \in 0..k - 1 : f[n] = IF n = 0 THEN base ELSE step[n][f[n - 1]]
        /\ \A n \in 0..k - 1 : f[n] \in D[n]
    BY <2>1
  <2> DEFINE h == [n \in 0..k |-> IF n = k THEN step[k][f[k - 1]] ELSE f[n]]
  <2>4. \A n \in 0..k - 1 : h[n] = f[n]
    OBVIOUS
  <2>5. h[k] = step[k][f[k - 1]]
    BY <2>2
  <2>6. h = [n \in 0..k |-> h[n]]
    OBVIOUS
  <2> HIDE DEF h, P
  <2>7. \A n \in 0..k : h[n] = IF n = 0 THEN base ELSE step[n][h[n - 1]]
    <3> SUFFICES ASSUME NEW n \in 0..k PROVE h[n] = IF n = 0 THEN base ELSE step[n][h[n - 1]]
      OBVIOUS
    <3>1. CASE n = k
      BY <2>2, <2>4, <2>5, <3>1
    <3>2. CASE n # k
      <4>1. n \in 0..k - 1 /\ (n # 0 => n - 1 \in 0..k - 1)
        BY <3>2
      <4> QED BY <2>3, <2>4, <4>1
    <3> QED BY <3>1, <3>2
  <2>8. \A n \in 0..k : h[n] \in D[n]
    <3> SUFFICES ASSUME NEW n \in 0..k PROVE h[n] \in D[n]
      OBVIOUS
    <3>1. CASE n = k
      <4>1. f[k - 1] \in D[k - 1]
        BY <2>2, <2>3
      <4> QED BY <2>5, <3>1, <4>1
    <3>2. CASE n # k
      <4>1. n \in 0..k - 1
        BY <3>2
      <4> QED BY <2>3, <2>4, <4>1
    <3> QED BY <3>1, <3>2
  <2>9. h = [n \in 0..k |-> IF n = 0 THEN base ELSE step[n][h[n - 1]]]
    BY <2>6, <2>7
  <2>10. Part(h, k)
    BY <2>8, <2>9
  <2> QED BY <2>2, <2>10 DEF P
<1>3. N \in P
  <2> HIDE DEF P
  <2> QED BY <1>1, <1>2, UpTo
<1> QED BY <1>3 DEF Steps

-----------------------------------------------------------------------------
(* The states at the edges of groups. *)

(* The function EdgeStates is, for any records and states.                   *)
Collected(recs, sts, f) ==
  f = [n \in 0..Len(recs) |->
         IF n = 0 THEN <<sts[1]>>
         ELSE IF n = 0 \/ recs[n].postSelection # NoRanges THEN Append(f[n - 1], sts[n + 1])
              ELSE f[n - 1]]

(* There is such a function. *)
LEMMA CollectedIs ==
  ASSUME NEW recs \in Seq(RecordType), NEW sts \in Seq(Text), Len(sts) = Len(recs) + 1
  PROVE  \E f : Collected(recs, sts, f)
<1> DEFINE N == Len(recs)
           Edge(n) == n = 0 \/ recs[n].postSelection # NoRanges
           Add(x, n) == IF Edge(n) THEN Append(x, sts[n + 1]) ELSE x
           base == <<sts[1]>>
           D == [n \in 0..N |-> Seq(Text)]
           step == [n \in 1..N |-> [x \in Seq(Text) |-> Add(x, n)]]
<1>1. N \in Nat /\ Len(sts) = N + 1
  OBVIOUS
<1>2. \A n \in 0..N : sts[n + 1] \in Text
  BY <1>1
<1>3. base \in D[0]
  <2>1. sts[1] \in Text
    BY <1>1
  <2> QED BY <1>1, <2>1
<1>4. \A n \in 1..N : \A x \in D[n - 1] : step[n][x] \in D[n]
  <2> SUFFICES ASSUME NEW n \in 1..N, NEW x \in D[n - 1] PROVE step[n][x] \in D[n]
    OBVIOUS
  <2>1. n - 1 \in 0..N /\ n \in 0..N
    OBVIOUS
  <2>2. x \in Seq(Text) /\ sts[n + 1] \in Text
    BY <1>2, <2>1
  <2>3. step[n][x] = Add(x, n)
    BY <2>2
  <2>4. Append(x, sts[n + 1]) \in Seq(Text)
    BY <2>2, AppendProperties
  <2> HIDE DEF Edge
  <2>5. Add(x, n) \in Seq(Text)
    BY <2>2, <2>4
  <2> QED BY <2>1, <2>3, <2>5
<1> HIDE DEF D, step, base
<1>5. \E f : Steps(N, base, step, f) /\ \A n \in 0..N : f[n] \in D[n]
  <2> HIDE DEF N
  <2> QED BY ONLY <1>1, <1>3, <1>4, Recursion
<1>6. PICK f : /\ f = [n \in 0..N |-> IF n = 0 THEN base ELSE step[n][f[n - 1]]]
               /\ \A n \in 0..N : f[n] \in Seq(Text)
  BY <1>5 DEF Steps, D
<1>7. \A n \in 0..N : f[n] = IF n = 0 THEN base ELSE Add(f[n - 1], n)
  <2> SUFFICES ASSUME NEW n \in 0..N PROVE f[n] = IF n = 0 THEN base ELSE Add(f[n - 1], n)
    OBVIOUS
  <2>1. f[n] = IF n = 0 THEN base ELSE step[n][f[n - 1]]
    BY <1>6
  <2>2. ASSUME n # 0 PROVE step[n][f[n - 1]] = Add(f[n - 1], n)
    <3>1. n \in 1..N /\ n - 1 \in 0..N
      BY <2>2
    <3>2. f[n - 1] \in Seq(Text)
      BY <1>6, <3>1
    <3> HIDE DEF Add
    <3> QED BY <3>1, <3>2 DEF step
  <2> HIDE DEF Add
  <2> QED BY <2>1, <2>2
<1>8. f = [n \in 0..N |-> IF n = 0 THEN base ELSE Add(f[n - 1], n)]
  <2>1. f = [n \in 0..N |-> f[n]]
    BY <1>6
  <2> HIDE DEF Add, N
  <2> QED BY <1>7, <2>1
<1>9. Collected(recs, sts, f)
  BY <1>8 DEF Collected, base
<1> QED BY <1>9

(* EdgeStates grows at each edge by the state there. *)
EdgeRecurrence ==
  /\ EdgeStates[0] = <<states[1]>>
  /\ \A n \in 1..Len(records) :
       EdgeStates[n] = IF Boundary(n) THEN Append(EdgeStates[n - 1], states[n + 1])
                       ELSE EdgeStates[n - 1]

LEMMA EdgeStatesGrow == TypeOK /\ UndoRestoresText => EdgeRecurrence
<1> SUFFICES ASSUME TypeOK, UndoRestoresText PROVE EdgeRecurrence
  OBVIOUS
<1>1. records \in Seq(RecordType) /\ states \in Seq(Text) /\ Len(states) = Len(records) + 1
  BY DEF TypeOK, UndoRestoresText
<1>2. EdgeStates = CHOOSE f : Collected(records, states, f)
  BY DEF EdgeStates, Boundary, Collected
<1>3. Collected(records, states, EdgeStates)
  <2>1. \E f : Collected(records, states, f)
    BY <1>1, CollectedIs
  <2> QED BY ONLY <1>2, <2>1
<1>4. Len(records) \in Nat
  BY <1>1
<1>5. \A n \in 0..Len(records) :
        EdgeStates[n] = IF n = 0 THEN <<states[1]>>
                        ELSE IF Boundary(n) THEN Append(EdgeStates[n - 1], states[n + 1])
                             ELSE EdgeStates[n - 1]
  BY <1>3 DEF Collected, Boundary
<1>6. 0 \in 0..Len(records) /\ \A n \in 1..Len(records) : n \in 0..Len(records) /\ n # 0
  BY <1>4
<1> QED BY <1>5, <1>6 DEF EdgeRecurrence

(* What the states up to each position are, and that later ones come after. *)
EdgeTypes ==
  \A n \in 0..Len(records) : EdgeStates[n] \in Seq(Text) /\ Len(EdgeStates[n]) \in Nat \ {0}

LEMMA EdgeStatesTypes == TypeOK /\ UndoRestoresText => EdgeTypes
<1> SUFFICES ASSUME TypeOK, UndoRestoresText PROVE EdgeTypes
  OBVIOUS
<1> DEFINE e == EdgeStates
           N == Len(records)
           Good(x) == x \in Seq(Text) /\ Len(x) \in Nat \ {0}
           P == {n \in 0..N : Good(e[n])}
<1>1. N \in Nat /\ states \in Seq(Text) /\ Len(states) = N + 1
  BY DEF TypeOK, UndoRestoresText
<1>2. \A n \in 0..N : states[n + 1] \in Text
  BY <1>1
<1>3. /\ e[0] = <<states[1]>>
      /\ \A n \in 1..N : e[n] = IF Boundary(n) THEN Append(e[n - 1], states[n + 1]) ELSE e[n - 1]
  BY EdgeStatesGrow DEF EdgeRecurrence
<1> HIDE DEF e, N
<1>4. 0 \in P
  <2>1. states[1] \in Text
    BY <1>1, <1>2
  <2> DEFINE s == states[1]
  <2>2. s \in Text
    BY <2>1
  <2> HIDE DEF s
  <2>3. <<s>> \in Seq(Text) /\ Len(<<s>>) = 1
    BY ONLY <2>2
  <2>4. Good(e[0])
    BY <1>3, <2>3 DEF s
  <2> HIDE DEF Good
  <2> QED BY <1>1, <2>4
<1>5. ASSUME NEW n \in 1..N, n - 1 \in P PROVE n \in P
  <2>1. Good(e[n - 1]) /\ n \in 0..N /\ states[n + 1] \in Text
    BY <1>1, <1>2, <1>5
  <2>2. CASE Boundary(n)
    <3>1. e[n] = Append(e[n - 1], states[n + 1])
      BY <1>3, <2>2
    <3>2. Append(e[n - 1], states[n + 1]) \in Seq(Text)
          /\ Len(Append(e[n - 1], states[n + 1])) = Len(e[n - 1]) + 1
      BY <2>1, AppendProperties
    <3> DEFINE x == e[n - 1]
               y == Append(x, states[n + 1])
    <3>3. Len(x) \in Nat /\ y \in Seq(Text) /\ Len(y) = Len(x) + 1
      BY <2>1, <3>2
    <3> HIDE DEF x, y
    <3>4. Good(y)
      BY ONLY <3>3
    <3>5. e[n] = y
      BY <3>1 DEF x, y
    <3> HIDE DEF Good
    <3> QED BY <2>1, <3>4, <3>5
  <2>3. CASE ~Boundary(n)
    BY <1>3, <2>1, <2>3
  <2> QED BY <2>2, <2>3
<1> HIDE DEF P
<1>6. \A n \in 0..N : n \in P
  BY <1>1, <1>4, <1>5, UpTo
<1> QED BY <1>6 DEF P, e, N, EdgeTypes

(* x is the beginning of y. *)
Begins(x, y) == Len(x) <= Len(y) /\ \A k \in 1..Len(x) : y[k] = x[k]

(* What is reached at a position is the beginning of what is reached later. *)
LEMMA EdgeStatesBegin ==
  ASSUME TypeOK, UndoRestoresText, NEW m \in 0..Len(records)
  PROVE  Begins(EdgeStates[m], EdgeStates[Len(records)])
<1> DEFINE e == EdgeStates
           N == Len(records)
           P == {n \in 0..N : n >= m => Begins(e[m], e[n])}
<1>1. N \in Nat /\ states \in Seq(Text) /\ Len(states) = N + 1 /\ m \in 0..N
  BY DEF TypeOK, UndoRestoresText
<1>2. \A n \in 1..N : e[n] = IF Boundary(n) THEN Append(e[n - 1], states[n + 1]) ELSE e[n - 1]
  BY EdgeStatesGrow DEF EdgeRecurrence
<1>3. \A n \in 0..N : e[n] \in Seq(Text) /\ Len(e[n]) \in Nat
  BY EdgeStatesTypes DEF EdgeTypes
<1>4. \A n \in 0..N : states[n + 1] \in Text
  BY <1>1
<1> HIDE DEF e, N
<1>5. Begins(e[m], e[m])
  BY <1>1, <1>3 DEF Begins
<1>6. 0 \in P
  <2>1. 0 >= m => m = 0
    BY <1>1
  <2> QED BY <1>1, <1>5, <2>1
<1>7. ASSUME NEW n \in 1..N, n - 1 \in P PROVE n \in P
  <2> SUFFICES ASSUME n >= m, n # m PROVE Begins(e[m], e[n])
    BY <1>1, <1>5
  <2>1. n - 1 \in 0..N /\ n \in 0..N /\ n - 1 >= m
    BY <1>1
  <2>2. Begins(e[m], e[n - 1])
    BY <1>7, <2>1
  <2>3. e[m] \in Seq(Text) /\ e[n - 1] \in Seq(Text) /\ states[n + 1] \in Text
    BY <1>1, <1>3, <1>4, <2>1
  <2>4. CASE Boundary(n)
    <3> DEFINE x == e[m]
               y == e[n - 1]
               z == Append(y, states[n + 1])
    <3>1. Len(z) = Len(y) + 1 /\ \A k \in 1..Len(y) : z[k] = y[k]
      BY <2>3, AppendProperties
    <3>2. Len(x) <= Len(y) /\ (\A k \in 1..Len(x) : y[k] = x[k]) /\ Len(x) \in Nat /\ Len(y) \in Nat
      BY <2>2, <2>3 DEF Begins
    <3> HIDE DEF x, y, z
    <3>3. \A k \in 1..Len(x) : k \in 1..Len(y)
      BY ONLY <3>2
    <3>4. Len(x) <= Len(z)
      BY ONLY <3>1, <3>2
    <3>5. Begins(x, z)
      BY ONLY <3>1, <3>2, <3>3, <3>4 DEF Begins
    <3> QED BY <1>2, <2>4, <3>5 DEF x, y, z
  <2>5. CASE ~Boundary(n)
    BY <1>2, <2>2, <2>5
  <2> QED BY <2>4, <2>5
<1> HIDE DEF P
<1>8. \A n \in 0..N : n \in P
  BY <1>1, <1>6, <1>7, UpTo
<1>9. N \in 0..N /\ N >= m
  BY <1>1
<1> QED BY <1>8, <1>9 DEF P, e, N

(* At an edge the state there is the last.                                   *)
LEMMA EdgeStatesEnd ==
  ASSUME TypeOK, UndoRestoresText, NEW n \in 0..Len(records), Boundary(n)
  PROVE  EdgeStates[n][Len(EdgeStates[n])] = states[n + 1]
<1>1. CASE n = 0
  <2> DEFINE s == states[1]
  <2>1. EdgeStates[0] = <<s>>
    BY EdgeStatesGrow DEF EdgeRecurrence
  <2>2. states[n + 1] = s
    BY <1>1
  <2> HIDE DEF s
  <2>3. <<s>>[Len(<<s>>)] = s
    OBVIOUS
  <2> QED BY <1>1, <2>1, <2>2, <2>3
<1>2. CASE n # 0
  <2>1. n \in 1..Len(records) /\ n - 1 \in 0..Len(records)
    BY <1>2 DEF TypeOK
  <2>2. EdgeStates[n] = Append(EdgeStates[n - 1], states[n + 1])
    BY <2>1, EdgeStatesGrow DEF EdgeRecurrence
  <2>3. EdgeStates[n - 1] \in Seq(Text) /\ states[n + 1] \in Text
    <3>1. n + 1 \in 1..Len(states) /\ states \in Seq(Text)
      BY <2>1 DEF TypeOK, UndoRestoresText
    <3> QED BY <2>1, <3>1, EdgeStatesTypes DEF EdgeTypes
  <2> DEFINE x == EdgeStates[n - 1]
             s == states[n + 1]
  <2> HIDE DEF x, s
  <2>4. Append(x, s)[Len(Append(x, s))] = s
    BY <2>3, AppendProperties DEF x, s
  <2> QED BY <2>2, <2>4 DEF x, s
<1> QED BY <1>1, <1>2

(* Positions with the same edges and states before them have reached the same. *)
LEMMA EdgeStatesAgree ==
  ASSUME EdgeRecurrence, EdgeRecurrence', Len(records) \in Nat, Len(records') \in Nat,
         NEW n \in 0..Len(records), n <= Len(records'),
         \A i \in 1..n : Boundary(i)' <=> Boundary(i),
         \A i \in 1..n + 1 : states'[i] = states[i]
  PROVE  EdgeStates'[n] = EdgeStates[n]
<1> DEFINE e == EdgeStates
           u == EdgeStates'
           P == {k \in 0..n : u[k] = e[k]}
<1>1. n \in Nat /\ n <= Len(records) /\ n <= Len(records')
  OBVIOUS
<1>2. 0 \in P
  <2>1. e[0] = <<states[1]>> /\ u[0] = <<states'[1]>>
    BY DEF EdgeRecurrence
  <2>2. states'[1] = states[1]
    BY <1>1
  <2> QED BY <1>1, <2>1, <2>2
<1>3. ASSUME NEW k \in 1..n, k - 1 \in P PROVE k \in P
  <2>1. k \in 1..Len(records) /\ k \in 1..Len(records') /\ k + 1 \in 1..n + 1
    BY <1>1
  <2>2. e[k] = IF Boundary(k) THEN Append(e[k - 1], states[k + 1]) ELSE e[k - 1]
    BY <2>1 DEF EdgeRecurrence
  <2>3. u[k] = IF Boundary(k)' THEN Append(u[k - 1], states'[k + 1]) ELSE u[k - 1]
    BY <2>1 DEF EdgeRecurrence
  <2>4. u[k - 1] = e[k - 1] /\ states'[k + 1] = states[k + 1] /\ (Boundary(k)' <=> Boundary(k))
    BY <1>3, <2>1
  <2>5. u[k] = e[k]
    <3>1. CASE Boundary(k)
      BY <2>2, <2>3, <2>4, <3>1
    <3>2. CASE ~Boundary(k)
      BY <2>2, <2>3, <2>4, <3>2
    <3> QED BY <3>1, <3>2
  <2> QED BY <1>1, <2>5
<1> HIDE DEF P
<1>4. n \in P
  <2>1. \A k \in 0..n : k \in P
    BY <1>1, <1>2, <1>3, UpTo
  <2>2. n \in 0..n
    BY <1>1
  <2> QED BY <2>1, <2>2
<1> QED BY <1>4 DEF P

-----------------------------------------------------------------------------
(* The mapping to UndoHistory. *)

(* What the steps need of the mapping: the position is one of those reached, *)
(* and the text shown is always the one there.                               *)
Mapped ==
  /\ EdgeRecurrence
  /\ Reached \in Seq(Text) /\ Position \in 1..Len(Reached)
  /\ Begins(EdgeStates[index], Reached)
  /\ Shown = Reached[Position]

LEMMA IsMapped == TypeOK /\ UndoRestoresText /\ GroupInvariant => Mapped
<1> SUFFICES ASSUME TypeOK, UndoRestoresText, GroupInvariant PROVE Mapped
  OBVIOUS
<1>1. index \in 0..Len(records) /\ Len(records) \in 0..Len(records)
  BY DEF TypeOK
<1>2. EdgeTypes /\ EdgeRecurrence
  BY EdgeStatesTypes, EdgeStatesGrow
<1> DEFINE x == EdgeStates[index]
<1>3. x \in Seq(Text) /\ Len(x) \in Nat \ {0} /\ Reached \in Seq(Text)
  BY <1>1, <1>2 DEF EdgeTypes, Reached
<1>4. Begins(x, Reached) /\ Position = Len(x)
  BY <1>1, EdgeStatesBegin DEF Reached, Position
<1>5. Shown = Reached[Position]
  <2>1. CASE phase = "idle" /\ nesting = 0
    <3>1. Boundary(index)
      BY <2>1 DEF GroupInvariant, AtRest
    <3>2. x[Len(x)] = states[index + 1]
      BY <1>1, <3>1, EdgeStatesEnd
    <3> HIDE DEF x
    <3>3. Len(x) \in 1..Len(x)
      BY <1>3
    <3>4. Reached[Position] = x[Len(x)]
      BY <1>4, <3>3 DEF Begins
    <3> QED BY <2>1, <3>2, <3>4 DEF Shown, UndoRestoresText
  <2>2. CASE ~(phase = "idle" /\ nesting = 0)
    BY <2>2 DEF Shown
  <2> QED BY <2>1, <2>2
<1> HIDE DEF x
<1>6. Position \in 1..Len(Reached)
  <2>1. Len(Reached) \in Nat /\ Len(x) <= Len(Reached)
    BY <1>3, <1>4 DEF Begins
  <2> QED BY <1>3, <1>4, <2>1
<1> QED BY <1>2, <1>3, <1>4, <1>5, <1>6 DEF Mapped, x

(* The mapped state, as the steps of UndoHistory change it.                  *)
Keeps(r, p) == Reached' = r /\ Position' = p /\ Shown' = r[p]

LEMMA MapSame ==
  ASSUME Mapped, Keeps(Reached, Position)
  PROVE  UNCHANGED History!vars
BY DEF Mapped, Keeps, History!vars

LEMMA MapMove ==
  ASSUME Mapped, NEW p \in 1..Len(Reached), Keeps(Reached, p)
  PROVE  [History!Next]_(History!vars)
<1>1. CASE p = Position
  BY <1>1, MapSame
<1>2. CASE p # Position
  <2>1. History!Move(p)
    BY <1>2 DEF Keeps, History!Move
  <2> QED BY <2>1 DEF History!Next
<1> QED BY <1>1, <1>2

LEMMA MapForget ==
  ASSUME Mapped, Reached' = SubSeq(Reached, 1, Position), Position' = Position,
         Shown' = Shown
  PROVE  [History!Next]_(History!vars)
<1>1. Reached \in Seq(Text) /\ Position \in 1..Len(Reached) /\ Len(Reached) \in Nat
  BY DEF Mapped
<1>2. CASE Position < Len(Reached)
  <2>1. History!ForgetFuture
    BY <1>2 DEF History!ForgetFuture
  <2> QED BY <2>1 DEF History!Next
<1>3. CASE Position = Len(Reached)
  <2>1. SubSeq(Reached, 1, Len(Reached)) = Reached
    BY <1>1
  <2>2. Reached' = Reached
    BY <1>3, <2>1
  <2>3. UNCHANGED History!vars
    BY <2>2 DEF History!vars
  <2> QED BY <2>3
<1> QED BY <1>1, <1>2, <1>3

LEMMA MapCommit ==
  ASSUME Mapped, NEW t \in Text, Position = Len(Reached), Reached' = Append(Reached, t),
         Position' = Position + 1, Shown' = t
  PROVE  [History!Next]_(History!vars)
<1>1. History!Commit
  BY DEF History!Commit
<1> QED BY <1>1 DEF History!Next

(* The records stay as they are: at most the position moves. *)
LEMMA HistoryMove ==
  ASSUME TypeOK, TypeOK', Mapped, Mapped', UNCHANGED <<records, states>>
  PROVE  [History!Next]_(History!vars)
<1>1. /\ Len(records) \in Nat /\ Len(records') = Len(records) /\ states' = states
      /\ index' \in 0..Len(records)
  BY DEF TypeOK
<1>2. \A n \in 0..Len(records) : EdgeStates'[n] = EdgeStates[n]
  <2> SUFFICES ASSUME NEW n \in 0..Len(records) PROVE EdgeStates'[n] = EdgeStates[n]
    OBVIOUS
  <2>1. EdgeRecurrence /\ EdgeRecurrence' /\ Len(records') \in Nat /\ n <= Len(records')
    BY <1>1 DEF Mapped
  <2>2. \A i \in 1..n : Boundary(i)' <=> Boundary(i)
    BY DEF Boundary
  <2>3. \A i \in 1..n + 1 : states'[i] = states[i]
    BY <1>1
  <2> QED BY <1>1, <2>1, <2>2, <2>3, EdgeStatesAgree
<1>3. Reached' = Reached
  <2>1. Len(records) \in 0..Len(records)
    BY <1>1
  <2> QED BY <1>1, <1>2, <2>1 DEF Reached
<1> DEFINE p == Position'
<1>4. p \in 1..Len(Reached) /\ Keeps(Reached, p)
  BY <1>3 DEF Mapped, Keeps
<1> HIDE DEF p
<1> QED BY <1>4, MapMove

(* A sequence that begins another is what it has up to its length. *)
LEMMA BeginsIs ==
  ASSUME NEW x \in Seq(Text), NEW y \in Seq(Text), Begins(x, y)
  PROVE  SubSeq(y, 1, Len(x)) = x
<1> DEFINE n == Len(x)
<1>1. n \in Nat /\ n <= Len(y) /\ \A k \in 1..n : y[k] = x[k]
  BY DEF Begins
<1>2. n \in 0..Len(y)
  BY <1>1
<1> DEFINE z == SubSeq(y, 1, n)
<1>3. z \in Seq(Text) /\ Len(z) = n /\ \A k \in 1..n : z[k] = y[k]
  BY <1>2, SubSeqProperties
<1> HIDE DEF z
<1>4. z = x
  BY <1>1, <1>3, SeqEqual
<1> QED BY <1>4 DEF z

(* A replacement forgets what could be redone. *)
LEMMA HistoryReplace ==
  ASSUME TypeOK, TextInvariant, Mapped, Mapped', NEW from \in 0..Len(text),
         NEW to \in 0..Len(text), NEW s \in Pieces, Replace(from, to, s)
  PROVE  [History!Next]_(History!vars)
<1> DEFINE u == Splice(text, from, to, s)
           r == Record(from, to, s)
           x == EdgeStates[index]
<1>1. /\ records \in Seq(RecordType) /\ states \in Seq(Text) /\ index \in Nat
      /\ Len(records) \in Nat /\ index \in 0..Len(records) /\ index + 1 \in 0..Len(states)
  BY DEF TypeOK, TextInvariant, UndoRestoresText
<1>2. u \in Text /\ r \in RecordType /\ r.postSelection = NoRanges
  <2>1. from <= to
    BY DEF Replace
  <2> QED BY <2>1, ReplaceTypes DEF Record
<1>3. /\ index' = index + 1
      /\ records' = Append(SubSeq(records, 1, index), r)
      /\ states' = Append(SubSeq(states, 1, index + 1), u)
  BY DEF Replace
<1> HIDE DEF u, r
<1>4. /\ Len(records') = index + 1 /\ \A i \in 1..index : records'[i] = records[i]
      /\ records'[index + 1] = r
  BY <1>1, <1>2, <1>3, TruncateAppend
<1>5. \A i \in 1..index + 1 : states'[i] = states[i]
  BY <1>1, <1>2, <1>3, TruncateAppend
<1>6. EdgeStates'[index] = x
  <2>1. \A i \in 1..index : Boundary(i)' <=> Boundary(i)
    BY <1>4 DEF Boundary
  <2>2. EdgeRecurrence /\ EdgeRecurrence' /\ index <= Len(records') /\ Len(records') \in Nat
    BY <1>1, <1>4 DEF Mapped
  <2> QED BY <1>1, <1>5, <2>1, <2>2, EdgeStatesAgree
<1>7. EdgeStates'[index + 1] = x
  <2>1. ~(index + 1 = 0 \/ records'[index + 1].postSelection # NoRanges)
    BY <1>1, <1>2, <1>4
  <2>2. index + 1 \in 1..Len(records') /\ (index + 1) - 1 = index
    BY <1>1, <1>4
  <2>3. EdgeStates'[index + 1] = EdgeStates'[(index + 1) - 1]
    BY <2>1, <2>2 DEF Mapped, EdgeRecurrence, Boundary
  <2> QED BY <1>6, <2>2, <2>3
<1>8. Reached' = x /\ Position' = Len(x) /\ Position = Len(x)
  BY <1>3, <1>4, <1>7 DEF Reached, Position
<1>9. x \in Seq(Text) /\ Begins(x, Reached) /\ Reached \in Seq(Text) /\ Len(x) \in 1..Len(Reached)
  <2>1. x \in Seq(Text)
    BY <1>1, EdgeStatesTypes DEF EdgeTypes, TextInvariant
  <2> QED BY <1>8, <2>1 DEF Mapped
<1> HIDE DEF x
<1>10. Reached' = SubSeq(Reached, 1, Position)
  BY <1>8, <1>9, BeginsIs
<1>11. Shown' = Shown
  <2>1. Len(x) \in 1..Len(x)
    BY <1>9
  <2>2. x[Len(x)] = Reached[Len(x)]
    BY <1>9, <2>1 DEF Begins
  <2> QED BY <1>8, <2>2 DEF Mapped
<1> QED BY <1>8, <1>10, <1>11, MapForget

(* The end of a group in which something was changed adds a state.           *)
LEMMA HistoryEnd ==
  ASSUME TypeOK, TypeOK', TextInvariant, GroupInvariant, Mapped, Mapped',
         NEW ranges \in Ranges, EndUndoGroup(ranges)
  PROVE  [History!Next]_(History!vars)
<1>1. CASE ~(nesting = 1 /\ changes # 0)
  BY <1>1, HistoryMove DEF EndUndoGroup
<1>2. CASE nesting = 1 /\ changes # 0
  <2> DEFINE N == Len(records)
             t == states[N + 1]
  <2>1. /\ records \in Seq(RecordType) /\ N \in Nat /\ index = N /\ N \in 1..N
        /\ ~Boundary(N)
    BY <1>2 DEF TypeOK, GroupInvariant, Boundary
  <2>2. /\ records' = [records EXCEPT ![index] = Closed(records[index], ranges)]
        /\ index' = index /\ states' = states
    BY <1>2 DEF EndUndoGroup
  <2>3. /\ Len(records') = N /\ records'[N] = Closed(records[N], ranges)
        /\ \A i \in 1..N : i # N => records'[i] = records[i]
    <3>1. ASSUME NEW q \in RecordType PROVE Closed(q, ranges) \in RecordType
      BY DEF RecordType, Closed, TypeOK
    <3>2. Closed(records[index], ranges) \in RecordType
      BY <2>1, <3>1
    <3> QED BY <2>1, <2>2, <3>2, ExceptSeq
  <2>4. records'[N].postSelection # NoRanges
    <3>1. records[N] \in RecordType
      BY <2>1
    <3>2. records'[N].postSelection = ranges
      BY <2>3, <3>1 DEF Closed, RecordType
    <3> QED BY <3>2, UndoAssumption
  <2>5. t \in Text
    <3>1. states \in Seq(Text) /\ N + 1 \in 1..Len(states)
      BY <2>1 DEF TypeOK, TextInvariant, UndoRestoresText
    <3> QED BY <3>1
  <2>6. EdgeStates[N] = EdgeStates[N - 1]
    BY <2>1 DEF Mapped, EdgeRecurrence
  <2>7. EdgeStates'[N - 1] = EdgeStates[N - 1]
    <3> DEFINE n == N - 1
    <3>1. n \in 0..N /\ n <= N /\ \A i \in 1..n : i \in 1..N /\ i # N
      BY <2>1
    <3>2. \A i \in 1..n : Boundary(i)' <=> Boundary(i)
      BY <2>3, <3>1 DEF Boundary
    <3>3. \A i \in 1..n + 1 : states'[i] = states[i]
      BY <2>2
    <3>4. EdgeRecurrence /\ EdgeRecurrence'
      BY DEF Mapped
    <3> HIDE DEF n
    <3>5. EdgeStates'[n] = EdgeStates[n]
      BY <2>1, <2>3, <3>1, <3>2, <3>3, <3>4, EdgeStatesAgree
    <3> QED BY <3>5 DEF n
  <2>8. EdgeStates'[N] = Append(EdgeStates'[N - 1], t)
    <3>1. N \in 1..Len(records') /\ (N = 0 \/ records'[N].postSelection # NoRanges)
      BY <2>1, <2>3, <2>4
    <3>2. EdgeStates'[N] = Append(EdgeStates'[N - 1], states'[N + 1])
      BY <3>1 DEF Mapped, EdgeRecurrence, Boundary
    <3> QED BY <2>2, <3>2
  <2>9. Reached = EdgeStates[N] /\ Position = Len(Reached)
    BY <2>1 DEF Reached, Position
  <2>10. Reached' = EdgeStates'[N] /\ Position' = Len(Reached')
    BY <2>1, <2>2, <2>3 DEF Reached, Position
  <2> HIDE DEF t, N
  <2>11. Reached' = Append(Reached, t)
    BY <2>6, <2>7, <2>8, <2>9, <2>10
  <2>12. /\ Len(Append(Reached, t)) = Len(Reached) + 1
         /\ Append(Reached, t)[Len(Reached) + 1] = t
    BY <2>5, AppendProperties DEF Mapped
  <2>13. Position' = Position + 1
    BY <2>9, <2>10, <2>11, <2>12
  <2>14. Shown' = t
    <3>1. Shown' = Reached'[Position']
      BY DEF Mapped
    <3> QED BY <2>9, <2>11, <2>12, <2>13, <3>1
  <2> QED BY <2>5, <2>9, <2>11, <2>13, <2>14, MapCommit
<1> QED BY <1>1, <1>2

LEMMA HistoryStep ==
  ~CommandLists /\ IInv /\ IInv' /\ Mapped /\ Mapped' /\ [Next]_vars
    => [History!Next]_(History!vars)
<1> SUFFICES ASSUME ~CommandLists, IInv, IInv', Mapped, Mapped', [Next]_vars
             PROVE  [History!Next]_(History!vars)
  OBVIOUS
<1>1. TypeOK /\ TypeOK' /\ TextInvariant /\ GroupInvariant
  BY DEF IInv
<1>2. ASSUME NEW ranges \in Ranges, BeginUndoGroup(ranges)
      PROVE  [History!Next]_(History!vars)
  <2>1. UNCHANGED <<records, states>>
    BY <1>2 DEF BeginUndoGroup, recordVars
  <2> QED BY <1>1, <2>1, HistoryMove
<1>3. ASSUME NEW ranges \in Ranges, EndUndoGroup(ranges)
      PROVE  [History!Next]_(History!vars)
  BY <1>1, <1>3, HistoryEnd
<1>4. ASSUME NEW from \in 0..Len(text), NEW to \in 0..Len(text), NEW s \in Pieces,
             Replace(from, to, s)
      PROVE  [History!Next]_(History!vars)
  BY <1>1, <1>4, HistoryReplace
<1>5. ASSUME \/ Undo \/ Redo \/ UndoIteration \/ RedoIteration
             \/ MarkSaved \/ UNCHANGED vars
      PROVE  [History!Next]_(History!vars)
  <2>1. UNCHANGED <<records, states>>
    BY <1>5 DEF Undo, Redo, UndoIteration, RedoIteration, LoopEnds, MarkSaved, recordVars, vars
  <2> QED BY <1>1, <2>1, HistoryMove
<1> QED BY <1>2, <1>3, <1>4, <1>5 DEF Next

LEMMA HistoryInit == Init /\ Mapped => History!Init
<1> SUFFICES ASSUME Init, Mapped PROVE History!Init
  OBVIOUS
<1>1. /\ Len(records) = 0 /\ index = 0 /\ states[1] = <<>> /\ Shown = <<>>
  BY DEF Init, Shown
<1>2. Reached = EdgeStates[0] /\ Position = Len(EdgeStates[0]) /\ EdgeStates[0] = << <<>> >>
  BY <1>1 DEF Reached, Position, Mapped, EdgeRecurrence
<1>3. Len(<< <<>> >>) = 1
  OBVIOUS
<1>4. Shown \in Text
  BY <1>1, EmptySeq DEF Text
<1> QED BY <1>1, <1>2, <1>3, <1>4 DEF History!Init

(* When each group runs one command, the records, their merging and the      *)
(* loops over them implement UndoHistory: undo and redo only move along the  *)
(* texts there were at the ends of groups, and a group that changes          *)
(* something gives up those that were undone and adds one.                   *)
THEOREM HistoryIsLinear ==
  ASSUME ~CommandLists
  PROVE  Spec => ImplementsHistory
<1>1. IInv => TypeOK /\ UndoRestoresText /\ GroupInvariant
  BY DEF IInv, TextInvariant
<1>2. IInv /\ IInv' /\ Mapped /\ Mapped' /\ [Next]_vars => [History!Next]_(History!vars)
  BY HistoryStep
<1> QED BY <1>1, <1>2, IsMapped, HistoryInit, InvariantHolds, PTL
    DEF Spec, ImplementsHistory, History!Spec
=============================================================================
