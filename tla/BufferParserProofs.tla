------------------------- MODULE BufferParserProofs -------------------------
(***************************************************************************)
(* What holds of BufferParser for every text, grammar and bound, when the  *)
(* replies and the changes of the grammar do not fall inside of a group    *)
(* (Allow = {}; macros do break it, BufferParserMacros.cfg).               *)
(*                                                                         *)
(* The invariant, IInv, has three parts.                                   *)
(*                                                                         *)
(* MarksFit: what is on the marks of a line that is not dirty fits what is *)
(* on those of the next one.  This says nothing of whether the states are  *)
(* right: an edit that opens a string makes all later ones wrong, and they *)
(* are put right one line at a time.  That the lines before the first      *)
(* dirty one are right follows, from the start of the text on.             *)
(*                                                                         *)
(* TextsFit and RevisionsFit: undo leads back through a history of texts,  *)
(* and the revisions that stand for them increase, so that a revision      *)
(* stands for one text of the history, however often it is put back.       *)
(*                                                                         *)
(* RequestsFit: the line at the worker, if its revision is still one of    *)
(* the history, is a line of the text there.  And its place is followed    *)
(* through the replacements since: if there is a state there, it is the    *)
(* one the line is parsed from.  Without this the reply that is used after *)
(* an undo could be parsed from another state than the marks have now, and *)
(* the line before would not be linked to it.                              *)
(***************************************************************************)
EXTENDS BufferParser, SequenceTheorems, FiniteSetTheorems, WellFoundedInduction, TLAPS

-----------------------------------------------------------------------------
(* Least and greatest elements. *)

(* A set of naturals that is not empty has a least element. *)
LEMMA NatMin ==
  ASSUME NEW T, T \subseteq Nat, T # {}
  PROVE  \E x \in T : \A y \in T : x <= y
<1>1. \E x \in T : \A y \in T : ~(<<y, x>> \in OpToRel(<, Nat))
  BY WFMin, NatLessThanWellFounded
<1>2. \E x \in T : \A y \in T : ~(y < x)
  BY <1>1 DEF OpToRel
<1> QED BY <1>2

(* What Min returns, in a set of naturals. *)
LEMMA MinIs ==
  ASSUME NEW T, T \subseteq Nat, T # {}
  PROVE  Min(T) \in T /\ \A y \in T : Min(T) <= y
<1>1. \E x \in T : \A y \in T : x <= y
  BY NatMin
<1> QED BY <1>1 DEF Min

(* A bounded set of naturals that is not empty has a greatest element. *)
LEMMA MaxIs ==
  ASSUME NEW T, NEW n \in Nat, T \subseteq 0..n, T # {}
  PROVE  Max(T) \in T /\ \A y \in T : y <= Max(T)
<1> DEFINE R == {x \in 0..n : n - x \in T}
<1>1. R \subseteq Nat
  OBVIOUS
<1>2. R # {}
  <2>1. PICK y \in T : TRUE
    OBVIOUS
  <2>2. n - y \in 0..n /\ n - (n - y) = y
    OBVIOUS
  <2> QED BY <2>1, <2>2
<1>3. PICK x \in R : \A y \in R : x <= y
  <2> HIDE DEF R
  <2> QED BY <1>1, <1>2, NatMin
<1>4. n - x \in T /\ \A y \in T : y <= n - x
  <2>1. x \in 0..n /\ n - x \in T
    OBVIOUS
  <2>2. ASSUME NEW y \in T PROVE y <= n - x
    <3>1. y \in 0..n /\ n - y \in 0..n /\ n - (n - y) = y
      OBVIOUS
    <3>2. n - y \in R
      BY <3>1
    <3>3. x <= n - y
      BY <3>2, <1>3
    <3> QED BY <3>1, <3>3, <2>1
  <2> QED BY <2>1, <2>2
<1>5. \E z \in T : \A y \in T : z >= y
  <2> HIDE DEF R
  <2>1. \A y \in T : n - x >= y
    BY <1>4
  <2> QED BY <1>4, <2>1
<1>6. \A y \in T : Max(T) >= y
  BY <1>5 DEF Max
<1>7. Max(T) \in T
  BY <1>5 DEF Max
<1> QED BY <1>6, <1>7

-----------------------------------------------------------------------------
(* Lines. *)

(* The lines of a text start within it. *)
LEMMA StartsAre ==
  ASSUME NEW t \in Seq(Chars)
  PROVE  /\ LineStarts(t) \subseteq 0..Len(t) /\ 0 \in LineStarts(t)
         /\ \A i \in 1..Len(t) : i \in LineStarts(t) <=> t[i] = Newline
         /\ Len(t) \in Nat
BY DEF LineStarts

(* The start of the line at p is the last one up to p. *)
LEMMA BeginIs ==
  ASSUME NEW t \in Seq(Chars), NEW p \in Nat
  PROVE  /\ Begin(t, p) \in LineStarts(t) /\ Begin(t, p) <= p
         /\ \A s \in LineStarts(t) : s <= p => s <= Begin(t, p)
<1> DEFINE T == {s \in LineStarts(t) : s <= p}
<1>1. T \subseteq 0..Len(t) /\ T # {} /\ Len(t) \in Nat
  BY StartsAre
<1>2. Begin(t, p) = Max(T)
  BY DEF Begin
<1>3. \A s \in LineStarts(t) : s <= p => s \in T
  OBVIOUS
<1>4. \A x \in T : x \in LineStarts(t) /\ x <= p
  OBVIOUS
<1> HIDE DEF T
<1>5. Max(T) \in T /\ \A y \in T : y <= Max(T)
  BY <1>1, MaxIs
<1> QED BY <1>2, <1>3, <1>4, <1>5

(* The end of a line is the next start, or the end of the text. *)
LEMMA EndIs ==
  ASSUME NEW t \in Seq(Chars), NEW p \in Nat
  PROVE  /\ IsLast(t, p) => End(t, p) = Len(t)
         /\ ~IsLast(t, p) => /\ End(t, p) \in LineStarts(t) /\ p < End(t, p)
                             /\ \A s \in LineStarts(t) : p < s => End(t, p) <= s
         /\ End(t, p) \in 0..Len(t)
         /\ p <= Len(t) => p <= End(t, p)
<1> DEFINE T == {s \in LineStarts(t) : s > p}
<1>1. LineStarts(t) \subseteq 0..Len(t) /\ Len(t) \in Nat
  BY StartsAre
<1>2. CASE IsLast(t, p)
  <2>1. End(t, p) = Len(t)
    BY <1>2 DEF End
  <2> QED BY <1>1, <1>2, <2>1
<1>3. CASE ~IsLast(t, p)
  <2>1. End(t, p) = Min(T)
    BY <1>3 DEF End
  <2>2. T # {}
    <3>1. PICK s \in LineStarts(t) : ~(s <= p)
      BY <1>3 DEF IsLast
    <3>2. s \in Nat /\ s > p
      BY <1>1, <3>1
    <3> QED BY <3>2
  <2>3. T \subseteq Nat
    BY <1>1
  <2>4. \A s \in LineStarts(t) : p < s => s \in T
    BY <1>1
  <2>5. \A s \in T : s \in LineStarts(t) /\ p < s
    BY <1>1
  <2> HIDE DEF T
  <2>6. Min(T) \in T /\ \A y \in T : Min(T) <= y
    BY <2>2, <2>3, MinIs
  <2>7. End(t, p) \in LineStarts(t) /\ p < End(t, p)
        /\ \A s \in LineStarts(t) : p < s => End(t, p) <= s
    BY <2>1, <2>4, <2>5, <2>6
  <2> QED BY <1>1, <1>3, <2>7
<1> QED BY <1>2, <1>3

(* A line starts at its beginning, and its characters are those from there  *)
(* to its end.                                                              *)
LEMMA LineIs ==
  ASSUME NEW t \in Seq(Chars), NEW p \in LineStarts(t)
  PROVE  /\ Begin(t, p) = p /\ Line(t, p) = SubSeq(t, p + 1, End(t, p))
         /\ p \in Nat /\ p <= Len(t) /\ p <= End(t, p) /\ End(t, p) \in 0..Len(t)
<1>1. p \in Nat /\ p <= Len(t)
  BY StartsAre
<1>2. Begin(t, p) \in Nat
  BY <1>1, BeginIs, StartsAre
<1>3. Begin(t, p) = p
  BY <1>1, <1>2, BeginIs
<1> QED BY <1>1, <1>3, EndIs DEF Line

(* The same characters at two places are equal sequences. *)
LEMMA SameSubSeq ==
  ASSUME NEW C, NEW t \in Seq(C), NEW u \in Seq(C), NEW by \in Int,
         NEW a \in Nat, NEW b \in Nat, a <= b, b <= Len(t), a + by \in Nat, b + by <= Len(u),
         \A i \in a+1..b : u[i + by] = t[i]
  PROVE  SubSeq(u, a + by + 1, b + by) = SubSeq(t, a + 1, b)
<1> DEFINE v == SubSeq(t, a + 1, b)
           w == SubSeq(u, a + by + 1, b + by)
<1>n. Len(t) \in Nat /\ Len(u) \in Nat
  OBVIOUS
<1>1. /\ v \in Seq(C) /\ Len(v) = b - a
      /\ \A i \in 1..b - a : v[i] = t[a + i]
  <2>1. \A i \in a+1..b : t[i] \in C
    BY <1>n
  <2>2. /\ v \in Seq(C) /\ Len(v) = (IF a + 1 <= b THEN b - (a + 1) + 1 ELSE 0)
        /\ \A i \in 1..b - (a + 1) + 1 : v[i] = t[a + 1 + i - 1]
    BY <2>1, SubSeqProperties
  <2> HIDE DEF v
  <2> QED BY <2>2
<1>2. /\ w \in Seq(C) /\ Len(w) = b - a
      /\ \A i \in 1..b - a : w[i] = u[a + by + i]
  <2>1. \A i \in a+by+1..b+by : u[i] \in C
    BY <1>n
  <2>2. /\ w \in Seq(C)
        /\ Len(w) = (IF a + by + 1 <= b + by THEN (b + by) - (a + by + 1) + 1 ELSE 0)
        /\ \A i \in 1..(b + by) - (a + by + 1) + 1 : w[i] = u[a + by + 1 + i - 1]
    BY <2>1, SubSeqProperties
  <2> HIDE DEF w
  <2> QED BY <2>2
<1> HIDE DEF v, w
<1>3. ASSUME NEW i \in 1..Len(v) PROVE w[i] = v[i]
  <2>1. i \in 1..b - a /\ a + i \in a+1..b /\ (a + i) + by = a + by + i
    BY <1>1
  <2>2. u[(a + i) + by] = t[a + i]
    BY <2>1
  <2> QED BY <1>1, <1>2, <2>1, <2>2
<1>4. w = v
  BY <1>1, <1>2, <1>3, SeqEqual
<1> QED BY <1>4 DEF v, w

(* Two texts with the same first n characters have the same lines in them. *)
LEMMA SameLinesBefore ==
  ASSUME NEW t \in Seq(Chars), NEW u \in Seq(Chars), NEW n \in Nat,
         n <= Len(t), n <= Len(u), \A i \in 1..n : u[i] = t[i],
         NEW p \in LineStarts(u), ~IsLast(u, p), End(u, p) <= n
  PROVE  /\ p \in LineStarts(t) /\ ~IsLast(t, p) /\ End(t, p) = End(u, p)
         /\ Line(t, p) = Line(u, p)
<1>1. /\ LineStarts(t) \subseteq 0..Len(t) /\ LineStarts(u) \subseteq 0..Len(u)
      /\ Len(t) \in Nat /\ Len(u) \in Nat
  BY StartsAre
<1>2. ASSUME NEW q \in 0..n PROVE q \in LineStarts(t) <=> q \in LineStarts(u)
  <2>1. CASE q = 0
    BY <2>1, StartsAre
  <2>2. CASE q # 0
    <3>1. q \in 1..n /\ q \in 1..Len(t) /\ q \in 1..Len(u)
      BY <1>1, <2>2
    <3> QED BY <3>1, StartsAre
  <2> QED BY <2>1, <2>2
<1> DEFINE e == End(u, p)
<1>3. e \in LineStarts(u) /\ p < e /\ \A s \in LineStarts(u) : p < s => e <= s
  BY <1>1, EndIs
<1>4. p \in 0..n /\ e \in 0..n
  BY <1>1, <1>3
<1> HIDE DEF e
<1>5. p \in LineStarts(t) /\ e \in LineStarts(t)
  BY <1>2, <1>3, <1>4
<1>6. ~IsLast(t, p)
  BY <1>1, <1>3, <1>4, <1>5 DEF IsLast
<1>7. p \in Nat /\ End(t, p) \in LineStarts(t) /\ p < End(t, p) /\ End(t, p) <= e
  BY <1>1, <1>3, <1>4, <1>5, <1>6, EndIs
<1>8. End(t, p) \in LineStarts(u)
  BY <1>1, <1>2, <1>4, <1>7
<1>9. End(t, p) = e
  BY <1>1, <1>3, <1>4, <1>7, <1>8
<1>10. Line(t, p) = SubSeq(t, p + 1, e) /\ Line(u, p) = SubSeq(u, p + 1, e)
  BY <1>5, <1>9, LineIs DEF e
<1>11. SubSeq(u, p + 0 + 1, e + 0) = SubSeq(t, p + 1, e)
  <2>1. \A i \in p+1..e : u[i + 0] = t[i]
    BY <1>1, <1>4
  <2>2. p \in Nat /\ e \in Nat /\ p <= e /\ e <= Len(t) /\ p + 0 \in Nat /\ e + 0 <= Len(u)
        /\ 0 \in Int
    BY <1>1, <1>3, <1>4
  <2> QED BY <2>1, <2>2, SameSubSeq
<1>12. SubSeq(u, p + 1, e) = SubSeq(t, p + 1, e)
  <2>1. p + 0 + 1 = p + 1 /\ e + 0 = e
    BY <1>4
  <2> QED BY <1>11, <2>1
<1> QED BY <1>5, <1>6, <1>9, <1>10, <1>12 DEF e

(* Nor do the lines after a change change but for their places. *)
LEMMA SameLinesAfter ==
  ASSUME NEW t \in Seq(Chars), NEW u \in Seq(Chars), NEW n \in Nat, NEW by \in Int,
         n <= Len(t), 0 <= n + by, Len(u) = Len(t) + by,
         \A i \in n+1..Len(t) : u[i + by] = t[i],
         NEW p \in LineStarts(u), n + by < p
  PROVE  /\ p - by \in LineStarts(t) /\ n < p - by
         /\ IsLast(u, p) <=> IsLast(t, p - by)
         /\ End(u, p) = End(t, p - by) + by /\ Line(u, p) = Line(t, p - by)
<1>1. /\ LineStarts(t) \subseteq 0..Len(t) /\ LineStarts(u) \subseteq 0..Len(u)
      /\ Len(t) \in Nat /\ Len(u) \in Nat
  BY StartsAre
<1>2. ASSUME NEW q \in n+1..Len(t) PROVE q \in LineStarts(t) <=> q + by \in LineStarts(u)
  <2>1. q \in 1..Len(t) /\ q + by \in 1..Len(u) /\ u[q + by] = t[q]
    BY <1>1
  <2> QED BY <2>1, StartsAre
<1> DEFINE o == p - by
<1>3. o \in n+1..Len(t) /\ o + by = p /\ o \in Nat /\ p \in Nat /\ n < o
  BY <1>1
<1> HIDE DEF o
<1>4. o \in LineStarts(t)
  BY <1>2, <1>3
<1>5. ASSUME NEW s \in LineStarts(t), o < s PROVE s + by \in LineStarts(u) /\ p < s + by
  <2>1. s \in n+1..Len(t) /\ p < s + by
    BY <1>1, <1>3, <1>5
  <2> QED BY <1>2, <2>1
<1>6. ASSUME NEW s \in LineStarts(u), p < s PROVE s - by \in LineStarts(t) /\ o < s - by
  <2>1. s - by \in n+1..Len(t) /\ o < s - by /\ (s - by) + by = s
    BY <1>1, <1>3, <1>6
  <2> QED BY <1>2, <2>1
<1>7. IsLast(u, p) <=> IsLast(t, o)
  <2>1. ASSUME IsLast(u, p), NEW s \in LineStarts(t) PROVE s <= o
    BY <1>1, <1>3, <1>5, <2>1 DEF IsLast
  <2>2. ASSUME IsLast(t, o), NEW s \in LineStarts(u) PROVE s <= p
    <3>1. SUFFICES ASSUME p < s PROVE FALSE
      BY <1>1, <1>3
    <3> QED BY <1>1, <1>3, <1>6, <2>2, <3>1 DEF IsLast
  <2> QED BY <2>1, <2>2 DEF IsLast
<1>8. End(u, p) = End(t, o) + by
  <2>1. CASE IsLast(u, p)
    BY <1>1, <1>3, <1>7, <2>1, EndIs
  <2>2. CASE ~IsLast(u, p)
    <3> DEFINE e == End(u, p)
               f == End(t, o)
    <3>1. e \in LineStarts(u) /\ p < e /\ \A s \in LineStarts(u) : p < s => e <= s
      BY <1>3, <2>2, EndIs
    <3>2. f \in LineStarts(t) /\ o < f /\ \A s \in LineStarts(t) : o < s => f <= s
      BY <1>3, <1>7, <2>2, EndIs
    <3> HIDE DEF e, f
    <3>3. e <= f + by
      BY <1>5, <3>1, <3>2
    <3>4. f <= e - by
      BY <1>6, <3>1, <3>2
    <3>5. e \in Int /\ f \in Int
      BY <1>1, <3>1, <3>2
    <3>6. e = f + by
      BY <3>3, <3>4, <3>5
    <3> QED BY <3>6 DEF e, f
  <2> QED BY <2>1, <2>2
<1>9. Line(u, p) = Line(t, o)
  <2> DEFINE f == End(t, o)
  <2>1. Line(t, o) = SubSeq(t, o + 1, f) /\ f \in 0..Len(t) /\ o <= f
    BY <1>4, LineIs
  <2>2. Line(u, p) = SubSeq(u, p + 1, f + by)
    BY <1>8, LineIs
  <2> HIDE DEF f
  <2>3. SubSeq(u, o + by + 1, f + by) = SubSeq(t, o + 1, f)
    <3>1. \A i \in o+1..f : u[i + by] = t[i]
      BY <1>1, <1>3, <2>1
    <3>2. o \in Nat /\ f \in Nat /\ o <= f /\ f <= Len(t) /\ o + by \in Nat /\ f + by <= Len(u)
      BY <1>1, <1>3, <2>1
    <3>3. t \in Seq(Chars) /\ u \in Seq(Chars) /\ by \in Int
      OBVIOUS
    <3> QED BY ONLY <3>1, <3>2, <3>3, SameSubSeq
  <2> QED BY <1>3, <2>1, <2>2, <2>3
<1> QED BY <1>3, <1>4, <1>7, <1>8, <1>9 DEF o

-----------------------------------------------------------------------------
(* Quotes. *)

(* Text that is appended opens a string if it has an odd number of quotes.  *)
LEMMA OddSplit ==
  ASSUME NEW t \in Seq(Chars), NEW a \in Nat, NEW b \in Nat, a <= b, b <= Len(t)
  PROVE  Odd(SubSeq(t, 1, b)) <=> ~(Odd(SubSeq(t, 1, a)) <=> Odd(SubSeq(t, a + 1, b)))
<1> DEFINE Quotes(l) == {i \in 1..Len(l) : l[i] = Quote}
           A == {i \in 1..a : t[i] = Quote}
           B == {i \in a+1..b : t[i] = Quote}
           X == {i \in 1..b : t[i] = Quote}
           tail == SubSeq(t, a + 1, b)
<1>n. Len(t) \in Nat
  OBVIOUS
<1>1. ASSUME NEW n \in Nat, n <= Len(t)
      PROVE  Quotes(SubSeq(t, 1, n)) = {i \in 1..n : t[i] = Quote}
  <2> DEFINE s == SubSeq(t, 1, n)
  <2>1. Len(s) = n /\ \A i \in 1..n : s[i] = t[i]
    <3>1. \A i \in 1..n : t[i] \in Chars
      BY <1>1, <1>n
    <3>2. Len(s) = (IF 1 <= n THEN n - 1 + 1 ELSE 0) /\ \A i \in 1..n - 1 + 1 : s[i] = t[1 + i - 1]
      BY <3>1, SubSeqProperties
    <3> HIDE DEF s
    <3> QED BY <3>2
  <2> HIDE DEF s
  <2>2. Quotes(s) = {i \in 1..n : t[i] = Quote}
    BY <2>1
  <2> QED BY <2>2 DEF s
<1>2. Quotes(SubSeq(t, 1, b)) = X /\ Quotes(SubSeq(t, 1, a)) = A
  <2>1. a <= Len(t)
    BY <1>n
  <2> QED BY <1>1, <2>1
<1>3. IsFiniteSet(A) /\ IsFiniteSet(B) /\ IsFiniteSet(X)
  <2>1. IsFiniteSet(1..b)
    BY FS_Interval
  <2>2. A \subseteq 1..b /\ B \subseteq 1..b /\ X \subseteq 1..b
    OBVIOUS
  <2> HIDE DEF A, B, X
  <2> QED BY <2>1, <2>2, FS_Subset
<1>4. X = A \cup B /\ A \cap B = {}
  OBVIOUS
<1>5. Cardinality(X) = Cardinality(A) + Cardinality(B)
  <2> HIDE DEF A, B, X
  <2>1. Cardinality(X) = Cardinality(A) + Cardinality(B) - Cardinality(A \cap B)
    BY <1>3, <1>4, FS_Union
  <2>2. Cardinality(A \cap B) = 0
    BY <1>4, FS_EmptySet
  <2>3. Cardinality(A) \in Nat /\ Cardinality(B) \in Nat
    BY <1>3, FS_CardinalityType
  <2> QED BY <2>1, <2>2, <2>3
<1>6. Cardinality(Quotes(tail)) = Cardinality(B)
  <2>1. Len(tail) = b - a /\ \A i \in 1..b - a : tail[i] = t[a + i]
    <3>1. \A i \in a+1..b : t[i] \in Chars
      BY <1>n
    <3>2. /\ Len(tail) = (IF a + 1 <= b THEN b - (a + 1) + 1 ELSE 0)
          /\ \A i \in 1..b - (a + 1) + 1 : tail[i] = t[a + 1 + i - 1]
      BY <3>1, SubSeqProperties
    <3> HIDE DEF tail
    <3> QED BY <3>2
  <2> DEFINE Q == Quotes(tail)
             f == [i \in B |-> i - a]
  <2> HIDE DEF tail
  <2>2. f \in [B -> Q]
    <3> SUFFICES ASSUME NEW i \in B PROVE i - a \in Q
      OBVIOUS
    <3>1. i - a \in 1..b - a /\ a + (i - a) = i
      OBVIOUS
    <3> QED BY <2>1, <3>1
  <2>3. \A i, j \in B : f[i] = f[j] => i = j
    OBVIOUS
  <2>4. \A k \in Q : \E i \in B : f[i] = k
    <3> SUFFICES ASSUME NEW k \in Q PROVE \E i \in B : f[i] = k
      OBVIOUS
    <3>1. k \in 1..b - a /\ t[a + k] = Quote
      BY <2>1
    <3>2. a + k \in B /\ (a + k) - a = k
      BY <3>1
    <3> QED BY <3>2
  <2> HIDE DEF f, Q, B
  <2>5. f \in Bijection(B, Q)
    BY <2>2, <2>3, <2>4 DEF Bijection, Injection, Surjection, IsInjective
  <2>6. Cardinality(Q) = Cardinality(B)
    BY <1>3, <2>5, FS_Bijection DEF ExistsBijection
  <2> QED BY <2>6 DEF Q
<1>7. Cardinality(A) \in Nat /\ Cardinality(B) \in Nat
  BY <1>3, FS_CardinalityType
<1>8. /\ Odd(SubSeq(t, 1, b)) <=> Cardinality(X) % 2 = 1
      /\ Odd(SubSeq(t, 1, a)) <=> Cardinality(A) % 2 = 1
      /\ Odd(tail) <=> Cardinality(B) % 2 = 1
  BY <1>2, <1>6 DEF Odd
<1> HIDE DEF A, B, X
<1>9. (Cardinality(A) + Cardinality(B)) % 2 = 1
        <=> ~(Cardinality(A) % 2 = 1 <=> Cardinality(B) % 2 = 1)
  BY <1>7
<1> QED BY <1>5, <1>8, <1>9

-----------------------------------------------------------------------------
(* Marks that fit a text: a line without a dirty mark, and with a state to  *)
(* be parsed from, has one scope, made from that state and from its         *)
(* characters, and the next line has the state it leads to.                 *)

InLine(t, p, x) == p <= x /\ (x < End(t, p) \/ IsLast(t, p))

Clean(t, marked, p) == \A x \in marked : ~InLine(t, p, x)

StartState(g, m, p) == IF p = 0 THEN Seed(g) ELSE m.states[p]

LineParsed(t, g, m, p) ==
  /\ p \in DOMAIN m.scopes
  /\ \A k \in DOMAIN m.scopes : InLine(t, p, k) => k = p
  /\ m.scopes[p] = <<StartState(g, m, p), Line(t, p)>>
  /\ ~IsLast(t, p) => /\ End(t, p) \in DOMAIN m.states
                      /\ m.states[End(t, p)] = After(StartState(g, m, p), Line(t, p))

Chained(t, g, m) ==
  /\ -1 \in DOMAIN m.states /\ m.states[-1] = Seed(g)
  /\ \A p \in LineStarts(t) :
       Clean(t, m.dirty, p) /\ (p = 0 \/ p \in DOMAIN m.states) => LineParsed(t, g, m, p)

MarksType(t, m) ==
  /\ m.dirty \subseteq 0..Len(t)
  /\ DOMAIN m.states \subseteq -1..Len(t)
  /\ \A k \in DOMAIN m.states : m.states[k] \in States
  /\ DOMAIN m.scopes \subseteq 0..Len(t)
  /\ \A k \in DOMAIN m.scopes : m.scopes[k] \in States \X Seq(Chars)

StateIn(t, g, p) == [grammar |-> g, open |-> Odd(SubSeq(t, 1, p))]

(* What After does to the state. *)
LEMMA Toggled ==
  ASSUME NEW g, NEW a \in BOOLEAN, NEW b \in BOOLEAN, NEW c \in BOOLEAN, c <=> ~(a <=> b)
  PROVE  [[grammar |-> g, open |-> a] EXCEPT !.open = @ # b] = [grammar |-> g, open |-> c]
OBVIOUS

(* Parsing a line with no quotes ends in the state it began in. *)
LEMMA AfterNothing ==
  ASSUME NEW state \in States
  PROVE  After(state, <<>>) = state
<1>1. {i \in 1..Len(<<>>) : <<>>[i] = Quote} = {}
  OBVIOUS
<1>2. Cardinality({i \in 1..Len(<<>>) : <<>>[i] = Quote}) = 0
  BY <1>1, FS_EmptySet
<1>3. Odd(<<>>) = FALSE
  BY <1>2 DEF Odd
<1>4. PICK g \in Grammars, o \in BOOLEAN : state = [grammar |-> g, open |-> o]
  BY DEF States
<1>5. [[grammar |-> g, open |-> o] EXCEPT !.open = @ # FALSE] = [grammar |-> g, open |-> o]
  <2>1. o <=> ~(o <=> FALSE)
    OBVIOUS
  <2> QED BY <2>1, Toggled
<1>6. After(state, <<>>) = [[grammar |-> g, open |-> o] EXCEPT !.open = @ # FALSE]
  BY <1>3, <1>4 DEF After
<1> QED BY <1>4, <1>5, <1>6

(* A line ends in a state.                                                   *)
LEMMA AfterType ==
  ASSUME NEW state \in States, NEW line
  PROVE  After(state, line) \in States
BY DEF After, States, Odd

(* The state at the start of the text. *)
LEMMA StateInStart ==
  ASSUME NEW t \in Seq(Chars), NEW g
  PROVE  StateIn(t, g, 0) = Seed(g)
<1>1. SubSeq(t, 1, 0) = <<>>
  BY SubSeqEmpty
<1>2. {i \in 1..Len(<<>>) : <<>>[i] = Quote} = {}
  OBVIOUS
<1>3. Cardinality({i \in 1..Len(<<>>) : <<>>[i] = Quote}) = 0
  BY <1>2, FS_EmptySet
<1>4. Odd(SubSeq(t, 1, 0)) = FALSE
  BY <1>1, <1>3 DEF Odd
<1> QED BY <1>4 DEF StateIn, Seed

(* A line leads from the state of the text before it to that of the text    *)
(* with it.                                                                 *)
LEMMA StateInNext ==
  ASSUME NEW t \in Seq(Chars), NEW g, NEW p \in LineStarts(t)
  PROVE  After(StateIn(t, g, p), Line(t, p)) = StateIn(t, g, End(t, p))
<1> DEFINE e == End(t, p)
           a == Odd(SubSeq(t, 1, p))
           b == Odd(Line(t, p))
           c == Odd(SubSeq(t, 1, e))
<1>1. p \in Nat /\ e \in Nat /\ p <= e /\ e <= Len(t) /\ Line(t, p) = SubSeq(t, p + 1, e)
  BY LineIs, StartsAre
<1>2. c <=> ~(a <=> b)
  <2> HIDE DEF e
  <2> QED BY <1>1, OddSplit
<1>3. a \in BOOLEAN /\ b \in BOOLEAN /\ c \in BOOLEAN
  BY DEF Odd
<1>4. StateIn(t, g, p) = [grammar |-> g, open |-> a] /\ StateIn(t, g, e) = [grammar |-> g, open |-> c]
  BY DEF StateIn
<1>5. After([grammar |-> g, open |-> a], Line(t, p)) = [[grammar |-> g, open |-> a] EXCEPT !.open = @ # b]
  BY DEF After
<1> HIDE DEF a, b, c
<1>6. [[grammar |-> g, open |-> a] EXCEPT !.open = @ # b] = [grammar |-> g, open |-> c]
  BY <1>2, <1>3, Toggled
<1> QED BY <1>4, <1>5, <1>6

(* No position is in two lines. *)
LEMMA LinesDisjoint ==
  ASSUME NEW t \in Seq(Chars), NEW p \in LineStarts(t), NEW q \in LineStarts(t), NEW x \in Int,
         InLine(t, p, x), InLine(t, q, x)
  PROVE  p = q
<1>1. p \in Nat /\ q \in Nat
  BY StartsAre
<1>2. ASSUME NEW a \in LineStarts(t), NEW b \in LineStarts(t), InLine(t, a, x), InLine(t, b, x)
      PROVE  ~(a < b)
  <2> SUFFICES ASSUME a < b PROVE FALSE
    OBVIOUS
  <2>1. a \in Nat /\ b \in Nat
    BY StartsAre
  <2>2. ~IsLast(t, a)
    BY <2>1 DEF IsLast
  <2>3. x < End(t, a) /\ b <= x
    BY <1>2, <2>2 DEF InLine
  <2>4. End(t, a) <= b /\ End(t, a) \in Nat
    BY <2>1, <2>2, EndIs
  <2> QED BY <2>1, <2>3, <2>4
<1> QED BY <1>1, <1>2

-----------------------------------------------------------------------------
(* Chained marks are right before the first dirty line. *)

(* A line p leads to has the state of the text before it. *)
StateKnown(t, g, m, p) ==
  p = 0 \/ (p \in DOMAIN m.states /\ m.states[p] = StateIn(t, g, p))

(* A line that starts before those of all dirty marks has none in it. *)
LEMMA BeforeIsClean ==
  ASSUME NEW t \in Seq(Chars), NEW marked, marked \subseteq Nat,
         NEW p \in LineStarts(t), \A d \in marked : p < Begin(t, d)
  PROVE  Clean(t, marked, p)
<1> SUFFICES ASSUME NEW d \in marked, InLine(t, p, d) PROVE FALSE
  BY DEF Clean
<1>1. p \in Nat /\ d \in Nat /\ p < Begin(t, d)
  BY StartsAre
<1>2. Begin(t, d) \in LineStarts(t) /\ Begin(t, d) <= d /\ Begin(t, d) \in Nat
  BY <1>1, BeginIs, StartsAre
<1>3. ~IsLast(t, p)
  BY <1>1, <1>2 DEF IsLast
<1>4. d < End(t, p) /\ End(t, p) <= Begin(t, d) /\ End(t, p) \in Nat
  BY <1>1, <1>2, <1>3, EndIs DEF InLine
<1> QED BY <1>1, <1>2, <1>4

(* The line before a line. *)
LEMMA LineBefore ==
  ASSUME NEW t \in Seq(Chars), NEW p \in LineStarts(t), p # 0
  PROVE  \E q \in LineStarts(t) : q < p /\ ~IsLast(t, q) /\ End(t, q) = p
<1> DEFINE q == Begin(t, p - 1)
<1>1. p \in Nat /\ p - 1 \in Nat
  BY StartsAre
<1>2. q \in LineStarts(t) /\ q <= p - 1 /\ \A s \in LineStarts(t) : s <= p - 1 => s <= q
  BY <1>1, BeginIs
<1>3. q \in Nat
  BY <1>2, StartsAre
<1> HIDE DEF q
<1>4. q < p /\ ~IsLast(t, q)
  BY <1>1, <1>2, <1>3 DEF IsLast
<1>5. End(t, q) \in LineStarts(t) /\ q < End(t, q) /\ End(t, q) <= p
  BY <1>3, <1>4, EndIs
<1>6. End(t, q) \in Nat
  BY <1>5, StartsAre
<1>7. End(t, q) = p
  BY <1>1, <1>2, <1>3, <1>5, <1>6
<1> QED BY <1>2, <1>4, <1>7

(* A line that is parsed from the state of the text before it passes on that *)
(* of the text with it.                                                      *)
LEMMA StatePassedOn ==
  ASSUME NEW t \in Seq(Chars), NEW g, NEW m, NEW p \in LineStarts(t),
         StateKnown(t, g, m, p), LineParsed(t, g, m, p)
  PROVE  /\ StartState(g, m, p) = StateIn(t, g, p)
         /\ ~IsLast(t, p) => StateKnown(t, g, m, End(t, p))
<1>1. StartState(g, m, p) = StateIn(t, g, p)
  BY StateInStart DEF StateKnown, StartState
<1>2. After(StateIn(t, g, p), Line(t, p)) = StateIn(t, g, End(t, p))
  BY StateInNext
<1> QED BY <1>1, <1>2 DEF LineParsed, StateKnown

(* Chained marks have, for every line up to the first dirty one, the state   *)
(* the text before it leads to: from line to line, by the least one that     *)
(* would not.                                                                *)
LEMMA StatesKnownBefore ==
  ASSUME NEW t \in Seq(Chars), NEW g, NEW m, MarksType(t, m), Chained(t, g, m),
         NEW p \in LineStarts(t), \A d \in m.dirty : p <= Begin(t, d)
  PROVE  StateKnown(t, g, m, p)
<1> DEFINE Bad == {q \in LineStarts(t) : /\ \A d \in m.dirty : q <= Begin(t, d)
                                         /\ ~StateKnown(t, g, m, q)}
<1>1. LineStarts(t) \subseteq Nat /\ m.dirty \subseteq Nat
  BY StartsAre DEF MarksType
<1>2. SUFFICES ASSUME Bad # {} PROVE FALSE
  OBVIOUS
<1>3. PICK b \in Bad : \A q \in Bad : b <= q
  <2>1. Bad \subseteq Nat
    BY <1>1
  <2> HIDE DEF Bad
  <2> QED BY <1>2, <2>1, NatMin
<1>4. /\ b \in LineStarts(t) /\ \A d \in m.dirty : b <= Begin(t, d)
      /\ ~StateKnown(t, g, m, b) /\ b # 0
  BY DEF StateKnown
<1>5. PICK q \in LineStarts(t) : q < b /\ ~IsLast(t, q) /\ End(t, q) = b
  BY <1>4, LineBefore
<1>6. q \in Nat /\ b \in Nat
  BY <1>1, <1>4
<1>7. \A d \in m.dirty : Begin(t, d) \in Nat
  BY <1>1, BeginIs
<1>8. \A d \in m.dirty : q < Begin(t, d) /\ q <= Begin(t, d)
  BY <1>4, <1>5, <1>6, <1>7
<1>9. StateKnown(t, g, m, q)
  <2>1. q \notin Bad
    BY <1>3, <1>5, <1>6
  <2> QED BY <1>8, <2>1
<1>10. Clean(t, m.dirty, q)
  BY <1>1, <1>8, BeforeIsClean
<1>11. LineParsed(t, g, m, q)
  BY <1>9, <1>10 DEF Chained, StateKnown
<1> QED BY <1>4, <1>5, <1>9, <1>11, StatePassedOn

(* All lines before the first dirty one are right. *)
LEMMA LinesParsedBefore ==
  ASSUME NEW t \in Seq(Chars), NEW g, NEW m, MarksType(t, m), Chained(t, g, m),
         NEW p \in LineStarts(t), \A d \in m.dirty : p < Begin(t, d)
  PROVE  /\ StateKnown(t, g, m, p) /\ LineParsed(t, g, m, p)
         /\ StartState(g, m, p) = StateIn(t, g, p)
<1>1. m.dirty \subseteq Nat /\ p \in Nat /\ \A d \in m.dirty : Begin(t, d) \in Nat
  BY StartsAre, BeginIs DEF MarksType
<1>2. StateKnown(t, g, m, p)
  BY <1>1, StatesKnownBefore
<1>3. Clean(t, m.dirty, p)
  BY <1>1, BeforeIsClean
<1>4. LineParsed(t, g, m, p)
  BY <1>2, <1>3 DEF Chained, StateKnown
<1> QED BY <1>2, <1>4, StatePassedOn

(* The line that is parsed next. *)
IsNext(t, g, m, l) ==
  /\ l.from \in LineStarts(t) /\ l.to = End(t, l.from) /\ l.line = Line(t, l.from)
  /\ l.state = StateIn(t, g, l.from)
  /\ l.state = StartState(g, m, l.from)
  /\ l.from = 0 \/ l.from \in DOMAIN m.states

(* When something is dirty there is exactly one line to parse next, and its  *)
(* state is the one the text before it leads to.                             *)
LEMMA FirstDirtyIs ==
  ASSUME NEW t \in Seq(Chars), NEW g, NEW m, MarksType(t, m), Chained(t, g, m)
  PROVE  \/ m.dirty = {} /\ FirstDirty(t, m.dirty, m.states) = {}
         \/ m.dirty # {} /\ \E l : FirstDirty(t, m.dirty, m.states) = {l} /\ IsNext(t, g, m, l)
<1>1. CASE m.dirty = {}
  BY <1>1 DEF FirstDirty
<1>2. CASE m.dirty # {}
  <2> DEFINE d == Min(m.dirty)
             f == Begin(t, d)
             key == IF f = 0 THEN Min(DOMAIN m.states) ELSE f
             l == [from |-> f, to |-> End(t, f), line |-> Line(t, f), state |-> m.states[key]]
  <2>1. m.dirty \subseteq Nat /\ DOMAIN m.states \subseteq -1..Len(t) /\ -1 \in DOMAIN m.states
        /\ m.states[-1] = Seed(g) /\ Len(t) \in Nat
    BY StartsAre DEF MarksType, Chained
  <2>2. d \in m.dirty /\ \A x \in m.dirty : d <= x
    BY <1>2, <2>1, MinIs
  <2>3. f \in LineStarts(t) /\ f <= d /\ d \in Nat /\ f \in Nat
    BY <2>1, <2>2, BeginIs, StartsAre
  <2>4. \A x \in m.dirty : f <= Begin(t, x)
    <3> HIDE DEF d, f
    <3> SUFFICES ASSUME NEW x \in m.dirty PROVE f <= Begin(t, x)
      OBVIOUS
    <3>1. x \in Nat /\ f <= x
      BY <2>1, <2>2, <2>3
    <3> QED BY <2>3, <3>1, BeginIs
  <2>5. StateKnown(t, g, m, f)
    <3> HIDE DEF d, f
    <3> QED BY <2>3, <2>4, StatesKnownBefore
  <2>6. Min(DOMAIN m.states) = -1
    <3> DEFINE D == DOMAIN m.states
    <3>1. -1 \in D /\ \A x \in D : -1 <= x /\ x \in Int
      BY <2>1
    <3> HIDE DEF D
    <3>2. Min(D) \in D /\ \A x \in D : Min(D) <= x
      BY <3>1 DEF Min
    <3> QED BY <3>1, <3>2 DEF D
  <2>7. key \in DOMAIN m.states /\ m.states[key] = StateIn(t, g, f)
        /\ m.states[key] = StartState(g, m, f)
    <3>1. CASE f = 0
      <4>1. key = -1
        BY <2>6, <3>1
      <4>2. StateIn(t, g, 0) = Seed(g)
        BY StateInStart
      <4> HIDE DEF key, f
      <4> QED BY <2>1, <3>1, <4>1, <4>2 DEF StartState
    <3>2. CASE f # 0
      <4>1. key = f
        BY <3>2
      <4> HIDE DEF key, f
      <4> QED BY <2>5, <3>2, <4>1 DEF StartState, StateKnown
    <3> QED BY <3>1, <3>2
  <2>8. FirstDirty(t, m.dirty, m.states) = {l}
    <3>1. FirstDirty(t, m.dirty, m.states) =
            IF m.dirty = {} \/ DOMAIN m.states = {} \/ key \notin DOMAIN m.states THEN {} ELSE {l}
      BY DEF FirstDirty
    <3> HIDE DEF key, l
    <3> QED BY <1>2, <2>7, <3>1
  <2>9. l.from = f /\ l.to = End(t, f) /\ l.line = Line(t, f) /\ l.state = m.states[key]
    OBVIOUS
  <2> HIDE DEF l, key, f, d
  <2>10. IsNext(t, g, m, l)
    BY <2>3, <2>5, <2>7, <2>9 DEF IsNext, StateKnown
  <2> QED BY <1>2, <2>8, <2>10
<1> QED BY <1>1, <1>2

-----------------------------------------------------------------------------
(* Replacements. *)

(* r is t with the characters from+1 .. to replaced by s. *)
IsSplice(C, t, from, to, s, r) ==
  /\ r \in Seq(C)
  /\ Len(r) = Len(t) - (to - from) + Len(s)
  /\ \A i \in 1..from : r[i] = t[i]
  /\ \A i \in 1..Len(s) : r[from + i] = s[i]
  /\ \A i \in to+1..Len(t) : r[i - (to - from) + Len(s)] = t[i]

(* A splice is a sequence of the expected length, and its elements are      *)
(* those of the prefix, of the inserted string and of the suffix.           *)
LEMMA SpliceElements ==
  ASSUME NEW C, NEW t \in Seq(C), NEW s \in Seq(C),
         NEW from \in 0..Len(t), NEW to \in from..Len(t)
  PROVE  IsSplice(C, t, from, to, s, Splice(t, from, to, s))
<1> DEFINE pre == SubSeq(t, 1, from)
           suf == SubSeq(t, to + 1, Len(t))
           head == pre \o s
           all == head \o suf
<1>1. pre \in Seq(C) /\ Len(pre) = from /\ \A i \in 1..from : pre[i] = t[i]
  BY SubSeqProperties
<1>2. /\ suf \in Seq(C) /\ Len(suf) = Len(t) - to
      /\ \A i \in 1..Len(t) - to : suf[i] = t[to + i]
  BY SubSeqProperties
<1> HIDE DEF pre, suf
<1>3. /\ head \in Seq(C) /\ Len(head) = from + Len(s)
      /\ \A i \in 1..from + Len(s) :
            head[i] = IF i <= from THEN pre[i] ELSE s[i - from]
  BY <1>1, ConcatProperties
<1> HIDE DEF head
<1>4. /\ all \in Seq(C)
      /\ Len(all) = from + Len(s) + (Len(t) - to)
      /\ \A i \in 1..from + Len(s) + (Len(t) - to) :
            all[i] = IF i <= from + Len(s) THEN head[i] ELSE suf[i - (from + Len(s))]
  <2>1. head \in Seq(C) /\ suf \in Seq(C)
    BY <1>2, <1>3
  <2>2. /\ all \in Seq(C) /\ Len(all) = Len(head) + Len(suf)
        /\ \A i \in 1..Len(head) + Len(suf) :
              all[i] = IF i <= Len(head) THEN head[i] ELSE suf[i - Len(head)]
    BY <2>1, ConcatProperties
  <2>3. Len(head) = from + Len(s) /\ Len(suf) = Len(t) - to
    BY <1>2, <1>3
  <2> HIDE DEF all
  <2> QED BY <2>2, <2>3
<1>5. Splice(t, from, to, s) = all
  BY DEF Splice, all, head, pre, suf
<1> HIDE DEF all
<1>n. Len(t) \in Nat /\ Len(s) \in Nat /\ from \in Nat /\ to \in Nat
      /\ from <= to /\ to <= Len(t)
  OBVIOUS
<1>6. ASSUME NEW i \in to+1..Len(t)
      PROVE  all[i - (to - from) + Len(s)] = t[i]
  <2> DEFINE j == i - (to - from) + Len(s)
  <2>1. /\ j \in 1..from + Len(s) + (Len(t) - to) /\ ~(j <= from + Len(s))
        /\ j - (from + Len(s)) = i - to
    BY <1>n
  <2> HIDE DEF j
  <2>2. all[j] = suf[i - to]
    BY <2>1, <1>4
  <2>3. i - to \in 1..Len(t) - to /\ to + (i - to) = i
    BY <1>n
  <2>4. suf[i - to] = t[i]
    BY <2>3, <1>2
  <2> QED BY <2>2, <2>4 DEF j
<1>7. ASSUME NEW i \in 1..Len(s)
      PROVE  all[from + i] = s[i]
  <2> DEFINE j == from + i
  <2>1. /\ j \in 1..from + Len(s) + (Len(t) - to) /\ j <= from + Len(s)
        /\ j \in 1..from + Len(s) /\ ~(j <= from) /\ j - from = i
    BY <1>n
  <2> HIDE DEF j
  <2>2. all[j] = head[j] /\ head[j] = s[j - from]
    BY <2>1, <1>3, <1>4
  <2> QED BY <2>1, <2>2 DEF j
<1>8. ASSUME NEW i \in 1..from
      PROVE  all[i] = t[i]
  <2>1. /\ i \in 1..from + Len(s) + (Len(t) - to) /\ i <= from + Len(s)
        /\ i \in 1..from + Len(s) /\ i <= from
    BY <1>n
  <2> QED BY <2>1, <1>1, <1>3, <1>4
<1>9. IsSplice(C, t, from, to, s, all)
  BY <1>n, <1>4, <1>6, <1>7, <1>8 DEF IsSplice
<1> QED BY <1>5, <1>9

(* Putting back what a splice took out undoes it. *)
LEMMA SpliceInverse ==
  ASSUME NEW C, NEW t \in Seq(C), NEW s \in Seq(C),
         NEW from \in 0..Len(t), NEW to \in from..Len(t)
  PROVE  Splice(Splice(t, from, to, s), from, from + Len(s), SubSeq(t, from + 1, to)) = t
<1> DEFINE u == Splice(t, from, to, s)
           old == SubSeq(t, from + 1, to)
           back == Splice(u, from, from + Len(s), old)
<1>n. /\ Len(t) \in Nat /\ Len(s) \in Nat /\ from \in Nat /\ to \in Nat
      /\ from <= to /\ to <= Len(t)
  OBVIOUS
<1>1. /\ u \in Seq(C)
      /\ Len(u) = Len(t) - (to - from) + Len(s)
      /\ \A i \in 1..from : u[i] = t[i]
      /\ \A i \in 1..Len(s) : u[from + i] = s[i]
      /\ \A i \in to+1..Len(t) : u[i - (to - from) + Len(s)] = t[i]
  BY SpliceElements DEF IsSplice
<1>2. /\ old \in Seq(C) /\ Len(old) = to - from
      /\ \A i \in 1..to - from : old[i] = t[from + i]
  BY <1>n, SubSeqProperties
<1>o. old = SubSeq(t, from + 1, to)
  OBVIOUS
<1>u. u = Splice(t, from, to, s)
  OBVIOUS
<1> HIDE DEF u, old
<1>3. /\ from \in 0..Len(u) /\ from + Len(s) \in from..Len(u)
      /\ u \in Seq(C) /\ old \in Seq(C)
  BY <1>1, <1>2, <1>n
<1>4. /\ back \in Seq(C)
      /\ Len(back) = Len(u) - (from + Len(s) - from) + Len(old)
      /\ \A i \in 1..from : back[i] = u[i]
      /\ \A i \in 1..Len(old) : back[from + i] = old[i]
      /\ \A i \in (from + Len(s))+1..Len(u) :
            back[i - (from + Len(s) - from) + Len(old)] = u[i]
  <2>1. IsSplice(C, u, from, from + Len(s), old, back)
    BY <1>3, SpliceElements
  <2> QED BY <2>1 DEF IsSplice
<1>b. back = Splice(u, from, from + Len(s), old)
  OBVIOUS
<1> HIDE DEF back
<1>5. Len(back) = Len(t)
  BY <1>n, <1>1, <1>2, <1>4
<1>6. ASSUME NEW i \in 1..Len(t)
      PROVE  back[i] = t[i]
  <2>1. CASE i <= from
    BY <2>1, <1>1, <1>4, <1>n
  <2>2. CASE from < i /\ i <= to
    <3> DEFINE j == i - from
    <3>1. j \in 1..Len(old) /\ j \in 1..to - from /\ from + j = i
      BY <2>2, <1>2, <1>n
    <3> HIDE DEF j
    <3>2. back[from + j] = old[j] /\ old[j] = t[from + j]
      BY <3>1, <1>2, <1>4
    <3> QED BY <3>1, <3>2
  <2>3. CASE to < i
    <3> DEFINE j == i - (to - from) + Len(s)
    <3>1. j \in (from + Len(s))+1..Len(u) /\ i \in to+1..Len(t)
      BY <2>3, <1>1, <1>n
    <3>2. j - (from + Len(s) - from) + Len(old) = i
      BY <1>2, <1>n
    <3>3. u[j] = t[i]
      BY <3>1, <1>1
    <3> HIDE DEF j
    <3>4. back[j - (from + Len(s) - from) + Len(old)] = u[j]
      BY <3>1, <1>4
    <3> QED BY <3>2, <3>3, <3>4
  <2> QED BY <2>1, <2>2, <2>3, <1>n
<1>7. back = t
  BY <1>4, <1>5, <1>6, SeqEqual
<1> QED BY <1>7, <1>u, <1>o, <1>b

(* The map after a replacement, with the left edge kept ...                 *)
KeepsLeft(map, R, from, to, len) ==
  LET by == len - (to - from) IN
  /\ DOMAIN R \subseteq Int
  /\ \A k \in Int : k <= from => /\ k \in DOMAIN R <=> k \in DOMAIN map
                                 /\ k \in DOMAIN R => R[k] = map[k]
  /\ \A k \in Int : from < k /\ k <= from + len => k \notin DOMAIN R
  /\ \A k \in Int : from + len < k => /\ k \in DOMAIN R <=> k - by \in DOMAIN map
                                      /\ k \in DOMAIN R => R[k] = map[k - by]

(* ... or the right one.                                                    *)
KeepsRight(map, R, from, to, len) ==
  LET by == len - (to - from) IN
  /\ DOMAIN R \subseteq Int
  /\ \A k \in Int : k < from => /\ k \in DOMAIN R <=> k \in DOMAIN map
                                /\ k \in DOMAIN R => R[k] = map[k]
  /\ \A k \in Int : from <= k /\ k < from + len => k \notin DOMAIN R
  /\ \A k \in Int : from + len <= k => /\ k \in DOMAIN R <=> k - by \in DOMAIN map
                                       /\ k \in DOMAIN R => R[k] = map[k - by]

(* indexed_map_t::replace with the left edge kept does so.                   *)
LEMMA ReplaceLeftIs ==
  ASSUME NEW map, NEW n \in Int, DOMAIN map \subseteq -1..n,
         NEW from \in Nat, NEW to \in Nat, NEW len \in Nat, from <= to
  PROVE  KeepsLeft(map, ReplaceLeft(map, from, to, len), from, to, len)
<1> DEFINE by == len - (to - from)
           D == {j \in DOMAIN map : j <= from} \cup {j + by : j \in {i \in DOMAIN map : i > to}}
           R == ReplaceLeft(map, from, to, len)
<1>1. R = [k \in D |-> IF k <= from THEN map[k] ELSE map[k - by]]
  BY DEF ReplaceLeft
<1>2. D \subseteq Int
  OBVIOUS
<1>3. \A k \in Int : k <= from => (k \in D <=> k \in DOMAIN map)
  <2> SUFFICES ASSUME NEW k \in Int, k <= from PROVE k \in D <=> k \in DOMAIN map
    OBVIOUS
  <2>1. \A j \in DOMAIN map : j > to => j + by > from
    OBVIOUS
  <2> QED BY <2>1
<1>4. \A k \in Int : from < k /\ k <= from + len => k \notin D
  OBVIOUS
<1>5. \A k \in Int : from + len < k => (k \in D <=> k - by \in DOMAIN map)
  <2> SUFFICES ASSUME NEW k \in Int, from + len < k PROVE k \in D <=> k - by \in DOMAIN map
    OBVIOUS
  <2>1. ASSUME k \in D PROVE k - by \in DOMAIN map
    BY <2>1
  <2>2. ASSUME k - by \in DOMAIN map PROVE k \in D
    <3>1. k - by > to /\ (k - by) + by = k
      OBVIOUS
    <3> QED BY <2>2, <3>1
  <2> QED BY <2>1, <2>2
<1>6. DOMAIN R = D /\ \A k \in D : R[k] = IF k <= from THEN map[k] ELSE map[k - by]
  BY <1>1
<1>7. \A k \in Int : k <= from => /\ k \in DOMAIN R <=> k \in DOMAIN map
                                  /\ k \in DOMAIN R => R[k] = map[k]
  <2> HIDE DEF D, R, by
  <2> QED BY <1>3, <1>6
<1>8. \A k \in Int : from + len < k => /\ k \in DOMAIN R <=> k - by \in DOMAIN map
                                       /\ k \in DOMAIN R => R[k] = map[k - by]
  <2> HIDE DEF D, R, by
  <2>1. \A k \in Int : from + len < k => ~(k <= from)
    OBVIOUS
  <2> QED BY <1>5, <1>6, <2>1
<1> HIDE DEF D
<1>9. KeepsLeft(map, R, from, to, len)
  <2> HIDE DEF R
  <2> QED BY <1>2, <1>4, <1>6, <1>7, <1>8 DEF KeepsLeft
<1> QED BY <1>9

(* And with the right edge kept.                                             *)
LEMMA ReplaceRightIs ==
  ASSUME NEW map, NEW n \in Int, DOMAIN map \subseteq -1..n,
         NEW from \in Nat, NEW to \in Nat, NEW len \in Nat, from <= to
  PROVE  KeepsRight(map, ReplaceRight(map, from, to, len), from, to, len)
<1> DEFINE by == len - (to - from)
           D == {j \in DOMAIN map : j < from} \cup {j + by : j \in {i \in DOMAIN map : i >= to}}
           R == ReplaceRight(map, from, to, len)
<1>1. R = [k \in D |-> IF k < from THEN map[k] ELSE map[k - by]]
  BY DEF ReplaceRight
<1>2. D \subseteq Int
  OBVIOUS
<1>3. \A k \in Int : k < from => (k \in D <=> k \in DOMAIN map)
  <2> SUFFICES ASSUME NEW k \in Int, k < from PROVE k \in D <=> k \in DOMAIN map
    OBVIOUS
  <2>1. \A j \in DOMAIN map : j >= to => j + by >= from
    OBVIOUS
  <2> QED BY <2>1
<1>4. \A k \in Int : from <= k /\ k < from + len => k \notin D
  OBVIOUS
<1>5. \A k \in Int : from + len <= k => (k \in D <=> k - by \in DOMAIN map)
  <2> SUFFICES ASSUME NEW k \in Int, from + len <= k PROVE k \in D <=> k - by \in DOMAIN map
    OBVIOUS
  <2>1. ASSUME k \in D PROVE k - by \in DOMAIN map
    BY <2>1
  <2>2. ASSUME k - by \in DOMAIN map PROVE k \in D
    <3>1. k - by >= to /\ (k - by) + by = k
      OBVIOUS
    <3> QED BY <2>2, <3>1
  <2> QED BY <2>1, <2>2
<1>6. DOMAIN R = D /\ \A k \in D : R[k] = IF k < from THEN map[k] ELSE map[k - by]
  BY <1>1
<1>7. \A k \in Int : k < from => /\ k \in DOMAIN R <=> k \in DOMAIN map
                                 /\ k \in DOMAIN R => R[k] = map[k]
  <2> HIDE DEF D, R, by
  <2> QED BY <1>3, <1>6
<1>8. \A k \in Int : from + len <= k => /\ k \in DOMAIN R <=> k - by \in DOMAIN map
                                        /\ k \in DOMAIN R => R[k] = map[k - by]
  <2> HIDE DEF D, R, by
  <2>1. \A k \in Int : from + len <= k => ~(k < from)
    OBVIOUS
  <2> QED BY <1>5, <1>6, <2>1
<1> HIDE DEF D
<1>9. KeepsRight(map, R, from, to, len)
  <2> HIDE DEF R
  <2> QED BY <1>2, <1>4, <1>6, <1>7, <1>8 DEF KeepsRight
<1> QED BY <1>9

(* What a replacement makes of the marks.                                   *)
Edited(m, from, to, len) ==
  LET inside == {k \in DOMAIN m.scopes : from < k /\ k <= to}
      moved  == ReplaceRight(m.scopes, from, to, len)
  IN [dirty  |-> DOMAIN ReplaceLeft([d \in m.dirty |-> TRUE], from, to, len) \cup {from},
      states |-> ReplaceLeft(m.states, from, to, len),
      scopes |-> IF inside = {} THEN moved
                 ELSE SetAt(moved, from + len, m.scopes[Max(inside)])]

(* What is outside of the range that was replaced stays, or moves along.    *)
EditedOutside(m, e, from, to, len) ==
  LET by == len - (to - from) IN
  /\ e.dirty \subseteq Int /\ DOMAIN e.states \subseteq Int /\ DOMAIN e.scopes \subseteq Int
  /\ from \in e.dirty
  /\ \A k \in Int : k < from => /\ k \in e.dirty <=> k \in m.dirty
                                /\ k \in DOMAIN e.scopes <=> k \in DOMAIN m.scopes
                                /\ k \in DOMAIN e.scopes => e.scopes[k] = m.scopes[k]
  /\ \A k \in Int : k <= from => /\ k \in DOMAIN e.states <=> k \in DOMAIN m.states
                                 /\ k \in DOMAIN e.states => e.states[k] = m.states[k]
  /\ \A k \in Int : from < k /\ k <= from + len => k \notin e.dirty /\ k \notin DOMAIN e.states
  /\ \A k \in Int : from + len < k =>
       /\ k \in e.dirty <=> k - by \in m.dirty
       /\ k \in DOMAIN e.states <=> k - by \in DOMAIN m.states
       /\ k \in DOMAIN e.states => e.states[k] = m.states[k - by]
       /\ k \in DOMAIN e.scopes <=> k - by \in DOMAIN m.scopes
       /\ k \in DOMAIN e.scopes => e.scopes[k] = m.scopes[k - by]

(* A replacement does that to the marks, and leaves them within the new      *)
(* text.                                                                     *)
LEMMA EditedIs ==
  ASSUME NEW t \in Seq(Chars), NEW m, MarksType(t, m),
         NEW from \in Nat, NEW to \in Nat, NEW len \in Nat, from <= to, to <= Len(t)
  PROVE  LET e == Edited(m, from, to, len)
             by == len - (to - from)
         IN /\ EditedOutside(m, e, from, to, len)
            /\ e.dirty \subseteq 0..Len(t) + by
            /\ DOMAIN e.states \subseteq -1..Len(t) + by
            /\ \A k \in DOMAIN e.states : e.states[k] \in States
            /\ DOMAIN e.scopes \subseteq 0..Len(t) + by
            /\ \A k \in DOMAIN e.scopes : e.scopes[k] \in States \X Seq(Chars)
<1> DEFINE e == Edited(m, from, to, len)
           by == len - (to - from)
           n == Len(t)
           marked == [d \in m.dirty |-> TRUE]
           inside == {k \in DOMAIN m.scopes : from < k /\ k <= to}
           moved  == ReplaceRight(m.scopes, from, to, len)
<1>1. /\ m.dirty \subseteq 0..n /\ DOMAIN m.states \subseteq -1..n /\ n \in Nat
      /\ DOMAIN m.scopes \subseteq 0..n
      /\ \A k \in DOMAIN m.states : m.states[k] \in States
      /\ \A k \in DOMAIN m.scopes : m.scopes[k] \in States \X Seq(Chars)
  BY DEF MarksType
<1>2. /\ e.dirty = DOMAIN ReplaceLeft(marked, from, to, len) \cup {from}
      /\ e.states = ReplaceLeft(m.states, from, to, len)
      /\ e.scopes = IF inside = {} THEN moved ELSE SetAt(moved, from + len, m.scopes[Max(inside)])
  BY DEF Edited
<1> HIDE DEF e
<1>3. DOMAIN marked = m.dirty
  OBVIOUS
<1>b. by = len - (to - from)
  OBVIOUS
<1> HIDE DEF marked, n, by
<1>4. /\ e.dirty \subseteq Int /\ from \in e.dirty
      /\ \A k \in Int : k < from => (k \in e.dirty <=> k \in m.dirty)
      /\ \A k \in Int : from < k /\ k <= from + len => k \notin e.dirty
      /\ \A k \in Int : from + len < k => (k \in e.dirty <=> k - by \in m.dirty)
  <2> DEFINE R == DOMAIN ReplaceLeft(marked, from, to, len)
  <2>1. DOMAIN marked \subseteq -1..n
    BY <1>1, <1>3
  <2>4. KeepsLeft(marked, ReplaceLeft(marked, from, to, len), from, to, len)
    <3>1. n \in Int
      BY <1>1
    <3> QED BY <2>1, <3>1, ReplaceLeftIs
  <2>2. /\ R \subseteq Int
        /\ \A k \in Int : k <= from => (k \in R <=> k \in DOMAIN marked)
        /\ \A k \in Int : from < k /\ k <= from + len => k \notin R
        /\ \A k \in Int : from + len < k => (k \in R <=> k - by \in DOMAIN marked)
    BY <2>4 DEF by, KeepsLeft
  <2>3. e.dirty = R \cup {from}
    BY <1>2
  <2> HIDE DEF R
  <2> QED BY <1>3, <2>2, <2>3
<1>5. /\ DOMAIN e.states \subseteq Int
      /\ \A k \in Int : k <= from => /\ k \in DOMAIN e.states <=> k \in DOMAIN m.states
                                     /\ k \in DOMAIN e.states => e.states[k] = m.states[k]
      /\ \A k \in Int : from < k /\ k <= from + len => k \notin DOMAIN e.states
      /\ \A k \in Int : from + len < k =>
           /\ k \in DOMAIN e.states <=> k - by \in DOMAIN m.states
           /\ k \in DOMAIN e.states => e.states[k] = m.states[k - by]
  <2>1. KeepsLeft(m.states, e.states, from, to, len)
    BY <1>1, <1>2, ReplaceLeftIs
  <2> QED BY <2>1 DEF by, KeepsLeft
<1>6. /\ DOMAIN moved \subseteq Int
      /\ \A k \in Int : k < from => /\ k \in DOMAIN moved <=> k \in DOMAIN m.scopes
                                    /\ k \in DOMAIN moved => moved[k] = m.scopes[k]
      /\ \A k \in Int : from <= k /\ k < from + len => k \notin DOMAIN moved
      /\ \A k \in Int : from + len <= k =>
           /\ k \in DOMAIN moved <=> k - by \in DOMAIN m.scopes
           /\ k \in DOMAIN moved => moved[k] = m.scopes[k - by]
  <2>1. DOMAIN m.scopes \subseteq -1..n
    BY <1>1
  <2>2. KeepsRight(m.scopes, moved, from, to, len)
    <3>1. n \in Int
      BY <1>1
    <3> HIDE DEF moved
    <3> QED BY <2>1, <3>1, ReplaceRightIs DEF moved
  <2> HIDE DEF moved
  <2> QED BY <2>2 DEF by, KeepsRight
<1>7. inside # {} => m.scopes[Max(inside)] \in States \X Seq(Chars)
  <2> SUFFICES ASSUME inside # {} PROVE m.scopes[Max(inside)] \in States \X Seq(Chars)
    OBVIOUS
  <2>1. inside \subseteq 0..n /\ inside \subseteq DOMAIN m.scopes
    BY <1>1
  <2> HIDE DEF inside
  <2>2. Max(inside) \in inside
    BY <1>1, <2>1, MaxIs
  <2> QED BY <1>1, <2>1, <2>2
<1> HIDE DEF inside, moved
<1>8. /\ DOMAIN e.scopes \subseteq DOMAIN moved \cup {from + len}
      /\ DOMAIN moved \subseteq DOMAIN e.scopes
      /\ \A k \in DOMAIN moved : k # from + len => e.scopes[k] = moved[k]
      /\ \A k \in DOMAIN e.scopes : \/ k \in DOMAIN moved /\ e.scopes[k] = moved[k]
                                    \/ k = from + len /\ e.scopes[k] \in States \X Seq(Chars)
  <2>1. CASE inside = {}
    BY <1>2, <2>1
  <2>2. CASE inside # {}
    <3>1. e.scopes = [k \in DOMAIN moved \cup {from + len} |->
                       IF k = from + len THEN m.scopes[Max(inside)] ELSE moved[k]]
      BY <1>2, <2>2 DEF SetAt
    <3> QED BY <1>7, <2>2, <3>1
  <2> QED BY <2>1, <2>2
<1>9. /\ DOMAIN e.scopes \subseteq Int
      /\ \A k \in Int : k < from => /\ k \in DOMAIN e.scopes <=> k \in DOMAIN m.scopes
                                    /\ k \in DOMAIN e.scopes => e.scopes[k] = m.scopes[k]
      /\ \A k \in Int : from + len < k =>
           /\ k \in DOMAIN e.scopes <=> k - by \in DOMAIN m.scopes
           /\ k \in DOMAIN e.scopes => e.scopes[k] = m.scopes[k - by]
  <2>1. from + len \in Int /\ \A k \in Int : k < from => k # from + len
    OBVIOUS
  <2>2. \A k \in Int : from + len < k => k # from + len /\ from + len <= k
    OBVIOUS
  <2> QED BY <1>6, <1>8, <2>1, <2>2
<1>10. EditedOutside(m, e, from, to, len)
  BY <1>4, <1>5, <1>9 DEF EditedOutside, by
<1>11. e.dirty \subseteq 0..n + by
  <2> SUFFICES ASSUME NEW k \in e.dirty PROVE k \in 0..n + by
    OBVIOUS
  <2>1. k \in Int
    BY <1>4
  <2>2. CASE k <= from
    BY <1>1, <1>4, <1>b, <2>1, <2>2 DEF n
  <2>3. CASE from < k
    <3>1. from + len < k /\ k - by \in 0..n
      BY <1>1, <1>4, <2>1, <2>3
    <3> QED BY <1>1, <1>b, <2>1, <3>1
  <2> QED BY <2>1, <2>2, <2>3
<1>12. DOMAIN e.states \subseteq -1..n + by
  <2> SUFFICES ASSUME NEW k \in DOMAIN e.states PROVE k \in -1..n + by
    OBVIOUS
  <2>1. k \in Int
    BY <1>5
  <2>2. CASE k <= from
    BY <1>1, <1>5, <1>b, <2>1, <2>2 DEF n
  <2>3. CASE from < k
    <3>1. from + len < k /\ k - by \in -1..n
      BY <1>1, <1>5, <2>1, <2>3
    <3> QED BY <1>1, <1>b, <2>1, <3>1
  <2> QED BY <2>1, <2>2, <2>3
<1>13. \A k \in DOMAIN e.states : e.states[k] \in States
  <2> SUFFICES ASSUME NEW k \in DOMAIN e.states PROVE e.states[k] \in States
    OBVIOUS
  <2>1. k \in Int
    BY <1>5
  <2>2. k <= from \/ from + len < k
    BY <1>5, <2>1
  <2> QED BY <1>1, <1>5, <2>1, <2>2
<1>14. \A k \in DOMAIN moved : k \in 0..n + by /\ moved[k] \in States \X Seq(Chars)
  <2> SUFFICES ASSUME NEW k \in DOMAIN moved
               PROVE  k \in 0..n + by /\ moved[k] \in States \X Seq(Chars)
    OBVIOUS
  <2>1. k \in Int
    BY <1>6
  <2>2. CASE k < from
    BY <1>1, <1>6, <1>b, <2>1, <2>2 DEF n
  <2>3. CASE from <= k
    <3>1. from + len <= k /\ k - by \in DOMAIN m.scopes /\ moved[k] = m.scopes[k - by]
      BY <1>6, <2>1, <2>3
    <3> QED BY <1>1, <1>b, <2>1, <3>1
  <2> QED BY <2>1, <2>2, <2>3
<1>15. from + len \in 0..n + by
  BY <1>1, <1>b DEF n
<1>16. DOMAIN e.scopes \subseteq 0..n + by /\ \A k \in DOMAIN e.scopes : e.scopes[k] \in States \X Seq(Chars)
  BY <1>8, <1>14, <1>15
<1> QED BY <1>10, <1>11, <1>12, <1>13, <1>16 DEF e, n, by

(* A replacement leaves the marks chained: the line it is in is dirty, the  *)
(* ones before are as they were, and those after have moved.                *)
LEMMA EditKeepsChain ==
  ASSUME NEW t \in Seq(Chars), NEW s \in Seq(Chars), NEW g, NEW m, MarksType(t, m),
         NEW from \in 0..Len(t), NEW to \in from..Len(t)
  PROVE  LET u == Splice(t, from, to, s)
             e == Edited(m, from, to, Len(s))
         IN MarksType(u, e) /\ (Chained(t, g, m) => Chained(u, g, e))
<1> DEFINE u == Splice(t, from, to, s)
           len == Len(s)
           by == len - (to - from)
           e == Edited(m, from, to, len)
<1>1. /\ len \in Nat /\ from \in Nat /\ to \in Nat /\ from <= to /\ to <= Len(t) /\ Len(t) \in Nat
      /\ by \in Int /\ 0 <= from + by + (to - from) /\ to + by = from + len
  OBVIOUS
<1>2. /\ u \in Seq(Chars) /\ Len(u) = Len(t) + by
      /\ \A i \in 1..from : u[i] = t[i]
      /\ \A i \in to+1..Len(t) : u[i + by] = t[i]
  <2>1. IsSplice(Chars, t, from, to, s, u)
    BY SpliceElements
  <2> HIDE DEF u
  <2>2. /\ Len(u) = Len(t) - (to - from) + len
        /\ \A i \in to+1..Len(t) : u[i - (to - from) + len] = t[i]
    BY <2>1 DEF IsSplice
  <2>3. \A i \in to+1..Len(t) : i - (to - from) + len = i + by
    BY <1>1
  <2> QED BY <1>1, <2>1, <2>2, <2>3 DEF IsSplice
<1>b. by = len - (to - from)
  OBVIOUS
<1> HIDE DEF u, len
<1>3. /\ EditedOutside(m, e, from, to, len)
      /\ e.dirty \subseteq 0..Len(t) + by
      /\ DOMAIN e.states \subseteq -1..Len(t) + by
      /\ \A k \in DOMAIN e.states : e.states[k] \in States
      /\ DOMAIN e.scopes \subseteq 0..Len(t) + by
      /\ \A k \in DOMAIN e.scopes : e.scopes[k] \in States \X Seq(Chars)
  BY <1>1, EditedIs
<1> HIDE DEF e
<1>4. MarksType(u, e)
  BY <1>2, <1>3 DEF MarksType
<1> HIDE DEF by
<1>5. /\ from \in e.dirty
      /\ \A k \in Int : k < from => /\ k \in e.dirty <=> k \in m.dirty
                                    /\ k \in DOMAIN e.scopes <=> k \in DOMAIN m.scopes
                                    /\ k \in DOMAIN e.scopes => e.scopes[k] = m.scopes[k]
      /\ \A k \in Int : k <= from => /\ k \in DOMAIN e.states <=> k \in DOMAIN m.states
                                     /\ k \in DOMAIN e.states => e.states[k] = m.states[k]
      /\ \A k \in Int : from < k /\ k <= from + len => k \notin DOMAIN e.states
      /\ \A k \in Int : from + len < k =>
           /\ k \in e.dirty <=> k - by \in m.dirty
           /\ k \in DOMAIN e.states <=> k - by \in DOMAIN m.states
           /\ k \in DOMAIN e.states => e.states[k] = m.states[k - by]
           /\ k \in DOMAIN e.scopes <=> k - by \in DOMAIN m.scopes
           /\ k \in DOMAIN e.scopes => e.scopes[k] = m.scopes[k - by]
  BY <1>3 DEF EditedOutside, by
<1>6. m.dirty \subseteq Int /\ DOMAIN m.scopes \subseteq Int /\ DOMAIN e.scopes \subseteq Int
  BY <1>2, <1>4 DEF MarksType
<1>7. ASSUME Chained(t, g, m) PROVE Chained(u, g, e)
  <2>1. -1 \in DOMAIN e.states /\ e.states[-1] = Seed(g)
    BY <1>1, <1>5, <1>7 DEF Chained
  <2>2. SUFFICES ASSUME NEW p \in LineStarts(u), Clean(u, e.dirty, p),
                        p = 0 \/ p \in DOMAIN e.states
                 PROVE  LineParsed(u, g, e, p)
    BY <2>1 DEF Chained
  <2>3. p \in Nat /\ p <= Len(u) /\ End(u, p) \in Nat /\ Len(u) \in Nat
    BY <1>2, LineIs, StartsAre
  <2>4. from < p \/ (~IsLast(u, p) /\ End(u, p) <= from)
    <3>1. ~InLine(u, p, from)
      BY <1>5, <2>2 DEF Clean
    <3> QED BY <1>1, <2>3, <3>1 DEF InLine
  <2>5. CASE ~IsLast(u, p) /\ End(u, p) <= from
    <3>1. /\ p \in LineStarts(t) /\ ~IsLast(t, p) /\ End(t, p) = End(u, p)
          /\ Line(t, p) = Line(u, p)
      <4>1. from <= Len(u) /\ from <= Len(t)
        BY <1>1, <1>2, <1>b
      <4> QED BY <1>1, <1>2, <2>5, <4>1, SameLinesBefore
    <3>2. p < End(u, p)
      BY <1>2, <2>3, <2>5, EndIs
    <3>3. \A k \in Int : InLine(t, p, k) <=> InLine(u, p, k)
      BY <2>5, <3>1 DEF InLine
    <3>4. \A k \in Int : InLine(u, p, k) => k < from
      BY <1>1, <2>3, <2>5 DEF InLine
    <3>5. Clean(t, m.dirty, p)
      BY <1>5, <1>6, <2>2, <3>3, <3>4 DEF Clean
    <3>6. p <= from /\ p < from /\ p \in Int
      BY <1>1, <2>3, <2>5, <3>2
    <3>7. p = 0 \/ p \in DOMAIN m.states
      BY <1>5, <2>2, <3>6
    <3>8. LineParsed(t, g, m, p)
      BY <1>7, <3>1, <3>5, <3>7 DEF Chained
    <3>9. StartState(g, e, p) = StartState(g, m, p)
      BY <1>5, <2>2, <3>6 DEF StartState
    <3>10. End(u, p) \in DOMAIN e.states /\ e.states[End(u, p)] = m.states[End(u, p)]
      BY <1>5, <2>3, <2>5, <3>1, <3>8 DEF LineParsed
    <3>11. p \in DOMAIN e.scopes /\ e.scopes[p] = m.scopes[p]
      BY <1>5, <3>6, <3>8 DEF LineParsed
    <3>12. \A k \in DOMAIN e.scopes : InLine(u, p, k) => k = p
      BY <1>5, <1>6, <3>3, <3>4, <3>8 DEF LineParsed
    <3> QED BY <2>5, <3>1, <3>8, <3>9, <3>10, <3>11, <3>12 DEF LineParsed
  <2>6. CASE from < p
    <3>1. from + len < p /\ to + by < p
      BY <1>1, <1>5, <2>2, <2>3, <2>6
    <3> DEFINE o == p - by
    <3>2. /\ o \in LineStarts(t) /\ to < o
          /\ IsLast(u, p) <=> IsLast(t, o)
          /\ End(u, p) = End(t, o) + by /\ Line(u, p) = Line(t, o)
      <4>1. /\ t \in Seq(Chars) /\ u \in Seq(Chars) /\ to \in Nat /\ by \in Int
            /\ to <= Len(t) /\ 0 <= to + by /\ Len(u) = Len(t) + by
            /\ p \in LineStarts(u) /\ to + by < p
        BY <1>1, <1>2, <3>1
      <4>2. \A i \in to+1..Len(t) : u[i + by] = t[i]
        BY <1>2
      <4> QED BY ONLY <4>1, <4>2, SameLinesAfter
    <3>3. o \in Nat /\ o + by = p /\ End(t, o) \in Nat /\ o # 0 /\ p # 0
      BY <1>1, <2>3, <3>1, <3>2, LineIs
    <3> HIDE DEF o
    <3>4. \A k \in Int : InLine(t, o, k - by) <=> InLine(u, p, k)
      BY <1>1, <2>3, <3>2, <3>3 DEF InLine
    <3>5. \A k \in Int : InLine(u, p, k) => from + len < k
      BY <1>1, <2>3, <3>1 DEF InLine
    <3>6. Clean(t, m.dirty, o)
      <4> SUFFICES ASSUME NEW x \in m.dirty, InLine(t, o, x) PROVE FALSE
        BY DEF Clean
      <4>1. x + by \in Int /\ (x + by) - by = x
        BY <1>1, <1>6
      <4>2. InLine(u, p, x + by)
        BY <3>4, <4>1
      <4>3. x + by \in e.dirty
        BY <1>5, <3>5, <4>1, <4>2
      <4> QED BY <2>2, <4>2, <4>3 DEF Clean
    <3>7. p \in Int /\ p - by = o
      BY <1>1, <2>3, <3>3
    <3>8. p \in DOMAIN e.states /\ o \in DOMAIN m.states /\ e.states[p] = m.states[o]
      BY <1>5, <2>2, <3>1, <3>3, <3>7
    <3>9. LineParsed(t, g, m, o)
      BY <1>7, <3>2, <3>6, <3>8 DEF Chained
    <3>10. StartState(g, e, p) = StartState(g, m, o)
      BY <3>3, <3>8 DEF StartState
    <3>11. ~IsLast(u, p) => /\ End(u, p) \in DOMAIN e.states
                            /\ e.states[End(u, p)] = m.states[End(t, o)]
      <4> SUFFICES ASSUME ~IsLast(u, p)
                   PROVE  End(u, p) \in DOMAIN e.states /\ e.states[End(u, p)] = m.states[End(t, o)]
        OBVIOUS
      <4>1. End(t, o) \in DOMAIN m.states
        BY <3>2, <3>9 DEF LineParsed
      <4>2. p < End(u, p)
        BY <1>2, <2>3, EndIs
      <4>3. End(u, p) \in Int /\ from + len < End(u, p) /\ End(u, p) - by = End(t, o)
        BY <1>1, <2>3, <3>1, <3>2, <3>3, <4>2
      <4> QED BY <1>5, <4>1, <4>3
    <3>12. p \in DOMAIN e.scopes /\ e.scopes[p] = m.scopes[o]
      BY <1>5, <3>1, <3>7, <3>9 DEF LineParsed
    <3>13. \A k \in DOMAIN e.scopes : InLine(u, p, k) => k = p
      <4> SUFFICES ASSUME NEW k \in DOMAIN e.scopes, InLine(u, p, k) PROVE k = p
        OBVIOUS
      <4>1. k \in Int /\ from + len < k
        BY <1>6, <3>5
      <4>2. k - by \in DOMAIN m.scopes /\ InLine(t, o, k - by)
        BY <1>5, <3>4, <4>1
      <4>3. k - by = o
        BY <3>9, <4>2 DEF LineParsed
      <4> QED BY <1>1, <3>3, <4>1, <4>3
    <3> QED BY <3>2, <3>9, <3>10, <3>11, <3>12, <3>13 DEF LineParsed
  <2> QED BY <2>4, <2>5, <2>6
<1> QED BY <1>4, <1>7 DEF u, e, len

-----------------------------------------------------------------------------
(* A parsed line leaves the marks chained, whether or not the lines before  *)
(* it are right, if it was parsed from the state the marks have for it.     *)

IsLine(t, g, m, l) ==
  /\ l.from \in LineStarts(t) /\ l.to = End(t, l.from) /\ l.line = Line(t, l.from)
  /\ l.state \in States
  /\ l.from = 0 => l.state = Seed(g)
  /\ l.from # 0 /\ l.from \in DOMAIN m.states => m.states[l.from] = l.state

(* What update_scopes leaves of the marks, position by position.             *)
LEMMA UpdatedIs ==
  ASSUME NEW t \in Seq(Chars), NEW m, NEW l, l.to \in Int, l.from \in Int
  PROVE  LET U == Updated(t, m, l)
             after == After(l.state, l.line)
             same == l.to \in DOMAIN m.states /\ m.states[l.to] = after
             inside(k) == l.from <= k /\ (k < l.to \/ IsLast(t, l.from))
         IN /\ \A k : k \in U.dirty <=> \/ k \in m.dirty /\ ~inside(k)
                                        \/ k = l.to /\ ~same /\ ~IsLast(t, l.from)
            /\ DOMAIN U.states = DOMAIN m.states \cup {l.to}
            /\ \A k \in DOMAIN m.states : k # l.to => U.states[k] = m.states[k]
            /\ U.states[l.to] = after
            /\ DOMAIN U.scopes = {k \in DOMAIN m.scopes : ~inside(k)} \cup {l.from}
            /\ \A k \in DOMAIN U.scopes : k # l.from => U.scopes[k] = m.scopes[k]
            /\ U.scopes[l.from] = <<l.state, l.line>>
<1> DEFINE U == Updated(t, m, l)
           after == After(l.state, l.line)
           same == l.to \in DOMAIN m.states /\ m.states[l.to] = after
           last == IsLast(t, l.from)
           inside(k) == l.from <= k /\ (k < l.to \/ last)
           kept == {d \in m.dirty : ~inside(d)}
           stay == [k \in {j \in DOMAIN m.scopes : ~inside(j)} |-> m.scopes[k]]
<1>1. /\ U.dirty = IF same \/ last THEN kept ELSE kept \cup {l.to}
      /\ U.states = IF same THEN m.states ELSE SetAt(m.states, l.to, after)
      /\ U.scopes = SetAt(stay, l.from, <<l.state, l.line>>)
  BY DEF Updated
<1> HIDE DEF U
<1>2. \A k : k \in U.dirty <=> \/ k \in m.dirty /\ ~inside(k)
                               \/ k = l.to /\ ~same /\ ~last
  <2> HIDE DEF same, last, inside
  <2> QED BY <1>1
<1>3. /\ DOMAIN U.states = DOMAIN m.states \cup {l.to}
      /\ \A k \in DOMAIN m.states : k # l.to => U.states[k] = m.states[k]
      /\ U.states[l.to] = after
  <2>1. CASE same
    <3>1. U.states = m.states
      BY <1>1, <2>1
    <3> QED BY <2>1, <3>1
  <2>2. CASE ~same
    <3>1. U.states = [k \in DOMAIN m.states \cup {l.to} |-> IF k = l.to THEN after ELSE m.states[k]]
      BY <1>1, <2>2 DEF SetAt
    <3> HIDE DEF same, after
    <3> QED BY <3>1
  <2> QED BY <2>1, <2>2
<1>4. /\ DOMAIN U.scopes = {k \in DOMAIN m.scopes : ~inside(k)} \cup {l.from}
      /\ \A k \in DOMAIN U.scopes : k # l.from => U.scopes[k] = m.scopes[k]
      /\ U.scopes[l.from] = <<l.state, l.line>>
  <2> HIDE DEF inside
  <2>1. U.scopes = [k \in DOMAIN stay \cup {l.from} |->
                     IF k = l.from THEN <<l.state, l.line>> ELSE stay[k]]
    BY <1>1 DEF SetAt
  <2>2. /\ DOMAIN stay = {k \in DOMAIN m.scopes : ~inside(k)}
        /\ \A k \in DOMAIN stay : stay[k] = m.scopes[k]
    OBVIOUS
  <2> HIDE DEF stay
  <2> QED BY <2>1, <2>2
<1> HIDE DEF kept, stay
<1> QED BY <1>2, <1>3, <1>4 DEF U

(* update_scopes keeps the marks chained: the line is linked to its end, and *)
(* the next line is dirty if its state is a new one.                         *)
LEMMA UpdateKeepsChain ==
  ASSUME NEW t \in Seq(Chars), NEW g, NEW m, MarksType(t, m), Chained(t, g, m),
         NEW l, IsLine(t, g, m, l)
  PROVE  MarksType(t, Updated(t, m, l)) /\ Chained(t, g, Updated(t, m, l))
<1> DEFINE U == Updated(t, m, l)
           f == l.from
           e == l.to
           after == After(l.state, l.line)
           last == IsLast(t, f)
           same == e \in DOMAIN m.states /\ m.states[e] = after
<1>1. /\ f \in LineStarts(t) /\ e = End(t, f) /\ l.line = Line(t, f) /\ l.state \in States
      /\ f = 0 => l.state = Seed(g)
      /\ f # 0 /\ f \in DOMAIN m.states => m.states[f] = l.state
  BY DEF IsLine
<1>2. /\ f \in Nat /\ e \in Nat /\ f <= e /\ e <= Len(t) /\ Len(t) \in Nat
      /\ last => e = Len(t)
      /\ ~last => e \in LineStarts(t) /\ f < e
  <2> DEFINE z == End(t, f)
  <2> HIDE DEF f
  <2>1. f \in Nat /\ f <= Len(t) /\ f <= z /\ z \in 0..Len(t) /\ Len(t) \in Nat
    BY <1>1, LineIs, StartsAre
  <2>2. /\ last => z = Len(t)
        /\ ~last => z \in LineStarts(t) /\ f < z
    BY <2>1, EndIs
  <2>3. e = z
    BY <1>1
  <2> HIDE DEF z, e, last
  <2> QED BY <2>1, <2>2, <2>3
<1>3. /\ \A k : k \in U.dirty <=> \/ k \in m.dirty /\ ~InLine(t, f, k)
                                  \/ k = e /\ ~same /\ ~last
      /\ DOMAIN U.states = DOMAIN m.states \cup {e}
      /\ \A k \in DOMAIN m.states : k # e => U.states[k] = m.states[k]
      /\ U.states[e] = after
      /\ DOMAIN U.scopes = {k \in DOMAIN m.scopes : ~InLine(t, f, k)} \cup {f}
      /\ \A k \in DOMAIN U.scopes : k # f => U.scopes[k] = m.scopes[k]
      /\ U.scopes[f] = <<l.state, l.line>>
  <2> DEFINE inside(k) == f <= k /\ (k < e \/ last)
  <2>1. \A k : inside(k) <=> InLine(t, f, k)
    BY <1>1 DEF InLine
  <2>2. /\ \A k : k \in U.dirty <=> \/ k \in m.dirty /\ ~inside(k)
                                    \/ k = e /\ ~same /\ ~last
        /\ DOMAIN U.states = DOMAIN m.states \cup {e}
        /\ \A k \in DOMAIN m.states : k # e => U.states[k] = m.states[k]
        /\ U.states[e] = after
        /\ DOMAIN U.scopes = {k \in DOMAIN m.scopes : ~inside(k)} \cup {f}
        /\ \A k \in DOMAIN U.scopes : k # f => U.scopes[k] = m.scopes[k]
        /\ U.scopes[f] = <<l.state, l.line>>
    BY <1>2, UpdatedIs
  <2> HIDE DEF U, after, last, same, inside, f, e
  <2> QED BY <2>1, <2>2
<1> HIDE DEF U
<1>4. after \in States /\ l.line \in Seq(Chars)
  <2>1. Line(t, f) = SubSeq(t, f + 1, e)
    BY <1>1, LineIs
  <2>2. \A i \in f+1..e : t[i] \in Chars
    BY <1>2
  <2>3. SubSeq(t, f + 1, e) \in Seq(Chars)
    <3> HIDE DEF f, e
    <3>1. f + 1 \in Int /\ e \in Int
      BY <1>2
    <3> QED BY <2>2, <3>1, SubSeqProperties
  <2> QED BY <1>1, <2>1, <2>3, AfterType
<1>a. after = After(l.state, l.line)
  OBVIOUS
<1>s. same <=> e \in DOMAIN m.states /\ m.states[e] = after
  OBVIOUS
<1>l. last <=> IsLast(t, f)
  OBVIOUS
<1> HIDE DEF after, same, last, f, e
<1>5. MarksType(t, U)
  <2>1. U.dirty \subseteq 0..Len(t)
    <3>1. \A k \in U.dirty : k \in m.dirty \/ k = e
      BY <1>3
    <3> QED BY <1>2, <3>1 DEF MarksType
  <2>2. DOMAIN U.states \subseteq -1..Len(t) /\ \A k \in DOMAIN U.states : U.states[k] \in States
    <3>1. \A k \in DOMAIN U.states : k # e => k \in DOMAIN m.states /\ U.states[k] = m.states[k]
      BY <1>3
    <3>2. e \in -1..Len(t)
      BY <1>2
    <3> QED BY <1>3, <1>4, <3>1, <3>2 DEF MarksType
  <2>3. DOMAIN U.scopes \subseteq 0..Len(t) /\ \A k \in DOMAIN U.scopes : U.scopes[k] \in States \X Seq(Chars)
    <3>1. \A k \in DOMAIN U.scopes : k # f => k \in DOMAIN m.scopes /\ U.scopes[k] = m.scopes[k]
      BY <1>3
    <3>2. f \in 0..Len(t)
      BY <1>2
    <3>3. U.scopes[f] \in States \X Seq(Chars)
      BY <1>1, <1>3, <1>4
    <3> QED BY <3>1, <3>2, <3>3 DEF MarksType
  <2> QED BY <2>1, <2>2, <2>3 DEF MarksType
<1>6. -1 \in DOMAIN U.states /\ U.states[-1] = Seed(g)
  BY <1>2, <1>3 DEF Chained
<1>7. last /\ f = e => after = l.state
  <2> SUFFICES ASSUME f = e PROVE after = l.state
    OBVIOUS
  <2>1. l.line = SubSeq(t, f + 1, e)
    BY <1>1, LineIs
  <2>2. l.line = <<>>
    BY <1>2, <2>1, SubSeqEmpty
  <2> QED BY <1>1, <1>a, <2>2, AfterNothing
<1>8. ASSUME NEW p \in LineStarts(t), Clean(t, U.dirty, p), p = 0 \/ p \in DOMAIN U.states
      PROVE  LineParsed(t, g, U, p)
  <2>1. p \in Nat /\ InLine(t, p, p) /\ InLine(t, f, f)
    <3>1. \A q \in LineStarts(t) : q \in Nat /\ (IsLast(t, q) \/ q < End(t, q))
      BY StartsAre, EndIs
    <3> QED BY <1>1, <3>1 DEF InLine
  <2>2. CASE p = f
    <3>1. StartState(g, U, p) = l.state
      <4>1. CASE p = 0
        BY <1>1, <2>2, <4>1 DEF StartState
      <4>2. CASE p # 0 /\ p = e
        BY <1>2, <1>3, <1>7, <2>2, <4>2 DEF StartState
      <4>3. CASE p # 0 /\ p # e
        BY <1>1, <1>3, <1>8, <2>2, <4>3 DEF StartState
      <4> QED BY <4>1, <4>2, <4>3
    <3>2. \A k \in DOMAIN U.scopes : InLine(t, p, k) => k = p
      BY <1>3, <2>2
    <3>3. ~IsLast(t, p) => End(t, p) \in DOMAIN U.states /\ U.states[End(t, p)] = after
      BY <1>1, <1>3, <2>2
    <3> QED BY <1>1, <1>3, <1>a, <2>2, <3>1, <3>2, <3>3 DEF LineParsed
  <2>3. CASE p # f
    <3>1. \A k \in Int : InLine(t, p, k) => ~InLine(t, f, k)
      BY <1>1, <2>3, LinesDisjoint
    <3>2. p = e => same
      <4> SUFFICES ASSUME p = e, ~same PROVE FALSE
        OBVIOUS
      <4>1. CASE last
        <5>1. p <= f
          BY <1>l, <4>1 DEF IsLast
        <5> QED BY <1>2, <2>1, <2>3, <5>1
      <4>2. CASE ~last
        BY <1>3, <1>8, <2>1, <4>2 DEF Clean
      <4> QED BY <4>1, <4>2
    <3>3. p \in DOMAIN U.states => p \in DOMAIN m.states /\ U.states[p] = m.states[p]
      BY <1>3, <1>s, <3>2
    <3>4. Clean(t, m.dirty, p)
      <4> SUFFICES ASSUME NEW k \in m.dirty, InLine(t, p, k) PROVE FALSE
        BY DEF Clean
      <4>1. k \in Int
        BY <1>2 DEF MarksType
      <4>2. k \in U.dirty
        BY <1>3, <3>1, <4>1
      <4> QED BY <1>8, <4>2 DEF Clean
    <3>5. LineParsed(t, g, m, p)
      BY <1>8, <3>3, <3>4 DEF Chained
    <3>6. StartState(g, U, p) = StartState(g, m, p)
      BY <1>8, <3>3 DEF StartState
    <3>7. p \in DOMAIN U.scopes /\ U.scopes[p] = m.scopes[p]
      BY <1>3, <2>1, <2>3, <3>1, <3>5 DEF LineParsed
    <3>8. \A k \in DOMAIN U.scopes : InLine(t, p, k) => k = p
      <4> SUFFICES ASSUME NEW k \in DOMAIN U.scopes, InLine(t, p, k) PROVE k = p
        OBVIOUS
      <4>1. k \in Int
        BY <1>2, <1>5 DEF MarksType
      <4>2. k # f
        BY <2>1, <3>1, <4>1
      <4>3. k \in DOMAIN m.scopes
        BY <1>3, <4>2
      <4> QED BY <3>5, <4>3 DEF LineParsed
    <3>9. ~IsLast(t, p) => End(t, p) \in DOMAIN U.states /\ U.states[End(t, p)] = m.states[End(t, p)]
      <4> SUFFICES ASSUME ~IsLast(t, p)
                   PROVE  End(t, p) \in DOMAIN U.states /\ U.states[End(t, p)] = m.states[End(t, p)]
        OBVIOUS
      <4>1. /\ End(t, p) \in DOMAIN m.states /\ End(t, p) \in LineStarts(t) /\ p < End(t, p)
            /\ End(t, p) \in Nat
            /\ \A s \in LineStarts(t) : p < s => End(t, p) <= s
        <5>1. End(t, p) \in DOMAIN m.states
          BY <3>5 DEF LineParsed
        <5>2. /\ End(t, p) \in LineStarts(t) /\ p < End(t, p)
              /\ \A s \in LineStarts(t) : p < s => End(t, p) <= s
          BY <2>1, EndIs
        <5> QED BY <5>1, <5>2, StartsAre
      <4>2. CASE End(t, p) # e
        BY <1>3, <4>1, <4>2
      <4>3. CASE End(t, p) = e /\ last
        <5>1. e <= f
          BY <1>l, <4>1, <4>3 DEF IsLast
        <5>2. e = f /\ f # 0
          BY <1>2, <2>1, <4>1, <4>3, <5>1
        <5>3. m.states[e] = after
          BY <1>1, <1>7, <4>1, <4>3, <5>2
        <5> QED BY <1>3, <4>1, <4>3, <5>3
      <4>4. CASE End(t, p) = e /\ ~last
        <5>1. p < f \/ f < p
          BY <1>2, <2>1, <2>3
        <5>2. \A s \in LineStarts(t) : f < s => e <= s
          BY <1>1, <1>2, <1>l, <4>4, EndIs
        <5> QED BY <1>1, <1>2, <2>1, <4>1, <4>4, <5>1, <5>2
      <4> QED BY <4>2, <4>3, <4>4
    <3> QED BY <3>5, <3>6, <3>7, <3>8, <3>9 DEF LineParsed
  <2> QED BY <2>2, <2>3
<1>9. Chained(t, g, U)
  BY <1>6, <1>8 DEF Chained
<1> QED BY <1>5, <1>9 DEF U

-----------------------------------------------------------------------------
(* The loop of wait_for_repair. *)

Turn(t, m) ==
  LET first == FirstDirty(t, m.dirty, m.states)
  IN IF first = {} THEN m ELSE Updated(t, m, CHOOSE l \in first : TRUE)

(* What is next to be parsed is a line, parsed from the state the marks have *)
(* for it.                                                                   *)
LEMMA NextIsLine ==
  ASSUME NEW t \in Seq(Chars), NEW g, NEW m, MarksType(t, m), Chained(t, g, m),
         NEW l, IsNext(t, g, m, l)
  PROVE  IsLine(t, g, m, l)
<1>1. l.state \in States
  BY DEF IsNext, StartState, MarksType, Chained
<1> QED BY <1>1 DEF IsNext, IsLine, StartState

(* So does a turn of the loop, which parses the first dirty line.            *)
LEMMA TurnKeepsChain ==
  ASSUME NEW t \in Seq(Chars), NEW g, NEW m, MarksType(t, m), Chained(t, g, m)
  PROVE  MarksType(t, Turn(t, m)) /\ Chained(t, g, Turn(t, m))
<1> DEFINE first == FirstDirty(t, m.dirty, m.states)
<1>1. CASE first = {}
  BY <1>1 DEF Turn
<1>2. CASE first # {}
  <2>1. PICK l : first = {l} /\ IsNext(t, g, m, l)
    BY <1>2, FirstDirtyIs
  <2> HIDE DEF first
  <2>2. (CHOOSE k \in first : TRUE) = l
    BY <2>1
  <2>3. Turn(t, m) = Updated(t, m, l)
    BY <1>2, <2>2 DEF Turn, first
  <2> QED BY <2>1, <2>3, NextIsLine, UpdateKeepsChain
<1> QED BY <1>1, <1>2

(* The function of turns is there, for any number of them. *)
Turns(t, m, n, f) == f = [i \in 0..n |-> IF i = 0 THEN m ELSE Turn(t, f[i - 1])]

(* It is, by the least number of turns for which it would not be.            *)
LEMMA TurnsExist ==
  ASSUME NEW t, NEW m, NEW n \in Nat
  PROVE  \E f : Turns(t, m, n, f)
<1> DEFINE Bad == {k \in Nat : ~\E f : Turns(t, m, k, f)}
<1>1. SUFFICES ASSUME Bad # {} PROVE FALSE
  OBVIOUS
<1>2. PICK b \in Bad : \A k \in Bad : b <= k
  <2>1. Bad \subseteq Nat
    OBVIOUS
  <2> HIDE DEF Bad
  <2> QED BY <1>1, <2>1, NatMin
<1>3. b \in Nat /\ ~\E f : Turns(t, m, b, f)
  OBVIOUS
<1>4. CASE b = 0
  <2> DEFINE f == [i \in 0..0 |-> m]
  <2>1. f = [i \in 0..0 |-> IF i = 0 THEN m ELSE Turn(t, f[i - 1])]
    OBVIOUS
  <2> HIDE DEF f
  <2>2. Turns(t, m, 0, f)
    BY <2>1 DEF Turns
  <2> QED BY <1>3, <1>4, <2>2
<1>5. CASE b # 0
  <2>1. b - 1 \in Nat /\ b - 1 \notin Bad
    BY <1>2, <1>3, <1>5
  <2>2. PICK f : Turns(t, m, b - 1, f)
    BY <2>1
  <2>3. /\ f = [i \in 0..b - 1 |-> IF i = 0 THEN m ELSE Turn(t, f[i - 1])]
    BY <2>2 DEF Turns
  <2>4. \A i \in 0..b - 1 : f[i] = IF i = 0 THEN m ELSE Turn(t, f[i - 1])
    BY <2>3
  <2> DEFINE h == [i \in 0..b |-> IF i = b THEN Turn(t, f[b - 1]) ELSE f[i]]
  <2>5. \A i \in 0..b - 1 : h[i] = f[i]
    BY <1>3
  <2>6. h[b] = Turn(t, f[b - 1]) /\ DOMAIN h = 0..b
    BY <1>3
  <2>9. h = [i \in 0..b |-> h[i]]
    OBVIOUS
  <2> HIDE DEF h
  <2>7. \A i \in 0..b : h[i] = IF i = 0 THEN m ELSE Turn(t, h[i - 1])
    <3> SUFFICES ASSUME NEW i \in 0..b PROVE h[i] = IF i = 0 THEN m ELSE Turn(t, h[i - 1])
      OBVIOUS
    <3>1. CASE i = b
      <4>1. b - 1 \in 0..b - 1 /\ i # 0
        BY <1>3, <1>5, <3>1
      <4> QED BY <2>5, <2>6, <3>1, <4>1
    <3>2. CASE i # b
      <4>1. i \in 0..b - 1 /\ (i # 0 => i - 1 \in 0..b - 1)
        BY <1>3, <3>2
      <4> QED BY <2>4, <2>5, <4>1
    <3> QED BY <3>1, <3>2
  <2>8. Turns(t, m, b, h)
    <3>1. h = [i \in 0..b |-> IF i = 0 THEN m ELSE Turn(t, h[i - 1])]
      BY <2>7, <2>9
    <3> QED BY <3>1 DEF Turns
  <2> QED BY <1>3, <2>8
<1> QED BY <1>4, <1>5

(* So does the whole loop, by the least turn that would not.                 *)
LEMMA RepairKeepsChain ==
  ASSUME text \in Seq(Chars), MarksType(text, Marks), Chained(text, grammar, Marks)
  PROVE  MarksType(text, Repaired) /\ Chained(text, grammar, Repaired)
<1> DEFINE N == MaxText + 1
           turn == CHOOSE f : Turns(text, Marks, N, f)
<1>1. N \in Nat
  BY ParserAssumption
<1>2. Repaired = turn[N]
  BY DEF Repaired, Turns, Turn
<1>3. Turns(text, Marks, N, turn)
  <2> HIDE DEF N
  <2>1. \E f : Turns(text, Marks, N, f)
    BY <1>1, TurnsExist
  <2> QED BY <2>1
<1> HIDE DEF turn, N
<1>4. \A i \in 0..N : turn[i] = IF i = 0 THEN Marks ELSE Turn(text, turn[i - 1])
  BY <1>3 DEF Turns
<1> DEFINE Good(i) == MarksType(text, turn[i]) /\ Chained(text, grammar, turn[i])
           Bad == {i \in 0..N : ~Good(i)}
<1>5. Bad = {}
  <2> SUFFICES ASSUME Bad # {} PROVE FALSE
    OBVIOUS
  <2>1. PICK b \in Bad : \A i \in Bad : b <= i
    <3>1. Bad \subseteq Nat
      BY <1>1
    <3> HIDE DEF Bad
    <3> QED BY <3>1, NatMin
  <2>2. b \in 0..N /\ ~Good(b)
    OBVIOUS
  <2>3. CASE b = 0
    BY <1>4, <2>2, <2>3
  <2>4. CASE b # 0
    <3>1. b - 1 \in 0..N /\ b - 1 < b
      BY <1>1, <2>2, <2>4
    <3>2. Good(b - 1)
      BY <2>1, <2>2, <3>1
    <3>3. turn[b] = Turn(text, turn[b - 1])
      BY <1>4, <2>2, <2>4
    <3> QED BY <2>2, <3>2, <3>3, TurnKeepsChain
  <2> QED BY <2>3, <2>4
<1>6. N \in 0..N
  BY <1>1
<1> QED BY <1>2, <1>5, <1>6

-----------------------------------------------------------------------------
(* The texts that undo leads back to: hist[k] is the text before record k,   *)
(* and the one after the last record is the text of the buffer.              *)

RecordType == [from : Nat, len : Nat, before : Seq(Chars), opens : BOOLEAN, revision : Int]

TextsFit(hist, recs, t) ==
  /\ hist \in [Nat -> Seq(Chars)] /\ hist[Len(recs) + 1] = t
  /\ \A k \in 1..Len(recs) + 1 : Len(hist[k]) <= MaxText
  /\ \A k \in 1..Len(recs) :
       LET r == recs[k] IN
       /\ r.from + r.len <= Len(hist[k + 1])
       /\ hist[k] = Splice(hist[k + 1], r.from, r.from + r.len, r.before)

(* Where a group of changes ended; the revision stands for the text there.   *)
IsStage(recs, grp, k) == IF k = Len(recs) + 1 THEN grp = "closed" ELSE recs[k].opens

RevisionAt(recs, rev, k) == IF k = Len(recs) + 1 THEN rev ELSE recs[k].revision

RevisionsFit(recs, grp, rev, next) ==
  /\ rev \in Int /\ next \in Int /\ rev < next
  /\ grp \in {"closed", "open", "undoing"}
  /\ Len(recs) > 0 => recs[1].opens
  /\ grp # "closed" => Len(recs) > 0
  /\ \A k \in 1..Len(recs) : recs[k].opens => recs[k].revision < next
  /\ \A k, j \in 1..Len(recs) + 1 :
       k < j /\ IsStage(recs, grp, k) /\ IsStage(recs, grp, j)
         => RevisionAt(recs, rev, k) < RevisionAt(recs, rev, j)

(* Where a replacement moves a position to, -2 if it removes it.             *)
Forward(x, r) == IF x <= r.from THEN x
                 ELSE IF x > r.from + Len(r.before) THEN x + r.len - Len(r.before) ELSE -2

(* The line was sent at stage k: it is a line of the text there, it follows  *)
(* from the text before it, and if its place is still one with a state, then *)
(* the state is the one it is parsed from.                                   *)
Traced(q, recs, k, st, l) ==
  /\ q \in [Nat -> Int] /\ q[k] = l.from
  /\ \A j \in k..Len(recs) : q[j + 1] = Forward(q[j], recs[j])
  /\ l.from # 0 /\ q[Len(recs) + 1] \in DOMAIN st => st[q[Len(recs) + 1]] = l.state

SentAt(l, k, hist, recs, g, st) ==
  /\ l.from \in LineStarts(hist[k]) /\ l.to = End(hist[k], l.from)
  /\ l.line = Line(hist[k], l.from) /\ l.state = StateIn(hist[k], g, l.from)
  /\ \E q : Traced(q, recs, k, st, l)

RequestsFit(req, hist, recs, grp, rev, next, g, st) ==
  \A r \in req :
    /\ r.revision \in Int /\ r.revision < next
    /\ \A k \in 1..Len(recs) + 1 :
         IsStage(recs, grp, k) /\ RevisionAt(recs, rev, k) = r.revision
           => SentAt(r.line, k, hist, recs, g, st)

MarksFit(t, g, m) ==
  /\ MarksType(t, m)
  /\ g = NoGrammar => DOMAIN m.states = {}
  /\ g # NoGrammar => Chained(t, g, m)

AtMostOne(req) == req = {} \/ \E r : req = {r}

(* What is sent fits, and nothing is sent without a grammar.                 *)
LEMMA SentFits ==
  ASSUME NEW hist, NEW recs \in Seq(RecordType), NEW t \in Seq(Chars), NEW rev, NEW next, NEW g, NEW m,
         TextsFit(hist, recs, t), RevisionsFit(recs, "closed", rev, next), MarksFit(t, g, m)
  PROVE  LET req == Sent(t, rev, m.dirty, m.states)
         IN /\ AtMostOne(req) /\ (g = NoGrammar => req = {})
            /\ RequestsFit(req, hist, recs, "closed", rev, next, g, m.states)
<1> DEFINE req == Sent(t, rev, m.dirty, m.states)
           first == FirstDirty(t, m.dirty, m.states)
           n == Len(recs)
<1>1. req = {[line |-> l, revision |-> rev] : l \in first}
  BY DEF Sent
<1> HIDE DEF req
<1>2. CASE first = {}
  <2>1. req = {}
    BY <1>1, <1>2
  <2> QED BY <2>1 DEF AtMostOne, RequestsFit, req
<1>3. CASE first # {}
  <2>1. g # NoGrammar
    BY <1>3 DEF MarksFit, FirstDirty
  <2>2. PICK l : first = {l} /\ IsNext(t, g, m, l)
    BY <1>3, <2>1, FirstDirtyIs DEF MarksFit
  <2> HIDE DEF first
  <2> DEFINE r == [line |-> l, revision |-> rev]
  <2>3. req = {r}
    BY <1>1, <2>2
  <2>4. r.line = l /\ r.revision = rev
    OBVIOUS
  <2> HIDE DEF r
  <2>5. n \in Nat /\ rev \in Int /\ rev < next /\ hist[n + 1] = t
    BY DEF RevisionsFit, TextsFit
  <2>6. ASSUME NEW k \in 1..n + 1, IsStage(recs, "closed", k), RevisionAt(recs, rev, k) = rev
        PROVE  k = n + 1
    <3> SUFFICES ASSUME k # n + 1 PROVE FALSE
      OBVIOUS
    <3>1. k < n + 1 /\ n + 1 \in 1..n + 1
      BY <2>5
    <3>2. IsStage(recs, "closed", n + 1) /\ RevisionAt(recs, rev, n + 1) = rev
      BY DEF IsStage, RevisionAt
    <3>3. RevisionAt(recs, rev, k) < rev
      <4> HIDE DEF n
      <4> QED BY <2>6, <3>1, <3>2 DEF RevisionsFit, n
    <3> QED BY <2>5, <2>6, <3>3
  <2>7. SentAt(l, n + 1, hist, recs, g, m.states)
    <3> DEFINE q == [j \in Nat |-> l.from]
    <3>1. l.from \in Int
      BY <2>2, StartsAre DEF IsNext
    <3>2. q \in [Nat -> Int] /\ q[n + 1] = l.from
      BY <2>5, <3>1
    <3>3. \A j \in (n + 1)..n : q[j + 1] = Forward(q[j], recs[j])
      BY <2>5
    <3>4. l.from # 0 => m.states[l.from] = l.state
      BY <2>2 DEF IsNext, StartState
    <3> HIDE DEF q
    <3>5. Traced(q, recs, n + 1, m.states, l)
      BY <3>2, <3>3, <3>4 DEF Traced
    <3> QED BY <2>2, <2>5, <3>5 DEF SentAt, IsNext
  <2>8. RequestsFit(req, hist, recs, "closed", rev, next, g, m.states)
    <3> SUFFICES ASSUME NEW k \in 1..n + 1, IsStage(recs, "closed", k), RevisionAt(recs, rev, k) = rev
                 PROVE  SentAt(l, k, hist, recs, g, m.states)
      BY <2>3, <2>4, <2>5 DEF RequestsFit
    <3> QED BY <2>6, <2>7
  <2> QED BY <2>1, <2>3, <2>8 DEF AtMostOne, req
<1> QED BY <1>2, <1>3

(* A line at the worker when a group ends is of an earlier revision.         *)
LEMMA EndGroupFits ==
  ASSUME NEW hist, NEW recs \in Seq(RecordType), NEW rev, NEW next, NEW g, NEW st, NEW req,
         RevisionsFit(recs, "open", rev, next),
         RequestsFit(req, hist, recs, "open", rev, next, g, st)
  PROVE  /\ RevisionsFit(recs, "closed", next, next + 1)
         /\ RequestsFit(req, hist, recs, "closed", next, next + 1, g, st)
<1> DEFINE n == Len(recs)
<1>1. n \in Nat /\ next \in Int
  BY DEF RevisionsFit
<1>2. ASSUME NEW k \in 1..n PROVE /\ IsStage(recs, "closed", k) <=> recs[k].opens
                                  /\ IsStage(recs, "open", k) <=> recs[k].opens
                                  /\ RevisionAt(recs, next, k) = recs[k].revision
                                  /\ RevisionAt(recs, rev, k) = recs[k].revision
  <2>1. k # n + 1
    BY <1>1
  <2> QED BY <2>1 DEF IsStage, RevisionAt
<1>3. RevisionAt(recs, next, n + 1) = next
  BY DEF RevisionAt
<1> HIDE DEF n
<1>4. \A k \in 1..n + 1 : k \in 1..n \/ k = n + 1
  BY <1>1
<1>5. ASSUME NEW k \in 1..n + 1, NEW j \in 1..n + 1, k < j,
             IsStage(recs, "closed", k), IsStage(recs, "closed", j)
      PROVE  RevisionAt(recs, next, k) < RevisionAt(recs, next, j)
  <2>1. k \in 1..n
    BY <1>1, <1>5
  <2>2. CASE j = n + 1
    BY <1>2, <1>3, <1>5, <2>1, <2>2 DEF RevisionsFit, n
  <2>3. CASE j \in 1..n
    BY <1>2, <1>5, <2>1, <2>3 DEF RevisionsFit, n
  <2> QED BY <1>4, <2>2, <2>3
<1>6. \A k \in 1..n : recs[k].opens => recs[k].revision < next + 1
  <2> SUFFICES ASSUME NEW k \in 1..n, recs[k].opens PROVE recs[k].revision < next + 1
    OBVIOUS
  <2>1. recs[k].revision < next /\ recs[k] \in RecordType
    BY DEF RevisionsFit, n
  <2>2. recs[k].revision \in Int
    BY <2>1 DEF RecordType
  <2> QED BY <1>1, <2>1, <2>2
<1>7. RevisionsFit(recs, "closed", next, next + 1)
  BY <1>1, <1>5, <1>6 DEF RevisionsFit, n
<1>8. ASSUME NEW r \in req
      PROVE  /\ r.revision \in Int /\ r.revision < next + 1
             /\ \A k \in 1..n + 1 :
                  IsStage(recs, "closed", k) /\ RevisionAt(recs, next, k) = r.revision
                    => SentAt(r.line, k, hist, recs, g, st)
  <2>1. /\ r.revision \in Int /\ r.revision < next
        /\ \A k \in 1..n + 1 :
             IsStage(recs, "open", k) /\ RevisionAt(recs, rev, k) = r.revision
               => SentAt(r.line, k, hist, recs, g, st)
    BY DEF RequestsFit, n
  <2>2. r.revision < next + 1 /\ r.revision # next
    BY <1>1, <2>1
  <2> QED BY <1>2, <1>3, <1>4, <2>1, <2>2
<1>9. RequestsFit(req, hist, recs, "closed", next, next + 1, g, st)
  BY <1>8 DEF RequestsFit, n
<1> QED BY <1>7, <1>9

(* A replacement adds a record, and the lines at the worker are traced       *)
(* through it.                                                               *)
LEMMA AppendedRecord ==
  ASSUME NEW recs \in Seq(RecordType), NEW r \in RecordType
  PROVE  LET recs2 == Append(recs, r) IN
         /\ recs2 \in Seq(RecordType) /\ Len(recs2) = Len(recs) + 1 /\ Len(recs) \in Nat
         /\ \A k \in 1..Len(recs) : recs2[k] = recs[k]
         /\ recs2[Len(recs) + 1] = r
<1> DEFINE recs2 == Append(recs, r)
<1>1. /\ recs2 \in Seq(RecordType) /\ Len(recs2) = Len(recs) + 1
      /\ \A k \in 1..Len(recs) : recs2[k] = recs[k]
      /\ recs2[Len(recs) + 1] = r
  BY AppendProperties
<1> QED BY <1>1

(* A replacement adds a text to the history and a record that leads back     *)
(* from it, and the lines at the worker are traced on through the record.    *)
LEMMA ReplaceFits ==
  ASSUME NEW hist, NEW recs \in Seq(RecordType), NEW t \in Seq(Chars), NEW s \in Seq(Chars),
         NEW from \in 0..Len(t), NEW to \in from..Len(t), NEW grp \in {"closed", "open"},
         NEW rev, NEW next, NEW g, NEW st, NEW req, NEW len \in Int,
         DOMAIN st \subseteq -1..len,
         Len(Splice(t, from, to, s)) <= MaxText,
         TextsFit(hist, recs, t), RevisionsFit(recs, grp, rev, next),
         RequestsFit(req, hist, recs, grp, rev, next, g, st)
  PROVE  LET r == [from |-> from, len |-> Len(s), before |-> SubSeq(t, from + 1, to),
                   opens |-> grp = "closed", revision |-> rev]
             recs2 == Append(recs, r)
             u == Splice(t, from, to, s)
             hist2 == [hist EXCEPT ![Len(recs) + 2] = u]
         IN /\ r \in RecordType /\ recs2 \in Seq(RecordType) /\ u \in Seq(Chars)
            /\ TextsFit(hist2, recs2, u) /\ RevisionsFit(recs2, "open", rev, next)
            /\ RequestsFit(req, hist2, recs2, "open", rev, next, g,
                           ReplaceLeft(st, from, to, Len(s)))
<1> DEFINE r == [from |-> from, len |-> Len(s), before |-> SubSeq(t, from + 1, to),
                 opens |-> grp = "closed", revision |-> rev]
           recs2 == Append(recs, r)
           u == Splice(t, from, to, s)
           n == Len(recs)
           hist2 == [hist EXCEPT ![n + 2] = u]
           st2 == ReplaceLeft(st, from, to, Len(s))
           by == Len(s) - (to - from)
<1>1. /\ from \in Nat /\ to \in Nat /\ from <= to /\ to <= Len(t) /\ Len(t) \in Nat /\ Len(s) \in Nat
      /\ by \in Int
  OBVIOUS
<1>2. SubSeq(t, from + 1, to) \in Seq(Chars) /\ Len(SubSeq(t, from + 1, to)) = to - from
  <2>1. \A i \in from+1..to : t[i] \in Chars
    BY <1>1
  <2>2. /\ SubSeq(t, from + 1, to) \in Seq(Chars)
        /\ Len(SubSeq(t, from + 1, to)) = IF from + 1 <= to THEN to - (from + 1) + 1 ELSE 0
    BY <1>1, <2>1, SubSeqProperties
  <2> QED BY <1>1, <2>2
<1>3. u \in Seq(Chars) /\ Len(u) = Len(t) + by
  <2>1. IsSplice(Chars, t, from, to, s, u)
    BY SpliceElements
  <2> HIDE DEF u
  <2> QED BY <1>1, <2>1 DEF IsSplice
<1>4. Splice(u, from, from + Len(s), SubSeq(t, from + 1, to)) = t
  BY SpliceInverse
<1>5. /\ r.from = from /\ r.len = Len(s) /\ r.before = SubSeq(t, from + 1, to)
      /\ r.opens <=> grp = "closed"
      /\ r.revision = rev /\ r \in RecordType
  BY <1>1, <1>2 DEF RecordType, RevisionsFit
<1> HIDE DEF r, u
<1>6. /\ recs2 \in Seq(RecordType) /\ Len(recs2) = n + 1 /\ n \in Nat
      /\ \A k \in 1..n : recs2[k] = recs[k]
      /\ recs2[n + 1] = r
  BY <1>5, AppendedRecord
<1> HIDE DEF recs2
<1>7. /\ hist \in [Nat -> Seq(Chars)] /\ hist[n + 1] = t
      /\ \A k \in 1..n + 1 : Len(hist[k]) <= MaxText
      /\ \A k \in 1..n : /\ recs[k].from + recs[k].len <= Len(hist[k + 1])
                         /\ hist[k] = Splice(hist[k + 1], recs[k].from, recs[k].from + recs[k].len,
                                             recs[k].before)
  BY DEF TextsFit
<1>h. hist2 = [hist EXCEPT ![n + 2] = u]
  OBVIOUS
<1>t. st2 = ReplaceLeft(st, from, to, Len(s))
  OBVIOUS
<1>b. by = Len(s) - (to - from)
  OBVIOUS
<1> HIDE DEF n, hist2, st2, by
<1>8. /\ hist2 \in [Nat -> Seq(Chars)] /\ hist2[n + 2] = u
      /\ \A k \in 1..n + 1 : hist2[k] = hist[k]
  <2>1. n + 2 \in Nat /\ \A k \in 1..n + 1 : k \in Nat /\ k # n + 2
    BY <1>6
  <2>2. hist2 \in [Nat -> Seq(Chars)] /\ hist2[n + 2] = u
    BY <1>3, <1>7, <1>h, <2>1
  <2>3. \A k \in Nat : k # n + 2 => hist2[k] = hist[k]
    BY <1>7, <1>h
  <2> QED BY <2>1, <2>2, <2>3
<1>9. TextsFit(hist2, recs2, u)
  <2>1. hist2[Len(recs2) + 1] = u
    BY <1>6, <1>8
  <2>2. ASSUME NEW k \in 1..Len(recs2) + 1 PROVE Len(hist2[k]) <= MaxText
    <3>1. k \in 1..n + 1 \/ k = n + 2
      BY <1>6
    <3>2. Len(u) <= MaxText
      BY DEF u
    <3> QED BY <1>7, <1>8, <3>1, <3>2
  <2>3. ASSUME NEW k \in 1..Len(recs2)
        PROVE  /\ recs2[k].from + recs2[k].len <= Len(hist2[k + 1])
               /\ hist2[k] = Splice(hist2[k + 1], recs2[k].from, recs2[k].from + recs2[k].len,
                                    recs2[k].before)
    <3>1. CASE k \in 1..n
      <4>1. k \in 1..n + 1 /\ k + 1 \in 1..n + 1
        BY <1>6, <3>1
      <4> QED BY <1>6, <1>7, <1>8, <3>1, <4>1
    <3>2. CASE k = n + 1
      <4>1. k \in 1..n + 1 /\ k + 1 = n + 2
        BY <1>6, <3>2
      <4>2. hist2[k] = t /\ hist2[k + 1] = u /\ recs2[k] = r
        BY <1>6, <1>7, <1>8, <3>2, <4>1
      <4>3. from + Len(s) <= Len(u)
        BY <1>1, <1>3, <1>b
      <4> QED BY <1>4, <1>5, <4>2, <4>3
    <3> QED BY <1>6, <3>1, <3>2
  <2> QED BY <1>8, <2>1, <2>2, <2>3 DEF TextsFit
<1>10. /\ rev \in Int /\ next \in Int /\ rev < next
       /\ n > 0 => recs[1].opens
       /\ grp # "closed" => n > 0
       /\ \A k \in 1..n : recs[k].opens => recs[k].revision < next
       /\ \A k, j \in 1..n + 1 :
            k < j /\ IsStage(recs, grp, k) /\ IsStage(recs, grp, j)
              => RevisionAt(recs, rev, k) < RevisionAt(recs, rev, j)
  BY DEF RevisionsFit, n
<1>11. ASSUME NEW k \in 1..Len(recs2) + 1, IsStage(recs2, "open", k)
       PROVE  /\ k \in 1..n + 1 /\ IsStage(recs, grp, k)
              /\ RevisionAt(recs2, rev, k) = RevisionAt(recs, rev, k)
  <2>1. k # n + 2
    BY <1>6, <1>11 DEF IsStage
  <2>2. CASE k = n + 1
    <3>1. k # Len(recs2) + 1
      BY <1>6, <2>2
    <3> QED BY <1>5, <1>6, <1>11, <2>2, <3>1 DEF IsStage, RevisionAt, n
  <2>3. CASE k \in 1..n
    <3>1. k # Len(recs2) + 1 /\ k # Len(recs) + 1 /\ recs2[k] = recs[k]
      BY <1>6, <2>3 DEF n
    <3> QED BY <1>6, <1>11, <2>3, <3>1 DEF IsStage, RevisionAt
  <2> QED BY <1>6, <2>1, <2>2, <2>3
<1>12. RevisionsFit(recs2, "open", rev, next)
  <2>1. Len(recs2) > 0 /\ recs2[1].opens
    <3>1. CASE n = 0
      BY <1>5, <1>6, <1>10, <3>1
    <3>2. CASE n > 0
      <4>1. 1 \in 1..n
        BY <1>6, <3>2
      <4> QED BY <1>6, <1>10, <3>2, <4>1
    <3> QED BY <1>6, <3>1, <3>2
  <2>2. \A k \in 1..Len(recs2) : recs2[k].opens => recs2[k].revision < next
    <3>1. \A k \in 1..Len(recs2) : k \in 1..n \/ k = n + 1
      BY <1>6
    <3> QED BY <1>5, <1>6, <1>10, <3>1
  <2>3. \A k, j \in 1..Len(recs2) + 1 :
          k < j /\ IsStage(recs2, "open", k) /\ IsStage(recs2, "open", j)
            => RevisionAt(recs2, rev, k) < RevisionAt(recs2, rev, j)
    BY <1>10, <1>11
  <2> QED BY <1>10, <2>1, <2>2, <2>3 DEF RevisionsFit
<1>13. /\ DOMAIN st2 \subseteq Int
       /\ \A k \in Int : k <= from => /\ k \in DOMAIN st2 <=> k \in DOMAIN st
                                      /\ k \in DOMAIN st2 => st2[k] = st[k]
       /\ \A k \in Int : from + Len(s) < k => /\ k \in DOMAIN st2 <=> k - by \in DOMAIN st
                                              /\ k \in DOMAIN st2 => st2[k] = st[k - by]
  <2>1. KeepsLeft(st, st2, from, to, Len(s))
    BY <1>1, <1>t, ReplaceLeftIs
  <2> QED BY <2>1 DEF KeepsLeft, by
<1>14. ASSUME NEW l, NEW k \in 1..n + 1, SentAt(l, k, hist, recs, g, st)
       PROVE  SentAt(l, k, hist2, recs2, g, st2)
  <2>1. PICK q : Traced(q, recs, k, st, l)
    BY <1>14 DEF SentAt
  <2>2. /\ q \in [Nat -> Int] /\ q[k] = l.from
        /\ \A j \in k..n : q[j + 1] = Forward(q[j], recs[j])
        /\ l.from # 0 /\ q[n + 1] \in DOMAIN st => st[q[n + 1]] = l.state
    BY <2>1 DEF Traced, n
  <2> DEFINE x == q[n + 1]
             y == Forward(x, r)
             q2 == [q EXCEPT ![n + 2] = y]
  <2>a. n + 1 \in Nat /\ n + 2 \in Nat
    BY <1>6
  <2>3. x \in Int
    BY <2>2, <2>a
  <2>4. /\ x <= from => y = x
        /\ from < x /\ x <= to => y = -2
        /\ to < x => y = x + by
    <3> HIDE DEF x
    <3>1. y = IF x <= from THEN x
              ELSE IF x > from + (to - from) THEN x + Len(s) - (to - from) ELSE -2
      BY <1>2, <1>5 DEF Forward
    <3> HIDE DEF y
    <3> QED BY <1>1, <1>b, <2>3, <3>1
  <2>5. y \in Int
    <3> HIDE DEF x, y
    <3> QED BY <1>1, <2>3, <2>4
  <2> HIDE DEF y
  <2>6. /\ q2 \in [Nat -> Int] /\ q2[n + 2] = y
        /\ \A j \in 1..n + 1 : q2[j] = q[j]
    <3>1. \A j \in 1..n + 1 : j \in Nat /\ j # n + 2
      BY <1>6
    <3>2. q2 \in [Nat -> Int] /\ q2[n + 2] = y
      BY <2>2, <2>a, <2>5
    <3>3. \A j \in Nat : j # n + 2 => q2[j] = q[j]
      BY <2>2
    <3> HIDE DEF q2
    <3> QED BY <3>1, <3>2, <3>3
  <2> HIDE DEF q2
  <2>7. \A j \in k..Len(recs2) : q2[j + 1] = Forward(q2[j], recs2[j])
    <3> SUFFICES ASSUME NEW j \in k..Len(recs2) PROVE q2[j + 1] = Forward(q2[j], recs2[j])
      OBVIOUS
    <3>1. CASE j = n + 1
      <4>1. j + 1 = n + 2 /\ j \in 1..n + 1
        BY <1>6, <3>1
      <4> QED BY <1>6, <2>6, <3>1, <4>1 DEF y
    <3>2. CASE j # n + 1
      <4>1. j \in k..n /\ j \in 1..n /\ j \in 1..n + 1 /\ j + 1 \in 1..n + 1
        BY <1>6, <3>2
      <4> QED BY <1>6, <2>2, <2>6, <4>1
    <3> QED BY <3>1, <3>2
  <2>8. l.from # 0 /\ y \in DOMAIN st2 => st2[y] = l.state
    <3> SUFFICES ASSUME l.from # 0, y \in DOMAIN st2 PROVE st2[y] = l.state
      OBVIOUS
    <3>1. x \in DOMAIN st => st[x] = l.state
      BY <2>2
    <3> HIDE DEF x
    <3>2. CASE x <= from
      BY <1>13, <2>3, <2>4, <3>1, <3>2
    <3>3. CASE to < x
      <4>1. y \in Int /\ from + Len(s) < y /\ y - by = x
        BY <1>1, <1>b, <2>3, <2>4, <3>3
      <4> QED BY <1>13, <3>1, <4>1
    <3>4. CASE from < x /\ x <= to
      <4>1. -2 \in DOMAIN st
        BY <1>1, <1>13, <2>4, <3>4
      <4> QED BY <4>1
    <3> QED BY <1>1, <2>3, <3>2, <3>3, <3>4
  <2>9. Traced(q2, recs2, k, st2, l)
    <3>1. q2[k] = l.from
      BY <2>2, <2>6
    <3>2. q2[Len(recs2) + 1] = y
      BY <1>6, <2>6
    <3> QED BY <2>6, <2>7, <2>8, <3>1, <3>2 DEF Traced
  <2>10. hist2[k] = hist[k]
    BY <1>8
  <2> QED BY <1>14, <2>9, <2>10 DEF SentAt
<1>15. RequestsFit(req, hist2, recs2, "open", rev, next, g, st2)
  <2> SUFFICES ASSUME NEW a \in req
               PROVE  /\ a.revision \in Int /\ a.revision < next
                      /\ \A k \in 1..Len(recs2) + 1 :
                           IsStage(recs2, "open", k) /\ RevisionAt(recs2, rev, k) = a.revision
                             => SentAt(a.line, k, hist2, recs2, g, st2)
    BY DEF RequestsFit
  <2>1. /\ a.revision \in Int /\ a.revision < next
        /\ \A k \in 1..n + 1 :
             IsStage(recs, grp, k) /\ RevisionAt(recs, rev, k) = a.revision
               => SentAt(a.line, k, hist, recs, g, st)
    BY DEF RequestsFit, n
  <2> QED BY <1>11, <1>14, <2>1
<1> QED BY <1>3, <1>5, <1>6, <1>9, <1>12, <1>15 DEF r, recs2, u, hist2, st2, n

(* Undoing a record leads back to the text before it.                        *)
LEMMA UndoFits ==
  ASSUME NEW hist, NEW recs \in Seq(RecordType), Len(recs) > 0, NEW t, NEW grp,
         NEW rev, NEW next, NEW g, NEW st, NEW req, NEW len \in Int,
         DOMAIN st \subseteq -1..len,
         TextsFit(hist, recs, t), RevisionsFit(recs, grp, rev, next),
         RequestsFit(req, hist, recs, grp, rev, next, g, st)
  PROVE  LET r == recs[Len(recs)]
             recs2 == SubSeq(recs, 1, Len(recs) - 1)
             u == Splice(t, r.from, r.from + r.len, r.before)
             grp2 == IF r.opens THEN "closed" ELSE "undoing"
             rev2 == IF r.opens THEN r.revision ELSE rev
         IN /\ r \in RecordType /\ r.from + r.len <= Len(t) /\ u \in Seq(Chars) /\ Len(u) <= MaxText
            /\ recs2 \in Seq(RecordType)
            /\ TextsFit(hist, recs2, u) /\ RevisionsFit(recs2, grp2, rev2, next)
            /\ RequestsFit(req, hist, recs2, grp2, rev2, next, g,
                           ReplaceLeft(st, r.from, r.from + r.len, Len(r.before)))
<1> DEFINE n == Len(recs)
           r == recs[n]
           recs2 == SubSeq(recs, 1, n - 1)
           u == Splice(t, r.from, r.from + r.len, r.before)
           grp2 == IF r.opens THEN "closed" ELSE "undoing"
           rev2 == IF r.opens THEN r.revision ELSE rev
           from == r.from
           to == r.from + r.len
           by == Len(r.before) - r.len
           st2 == ReplaceLeft(st, r.from, r.from + r.len, Len(r.before))
<1>1. n \in Nat /\ n > 0 /\ n \in 1..n /\ n - 1 \in Nat
  OBVIOUS
<1>2. r \in RecordType
  BY <1>1
<1>3. recs2 \in Seq(RecordType) /\ Len(recs2) = n - 1 /\ \A k \in 1..n - 1 : recs2[k] = recs[k]
  <2>1. \A i \in 1..n - 1 : recs[i] \in RecordType
    BY <1>1
  <2>2. 1 \in Int /\ n - 1 \in Int
    BY <1>1
  <2> HIDE DEF n
  <2>3. /\ recs2 \in Seq(RecordType)
        /\ Len(recs2) = IF 1 <= n - 1 THEN (n - 1) - 1 + 1 ELSE 0
        /\ \A i \in 1..(n - 1) - 1 + 1 : recs2[i] = recs[1 + i - 1]
    BY <2>1, <2>2, SubSeqProperties
  <2> HIDE DEF recs2
  <2>4. (n - 1) - 1 + 1 = n - 1
    BY <1>1
  <2>5. \A i \in 1..n - 1 : recs2[i] = recs[1 + i - 1] /\ 1 + i - 1 = i
    BY <1>1, <2>3, <2>4
  <2> QED BY <1>1, <2>3, <2>5
<1> HIDE DEF recs2
<1>4. /\ hist \in [Nat -> Seq(Chars)] /\ hist[n + 1] = t
      /\ \A k \in 1..n + 1 : Len(hist[k]) <= MaxText
      /\ \A k \in 1..n : /\ recs[k].from + recs[k].len <= Len(hist[k + 1])
                         /\ hist[k] = Splice(hist[k + 1], recs[k].from, recs[k].from + recs[k].len,
                                             recs[k].before)
  BY DEF TextsFit
<1>5. /\ from \in Nat /\ to \in Nat /\ from <= to /\ r.len \in Nat /\ Len(r.before) \in Nat /\ by \in Int
      /\ r.before \in Seq(Chars) /\ r.opens \in BOOLEAN /\ r.revision \in Int
  BY <1>2 DEF RecordType
<1>6. hist[n] = u /\ to <= Len(t)
  BY <1>1, <1>4
<1>r. r = recs[n]
  OBVIOUS
<1>g. /\ grp2 = "closed" <=> r.opens
      /\ grp2 \in {"closed", "undoing"}
  BY <1>5
<1>v. rev2 = IF r.opens THEN r.revision ELSE rev
  OBVIOUS
<1>t. st2 = ReplaceLeft(st, from, to, Len(r.before))
  OBVIOUS
<1> HIDE DEF u, st2, grp2, rev2, r, n
<1>7. TextsFit(hist, recs2, u)
  <2>1. \A k \in 1..Len(recs2) : k \in 1..n /\ recs2[k] = recs[k]
    BY <1>1, <1>3
  <2>2. \A k \in 1..Len(recs2) + 1 : k \in 1..n + 1
    BY <1>1, <1>3
  <2>3. hist[Len(recs2) + 1] = u
    BY <1>1, <1>3, <1>6
  <2> QED BY <1>4, <2>1, <2>2, <2>3 DEF TextsFit
<1>8. u \in Seq(Chars) /\ Len(u) <= MaxText
  <2>1. n \in Nat /\ n \in 1..n + 1
    BY <1>1
  <2> QED BY <1>4, <1>6, <2>1
<1>9. /\ rev \in Int /\ next \in Int /\ rev < next
      /\ recs[1].opens
      /\ \A k \in 1..n : recs[k].opens => recs[k].revision < next
      /\ \A k, j \in 1..n + 1 :
           k < j /\ IsStage(recs, grp, k) /\ IsStage(recs, grp, j)
             => RevisionAt(recs, rev, k) < RevisionAt(recs, rev, j)
  BY <1>1 DEF RevisionsFit, n
<1>10. ASSUME NEW k \in 1..Len(recs2) + 1, IsStage(recs2, grp2, k)
       PROVE  /\ k \in 1..n + 1 /\ IsStage(recs, grp, k)
              /\ RevisionAt(recs2, rev2, k) = RevisionAt(recs, rev, k)
  <2>1. k \in 1..n /\ k \in 1..n + 1 /\ k # Len(recs) + 1
    BY <1>1, <1>3 DEF n
  <2>2. IsStage(recs, grp, k) <=> recs[k].opens
    BY <2>1 DEF IsStage
  <2>3. RevisionAt(recs, rev, k) = recs[k].revision
    BY <2>1 DEF RevisionAt
  <2>4. CASE k = n
    <3>1. k = Len(recs2) + 1
      BY <1>1, <1>3, <2>4
    <3>2. grp2 = "closed"
      BY <1>10, <3>1 DEF IsStage
    <3>3. recs[k].opens /\ rev2 = recs[k].revision
      BY <1>g, <1>r, <1>v, <2>4, <3>2
    <3>4. RevisionAt(recs2, rev2, k) = rev2
      BY <3>1 DEF RevisionAt
    <3> QED BY <2>1, <2>2, <2>3, <3>3, <3>4
  <2>5. CASE k # n
    <3>1. k # Len(recs2) + 1 /\ k \in 1..n - 1
      BY <1>1, <1>3, <2>1, <2>5
    <3>2. recs[k].opens
      BY <1>3, <1>10, <3>1 DEF IsStage
    <3>3. RevisionAt(recs2, rev2, k) = recs[k].revision
      BY <1>3, <3>1 DEF RevisionAt
    <3> QED BY <2>1, <2>2, <2>3, <3>2, <3>3
  <2> QED BY <2>4, <2>5
<1>11. RevisionsFit(recs2, grp2, rev2, next)
  <2>1. rev2 \in Int /\ rev2 < next
    BY <1>1, <1>5, <1>9, <1>r, <1>v
  <2>2. Len(recs2) > 0 => recs2[1].opens
    <3> SUFFICES ASSUME Len(recs2) > 0 PROVE recs2[1].opens
      OBVIOUS
    <3>1. 1 \in 1..n - 1
      BY <1>1, <1>3
    <3> QED BY <1>3, <1>9, <3>1
  <2>3. grp2 # "closed" => Len(recs2) > 0
    <3> SUFFICES ASSUME grp2 # "closed" PROVE Len(recs2) > 0
      OBVIOUS
    <3>1. n # 1
      BY <1>9, <1>g, <1>r
    <3> QED BY <1>1, <1>3, <3>1
  <2>4. \A k \in 1..Len(recs2) : recs2[k].opens => recs2[k].revision < next
    <3>1. \A k \in 1..Len(recs2) : k \in 1..n - 1 /\ k \in 1..n
      BY <1>1, <1>3
    <3> QED BY <1>3, <1>9, <3>1
  <2>5. \A k, j \in 1..Len(recs2) + 1 :
          k < j /\ IsStage(recs2, grp2, k) /\ IsStage(recs2, grp2, j)
            => RevisionAt(recs2, rev2, k) < RevisionAt(recs2, rev2, j)
    BY <1>9, <1>10
  <2> QED BY <1>9, <1>g, <2>1, <2>2, <2>3, <2>4, <2>5 DEF RevisionsFit
<1>12. /\ \A k \in Int : k <= from => /\ k \in DOMAIN st2 <=> k \in DOMAIN st
                                      /\ k \in DOMAIN st2 => st2[k] = st[k]
       /\ \A k \in Int : from < k /\ k <= from + Len(r.before) => k \notin DOMAIN st2
       /\ \A k \in Int : from + Len(r.before) < k => /\ k \in DOMAIN st2 <=> k - by \in DOMAIN st
                                                     /\ k \in DOMAIN st2 => st2[k] = st[k - by]
  <2>1. KeepsLeft(st, st2, from, to, Len(r.before))
    BY <1>5, <1>t, ReplaceLeftIs
  <2>2. Len(r.before) - (to - from) = by
    BY <1>5
  <2> HIDE DEF from, to, by
  <2> QED BY <2>1, <2>2 DEF KeepsLeft
<1>13. ASSUME NEW l, NEW k \in 1..n, SentAt(l, k, hist, recs, g, st)
       PROVE  SentAt(l, k, hist, recs2, g, st2)
  <2>1. PICK q : Traced(q, recs, k, st, l)
    BY <1>13 DEF SentAt
  <2>2. /\ q \in [Nat -> Int] /\ q[k] = l.from
        /\ \A j \in k..n : q[j + 1] = Forward(q[j], recs[j])
        /\ l.from # 0 /\ q[n + 1] \in DOMAIN st => st[q[n + 1]] = l.state
    BY <2>1 DEF Traced, n
  <2> DEFINE x == q[n]
             y == q[n + 1]
  <2>3. x \in Int /\ y = Forward(x, r)
    <3>1. n \in k..n /\ n \in Nat
      BY <1>1
    <3> QED BY <1>r, <2>2, <3>1
  <2>4. l.from # 0 /\ y \in DOMAIN st => st[y] = l.state
    BY <2>2
  <2> HIDE DEF x, y
  <2>5. /\ x <= from => y = x
        /\ from + Len(r.before) < x => y = x - by
    BY <1>5, <2>3 DEF Forward
  <2>6. l.from # 0 /\ x \in DOMAIN st2 => st2[x] = l.state
    <3> SUFFICES ASSUME l.from # 0, x \in DOMAIN st2 PROVE st2[x] = l.state
      OBVIOUS
    <3>1. x <= from \/ from + Len(r.before) < x
      <4> HIDE DEF from
      <4>1. from < x /\ x <= from + Len(r.before) => x \notin DOMAIN st2
        BY <1>12, <2>3
      <4> QED BY <1>5, <2>3, <4>1
    <3> QED BY <1>12, <2>3, <2>4, <2>5, <3>1
  <2>7. \A j \in k..Len(recs2) : q[j + 1] = Forward(q[j], recs2[j])
    <3>1. \A j \in k..Len(recs2) : j \in k..n /\ j \in 1..n - 1
      BY <1>1, <1>3
    <3> QED BY <1>3, <2>2, <3>1
  <2>8. Len(recs2) + 1 = n
    BY <1>1, <1>3
  <2>9. Traced(q, recs2, k, st2, l)
    BY <2>2, <2>6, <2>7, <2>8 DEF Traced, x
  <2> QED BY <1>13, <2>9 DEF SentAt
<1>14. RequestsFit(req, hist, recs2, grp2, rev2, next, g, st2)
  <2> SUFFICES ASSUME NEW a \in req
               PROVE  /\ a.revision \in Int /\ a.revision < next
                      /\ \A k \in 1..Len(recs2) + 1 :
                           IsStage(recs2, grp2, k) /\ RevisionAt(recs2, rev2, k) = a.revision
                             => SentAt(a.line, k, hist, recs2, g, st2)
    BY DEF RequestsFit
  <2>1. /\ a.revision \in Int /\ a.revision < next
        /\ \A k \in 1..n + 1 :
             IsStage(recs, grp, k) /\ RevisionAt(recs, rev, k) = a.revision
               => SentAt(a.line, k, hist, recs, g, st)
    BY DEF RequestsFit, n
  <2>2. \A k \in 1..Len(recs2) + 1 : k \in 1..n
    BY <1>1, <1>3
  <2> QED BY <1>10, <1>13, <2>1, <2>2
<1> QED BY <1>2, <1>3, <1>6, <1>7, <1>8, <1>11, <1>14 DEF r, recs2, u, grp2, rev2, st2, n

-----------------------------------------------------------------------------
(* The inductive invariant. *)

IInv ==
  /\ grammar \in Grammars \cup {NoGrammar} /\ records \in Seq(RecordType)
  /\ MarksFit(text, grammar, Marks)
  /\ AtMostOne(request) /\ (grammar = NoGrammar => request = {})
  /\ RevisionsFit(records, group, revision, nextRevision)
  /\ \E hist : /\ TextsFit(hist, records, text)
               /\ RequestsFit(request, hist, records, group, revision, nextRevision, grammar, states)

(* The text of the buffer is the last one of the history.                    *)
LEMMA TextType ==
  ASSUME NEW hist, NEW recs \in Seq(RecordType), NEW t, TextsFit(hist, recs, t)
  PROVE  t \in Seq(Chars) /\ Len(t) <= MaxText
<1>1. Len(recs) + 1 \in 1..Len(recs) + 1 /\ Len(recs) + 1 \in Nat
  OBVIOUS
<1> QED BY <1>1 DEF TextsFit

(* The marks of a text that is to be parsed from its start.                  *)
LEMMA FreshMarksFit ==
  ASSUME NEW t \in Seq(Chars), NEW g \in Grammars
  PROVE  MarksFit(t, g, [dirty |-> {0}, states |-> SetAt(<<>>, -1, Seed(g)), scopes |-> <<>>])
<1> DEFINE m == [dirty |-> {0}, states |-> SetAt(<<>>, -1, Seed(g)), scopes |-> <<>>]
<1>1. /\ m.dirty = {0} /\ m.scopes = <<>> /\ DOMAIN m.scopes = {}
      /\ DOMAIN m.states = {-1} /\ m.states[-1] = Seed(g)
  BY DEF SetAt
<1> HIDE DEF m
<1>2. Seed(g) \in States
  BY DEF Seed, States
<1>3. MarksType(t, m)
  BY <1>1, <1>2 DEF MarksType
<1>4. ASSUME NEW p \in LineStarts(t), Clean(t, m.dirty, p), p = 0 \/ p \in DOMAIN m.states
      PROVE  FALSE
  <2>1. p = 0
    BY <1>1, <1>4, StartsAre
  <2>2. InLine(t, 0, 0)
    <3>1. IsLast(t, 0) \/ 0 < End(t, 0)
      BY EndIs
    <3> QED BY <3>1 DEF InLine
  <2> QED BY <1>1, <1>4, <2>1, <2>2 DEF Clean
<1>5. Chained(t, g, m)
  BY <1>1, <1>4 DEF Chained
<1> QED BY <1>3, <1>5, ParserAssumption DEF MarksFit, m

(* Replacements keep the marks fit. *)
LEMMA EditFits ==
  ASSUME NEW t \in Seq(Chars), NEW s \in Seq(Chars), NEW g, NEW m, MarksFit(t, g, m),
         NEW from \in 0..Len(t), NEW to \in from..Len(t)
  PROVE  MarksFit(Splice(t, from, to, s), g, Edited(m, from, to, Len(s)))
<1> DEFINE e == Edited(m, from, to, Len(s))
<1>1. MarksType(t, m) /\ (g # NoGrammar => Chained(t, g, m))
  BY DEF MarksFit
<1>2. /\ MarksType(Splice(t, from, to, s), e)
      /\ g # NoGrammar => Chained(Splice(t, from, to, s), g, e)
  BY <1>1, EditKeepsChain
<1>3. DOMAIN m.states = {} => DOMAIN e.states = {}
  BY DEF Edited, ReplaceLeft
<1> HIDE DEF e
<1>4. MarksFit(Splice(t, from, to, s), g, e)
  BY <1>2, <1>3 DEF MarksFit
<1> QED BY <1>4 DEF e

(* A document that has just been loaded satisfies the invariant.             *)
LEMMA InitInv == Init => IInv
<1> SUFFICES ASSUME Init PROVE IInv
  OBVIOUS
<1>1. text \in Seq(Chars) /\ Len(text) <= MaxText
  BY ParserAssumption DEF Init
<1>2. Marks = [dirty |-> {0}, states |-> SetAt(<<>>, -1, Seed(grammar)), scopes |-> <<>>]
  BY DEF Init, Marks
<1>3. MarksFit(text, grammar, Marks)
  <2>1. grammar \in Grammars
    BY DEF Init
  <2> QED BY <1>1, <1>2, <2>1, FreshMarksFit
<1>4. records = <<>> /\ Len(records) = 0 /\ records \in Seq(RecordType)
  BY DEF Init
<1> DEFINE hist == [j \in Nat |-> text]
<1>5. TextsFit(hist, records, text)
  <2>1. hist \in [Nat -> Seq(Chars)] /\ \A j \in Nat : hist[j] = text
    BY <1>1
  <2> HIDE DEF hist
  <2>2. 1 \in Nat /\ \A k \in 1..Len(records) + 1 : k \in Nat
    BY <1>4
  <2> QED BY <1>1, <1>4, <2>1, <2>2 DEF TextsFit
<1> HIDE DEF hist
<1>6. RevisionsFit(records, group, revision, nextRevision)
  BY <1>4 DEF Init, RevisionsFit
<1>7. group = "closed" /\ request = Sent(text, revision, dirty, states)
  BY DEF Init
<1>8. Marks.dirty = dirty /\ Marks.states = states
  BY DEF Marks
<1>9. /\ AtMostOne(request) /\ (grammar = NoGrammar => request = {})
      /\ RequestsFit(request, hist, records, group, revision, nextRevision, grammar, states)
  BY <1>1, <1>3, <1>4, <1>5, <1>6, <1>7, <1>8, SentFits
<1>10. grammar \in Grammars
  BY DEF Init
<1> QED BY <1>3, <1>4, <1>5, <1>6, <1>9, <1>10 DEF IInv

(* A replacement keeps it: an edit breaks the chain at lines it marks only.  *)
LEMMA ReplaceInv ==
  ASSUME IInv, NEW from \in 0..Len(text), NEW to \in 0..Len(text), NEW s \in Pieces,
         Replace(from, to, s)
  PROVE  IInv'
<1> DEFINE n == Len(records)
           u == Splice(text, from, to, s)
           r == [from |-> from, len |-> Len(s), before |-> SubSeq(text, from + 1, to),
                 opens |-> group = "closed", revision |-> revision]
<1>1. PICK hist : /\ TextsFit(hist, records, text)
                  /\ RequestsFit(request, hist, records, group, revision, nextRevision, grammar, states)
  BY DEF IInv
<1>2. text \in Seq(Chars) /\ s \in Seq(Chars) /\ records \in Seq(RecordType)
  BY <1>1, TextType, ParserAssumption DEF IInv
<1>3. from \in 0..Len(text) /\ to \in from..Len(text) /\ group \in {"closed", "open"}
      /\ Len(u) <= MaxText
  BY <1>2 DEF Replace
<1>4. /\ text' = u /\ records' = Append(records, r) /\ group' = "open"
      /\ revision' = revision /\ nextRevision' = nextRevision /\ grammar' = grammar
      /\ request' = request
  BY DEF Replace
<1>5. Marks' = Edited(Marks, from, to, Len(s)) /\ states' = ReplaceLeft(states, from, to, Len(s))
  BY DEF Replace, MarkReplaced, Edited, Marks
<1>6. MarksFit(text', grammar', Marks')
  <2>1. MarksFit(text, grammar, Marks)
    BY DEF IInv
  <2>2. MarksFit(u, grammar, Edited(Marks, from, to, Len(s)))
    BY <1>2, <1>3, <2>1, EditFits
  <2> QED BY <1>4, <1>5, <2>2
<1>7. RevisionsFit(records, group, revision, nextRevision)
  BY DEF IInv
<1>8. DOMAIN states \subseteq -1..Len(text) /\ Len(text) \in Int
  BY <1>2 DEF IInv, MarksFit, MarksType, Marks
<1> DEFINE hist2 == [hist EXCEPT ![n + 2] = u]
<1>9. /\ Append(records, r) \in Seq(RecordType)
      /\ TextsFit(hist2, Append(records, r), u)
      /\ RevisionsFit(Append(records, r), "open", revision, nextRevision)
      /\ RequestsFit(request, hist2, Append(records, r), "open", revision, nextRevision, grammar,
                     ReplaceLeft(states, from, to, Len(s)))
  <2> DEFINE t == text
             recs == records
             grp == group
             st == states
             req == request
             len == Len(text)
  <2>1. /\ recs \in Seq(RecordType) /\ t \in Seq(Chars) /\ s \in Seq(Chars)
        /\ from \in 0..Len(t) /\ to \in from..Len(t) /\ grp \in {"closed", "open"} /\ len \in Int
        /\ DOMAIN st \subseteq -1..len /\ Len(Splice(t, from, to, s)) <= MaxText
        /\ TextsFit(hist, recs, t) /\ RevisionsFit(recs, grp, revision, nextRevision)
        /\ RequestsFit(req, hist, recs, grp, revision, nextRevision, grammar, st)
    BY <1>1, <1>2, <1>3, <1>7, <1>8
  <2> HIDE DEF t, recs, grp, st, req, len
  <2>2. LET r2 == [from |-> from, len |-> Len(s), before |-> SubSeq(t, from + 1, to),
                   opens |-> grp = "closed", revision |-> revision]
            recs2 == Append(recs, r2)
            u2 == Splice(t, from, to, s)
            hist3 == [hist EXCEPT ![Len(recs) + 2] = u2]
         IN /\ r2 \in RecordType /\ recs2 \in Seq(RecordType) /\ u2 \in Seq(Chars)
            /\ TextsFit(hist3, recs2, u2) /\ RevisionsFit(recs2, "open", revision, nextRevision)
            /\ RequestsFit(req, hist3, recs2, "open", revision, nextRevision, grammar,
                           ReplaceLeft(st, from, to, Len(s)))
    BY ONLY <2>1, ReplaceFits
  <2> QED BY <2>2 DEF t, recs, grp, st, req
<1> HIDE DEF hist2, r, u
<1>10. /\ records' \in Seq(RecordType) /\ TextsFit(hist2, records', text')
       /\ RevisionsFit(records', group', revision', nextRevision')
       /\ RequestsFit(request', hist2, records', group', revision', nextRevision', grammar', states')
  BY <1>4, <1>5, <1>9
<1>11. /\ grammar' \in Grammars \cup {NoGrammar} /\ AtMostOne(request')
       /\ grammar' = NoGrammar => request' = {}
  BY <1>4 DEF IInv
<1> QED BY <1>6, <1>10, <1>11 DEF IInv

(* What the parser is sent, or was sent before, fits when a group ends.      *)
LEMMA RepairFits ==
  ASSUME NEW hist, NEW recs \in Seq(RecordType), NEW t, NEW rev, NEW next, NEW g, NEW m, NEW req,
         TextsFit(hist, recs, t), RevisionsFit(recs, "closed", rev, next), MarksFit(t, g, m),
         AtMostOne(req), g = NoGrammar => req = {},
         RequestsFit(req, hist, recs, "closed", rev, next, g, m.states)
  PROVE  LET req2 == IF req = {} THEN Sent(t, rev, m.dirty, m.states) ELSE req
         IN /\ AtMostOne(req2) /\ (g = NoGrammar => req2 = {})
            /\ RequestsFit(req2, hist, recs, "closed", rev, next, g, m.states)
<1>1. t \in Seq(Chars)
  BY TextType
<1> QED BY <1>1, SentFits

(* The end of a group keeps it: the revision it takes is a new one.          *)
LEMMA EndGroupInv ==
  ASSUME IInv, EndGroup
  PROVE  IInv'
<1>1. PICK hist : /\ TextsFit(hist, records, text)
                  /\ RequestsFit(request, hist, records, group, revision, nextRevision, grammar, states)
  BY DEF IInv
<1>2. /\ group = "open" /\ group' = "closed" /\ revision' = nextRevision
      /\ nextRevision' = nextRevision + 1 /\ text' = text /\ grammar' = grammar
      /\ records' = records /\ states' = states /\ Marks' = Marks
  BY DEF EndGroup, marks, Marks
<1>3. request' = IF request = {} THEN Sent(text', revision', dirty', states') ELSE request
  BY DEF EndGroup, InitiateRepair
<1>4. /\ records \in Seq(RecordType) /\ MarksFit(text, grammar, Marks) /\ AtMostOne(request)
      /\ grammar = NoGrammar => request = {}
      /\ RevisionsFit(records, "open", revision, nextRevision)
  BY <1>2 DEF IInv
<1>5. /\ RevisionsFit(records, "closed", nextRevision, nextRevision + 1)
      /\ RequestsFit(request, hist, records, "closed", nextRevision, nextRevision + 1, grammar, states)
  BY <1>1, <1>2, <1>4, EndGroupFits
<1>6. Marks.states = states /\ Marks.dirty = dirty /\ dirty' = dirty
  BY DEF Marks, EndGroup, marks
<1>7. request' = IF request = {} THEN Sent(text, nextRevision, Marks.dirty, Marks.states) ELSE request
  BY <1>2, <1>3, <1>6
<1>8. /\ AtMostOne(request') /\ (grammar = NoGrammar => request' = {})
      /\ RequestsFit(request', hist, records, "closed", nextRevision, nextRevision + 1, grammar,
                     Marks.states)
  BY <1>1, <1>4, <1>5, <1>6, <1>7, RepairFits
<1>9. /\ MarksFit(text', grammar', Marks') /\ records' \in Seq(RecordType)
      /\ AtMostOne(request') /\ (grammar' = NoGrammar => request' = {})
      /\ RevisionsFit(records', group', revision', nextRevision')
      /\ TextsFit(hist, records', text')
      /\ RequestsFit(request', hist, records', group', revision', nextRevision', grammar', states')
      /\ grammar' \in Grammars \cup {NoGrammar}
  BY <1>1, <1>2, <1>4, <1>5, <1>6, <1>8 DEF IInv
<1> QED BY <1>9 DEF IInv

(* A step of undo keeps it: it goes back to the text before in the history,  *)
(* and a line sent there has the state the marks have for it, where it is    *)
(* now.                                                                      *)
LEMMA UndoInv ==
  ASSUME IInv, Undo
  PROVE  IInv'
<1> DEFINE n == Len(records)
           r == records[n]
           u == Splice(text, r.from, r.from + r.len, r.before)
           recs2 == SubSeq(records, 1, n - 1)
           grp2 == IF r.opens THEN "closed" ELSE "undoing"
           rev2 == IF r.opens THEN r.revision ELSE revision
           st2 == ReplaceLeft(states, r.from, r.from + r.len, Len(r.before))
           m2 == Edited(Marks, r.from, r.from + r.len, Len(r.before))
<1>1. PICK hist : /\ TextsFit(hist, records, text)
                  /\ RequestsFit(request, hist, records, group, revision, nextRevision, grammar, states)
  BY DEF IInv
<1>2. /\ records \in Seq(RecordType) /\ MarksFit(text, grammar, Marks) /\ AtMostOne(request)
      /\ grammar = NoGrammar => request = {}
      /\ RevisionsFit(records, group, revision, nextRevision)
      /\ text \in Seq(Chars) /\ Len(text) \in Int
  BY <1>1, TextType DEF IInv
<1>3. n > 0
  <2> SUFFICES ASSUME n = 0 PROVE FALSE
    BY <1>2
  <2> QED BY <1>2 DEF Undo
<1>4. DOMAIN states \subseteq -1..Len(text)
  BY <1>2 DEF MarksFit, MarksType, Marks
<1>5. /\ r \in RecordType /\ r.from + r.len <= Len(text) /\ u \in Seq(Chars)
      /\ recs2 \in Seq(RecordType)
      /\ TextsFit(hist, recs2, u) /\ RevisionsFit(recs2, grp2, rev2, nextRevision)
      /\ RequestsFit(request, hist, recs2, grp2, rev2, nextRevision, grammar, st2)
  BY <1>1, <1>2, <1>3, <1>4, UndoFits
<1>6. /\ records' = recs2 /\ text' = u /\ nextRevision' = nextRevision /\ grammar' = grammar
      /\ MarkReplaced(r.from, r.from + r.len, Len(r.before))
      /\ r.opens => group' = "closed" /\ revision' = r.revision /\ InitiateRepair
      /\ ~r.opens => group' = "undoing" /\ revision' = revision /\ request' = request
  BY DEF Undo
<1>7. Marks' = m2 /\ states' = st2 /\ Marks'.states = states' /\ Marks'.dirty = dirty'
  BY <1>6 DEF MarkReplaced, Edited, Marks
<1>8. group' = grp2 /\ revision' = rev2
  BY <1>6
<1> HIDE DEF u, recs2, st2
<1>9. MarksFit(text', grammar', Marks')
  <2>1. /\ r.from \in Nat /\ r.len \in Nat /\ r.before \in Seq(Chars)
    BY <1>5 DEF RecordType
  <2> DEFINE from == r.from
             to == r.from + r.len
             s == r.before
  <2>2. from \in 0..Len(text) /\ to \in from..Len(text) /\ s \in Seq(Chars)
    BY <1>2, <1>5, <2>1
  <2>3. m2 = Edited(Marks, from, to, Len(s)) /\ u = Splice(text, from, to, s)
    BY DEF u
  <2> HIDE DEF r, from, to, s, m2
  <2>4. MarksFit(u, grammar, m2)
    BY <1>2, <2>2, <2>3, EditFits
  <2> QED BY <1>6, <1>7, <2>4
<1> HIDE DEF r, grp2, rev2, m2
<1>10. /\ TextsFit(hist, records', text') /\ RevisionsFit(records', group', revision', nextRevision')
       /\ RequestsFit(request, hist, records', group', revision', nextRevision', grammar', states')
       /\ records' \in Seq(RecordType)
  BY <1>5, <1>6, <1>7, <1>8
<1>11. /\ AtMostOne(request') /\ (grammar' = NoGrammar => request' = {})
       /\ RequestsFit(request', hist, records', group', revision', nextRevision', grammar', states')
  <2>1. CASE ~(r.opens)
    BY <1>2, <1>6, <1>10, <2>1
  <2>2. CASE r.opens
    <3> DEFINE t2 == text'
               m3 == Marks'
               rec3 == records'
               rev3 == revision'
               next3 == nextRevision'
               g3 == grammar'
               req3 == request'
    <3>1. req3 = IF request = {} THEN Sent(t2, rev3, m3.dirty, m3.states) ELSE request
      BY <1>6, <1>7, <2>2 DEF InitiateRepair
    <3>2. /\ TextsFit(hist, rec3, t2) /\ RevisionsFit(rec3, "closed", rev3, next3)
          /\ MarksFit(t2, g3, m3) /\ AtMostOne(request) /\ (g3 = NoGrammar => request = {})
          /\ RequestsFit(request, hist, rec3, "closed", rev3, next3, g3, m3.states)
          /\ rec3 \in Seq(RecordType)
      BY <1>2, <1>6, <1>7, <1>9, <1>10, <2>2
    <3>3. group' = "closed" /\ m3.states = states'
      BY <1>6, <1>7, <2>2
    <3> HIDE DEF t2, m3, rec3, rev3, next3, g3, req3
    <3>4. /\ AtMostOne(req3) /\ (g3 = NoGrammar => req3 = {})
          /\ RequestsFit(req3, hist, rec3, "closed", rev3, next3, g3, m3.states)
      BY <3>1, <3>2, RepairFits
    <3> QED BY <3>3, <3>4 DEF rec3, rev3, next3, g3, req3
  <2> QED BY <2>1, <2>2
<1>12. grammar' \in Grammars \cup {NoGrammar}
  BY <1>6 DEF IInv
<1> QED BY <1>9, <1>10, <1>11, <1>12 DEF IInv

(* Marks that are assigned fit as they did before they were.                 *)
LEMMA MarksBecomeFit ==
  ASSUME NEW t, NEW g, NEW m, MarksFit(t, g, m), MarksBecome(m)
  PROVE  MarksFit(t, g, Marks') /\ Marks'.dirty = dirty' /\ Marks'.states = states'
<1>1. Marks'.dirty = m.dirty /\ Marks'.states = m.states /\ Marks'.scopes = m.scopes
      /\ Marks'.dirty = dirty' /\ Marks'.states = states'
  BY DEF MarksBecome, Marks
<1> DEFINE m2 == Marks'
<1>2. m2.dirty = m.dirty /\ m2.states = m.states /\ m2.scopes = m.scopes
  BY <1>1
<1> HIDE DEF m2
<1>3. MarksType(t, m2)
  BY <1>2 DEF MarksFit, MarksType
<1>4. \A p : LineParsed(t, g, m, p) <=> LineParsed(t, g, m2, p)
  BY <1>2 DEF LineParsed, StartState
<1>5. g # NoGrammar => Chained(t, g, m2)
  BY <1>2, <1>4 DEF MarksFit, Chained
<1>6. MarksFit(t, g, m2)
  BY <1>2, <1>3, <1>5 DEF MarksFit
<1> QED BY <1>1, <1>6 DEF m2

(* A reply that is used is about a line of the text, and its state is the    *)
(* one the text before it leads to, and the one the marks have.              *)
LEMMA UsedReply ==
  ASSUME IInv, group = "closed", NEW r \in request, r.revision = revision
  PROVE  /\ text \in Seq(Chars) /\ grammar # NoGrammar
         /\ r.line.from \in LineStarts(text) /\ r.line.to = End(text, r.line.from)
         /\ r.line.line = Line(text, r.line.from)
         /\ r.line.state = StateIn(text, grammar, r.line.from)
         /\ IsLine(text, grammar, Marks, r.line)
<1> DEFINE n == Len(records)
           l == r.line
<1>1. PICK hist : /\ TextsFit(hist, records, text)
                  /\ RequestsFit(request, hist, records, group, revision, nextRevision, grammar, states)
  BY DEF IInv
<1>2. text \in Seq(Chars) /\ n \in Nat /\ hist[n + 1] = text /\ n + 1 \in 1..n + 1
  <2>1. records \in Seq(RecordType)
    BY DEF IInv
  <2>2. n \in Nat
    BY <2>1
  <2>3. text \in Seq(Chars)
    BY ONLY <1>1, <2>1, TextType
  <2>4. hist[n + 1] = text
    BY <1>1 DEF TextsFit
  <2> HIDE DEF n
  <2> QED BY <2>2, <2>3, <2>4
<1>3. IsStage(records, group, n + 1) /\ RevisionAt(records, revision, n + 1) = r.revision
  BY DEF IsStage, RevisionAt
<1>4. SentAt(l, n + 1, hist, records, grammar, states)
  <2> HIDE DEF l
  <2>1. \A k \in 1..n + 1 :
          IsStage(records, group, k) /\ RevisionAt(records, revision, k) = r.revision
            => SentAt(l, k, hist, records, grammar, states)
    BY <1>1 DEF RequestsFit, l
  <2> HIDE DEF n
  <2> QED BY <1>2, <1>3, <2>1
<1>5. /\ l.from \in LineStarts(text) /\ l.to = End(text, l.from)
      /\ l.line = Line(text, l.from) /\ l.state = StateIn(text, grammar, l.from)
  BY <1>2, <1>4 DEF SentAt
<1>6. l.from # 0 /\ l.from \in DOMAIN states => states[l.from] = l.state
  <2>1. PICK q : Traced(q, records, n + 1, states, l)
    BY <1>4 DEF SentAt
  <2> QED BY <2>1 DEF Traced
<1>7. grammar \in Grammars /\ grammar # NoGrammar
  BY ParserAssumption DEF IInv
<1>8. l.state \in States
  BY <1>5, <1>7 DEF StateIn, States, Odd
<1>9. l.from = 0 => l.state = Seed(grammar)
  BY <1>2, <1>5, StateInStart
<1>10. IsLine(text, grammar, Marks, l)
  BY <1>5, <1>6, <1>8, <1>9 DEF IsLine, Marks
<1> QED BY <1>2, <1>5, <1>7, <1>10

(* A reply keeps it, whether it is used or not.                              *)
LEMMA ReplyInv ==
  ASSUME IInv, Allow = {}, Reply
  PROVE  IInv'
<1>1. PICK hist : /\ TextsFit(hist, records, text)
                  /\ RequestsFit(request, hist, records, group, revision, nextRevision, grammar, states)
  BY DEF IInv
<1>2. /\ group = "closed" /\ text' = text /\ revision' = revision /\ nextRevision' = nextRevision
      /\ grammar' = grammar /\ group' = group /\ records' = records
      /\ request' = Sent(text, revision, dirty', states')
  BY DEF Reply
<1>3. /\ records \in Seq(RecordType) /\ MarksFit(text, grammar, Marks)
      /\ RevisionsFit(records, group, revision, nextRevision)
      /\ grammar \in Grammars \cup {NoGrammar} /\ text \in Seq(Chars)
  BY <1>1, TextType DEF IInv
<1>4. PICK r \in request : IF r.revision = revision THEN MarksBecome(Updated(text, Marks, r.line))
                                                    ELSE UNCHANGED marks
  BY DEF Reply
<1>5. MarksFit(text, grammar, Marks') /\ Marks'.dirty = dirty' /\ Marks'.states = states'
  <2>1. CASE r.revision = revision
    <3> DEFINE m == Updated(text, Marks, r.line)
    <3>1. IsLine(text, grammar, Marks, r.line) /\ grammar # NoGrammar
      BY <1>2, <2>1, UsedReply
    <3>2. MarksType(text, Marks) /\ Chained(text, grammar, Marks)
      BY <1>3, <3>1 DEF MarksFit
    <3>3. MarksFit(text, grammar, m)
      BY <1>3, <3>1, <3>2, UpdateKeepsChain DEF MarksFit
    <3>4. MarksBecome(m)
      BY <1>4, <2>1
    <3> HIDE DEF m
    <3> QED BY <3>3, <3>4, MarksBecomeFit
  <2>2. CASE r.revision # revision
    <3>1. Marks' = Marks /\ Marks'.dirty = dirty' /\ Marks'.states = states'
      BY <1>4, <2>2 DEF marks, Marks
    <3> QED BY <1>3, <3>1
  <2> QED BY <2>1, <2>2
<1> DEFINE m2 == Marks'
<1>6. request' = Sent(text, revision, m2.dirty, m2.states) /\ MarksFit(text, grammar, m2)
      /\ m2.states = states'
  BY <1>2, <1>5
<1> HIDE DEF m2
<1>7. /\ AtMostOne(request') /\ (grammar = NoGrammar => request' = {})
      /\ RequestsFit(request', hist, records, "closed", revision, nextRevision, grammar, states')
  <2>1. /\ TextsFit(hist, records, text) /\ records \in Seq(RecordType)
        /\ text \in Seq(Chars) /\ RevisionsFit(records, "closed", revision, nextRevision)
        /\ MarksFit(text, grammar, m2) /\ grammar \in Grammars \cup {NoGrammar}
    BY <1>1, <1>2, <1>3, <1>6
  <2>2. /\ AtMostOne(Sent(text, revision, m2.dirty, m2.states))
        /\ grammar = NoGrammar => Sent(text, revision, m2.dirty, m2.states) = {}
        /\ RequestsFit(Sent(text, revision, m2.dirty, m2.states), hist, records, "closed",
                       revision, nextRevision, grammar, m2.states)
    BY ONLY <2>1, SentFits
  <2> QED BY <1>6, <2>2
<1>8. /\ MarksFit(text', grammar', Marks') /\ records' \in Seq(RecordType)
      /\ AtMostOne(request') /\ (grammar' = NoGrammar => request' = {})
      /\ RevisionsFit(records', group', revision', nextRevision')
      /\ TextsFit(hist, records', text')
      /\ RequestsFit(request', hist, records', group', revision', nextRevision', grammar', states')
      /\ grammar' \in Grammars \cup {NoGrammar}
  BY <1>1, <1>2, <1>3, <1>5, <1>7
<1> QED BY <1>8 DEF IInv

(* So does parsing all that is dirty at once.                                *)
LEMMA WaitForRepairInv ==
  ASSUME IInv, WaitForRepair
  PROVE  IInv'
<1>1. PICK hist : TextsFit(hist, records, text)
  BY DEF IInv
<1>2. /\ grammar # NoGrammar /\ MarksBecome(Repaired) /\ request' = {}
      /\ text' = text /\ revision' = revision /\ nextRevision' = nextRevision
      /\ grammar' = grammar /\ group' = group /\ records' = records
  BY DEF WaitForRepair
<1>3. /\ records \in Seq(RecordType) /\ MarksFit(text, grammar, Marks)
      /\ RevisionsFit(records, group, revision, nextRevision)
      /\ grammar \in Grammars \cup {NoGrammar} /\ text \in Seq(Chars)
  BY <1>1, TextType DEF IInv
<1>4. MarksFit(text, grammar, Repaired)
  BY <1>2, <1>3, RepairKeepsChain DEF MarksFit
<1>5. MarksFit(text, grammar, Marks')
  BY <1>2, <1>4, MarksBecomeFit
<1>6. AtMostOne(request')
      /\ RequestsFit(request', hist, records', group', revision', nextRevision', grammar', states')
  BY <1>2 DEF AtMostOne, RequestsFit
<1>7. /\ MarksFit(text', grammar', Marks') /\ records' \in Seq(RecordType)
      /\ AtMostOne(request') /\ (grammar' = NoGrammar => request' = {})
      /\ RevisionsFit(records', group', revision', nextRevision')
      /\ TextsFit(hist, records', text')
      /\ grammar' \in Grammars \cup {NoGrammar}
  BY <1>1, <1>2, <1>3, <1>5, <1>6
<1> QED BY <1>6, <1>7 DEF IInv

(* So does a change of the grammar, when nothing is at the worker.           *)
LEMMA SetGrammarInv ==
  ASSUME IInv, Allow = {}, NEW g \in Grammars \cup {NoGrammar}, SetGrammar(g)
  PROVE  IInv'
<1>1. PICK hist : TextsFit(hist, records, text)
  BY DEF IInv
<1>2. /\ request = {} /\ group # "open" /\ group # "undoing" /\ grammar' = g
      /\ text' = text /\ revision' = revision /\ nextRevision' = nextRevision
      /\ group' = group /\ records' = records
  BY DEF SetGrammar
<1>3. /\ records \in Seq(RecordType) /\ RevisionsFit(records, group, revision, nextRevision)
      /\ text \in Seq(Chars)
  BY <1>1, TextType DEF IInv
<1>4. group = "closed"
  BY <1>2, <1>3 DEF RevisionsFit
<1>5. /\ MarksFit(text, g, Marks') /\ AtMostOne(request') /\ (g = NoGrammar => request' = {})
      /\ RequestsFit(request', hist, records, group, revision, nextRevision, g, states')
  <2>1. CASE g = NoGrammar
    <3>1. request' = {} /\ dirty' = {} /\ states' = <<>> /\ scopes' = <<>>
      BY <1>2, <2>1 DEF SetGrammar
    <3> DEFINE m == Marks'
    <3>2. m.dirty = {} /\ DOMAIN m.states = {} /\ DOMAIN m.scopes = {}
      BY <3>1 DEF Marks
    <3> HIDE DEF m
    <3>3. MarksFit(text, g, m)
      BY <2>1, <3>2 DEF MarksFit, MarksType
    <3> QED BY <3>1, <3>3 DEF AtMostOne, RequestsFit, m
  <2>2. CASE g # NoGrammar
    <3>1. /\ dirty' = {0} /\ states' = SetAt(<<>>, -1, Seed(g)) /\ scopes' = <<>>
          /\ request' = Sent(text', revision', dirty', states')
      BY <1>2, <2>2 DEF SetGrammar, InitiateRepair
    <3> DEFINE m == Marks'
    <3>2. /\ m = [dirty |-> {0}, states |-> SetAt(<<>>, -1, Seed(g)), scopes |-> <<>>]
          /\ m.dirty = dirty' /\ m.states = states'
      BY <3>1 DEF Marks
    <3>3. request' = Sent(text, revision, m.dirty, m.states)
      BY <1>2, <3>1, <3>2
    <3> HIDE DEF m
    <3>4. MarksFit(text, g, m)
      BY <1>3, <2>2, <3>2, FreshMarksFit
    <3>5. /\ AtMostOne(request') /\ (g = NoGrammar => request' = {})
          /\ RequestsFit(request', hist, records, "closed", revision, nextRevision, g, m.states)
      BY <1>1, <1>3, <1>4, <3>3, <3>4, SentFits
    <3> QED BY <1>4, <3>2, <3>4, <3>5 DEF m
  <2> QED BY <2>1, <2>2
<1>6. /\ MarksFit(text', grammar', Marks') /\ records' \in Seq(RecordType)
      /\ AtMostOne(request') /\ (grammar' = NoGrammar => request' = {})
      /\ RevisionsFit(records', group', revision', nextRevision')
      /\ TextsFit(hist, records', text')
      /\ RequestsFit(request', hist, records', group', revision', nextRevision', grammar', states')
      /\ grammar' \in Grammars \cup {NoGrammar}
  BY <1>1, <1>2, <1>3, <1>5
<1> QED BY <1>6 DEF IInv

-----------------------------------------------------------------------------
(* Every step keeps the invariant.                                           *)
LEMMA Invariance ==
  ASSUME Allow = {}
  PROVE  IInv /\ [Next]_vars => IInv'
<1> SUFFICES ASSUME IInv, [Next]_vars PROVE IInv'
  OBVIOUS
<1>1. ASSUME NEW from \in 0..Len(text), NEW to \in 0..Len(text), NEW s \in Pieces,
             Replace(from, to, s)
      PROVE  IInv'
  BY <1>1, ReplaceInv
<1>2. CASE EndGroup
  BY <1>2, EndGroupInv
<1>3. CASE Undo
  BY <1>3, UndoInv
<1>4. CASE Reply
  BY <1>4, ReplyInv
<1>5. CASE WaitForRepair
  BY <1>5, WaitForRepairInv
<1>6. ASSUME NEW g \in Grammars \cup {NoGrammar}, SetGrammar(g) PROVE IInv'
  BY <1>6, SetGrammarInv
<1>7. CASE UNCHANGED vars
  <2>1. PICK hist : /\ TextsFit(hist, records, text)
                    /\ RequestsFit(request, hist, records, group, revision, nextRevision, grammar, states)
    BY DEF IInv
  <2>2. /\ text' = text /\ revision' = revision /\ nextRevision' = nextRevision /\ grammar' = grammar
        /\ Marks' = Marks /\ request' = request /\ group' = group /\ records' = records
        /\ states' = states
    BY <1>7 DEF vars, Marks
  <2>3. /\ TextsFit(hist, records', text')
        /\ RequestsFit(request', hist, records', group', revision', nextRevision', grammar', states')
    BY <2>1, <2>2
  <2>4. /\ grammar' \in Grammars \cup {NoGrammar} /\ records' \in Seq(RecordType)
        /\ MarksFit(text', grammar', Marks') /\ AtMostOne(request')
        /\ grammar' = NoGrammar => request' = {}
        /\ RevisionsFit(records', group', revision', nextRevision')
    BY <2>2 DEF IInv
  <2> QED BY <2>3, <2>4 DEF IInv
<1> QED BY <1>1, <1>2, <1>3, <1>4, <1>5, <1>6, <1>7 DEF Next

(* The invariant has the types of the state.                                 *)
LEMMA InvTypes == IInv => TypeOK
<1> SUFFICES ASSUME IInv PROVE TypeOK
  OBVIOUS
<1>1. PICK hist : TextsFit(hist, records, text)
  BY DEF IInv
<1>2. text \in Seq(Chars) /\ Len(text) <= MaxText
  BY <1>1, TextType DEF IInv
<1>3. Cardinality(request) <= 1
  <2>1. CASE request = {}
    BY <2>1, FS_EmptySet
  <2>2. CASE request # {}
    <3>1. PICK r : request = {r}
      BY <2>2 DEF IInv, AtMostOne
    <3> QED BY <3>1, FS_Singleton
  <2> QED BY <2>1, <2>2
<1>4. revision < nextRevision
  BY DEF IInv, RevisionsFit
<1>5. MarksType(text, Marks)
  BY DEF IInv, MarksFit
<1> QED BY <1>2, <1>3, <1>4, <1>5 DEF TypeOK, MarksType, Marks, IInv

(* In it a reply that is used is current.                                    *)
LEMMA InvReplies == IInv => UsedRepliesAreCurrent
<1> SUFFICES ASSUME IInv, group = "closed", NEW r \in request, r.revision = revision
             PROVE  /\ r.line.from \in LineStarts(text)
                    /\ r.line.to = End(text, r.line.from) /\ r.line.line = Line(text, r.line.from)
                    /\ r.line.state = StateBefore(r.line.from)
  BY DEF UsedRepliesAreCurrent
<1> QED BY UsedReply DEF StateBefore, StateIn

(* And the lines before the first dirty one are parsed.                      *)
LEMMA InvPrefix == IInv => PrefixIsParsed
<1> SUFFICES ASSUME IInv, grammar # NoGrammar PROVE
        /\ \A p \in LineStarts(text) :
             (\A d \in dirty : p < Begin(text, d)) => IsParsed(p)
        /\ dirty # {} => FirstDirty(text, dirty, states) # {}
  BY DEF PrefixIsParsed
<1>1. PICK hist : TextsFit(hist, records, text)
  BY DEF IInv
<1>2. /\ text \in Seq(Chars) /\ MarksType(text, Marks) /\ Chained(text, grammar, Marks)
      /\ Marks.dirty = dirty /\ Marks.states = states /\ Marks.scopes = scopes
  BY <1>1, TextType DEF IInv, MarksFit, Marks
<1>3. dirty # {} => FirstDirty(text, dirty, states) # {}
  <2>1. \/ Marks.dirty = {}
        \/ \E l : FirstDirty(text, Marks.dirty, Marks.states) = {l}
    BY <1>2, FirstDirtyIs
  <2> QED BY <1>2, <2>1
<1>4. ASSUME NEW p \in LineStarts(text), \A d \in dirty : p < Begin(text, d)
      PROVE  IsParsed(p)
  <2>1. \A d \in Marks.dirty : p < Begin(text, d)
    BY <1>2, <1>4
  <2>2. /\ StateKnown(text, grammar, Marks, p) /\ LineParsed(text, grammar, Marks, p)
        /\ StartState(grammar, Marks, p) = StateIn(text, grammar, p)
    BY <1>2, <2>1, LinesParsedBefore
  <2>3. StateIn(text, grammar, p) = StateBefore(p)
    BY DEF StateIn, StateBefore
  <2>4. p = 0 \/ (p \in DOMAIN states /\ states[p] = StateBefore(p))
    BY <1>2, <2>2, <2>3 DEF StateKnown
  <2>5. scopes[p] = <<StateBefore(p), Line(text, p)>> /\ p \in DOMAIN scopes
    BY <1>2, <2>2, <2>3 DEF LineParsed
  <2>6. {k \in DOMAIN scopes : p <= k /\ (k < End(text, p) \/ IsLast(text, p))} = {p}
    <3>1. \A k \in DOMAIN scopes : p <= k /\ (k < End(text, p) \/ IsLast(text, p)) => k = p
      BY <1>2, <2>2 DEF LineParsed, InLine
    <3>2. p <= p /\ (p < End(text, p) \/ IsLast(text, p))
      <4>1. p \in Nat
        BY <1>2, StartsAre
      <4> QED BY <1>2, <4>1, EndIs
    <3> QED BY <2>5, <3>1, <3>2
  <2> QED BY <2>4, <2>5, <2>6 DEF IsParsed
<1> QED BY <1>3, <1>4

(* Whatever is edited, undone and parsed in which order, if replies do not   *)
(* come while a command of a macro runs, and the grammar changes only when   *)
(* nothing is parsed, the state has its types.                               *)
THEOREM ParserTypes ==
  ASSUME Allow = {}
  PROVE  Spec => []TypeOK
<1>1. Init => IInv
  BY InitInv
<1>2. IInv /\ [Next]_vars => IInv'
  BY Invariance
<1>3. IInv => TypeOK
  BY InvTypes
<1> QED BY <1>1, <1>2, <1>3, PTL DEF Spec

(* Then a reply that is used, because the buffer has the revision it was     *)
(* sent with (parsing.cc:59), is about a line that is in the text, and       *)
(* follows from the text before it, although undo puts old revisions back.   *)
THEOREM RepliesAreCurrent ==
  ASSUME Allow = {}
  PROVE  Spec => []UsedRepliesAreCurrent
<1>1. Init => IInv
  BY InitInv
<1>2. IInv /\ [Next]_vars => IInv'
  BY Invariance
<1>3. IInv => UsedRepliesAreCurrent
  BY InvReplies
<1> QED BY <1>1, <1>2, <1>3, PTL DEF Spec

(* And all lines before the first dirty one have the scopes of their text,   *)
(* parsed from all the text before them, so that when nothing is dirty the   *)
(* whole text is parsed as it would be from its start; and the first dirty   *)
(* line has a state to be parsed from (parsing.cc:77).                       *)
THEOREM PrefixParsed ==
  ASSUME Allow = {}
  PROVE  Spec => []PrefixIsParsed
<1>1. Init => IInv
  BY InitInv
<1>2. IInv /\ [Next]_vars => IInv'
  BY Invariance
<1>3. IInv => PrefixIsParsed
  BY InvPrefix
<1> QED BY <1>1, <1>2, <1>3, PTL DEF Spec
=============================================================================
