------------------------ MODULE DocumentWindowProofs ------------------------
(***************************************************************************)
(* Theorems about DocumentWindow, for all finite sets of documents, windows *)
(* and jobs, and any bound of edits and requests.                           *)
(*                                                                          *)
(* A document goes when its count is 0, so that an invariant has to balance *)
(* that count with every tab, view, waiting load and save (Hold): a handler *)
(* may then close what it opened, and nothing that is used goes with it.    *)
(* That is not enough for what the user agreed to: while a sheet or a chain *)
(* of saves is waiting, every edited document of the tabs it will close is  *)
(* still to be saved or asked about, unless the window has changed (Asked). *)
(* IInv is all of it.                                                       *)
(*                                                                          *)
(* Each operator is shown to keep the balance and, of a document that is    *)
(* edited and in a tab, the text and a tab (Hold, Rel, Safe); each action   *)
(* then has a Result from which the invariant and the properties follow.    *)
(***************************************************************************)
EXTENDS DocumentWindow, SequenceTheorems, FiniteSetTheorems, WellFoundedInduction, TLAPS

-----------------------------------------------------------------------------
(* Induction and recursive functions. *)

(* A set of naturals that is not empty has a least element. *)
LEMMA NatMin ==
  ASSUME NEW T, T \subseteq Nat, T # {}
  PROVE  \E x \in T : \A y \in T : x <= y
<1>1. \E x \in T : \A y \in T : ~(<<y, x>> \in OpToRel(<, Nat))
  BY WFMin, NatLessThanWellFounded
<1>2. \E x \in T : \A y \in T : ~(y < x)
  BY <1>1 DEF OpToRel
<1> QED BY <1>2

(* What holds at 0, and at n if it does at n - 1, holds up to any bound.     *)
LEMMA UpTo ==
  ASSUME NEW N \in Nat, NEW P, 0 \in P, \A n \in 1..N : n - 1 \in P => n \in P
  PROVE  \A n \in 0..N : n \in P
<1> DEFINE Bad == {n \in 0..N : n \notin P}
<1> SUFFICES ASSUME Bad # {} PROVE FALSE
  OBVIOUS
<1>1. PICK b \in Bad : \A k \in Bad : b <= k
  <2>1. Bad \subseteq Nat
    OBVIOUS
  <2> HIDE DEF Bad
  <2> QED BY <2>1, NatMin
<1>2. b \in 0..N /\ b # 0 /\ b \notin P
  OBVIOUS
<1>3. b \in 1..N /\ b - 1 \in 0..N /\ b - 1 < b
  BY <1>2
<1>4. b - 1 \in P
  BY <1>1, <1>3
<1> QED BY <1>2, <1>3, <1>4

(* f starts with base, and step leads from each value to the next.           *)
Steps(N, base, step, f) ==
  f = [n \in 0..N |-> IF n = 0 THEN base ELSE step[n][f[n - 1]]]

(* There is such a function.                                                 *)
LEMMA Recursion ==
  ASSUME NEW N \in Nat, NEW base, NEW step, NEW D,
         base \in D[0], \A n \in 1..N : \A x \in D[n - 1] : step[n][x] \in D[n]
  PROVE  \E f : Steps(N, base, step, f) /\ \A n \in 0..N : f[n] \in D[n]
<1> DEFINE Part(f, k) == /\ f = [n \in 0..k |-> IF n = 0 THEN base ELSE step[n][f[n - 1]]]
                         /\ \A n \in 0..k : f[n] \in D[n]
           P == {k \in 0..N : \E f : Part(f, k)}
<1>1. 0 \in P
  <2> DEFINE f == [n \in 0..0 |-> base]
  <2>1. f = [n \in 0..0 |-> IF n = 0 THEN base ELSE step[n][f[n - 1]]]
    OBVIOUS
  <2>2. \A n \in 0..0 : f[n] \in D[n]
    OBVIOUS
  <2> HIDE DEF f
  <2>3. Part(f, 0)
    BY <2>1, <2>2
  <2> QED BY <2>3
<1>2. ASSUME NEW k \in 1..N, k - 1 \in P PROVE k \in P
  <2>1. PICK f : Part(f, k - 1)
    BY <1>2
  <2>2. k - 1 \in 0..k - 1 /\ k \in 0..N /\ k # 0
    OBVIOUS
  <2>3. /\ \A n \in 0..k - 1 : f[n] = IF n = 0 THEN base ELSE step[n][f[n - 1]]
        /\ \A n \in 0..k - 1 : f[n] \in D[n]
    BY <2>1
  <2> DEFINE h == [n \in 0..k |-> IF n = k THEN step[k][f[k - 1]] ELSE f[n]]
  <2>4. \A n \in 0..k - 1 : h[n] = f[n]
    OBVIOUS
  <2>5. h[k] = step[k][f[k - 1]]
    BY <2>2
  <2>6. h = [n \in 0..k |-> h[n]]
    OBVIOUS
  <2> HIDE DEF h, P
  <2>7. \A n \in 0..k : h[n] = IF n = 0 THEN base ELSE step[n][h[n - 1]]
    <3> SUFFICES ASSUME NEW n \in 0..k PROVE h[n] = IF n = 0 THEN base ELSE step[n][h[n - 1]]
      OBVIOUS
    <3>1. CASE n = k
      BY <2>2, <2>4, <2>5, <3>1
    <3>2. CASE n # k
      <4>1. n \in 0..k - 1 /\ (n # 0 => n - 1 \in 0..k - 1)
        BY <3>2
      <4> QED BY <2>3, <2>4, <4>1
    <3> QED BY <3>1, <3>2
  <2>8. \A n \in 0..k : h[n] \in D[n]
    <3> SUFFICES ASSUME NEW n \in 0..k PROVE h[n] \in D[n]
      OBVIOUS
    <3>1. CASE n = k
      <4>1. f[k - 1] \in D[k - 1]
        BY <2>2, <2>3
      <4> QED BY <2>5, <3>1, <4>1
    <3>2. CASE n # k
      <4>1. n \in 0..k - 1
        BY <3>2
      <4> QED BY <2>3, <2>4, <4>1
    <3> QED BY <3>1, <3>2
  <2>9. h = [n \in 0..k |-> IF n = 0 THEN base ELSE step[n][h[n - 1]]]
    BY <2>6, <2>7
  <2>10. Part(h, k)
    BY <2>8, <2>9
  <2> QED BY <2>2, <2>10 DEF P
<1>3. N \in P
  <2> HIDE DEF P
  <2> QED BY <1>1, <1>2, UpTo
<1> QED BY <1>3 DEF Steps

-----------------------------------------------------------------------------
(* Sets and sequences. *)

(* Sets that differ in one element at most. *)
LEMMA OneDiffers ==
  ASSUME NEW S, NEW T, NEW e, IsFiniteSet(S), IsFiniteSet(T), S \ {e} = T \ {e}
  PROVE  Cardinality(S) + (IF e \in T THEN 1 ELSE 0) = Cardinality(T) + (IF e \in S THEN 1 ELSE 0)
<1>1. /\ Cardinality(S \ {e}) = IF e \in S THEN Cardinality(S) - 1 ELSE Cardinality(S)
      /\ Cardinality(T \ {e}) = IF e \in T THEN Cardinality(T) - 1 ELSE Cardinality(T)
      /\ Cardinality(S) \in Nat /\ Cardinality(T) \in Nat
  BY FS_RemoveElement, FS_CardinalityType
<1>2. Cardinality(S \ {e}) = Cardinality(T \ {e})
  OBVIOUS
<1>3. (IF e \in S THEN Cardinality(S) - 1 ELSE Cardinality(S))
        = (IF e \in T THEN Cardinality(T) - 1 ELSE Cardinality(T))
  BY <1>1, <1>2
<1> QED BY <1>1, <1>3

(* The places of an element in a sequence. *)
LEMMA PlacesFinite ==
  ASSUME NEW S, NEW seq \in Seq(S), NEW d
  PROVE  /\ IsFiniteSet({i \in DOMAIN seq : seq[i] = d}) /\ Times(seq, d) \in Nat
         /\ Times(seq, d) > 0 <=> \E i \in 1..Len(seq) : seq[i] = d
<1> DEFINE P == {i \in DOMAIN seq : seq[i] = d}
<1>1. DOMAIN seq = 1..Len(seq) /\ Len(seq) \in Nat
  OBVIOUS
<1>2. IsFiniteSet(1..Len(seq))
  BY <1>1, FS_Interval
<1>3. IsFiniteSet(P)
  <2>1. P \in SUBSET (1..Len(seq))
    BY <1>1
  <2> HIDE DEF P
  <2> QED BY <1>2, <2>1, FS_Subset
<1>4. P # {} <=> \E i \in 1..Len(seq) : seq[i] = d
  BY <1>1
<1>5. Times(seq, d) = Cardinality(P)
  BY DEF Times
<1> HIDE DEF P
<1>6. Cardinality(P) \in Nat /\ (Cardinality(P) = 0 <=> P = {})
  BY <1>3, FS_CardinalityType, FS_EmptySet
<1> QED BY <1>3, <1>4, <1>5, <1>6 DEF P

(* None in an empty sequence, and one or none in a sequence of one.          *)
LEMMA TimesFew ==
  /\ \A d : Times(<<>>, d) = 0
  /\ \A e, d : Times(<<e>>, d) = IF d = e THEN 1 ELSE 0
<1>1. ASSUME NEW d PROVE Times(<<>>, d) = 0
  <2>1. {i \in DOMAIN <<>> : <<>>[i] = d} = {}
    OBVIOUS
  <2>2. Times(<<>>, d) = Cardinality({})
    BY <2>1 DEF Times
  <2> QED BY <2>2, FS_EmptySet
<1>2. ASSUME NEW e, NEW d PROVE Times(<<e>>, d) = IF d = e THEN 1 ELSE 0
  <2>1. {i \in DOMAIN <<e>> : <<e>>[i] = d} = IF d = e THEN {1} ELSE {}
    OBVIOUS
  <2>2. Times(<<e>>, d) = Cardinality(IF d = e THEN {1} ELSE {})
    BY <2>1 DEF Times
  <2>3. Cardinality({1}) = 1 /\ Cardinality({}) = 0
    BY FS_EmptySet, FS_Singleton
  <2>4. CASE d = e
    BY <2>2, <2>3, <2>4
  <2>5. CASE d # e
    BY <2>2, <2>3, <2>5
  <2> QED BY <2>4, <2>5
<1> QED BY <1>1, <1>2

(* The occurrences among the first n. *)
Among(seq, n, d) == Cardinality({i \in 1..n : seq[i] = d})

(* They are counted one by one. *)
LEMMA AmongIs ==
  ASSUME NEW S, NEW seq \in Seq(S), NEW d
  PROVE  /\ \A n \in 0..Len(seq) : Among(seq, n, d) \in Nat
         /\ Among(seq, 0, d) = 0 /\ Among(seq, Len(seq), d) = Times(seq, d)
         /\ \A n \in 1..Len(seq) :
              Among(seq, n, d) = Among(seq, n - 1, d) + (IF seq[n] = d THEN 1 ELSE 0)
         /\ \A n \in 0..Len(seq) : Among(seq, n, d) <= Times(seq, d)
<1> DEFINE P(n) == {i \in 1..n : seq[i] = d}
<1>0. \A n : Among(seq, n, d) = Cardinality(P(n))
  BY DEF Among
<1>1. \A n \in 0..Len(seq) : IsFiniteSet(P(n)) /\ Cardinality(P(n)) \in Nat
  <2> SUFFICES ASSUME NEW n \in 0..Len(seq) PROVE IsFiniteSet(P(n)) /\ Cardinality(P(n)) \in Nat
    OBVIOUS
  <2>1. IsFiniteSet(1..n) /\ P(n) \in SUBSET (1..n)
    BY FS_Interval
  <2> HIDE DEF P
  <2> QED BY <2>1, FS_Subset, FS_CardinalityType
<1>2. P(0) = {} /\ P(Len(seq)) = {i \in DOMAIN seq : seq[i] = d}
  OBVIOUS
<1>3. ASSUME NEW n \in 1..Len(seq)
      PROVE  Cardinality(P(n)) = Cardinality(P(n - 1)) + (IF seq[n] = d THEN 1 ELSE 0)
  <2>1. P(n) = IF seq[n] = d THEN P(n - 1) \cup {n} ELSE P(n - 1)
    OBVIOUS
  <2>2. n \notin P(n - 1) /\ n - 1 \in 0..Len(seq)
    OBVIOUS
  <2> HIDE DEF P
  <2>3. IsFiniteSet(P(n - 1)) /\ Cardinality(P(n - 1)) \in Nat
    BY <1>1, <2>2
  <2>4. Cardinality(P(n - 1) \cup {n}) = Cardinality(P(n - 1)) + 1
    BY <2>2, <2>3, FS_AddElement
  <2> QED BY <2>1, <2>3, <2>4
<1>4. \A n \in 0..Len(seq) : Cardinality(P(n)) <= Cardinality(P(Len(seq)))
  <2> SUFFICES ASSUME NEW n \in 0..Len(seq)
               PROVE  Cardinality(P(n)) <= Cardinality(P(Len(seq)))
    OBVIOUS
  <2>1. P(n) \in SUBSET P(Len(seq)) /\ Len(seq) \in 0..Len(seq)
    OBVIOUS
  <2> HIDE DEF P
  <2> QED BY <1>1, <2>1, FS_Subset
<1>5. P(0) = {} /\ Cardinality(P(0)) = 0 /\ Cardinality(P(Len(seq))) = Times(seq, d)
  BY <1>2, FS_EmptySet DEF Times
<1> HIDE DEF P
<1> QED BY <1>0, <1>1, <1>3, <1>4, <1>5

(* The step from one element to the next.                                    *)
LEMMA AmongNext ==
  ASSUME NEW S, NEW seq \in Seq(S), NEW d, NEW n \in 1..Len(seq)
  PROVE  /\ Among(seq, n, d) = Among(seq, n - 1, d) + (IF seq[n] = d THEN 1 ELSE 0)
         /\ Among(seq, n, d) \in Nat /\ Among(seq, n - 1, d) \in Nat
         /\ Among(seq, n, d) <= Times(seq, d) /\ Times(seq, d) \in Nat
<1>1. n \in 0..Len(seq) /\ n - 1 \in 0..Len(seq)
  OBVIOUS
<1>2. Times(seq, d) \in Nat
  BY PlacesFinite
<1> QED BY <1>1, <1>2, AmongIs

-----------------------------------------------------------------------------
(* Keep. *)

(* The function of which Keep takes the last value. *)
Picked(seq, set, f) ==
  f = [n \in 0..Len(seq) |-> IF n = 0 THEN <<>>
                             ELSE IF seq[n] \in set THEN Append(f[n - 1], seq[n]) ELSE f[n - 1]]

(* x has the elements of the set that are among the first n.                 *)
PickOf(S, seq, set, n, x) ==
  /\ x \in Seq(S)
  /\ \A i \in 1..Len(x) : x[i] \in set /\ \E k \in 1..n : seq[k] = x[i]
  /\ \A k \in 1..n : seq[k] \in set => \E i \in 1..Len(x) : x[i] = seq[k]

(* What has been picked of the first n elements.                             *)
LEMMA PickedIs ==
  ASSUME NEW S, NEW seq \in Seq(S), NEW set
  PROVE  \E f : /\ Picked(seq, set, f) /\ Keep(seq, set) = f[Len(seq)]
                /\ \A n \in 0..Len(seq) : PickOf(S, seq, set, n, f[n])
<1> DEFINE N == Len(seq)
           Pick(x, n) == IF seq[n] \in set THEN Append(x, seq[n]) ELSE x
           Good(n, x) == PickOf(S, seq, set, n, x)
           D == [n \in 0..N |-> {x \in Seq(S) : Good(n, x)}]
           step == [n \in 1..N |-> [x \in Seq(S) |-> Pick(x, n)]]
           g == CHOOSE f : Picked(seq, set, f)
<1>1. N \in Nat
  OBVIOUS
<1>2. Good(0, <<>>)
  BY DEF PickOf
<1>3. ASSUME NEW n \in 1..N, NEW x \in Seq(S), Good(n - 1, x) PROVE Good(n, Pick(x, n))
  <2>0. PickOf(S, seq, set, n - 1, x)
    BY <1>3
  <2>1. seq[n] \in S /\ n - 1 \in Nat /\ \A k \in 1..n : k \in 1..n - 1 \/ k = n
    OBVIOUS
  <2>2. \A k \in 1..n - 1 : k \in 1..n
    OBVIOUS
  <2>3. CASE seq[n] \in set
    <3> DEFINE y == Append(x, seq[n])
    <3>1. /\ y \in Seq(S) /\ Len(y) = Len(x) + 1 /\ Len(x) \in Nat
          /\ \A i \in 1..Len(x) : y[i] = x[i]
          /\ y[Len(x) + 1] = seq[n]
      BY <2>1, AppendProperties
    <3>2. Pick(x, n) = y
      BY <2>3
    <3> HIDE DEF y, Pick
    <3>3. \A i \in 1..Len(y) : i \in 1..Len(x) \/ i = Len(x) + 1
      BY <3>1
    <3>4. \A i \in 1..Len(x) : i \in 1..Len(y)
      BY <3>1
    <3>5. Len(x) + 1 \in 1..Len(y) /\ n \in 1..n
      BY <3>1
    <3>6. \A i \in 1..Len(y) : y[i] \in set /\ \E k \in 1..n : seq[k] = y[i]
      <4> SUFFICES ASSUME NEW i \in 1..Len(y)
                   PROVE  y[i] \in set /\ \E k \in 1..n : seq[k] = y[i]
        OBVIOUS
      <4>1. CASE i \in 1..Len(x)
        <5>1. y[i] = x[i]
          BY <3>1, <4>1
        <5>2. x[i] \in set /\ \E k \in 1..n - 1 : seq[k] = x[i]
          BY <2>0, <4>1 DEF PickOf
        <5> QED BY <2>2, <5>1, <5>2
      <4>2. CASE i = Len(x) + 1
        <5>1. y[i] = seq[n]
          BY <3>1, <4>2
        <5> QED BY <2>3, <3>5, <5>1
      <4> QED BY <3>3, <4>1, <4>2
    <3>7. \A k \in 1..n : seq[k] \in set => \E i \in 1..Len(y) : y[i] = seq[k]
      BY <2>0, <2>1, <3>1, <3>4, <3>5 DEF PickOf
    <3> QED BY <3>1, <3>2, <3>6, <3>7 DEF PickOf
  <2>4. CASE seq[n] \notin set
    <3>1. Pick(x, n) = x
      BY <2>4
    <3> HIDE DEF Pick
    <3> QED BY <2>0, <2>1, <2>2, <2>4, <3>1 DEF PickOf
  <2> QED BY <2>3, <2>4
<1> HIDE DEF Good, Pick
<1>4. \E f : Steps(N, <<>>, step, f) /\ \A n \in 0..N : f[n] \in D[n]
  <2>1. <<>> \in D[0]
    BY <1>1, <1>2
  <2>2. \A n \in 1..N : \A x \in D[n - 1] : step[n][x] \in D[n]
    <3> SUFFICES ASSUME NEW n \in 1..N, NEW x \in D[n - 1] PROVE step[n][x] \in D[n]
      OBVIOUS
    <3>1. n - 1 \in 0..N /\ n \in 0..N
      OBVIOUS
    <3>2. x \in Seq(S) /\ Good(n - 1, x)
      BY <3>1
    <3>3. step[n][x] = Pick(x, n)
      BY <3>2
    <3>4. Good(n, Pick(x, n))
      BY <1>3, <3>2
    <3>5. Pick(x, n) \in Seq(S)
      BY <3>4 DEF Good, PickOf
    <3> QED BY <3>1, <3>3, <3>4, <3>5
  <2> HIDE DEF D, step, N
  <2>3. \A n \in 1..N : \A x \in D[n - 1] : step[n][x] \in D[n]
    BY <2>2
  <2> QED BY ONLY <1>1, <2>1, <2>3, Recursion
<1>5. PICK h : /\ h = [n \in 0..N |-> IF n = 0 THEN <<>> ELSE step[n][h[n - 1]]]
               /\ \A n \in 0..N : h[n] \in D[n]
  BY <1>4 DEF Steps
<1>6. \A n \in 0..N : h[n] \in Seq(S)
  BY <1>5
<1>7. \A n \in 0..N : h[n] = IF n = 0 THEN <<>> ELSE Pick(h[n - 1], n)
  <2> SUFFICES ASSUME NEW n \in 0..N PROVE h[n] = IF n = 0 THEN <<>> ELSE Pick(h[n - 1], n)
    OBVIOUS
  <2>1. h[n] = IF n = 0 THEN <<>> ELSE step[n][h[n - 1]]
    BY <1>5
  <2>2. ASSUME n # 0 PROVE step[n][h[n - 1]] = Pick(h[n - 1], n)
    <3>1. n \in 1..N /\ n - 1 \in 0..N
      BY <2>2
    <3> QED BY <1>6, <3>1
  <2> QED BY <2>1, <2>2
<1>8. Picked(seq, set, h)
  <2>1. h = [n \in 0..N |-> h[n]]
    BY <1>5
  <2>2. h = [n \in 0..N |-> IF n = 0 THEN <<>> ELSE Pick(h[n - 1], n)]
    BY <1>7, <2>1
  <2> QED BY <2>2 DEF Picked, Pick
<1>9. Picked(seq, set, g)
  BY <1>8
<1>10. Keep(seq, set) = g[Len(seq)]
  BY DEF Keep, Picked
<1> HIDE DEF g
<1>11. \A n \in 0..N : g[n] = IF n = 0 THEN <<>> ELSE Pick(g[n - 1], n)
  BY <1>9 DEF Picked, Pick
<1> DEFINE P == {n \in 0..N : Good(n, g[n])}
<1>12. \A n \in 0..N : n \in P
  <2>1. 0 \in P
    <3>1. g[0] = <<>> /\ 0 \in 0..N
      BY <1>1, <1>11
    <3> QED BY <1>2, <3>1
  <2>2. ASSUME NEW n \in 1..N, n - 1 \in P PROVE n \in P
    <3>1. n \in 0..N /\ n # 0 /\ Good(n - 1, g[n - 1])
      BY <2>2
    <3>2. g[n - 1] \in Seq(S) /\ g[n] = Pick(g[n - 1], n)
      BY <1>11, <3>1 DEF Good, PickOf
    <3>3. Good(n, Pick(g[n - 1], n))
      BY <1>3, <3>1, <3>2
    <3> QED BY <3>1, <3>2, <3>3
  <2> HIDE DEF P
  <2> QED BY <1>1, <2>1, <2>2, UpTo
<1>13. \A n \in 0..N : Good(n, g[n])
  BY <1>12
<1> QED BY <1>9, <1>10, <1>13 DEF Good

(* Keep returns the elements in the set, and no others.                      *)
LEMMA KeepIs ==
  ASSUME NEW S, NEW seq \in Seq(S), NEW set
  PROVE  /\ Keep(seq, set) \in Seq(S) /\ Len(Keep(seq, set)) \in Nat
         /\ \A i \in 1..Len(Keep(seq, set)) :
              /\ Keep(seq, set)[i] \in set /\ Keep(seq, set)[i] \in S
              /\ \E k \in 1..Len(seq) : seq[k] = Keep(seq, set)[i]
         /\ \A k \in 1..Len(seq) :
              seq[k] \in set => \E i \in 1..Len(Keep(seq, set)) : Keep(seq, set)[i] = seq[k]
<1>1. Len(seq) \in 0..Len(seq)
  OBVIOUS
<1>2. PICK f : /\ Picked(seq, set, f) /\ Keep(seq, set) = f[Len(seq)]
               /\ \A n \in 0..Len(seq) : PickOf(S, seq, set, n, f[n])
  BY PickedIs
<1> DEFINE kseq == Keep(seq, set)
<1>3. /\ kseq \in Seq(S)
      /\ \A i \in 1..Len(kseq) : kseq[i] \in set /\ \E k \in 1..Len(seq) : seq[k] = kseq[i]
      /\ \A k \in 1..Len(seq) : seq[k] \in set => \E i \in 1..Len(kseq) : kseq[i] = seq[k]
  <2>1. PickOf(S, seq, set, Len(seq), kseq)
    BY <1>1, <1>2
  <2> HIDE DEF kseq
  <2> QED BY <2>1 DEF PickOf
<1> HIDE DEF kseq
<1>4. Len(kseq) \in Nat /\ \A i \in 1..Len(kseq) : kseq[i] \in S
  BY <1>3
<1> QED BY <1>3, <1>4 DEF kseq

(* Of the first elements it keeps no more than of all.                       *)
LEMMA KeepFirst ==
  ASSUME NEW S, NEW seq \in Seq(S), NEW set, NEW m \in 0..Len(seq)
  PROVE  Len(Keep(SubSeq(seq, 1, m), set)) <= Len(Keep(seq, set))
<1> DEFINE first == SubSeq(seq, 1, m)
<1>1. first \in Seq(S) /\ Len(first) = m /\ \A i \in 1..m : first[i] = seq[i]
  OBVIOUS
<1> HIDE DEF first
<1>2. PICK f : /\ Picked(seq, set, f) /\ Keep(seq, set) = f[Len(seq)]
               /\ \A n \in 0..Len(seq) : f[n] \in Seq(S)
  BY PickedIs DEF PickOf
<1>3. PICK h : Picked(first, set, h) /\ Keep(first, set) = h[m]
  BY <1>1, PickedIs
<1>4. \A n \in 0..Len(seq) :
        f[n] = IF n = 0 THEN <<>>
               ELSE IF seq[n] \in set THEN Append(f[n - 1], seq[n]) ELSE f[n - 1]
  BY <1>2 DEF Picked
<1>5. \A n \in 0..m :
        h[n] = IF n = 0 THEN <<>>
               ELSE IF first[n] \in set THEN Append(h[n - 1], first[n]) ELSE h[n - 1]
  BY <1>1, <1>3 DEF Picked
<1>6. h[m] = f[m]
  <2> DEFINE P == {n \in 0..m : h[n] = f[n]}
  <2>1. 0 \in P
    BY <1>4, <1>5
  <2>2. ASSUME NEW n \in 1..m, n - 1 \in P PROVE n \in P
    <3>1. n \in 0..m /\ n \in 0..Len(seq) /\ n # 0 /\ first[n] = seq[n] /\ h[n - 1] = f[n - 1]
      BY <1>1, <2>2
    <3>2. f[n] = IF seq[n] \in set THEN Append(f[n - 1], seq[n]) ELSE f[n - 1]
      BY <1>4, <3>1
    <3>3. h[n] = IF first[n] \in set THEN Append(h[n - 1], first[n]) ELSE h[n - 1]
      BY <1>5, <3>1
    <3> QED BY <3>1, <3>2, <3>3
  <2> HIDE DEF P
  <2>3. m \in P
    BY <2>1, <2>2, UpTo
  <2> QED BY <2>3 DEF P
<1>7. Len(f[m]) <= Len(f[Len(seq)])
  <2> DEFINE P == {n \in 0..Len(seq) - m : Len(f[m]) <= Len(f[m + n])}
  <2>1. 0 \in P
    BY <1>2
  <2>2. ASSUME NEW n \in 1..Len(seq) - m, n - 1 \in P PROVE n \in P
    <3>1. /\ m + n \in 0..Len(seq) /\ m + n # 0 /\ m + n - 1 \in 0..Len(seq)
          /\ m + (n - 1) = m + n - 1 /\ seq[m + n] \in S
      OBVIOUS
    <3>2. Len(f[m]) <= Len(f[m + n - 1])
      BY <2>2, <3>1
    <3>3. f[m] \in Seq(S) /\ f[m + n - 1] \in Seq(S)
      BY <1>2, <3>1
    <3>4. f[m + n] = IF seq[m + n] \in set THEN Append(f[m + n - 1], seq[m + n]) ELSE f[m + n - 1]
      BY <1>4, <3>1
    <3>5. Len(Append(f[m + n - 1], seq[m + n])) = Len(f[m + n - 1]) + 1
      BY <3>1, <3>3, AppendProperties
    <3>6. Len(f[m]) <= Len(f[m + n])
      BY <3>2, <3>3, <3>4, <3>5
    <3> QED BY <3>6
  <2>3. Len(seq) - m \in Nat /\ m + (Len(seq) - m) = Len(seq) /\ Len(seq) - m \in 0..Len(seq) - m
    OBVIOUS
  <2> HIDE DEF P
  <2>4. Len(seq) - m \in P
    BY <2>1, <2>2, <2>3, UpTo
  <2> QED BY <2>3, <2>4 DEF P
<1> QED BY <1>2, <1>3, <1>6, <1>7 DEF first

(* Is the element in the sequence? *)
Has(seq, d) == \E i \in 1..Len(seq) : seq[i] = d

(* The same of what the sequences have.                                      *)
LEMMA KeepHas ==
  ASSUME NEW S, NEW seq \in Seq(S), NEW set
  PROVE  /\ Keep(seq, set) \in Seq(S)
         /\ \A e : Has(Keep(seq, set), e) <=> e \in set /\ Has(seq, e)
<1> DEFINE k == Keep(seq, set)
<1>1. /\ k \in Seq(S)
      /\ \A i \in 1..Len(k) : k[i] \in set /\ \E j \in 1..Len(seq) : seq[j] = k[i]
      /\ \A j \in 1..Len(seq) : seq[j] \in set => \E i \in 1..Len(k) : k[i] = seq[j]
  BY KeepIs
<1> HIDE DEF k
<1>2. ASSUME NEW e, Has(k, e) PROVE e \in set /\ Has(seq, e)
  BY <1>1, <1>2 DEF Has
<1>3. ASSUME NEW e \in set, Has(seq, e) PROVE Has(k, e)
  BY <1>1, <1>3 DEF Has
<1> QED BY <1>1, <1>2, <1>3 DEF k

(* SetToSeq lists the elements of a finite set.                              *)
LEMMA SetToSeqIs ==
  ASSUME NEW S, IsFiniteSet(S)
  PROVE  SetToSeq(S) \in Seq(S) /\ (S # {} => SetToSeq(S) # <<>>)
<1> DEFINE n == Cardinality(S)
<1>1. n \in Nat /\ ExistsBijection(1..n, S) /\ (S # {} => n # 0)
  BY FS_CardinalityType, FS_EmptySet
<1>2. \E f \in [1..n -> S] : IsInjective(f)
  BY <1>1 DEF ExistsBijection, Bijection, Injection
<1>3. SetToSeq(S) \in [1..n -> S]
  BY <1>2 DEF SetToSeq
<1> HIDE DEF n
<1> QED BY <1>1, <1>3

(* IndexOf is a place of the element, or 0. *)
LEMMA IndexOfIs ==
  ASSUME NEW S, NEW seq \in Seq(S), NEW d
  PROVE  /\ IndexOf(seq, d) \in Nat
         /\ IndexOf(seq, d) # 0 => IndexOf(seq, d) \in 1..Len(seq) /\ seq[IndexOf(seq, d)] = d
<1> DEFINE P == {i \in 1..Len(seq) : seq[i] = d}
<1>1. CASE \E i \in DOMAIN seq : seq[i] = d
  <2>1. PICK m \in P : \A i \in P : m <= i
    <3>1. P # {} /\ P \subseteq Nat
      BY <1>1
    <3> HIDE DEF P
    <3> QED BY <3>1, NatMin
  <2>2. m \in DOMAIN seq /\ seq[m] = d
    OBVIOUS
  <2>3. \A k \in 1..(m - 1) : seq[k] # d
    <3>1. ASSUME NEW k \in 1..(m - 1), seq[k] = d PROVE FALSE
      <4>1. k \in P /\ k < m
        BY <3>1
      <4> HIDE DEF P
      <4> QED BY <2>1, <4>1
    <3> QED BY <3>1
  <2>4. \E i \in DOMAIN seq : seq[i] = d /\ \A k \in 1..(i - 1) : seq[k] # d
    BY <2>2, <2>3
  <2> HIDE DEF P
  <2>5. IndexOf(seq, d) \in DOMAIN seq /\ seq[IndexOf(seq, d)] = d
    BY <1>1, <2>4 DEF IndexOf
  <2> QED BY <2>5
<1>2. CASE ~\E i \in DOMAIN seq : seq[i] = d
  BY <1>2 DEF IndexOf
<1> QED BY <1>1, <1>2

-----------------------------------------------------------------------------
(* States, and open and close of documents. *)

(* The states that the operators take and return. *)
WinType == [Windows -> [state : {"none", "open", "closed"}, tabs : Seq(Docs), index : Nat,
                        shown : Docs \cup {NoDoc}]]
DocRecord == [count : Nat, loaded : BOOLEAN, waiting : Seq(Windows), edited : BOOLEAN,
              path : BOOLEAN]
States  == [win : WinType, doc : [Docs -> DocRecord]]

(* What nobody holds any more, or what it was but for the count.             *)
Same(r, q) == /\ r.loaded = q.loaded /\ r.waiting = q.waiting /\ r.edited = q.edited
              /\ r.path = q.path

(* The state and its parts. *)
LEMMA StateIs ==
  /\ \A s \in States : s.win \in WinType /\ s.doc \in [Docs -> DocRecord]
                       /\ s = [win |-> s.win, doc |-> s.doc]
  /\ \A w \in WinType, d \in [Docs -> DocRecord] : [win |-> w, doc |-> d] \in States
  /\ \A s \in States, w \in Windows :
       /\ s.win[w].state \in {"none", "open", "closed"} /\ s.win[w].tabs \in Seq(Docs)
       /\ s.win[w].index \in Nat /\ s.win[w].shown \in Docs \cup {NoDoc}
  /\ \A s \in States, d \in Docs :
       /\ s.doc[d] \in DocRecord
       /\ s.doc[d].count \in Nat /\ s.doc[d].loaded \in BOOLEAN
       /\ s.doc[d].waiting \in Seq(Windows) /\ s.doc[d].edited \in BOOLEAN
       /\ s.doc[d].path \in BOOLEAN
BY DEF States, WinType, DocRecord

(* One of the parts changes. *)
LEMMA StateExcept ==
  ASSUME NEW s \in States, NEW q
  PROVE  /\ [s EXCEPT !.doc = q] = [win |-> s.win, doc |-> q]
         /\ [s EXCEPT !.win = q] = [win |-> q, doc |-> s.doc]
<1>1. s = [win |-> s.win, doc |-> s.doc]
  BY StateIs
<1> QED BY <1>1

(* open adds a hold. *)
LEMMA OpenDocumentIs ==
  ASSUME NEW s \in States, NEW e \in Docs
  PROVE  /\ OpenDocument(s, e) \in States /\ OpenDocument(s, e).win = s.win
         /\ \A d \in Docs :
              /\ Same(OpenDocument(s, e).doc[d], s.doc[d])
              /\ OpenDocument(s, e).doc[d].count = s.doc[d].count + (IF e = d THEN 1 ELSE 0)
<1> DEFINE t == OpenDocument(s, e)
           r == [s.doc[e] EXCEPT !.count = @ + 1]
<1>1. s = [win |-> s.win, doc |-> s.doc] /\ s.doc \in [Docs -> DocRecord] /\ s.doc[e] \in DocRecord
  BY StateIs
<1>2. t = [win |-> s.win, doc |-> [s.doc EXCEPT ![e] = r]]
  BY <1>1 DEF OpenDocument
<1>3. r \in DocRecord /\ Same(r, s.doc[e]) /\ r.count = s.doc[e].count + 1
  BY <1>1 DEF DocRecord, Same
<1> HIDE DEF t, r
<1>4. t.doc = [s.doc EXCEPT ![e] = r] /\ t.win = s.win
  BY <1>2
<1>5. t.doc \in [Docs -> DocRecord]
  BY <1>1, <1>3, <1>4
<1>6. t \in States
  BY <1>2, <1>4, <1>5, StateIs
<1>7. \A d \in Docs : t.doc[d] = IF e = d THEN r ELSE s.doc[d]
  BY <1>1, <1>4
<1>8. \A d \in Docs : s.doc[d].count \in Nat /\ Same(s.doc[d], s.doc[d])
  BY StateIs DEF Same
<1>9. \A d \in Docs : /\ Same(t.doc[d], s.doc[d])
                      /\ t.doc[d].count = s.doc[d].count + (IF e = d THEN 1 ELSE 0)
  BY <1>3, <1>7, <1>8
<1> QED BY <1>4, <1>6, <1>9 DEF t

(* The state that nobody holds. *)
LEMMA ClosedIs ==
  \A d \in Docs : /\ Closed(d) \in DocRecord /\ Closed(d).count = 0 /\ ~Closed(d).loaded
                  /\ Closed(d).waiting = <<>> /\ ~Closed(d).edited
BY DEF Closed, DocRecord

(* close takes a hold, and the last one resets the document.                 *)
LEMMA CloseDocumentIs ==
  ASSUME NEW s \in States, NEW e \in Docs, s.doc[e].count > 0
  PROVE  /\ CloseDocument(s, e) \in States /\ CloseDocument(s, e).win = s.win
         /\ \A d \in Docs :
              /\ \/ Same(CloseDocument(s, e).doc[d], s.doc[d])
                 \/ e = d /\ CloseDocument(s, e).doc[d] = Closed(d)
              /\ CloseDocument(s, e).doc[d].count = s.doc[d].count - (IF e = d THEN 1 ELSE 0)
<1> DEFINE t == CloseDocument(s, e)
           n == s.doc[e].count - 1
           r == IF n = 0 THEN Closed(e) ELSE [s.doc[e] EXCEPT !.count = n]
           q == [s.doc EXCEPT ![e] = r]
<1>1. s = [win |-> s.win, doc |-> s.doc] /\ s.doc \in [Docs -> DocRecord] /\ s.doc[e] \in DocRecord
  BY StateIs
<1>2. t = [win |-> s.win, doc |-> q]
  <2>1. t = [s EXCEPT !.doc = q]
    BY DEF CloseDocument, Released
  <2> HIDE DEF q, t
  <2> QED BY <2>1, StateExcept
<1>3. /\ r \in DocRecord /\ r.count = s.doc[e].count - 1
      /\ Same(r, s.doc[e]) \/ r = Closed(e)
  <2>1. CASE s.doc[e].count = 1
    BY <2>1, ClosedIs
  <2>2. CASE s.doc[e].count # 1
    BY <1>1, <2>2 DEF DocRecord, Same
  <2> QED BY <2>1, <2>2
<1> HIDE DEF t, r
<1>4. t.doc = [s.doc EXCEPT ![e] = r] /\ t.win = s.win
  BY <1>2 DEF q
<1>5. t.doc \in [Docs -> DocRecord]
  BY <1>1, <1>3, <1>4
<1>6. t \in States
  BY <1>2, <1>4, <1>5, StateIs
<1>7. \A d \in Docs : t.doc[d] = IF e = d THEN r ELSE s.doc[d]
  BY <1>1, <1>4
<1>8. \A d \in Docs : s.doc[d].count \in Nat /\ Same(s.doc[d], s.doc[d])
  BY StateIs DEF Same
<1>9. \A d \in Docs : /\ Same(t.doc[d], s.doc[d]) \/ (e = d /\ t.doc[d] = Closed(d))
                      /\ t.doc[d].count = s.doc[d].count - (IF e = d THEN 1 ELSE 0)
  BY <1>3, <1>7, <1>8
<1> QED BY <1>4, <1>6, <1>9 DEF t

(* As it was before it was loaded; and the functions of OpenAll and CloseAll. *)
Reset(r) == r.count = 0 /\ ~r.loaded /\ r.waiting = <<>> /\ ~r.edited

Openings(s, docs, f) ==
  f = [n \in 0..Len(docs) |-> IF n = 0 THEN s ELSE OpenDocument(f[n - 1], docs[n])]
Closings(s, docs, f) ==
  f = [n \in 0..Len(docs) |-> IF n = 0 THEN s ELSE CloseDocument(f[n - 1], docs[n])]

(* All the documents of a sequence have a hold more.                         *)
LEMMA OpenAllIs ==
  ASSUME NEW s \in States, NEW docs \in Seq(Docs)
  PROVE  /\ OpenAll(s, docs) \in States /\ OpenAll(s, docs).win = s.win
         /\ \A d \in Docs :
              /\ Same(OpenAll(s, docs).doc[d], s.doc[d])
              /\ OpenAll(s, docs).doc[d].count = s.doc[d].count + Times(docs, d)
<1> DEFINE N == Len(docs)
           Good(n, t) ==
             /\ t \in States /\ t.win = s.win
             /\ \A d \in Docs : /\ Same(t.doc[d], s.doc[d])
                                /\ t.doc[d].count = s.doc[d].count + Among(docs, n, d)
           D == [n \in 0..N |-> {t \in States : Good(n, t)}]
           step == [n \in 1..N |-> [t \in States |-> OpenDocument(t, docs[n])]]
           g == CHOOSE f : Openings(s, docs, f)
<1>1. N \in Nat /\ \A n \in 1..N : docs[n] \in Docs
  OBVIOUS
<1>2. Good(0, s)
  <2>1. \A d \in Docs : Among(docs, 0, d) = 0 /\ s.doc[d].count \in Nat /\ Same(s.doc[d], s.doc[d])
    BY AmongIs, StateIs DEF Same
  <2> QED BY <2>1
<1>3. ASSUME NEW n \in 1..N, NEW t, Good(n - 1, t) PROVE Good(n, OpenDocument(t, docs[n]))
  <2> DEFINE u == OpenDocument(t, docs[n])
  <2>1. /\ u \in States /\ u.win = t.win
        /\ \A d \in Docs :
              /\ Same(u.doc[d], t.doc[d])
              /\ u.doc[d].count = t.doc[d].count + (IF docs[n] = d THEN 1 ELSE 0)
    BY <1>1, <1>3, OpenDocumentIs
  <2>2. \A d \in Docs : /\ Among(docs, n, d) = Among(docs, n - 1, d) + (IF docs[n] = d THEN 1 ELSE 0)
                        /\ Among(docs, n - 1, d) \in Nat /\ s.doc[d].count \in Nat
    <3>1. ASSUME NEW d \in Docs
          PROVE  /\ Among(docs, n, d) = Among(docs, n - 1, d) + (IF docs[n] = d THEN 1 ELSE 0)
                 /\ Among(docs, n - 1, d) \in Nat
      BY AmongNext
    <3>2. \A d \in Docs : s.doc[d].count \in Nat
      BY StateIs
    <3> QED BY <3>1, <3>2
  <2> HIDE DEF u
  <2>3. \A d \in Docs : Same(u.doc[d], s.doc[d])
    BY <1>3, <2>1 DEF Same
  <2>4. \A d \in Docs : u.doc[d].count = s.doc[d].count + Among(docs, n, d)
    <3> SUFFICES ASSUME NEW d \in Docs
                 PROVE  u.doc[d].count = s.doc[d].count + Among(docs, n, d)
      OBVIOUS
    <3> DEFINE c == IF docs[n] = d THEN 1 ELSE 0
               uc == u.doc[d].count
               tc == t.doc[d].count
               sc == s.doc[d].count
               before == Among(docs, n - 1, d)
               after == Among(docs, n, d)
    <3>1. uc = tc + c
      BY <2>1
    <3>2. tc = sc + before
      BY <1>3
    <3>3. after = before + c /\ before \in Nat /\ sc \in Nat
      BY <2>2
    <3>4. c \in Nat
      OBVIOUS
    <3> HIDE DEF c, uc, tc, sc, before, after
    <3>5. uc = sc + after
      BY ONLY <3>1, <3>2, <3>3, <3>4
    <3> QED BY <3>5 DEF uc, sc, after
  <2>5. u \in States /\ u.win = s.win
    BY <1>3, <2>1
  <2> QED BY <2>3, <2>4, <2>5 DEF u
<1> HIDE DEF Good
<1>4. \E f : Steps(N, s, step, f) /\ \A n \in 0..N : f[n] \in D[n]
  <2>1. s \in D[0]
    BY <1>1, <1>2 DEF Good
  <2>2. \A n \in 1..N : \A t \in D[n - 1] : step[n][t] \in D[n]
    <3> SUFFICES ASSUME NEW n \in 1..N, NEW t \in D[n - 1] PROVE step[n][t] \in D[n]
      OBVIOUS
    <3>1. n - 1 \in 0..N /\ n \in 0..N
      OBVIOUS
    <3>2. t \in States /\ Good(n - 1, t)
      BY <3>1
    <3>3. step[n][t] = OpenDocument(t, docs[n])
      BY <3>2
    <3>4. Good(n, OpenDocument(t, docs[n]))
      BY <1>3, <3>2
    <3>5. OpenDocument(t, docs[n]) \in States
      BY <3>4 DEF Good
    <3> QED BY <3>1, <3>3, <3>4, <3>5
  <2> HIDE DEF D, step, N
  <2>3. \A n \in 1..N : \A t \in D[n - 1] : step[n][t] \in D[n]
    BY <2>2
  <2> QED BY ONLY <1>1, <2>1, <2>3, Recursion
<1>5. PICK h : /\ h = [n \in 0..N |-> IF n = 0 THEN s ELSE step[n][h[n - 1]]]
               /\ \A n \in 0..N : h[n] \in D[n]
  BY <1>4 DEF Steps
<1>6. \A n \in 0..N : h[n] \in States
  BY <1>5
<1>7. \A n \in 0..N : h[n] = IF n = 0 THEN s ELSE OpenDocument(h[n - 1], docs[n])
  <2> SUFFICES ASSUME NEW n \in 0..N
               PROVE  h[n] = IF n = 0 THEN s ELSE OpenDocument(h[n - 1], docs[n])
    OBVIOUS
  <2>1. h[n] = IF n = 0 THEN s ELSE step[n][h[n - 1]]
    BY <1>5
  <2>2. ASSUME n # 0 PROVE step[n][h[n - 1]] = OpenDocument(h[n - 1], docs[n])
    <3>1. n \in 1..N /\ n - 1 \in 0..N
      BY <2>2
    <3> QED BY <1>6, <3>1
  <2> QED BY <2>1, <2>2
<1>8. Openings(s, docs, h)
  <2>1. h = [n \in 0..N |-> h[n]]
    BY <1>5
  <2>2. h = [n \in 0..N |-> IF n = 0 THEN s ELSE OpenDocument(h[n - 1], docs[n])]
    BY <1>7, <2>1
  <2> QED BY <2>2 DEF Openings
<1>9. Openings(s, docs, g)
  BY <1>8
<1>10. OpenAll(s, docs) = g[Len(docs)]
  BY DEF OpenAll, Openings
<1> HIDE DEF g
<1>11. \A n \in 0..N : g[n] = IF n = 0 THEN s ELSE OpenDocument(g[n - 1], docs[n])
  BY <1>9 DEF Openings
<1> DEFINE P == {n \in 0..N : Good(n, g[n])}
<1>12. N \in P
  <2>1. 0 \in P
    <3>1. g[0] = s /\ 0 \in 0..N
      BY <1>1, <1>11
    <3> QED BY <1>2, <3>1
  <2>2. ASSUME NEW n \in 1..N, n - 1 \in P PROVE n \in P
    <3>1. n \in 0..N /\ n # 0 /\ Good(n - 1, g[n - 1])
      BY <2>2
    <3>2. g[n] = OpenDocument(g[n - 1], docs[n])
      BY <1>11, <3>1
    <3>3. Good(n, OpenDocument(g[n - 1], docs[n]))
      BY <1>3, <3>1
    <3> QED BY <3>1, <3>2, <3>3
  <2> HIDE DEF P, N
  <2>3. \A n \in 0..N : n \in P
    BY <1>1, <2>1, <2>2, UpTo
  <2> QED BY <1>1, <2>3
<1>13. Good(N, g[N])
  BY <1>12
<1>14. \A d \in Docs : Among(docs, Len(docs), d) = Times(docs, d)
  BY AmongIs
<1> QED BY <1>10, <1>13, <1>14 DEF Good

(* All the documents of a sequence have a hold less, if each had as many,    *)
(* and those without holds are reset.                                        *)
LEMMA CloseAllIs ==
  ASSUME NEW s \in States, NEW docs \in Seq(Docs),
         \A d \in Docs : s.doc[d].count >= Times(docs, d)
  PROVE  /\ CloseAll(s, docs) \in States /\ CloseAll(s, docs).win = s.win
         /\ \A d \in Docs :
              /\ Same(CloseAll(s, docs).doc[d], s.doc[d]) \/ Reset(CloseAll(s, docs).doc[d])
              /\ CloseAll(s, docs).doc[d].count = s.doc[d].count - Times(docs, d)
<1> DEFINE N == Len(docs)
           Good(n, t) ==
             /\ t \in States /\ t.win = s.win
             /\ \A d \in Docs : /\ Same(t.doc[d], s.doc[d]) \/ Reset(t.doc[d])
                                /\ t.doc[d].count = s.doc[d].count - Among(docs, n, d)
           D == [n \in 0..N |-> {t \in States : Good(n, t)}]
           step == [n \in 1..N |-> [t \in States |-> CloseDocument(t, docs[n])]]
           g == CHOOSE f : Closings(s, docs, f)
<1>1. N \in Nat /\ \A n \in 1..N : docs[n] \in Docs
  OBVIOUS
<1>2. Good(0, s)
  <2>1. \A d \in Docs : Among(docs, 0, d) = 0 /\ s.doc[d].count \in Nat /\ Same(s.doc[d], s.doc[d])
    BY AmongIs, StateIs DEF Same
  <2> QED BY <2>1
<1>3. ASSUME NEW n \in 1..N, NEW t, Good(n - 1, t) PROVE Good(n, CloseDocument(t, docs[n]))
  <2> DEFINE u == CloseDocument(t, docs[n])
             e == docs[n]
  <2>2. \A d \in Docs : /\ Among(docs, n, d) = Among(docs, n - 1, d) + (IF e = d THEN 1 ELSE 0)
                        /\ Among(docs, n - 1, d) \in Nat /\ Among(docs, n, d) \in Nat
                        /\ s.doc[d].count \in Nat
                        /\ Among(docs, n, d) <= Times(docs, d) /\ Times(docs, d) \in Nat
    <3>1. ASSUME NEW d \in Docs
          PROVE  /\ Among(docs, n, d) = Among(docs, n - 1, d) + (IF docs[n] = d THEN 1 ELSE 0)
                 /\ Among(docs, n - 1, d) \in Nat /\ Among(docs, n, d) \in Nat
                 /\ Among(docs, n, d) <= Times(docs, d) /\ Times(docs, d) \in Nat
      BY AmongNext
    <3>2. \A d \in Docs : s.doc[d].count \in Nat
      BY StateIs
    <3> HIDE DEF e
    <3> QED BY <3>1, <3>2 DEF e
  <2>3. e \in Docs /\ t.doc[e].count > 0
    <3>1. e \in Docs /\ t.doc[e].count = s.doc[e].count - Among(docs, n - 1, e)
      BY <1>1, <1>3
    <3> HIDE DEF e
    <3>2. Among(docs, n, e) = Among(docs, n - 1, e) + 1 /\ s.doc[e].count >= Times(docs, e)
      BY <2>2, <3>1
    <3>3. /\ Among(docs, n - 1, e) \in Nat /\ Among(docs, n, e) \in Nat
          /\ s.doc[e].count \in Nat
          /\ Among(docs, n, e) <= Times(docs, e) /\ Times(docs, e) \in Nat
      BY <2>2, <3>1
    <3> QED BY <3>1, <3>2, <3>3
  <2>1. /\ u \in States /\ u.win = t.win
        /\ \A d \in Docs :
              /\ Same(u.doc[d], t.doc[d]) \/ (e = d /\ u.doc[d] = Closed(d))
              /\ u.doc[d].count = t.doc[d].count - (IF e = d THEN 1 ELSE 0)
    BY <1>3, <2>3, CloseDocumentIs
  <2> HIDE DEF u, e
  <2>4. ASSUME NEW d \in Docs PROVE u.doc[d].count = s.doc[d].count - Among(docs, n, d)
    <3>1. t.doc[d].count = s.doc[d].count - Among(docs, n - 1, d)
      BY <1>3
    <3>2. u.doc[d].count = t.doc[d].count - (IF e = d THEN 1 ELSE 0)
      BY <2>1
    <3>3. /\ Among(docs, n, d) = Among(docs, n - 1, d) + (IF e = d THEN 1 ELSE 0)
          /\ Among(docs, n - 1, d) \in Nat /\ s.doc[d].count \in Nat
      BY <2>2
    <3> DEFINE c == IF e = d THEN 1 ELSE 0
               uc == u.doc[d].count
               tc == t.doc[d].count
               sc == s.doc[d].count
               before == Among(docs, n - 1, d)
               after == Among(docs, n, d)
    <3>4. tc = sc - before /\ uc = tc - c /\ after = before + c
      BY <3>1, <3>2, <3>3
    <3>5. c \in Nat /\ before \in Nat /\ sc \in Nat
      BY <3>3
    <3> HIDE DEF c, uc, tc, sc, before, after
    <3>6. uc = sc - after
      BY ONLY <3>4, <3>5
    <3> QED BY <3>6 DEF uc, sc, after
  <2>5. ASSUME NEW d \in Docs PROVE Same(u.doc[d], s.doc[d]) \/ Reset(u.doc[d])
    <3>1. CASE u.doc[d] = Closed(d)
      BY <3>1, ClosedIs DEF Reset
    <3>2. CASE Same(u.doc[d], t.doc[d]) /\ Same(t.doc[d], s.doc[d])
      BY <3>2 DEF Same
    <3>3. CASE Same(u.doc[d], t.doc[d]) /\ Reset(t.doc[d])
      <4>1. e # d
        BY <2>3, <3>3 DEF Reset
      <4>2. u.doc[d].count = 0
        BY <2>1, <3>3, <4>1 DEF Reset
      <4> QED BY <3>3, <4>2 DEF Same, Reset
    <3> QED BY <1>3, <2>1, <3>1, <3>2, <3>3
  <2>6. u \in States /\ u.win = s.win
    BY <1>3, <2>1
  <2> QED BY <2>4, <2>5, <2>6 DEF u
<1> HIDE DEF Good
<1>4. \E f : Steps(N, s, step, f) /\ \A n \in 0..N : f[n] \in D[n]
  <2>1. s \in D[0]
    BY <1>1, <1>2 DEF Good
  <2>2. \A n \in 1..N : \A t \in D[n - 1] : step[n][t] \in D[n]
    <3> SUFFICES ASSUME NEW n \in 1..N, NEW t \in D[n - 1] PROVE step[n][t] \in D[n]
      OBVIOUS
    <3>1. n - 1 \in 0..N /\ n \in 0..N
      OBVIOUS
    <3>2. t \in States /\ Good(n - 1, t)
      BY <3>1
    <3>3. step[n][t] = CloseDocument(t, docs[n])
      BY <3>2
    <3>4. Good(n, CloseDocument(t, docs[n]))
      BY <1>3, <3>2
    <3>5. CloseDocument(t, docs[n]) \in States
      BY <3>4 DEF Good
    <3> QED BY <3>1, <3>3, <3>4, <3>5
  <2> HIDE DEF D, step, N
  <2>3. \A n \in 1..N : \A t \in D[n - 1] : step[n][t] \in D[n]
    BY <2>2
  <2> QED BY ONLY <1>1, <2>1, <2>3, Recursion
<1>5. PICK h : /\ h = [n \in 0..N |-> IF n = 0 THEN s ELSE step[n][h[n - 1]]]
               /\ \A n \in 0..N : h[n] \in D[n]
  BY <1>4 DEF Steps
<1>6. \A n \in 0..N : h[n] \in States
  BY <1>5
<1>7. \A n \in 0..N : h[n] = IF n = 0 THEN s ELSE CloseDocument(h[n - 1], docs[n])
  <2> SUFFICES ASSUME NEW n \in 0..N
               PROVE  h[n] = IF n = 0 THEN s ELSE CloseDocument(h[n - 1], docs[n])
    OBVIOUS
  <2>1. h[n] = IF n = 0 THEN s ELSE step[n][h[n - 1]]
    BY <1>5
  <2>2. ASSUME n # 0 PROVE step[n][h[n - 1]] = CloseDocument(h[n - 1], docs[n])
    <3>1. n \in 1..N /\ n - 1 \in 0..N
      BY <2>2
    <3> QED BY <1>6, <3>1
  <2> QED BY <2>1, <2>2
<1>8. Closings(s, docs, h)
  <2>1. h = [n \in 0..N |-> h[n]]
    BY <1>5
  <2>2. h = [n \in 0..N |-> IF n = 0 THEN s ELSE CloseDocument(h[n - 1], docs[n])]
    BY <1>7, <2>1
  <2> QED BY <2>2 DEF Closings
<1>9. Closings(s, docs, g)
  BY <1>8
<1>10. CloseAll(s, docs) = g[Len(docs)]
  BY DEF CloseAll, Closings
<1> HIDE DEF g
<1>11. \A n \in 0..N : g[n] = IF n = 0 THEN s ELSE CloseDocument(g[n - 1], docs[n])
  BY <1>9 DEF Closings
<1> DEFINE P == {n \in 0..N : Good(n, g[n])}
<1>12. N \in P
  <2>1. 0 \in P
    <3>1. g[0] = s /\ 0 \in 0..N
      BY <1>1, <1>11
    <3> QED BY <1>2, <3>1
  <2>2. ASSUME NEW n \in 1..N, n - 1 \in P PROVE n \in P
    <3>1. n \in 0..N /\ n # 0 /\ Good(n - 1, g[n - 1])
      BY <2>2
    <3>2. g[n] = CloseDocument(g[n - 1], docs[n])
      BY <1>11, <3>1
    <3>3. Good(n, CloseDocument(g[n - 1], docs[n]))
      BY <1>3, <3>1
    <3> QED BY <3>1, <3>2, <3>3
  <2> HIDE DEF P, N
  <2>3. \A n \in 0..N : n \in P
    BY <1>1, <2>1, <2>2, UpTo
  <2> QED BY <1>1, <2>3
<1>13. Good(N, g[N])
  BY <1>12
<1>14. \A d \in Docs : Among(docs, Len(docs), d) = Times(docs, d)
  BY AmongIs
<1> QED BY <1>10, <1>13, <1>14 DEF Good

(* First the ones are opened, then the others closed.                        *)
LEMMA OpenCloseIs ==
  ASSUME NEW s \in States, NEW o \in Seq(Docs), NEW c \in Seq(Docs),
         \A d \in Docs : s.doc[d].count + Times(o, d) >= Times(c, d)
  PROVE  /\ OpenClose(s, o, c) \in States /\ OpenClose(s, o, c).win = s.win
         /\ \A d \in Docs :
              /\ Same(OpenClose(s, o, c).doc[d], s.doc[d]) \/ Reset(OpenClose(s, o, c).doc[d])
              /\ OpenClose(s, o, c).doc[d].count = s.doc[d].count + Times(o, d) - Times(c, d)
<1> DEFINE t == OpenAll(s, o)
           u == CloseAll(t, c)
<1>1. /\ t \in States /\ t.win = s.win
      /\ \A d \in Docs : /\ Same(t.doc[d], s.doc[d])
                         /\ t.doc[d].count = s.doc[d].count + Times(o, d)
  BY OpenAllIs
<1> HIDE DEF t
<1>2. /\ u \in States /\ u.win = t.win
      /\ \A d \in Docs : /\ Same(u.doc[d], t.doc[d]) \/ Reset(u.doc[d])
                         /\ u.doc[d].count = t.doc[d].count - Times(c, d)
  BY <1>1, CloseAllIs
<1>3. OpenClose(s, o, c) = u
  BY DEF OpenClose, t
<1> HIDE DEF u
<1>4. \A d \in Docs : Same(u.doc[d], s.doc[d]) \/ Reset(u.doc[d])
  BY <1>1, <1>2 DEF Same
<1>5. ASSUME NEW d \in Docs
      PROVE  u.doc[d].count = s.doc[d].count + Times(o, d) - Times(c, d)
  <2>1. s.doc[d].count \in Nat /\ Times(o, d) \in Nat /\ Times(c, d) \in Nat
    BY StateIs, PlacesFinite
  <2>2. t.doc[d].count = s.doc[d].count + Times(o, d)
    BY <1>1
  <2>3. u.doc[d].count = t.doc[d].count - Times(c, d)
    BY <1>2
  <2> QED BY <2>1, <2>2, <2>3
<1> QED BY <1>1, <1>2, <1>3, <1>4, <1>5

-----------------------------------------------------------------------------
(* Who uses a document. *)

(* The tabs and the views that have a document. *)
TabPairs(ws, d) ==
  UNION {{w} \X {i \in DOMAIN ws[w].tabs : ws[w].tabs[i] = d} : w \in Windows}
TabsOf(ws, d) == Cardinality(TabPairs(ws, d))
Shows(ws, d)  == Cardinality({w \in Windows : ws[w].shown = d})
InTab(ws, d)  == \E w \in Windows : Has(ws[w].tabs, d)

(* Pairing a set with one element does not change its size.                  *)
LEMMA PairedSize ==
  ASSUME NEW S, NEW e, IsFiniteSet(S)
  PROVE  IsFiniteSet({e} \X S) /\ Cardinality({e} \X S) = Cardinality(S)
<1> DEFINE f == [i \in S |-> <<e, i>>]
<1>1. f \in Bijection(S, {e} \X S)
  BY DEF Bijection, Injection, Surjection, IsInjective
<1> QED BY <1>1, FS_Bijection DEF ExistsBijection

(* There are finitely many tabs, and there is one if a window has it.        *)
LEMMA TabsOfIs ==
  ASSUME NEW ws \in WinType, NEW d
  PROVE  /\ IsFiniteSet(TabPairs(ws, d)) /\ TabsOf(ws, d) \in Nat
         /\ InTab(ws, d) => TabsOf(ws, d) > 0
<1> DEFINE P(w) == {i \in DOMAIN ws[w].tabs : ws[w].tabs[i] = d}
           U == {{w} \X P(w) : w \in Windows}
           f == [w \in Windows |-> {w} \X P(w)]
<1>1. IsFiniteSet(U)
  <2>1. f \in Surjection(Windows, U)
    BY DEF Surjection
  <2>2. IsFiniteSet(Windows)
    BY DocumentWindowAssumption
  <2> HIDE DEF f, U
  <2> QED BY <2>1, <2>2, FS_Surjection
<1>2. \A w \in Windows : IsFiniteSet({w} \X P(w))
  <2> SUFFICES ASSUME NEW w \in Windows PROVE IsFiniteSet({w} \X P(w))
    OBVIOUS
  <2>1. ws[w].tabs \in Seq(Docs)
    BY DEF WinType
  <2>2. IsFiniteSet(P(w))
    BY <2>1, PlacesFinite
  <2> HIDE DEF P
  <2> QED BY <2>2, PairedSize
<1>3. IsFiniteSet(TabPairs(ws, d))
  <2>1. \A T \in U : IsFiniteSet(T)
    BY <1>2
  <2>2. TabPairs(ws, d) = UNION U
    BY DEF TabPairs
  <2> HIDE DEF U
  <2> QED BY <1>1, <2>1, <2>2, FS_UNION
<1>4. InTab(ws, d) => TabPairs(ws, d) # {}
  <2> SUFFICES ASSUME NEW w \in Windows, NEW i \in 1..Len(ws[w].tabs), ws[w].tabs[i] = d
               PROVE  TabPairs(ws, d) # {}
    BY DEF InTab, Has
  <2>1. DOMAIN ws[w].tabs = 1..Len(ws[w].tabs)
    BY DEF WinType
  <2>2. <<w, i>> \in {w} \X P(w)
    BY <2>1
  <2>3. {w} \X P(w) \in U
    OBVIOUS
  <2>4. <<w, i>> \in TabPairs(ws, d)
    BY <2>2, <2>3 DEF TabPairs
  <2> QED BY <2>4
<1>5. TabsOf(ws, d) \in Nat /\ (TabsOf(ws, d) = 0 <=> TabPairs(ws, d) = {})
  BY <1>3, FS_CardinalityType, FS_EmptySet DEF TabsOf
<1> QED BY <1>3, <1>4, <1>5

(* If the tabs of one window change, the numbers change by theirs.           *)
LEMMA TabsChange ==
  ASSUME NEW ws \in WinType, NEW vs \in WinType, NEW w \in Windows, NEW d,
         \A v \in Windows \ {w} : vs[v].tabs = ws[v].tabs
  PROVE  TabsOf(vs, d) + Times(ws[w].tabs, d) = TabsOf(ws, d) + Times(vs[w].tabs, d)
<1> DEFINE P(us, v) == {i \in DOMAIN us[v].tabs : us[v].tabs[i] = d}
           Other == UNION {{v} \X P(ws, v) : v \in Windows \ {w}}
<1>1. \A us \in WinType : IsFiniteSet(P(us, w))
  <2> SUFFICES ASSUME NEW us \in WinType PROVE IsFiniteSet(P(us, w))
    OBVIOUS
  <2>1. us[w].tabs \in Seq(Docs)
    BY DEF WinType
  <2> QED BY <2>1, PlacesFinite
<1>2. \A v \in Windows \ {w} : P(vs, v) = P(ws, v)
  OBVIOUS
<1>3. Other = UNION {{v} \X P(vs, v) : v \in Windows \ {w}}
  <2>1. {{v} \X P(vs, v) : v \in Windows \ {w}} = {{v} \X P(ws, v) : v \in Windows \ {w}}
    BY <1>2
  <2> QED BY <2>1
<1>4. ASSUME NEW us \in WinType, Other = UNION {{v} \X P(us, v) : v \in Windows \ {w}}
      PROVE  /\ TabsOf(us, d) = Cardinality(Other) + Times(us[w].tabs, d)
             /\ Cardinality(Other) \in Nat /\ Times(us[w].tabs, d) \in Nat
  <2> DEFINE Mine == {w} \X P(us, w)
  <2>1. TabPairs(us, d) = Other \cup Mine
    <3>1. ASSUME NEW p \in TabPairs(us, d) PROVE p \in Other \cup Mine
      <4>1. PICK v \in Windows : p \in {v} \X P(us, v)
        BY DEF TabPairs
      <4>2. CASE v = w
        BY <4>1, <4>2
      <4>3. CASE v # w
        <5>1. p \in UNION {{u} \X P(us, u) : u \in Windows \ {w}}
          BY <4>1, <4>3
        <5> HIDE DEF Other
        <5> QED BY <1>4, <5>1
      <4> QED BY <4>2, <4>3
    <3>2. ASSUME NEW p \in Other PROVE p \in TabPairs(us, d)
      <4>1. p \in UNION {{u} \X P(us, u) : u \in Windows \ {w}}
        BY <1>4
      <4>2. PICK v \in Windows \ {w} : p \in {v} \X P(us, v)
        BY <4>1
      <4> QED BY <4>2 DEF TabPairs
    <3>3. ASSUME NEW p \in Mine PROVE p \in TabPairs(us, d)
      BY DEF TabPairs
    <3> HIDE DEF Other, Mine
    <3> QED BY <3>1, <3>2, <3>3
  <2>2. Other \cap Mine = {}
    <3> SUFFICES ASSUME NEW p \in Other, p \in Mine PROVE FALSE
      OBVIOUS
    <3>1. PICK v \in Windows \ {w} : p \in {v} \X P(ws, v)
      OBVIOUS
    <3>2. p[1] = v /\ p[1] = w
      BY <3>1
    <3> QED BY <3>2
  <2>3. IsFiniteSet(Mine) /\ Cardinality(Mine) = Times(us[w].tabs, d)
    <3>1. IsFiniteSet(P(us, w)) /\ Times(us[w].tabs, d) = Cardinality(P(us, w))
      BY <1>1 DEF Times
    <3> HIDE DEF P
    <3> QED BY <3>1, PairedSize
  <2>4. IsFiniteSet(TabPairs(us, d))
    BY TabsOfIs
  <2> HIDE DEF Other, Mine
  <2>5. IsFiniteSet(Other)
    <3>1. Other \in SUBSET TabPairs(us, d)
      BY <2>1
    <3> QED BY <2>4, <3>1, FS_Subset
  <2>6. Cardinality(Other \cup Mine) = Cardinality(Other) + Cardinality(Mine) - Cardinality({})
    BY <2>2, <2>3, <2>5, FS_Union
  <2>7. Cardinality({}) = 0 /\ Cardinality(Other) \in Nat /\ Cardinality(Mine) \in Nat
    BY <2>3, <2>5, FS_EmptySet, FS_CardinalityType
  <2> QED BY <2>1, <2>3, <2>6, <2>7 DEF TabsOf
<1>5. /\ TabsOf(ws, d) = Cardinality(Other) + Times(ws[w].tabs, d)
      /\ Cardinality(Other) \in Nat /\ Times(ws[w].tabs, d) \in Nat
  <2> HIDE DEF Other
  <2>1. Other = UNION {{v} \X P(ws, v) : v \in Windows \ {w}}
    BY DEF Other
  <2> QED BY <1>4, <2>1
<1>6. /\ TabsOf(vs, d) = Cardinality(Other) + Times(vs[w].tabs, d)
      /\ Times(vs[w].tabs, d) \in Nat
  <2> HIDE DEF Other
  <2> QED BY <1>3, <1>4
<1> QED BY <1>5, <1>6

(* The same of the windows that show a document. *)
LEMMA ShowsChange ==
  ASSUME NEW ws \in WinType, NEW vs \in WinType, NEW w \in Windows, NEW d,
         \A v \in Windows \ {w} : vs[v].shown = ws[v].shown
  PROVE  /\ Shows(vs, d) + (IF ws[w].shown = d THEN 1 ELSE 0)
              = Shows(ws, d) + (IF vs[w].shown = d THEN 1 ELSE 0)
         /\ Shows(ws, d) \in Nat /\ Shows(vs, d) \in Nat
<1> DEFINE S == {v \in Windows : ws[v].shown = d}
           T == {v \in Windows : vs[v].shown = d}
<1>1. S \ {w} = T \ {w} /\ S \in SUBSET Windows /\ T \in SUBSET Windows
  OBVIOUS
<1>2. IsFiniteSet(Windows)
  BY DocumentWindowAssumption
<1>3. (w \in S <=> ws[w].shown = d) /\ (w \in T <=> vs[w].shown = d)
  OBVIOUS
<1>4. Shows(ws, d) = Cardinality(S) /\ Shows(vs, d) = Cardinality(T)
  BY DEF Shows
<1> HIDE DEF S, T
<1>5. IsFiniteSet(S) /\ IsFiniteSet(T) /\ Cardinality(S) \in Nat /\ Cardinality(T) \in Nat
  BY <1>1, <1>2, FS_Subset, FS_CardinalityType
<1>6. Cardinality(T) + (IF w \in S THEN 1 ELSE 0) = Cardinality(S) + (IF w \in T THEN 1 ELSE 0)
  BY <1>1, <1>5, OneDiffers
<1> QED BY <1>3, <1>4, <1>5, <1>6

(* A document that is shown is so by a window or more.                       *)
LEMMA ShowsIs ==
  ASSUME NEW ws, NEW d
  PROVE  /\ IsFiniteSet({w \in Windows : ws[w].shown = d}) /\ Shows(ws, d) \in Nat
         /\ (\E w \in Windows : ws[w].shown = d) => Shows(ws, d) > 0
<1> DEFINE S == {v \in Windows : ws[v].shown = d}
<1>1. S \in SUBSET Windows /\ IsFiniteSet(Windows)
  BY DocumentWindowAssumption
<1>2. (\E w \in Windows : ws[w].shown = d) => S # {}
  OBVIOUS
<1>3. Shows(ws, d) = Cardinality(S)
  BY DEF Shows
<1> HIDE DEF S
<1>4. IsFiniteSet(S)
  BY <1>1, FS_Subset
<1>5. Cardinality(S) \in Nat /\ (Cardinality(S) = 0 <=> S = {})
  BY <1>4, FS_CardinalityType, FS_EmptySet
<1> QED BY <1>2, <1>3, <1>4, <1>5 DEF S

-----------------------------------------------------------------------------
(* Holds, and what rearranges them. *)

(* How many windows wait for a document to be loaded. *)
Waits(r) == Len(r.waiting)

(* In how many tabs and views it is. *)
Uses(ws, d) == TabsOf(ws, d) + Shows(ws, d)

(* What is used is counted. *)
LEMMA UsesIs ==
  ASSUME NEW ws \in WinType, NEW d
  PROVE  /\ Uses(ws, d) \in Nat
         /\ Uses(ws, d) = 0 => ~InTab(ws, d) /\ ~\E w \in Windows : ws[w].shown = d
<1>1. /\ TabsOf(ws, d) \in Nat /\ (InTab(ws, d) => TabsOf(ws, d) > 0)
      /\ Shows(ws, d) \in Nat /\ ((\E w \in Windows : ws[w].shown = d) => Shows(ws, d) > 0)
  BY TabsOfIs, ShowsIs
<1> QED BY <1>1 DEF Uses

(* Each document has a hold for each of its uses, and as many more as x says *)
(* there are outside of the windows.                                         *)
Hold(s, x) ==
  /\ s \in States
  /\ \A d \in Docs :
       /\ s.doc[d].count >= Uses(s.win, d) + Waits(s.doc[d]) + x[d]
       /\ s.doc[d].edited => s.doc[d].loaded
       /\ s.doc[d].loaded => s.doc[d].waiting = <<>>
       /\ (\E w \in Windows : s.win[w].shown = d) => s.doc[d].loaded
  /\ \A w \in Windows : s.win[w].state # "open" => s.win[w].tabs = <<>>

(* Nothing is edited that was not, and what is in a tab stays so.            *)
Rel(s, t) ==
  \A d \in Docs : /\ t.doc[d].edited => s.doc[d].edited
                  /\ s.doc[d].edited /\ InTab(t.win, d) => t.doc[d].edited

(* If the holds that are taken and given back make up for the uses that come *)
(* and go, every document has its holds, and what is in use is not reset.    *)
LEMMA Rebalance ==
  ASSUME NEW s, NEW ws \in WinType, NEW o \in Seq(Docs), NEW c \in Seq(Docs),
         NEW x \in [Docs -> Nat], NEW y \in [Docs -> Nat], Hold(s, x),
         \A d \in Docs : Uses(ws, d) + y[d] + Times(c, d)
                           <= Uses(s.win, d) + x[d] + Times(o, d),
         \A w \in Windows : ws[w].shown = s.win[w].shown
                              \/ (ws[w].shown \in Docs => s.doc[ws[w].shown].loaded),
         \A w \in Windows : ws[w].state # "open" => ws[w].tabs = <<>>
  PROVE  LET t == [win |-> ws, doc |-> OpenClose(s, o, c).doc]
         IN  Hold(t, y) /\ Rel(s, t) /\ OpenClose(s, o, c) = [win |-> s.win, doc |-> t.doc]
<1> DEFINE q == OpenClose(s, o, c).doc
           t == [win |-> ws, doc |-> q]
<1>1. s \in States /\ s.win \in WinType
  BY StateIs DEF Hold
<1>2. \A d \in Docs :
        /\ Uses(ws, d) \in Nat /\ Uses(s.win, d) \in Nat
        /\ Times(c, d) \in Nat /\ Times(o, d) \in Nat /\ x[d] \in Nat /\ y[d] \in Nat
        /\ s.doc[d].count \in Nat /\ Waits(s.doc[d]) \in Nat
  <2>1. \A d \in Docs : Uses(ws, d) \in Nat /\ Uses(s.win, d) \in Nat
    BY <1>1, UsesIs
  <2>2. \A d \in Docs : Times(c, d) \in Nat /\ Times(o, d) \in Nat
    BY PlacesFinite
  <2>3. \A d \in Docs : s.doc[d].count \in Nat /\ s.doc[d].waiting \in Seq(Windows)
    BY <1>1, StateIs
  <2>4. \A d \in Docs : x[d] \in Nat /\ y[d] \in Nat
    OBVIOUS
  <2>5. \A d \in Docs : Waits(s.doc[d]) \in Nat
    BY <2>3 DEF Waits
  <2> QED BY <2>1, <2>2, <2>3, <2>4, <2>5
<1>3. \A d \in Docs :
        s.doc[d].count >= Uses(s.win, d) + Waits(s.doc[d]) + x[d]
  BY DEF Hold
<1>4. ASSUME NEW d \in Docs
      PROVE  /\ s.doc[d].count + Times(o, d) - Times(c, d)
                  >= Uses(ws, d) + Waits(s.doc[d]) + y[d]
             /\ s.doc[d].count + Times(o, d) >= Times(c, d)
  <2> DEFINE n == s.doc[d].count
             waits == Waits(s.doc[d])
             xd == x[d]
             yd == y[d]
             new == Uses(ws, d)
             old == Uses(s.win, d)
             to == Times(o, d)
             tc == Times(c, d)
  <2>1. new + yd + tc <= old + xd + to
    OBVIOUS
  <2>2. n >= old + waits + xd
    BY <1>3
  <2>3. /\ new \in Nat /\ old \in Nat /\ tc \in Nat /\ to \in Nat
        /\ xd \in Nat /\ yd \in Nat /\ n \in Nat /\ waits \in Nat
    BY <1>2
  <2> HIDE DEF n, waits, xd, yd, new, old, to, tc
  <2>4. n + to - tc >= new + waits + yd /\ n + to >= tc
    BY ONLY <2>1, <2>2, <2>3
  <2> QED BY <2>4 DEF n, waits, xd, yd, new, old, to, tc
<1>5. /\ OpenClose(s, o, c) \in States /\ OpenClose(s, o, c).win = s.win
      /\ \A d \in Docs : /\ Same(q[d], s.doc[d]) \/ Reset(q[d])
                         /\ q[d].count = s.doc[d].count + Times(o, d) - Times(c, d)
  BY <1>1, <1>4, OpenCloseIs
<1>6. q \in [Docs -> DocRecord]
  BY <1>5, StateIs
<1>7. t \in States /\ t.win = ws /\ t.doc = q
  BY <1>6, StateIs
<1>11. OpenClose(s, o, c) = [win |-> s.win, doc |-> q]
  BY <1>5, StateIs
<1> HIDE DEF q, t
<1>8. ASSUME NEW d \in Docs, Reset(q[d])
      PROVE  ~InTab(ws, d) /\ ~\E w \in Windows : ws[w].shown = d
  <2>1. q[d].count = 0
    BY <1>8 DEF Reset
  <2>2. Uses(ws, d) = 0
    <3>1. 0 >= Uses(ws, d) + Waits(s.doc[d]) + y[d]
      BY <1>4, <1>5, <2>1
    <3>2. /\ Uses(ws, d) \in Nat /\ y[d] \in Nat
          /\ Waits(s.doc[d]) \in Nat
      BY <1>2
    <3> QED BY ONLY <3>1, <3>2
  <2> QED BY <2>2, UsesIs
<1>9. Rel(s, t)
  <2> SUFFICES ASSUME NEW d \in Docs
               PROVE  /\ q[d].edited => s.doc[d].edited
                      /\ s.doc[d].edited /\ InTab(ws, d) => q[d].edited
    BY <1>7 DEF Rel
  <2>1. CASE Same(q[d], s.doc[d])
    BY <2>1 DEF Same
  <2>2. CASE Reset(q[d])
    BY <1>8, <2>2 DEF Reset
  <2> QED BY <1>5, <2>1, <2>2
<1>10. Hold(t, y)
  <2>1. ASSUME NEW d \in Docs
        PROVE  /\ q[d].count >= Uses(ws, d) + Waits(q[d]) + y[d]
               /\ q[d].edited => q[d].loaded
               /\ q[d].loaded => q[d].waiting = <<>>
               /\ (\E w \in Windows : ws[w].shown = d) => q[d].loaded
    <3>1. /\ s.doc[d].edited => s.doc[d].loaded
          /\ s.doc[d].loaded => s.doc[d].waiting = <<>>
          /\ (\E w \in Windows : s.win[w].shown = d) => s.doc[d].loaded
      BY DEF Hold
    <3>2. q[d].count >= Uses(ws, d) + Waits(s.doc[d]) + y[d]
      BY <1>4, <1>5
    <3>3. CASE Same(q[d], s.doc[d])
      BY <3>1, <3>2, <3>3 DEF Same, Waits
    <3>4. CASE Reset(q[d])
      <4>1. Waits(q[d]) = 0 /\ ~q[d].loaded /\ ~q[d].edited
        BY <3>4 DEF Reset, Waits
      <4>2. /\ Uses(ws, d) \in Nat /\ y[d] \in Nat
            /\ Waits(s.doc[d]) \in Nat
        BY <1>2
      <4>3. q[d].count \in Nat
        BY <1>6 DEF DocRecord
      <4>4. q[d].count >= Uses(ws, d) + Waits(q[d]) + y[d]
        BY ONLY <3>2, <4>1, <4>2, <4>3
      <4> QED BY <1>8, <3>4, <4>1, <4>4
    <3> QED BY <1>5, <3>3, <3>4
  <2> QED BY <1>7, <2>1 DEF Hold
<1> QED BY <1>7, <1>9, <1>10, <1>11 DEF t, q

(* A state is its own. *)
LEMMA RelRefl ==
  ASSUME NEW s PROVE Rel(s, s)
BY DEF Rel

(* From one rearrangement to the next, if that brings no tabs.               *)
LEMMA RelTrans ==
  ASSUME NEW s, NEW t, NEW u, Rel(s, t), Rel(t, u),
         \A d \in Docs : InTab(u.win, d) => InTab(t.win, d)
  PROVE  Rel(s, u)
BY DEF Rel

(* A window whose tabs and shown document are as before. *)
LEMMA OtherFields ==
  ASSUME NEW s, NEW ws \in WinType, NEW x, Hold(s, x),
         \A v \in Windows : ws[v].tabs = s.win[v].tabs /\ ws[v].shown = s.win[v].shown,
         \A v \in Windows : ws[v].state # "open" => ws[v].tabs = <<>>
  PROVE  LET t == [win |-> ws, doc |-> s.doc] IN Hold(t, x) /\ Rel(s, t)
<1> DEFINE t == [win |-> ws, doc |-> s.doc]
<1>1. t \in States /\ t.win = ws /\ t.doc = s.doc
  BY StateIs DEF Hold
<1>2. \A d : Shows(ws, d) = Shows(s.win, d)
  <2> SUFFICES ASSUME NEW d PROVE Shows(ws, d) = Shows(s.win, d)
    OBVIOUS
  <2>1. {v \in Windows : ws[v].shown = d} = {v \in Windows : s.win[v].shown = d}
    OBVIOUS
  <2> QED BY <2>1 DEF Shows
<1>3. \A d : TabsOf(ws, d) = TabsOf(s.win, d)
  <2> SUFFICES ASSUME NEW d PROVE TabsOf(ws, d) = TabsOf(s.win, d)
    OBVIOUS
  <2>1. \A v \in Windows : {i \in DOMAIN ws[v].tabs : ws[v].tabs[i] = d}
                             = {i \in DOMAIN s.win[v].tabs : s.win[v].tabs[i] = d}
    OBVIOUS
  <2>2. {{v} \X {i \in DOMAIN ws[v].tabs : ws[v].tabs[i] = d} : v \in Windows}
          = {{v} \X {i \in DOMAIN s.win[v].tabs : s.win[v].tabs[i] = d} : v \in Windows}
    BY <2>1
  <2> QED BY <2>2 DEF TabsOf, TabPairs
<1> HIDE DEF t
<1>6. \A d : Uses(ws, d) = Uses(s.win, d)
  BY <1>2, <1>3 DEF Uses
<1>4. Hold(t, x)
  BY <1>1, <1>6 DEF Hold
<1>5. Rel(s, t)
  BY <1>1 DEF Rel
<1> QED BY <1>4, <1>5 DEF t

(* Only open windows have tabs. *)
MayHave(s, w, tabs) == s.win[w].state = "open" \/ tabs = <<>>

(* setDocuments: moves the holds of the old tabs to the new ones.            *)
LEMMA SetDocumentsIs ==
  ASSUME NEW s, NEW x \in [Docs -> Nat], Hold(s, x), NEW w \in Windows, NEW tabs \in Seq(Docs),
         MayHave(s, w, tabs)
  PROVE  LET t == SetDocuments(s, w, tabs)
         IN  /\ Hold(t, x) /\ Rel(s, t)
             /\ \A v \in Windows \ {w} : t.win[v] = s.win[v]
             /\ t.win[w].tabs = tabs /\ t.win[w].state = s.win[w].state
             /\ t.win[w].index = s.win[w].index /\ t.win[w].shown = s.win[w].shown
<1> DEFINE t == SetDocuments(s, w, tabs)
           old == s.win[w].tabs
           ws == [s.win EXCEPT ![w].tabs = tabs]
           u == OpenClose(s, tabs, old)
<1>1. s \in States /\ s.win \in WinType /\ old \in Seq(Docs)
  BY StateIs DEF Hold
<1>2. /\ ws \in WinType /\ \A v \in Windows \ {w} : ws[v] = s.win[v]
      /\ ws[w].tabs = tabs /\ ws[w].state = s.win[w].state
      /\ ws[w].index = s.win[w].index /\ ws[w].shown = s.win[w].shown
  BY <1>1 DEF WinType
<1> HIDE DEF ws
<1>3. \A d \in Docs :
        /\ TabsOf(ws, d) + Times(old, d) = TabsOf(s.win, d) + Times(tabs, d)
        /\ TabsOf(ws, d) \in Nat /\ TabsOf(s.win, d) \in Nat
        /\ Times(old, d) \in Nat /\ Times(tabs, d) \in Nat
  <2> SUFFICES ASSUME NEW d \in Docs
               PROVE  /\ TabsOf(ws, d) + Times(old, d) = TabsOf(s.win, d) + Times(tabs, d)
                      /\ TabsOf(ws, d) \in Nat /\ TabsOf(s.win, d) \in Nat
                      /\ Times(old, d) \in Nat /\ Times(tabs, d) \in Nat
    OBVIOUS
  <2>1. \A v \in Windows \ {w} : ws[v].tabs = s.win[v].tabs
    BY <1>2
  <2>2. TabsOf(ws, d) + Times(old, d) = TabsOf(s.win, d) + Times(tabs, d)
    BY <1>1, <1>2, <2>1, TabsChange
  <2> QED BY <1>1, <1>2, <2>2, TabsOfIs, PlacesFinite
<1>4. \A d \in Docs : Shows(ws, d) = Shows(s.win, d) /\ Shows(ws, d) \in Nat
  <2> SUFFICES ASSUME NEW d \in Docs PROVE Shows(ws, d) = Shows(s.win, d) /\ Shows(ws, d) \in Nat
    OBVIOUS
  <2>1. {v \in Windows : ws[v].shown = d} = {v \in Windows : s.win[v].shown = d}
    BY <1>2
  <2> QED BY <2>1, ShowsIs DEF Shows
<1>5. \A d \in Docs : x[d] \in Nat
  OBVIOUS
<1>6. \A d \in Docs : Uses(ws, d) + x[d] + Times(old, d)
                        <= Uses(s.win, d) + x[d] + Times(tabs, d)
  <2> SUFFICES ASSUME NEW d \in Docs
               PROVE  Uses(ws, d) + x[d] + Times(old, d)
                        <= Uses(s.win, d) + x[d] + Times(tabs, d)
    OBVIOUS
  <2> DEFINE xd == x[d]
             to == Times(old, d)
             tn == Times(tabs, d)
  <2>1. /\ TabsOf(ws, d) + to = TabsOf(s.win, d) + tn
        /\ TabsOf(ws, d) \in Nat /\ TabsOf(s.win, d) \in Nat /\ to \in Nat /\ tn \in Nat
    BY <1>3
  <2>2. /\ Shows(ws, d) = Shows(s.win, d) /\ Shows(ws, d) \in Nat
        /\ Uses(ws, d) = TabsOf(ws, d) + Shows(ws, d)
        /\ Uses(s.win, d) = TabsOf(s.win, d) + Shows(s.win, d) /\ xd \in Nat
    BY <1>4, <1>5 DEF Uses
  <2> HIDE DEF xd, to, tn
  <2>3. Uses(ws, d) + xd + to <= Uses(s.win, d) + xd + tn
    BY ONLY <2>1, <2>2
  <2> QED BY <2>3 DEF xd, to, tn
<1>7. \A v \in Windows : ws[v].shown = s.win[v].shown
  BY <1>2
<1>8. \A v \in Windows : ws[v].state # "open" => ws[v].tabs = <<>>
  BY <1>2 DEF Hold, MayHave
<1>9. LET r == [win |-> ws, doc |-> u.doc]
      IN  Hold(r, x) /\ Rel(s, r) /\ u = [win |-> s.win, doc |-> r.doc]
  <2> HIDE DEF old
  <2> QED BY <1>1, <1>2, <1>6, <1>7, <1>8, Rebalance
<1>10. u.win = s.win /\ u = [win |-> u.win, doc |-> u.doc]
  <2> HIDE DEF u
  <2> QED BY <1>9
<1>11. t = [win |-> ws, doc |-> u.doc]
  <2> HIDE DEF u
  <2>1. [u EXCEPT !.win[w].tabs = tabs] = [win |-> [u.win EXCEPT ![w].tabs = tabs], doc |-> u.doc]
    BY <1>10
  <2> QED BY <1>10, <2>1 DEF SetDocuments, u, ws
<1> HIDE DEF t, u
<1>12. Hold(t, x) /\ Rel(s, t) /\ t.win = ws
  BY <1>9, <1>11
<1> QED BY <1>2, <1>12 DEF t

(* setSelectedTabIndex: *)
LEMMA SetIndexIs ==
  ASSUME NEW s, NEW x, Hold(s, x), NEW w \in Windows, NEW i \in Nat
  PROVE  LET t == SetIndex(s, w, i)
         IN  /\ Hold(t, x) /\ Rel(s, t) /\ t.doc = s.doc
             /\ \A v \in Windows \ {w} : t.win[v] = s.win[v]
             /\ t.win[w].tabs = s.win[w].tabs /\ t.win[w].state = s.win[w].state
             /\ t.win[w].index = i /\ t.win[w].shown = s.win[w].shown
<1> DEFINE ws == [s.win EXCEPT ![w].index = i]
<1>1. s \in States /\ s.win \in WinType /\ s = [win |-> s.win, doc |-> s.doc]
  BY StateIs DEF Hold
<1>2. /\ ws \in WinType /\ \A v \in Windows \ {w} : ws[v] = s.win[v]
      /\ ws[w].tabs = s.win[w].tabs /\ ws[w].state = s.win[w].state
      /\ ws[w].index = i /\ ws[w].shown = s.win[w].shown
  BY <1>1 DEF WinType
<1>3. SetIndex(s, w, i) = [win |-> ws, doc |-> s.doc]
  BY <1>1 DEF SetIndex
<1> HIDE DEF ws
<1>4. \A v \in Windows : ws[v].state # "open" => ws[v].tabs = <<>>
  BY <1>2 DEF Hold
<1>5. LET t == [win |-> ws, doc |-> s.doc] IN Hold(t, x) /\ Rel(s, t)
  BY <1>2, <1>4, OtherFields
<1> QED BY <1>2, <1>3, <1>5

(* A window opens or closes. *)
WithState(s, w, a) == [s EXCEPT !.win[w].state = a]

(* The state of a window. *)
LEMMA SetStateIs ==
  ASSUME NEW s, NEW x, Hold(s, x), NEW w \in Windows, NEW a \in {"open", "closed"},
         a = "open" \/ s.win[w].tabs = <<>>
  PROVE  LET t == WithState(s, w, a)
         IN  /\ Hold(t, x) /\ Rel(s, t) /\ t.doc = s.doc
             /\ \A v \in Windows \ {w} : t.win[v] = s.win[v]
             /\ t.win[w].tabs = s.win[w].tabs /\ t.win[w].state = a
             /\ t.win[w].index = s.win[w].index /\ t.win[w].shown = s.win[w].shown
<1> DEFINE ws == [s.win EXCEPT ![w].state = a]
<1>1. s \in States /\ s.win \in WinType /\ s = [win |-> s.win, doc |-> s.doc]
  BY StateIs DEF Hold
<1>2. /\ ws \in WinType /\ \A v \in Windows \ {w} : ws[v] = s.win[v]
      /\ ws[w].tabs = s.win[w].tabs /\ ws[w].state = a
      /\ ws[w].index = s.win[w].index /\ ws[w].shown = s.win[w].shown
  BY <1>1 DEF WinType
<1>3. WithState(s, w, a) = [win |-> ws, doc |-> s.doc]
  BY <1>1 DEF WithState
<1> HIDE DEF ws
<1>4. \A v \in Windows : ws[v].state # "open" => ws[v].tabs = <<>>
  BY <1>2 DEF Hold
<1>5. LET t == [win |-> ws, doc |-> s.doc] IN Hold(t, x) /\ Rel(s, t)
  BY <1>2, <1>4, OtherFields
<1> QED BY <1>2, <1>3, <1>5

(* windowWillClose: *)
LEMMA CloseWindowIs ==
  ASSUME NEW s, NEW x \in [Docs -> Nat], Hold(s, x), NEW w \in Windows
  PROVE  LET t == CloseWindow(s, w)
         IN  /\ Hold(t, x) /\ Rel(s, t)
             /\ \A v \in Windows \ {w} : t.win[v] = s.win[v]
             /\ t.win[w].tabs = <<>> /\ t.win[w].state = "closed"
<1> DEFINE none == <<>>
           q == SetDocuments(s, w, none)
           t == WithState(q, w, "closed")
<1>1. /\ Hold(q, x) /\ Rel(s, q)
      /\ \A v \in Windows \ {w} : q.win[v] = s.win[v]
      /\ q.win[w].tabs = <<>>
  <2>1. none \in Seq(Docs)
    OBVIOUS
  <2>4. MayHave(s, w, none)
    BY DEF MayHave
  <2>2. none = <<>>
    OBVIOUS
  <2> HIDE DEF none
  <2>3. /\ Hold(SetDocuments(s, w, none), x) /\ Rel(s, SetDocuments(s, w, none))
        /\ \A v \in Windows \ {w} : SetDocuments(s, w, none).win[v] = s.win[v]
        /\ SetDocuments(s, w, none).win[w].tabs = none
    BY <2>1, <2>4, SetDocumentsIs
  <2> QED BY <2>2, <2>3
<1> HIDE DEF q
<1>2. /\ Hold(t, x) /\ Rel(q, t) /\ \A v \in Windows \ {w} : t.win[v] = q.win[v]
      /\ t.win[w].tabs = q.win[w].tabs /\ t.win[w].state = "closed"
  BY <1>1, SetStateIs
<1>3. CloseWindow(s, w) = t
  BY DEF CloseWindow, WithState, q
<1> HIDE DEF t
<1>4. Rel(s, t)
  <2>1. \A v \in Windows : t.win[v].tabs = q.win[v].tabs
    BY <1>1, <1>2
  <2>2. \A d \in Docs : InTab(t.win, d) => InTab(q.win, d)
    BY <2>1 DEF InTab
  <2> QED BY <1>1, <1>2, <2>2, RelTrans
<1> QED BY <1>1, <1>2, <1>3, <1>4

(* setSelectedDocument: moves the hold of the view.                          *)
LEMMA SetSelectedIs ==
  ASSUME NEW s, NEW x \in [Docs -> Nat], Hold(s, x), NEW w \in Windows, NEW d \in Docs,
         s.doc[d].loaded
  PROVE  LET t == SetSelected(s, w, d)
         IN  /\ Hold(t, x) /\ Rel(s, t)
             /\ \A v \in Windows \ {w} : t.win[v] = s.win[v]
             /\ t.win[w].tabs = s.win[w].tabs /\ t.win[w].state = s.win[w].state
             /\ t.win[w].index = s.win[w].index /\ t.win[w].shown = d
<1> DEFINE t == SetSelected(s, w, d)
           old == s.win[w].shown
           ws == [s.win EXCEPT ![w].shown = d]
           c == IF old = NoDoc THEN <<>> ELSE <<old>>
           u == OpenClose(s, <<d>>, c)
<1>1. s \in States /\ s.win \in WinType /\ old \in Docs \cup {NoDoc} /\ NoDoc \notin Docs
  BY StateIs, DocumentWindowAssumption DEF Hold
<1>2. CASE old = d
  <2>1. t = s
    BY <1>2 DEF SetSelected
  <2> QED BY <1>2, <2>1, RelRefl
<1>3. CASE old # d
  <2>2. /\ ws \in WinType /\ \A v \in Windows \ {w} : ws[v] = s.win[v]
        /\ ws[w].tabs = s.win[w].tabs /\ ws[w].state = s.win[w].state
        /\ ws[w].index = s.win[w].index /\ ws[w].shown = d
    BY <1>1 DEF WinType
  <2> HIDE DEF ws
  <2>3. c \in Seq(Docs) /\ <<d>> \in Seq(Docs)
    BY <1>1
  <2>4. \A e \in Docs : Times(c, e) = (IF old = e THEN 1 ELSE 0)
                        /\ Times(<<d>>, e) = (IF d = e THEN 1 ELSE 0)
    BY <1>1, TimesFew
  <2>5. \A e \in Docs : TabsOf(ws, e) = TabsOf(s.win, e) /\ TabsOf(ws, e) \in Nat
    <3> SUFFICES ASSUME NEW e \in Docs
                 PROVE  TabsOf(ws, e) = TabsOf(s.win, e) /\ TabsOf(ws, e) \in Nat
      OBVIOUS
    <3>1. \A v \in Windows \ {w} : ws[v].tabs = s.win[v].tabs
      BY <2>2
    <3>2. TabsOf(ws, e) + Times(s.win[w].tabs, e) = TabsOf(s.win, e) + Times(ws[w].tabs, e)
      BY <1>1, <2>2, <3>1, TabsChange
    <3>3. Times(s.win[w].tabs, e) \in Nat
      <4>1. s.win[w].tabs \in Seq(Docs)
        BY <1>1, StateIs
      <4> QED BY <4>1, PlacesFinite
    <3> QED BY <1>1, <2>2, <3>2, <3>3, TabsOfIs
  <2>6. \A e \in Docs : /\ Shows(ws, e) + (IF old = e THEN 1 ELSE 0)
                             = Shows(s.win, e) + (IF d = e THEN 1 ELSE 0)
                        /\ Shows(s.win, e) \in Nat /\ Shows(ws, e) \in Nat
    <3> SUFFICES ASSUME NEW e \in Docs
                 PROVE  /\ Shows(ws, e) + (IF old = e THEN 1 ELSE 0)
                             = Shows(s.win, e) + (IF d = e THEN 1 ELSE 0)
                        /\ Shows(s.win, e) \in Nat /\ Shows(ws, e) \in Nat
      OBVIOUS
    <3>1. \A v \in Windows \ {w} : ws[v].shown = s.win[v].shown
      BY <2>2
    <3> QED BY <1>1, <2>2, <3>1, ShowsChange
  <2>7. \A e \in Docs : Uses(ws, e) + x[e] + Times(c, e)
                          <= Uses(s.win, e) + x[e] + Times(<<d>>, e)
    <3>1. \A e \in Docs : x[e] \in Nat
      OBVIOUS
    <3> SUFFICES ASSUME NEW e \in Docs
                 PROVE  Uses(ws, e) + x[e] + Times(c, e)
                          <= Uses(s.win, e) + x[e] + Times(<<d>>, e)
      OBVIOUS
    <3> DEFINE xe == x[e]
               io == IF old = e THEN 1 ELSE 0
               id == IF d = e THEN 1 ELSE 0
               tc == Times(c, e)
               td == Times(<<d>>, e)
    <3>2. xe \in Nat /\ tc = io /\ td = id /\ io \in Nat /\ id \in Nat
      BY <2>4, <3>1
    <3>3. TabsOf(ws, e) = TabsOf(s.win, e) /\ TabsOf(ws, e) \in Nat
      BY <2>5
    <3>4. /\ Shows(ws, e) + io = Shows(s.win, e) + id
          /\ Shows(s.win, e) \in Nat /\ Shows(ws, e) \in Nat
      BY <2>6
    <3>5. /\ Uses(ws, e) = TabsOf(ws, e) + Shows(ws, e)
          /\ Uses(s.win, e) = TabsOf(s.win, e) + Shows(s.win, e)
      BY DEF Uses
    <3> HIDE DEF xe, io, id, tc, td
    <3>6. Uses(ws, e) + xe + tc <= Uses(s.win, e) + xe + td
      BY ONLY <3>2, <3>3, <3>4, <3>5
    <3> QED BY <3>6 DEF xe, tc, td
  <2>8. \A v \in Windows : \/ ws[v].shown = s.win[v].shown
                           \/ ws[v].shown \in Docs => s.doc[ws[v].shown].loaded
    BY <2>2
  <2>9. \A v \in Windows : ws[v].state # "open" => ws[v].tabs = <<>>
    BY <2>2 DEF Hold
  <2>10. LET r == [win |-> ws, doc |-> u.doc]
         IN  Hold(r, x) /\ Rel(s, r) /\ u = [win |-> s.win, doc |-> r.doc]
    <3> HIDE DEF c
    <3> QED BY <2>2, <2>3, <2>7, <2>8, <2>9, Rebalance
  <2>11. t = [u EXCEPT !.win[w].shown = d]
    BY <1>3 DEF SetSelected
  <2>12. t = [win |-> ws, doc |-> u.doc]
    <3> HIDE DEF u
    <3>1. u = [win |-> s.win, doc |-> u.doc]
      BY <2>10
    <3> HIDE DEF t
    <3> QED BY <2>11, <3>1 DEF ws
  <2> HIDE DEF t, u
  <2>13. Hold(t, x) /\ Rel(s, t) /\ t.win = ws
    BY <2>10, <2>12
  <2> QED BY <2>2, <2>13 DEF t
<1> QED BY <1>2, <1>3

(* openAndSelectDocument:activate: holds the document until it is loaded.    *)
LEMMA OpenAndSelectIs ==
  ASSUME NEW s, NEW x \in [Docs -> Nat], Hold(s, x), NEW w \in Windows, NEW d \in Docs
  PROVE  LET t == OpenAndSelect(s, w, d)
         IN  /\ Hold(t, x) /\ Rel(s, t)
             /\ \A v \in Windows \ {w} : t.win[v] = s.win[v]
             /\ t.win[w].tabs = s.win[w].tabs /\ t.win[w].state = s.win[w].state
             /\ t.win[w].index = s.win[w].index
<1> DEFINE t == OpenAndSelect(s, w, d)
           r == [s.doc[d] EXCEPT !.count = @ + 1, !.waiting = Append(@, w)]
<1>1. CASE s.doc[d].loaded
  <2>1. t = SetSelected(s, w, d)
    BY <1>1 DEF OpenAndSelect
  <2> QED BY <1>1, <2>1, SetSelectedIs
<1>2. CASE ~s.doc[d].loaded
  <2>1. /\ s \in States /\ s.doc \in [Docs -> DocRecord] /\ s.doc[d] \in DocRecord
        /\ s = [win |-> s.win, doc |-> s.doc] /\ s.win \in WinType
    BY StateIs DEF Hold
  <2>2. t = [win |-> s.win, doc |-> [s.doc EXCEPT ![d] = r]]
    BY <1>2, <2>1 DEF OpenAndSelect
  <2>3. /\ r \in DocRecord /\ r.count = s.doc[d].count + 1
        /\ Waits(r) = Waits(s.doc[d]) + 1 /\ s.doc[d].waiting \in Seq(Windows)
        /\ r.loaded = s.doc[d].loaded /\ r.edited = s.doc[d].edited
    <3>1. /\ s.doc[d].count \in Nat /\ s.doc[d].waiting \in Seq(Windows)
          /\ s.doc[d].loaded \in BOOLEAN /\ s.doc[d].edited \in BOOLEAN
          /\ s.doc[d].path \in BOOLEAN
      BY <2>1 DEF DocRecord
    <3> DEFINE waiting == Append(s.doc[d].waiting, w)
    <3>2. waiting \in Seq(Windows) /\ Len(waiting) = Waits(s.doc[d]) + 1
      BY <3>1, AppendProperties DEF Waits
    <3>3. r = [[s.doc[d] EXCEPT !.count = @ + 1] EXCEPT !.waiting = waiting]
      BY <2>1 DEF DocRecord
    <3>4. s.doc[d].count + 1 \in Nat
      BY <3>1
    <3> HIDE DEF r, waiting
    <3>5. /\ r.count = s.doc[d].count + 1 /\ r.waiting = waiting
          /\ r.loaded = s.doc[d].loaded /\ r.edited = s.doc[d].edited
          /\ r.path = s.doc[d].path /\ r \in DocRecord
      BY <2>1, <3>1, <3>2, <3>3, <3>4 DEF DocRecord
    <3> QED BY <3>1, <3>2, <3>5 DEF Waits
  <2> HIDE DEF t, r
  <2>4. t.win = s.win /\ \A e \in Docs : t.doc[e] = IF e = d THEN r ELSE s.doc[e]
    BY <2>1, <2>2
  <2>5. t \in States
    <3>1. [s.doc EXCEPT ![d] = r] \in [Docs -> DocRecord]
      BY <2>1, <2>3
    <3> QED BY <2>1, <2>2, <3>1, StateIs
  <2>6. ASSUME NEW e \in Docs
        PROVE  /\ t.doc[e].count >= Uses(s.win, e) + Waits(t.doc[e]) + x[e]
               /\ t.doc[e].loaded = s.doc[e].loaded /\ t.doc[e].edited = s.doc[e].edited
               /\ t.doc[e].loaded => t.doc[e].waiting = <<>>
    <3>1. /\ s.doc[e].count >= Uses(s.win, e) + Waits(s.doc[e]) + x[e]
          /\ s.doc[e].loaded => s.doc[e].waiting = <<>>
      BY DEF Hold
    <3>2. CASE e # d
      BY <2>4, <3>1, <3>2
    <3>3. CASE e = d
      <4>1. /\ Uses(s.win, e) \in Nat /\ x[e] \in Nat
            /\ s.doc[e].count \in Nat /\ Waits(s.doc[e]) \in Nat
        <5>1. s.doc[e].count \in Nat
          BY <2>1, StateIs
        <5>2. Waits(s.doc[e]) \in Nat
          BY <2>3, <3>3 DEF Waits
        <5>3. Uses(s.win, e) \in Nat
          BY <2>1, UsesIs
        <5> QED BY <5>1, <5>2, <5>3
      <4>2. t.doc[e] = r
        BY <2>4, <3>3
      <4>3. r.count >= Uses(s.win, e) + Waits(r) + x[e]
        <5> DEFINE n == s.doc[e].count
                   xe == x[e]
                   m == r.count
        <5>1. m = n + 1 /\ Waits(r) = Waits(s.doc[e]) + 1
          BY <2>3, <3>3
        <5>2. n >= Uses(s.win, e) + Waits(s.doc[e]) + xe
          BY <3>1
        <5>3. Uses(s.win, e) \in Nat /\ xe \in Nat /\ n \in Nat /\ Waits(s.doc[e]) \in Nat
          BY <4>1
        <5> HIDE DEF n, xe, m
        <5>4. m >= Uses(s.win, e) + Waits(r) + xe
          BY ONLY <5>1, <5>2, <5>3
        <5> QED BY <5>4 DEF m, xe
      <4> QED BY <1>2, <2>3, <3>3, <4>2, <4>3
    <3> QED BY <3>2, <3>3
  <2>7. Hold(t, x)
    BY <2>4, <2>5, <2>6 DEF Hold
  <2>8. Rel(s, t)
    BY <2>6 DEF Rel
  <2> QED BY <2>4, <2>7, <2>8 DEF t
<1> QED BY <1>1, <1>2

(* insertDocuments:atIndex:selecting:andClosing: keeps what it is not told   *)
(* to close.                                                                 *)
LEMMA InsertIs ==
  ASSUME NEW s, NEW x \in [Docs -> Nat], Hold(s, x), NEW w \in Windows, NEW new \in Docs,
         NEW at \in Nat, NEW selected, NEW closing, s.win[w].state = "open"
  PROVE  LET t == Insert(s, w, new, at, selected, closing)
         IN  /\ Hold(t, x) /\ Rel(s, t)
             /\ \A v \in Windows \ {w} : t.win[v] = s.win[v]
             /\ t.win[w].state = "open" /\ Has(t.win[w].tabs, new)
             /\ \A e \in Docs : Has(s.win[w].tabs, e) /\ e \notin closing => Has(t.win[w].tabs, e)
<1> DEFINE old == s.win[w].tabs
           n == IF at > Len(old) THEN Len(old) ELSE at
           stay == Docs \ (closing \cup {new})
           first == SubSeq(old, 1, n)
           last == SubSeq(old, n + 1, Len(old))
           a == Keep(first, stay)
           b == Keep(last, stay)
           tabs == a \o <<new>> \o b
           q == SetDocuments(s, w, tabs)
           t == SetIndex(q, w, IndexOf(tabs, selected))
<1>1. old \in Seq(Docs) /\ n \in 0..Len(old) /\ Len(old) \in Nat
  <2>1. old \in Seq(Docs)
    BY StateIs DEF Hold
  <2> HIDE DEF old
  <2> QED BY <2>1
<1>2. Insert(s, w, new, at, selected, closing) = t
  BY DEF Insert
<1> HIDE DEF n, old
<1>3. /\ first \in Seq(Docs) /\ Len(first) = n /\ \A i \in 1..n : first[i] = old[i]
      /\ last \in Seq(Docs) /\ Len(last) = Len(old) - n
      /\ \A i \in 1..Len(old) - n : last[i] = old[n + i]
  BY <1>1
<1> HIDE DEF first, last
<1>4. /\ a \in Seq(Docs) /\ b \in Seq(Docs)
      /\ \A k \in 1..n : old[k] \in stay => Has(a, old[k])
      /\ \A k \in 1..Len(old) - n : old[n + k] \in stay => Has(b, old[n + k])
  <2> HIDE DEF stay
  <2>1. a \in Seq(Docs) /\ \A k \in 1..n : first[k] \in stay => Has(a, first[k])
    <3>1. a \in Seq(Docs) /\ \A e : Has(a, e) <=> e \in stay /\ Has(first, e)
      BY <1>3, KeepHas
    <3>2. \A k \in 1..n : Has(first, first[k])
      BY <1>3 DEF Has
    <3> QED BY <3>1, <3>2
  <2>2. /\ b \in Seq(Docs)
        /\ \A k \in 1..Len(old) - n : last[k] \in stay => Has(b, last[k])
    <3>1. b \in Seq(Docs) /\ \A e : Has(b, e) <=> e \in stay /\ Has(last, e)
      BY <1>3, KeepHas
    <3>2. \A k \in 1..Len(old) - n : Has(last, last[k])
      BY <1>3 DEF Has
    <3> QED BY <3>1, <3>2
  <2> HIDE DEF a, b
  <2> QED BY <1>3, <2>1, <2>2
<1> HIDE DEF a, b
<1>5. /\ tabs \in Seq(Docs) /\ Has(tabs, new)
      /\ \A e : Has(a, e) \/ Has(b, e) => Has(tabs, e)
  <2>1. /\ tabs \in Seq(Docs) /\ Len(tabs) = Len(a) + 1 + Len(b)
        /\ Len(a) \in Nat /\ Len(b) \in Nat
        /\ tabs[Len(a) + 1] = new
        /\ \A i \in 1..Len(a) : tabs[i] = a[i]
        /\ \A i \in 1..Len(b) : tabs[Len(a) + 1 + i] = b[i]
    <3> DEFINE c == a \o <<new>>
    <3>1. /\ a \in Seq(Docs) /\ b \in Seq(Docs) /\ <<new>> \in Seq(Docs)
          /\ Len(a) \in Nat /\ Len(b) \in Nat
      BY <1>4
    <3>2. /\ c \in Seq(Docs) /\ Len(c) = Len(a) + 1 /\ c[Len(a) + 1] = new
          /\ \A i \in 1..Len(a) : c[i] = a[i]
      BY <3>1
    <3>3. tabs = c \o b
      OBVIOUS
    <3> HIDE DEF c, tabs
    <3>4. /\ c \o b \in Seq(Docs) /\ Len(c \o b) = Len(c) + Len(b)
          /\ \A i \in 1..Len(c) : (c \o b)[i] = c[i]
          /\ \A i \in 1..Len(b) : (c \o b)[Len(c) + i] = b[i]
      <4>1. /\ c \o b \in Seq(Docs) /\ Len(c \o b) = Len(c) + Len(b)
            /\ \A i \in 1..Len(c) + Len(b) :
                 (c \o b)[i] = IF i <= Len(c) THEN c[i] ELSE b[i - Len(c)]
        BY <3>1, <3>2, ConcatProperties
      <4> DEFINE m == Len(c)
                 p == Len(b)
      <4>2. m \in Nat /\ p \in Nat
        BY <3>1, <3>2
      <4> HIDE DEF m, p
      <4>3. \A i \in 1..m : i \in 1..m + p /\ i <= m
        BY ONLY <4>2
      <4>4. \A i \in 1..p : m + i \in 1..m + p /\ ~(m + i <= m) /\ (m + i) - m = i
        BY ONLY <4>2
      <4>5. \A i \in 1..m : (c \o b)[i] = c[i]
        BY <4>1, <4>3 DEF m, p
      <4>6. \A i \in 1..p : (c \o b)[m + i] = b[i]
        BY <4>1, <4>4 DEF m, p
      <4> QED BY <4>1, <4>5, <4>6 DEF m, p
    <3>5. Len(a) + 1 \in 1..Len(c) /\ \A i \in 1..Len(a) : i \in 1..Len(c)
      BY ONLY <3>1, <3>2
    <3>6. /\ tabs \in Seq(Docs) /\ Len(tabs) = Len(c) + Len(b)
          /\ \A i \in 1..Len(c) : tabs[i] = c[i]
          /\ \A i \in 1..Len(b) : tabs[Len(c) + i] = b[i]
      BY ONLY <3>3, <3>4
    <3> QED BY ONLY <3>1, <3>2, <3>5, <3>6
  <2> HIDE DEF tabs
  <2>2. Len(a) + 1 \in 1..Len(tabs) /\ \A i \in 1..Len(a) : i \in 1..Len(tabs)
    BY <2>1
  <2>3. \A i \in 1..Len(b) : Len(a) + 1 + i \in 1..Len(tabs)
    BY <2>1
  <2> QED BY <2>1, <2>2, <2>3 DEF Has
<1>6. \A e \in Docs : Has(old, e) /\ e \notin closing => Has(tabs, e)
  <2> SUFFICES ASSUME NEW e \in Docs, Has(old, e), e \notin closing PROVE Has(tabs, e)
    OBVIOUS
  <2>1. CASE e = new
    BY <1>5, <2>1
  <2>2. CASE e # new
    <3>1. PICK k \in 1..Len(old) : old[k] = e
      BY DEF Has
    <3>2. e \in stay
      BY <2>2
    <3>3. CASE k <= n
      <4>1. k \in 1..n
        BY <1>1, <3>3
      <4> HIDE DEF tabs, stay
      <4>2. Has(a, old[k])
        BY <1>4, <3>1, <3>2, <4>1
      <4> QED BY <1>5, <3>1, <4>2
    <3>4. CASE k > n
      <4>1. k - n \in 1..Len(old) - n /\ n + (k - n) = k
        BY <1>1, <3>4
      <4> HIDE DEF tabs, stay
      <4>2. Has(b, old[n + (k - n)])
        BY <1>4, <3>1, <3>2, <4>1
      <4> QED BY <1>5, <3>1, <4>1, <4>2
    <3> QED BY <1>1, <3>3, <3>4
  <2> QED BY <2>1, <2>2
<1> HIDE DEF tabs
<1>7. /\ Hold(q, x) /\ Rel(s, q)
      /\ \A v \in Windows \ {w} : q.win[v] = s.win[v]
      /\ q.win[w].tabs = tabs /\ q.win[w].state = "open"
  <2>1. MayHave(s, w, tabs)
    BY DEF MayHave, old
  <2> QED BY <1>5, <2>1, SetDocumentsIs
<1> HIDE DEF q
<1>8. /\ Hold(t, x) /\ Rel(q, t) /\ \A v \in Windows \ {w} : t.win[v] = q.win[v]
      /\ t.win[w].tabs = q.win[w].tabs /\ t.win[w].state = q.win[w].state
  <2> DEFINE i == IndexOf(tabs, selected)
  <2>1. i \in Nat
    BY <1>5, IndexOfIs
  <2> HIDE DEF i
  <2>2. LET r == SetIndex(q, w, i)
        IN  /\ Hold(r, x) /\ Rel(q, r) /\ \A v \in Windows \ {w} : r.win[v] = q.win[v]
            /\ r.win[w].tabs = q.win[w].tabs /\ r.win[w].state = q.win[w].state
    BY <1>7, <2>1, SetIndexIs
  <2> QED BY <2>2 DEF i
<1> HIDE DEF t
<1>9. Rel(s, t)
  <2>1. \A v \in Windows : t.win[v].tabs = q.win[v].tabs
    BY <1>8
  <2>2. \A d \in Docs : InTab(t.win, d) => InTab(q.win, d)
    BY <2>1 DEF InTab
  <2> QED BY <1>7, <1>8, <2>2, RelTrans
<1> QED BY <1>2, <1>5, <1>6, <1>7, <1>8, <1>9 DEF old

(* The last place of an element. *)
LastPlace(seq, e) ==
  CHOOSE i \in DOMAIN seq : seq[i] = e /\ \A k \in DOMAIN seq : seq[k] = e => k <= i

LEMMA LastIs ==
  ASSUME NEW S, NEW seq \in Seq(S), NEW e, Has(seq, e)
  PROVE  LastPlace(seq, e) \in 1..Len(seq)
<1> DEFINE R == {j \in 0..Len(seq) - 1 : seq[Len(seq) - j] = e}
<1>1. Len(seq) \in Nat /\ DOMAIN seq = 1..Len(seq)
  OBVIOUS
<1>2. PICK k \in 1..Len(seq) : seq[k] = e
  BY DEF Has
<1>3. PICK m \in R : \A j \in R : m <= j
  <2>1. R \subseteq Nat
    OBVIOUS
  <2>2. Len(seq) - k \in 0..Len(seq) - 1 /\ Len(seq) - (Len(seq) - k) = k
    BY <1>1
  <2>3. Len(seq) - k \in R
    BY <1>2, <2>2
  <2> HIDE DEF R
  <2> QED BY <2>1, <2>3, NatMin
<1>4. Len(seq) - m \in 1..Len(seq) /\ seq[Len(seq) - m] = e
  BY <1>1, <1>3
<1>5. \A i \in 1..Len(seq) : seq[i] = e => i <= Len(seq) - m
  <2> SUFFICES ASSUME NEW i \in 1..Len(seq), seq[i] = e PROVE i <= Len(seq) - m
    OBVIOUS
  <2>1. Len(seq) - i \in 0..Len(seq) - 1 /\ Len(seq) - (Len(seq) - i) = i
    BY <1>1
  <2>2. Len(seq) - i \in R
    BY <2>1
  <2> DEFINE n == Len(seq)
  <2>3. m <= n - i
    BY <1>3, <2>2
  <2>4. n \in Nat /\ i \in 1..n
    BY <1>1
  <2>5. m \in Nat
    BY <1>1, <1>3
  <2> HIDE DEF n, R
  <2>6. i <= n - m
    BY ONLY <2>3, <2>4, <2>5
  <2> QED BY <2>6 DEF n
<1>6. \E i \in DOMAIN seq : seq[i] = e /\ \A k2 \in DOMAIN seq : seq[k2] = e => k2 <= i
  BY <1>1, <1>4, <1>5
<1>7. LastPlace(seq, e) \in DOMAIN seq
  BY ONLY <1>6 DEF LastPlace
<1> QED BY <1>1, <1>7

(* The documents that nobody holds. *)
LEMMA NewDocumentsIs ==
  ASSUME NEW s PROVE NewDocuments(s) \in Seq(Docs) /\ Len(NewDocuments(s)) \in {0, 1}
<1>1. CASE Unused(s) = {}
  BY <1>1 DEF NewDocuments
<1>2. CASE Unused(s) # {}
  <2>1. (CHOOSE d \in Unused(s) : TRUE) \in Docs
    BY <1>2, DocumentWindowAssumption DEF Unused
  <2> QED BY <1>2, <2>1 DEF NewDocuments
<1> QED BY <1>1, <1>2

(* Is it in one of the tabs at the indexes? *)
Closes(tabs, indexes, d) == \E i \in indexes \cap DOMAIN tabs : tabs[i] = d

(* closeTabsAtIndexes:askToSaveChanges:createDocumentIfEmpty:activate: keeps *)
(* the other tabs.                                                           *)
LEMMA CloseTabsIs ==
  ASSUME NEW s, NEW x \in [Docs -> Nat], Hold(s, x), NEW w \in Windows, NEW indexes,
         ~Raises(s, w, indexes), NEW create
  PROVE  LET t == CloseTabs(s, w, indexes, create)
         IN  /\ Hold(t, x) /\ Rel(s, t)
             /\ \A v \in Windows \ {w} : t.win[v] = s.win[v]
             /\ t.win[w].state = s.win[w].state
             /\ \A e \in Docs :
                  (Has(s.win[w].tabs, e) /\ ~Closes(s.win[w].tabs, indexes, e))
                    => Has(t.win[w].tabs, e)
<1> DEFINE old == s.win[w].tabs
           selected == old[s.win[w].index]
           gone == {old[i] : i \in indexes}
           stay == Docs \ gone
           last == CHOOSE i \in DOMAIN old :
                     old[i] = selected /\ \A k \in DOMAIN old : old[k] = selected => k <= i
           stays == Len(Keep(SubSeq(old, 1, last), stay))
           next == IF stays = 0 THEN 1 ELSE stays
           rest == Keep(old, stay)
           tabs == IF rest = <<>> /\ create THEN NewDocuments(s) ELSE rest
           q == SetDocuments(s, w, tabs)
           closed == SetIndex(q, w, next)
           t == CloseTabs(s, w, indexes, create)
<1>1. old \in Seq(Docs) /\ s.win[w].index \in Nat
  BY StateIs DEF Hold
<1>2. CASE indexes = {} \/ old = <<>>
  <2>1. t = s
    BY <1>2 DEF CloseTabs
  <2>2. \A e \in Docs : Has(old, e) => Has(t.win[w].tabs, e)
    BY <2>1
  <2> HIDE DEF t
  <2> QED BY <2>1, <2>2, RelRefl DEF t
<1>3. CASE ~(indexes = {} \/ old = <<>>)
  <2>1. indexes \cup {s.win[w].index} \subseteq DOMAIN old /\ s.win[w].state = "open"
    BY <1>3 DEF Raises, Hold
  <2>2. t = IF tabs # <<>> /\ tabs[next] # selected THEN OpenAndSelect(closed, w, tabs[next])
            ELSE closed
    BY <1>3 DEF CloseTabs
  <2> HIDE DEF t
  <2>3. last \in 1..Len(old)
    <3>1. Has(old, selected)
      <4> DEFINE i == s.win[w].index
      <4>1. i \in 1..Len(old) /\ old[i] = selected
        <5>1. DOMAIN old = 1..Len(old)
          BY <1>1
        <5> QED BY <2>1, <5>1
      <4> HIDE DEF i, selected, old
      <4> QED BY ONLY <4>1 DEF Has
    <3>2. old \in Seq(Docs)
      BY <1>1
    <3>3. last = LastPlace(old, selected)
      BY DEF LastPlace
    <3> HIDE DEF selected, old, last
    <3>4. LastPlace(old, selected) \in 1..Len(old)
      BY ONLY <3>1, <3>2, LastIs
    <3> QED BY ONLY <3>3, <3>4
  <2>4. /\ rest \in Seq(Docs)
        /\ \A k \in 1..Len(old) : old[k] \in stay => Has(rest, old[k])
    <3> HIDE DEF stay, old
    <3> QED BY <1>1, KeepIs DEF Has
  <2>5. stays <= Len(rest) /\ stays \in Nat
    <3> HIDE DEF stay, old, last
    <3>1. last \in 0..Len(old)
      BY <2>3
    <3>2. SubSeq(old, 1, last) \in Seq(Docs)
      BY <1>1, <2>3
    <3> QED BY <1>1, <3>1, <3>2, KeepFirst, KeepIs
  <2> HIDE DEF last, rest, stays
  <2>6. tabs \in Seq(Docs) /\ next \in Nat /\ (tabs # <<>> => next \in 1..Len(tabs))
    <3>1. CASE rest = <<>>
      <4>1. next = 1
        BY <2>5, <3>1
      <4> QED BY <3>1, <4>1, NewDocumentsIs
    <3>2. CASE rest # <<>>
      <4>1. tabs = rest /\ Len(rest) \in Nat \ {0}
        BY <2>4, <3>2
      <4> QED BY <2>4, <2>5, <4>1
    <3> QED BY <3>1, <3>2
  <2>7. \A e \in Docs : (Has(old, e) /\ ~Closes(old, indexes, e)) => Has(tabs, e)
    <3> SUFFICES ASSUME NEW e \in Docs, Has(old, e), ~Closes(old, indexes, e)
                 PROVE  Has(tabs, e)
      OBVIOUS
    <3>1. e \in stay
      BY <2>1 DEF Closes
    <3>2. Has(rest, e)
      <4>1. PICK k \in 1..Len(old) : old[k] = e
        BY DEF Has
      <4> HIDE DEF stay
      <4> QED BY <2>4, <3>1, <4>1
    <3>3. rest # <<>>
      BY <3>2 DEF Has
    <3> QED BY <3>2, <3>3
  <2> HIDE DEF tabs, next, stay, selected, gone
  <2>8. /\ Hold(q, x) /\ Rel(s, q)
        /\ \A v \in Windows \ {w} : q.win[v] = s.win[v]
        /\ q.win[w].tabs = tabs /\ q.win[w].state = s.win[w].state
    <3>1. MayHave(s, w, tabs)
      BY <2>1 DEF MayHave
    <3> QED BY <2>1, <2>6, <3>1, SetDocumentsIs
  <2> HIDE DEF q
  <2>9. /\ Hold(closed, x) /\ Rel(q, closed)
        /\ \A v \in Windows \ {w} : closed.win[v] = q.win[v]
        /\ closed.win[w].tabs = q.win[w].tabs /\ closed.win[w].state = q.win[w].state
    BY <2>6, <2>8, SetIndexIs
  <2> HIDE DEF closed
  <2>10. /\ Hold(t, x) /\ Rel(closed, t)
         /\ \A v \in Windows \ {w} : t.win[v] = closed.win[v]
         /\ t.win[w].tabs = closed.win[w].tabs /\ t.win[w].state = closed.win[w].state
    <3>1. CASE tabs # <<>> /\ tabs[next] # selected
      <4>1. tabs[next] \in Docs
        BY <2>6, <3>1
      <4> QED BY <2>2, <2>9, <3>1, <4>1, OpenAndSelectIs
    <3>2. CASE ~(tabs # <<>> /\ tabs[next] # selected)
      BY <2>2, <2>9, <3>2, RelRefl
    <3> QED BY <3>1, <3>2
  <2>11. Rel(s, t)
    <3>1. \A v \in Windows : t.win[v].tabs = closed.win[v].tabs /\ t.win[v].tabs = q.win[v].tabs
      BY <2>9, <2>10
    <3>2. \A d \in Docs : /\ InTab(t.win, d) => InTab(closed.win, d)
                          /\ InTab(t.win, d) => InTab(q.win, d)
      BY <3>1 DEF InTab
    <3>3. Rel(q, t)
      BY <2>9, <2>10, <3>2, RelTrans
    <3> QED BY <2>8, <3>2, <3>3, RelTrans
  <2> QED BY <2>7, <2>8, <2>9, <2>10, <2>11 DEF t
<1> QED BY <1>2, <1>3

-----------------------------------------------------------------------------
(* What a handler does to the edited documents. *)

(* Nothing is edited that was not, and what is edited in a tab is so still.  *)
Safe(s, t) ==
  \A d \in Docs :
    /\ t.doc[d].edited => s.doc[d].edited
    /\ s.doc[d].edited /\ InTab(s.win, d) => t.doc[d].edited /\ InTab(t.win, d)

(* The tabs of each window are as before. *)
SameTabs(s, t) == \A w \in Windows : t.win[w].tabs = s.win[w].tabs

(* What does not change loses nothing. *)
LEMMA SafeRefl ==
  ASSUME NEW s PROVE Safe(s, s) /\ SameTabs(s, s)
BY DEF Safe, SameTabs

(* What two steps in turn leave safe is safe. *)
LEMMA SafeTrans ==
  ASSUME NEW s, NEW t, NEW u, Safe(s, t), Safe(t, u)
  PROVE  Safe(s, u)
BY DEF Safe

(* A rearrangement after which the edited documents have their tabs.         *)
LEMMA SafeIf ==
  ASSUME NEW s, NEW t, Rel(s, t),
         \A d \in Docs : s.doc[d].edited /\ InTab(s.win, d) => InTab(t.win, d)
  PROVE  Safe(s, t)
BY DEF Rel, Safe

(* As long as the tabs are the same, open and close lose nothing in a tab. *)
LEMMA SafeSame ==
  ASSUME NEW s, NEW t, Rel(s, t), SameTabs(s, t)
  PROVE  Safe(s, t)
<1>1. \A d \in Docs : InTab(s.win, d) => InTab(t.win, d)
  BY DEF SameTabs, InTab
<1> QED BY <1>1, SafeIf

(* Fewer holds need be counted. *)
LEMMA HoldLess ==
  ASSUME NEW s, NEW x \in [Docs -> Nat], NEW y \in [Docs -> Nat], Hold(s, x),
         \A d \in Docs : y[d] <= x[d]
  PROVE  Hold(s, y)
<1>1. s \in States /\ s.win \in WinType
  BY StateIs DEF Hold
<1>2. ASSUME NEW d \in Docs
      PROVE  s.doc[d].count >= Uses(s.win, d) + Waits(s.doc[d]) + y[d]
  <2> DEFINE n == s.doc[d].count
             waits == Waits(s.doc[d])
             xd == x[d]
             yd == y[d]
  <2>1. n >= Uses(s.win, d) + waits + xd
    BY DEF Hold
  <2>2. yd <= xd /\ xd \in Nat /\ yd \in Nat
    OBVIOUS
  <2>3. n \in Nat
    BY <1>1, StateIs
  <2>4. waits \in Nat
    <3>1. s.doc[d].waiting \in Seq(Windows)
      BY <1>1, StateIs
    <3> QED BY <3>1 DEF Waits
  <2>5. Uses(s.win, d) \in Nat
    BY <1>1, UsesIs
  <2> HIDE DEF n, waits, xd, yd
  <2>6. n >= Uses(s.win, d) + waits + yd
    BY ONLY <2>1, <2>2, <2>3, <2>4, <2>5
  <2> QED BY <2>6 DEF n, waits, yd
<1> QED BY <1>2 DEF Hold

(* Documents are opened and closed for what is outside of the windows.       *)
LEMMA OpenCloseHolds ==
  ASSUME NEW s, NEW o \in Seq(Docs), NEW c \in Seq(Docs),
         NEW x \in [Docs -> Nat], NEW y \in [Docs -> Nat], Hold(s, x),
         \A d \in Docs : y[d] + Times(c, d) <= x[d] + Times(o, d)
  PROVE  LET t == OpenClose(s, o, c)
         IN  Hold(t, y) /\ Rel(s, t) /\ t.win = s.win
<1> DEFINE ws == s.win
           t == [win |-> ws, doc |-> OpenClose(s, o, c).doc]
<1>1. ws \in WinType
  BY StateIs DEF Hold
<1>2. ASSUME NEW d \in Docs
      PROVE  Uses(ws, d) + y[d] + Times(c, d) <= Uses(s.win, d) + x[d] + Times(o, d)
  <2> DEFINE xd == x[d]
             yd == y[d]
             to == Times(o, d)
             tc == Times(c, d)
             n == Uses(s.win, d)
  <2>1. yd + tc <= xd + to
    OBVIOUS
  <2>2. xd \in Nat /\ yd \in Nat
    OBVIOUS
  <2>3. to \in Nat /\ tc \in Nat
    BY PlacesFinite
  <2>4. n \in Nat
    BY <1>1, UsesIs
  <2> HIDE DEF xd, yd, to, tc, n
  <2>5. n + yd + tc <= n + xd + to
    BY ONLY <2>1, <2>2, <2>3, <2>4
  <2> QED BY <2>5 DEF xd, yd, to, tc, n
<1>3. \A w \in Windows : ws[w].state # "open" => ws[w].tabs = <<>>
  BY DEF Hold
<1>4. \A w \in Windows : ws[w].shown = s.win[w].shown
  OBVIOUS
<1>5. ws = s.win
  OBVIOUS
<1> HIDE DEF ws
<1>6. Hold(t, y) /\ Rel(s, t) /\ OpenClose(s, o, c) = [win |-> s.win, doc |-> t.doc]
  BY <1>1, <1>2, <1>3, <1>4, Rebalance
<1>7. OpenClose(s, o, c) = t /\ t.win = ws
  BY <1>5, <1>6
<1> HIDE DEF t
<1> QED BY <1>5, <1>6, <1>7

(* The record of a document changes. *)
WithDoc(s, d, r) == [s EXCEPT !.doc[d] = r]

(* Another record for a document that has no less of its holds. *)
LEMMA WithDocIs ==
  ASSUME NEW s, NEW x \in [Docs -> Nat], NEW y \in [Docs -> Nat], Hold(s, x),
         NEW d \in Docs, NEW r \in DocRecord,
         \A e \in Docs \ {d} : y[e] = x[e],
         r.count = s.doc[d].count, Waits(r) + y[d] <= Waits(s.doc[d]) + x[d],
         r.edited => r.loaded, r.loaded => r.waiting = <<>>,
         s.doc[d].loaded => r.loaded
  PROVE  LET t == WithDoc(s, d, r)
         IN  /\ Hold(t, y) /\ t.win = s.win
             /\ \A e \in Docs : t.doc[e] = IF e = d THEN r ELSE s.doc[e]
<1> DEFINE t == WithDoc(s, d, r)
<1>1. /\ s \in States /\ s.doc \in [Docs -> DocRecord] /\ s.win \in WinType
      /\ s = [win |-> s.win, doc |-> s.doc]
  BY StateIs DEF Hold
<1>2. t = [win |-> s.win, doc |-> [s.doc EXCEPT ![d] = r]]
  <2> DEFINE q == [s.doc EXCEPT ![d] = r]
  <2>1. t = [s EXCEPT !.doc = q]
    BY DEF WithDoc
  <2> HIDE DEF q, t
  <2>2. t = [win |-> s.win, doc |-> q]
    BY <1>1, <2>1, StateExcept
  <2> QED BY <2>2 DEF q
<1> HIDE DEF t
<1>3. /\ t.win = s.win /\ \A e \in Docs : t.doc[e] = IF e = d THEN r ELSE s.doc[e]
  BY <1>1, <1>2
<1>4. t \in States
  <2>1. [s.doc EXCEPT ![d] = r] \in [Docs -> DocRecord]
    BY <1>1
  <2> QED BY <1>1, <1>2, <2>1, StateIs
<1>5. ASSUME NEW e \in Docs
      PROVE  /\ t.doc[e].count >= Uses(s.win, e) + Waits(t.doc[e]) + y[e]
             /\ t.doc[e].edited => t.doc[e].loaded
             /\ t.doc[e].loaded => t.doc[e].waiting = <<>>
             /\ s.doc[e].loaded => t.doc[e].loaded
  <2>1. CASE e # d
    BY <1>3, <2>1 DEF Hold
  <2>2. CASE e = d
    <3> DEFINE n == s.doc[d].count
               m == Waits(s.doc[d])
               k == Waits(r)
               u == Uses(s.win, d)
               xd == x[d]
               yd == y[d]
    <3>1. n >= u + m + xd /\ k + yd <= m + xd
      BY DEF Hold
    <3>2. n \in Nat
      BY <1>1, StateIs
    <3>3. xd \in Nat /\ yd \in Nat
      OBVIOUS
    <3>4. u \in Nat
      BY <1>1, UsesIs
    <3>5. m \in Nat
      <4>1. s.doc[d].waiting \in Seq(Windows)
        BY <1>1, StateIs
      <4> QED BY <4>1 DEF Waits
    <3>6. k \in Nat
      <4>1. r.waiting \in Seq(Windows)
        BY DEF DocRecord
      <4> QED BY <4>1 DEF Waits
    <3> HIDE DEF n, m, k, u, xd, yd
    <3>7. n >= u + k + yd
      BY ONLY <3>1, <3>2, <3>3, <3>4, <3>5, <3>6
    <3>8. t.doc[e] = r
      BY <1>3, <2>2
    <3>9. r.count >= Uses(s.win, d) + Waits(r) + y[d]
      BY <3>7 DEF n, u, k, yd
    <3> QED BY <2>2, <3>8, <3>9
  <2> QED BY <2>1, <2>2
<1>6. Hold(t, y)
  BY <1>3, <1>4, <1>5 DEF Hold
<1> QED BY <1>3, <1>6 DEF t

-----------------------------------------------------------------------------
(* Handlers. *)

(* showDocument:, newDocumentInTab: and what they call: the tab is inserted  *)
(* and selected.                                                             *)
LEMMA ShowIs ==
  ASSUME NEW s, NEW x \in [Docs -> Nat], Hold(s, x), NEW w \in Windows, NEW d \in Docs,
         NEW at \in Nat, NEW closing, \A e \in Docs \cap closing : ~s.doc[e].edited
  PROVE  LET t == OpenAndSelect(Insert(WithState(s, w, "open"), w, d, at, d, closing), w, d)
         IN  Hold(t, x) /\ Safe(s, t)
<1> DEFINE q == WithState(s, w, "open")
           r == Insert(q, w, d, at, d, closing)
           t == OpenAndSelect(r, w, d)
<1>1. /\ Hold(q, x) /\ Rel(s, q) /\ q.win[w].state = "open" /\ q.doc = s.doc
      /\ \A v \in Windows \ {w} : q.win[v] = s.win[v]
      /\ q.win[w].tabs = s.win[w].tabs
  BY SetStateIs
<1> HIDE DEF q
<1>2. Safe(s, q)
  <2>1. SameTabs(s, q)
    BY <1>1 DEF SameTabs
  <2> QED BY <1>1, <2>1, SafeSame
<1>3. /\ Hold(r, x) /\ Rel(q, r) /\ \A v \in Windows \ {w} : r.win[v] = q.win[v]
      /\ \A e \in Docs : Has(q.win[w].tabs, e) /\ e \notin closing => Has(r.win[w].tabs, e)
  BY <1>1, InsertIs
<1> HIDE DEF r
<1>4. Safe(q, r)
  <2> SUFFICES ASSUME NEW e \in Docs, q.doc[e].edited, InTab(q.win, e) PROVE InTab(r.win, e)
    BY <1>3, SafeIf
  <2>1. e \notin closing
    BY <1>1
  <2> QED BY <1>3, <2>1 DEF InTab
<1>5. /\ Hold(t, x) /\ Rel(r, t) /\ \A v \in Windows \ {w} : t.win[v] = r.win[v]
      /\ t.win[w].tabs = r.win[w].tabs
  BY <1>3, OpenAndSelectIs
<1> HIDE DEF t
<1>6. Safe(r, t)
  <2>1. SameTabs(r, t)
    BY <1>5 DEF SameTabs
  <2> QED BY <1>5, <2>1, SafeSame
<1>7. Safe(s, t)
  <2>1. Safe(s, r)
    BY <1>2, <1>4, SafeTrans
  <2> QED BY <1>6, <2>1, SafeTrans
<1> QED BY <1>5, <1>7 DEF t, r, q

(* A tab is selected, and its document is opened. *)
LEMMA SelectIs ==
  ASSUME NEW s, NEW x \in [Docs -> Nat], Hold(s, x), NEW w \in Windows, NEW d \in Docs,
         NEW i \in Nat
  PROVE  LET t == OpenAndSelect(SetIndex(s, w, i), w, d)
         IN  Hold(t, x) /\ Safe(s, t) /\ SameTabs(s, t)
<1> DEFINE q == SetIndex(s, w, i)
           t == OpenAndSelect(q, w, d)
<1>1. /\ Hold(q, x) /\ Rel(s, q) /\ \A v \in Windows \ {w} : q.win[v] = s.win[v]
      /\ q.win[w].tabs = s.win[w].tabs
  BY SetIndexIs
<1> HIDE DEF q
<1>2. /\ Hold(t, x) /\ Rel(q, t) /\ \A v \in Windows \ {w} : t.win[v] = q.win[v]
      /\ t.win[w].tabs = q.win[w].tabs
  BY <1>1, OpenAndSelectIs
<1> HIDE DEF t
<1>3. SameTabs(s, q) /\ SameTabs(q, t) /\ SameTabs(s, t)
  BY <1>1, <1>2 DEF SameTabs
<1>4. Safe(s, q) /\ Safe(q, t)
  BY <1>1, <1>2, <1>3, SafeSame
<1>5. Safe(s, t)
  BY <1>4, SafeTrans
<1> QED BY <1>2, <1>3, <1>5 DEF t, q

(* The tabs that are closed have no edited documents. *)
LEMMA CloseUnedited ==
  ASSUME NEW s, NEW x \in [Docs -> Nat], Hold(s, x), NEW w \in Windows, NEW indexes,
         ~Raises(s, w, indexes), NEW create,
         \A e \in Docs : Closes(s.win[w].tabs, indexes, e) =>
                           ~s.doc[e].edited \/ \E v \in Windows \ {w} : Has(s.win[v].tabs, e)
  PROVE  LET t == CloseTabs(s, w, indexes, create)
         IN  Hold(t, x) /\ Safe(s, t) /\ \A v \in Windows \ {w} : t.win[v] = s.win[v]
<1> DEFINE t == CloseTabs(s, w, indexes, create)
<1>1. /\ Hold(t, x) /\ Rel(s, t) /\ \A v \in Windows \ {w} : t.win[v] = s.win[v]
      /\ \A e \in Docs : (Has(s.win[w].tabs, e) /\ ~Closes(s.win[w].tabs, indexes, e))
                           => Has(t.win[w].tabs, e)
  BY CloseTabsIs
<1> HIDE DEF t
<1>2. Safe(s, t)
  <2> SUFFICES ASSUME NEW e \in Docs, s.doc[e].edited, InTab(s.win, e) PROVE InTab(t.win, e)
    BY <1>1, SafeIf
  <2>1. CASE \E v \in Windows \ {w} : Has(s.win[v].tabs, e)
    BY <1>1, <2>1 DEF InTab
  <2>2. CASE ~\E v \in Windows \ {w} : Has(s.win[v].tabs, e)
    <3>1. Has(s.win[w].tabs, e) /\ ~Closes(s.win[w].tabs, indexes, e)
      BY <2>2 DEF InTab
    <3> QED BY <1>1, <3>1 DEF InTab
  <2> QED BY <2>1, <2>2
<1> QED BY <1>1, <1>2 DEF t

(* A window is closed whose edited documents are in the tabs of others.      *)
LEMMA CloseWindowUnedited ==
  ASSUME NEW s, NEW x \in [Docs -> Nat], Hold(s, x), NEW w \in Windows,
         \A e \in Docs : Has(s.win[w].tabs, e) =>
                           ~s.doc[e].edited \/ \E v \in Windows \ {w} : Has(s.win[v].tabs, e)
  PROVE  LET t == CloseWindow(s, w)
         IN  Hold(t, x) /\ Safe(s, t) /\ \A v \in Windows \ {w} : t.win[v] = s.win[v]
<1> DEFINE t == CloseWindow(s, w)
<1>1. /\ Hold(t, x) /\ Rel(s, t) /\ \A v \in Windows \ {w} : t.win[v] = s.win[v]
  BY CloseWindowIs
<1> HIDE DEF t
<1>2. Safe(s, t)
  <2> SUFFICES ASSUME NEW e \in Docs, s.doc[e].edited, InTab(s.win, e) PROVE InTab(t.win, e)
    BY <1>1, SafeIf
  <2>1. \E v \in Windows \ {w} : Has(s.win[v].tabs, e)
    BY DEF InTab
  <2> QED BY <1>1, <2>1 DEF InTab
<1> QED BY <1>1, <1>2 DEF t

(* A document that is asked about is shown. *)
LEMMA ShowWarnedIs ==
  ASSUME NEW s, NEW x \in [Docs -> Nat], Hold(s, x), NEW w \in Windows, NEW docs \in Seq(Docs)
  PROVE  LET t == ShowWarned(s, w, docs)
         IN  Hold(t, x) /\ Safe(s, t) /\ SameTabs(s, t)
<1> DEFINE t == ShowWarned(s, w, docs)
           i == IndexOf(s.win[w].tabs, docs[1])
           d == docs[1]
<1>1. CASE Len(docs) = 1 /\ s.win[w].shown # docs[1]
  <2>1. t = OpenAndSelect(SetIndex(s, w, i), w, d)
    BY <1>1 DEF ShowWarned
  <2>2. i \in Nat
    <3>1. s.win[w].tabs \in Seq(Docs)
      BY StateIs DEF Hold
    <3> QED BY <3>1, IndexOfIs
  <2>3. d \in Docs
    <3>1. 1 \in 1..Len(docs)
      BY <1>1
    <3> QED BY <3>1, ElementOfSeq
  <2> HIDE DEF i, d, t
  <2>4. Hold(t, x) /\ Safe(s, t) /\ SameTabs(s, t)
    BY <2>1, <2>2, <2>3, SelectIs
  <2> QED BY <2>4 DEF t
<1>2. CASE ~(Len(docs) = 1 /\ s.win[w].shown # docs[1])
  <2>1. t = s
    BY <1>2 DEF ShowWarned
  <2> HIDE DEF t
  <2>2. Hold(t, x) /\ Safe(s, t) /\ SameTabs(s, t)
    BY <2>1, SafeRefl
  <2> QED BY <2>2 DEF t
<1> QED BY <1>1, <1>2

(* The view of a window is deallocated with it. *)
LEMMA DeallocIs ==
  ASSUME NEW s, NEW x \in [Docs -> Nat], Hold(s, x), NEW w \in Windows,
         s.win[w].state = "closed"
  PROVE  LET c == IF s.win[w].shown = NoDoc THEN <<>> ELSE <<s.win[w].shown>>
             t == [OpenClose(s, <<>>, c) EXCEPT !.win[w] = Shut]
         IN  Hold(t, x) /\ Safe(s, t)
<1> DEFINE old == s.win[w].shown
           none == <<>>
           c == IF old = NoDoc THEN <<>> ELSE <<old>>
           ws == [s.win EXCEPT ![w] = Shut]
           u == OpenClose(s, none, c)
           t == [u EXCEPT !.win[w] = Shut]
<1>1. s \in States /\ s.win \in WinType /\ old \in Docs \cup {NoDoc} /\ NoDoc \notin Docs
  BY StateIs, DocumentWindowAssumption DEF Hold
<1>2. s.win[w].tabs = <<>>
  BY DEF Hold
<1>3. /\ ws \in WinType /\ \A v \in Windows \ {w} : ws[v] = s.win[v]
      /\ ws[w].tabs = <<>> /\ ws[w].shown = NoDoc
  <2>1. Shut \in [state : {"none", "open", "closed"}, tabs : Seq(Docs), index : Nat,
                  shown : Docs \cup {NoDoc}]
    BY DEF Shut
  <2> QED BY <1>1, <2>1 DEF WinType, Shut
<1> HIDE DEF ws
<1>4. c \in Seq(Docs) /\ none \in Seq(Docs)
  BY <1>1
<1>5. \A e \in Docs : Times(c, e) = (IF old = e THEN 1 ELSE 0) /\ Times(none, e) = 0
  BY <1>1, TimesFew
<1>6. ASSUME NEW e \in Docs
      PROVE  Uses(ws, e) + x[e] + Times(c, e) <= Uses(s.win, e) + x[e] + Times(none, e)
  <2>1. TabsOf(ws, e) = TabsOf(s.win, e) /\ TabsOf(ws, e) \in Nat
    <3>1. \A v \in Windows \ {w} : ws[v].tabs = s.win[v].tabs
      BY <1>3
    <3>2. TabsOf(ws, e) + Times(s.win[w].tabs, e) = TabsOf(s.win, e) + Times(ws[w].tabs, e)
      BY <1>1, <1>3, <3>1, TabsChange
    <3>3. Times(s.win[w].tabs, e) = 0 /\ Times(ws[w].tabs, e) = 0
      BY <1>2, <1>3, TimesFew
    <3>4. TabsOf(ws, e) \in Nat /\ TabsOf(s.win, e) \in Nat
      BY <1>1, <1>3, TabsOfIs
    <3> QED BY <3>2, <3>3, <3>4
  <2>2. /\ Shows(ws, e) + (IF old = e THEN 1 ELSE 0) = Shows(s.win, e)
        /\ Shows(s.win, e) \in Nat /\ Shows(ws, e) \in Nat
    <3>1. \A v \in Windows \ {w} : ws[v].shown = s.win[v].shown
      BY <1>3
    <3>2. ws[w].shown # e
      BY <1>1, <1>3
    <3>3. /\ Shows(ws, e) + (IF s.win[w].shown = e THEN 1 ELSE 0)
               = Shows(s.win, e) + (IF ws[w].shown = e THEN 1 ELSE 0)
          /\ Shows(s.win, e) \in Nat /\ Shows(ws, e) \in Nat
      BY <1>1, <1>3, <3>1, ShowsChange
    <3> QED BY <3>2, <3>3
  <2> DEFINE xe == x[e]
             io == IF old = e THEN 1 ELSE 0
             tc == Times(c, e)
             tn == Times(none, e)
  <2>3. xe \in Nat /\ tc = io /\ tn = 0 /\ io \in Nat
    BY <1>5
  <2>4. /\ Uses(ws, e) = TabsOf(ws, e) + Shows(ws, e)
        /\ Uses(s.win, e) = TabsOf(s.win, e) + Shows(s.win, e)
    BY DEF Uses
  <2> HIDE DEF xe, io, tc, tn
  <2>5. Shows(ws, e) + io = Shows(s.win, e)
    BY <2>2 DEF io
  <2>6. Uses(ws, e) + xe + tc <= Uses(s.win, e) + xe + tn
    BY ONLY <2>1, <2>2, <2>3, <2>4, <2>5
  <2> QED BY <2>6 DEF xe, tc, tn
<1>7. \A v \in Windows : \/ ws[v].shown = s.win[v].shown
                         \/ ws[v].shown \in Docs => s.doc[ws[v].shown].loaded
  BY <1>1, <1>3
<1>8. \A v \in Windows : ws[v].state # "open" => ws[v].tabs = <<>>
  BY <1>3 DEF Hold
<1> HIDE DEF c, none
<1>9. LET r == [win |-> ws, doc |-> u.doc]
      IN  Hold(r, x) /\ Rel(s, r) /\ u = [win |-> s.win, doc |-> r.doc]
  BY <1>3, <1>4, <1>6, <1>7, <1>8, Rebalance
<1>10. t = [win |-> ws, doc |-> u.doc]
  <2> HIDE DEF u
  <2>1. u = [win |-> s.win, doc |-> u.doc]
    BY <1>9
  <2>2. u.win = s.win
    BY <2>1
  <2>3. t = [win |-> [u.win EXCEPT ![w] = Shut], doc |-> u.doc]
    BY <2>1
  <2> HIDE DEF t
  <2> QED BY <2>2, <2>3 DEF ws
<1> HIDE DEF t, u
<1>11. Hold(t, x) /\ Rel(s, t) /\ t.win = ws
  BY <1>9, <1>10
<1>12. SameTabs(s, t)
  BY <1>2, <1>3, <1>11 DEF SameTabs
<1>13. Safe(s, t)
  BY <1>11, <1>12, SafeSame
<1> QED BY <1>11, <1>13 DEF t, u, c, none

(* A tab is torn off into a window of its own. *)
LEMMA TearOffIs ==
  ASSUME NEW s, NEW x \in [Docs -> Nat], Hold(s, x), NEW w \in Windows, NEW v \in Windows,
         w # v, s.win[v].tabs = <<>>, NEW i \in DOMAIN s.win[w].tabs
  PROVE  LET d == s.win[w].tabs[i]
             r == OpenAndSelect(SetIndex(SetDocuments(WithState(s, v, "open"), v, <<d>>), v, 1),
                                v, d)
             t == IF Raises(r, w, {i}) THEN r ELSE CloseTabs(r, w, {i}, TRUE)
         IN  Hold(t, x) /\ Safe(s, t)
<1> DEFINE d == s.win[w].tabs[i]
           tabs == <<d>>
           p == WithState(s, v, "open")
           q == SetDocuments(p, v, tabs)
           r == OpenAndSelect(SetIndex(q, v, 1), v, d)
           t == IF Raises(r, w, {i}) THEN r ELSE CloseTabs(r, w, {i}, TRUE)
<1>1. d \in Docs
  <2>1. s.win[w].tabs \in Seq(Docs)
    BY StateIs DEF Hold
  <2> QED BY <2>1, ElementOfSeq
<1>2. tabs \in Seq(Docs) /\ Has(tabs, d)
  BY <1>1 DEF Has
<1> HIDE DEF tabs
<1>3. /\ Hold(p, x) /\ Rel(s, p) /\ \A u \in Windows \ {v} : p.win[u] = s.win[u]
      /\ p.win[v].tabs = s.win[v].tabs /\ p.win[v].state = "open"
  BY SetStateIs
<1> HIDE DEF p
<1>4. SameTabs(s, p)
  BY <1>3 DEF SameTabs
<1>5. /\ Hold(q, x) /\ Rel(p, q) /\ \A u \in Windows \ {v} : q.win[u] = p.win[u]
      /\ q.win[v].tabs = tabs
  <2>1. MayHave(p, v, tabs)
    BY <1>3 DEF MayHave
  <2> QED BY <1>2, <1>3, <2>1, SetDocumentsIs
<1> HIDE DEF q
<1>6. Safe(p, q)
  <2>1. \A e : ~Has(p.win[v].tabs, e)
    BY <1>3 DEF Has
  <2>2. \A e \in Docs : InTab(p.win, e) => InTab(q.win, e)
    BY <1>5, <2>1 DEF InTab
  <2> QED BY <1>5, <2>2, SafeIf
<1>7. Hold(r, x) /\ Safe(q, r) /\ SameTabs(q, r)
  BY <1>1, <1>5, SelectIs
<1> HIDE DEF r
<1>8. Hold(t, x) /\ Safe(r, t)
  <2>1. CASE Raises(r, w, {i})
    BY <1>7, <2>1, SafeRefl
  <2>2. CASE ~Raises(r, w, {i})
    <3>1. t = CloseTabs(r, w, {i}, TRUE)
      BY <2>2
    <3> HIDE DEF t
    <3>2. r.win[w].tabs = s.win[w].tabs /\ r.win[v].tabs = tabs
      BY <1>3, <1>5, <1>7 DEF SameTabs
    <3>3. \A e \in Docs : Closes(r.win[w].tabs, {i}, e) =>
            ~r.doc[e].edited \/ \E u \in Windows \ {w} : Has(r.win[u].tabs, e)
      BY <1>2, <3>2 DEF Closes
    <3> QED BY <1>7, <2>2, <3>1, <3>3, CloseUnedited
  <2> QED BY <2>1, <2>2
<1> HIDE DEF t
<1>9. Safe(s, t)
  <2>1. Safe(s, p)
    BY <1>3, <1>4, SafeSame
  <2>2. Safe(s, q)
    BY <1>6, <2>1, SafeTrans
  <2>3. Safe(s, r)
    BY <1>7, <2>2, SafeTrans
  <2> QED BY <1>8, <2>3, SafeTrans
<1> QED BY <1>8, <1>9 DEF t, r, q, p, tabs

(* A tab is dropped on another window and closed where it was.               *)
Dropped(s, v, i, w, browser) ==
  LET d == s.win[v].tabs[i]
      r == Insert(s, w, d, Len(s.win[w].tabs), s.win[w].shown, {d})
      k == IndexOf(s.win[v].tabs, d)
      t == IF browser \/ Len(s.win[v].tabs) > 1 THEN CloseTabs(r, v, {k}, TRUE)
           ELSE CloseWindow(r, v)
  IN IF Raises(r, v, {k}) THEN r
     ELSE IF k = s.win[v].index
     THEN OpenAndSelect(SetIndex(t, w, IndexOf(t.win[w].tabs, d)), w, d)
     ELSE t

LEMMA DropIs ==
  ASSUME NEW s, NEW x \in [Docs -> Nat], Hold(s, x), NEW w \in Windows, NEW v \in Windows,
         w # v, s.win[w].state = "open", NEW i \in DOMAIN s.win[v].tabs, NEW browser
  PROVE  Hold(Dropped(s, v, i, w, browser), x) /\ Safe(s, Dropped(s, v, i, w, browser))
<1> DEFINE tabs == s.win[v].tabs
           d == tabs[i]
           at == Len(s.win[w].tabs)
           closing == {d}
           r == Insert(s, w, d, at, s.win[w].shown, closing)
           k == IndexOf(tabs, d)
           t == IF browser \/ Len(tabs) > 1 THEN CloseTabs(r, v, {k}, TRUE)
                ELSE CloseWindow(r, v)
           u == IF Raises(r, v, {k}) THEN r
                ELSE IF k = s.win[v].index
                THEN OpenAndSelect(SetIndex(t, w, IndexOf(t.win[w].tabs, d)), w, d)
                ELSE t
<1>0. Dropped(s, v, i, w, browser) = u
  BY DEF Dropped
<1> SUFFICES Hold(u, x) /\ Safe(s, u)
  BY <1>0
<1>1. tabs \in Seq(Docs) /\ d \in Docs /\ at \in Nat
  <2>1. tabs \in Seq(Docs) /\ s.win[w].tabs \in Seq(Docs)
    BY StateIs DEF Hold
  <2>2. i \in 1..Len(tabs)
    BY <2>1
  <2>3. tabs[i] \in Docs
    <3> HIDE DEF tabs
    <3> QED BY <2>1, <2>2, ElementOfSeq
  <2>4. at \in Nat
    BY <2>1
  <2> QED BY <2>1, <2>3, <2>4
<1>2. k \in Nat /\ (k # 0 => tabs[k] = d)
  BY <1>1, IndexOfIs
<1>3. closing = {d}
  OBVIOUS
<1> HIDE DEF k, at, closing
<1>4. /\ Hold(r, x) /\ Rel(s, r) /\ \A p \in Windows \ {w} : r.win[p] = s.win[p]
      /\ Has(r.win[w].tabs, d)
      /\ \A e \in Docs : Has(s.win[w].tabs, e) /\ e \notin closing => Has(r.win[w].tabs, e)
  BY <1>1, InsertIs
<1> HIDE DEF r
<1>5. Safe(s, r)
  <2> SUFFICES ASSUME NEW e \in Docs, InTab(s.win, e) PROVE InTab(r.win, e)
    BY <1>4, SafeIf
  <2>1. PICK p \in Windows : Has(s.win[p].tabs, e)
    BY DEF InTab
  <2>2. Has(r.win[p].tabs, e) \/ Has(r.win[w].tabs, e)
    BY <1>3, <1>4, <2>1
  <2> QED BY <2>2 DEF InTab
<1>6. CASE Raises(r, v, {k})
  <2>1. u = r
    BY <1>6
  <2> HIDE DEF u
  <2>2. Hold(u, x) /\ Safe(s, u)
    BY <1>4, <1>5, <2>1
  <2> QED BY <2>2 DEF u, t, r, k, at, closing
<1>7. CASE ~Raises(r, v, {k})
  <2>1. r.win[v].tabs = tabs /\ \E p \in Windows \ {v} : Has(r.win[p].tabs, d)
    BY <1>4
  <2>2. Hold(t, x) /\ Safe(r, t)
    <3>1. CASE browser \/ Len(tabs) > 1
      <4>1. \A e \in Docs : Closes(r.win[v].tabs, {k}, e) =>
              ~r.doc[e].edited \/ \E p \in Windows \ {v} : Has(r.win[p].tabs, e)
        <5> SUFFICES ASSUME NEW e \in Docs, Closes(r.win[v].tabs, {k}, e) PROVE e = d
          BY <2>1
        <5>1. k \in DOMAIN tabs /\ tabs[k] = e
          BY <2>1 DEF Closes
        <5>2. k # 0
          BY <1>1, <5>1
        <5> QED BY <1>2, <5>1, <5>2
      <4>2. t = CloseTabs(r, v, {k}, TRUE)
        BY <3>1
      <4> HIDE DEF t
      <4> QED BY <1>4, <1>7, <4>1, <4>2, CloseUnedited
    <3>2. CASE ~(browser \/ Len(tabs) > 1)
      <4>1. \A e \in Docs : Has(r.win[v].tabs, e) =>
              ~r.doc[e].edited \/ \E p \in Windows \ {v} : Has(r.win[p].tabs, e)
        <5> SUFFICES ASSUME NEW e \in Docs, Has(tabs, e) PROVE e = d
          BY <2>1
        <5>1. PICK n \in 1..Len(tabs) : tabs[n] = e
          BY DEF Has
        <5>2. n = i
          <6>1. Len(tabs) \in Nat /\ DOMAIN tabs = 1..Len(tabs) /\ ~(Len(tabs) > 1)
            BY <1>1, <3>2
          <6> HIDE DEF tabs
          <6> QED BY <6>1 DEF tabs
        <5> QED BY <5>1, <5>2
      <4>2. t = CloseWindow(r, v)
        BY <3>2
      <4> HIDE DEF t
      <4> QED BY <1>4, <4>1, <4>2, CloseWindowUnedited
    <3> QED BY <3>1, <3>2
  <2> HIDE DEF t
  <2>3. Hold(u, x) /\ Safe(t, u)
    <3>1. CASE k = s.win[v].index
      <4> DEFINE n == IndexOf(t.win[w].tabs, d)
      <4>1. n \in Nat
        <5>1. t.win[w].tabs \in Seq(Docs)
          BY <2>2, StateIs DEF Hold
        <5> QED BY <5>1, IndexOfIs
      <4>2. u = OpenAndSelect(SetIndex(t, w, n), w, d)
        BY <1>7, <3>1
      <4> HIDE DEF n, u
      <4> QED BY <1>1, <2>2, <4>1, <4>2, SelectIs
    <3>2. CASE k # s.win[v].index
      <4>1. u = t
        BY <1>7, <3>2
      <4> HIDE DEF u
      <4> QED BY <2>2, <4>1, SafeRefl
    <3> QED BY <3>1, <3>2
  <2> HIDE DEF u
  <2>4. Safe(s, u)
    <3>1. Safe(s, t)
      BY <1>5, <2>2, SafeTrans
    <3> QED BY <2>3, <3>1, SafeTrans
  <2> QED BY <2>3, <2>4 DEF u, t, r, k, at, closing
<1> QED BY <1>6, <1>7

(* A tab whose document could not be loaded is closed, and a window that has *)
(* none left.                                                                *)
LEMMA CloseFailedIs ==
  ASSUME NEW s, NEW x \in [Docs -> Nat], Hold(s, x), NEW w \in Windows, NEW d \in Docs,
         ~s.doc[d].edited, NEW browser
  PROVE  LET t == CloseFailed(s, w, d, browser)
         IN  Hold(t, x) /\ Safe(s, t)
<1> DEFINE tabs == s.win[w].tabs
           i == IndexOf(tabs, d)
           q == IF i # 0 /\ ~Raises(s, w, {i}) THEN CloseTabs(s, w, {i}, browser) ELSE s
           t == IF q.win[w].tabs = <<>> /\ q.win[w].state = "open" THEN CloseWindow(q, w) ELSE q
<1>1. i \in Nat /\ (i # 0 => tabs[i] = d)
  <2>1. tabs \in Seq(Docs)
    BY StateIs DEF Hold
  <2> QED BY <2>1, IndexOfIs
<1>2. CloseFailed(s, w, d, browser) = t
  BY DEF CloseFailed
<1> HIDE DEF i
<1>3. Hold(q, x) /\ Safe(s, q)
  <2>1. CASE i # 0 /\ ~Raises(s, w, {i})
    <3>1. \A e \in Docs : Closes(s.win[w].tabs, {i}, e) =>
            ~s.doc[e].edited \/ \E v \in Windows \ {w} : Has(s.win[v].tabs, e)
      BY <1>1, <2>1 DEF Closes
    <3>2. q = CloseTabs(s, w, {i}, browser)
      BY <2>1
    <3> HIDE DEF q
    <3> QED BY <2>1, <3>1, <3>2, CloseUnedited
  <2>2. CASE ~(i # 0 /\ ~Raises(s, w, {i}))
    <3>1. q = s
      BY <2>2
    <3> HIDE DEF q
    <3> QED BY <3>1, SafeRefl
  <2> QED BY <2>1, <2>2
<1> HIDE DEF q
<1>4. Hold(t, x) /\ Safe(q, t)
  <2>1. CASE q.win[w].tabs = <<>> /\ q.win[w].state = "open"
    <3>1. \A e \in Docs : ~Has(q.win[w].tabs, e)
      BY <2>1 DEF Has
    <3>2. t = CloseWindow(q, w)
      BY <2>1
    <3> HIDE DEF t
    <3> QED BY <1>3, <3>1, <3>2, CloseWindowUnedited
  <2>2. CASE ~(q.win[w].tabs = <<>> /\ q.win[w].state = "open")
    <3>1. t = q
      BY <2>2
    <3> HIDE DEF t
    <3> QED BY <1>3, <3>1, SafeRefl
  <2> QED BY <2>1, <2>2
<1> HIDE DEF t
<1>5. Safe(s, t)
  BY <1>3, <1>4, SafeTrans
<1> QED BY <1>2, <1>4, <1>5

-----------------------------------------------------------------------------
(* The ends of a load. *)

(* As x, with m more for the document d. *)
More(x, d, m) == [e \in Docs |-> IF e = d THEN x[d] + m ELSE x[e]]

(* One document has more holds. *)
LEMMA MoreIs ==
  ASSUME NEW x \in [Docs -> Nat], NEW d \in Docs, NEW m \in Nat
  PROVE  /\ More(x, d, m) \in [Docs -> Nat] /\ More(x, d, m)[d] = x[d] + m
         /\ \A e \in Docs \ {d} : More(x, d, m)[e] = x[e]
         /\ More(x, d, 0) = x
<1>1. \A e \in Docs : x[e] \in Nat
  OBVIOUS
<1>2. x = [e \in Docs |-> x[e]]
  OBVIOUS
<1> QED BY <1>1, <1>2 DEF More

(* A handler that waited shows the document, and its hold is given back.     *)
LEMMA LoadNext ==
  ASSUME NEW t, NEW x \in [Docs -> Nat], NEW d \in Docs, NEW m \in Nat, NEW w \in Windows,
         Hold(t, More(x, d, m + 1)), t.doc[d].loaded
  PROVE  LET u == OpenClose(SetSelected(t, w, d), <<>>, <<d>>)
         IN  Hold(u, More(x, d, m)) /\ u.doc[d].loaded /\ Safe(t, u) /\ SameTabs(t, u)
<1> DEFINE none == <<>>
           one == <<d>>
           q == SetSelected(t, w, d)
           u == OpenClose(q, none, one)
           y == More(x, d, m + 1)
           z == More(x, d, m)
<1>1. y \in [Docs -> Nat] /\ z \in [Docs -> Nat] /\ none \in Seq(Docs) /\ one \in Seq(Docs)
  BY MoreIs
<1>2. ASSUME NEW e \in Docs PROVE z[e] + Times(one, e) <= y[e] + Times(none, e)
  <2>1. Times(none, e) = 0 /\ Times(one, e) = IF d = e THEN 1 ELSE 0
    BY TimesFew
  <2>2. y[e] = IF e = d THEN x[d] + (m + 1) ELSE x[e]
    BY DEF More
  <2>3. z[e] = IF e = d THEN x[d] + m ELSE x[e]
    BY DEF More
  <2>4. x[d] \in Nat /\ x[e] \in Nat
    OBVIOUS
  <2> HIDE DEF y, z, none, one
  <2> DEFINE ze == z[e]
             ye == y[e]
             xd == x[d]
             xe == x[e]
             a == Times(one, e)
             b == Times(none, e)
  <2>5. CASE e = d
    <3>1. b = 0 /\ a = 1 /\ ye = xd + (m + 1) /\ ze = xd + m /\ xd \in Nat /\ m \in Nat
      BY <2>1, <2>2, <2>3, <2>4, <2>5
    <3> HIDE DEF ze, ye, xd, a, b
    <3>2. ze + a <= ye + b
      BY ONLY <3>1
    <3> QED BY <3>2 DEF ze, ye, a, b
  <2>6. CASE e # d
    <3>1. b = 0 /\ a = 0 /\ ye = xe /\ ze = xe /\ xe \in Nat
      BY <2>1, <2>2, <2>3, <2>4, <2>6
    <3> HIDE DEF ze, ye, xe, a, b
    <3>2. ze + a <= ye + b
      BY ONLY <3>1
    <3> QED BY <3>2 DEF ze, ye, a, b
  <2> QED BY <2>5, <2>6
<1>3. Hold(t, y)
  OBVIOUS
<1> HIDE DEF none, one, y, z
<1>4. /\ Hold(q, y) /\ Rel(t, q) /\ \A v \in Windows \ {w} : q.win[v] = t.win[v]
      /\ q.win[w].tabs = t.win[w].tabs /\ q.win[w].shown = d
  <2>1. w \in Windows /\ d \in Docs /\ t.doc[d].loaded
    OBVIOUS
  <2>3. y \in [Docs -> Nat]
    BY <1>1
  <2>4. Hold(SetSelected(t, w, d), y) /\ Rel(t, SetSelected(t, w, d))
    BY ONLY <1>3, <2>1, <2>3, SetSelectedIs
  <2>5. \A v \in Windows \ {w} : SetSelected(t, w, d).win[v] = t.win[v]
    BY ONLY <1>3, <2>1, <2>3, SetSelectedIs
  <2>6. SetSelected(t, w, d).win[w].tabs = t.win[w].tabs
    BY ONLY <1>3, <2>1, <2>3, SetSelectedIs
  <2>7. SetSelected(t, w, d).win[w].shown = d
    BY ONLY <1>3, <2>1, <2>3, SetSelectedIs
  <2> QED BY <2>4, <2>5, <2>6, <2>7
<1> HIDE DEF q
<1>5. Hold(u, z) /\ Rel(q, u) /\ u.win = q.win
  BY <1>1, <1>2, <1>4, OpenCloseHolds
<1> HIDE DEF u
<1>6. u.doc[d].loaded
  <2>1. u.win[w].shown = d
    BY <1>4, <1>5
  <2> QED BY <1>5, <2>1 DEF Hold
<1>7. SameTabs(t, q) /\ SameTabs(q, u) /\ SameTabs(t, u)
  BY <1>4, <1>5 DEF SameTabs
<1>8. Safe(t, q) /\ Safe(q, u)
  BY <1>4, <1>5, <1>7, SafeSame
<1>9. Safe(t, u)
  BY <1>8, SafeTrans
<1> QED BY <1>5, <1>6, <1>7, <1>9 DEF u, q, z, none, one

(* A load has ended: nobody waits any more. *)
Woken(s, d, loaded) == WithDoc(s, d, [s.doc[d] EXCEPT !.loaded = loaded, !.waiting = <<>>])

(* Who waited has a hold still, which it gives back after it was told. *)
LEMMA WokenIs ==
  ASSUME NEW s, NEW x \in [Docs -> Nat], Hold(s, x), NEW d \in Docs, NEW loaded \in BOOLEAN,
         s.doc[d].waiting # <<>>
  PROVE  LET t == Woken(s, d, loaded)
         IN  /\ Hold(t, More(x, d, Len(s.doc[d].waiting))) /\ t.win = s.win
             /\ t.doc[d].loaded = loaded /\ ~s.doc[d].edited /\ ~t.doc[d].edited
             /\ Safe(s, t)
<1> DEFINE r == [s.doc[d] EXCEPT !.loaded = loaded, !.waiting = <<>>]
           t == Woken(s, d, loaded)
           m == Len(s.doc[d].waiting)
           y == More(x, d, m)
<1>1. /\ s.doc[d] \in DocRecord /\ s.doc[d].waiting \in Seq(Windows)
      /\ s.doc[d].loaded \in BOOLEAN /\ s.doc[d].edited \in BOOLEAN
  BY StateIs DEF Hold
<1>2. m \in Nat /\ m = Waits(s.doc[d])
  BY <1>1 DEF Waits
<1>3. ~s.doc[d].loaded /\ ~s.doc[d].edited
  BY DEF Hold
<1>4. /\ r \in DocRecord /\ r.count = s.doc[d].count /\ r.loaded = loaded
      /\ r.waiting = <<>> /\ ~r.edited
  <2> DEFINE none == <<>>
  <2>1. none \in Seq(Windows) /\ none = <<>>
    OBVIOUS
  <2>2. s.doc[d].count \in Nat /\ s.doc[d].path \in BOOLEAN
    BY <1>1 DEF DocRecord
  <2>3. r = [[s.doc[d] EXCEPT !.loaded = loaded] EXCEPT !.waiting = none]
    BY <1>1 DEF DocRecord
  <2> HIDE DEF r, none
  <2>4. /\ r.count = s.doc[d].count /\ r.loaded = loaded /\ r.waiting = none
        /\ r.edited = s.doc[d].edited /\ r.path = s.doc[d].path /\ r \in DocRecord
    BY <1>1, <2>1, <2>2, <2>3 DEF DocRecord
  <2> QED BY <1>3, <2>1, <2>4
<1>5. Waits(r) = 0
  BY <1>4 DEF Waits
<1>6. t = WithDoc(s, d, r)
  BY DEF Woken
<1> HIDE DEF r, t, m
<1>7. y \in [Docs -> Nat] /\ y[d] = x[d] + m /\ \A e \in Docs \ {d} : y[e] = x[e]
  BY <1>2, MoreIs
<1>8. Waits(r) + y[d] <= Waits(s.doc[d]) + x[d]
  <2> DEFINE xd == x[d]
             yd == y[d]
  <2>1. xd \in Nat /\ yd = xd + m
    BY <1>7
  <2> HIDE DEF xd, yd
  <2>2. Waits(r) + yd <= m + xd
    BY ONLY <1>2, <1>5, <2>1
  <2> QED BY <1>2, <2>2 DEF xd, yd
<1> HIDE DEF y
<1>9. /\ Hold(t, y) /\ t.win = s.win
      /\ \A e \in Docs : t.doc[e] = IF e = d THEN r ELSE s.doc[e]
  BY <1>3, <1>4, <1>6, <1>7, <1>8, WithDocIs
<1>10. Safe(s, t)
  BY <1>3, <1>4, <1>9 DEF Safe
<1> QED BY <1>3, <1>4, <1>9, <1>10 DEF t, y, m

(* The states through which the handlers of a load go. *)
Showings(base, d, order, f) ==
  f = [n \in 0..Len(order) |->
         IF n = 0 THEN base ELSE OpenClose(SetSelected(f[n - 1], order[n], d), <<>>, <<d>>)]
Failings(base, d, order, browsers, f) ==
  f = [n \in 0..Len(order) |->
         IF n = 0 THEN base ELSE CloseFailed(f[n - 1], order[n], d, order[n] \in browsers)]

(* A load that succeeds: all that waited show the document.                  *)
LEMMA LoadSucceedsIs ==
  ASSUME NEW x \in [Docs -> Nat], Hold(Now, x), NEW d \in Docs, doc[d].waiting # <<>>
  PROVE  Hold(LoadSucceeds(d), x) /\ Safe(Now, LoadSucceeds(d)) /\ SameTabs(Now, LoadSucceeds(d))
<1> DEFINE s == Now
           order == doc[d].waiting
           N == Len(order)
           Good(n, t) == /\ t \in States /\ Hold(t, More(x, d, N - n)) /\ t.doc[d].loaded
                         /\ Safe(s, t) /\ SameTabs(s, t)
           base == Woken(s, d, TRUE)
           D == [n \in 0..N |-> {t \in States : Good(n, t)}]
           step == [n \in 1..N |->
                      [t \in States |-> OpenClose(SetSelected(t, order[n], d), <<>>, <<d>>)]]
           g == CHOOSE f : Showings(base, d, order, f)
<1>0. order = s.doc[d].waiting /\ order \in Seq(Windows) /\ s \in States
  <2>1. order = s.doc[d].waiting
    BY DEF Now
  <2> HIDE DEF order
  <2>2. s \in States
    BY DEF Hold
  <2> HIDE DEF s
  <2> QED BY <2>1, <2>2, StateIs
<1>17. LoadSucceeds(d) = g[N]
  <2>1. base = [Now EXCEPT !.doc[d].loaded = TRUE, !.doc[d].waiting = <<>>]
    <3>1. Now = [win |-> win, doc |-> doc]
      BY DEF Now
    <3>2. doc \in [Docs -> DocRecord]
      BY <1>0, <3>1, StateIs
    <3> QED BY <3>1, <3>2 DEF Woken, WithDoc
  <2>2. LoadSucceeds(d) = (CHOOSE f : Showings([Now EXCEPT !.doc[d].loaded = TRUE,
                                                 !.doc[d].waiting = <<>>], d, order, f))[N]
    BY DEF LoadSucceeds, Showings
  <2> HIDE DEF base, order, N
  <2> QED BY <2>1, <2>2
<1> HIDE DEF s, order
<1>1. N \in Nat /\ \A n \in 1..N : order[n] \in Windows
  BY <1>0, ElementOfSeq
<1>2. Good(0, base)
  <2> DEFINE m == Len(s.doc[d].waiting)
  <2>1. m = N
    BY <1>0
  <2>2. s.doc[d].waiting # <<>>
    BY <1>0 DEF order
  <2>3. Hold(s, x)
    BY DEF s
  <2>4. /\ Hold(base, More(x, d, m)) /\ base.win = s.win /\ base.doc[d].loaded /\ Safe(s, base)
    BY <2>2, <2>3, WokenIs
  <2> HIDE DEF base, m
  <2>5. SameTabs(s, base)
    BY <2>4 DEF SameTabs
  <2>6. N - 0 = m
    BY <1>1, <2>1
  <2>7. base \in States
    BY <2>4 DEF Hold
  <2> QED BY <2>4, <2>5, <2>6, <2>7
<1>3. ASSUME NEW n \in 1..N, NEW t, Good(n - 1, t)
      PROVE  Good(n, OpenClose(SetSelected(t, order[n], d), <<>>, <<d>>))
  <2> DEFINE m == N - n
             w == order[n]
             u == OpenClose(SetSelected(t, w, d), <<>>, <<d>>)
  <2>1. m \in Nat /\ N - (n - 1) = m + 1 /\ w \in Windows
    BY <1>1
  <2>2. Hold(t, More(x, d, m + 1)) /\ t.doc[d].loaded /\ Safe(s, t) /\ SameTabs(s, t)
    BY <1>3, <2>1
  <2> HIDE DEF m, w
  <2>3. Hold(u, More(x, d, m)) /\ u.doc[d].loaded /\ Safe(t, u) /\ SameTabs(t, u)
    BY <2>1, <2>2, LoadNext
  <2> HIDE DEF u
  <2>4. Safe(s, u)
    BY <2>2, <2>3, SafeTrans
  <2>5. SameTabs(s, u)
    BY <2>2, <2>3 DEF SameTabs
  <2>6. u \in States
    BY <2>3 DEF Hold
  <2>7. Good(n, u)
    BY <2>3, <2>4, <2>5, <2>6 DEF m
  <2> QED BY <2>7 DEF u, w
<1> HIDE DEF Good
<1>4. \E f : Steps(N, base, step, f) /\ \A n \in 0..N : f[n] \in D[n]
  <2>1. base \in D[0]
    <3>1. base \in States
      BY <1>2 DEF Good
    <3>2. 0 \in 0..N
      BY <1>1
    <3> HIDE DEF base
    <3> QED BY <1>2, <3>1, <3>2
  <2>2. \A n \in 1..N : \A t \in D[n - 1] : step[n][t] \in D[n]
    <3> SUFFICES ASSUME NEW n \in 1..N, NEW t \in D[n - 1] PROVE step[n][t] \in D[n]
      OBVIOUS
    <3>1. n - 1 \in 0..N /\ n \in 0..N
      OBVIOUS
    <3>2. t \in States /\ Good(n - 1, t)
      BY <3>1
    <3>3. step[n][t] = OpenClose(SetSelected(t, order[n], d), <<>>, <<d>>)
      BY <3>2
    <3>4. Good(n, OpenClose(SetSelected(t, order[n], d), <<>>, <<d>>))
      BY <1>3, <3>2
    <3>5. OpenClose(SetSelected(t, order[n], d), <<>>, <<d>>) \in States
      BY <3>4 DEF Good
    <3> QED BY <3>1, <3>3, <3>4, <3>5
  <2> HIDE DEF D, step, N, base
  <2>3. \A n \in 1..N : \A t \in D[n - 1] : step[n][t] \in D[n]
    BY <2>2
  <2> QED BY ONLY <1>1, <2>1, <2>3, Recursion
<1> HIDE DEF base
<1>5. PICK h : /\ h = [n \in 0..N |-> IF n = 0 THEN base ELSE step[n][h[n - 1]]]
               /\ \A n \in 0..N : h[n] \in D[n]
  BY <1>4 DEF Steps
<1>6. \A n \in 0..N : h[n] \in States
  BY <1>5
<1>7. \A n \in 0..N : h[n] = IF n = 0 THEN base ELSE OpenClose(SetSelected(h[n - 1], order[n], d), <<>>, <<d>>)
  <2> SUFFICES ASSUME NEW n \in 0..N
               PROVE  h[n] = IF n = 0 THEN base ELSE OpenClose(SetSelected(h[n - 1], order[n], d), <<>>, <<d>>)
    OBVIOUS
  <2>1. h[n] = IF n = 0 THEN base ELSE step[n][h[n - 1]]
    BY <1>5
  <2>2. ASSUME n # 0 PROVE step[n][h[n - 1]] = OpenClose(SetSelected(h[n - 1], order[n], d), <<>>, <<d>>)
    <3>1. n \in 1..N /\ n - 1 \in 0..N
      BY <2>2
    <3> QED BY <1>6, <3>1
  <2> QED BY <2>1, <2>2
<1>8. Showings(base, d, order, h)
  <2>1. h = [n \in 0..N |-> h[n]]
    BY <1>5
  <2>2. h = [n \in 0..N |-> IF n = 0 THEN base ELSE OpenClose(SetSelected(h[n - 1], order[n], d), <<>>, <<d>>)]
    BY <1>7, <2>1
  <2> QED BY <2>2 DEF Showings, base
<1>9. Showings(base, d, order, g)
  BY <1>8
<1> HIDE DEF g
<1>10. \A n \in 0..N : g[n] = IF n = 0 THEN base ELSE OpenClose(SetSelected(g[n - 1], order[n], d), <<>>, <<d>>)
  BY <1>9 DEF Showings, base
<1> DEFINE R == {n \in 0..N : Good(n, g[n])}
<1>11. N \in R
  <2>1. 0 \in R
    <3>1. g[0] = base /\ 0 \in 0..N
      BY <1>1, <1>10
    <3> QED BY <1>2, <3>1
  <2>2. ASSUME NEW n \in 1..N, n - 1 \in R PROVE n \in R
    <3>1. n \in 0..N /\ n # 0 /\ Good(n - 1, g[n - 1])
      BY <2>2
    <3>2. g[n] = OpenClose(SetSelected(g[n - 1], order[n], d), <<>>, <<d>>)
      BY <1>10, <3>1
    <3>3. Good(n, OpenClose(SetSelected(g[n - 1], order[n], d), <<>>, <<d>>))
      BY <1>3, <3>1
    <3> QED BY <3>1, <3>2, <3>3
  <2> HIDE DEF R, N
  <2>3. \A n \in 0..N : n \in R
    BY <1>1, <2>1, <2>2, UpTo
  <2> QED BY <1>1, <2>3
<1>12. Good(N, g[N])
  BY <1>11
<1>14. Hold(g[N], x) /\ Safe(s, g[N]) /\ SameTabs(s, g[N])
  <2>1. N - N = 0
    BY <1>1
  <2>2. More(x, d, N - N) = x
    BY <2>1, MoreIs
  <2> QED BY <1>12, <2>2 DEF Good
<1> QED BY <1>14, <1>17 DEF s

(* A load that fails: the tabs of the document are closed in all that waited. *)
LEMMA LoadFailsIs ==
  ASSUME NEW x \in [Docs -> Nat], Hold(Now, x), NEW d \in Docs, doc[d].waiting # <<>>,
         NEW browsers
  PROVE  Hold(LoadFails(d, browsers), x) /\ Safe(Now, LoadFails(d, browsers))
<1> DEFINE s == Now
           order == doc[d].waiting
           N == Len(order)
           none == <<>>
           one == <<d>>
           woken == Woken(s, d, FALSE)
           Good(n, t) == t \in States /\ Hold(t, x) /\ Safe(s, t)
           base == OpenClose(woken, none, one)
           D == [n \in 0..N |-> {t \in States : Good(n, t)}]
           step == [n \in 1..N |->
                      [t \in States |-> CloseFailed(t, order[n], d, order[n] \in browsers)]]
           g == CHOOSE f : Failings(base, d, order, browsers, f)
<1>0. order = s.doc[d].waiting /\ order \in Seq(Windows) /\ s \in States
  <2>1. order = s.doc[d].waiting
    BY DEF Now
  <2> HIDE DEF order
  <2>2. s \in States
    BY DEF Hold
  <2> HIDE DEF s
  <2> QED BY <2>1, <2>2, StateIs
<1>18. Hold(s, x) /\ order # <<>>
  OBVIOUS
<1>17. LoadFails(d, browsers) = g[N]
  <2>1. woken = [Now EXCEPT !.doc[d].waiting = <<>>]
    <3>1. Now = [win |-> win, doc |-> doc]
      BY DEF Now
    <3>2. doc \in [Docs -> DocRecord] /\ doc[d] \in DocRecord /\ ~doc[d].loaded
      <4>1. doc \in [Docs -> DocRecord]
        BY <1>0, <3>1, StateIs
      <4>2. s.doc[d].loaded => s.doc[d].waiting = <<>>
        BY DEF Hold
      <4> QED BY <1>0, <1>18, <3>1, <4>1, <4>2
    <3>3. doc[d].loaded = FALSE
      BY <3>2 DEF DocRecord
    <3>4. [doc[d] EXCEPT !.loaded = FALSE, !.waiting = <<>>] = [doc[d] EXCEPT !.waiting = <<>>]
      BY <3>2, <3>3 DEF DocRecord
    <3> QED BY <3>1, <3>2, <3>4 DEF Woken, WithDoc
  <2>2. LoadFails(d, browsers) =
          (CHOOSE f : Failings(OpenClose([Now EXCEPT !.doc[d].waiting = <<>>], <<>>, <<d>>),
                               d, order, browsers, f))[N]
    BY DEF LoadFails, Failings
  <2> HIDE DEF woken, order, N
  <2> QED BY <2>1, <2>2
<1> HIDE DEF s, order
<1>1. N \in Nat /\ \A n \in 1..N : order[n] \in Windows
  BY <1>0, ElementOfSeq
<1>2. Good(0, base)
  <2> DEFINE m == Len(s.doc[d].waiting)
             y == More(x, d, m)
  <2>1. m \in Nat /\ m >= 1
    <3>1. s.doc[d].waiting \in Seq(Windows) /\ s.doc[d].waiting # <<>>
      BY <1>0, <1>18
    <3> QED BY <3>1, EmptySeq
  <2>2. s.doc[d].waiting # <<>>
    BY <1>0, <1>18
  <2>3. /\ Hold(woken, y) /\ woken.win = s.win /\ Safe(s, woken)
    BY <1>18, <2>2, WokenIs
  <2> HIDE DEF woken, m
  <2>4. y \in [Docs -> Nat] /\ none \in Seq(Docs) /\ one \in Seq(Docs)
    <3>1. y \in [Docs -> Nat]
      BY <2>1, MoreIs
    <3> QED BY <3>1
  <2>5. ASSUME NEW e \in Docs PROVE x[e] + Times(one, e) <= y[e] + Times(none, e)
    <3>1. Times(none, e) = 0 /\ Times(one, e) = IF d = e THEN 1 ELSE 0
      BY TimesFew
    <3>2. y[e] = IF e = d THEN x[d] + m ELSE x[e]
      BY DEF More
    <3>3. x[d] \in Nat /\ x[e] \in Nat
      OBVIOUS
    <3> HIDE DEF y, none, one
    <3> DEFINE ye == y[e]
               xd == x[d]
               xe == x[e]
               a == Times(one, e)
               b == Times(none, e)
    <3>4. CASE e = d
      <4>1. b = 0 /\ a = 1 /\ ye = xd + m /\ xd \in Nat
        BY <3>1, <3>2, <3>3, <3>4
      <4> HIDE DEF ye, xd, a, b
      <4>2. xd + a <= ye + b
        BY ONLY <2>1, <4>1
      <4> QED BY <3>4, <4>2 DEF ye, xd, a, b
    <3>5. CASE e # d
      <4>1. b = 0 /\ a = 0 /\ ye = xe /\ xe \in Nat
        BY <3>1, <3>2, <3>3, <3>5
      <4> HIDE DEF ye, xe, a, b
      <4>2. xe + a <= ye + b
        BY ONLY <4>1
      <4> QED BY <4>2 DEF ye, xe, a, b
    <3> QED BY <3>4, <3>5
  <2> HIDE DEF none, one, y
  <2>6. Hold(base, x) /\ Rel(woken, base) /\ base.win = woken.win
    BY <2>3, <2>4, <2>5, OpenCloseHolds
  <2> HIDE DEF base
  <2>7. SameTabs(woken, base)
    BY <2>6 DEF SameTabs
  <2>8. Safe(woken, base)
    BY <2>6, <2>7, SafeSame
  <2>9. Safe(s, base)
    BY <2>3, <2>8, SafeTrans
  <2>10. base \in States
    BY <2>6 DEF Hold
  <2> QED BY <2>6, <2>9, <2>10
<1>19. ~s.doc[d].edited
  BY <1>0, <1>18 DEF Hold
<1>3. ASSUME NEW n \in 1..N, NEW t, Good(n - 1, t)
      PROVE  Good(n, CloseFailed(t, order[n], d, order[n] \in browsers))
  <2> DEFINE w == order[n]
             browser == w \in browsers
             u == CloseFailed(t, w, d, browser)
  <2>1. w \in Windows
    BY <1>1
  <2>2. Hold(t, x) /\ Safe(s, t) /\ ~t.doc[d].edited
    BY <1>3, <1>19 DEF Safe
  <2> HIDE DEF w, browser
  <2>3. Hold(u, x) /\ Safe(t, u)
    BY <2>1, <2>2, CloseFailedIs
  <2> HIDE DEF u
  <2>4. Safe(s, u)
    BY <2>2, <2>3, SafeTrans
  <2>6. u \in States
    BY <2>3 DEF Hold
  <2>7. Good(n, u)
    BY <2>3, <2>4, <2>6
  <2> QED BY <2>7 DEF u, w, browser
<1> HIDE DEF Good
<1>4. \E f : Steps(N, base, step, f) /\ \A n \in 0..N : f[n] \in D[n]
  <2>1. base \in D[0]
    <3>1. base \in States
      BY <1>2 DEF Good
    <3>2. 0 \in 0..N
      BY <1>1
    <3> HIDE DEF base
    <3> QED BY <1>2, <3>1, <3>2
  <2>2. \A n \in 1..N : \A t \in D[n - 1] : step[n][t] \in D[n]
    <3> SUFFICES ASSUME NEW n \in 1..N, NEW t \in D[n - 1] PROVE step[n][t] \in D[n]
      OBVIOUS
    <3>1. n - 1 \in 0..N /\ n \in 0..N
      OBVIOUS
    <3>2. t \in States /\ Good(n - 1, t)
      BY <3>1
    <3>3. step[n][t] = CloseFailed(t, order[n], d, order[n] \in browsers)
      BY <3>2
    <3>4. Good(n, CloseFailed(t, order[n], d, order[n] \in browsers))
      BY <1>3, <3>2
    <3>5. CloseFailed(t, order[n], d, order[n] \in browsers) \in States
      BY <3>4 DEF Good
    <3> QED BY <3>1, <3>3, <3>4, <3>5
  <2> HIDE DEF D, step, N, base
  <2>3. \A n \in 1..N : \A t \in D[n - 1] : step[n][t] \in D[n]
    BY <2>2
  <2> QED BY ONLY <1>1, <2>1, <2>3, Recursion
<1> HIDE DEF base
<1>5. PICK h : /\ h = [n \in 0..N |-> IF n = 0 THEN base ELSE step[n][h[n - 1]]]
               /\ \A n \in 0..N : h[n] \in D[n]
  BY <1>4 DEF Steps
<1>6. \A n \in 0..N : h[n] \in States
  BY <1>5
<1>7. \A n \in 0..N : h[n] = IF n = 0 THEN base ELSE CloseFailed(h[n - 1], order[n], d, order[n] \in browsers)
  <2> SUFFICES ASSUME NEW n \in 0..N
               PROVE  h[n] = IF n = 0 THEN base ELSE CloseFailed(h[n - 1], order[n], d, order[n] \in browsers)
    OBVIOUS
  <2>1. h[n] = IF n = 0 THEN base ELSE step[n][h[n - 1]]
    BY <1>5
  <2>2. ASSUME n # 0 PROVE step[n][h[n - 1]] = CloseFailed(h[n - 1], order[n], d, order[n] \in browsers)
    <3>1. n \in 1..N /\ n - 1 \in 0..N
      BY <2>2
    <3> QED BY <1>6, <3>1
  <2> QED BY <2>1, <2>2
<1>8. Failings(base, d, order, browsers, h)
  <2>1. h = [n \in 0..N |-> h[n]]
    BY <1>5
  <2>2. h = [n \in 0..N |-> IF n = 0 THEN base ELSE CloseFailed(h[n - 1], order[n], d, order[n] \in browsers)]
    BY <1>7, <2>1
  <2> QED BY <2>2 DEF Failings, base
<1>9. Failings(base, d, order, browsers, g)
  BY <1>8
<1> HIDE DEF g
<1>10. \A n \in 0..N : g[n] = IF n = 0 THEN base ELSE CloseFailed(g[n - 1], order[n], d, order[n] \in browsers)
  BY <1>9 DEF Failings, base
<1> DEFINE R == {n \in 0..N : Good(n, g[n])}
<1>11. N \in R
  <2>1. 0 \in R
    <3>1. g[0] = base /\ 0 \in 0..N
      BY <1>1, <1>10
    <3> QED BY <1>2, <3>1
  <2>2. ASSUME NEW n \in 1..N, n - 1 \in R PROVE n \in R
    <3>1. n \in 0..N /\ n # 0 /\ Good(n - 1, g[n - 1])
      BY <2>2
    <3>2. g[n] = CloseFailed(g[n - 1], order[n], d, order[n] \in browsers)
      BY <1>10, <3>1
    <3>3. Good(n, CloseFailed(g[n - 1], order[n], d, order[n] \in browsers))
      BY <1>3, <3>1
    <3> QED BY <3>1, <3>2, <3>3
  <2> HIDE DEF R, N
  <2>3. \A n \in 0..N : n \in R
    BY <1>1, <2>1, <2>2, UpTo
  <2> QED BY <1>1, <2>3
<1>12. Good(N, g[N])
  BY <1>11
<1>14. Hold(g[N], x) /\ Safe(s, g[N])
  BY <1>12 DEF Good
<1> QED BY <1>14, <1>17 DEF s

-----------------------------------------------------------------------------
(* Merging windows. *)
Joinings(s, base, order, f) ==
  f = [n \in 0..Len(order) |-> IF n = 0 THEN base ELSE f[n - 1] \o s.win[order[n]].tabs]
Mergings(base, order, f) ==
  f = [n \in 0..Len(order) |-> IF n = 0 THEN base ELSE CloseWindow(f[n - 1], order[n])]

JoinedTabs(s, w, order) == (CHOOSE f : Joinings(s, s.win[w].tabs, order, f))[Len(order)]

(* What two sequences have, both have together. *)
LEMMA JoinHas ==
  ASSUME NEW a \in Seq(Docs), NEW b \in Seq(Docs)
  PROVE  /\ a \o b \in Seq(Docs)
         /\ \A e : Has(a, e) \/ Has(b, e) => Has(a \o b, e)
<1> DEFINE c == a \o b
<1>1. /\ c \in Seq(Docs) /\ Len(c) = Len(a) + Len(b) /\ Len(a) \in Nat /\ Len(b) \in Nat
      /\ \A i \in 1..Len(a) : c[i] = a[i]
      /\ \A i \in 1..Len(b) : c[Len(a) + i] = b[i]
  OBVIOUS
<1> HIDE DEF c
<1>2. \A i \in 1..Len(a) : i \in 1..Len(c)
  BY <1>1
<1>3. \A i \in 1..Len(b) : Len(a) + i \in 1..Len(c)
  BY <1>1
<1>4. \A e : Has(a, e) \/ Has(b, e) => Has(c, e)
  BY <1>1, <1>2, <1>3 DEF Has
<1> QED BY <1>1, <1>4 DEF c

(* The joined tabs have those of all the windows. *)
LEMMA JoinedIs ==
  ASSUME NEW s \in States, NEW w \in Windows, NEW order \in Seq(Windows)
  PROVE  /\ JoinedTabs(s, w, order) \in Seq(Docs)
         /\ \A e : Has(s.win[w].tabs, e) => Has(JoinedTabs(s, w, order), e)
         /\ \A e : (\E k \in 1..Len(order) : Has(s.win[order[k]].tabs, e))
                      => Has(JoinedTabs(s, w, order), e)
<1> DEFINE N == Len(order)
           base == s.win[w].tabs
           Good(n, t) == /\ t \in Seq(Docs)
                         /\ \A e : Has(base, e) => Has(t, e)
                         /\ \A e : (\E k \in 1..n : Has(s.win[order[k]].tabs, e)) => Has(t, e)
           D == [n \in 0..N |-> {t \in Seq(Docs) : Good(n, t)}]
           step == [n \in 1..N |-> [t \in Seq(Docs) |-> t \o s.win[order[n]].tabs]]
           g == CHOOSE f : Joinings(s, base, order, f)
<1>17. JoinedTabs(s, w, order) = g[N]
  BY DEF JoinedTabs
<1>1. N \in Nat /\ \A n \in 1..N : order[n] \in Windows
  BY ElementOfSeq
<1>2. Good(0, base)
  <2>1. base \in Seq(Docs)
    BY StateIs
  <2> HIDE DEF base
  <2> QED BY <2>1
<1>15. base = s.win[w].tabs
  OBVIOUS
<1> HIDE DEF base
<1>3. ASSUME NEW n \in 1..N, NEW t, Good(n - 1, t)
      PROVE  Good(n, t \o s.win[order[n]].tabs)
  <2> DEFINE tabs == s.win[order[n]].tabs
             u == t \o tabs
  <2>1. tabs \in Seq(Docs)
    BY <1>1, StateIs
  <2>2. t \in Seq(Docs)
    BY <1>3
  <2>3. tabs = s.win[order[n]].tabs
    OBVIOUS
  <2> HIDE DEF tabs
  <2>4. u \in Seq(Docs) /\ \A e : Has(t, e) \/ Has(tabs, e) => Has(u, e)
    BY <2>1, <2>2, JoinHas
  <2> HIDE DEF u
  <2>5. \A e : Has(base, e) => Has(u, e)
    BY <1>3, <2>4
  <2>6. ASSUME NEW e, NEW k \in 1..n, Has(s.win[order[k]].tabs, e) PROVE Has(u, e)
    <3>1. CASE k = n
      BY <2>3, <2>4, <2>6, <3>1
    <3>2. CASE k # n
      <4>1. k \in 1..n - 1
        BY <1>1, <3>2
      <4>2. Has(t, e)
        BY <1>3, <2>6, <4>1
      <4> QED BY <2>4, <4>2
    <3> QED BY <3>1, <3>2
  <2>7. Good(n, u)
    BY <2>4, <2>5, <2>6
  <2> QED BY <2>7 DEF u, tabs
<1> HIDE DEF Good
<1>4. \E f : Steps(N, base, step, f) /\ \A n \in 0..N : f[n] \in D[n]
  <2>1. base \in D[0]
    <3>1. base \in Seq(Docs)
      BY <1>2 DEF Good
    <3>2. 0 \in 0..N
      BY <1>1
    <3> HIDE DEF base
    <3> QED BY <1>2, <3>1, <3>2
  <2>2. \A n \in 1..N : \A t \in D[n - 1] : step[n][t] \in D[n]
    <3> SUFFICES ASSUME NEW n \in 1..N, NEW t \in D[n - 1] PROVE step[n][t] \in D[n]
      OBVIOUS
    <3>1. n - 1 \in 0..N /\ n \in 0..N
      OBVIOUS
    <3>2. t \in Seq(Docs) /\ Good(n - 1, t)
      BY <3>1
    <3>3. step[n][t] = t \o s.win[order[n]].tabs
      BY <3>2
    <3>4. Good(n, t \o s.win[order[n]].tabs)
      BY <1>3, <3>2
    <3>5. t \o s.win[order[n]].tabs \in Seq(Docs)
      BY <3>4 DEF Good
    <3> QED BY <3>1, <3>3, <3>4, <3>5
  <2> HIDE DEF D, step, N, base
  <2>3. \A n \in 1..N : \A t \in D[n - 1] : step[n][t] \in D[n]
    BY <2>2
  <2> QED BY ONLY <1>1, <2>1, <2>3, Recursion
<1> HIDE DEF base
<1>5. PICK h : /\ h = [n \in 0..N |-> IF n = 0 THEN base ELSE step[n][h[n - 1]]]
               /\ \A n \in 0..N : h[n] \in D[n]
  BY <1>4 DEF Steps
<1>6. \A n \in 0..N : h[n] \in Seq(Docs)
  BY <1>5
<1>7. \A n \in 0..N : h[n] = IF n = 0 THEN base ELSE h[n - 1] \o s.win[order[n]].tabs
  <2> SUFFICES ASSUME NEW n \in 0..N
               PROVE  h[n] = IF n = 0 THEN base ELSE h[n - 1] \o s.win[order[n]].tabs
    OBVIOUS
  <2>1. h[n] = IF n = 0 THEN base ELSE step[n][h[n - 1]]
    BY <1>5
  <2>2. ASSUME n # 0 PROVE step[n][h[n - 1]] = h[n - 1] \o s.win[order[n]].tabs
    <3>1. n \in 1..N /\ n - 1 \in 0..N
      BY <2>2
    <3> QED BY <1>6, <3>1
  <2> QED BY <2>1, <2>2
<1>8. Joinings(s, base, order, h)
  <2>1. h = [n \in 0..N |-> h[n]]
    BY <1>5
  <2>2. h = [n \in 0..N |-> IF n = 0 THEN base ELSE h[n - 1] \o s.win[order[n]].tabs]
    BY <1>7, <2>1
  <2> QED BY <2>2 DEF Joinings, base
<1>9. Joinings(s, base, order, g)
  BY <1>8
<1> HIDE DEF g
<1>10. \A n \in 0..N : g[n] = IF n = 0 THEN base ELSE g[n - 1] \o s.win[order[n]].tabs
  BY <1>9 DEF Joinings, base
<1> DEFINE R == {n \in 0..N : Good(n, g[n])}
<1>11. N \in R
  <2>1. 0 \in R
    <3>1. g[0] = base /\ 0 \in 0..N
      BY <1>1, <1>10
    <3> QED BY <1>2, <3>1
  <2>2. ASSUME NEW n \in 1..N, n - 1 \in R PROVE n \in R
    <3>1. n \in 0..N /\ n # 0 /\ Good(n - 1, g[n - 1])
      BY <2>2
    <3>2. g[n] = g[n - 1] \o s.win[order[n]].tabs
      BY <1>10, <3>1
    <3>3. Good(n, g[n - 1] \o s.win[order[n]].tabs)
      BY <1>3, <3>1
    <3> QED BY <3>1, <3>2, <3>3
  <2> HIDE DEF R, N
  <2>3. \A n \in 0..N : n \in R
    BY <1>1, <2>1, <2>2, UpTo
  <2> QED BY <1>1, <2>3
<1>12. Good(N, g[N])
  BY <1>11
<1> QED BY <1>12, <1>15, <1>17 DEF Good

(* All edited documents have a tab in the window into which the others are   *)
(* merged.                                                                   *)
LEMMA MergeIs ==
  ASSUME NEW s, NEW x \in [Docs -> Nat], Hold(s, x), NEW w \in Windows,
         NEW order \in Seq(Windows \ {w}), s.win[w].state = "open"
  PROVE  Hold(Merge(s, w, order), x) /\ Safe(s, Merge(s, w, order))
<1> DEFINE N == Len(order)
           tabs == JoinedTabs(s, w, order)
           base == SetDocuments(s, w, tabs)
           Good(n, t) == /\ t \in States /\ Hold(t, x) /\ Safe(s, t)
                         /\ t.win[w].tabs = tabs
                         /\ \A v \in Windows \ {w}, e \in Docs :
                              Has(t.win[v].tabs, e) => Has(s.win[v].tabs, e)
           D == [n \in 0..N |-> {t \in States : Good(n, t)}]
           step == [n \in 1..N |-> [t \in States |-> CloseWindow(t, order[n])]]
           g == CHOOSE f : Mergings(base, order, f)
<1>17. Merge(s, w, order) = g[N]
  BY DEF Merge, Mergings, JoinedTabs, Joinings
<1>1. N \in Nat /\ \A n \in 1..N : order[n] \in Windows \ {w}
  BY ElementOfSeq
<1>15. s \in States /\ order \in Seq(Windows)
  <2>1. Windows \ {w} \subseteq Windows
    OBVIOUS
  <2> QED BY <2>1, SeqMonotonic DEF Hold
<1>16. /\ tabs \in Seq(Docs) /\ \A e : Has(s.win[w].tabs, e) => Has(tabs, e)
       /\ \A k \in 1..N, e \in Docs : Has(s.win[order[k]].tabs, e) => Has(tabs, e)
  <2>1. /\ tabs \in Seq(Docs) /\ \A e : Has(s.win[w].tabs, e) => Has(tabs, e)
        /\ \A e : (\E k \in 1..N : Has(s.win[order[k]].tabs, e)) => Has(tabs, e)
    BY <1>15, JoinedIs
  <2> HIDE DEF tabs, N
  <2> QED BY <2>1
<1> HIDE DEF tabs
<1>2. Good(0, base)
  <2>1. MayHave(s, w, tabs)
    BY DEF MayHave
  <2>2. /\ Hold(base, x) /\ Rel(s, base) /\ \A v \in Windows \ {w} : base.win[v] = s.win[v]
        /\ base.win[w].tabs = tabs
    BY <1>16, <2>1, SetDocumentsIs
  <2> HIDE DEF base
  <2>3. \A e \in Docs : InTab(s.win, e) => InTab(base.win, e)
    BY <1>16, <2>2 DEF InTab
  <2>4. Safe(s, base)
    BY <2>2, <2>3, SafeIf
  <2>5. base \in States
    BY <2>2 DEF Hold
  <2> QED BY <2>2, <2>4, <2>5
<1>3. ASSUME NEW n \in 1..N, NEW t, Good(n - 1, t) PROVE Good(n, CloseWindow(t, order[n]))
  <2> DEFINE v == order[n]
             u == CloseWindow(t, v)
  <2>1. v \in Windows /\ v # w
    BY <1>1
  <2>2. \A e \in Docs : Has(s.win[v].tabs, e) => Has(tabs, e)
    BY <1>16
  <2> HIDE DEF v
  <2>3. \A e \in Docs : Has(t.win[v].tabs, e) => \E p \in Windows \ {v} : Has(t.win[p].tabs, e)
    BY <1>3, <2>1, <2>2
  <2>4. Hold(t, x) /\ Safe(s, t)
    BY <1>3
  <2>5. Hold(u, x) /\ Safe(t, u) /\ \A p \in Windows \ {v} : u.win[p] = t.win[p]
    BY <2>1, <2>3, <2>4, CloseWindowUnedited
  <2>6. u.win[v].tabs = <<>>
    BY <2>1, <2>4, CloseWindowIs
  <2> HIDE DEF u
  <2>7. Safe(s, u)
    BY <2>4, <2>5, SafeTrans
  <2>8. u \in States
    BY <2>5 DEF Hold
  <2>9. u.win[w].tabs = tabs
    BY <1>3, <2>1, <2>5
  <2>10. \A p \in Windows \ {w}, e \in Docs : Has(u.win[p].tabs, e) => Has(s.win[p].tabs, e)
    <3>1. \A e : ~Has(u.win[v].tabs, e)
      BY <2>6 DEF Has
    <3> QED BY <1>3, <2>1, <2>5, <3>1
  <2>11. Good(n, u)
    BY <2>5, <2>7, <2>8, <2>9, <2>10
  <2> QED BY <2>11 DEF u, v
<1> HIDE DEF Good
<1>4. \E f : Steps(N, base, step, f) /\ \A n \in 0..N : f[n] \in D[n]
  <2>1. base \in D[0]
    <3>1. base \in States
      BY <1>2 DEF Good
    <3>2. 0 \in 0..N
      BY <1>1
    <3> HIDE DEF base
    <3> QED BY <1>2, <3>1, <3>2
  <2>2. \A n \in 1..N : \A t \in D[n - 1] : step[n][t] \in D[n]
    <3> SUFFICES ASSUME NEW n \in 1..N, NEW t \in D[n - 1] PROVE step[n][t] \in D[n]
      OBVIOUS
    <3>1. n - 1 \in 0..N /\ n \in 0..N
      OBVIOUS
    <3>2. t \in States /\ Good(n - 1, t)
      BY <3>1
    <3>3. step[n][t] = CloseWindow(t, order[n])
      BY <3>2
    <3>4. Good(n, CloseWindow(t, order[n]))
      BY <1>3, <3>2
    <3>5. CloseWindow(t, order[n]) \in States
      BY <3>4 DEF Good
    <3> QED BY <3>1, <3>3, <3>4, <3>5
  <2> HIDE DEF D, step, N, base
  <2>3. \A n \in 1..N : \A t \in D[n - 1] : step[n][t] \in D[n]
    BY <2>2
  <2> QED BY ONLY <1>1, <2>1, <2>3, Recursion
<1> HIDE DEF base
<1>5. PICK h : /\ h = [n \in 0..N |-> IF n = 0 THEN base ELSE step[n][h[n - 1]]]
               /\ \A n \in 0..N : h[n] \in D[n]
  BY <1>4 DEF Steps
<1>6. \A n \in 0..N : h[n] \in States
  BY <1>5
<1>7. \A n \in 0..N : h[n] = IF n = 0 THEN base ELSE CloseWindow(h[n - 1], order[n])
  <2> SUFFICES ASSUME NEW n \in 0..N
               PROVE  h[n] = IF n = 0 THEN base ELSE CloseWindow(h[n - 1], order[n])
    OBVIOUS
  <2>1. h[n] = IF n = 0 THEN base ELSE step[n][h[n - 1]]
    BY <1>5
  <2>2. ASSUME n # 0 PROVE step[n][h[n - 1]] = CloseWindow(h[n - 1], order[n])
    <3>1. n \in 1..N /\ n - 1 \in 0..N
      BY <2>2
    <3> QED BY <1>6, <3>1
  <2> QED BY <2>1, <2>2
<1>8. Mergings(base, order, h)
  <2>1. h = [n \in 0..N |-> h[n]]
    BY <1>5
  <2>2. h = [n \in 0..N |-> IF n = 0 THEN base ELSE CloseWindow(h[n - 1], order[n])]
    BY <1>7, <2>1
  <2> QED BY <2>2 DEF Mergings, base
<1>9. Mergings(base, order, g)
  BY <1>8
<1> HIDE DEF g
<1>10. \A n \in 0..N : g[n] = IF n = 0 THEN base ELSE CloseWindow(g[n - 1], order[n])
  BY <1>9 DEF Mergings, base
<1> DEFINE R == {n \in 0..N : Good(n, g[n])}
<1>11. N \in R
  <2>1. 0 \in R
    <3>1. g[0] = base /\ 0 \in 0..N
      BY <1>1, <1>10
    <3> QED BY <1>2, <3>1
  <2>2. ASSUME NEW n \in 1..N, n - 1 \in R PROVE n \in R
    <3>1. n \in 0..N /\ n # 0 /\ Good(n - 1, g[n - 1])
      BY <2>2
    <3>2. g[n] = CloseWindow(g[n - 1], order[n])
      BY <1>10, <3>1
    <3>3. Good(n, CloseWindow(g[n - 1], order[n]))
      BY <1>3, <3>1
    <3> QED BY <3>1, <3>2, <3>3
  <2> HIDE DEF R, N
  <2>3. \A n \in 0..N : n \in R
    BY <1>1, <2>1, <2>2, UpTo
  <2> QED BY <1>1, <2>3
<1>12. Good(N, g[N])
  BY <1>11
<1> QED BY <1>12, <1>17 DEF Good

-----------------------------------------------------------------------------
(* Jobs. *)
JobRecord == [stage : {"free", "sheet", "saving"}, window : Windows \cup {NoWindow},
              rest : Seq(Docs), tabs : SUBSET Nat, then : {"nothing", "tabs", "window", "quit"}]

(* Does the job save the document now? *)
Saves(r, d) == r.stage = "saving" /\ Head(r.rest) = d

(* The holds of the saves. *)
Saving(jobs) == [d \in Docs |-> Cardinality({j \in Jobs : Saves(jobs[j], d)})]

(* The holds of the saves are counted. *)
LEMMA SavingIs ==
  ASSUME NEW jobs
  PROVE  /\ Saving(jobs) \in [Docs -> Nat]
         /\ \A d \in Docs : Saving(jobs)[d] = Cardinality({j \in Jobs : Saves(jobs[j], d)})
<1>1. ASSUME NEW d \in Docs PROVE Cardinality({j \in Jobs : Saves(jobs[j], d)}) \in Nat
  <2>1. {j \in Jobs : Saves(jobs[j], d)} \subseteq Jobs /\ IsFiniteSet(Jobs)
    BY DocumentWindowAssumption
  <2>2. IsFiniteSet({j \in Jobs : Saves(jobs[j], d)})
    BY <2>1, FS_Subset
  <2> QED BY <2>2, FS_CardinalityType
<1> QED BY <1>1 DEF Saving

(* One or none. *)
Once(c) == IF c THEN 1 ELSE 0

(* One job changes, and the holds with it. *)
LEMMA SavingChange ==
  ASSUME NEW jobs, NEW next, NEW j \in Jobs, \A i \in Jobs \ {j} : next[i] = jobs[i], NEW d \in Docs
  PROVE  Saving(next)[d] + Once(Saves(jobs[j], d)) = Saving(jobs)[d] + Once(Saves(next[j], d))
<1> DEFINE S == {i \in Jobs : Saves(jobs[i], d)}
           T == {i \in Jobs : Saves(next[i], d)}
<1>1. IsFiniteSet(S) /\ IsFiniteSet(T)
  <2>1. S \subseteq Jobs /\ T \subseteq Jobs /\ IsFiniteSet(Jobs)
    BY DocumentWindowAssumption
  <2> HIDE DEF S, T
  <2> QED BY <2>1, FS_Subset
<1>2. S \ {j} = T \ {j}
  OBVIOUS
<1>3. (j \in S <=> Saves(jobs[j], d)) /\ (j \in T <=> Saves(next[j], d))
  OBVIOUS
<1>4. Saving(jobs)[d] = Cardinality(S) /\ Saving(next)[d] = Cardinality(T)
  BY SavingIs
<1> HIDE DEF S, T
<1>5. Cardinality(S) + (IF j \in T THEN 1 ELSE 0) = Cardinality(T) + (IF j \in S THEN 1 ELSE 0)
  BY <1>1, <1>2, OneDiffers
<1>6. (IF j \in T THEN 1 ELSE 0) = Once(Saves(next[j], d))
  BY <1>3 DEF Once
<1>7. (IF j \in S THEN 1 ELSE 0) = Once(Saves(jobs[j], d))
  BY <1>3 DEF Once
<1> QED BY <1>4, <1>5, <1>6, <1>7

(* A save has something to save, and a job has a window. *)
JobsOK(jobs) ==
  /\ jobs \in [Jobs -> JobRecord]
  /\ \A j \in Jobs : /\ jobs[j].stage = "saving" => jobs[j].rest # <<>>
                     /\ jobs[j].stage # "free" => jobs[j].window \in Windows
                     /\ jobs[j].stage = "free" => jobs[j].then = "nothing"

(* Will tabs be closed after it? *)
Closing(r) == r.then \in {"tabs", "window"}

(* The edited documents in the tabs that are to be closed are still to be    *)
(* saved, or asked about.                                                    *)
Asked(s, r) ==
  \A i \in DOMAIN s.win[r.window].tabs :
    ((r.then = "tabs" => i \in r.tabs) /\ s.doc[s.win[r.window].tabs[i]].edited)
      => Has(r.rest, s.win[r.window].tabs[i])

(* The invariant of the windows, the documents and the jobs.                 *)
Inv(s, jobs, st) ==
  /\ Hold(s, Saving(jobs)) /\ JobsOK(jobs)
  /\ \A j \in Jobs : (Closing(jobs[j]) /\ jobs[j].window \notin st) => Asked(s, jobs[j])

(* The windows that changed, as Record has it. *)
StaleOf(s, t, jobs, st, typed) ==
  {w \in Windows :
     /\ \E j \in Jobs : jobs[j].window = w /\ jobs[j].then \in {"tabs", "window"}
     /\ \/ w \in st \/ t.win[w].tabs # s.win[w].tabs
        \/ \E d \in typed : Times(s.win[w].tabs, d) > 0}

(* How a job may change: it ends, it asks about all that is edited, or it    *)
(* drops only what is not edited any more.                                   *)
Follows(t, r, q) ==
  \/ ~Closing(q)
  \/ Asked(t, q)
  \/ /\ q.then = r.then /\ q.window = r.window /\ q.tabs = r.tabs
     /\ \A d \in Docs : (t.doc[d].edited /\ Has(r.rest, d)) => Has(q.rest, d)

(* The invariant holds in the next state if the jobs follow what changed. *)
LEMMA InvNext ==
  ASSUME NEW s, NEW t, NEW jobs, NEW next, NEW st, NEW typed, Inv(s, jobs, st),
         Hold(t, Saving(next)), JobsOK(next),
         \A d \in Docs : t.doc[d].edited => s.doc[d].edited \/ d \in typed,
         \A j \in Jobs : Follows(t, jobs[j], next[j])
  PROVE  Inv(t, next, StaleOf(s, t, next, st, typed))
<1> SUFFICES ASSUME NEW j \in Jobs, Closing(next[j]),
                    next[j].window \notin StaleOf(s, t, next, st, typed)
             PROVE  Asked(t, next[j])
  BY DEF Inv
<1> DEFINE w == next[j].window
<1>1. w \in Windows
  BY DEF Closing, JobsOK
<1>2. w \notin st /\ t.win[w].tabs = s.win[w].tabs /\ ~\E d \in typed : Times(s.win[w].tabs, d) > 0
  <2>1. \E i \in Jobs : next[i].window = w /\ next[i].then \in {"tabs", "window"}
    BY DEF Closing
  <2> HIDE DEF w
  <2>2. w \notin StaleOf(s, t, next, st, typed)
    BY DEF w
  <2> QED BY <1>1, <2>1, <2>2 DEF StaleOf
<1>3. CASE Asked(t, next[j])
  BY <1>3
<1>4. CASE /\ next[j].then = jobs[j].then /\ next[j].window = jobs[j].window
           /\ next[j].tabs = jobs[j].tabs
           /\ \A d \in Docs : (t.doc[d].edited /\ Has(jobs[j].rest, d)) => Has(next[j].rest, d)
  <2>1. Asked(s, jobs[j])
    BY <1>2, <1>4 DEF Inv, Closing
  <2> SUFFICES ASSUME NEW i \in DOMAIN t.win[w].tabs, next[j].then = "tabs" => i \in next[j].tabs,
                      t.doc[t.win[w].tabs[i]].edited
               PROVE  Has(next[j].rest, t.win[w].tabs[i])
    BY DEF Asked
  <2> DEFINE tabs == s.win[w].tabs
             e == tabs[i]
  <2>2. tabs \in Seq(Docs)
    BY <1>1, StateIs DEF Inv, Hold
  <2>3. i \in 1..Len(tabs) /\ e \in Docs /\ e = t.win[w].tabs[i]
    <3>1. i \in 1..Len(tabs)
      <4>1. i \in DOMAIN tabs
        BY <1>2
      <4> HIDE DEF tabs
      <4>2. DOMAIN tabs = 1..Len(tabs)
        BY ONLY <2>2
      <4> QED BY ONLY <4>1, <4>2
    <3>2. e \in Docs
      <4> HIDE DEF tabs
      <4> QED BY <2>2, <3>1, ElementOfSeq
    <3> QED BY <1>2, <3>1, <3>2
  <2>4. Times(tabs, e) > 0
    <3> HIDE DEF tabs
    <3> QED BY <2>2, <2>3, PlacesFinite
  <2>5. s.doc[e].edited
    BY <1>2, <2>3, <2>4
  <2>6. Has(jobs[j].rest, e)
    <3>1. i \in DOMAIN s.win[jobs[j].window].tabs /\ e = s.win[jobs[j].window].tabs[i]
      BY <1>2, <1>4
    <3>2. jobs[j].then = "tabs" => i \in jobs[j].tabs
      BY <1>4
    <3> QED BY <2>1, <2>5, <3>1, <3>2 DEF Asked
  <2> QED BY <1>4, <2>3, <2>6
<1> QED BY <1>3, <1>4 DEF Follows

(* What LostIsAgreed says of a step. *)
Lost(s, t, ag, st) ==
  \A d \in Docs : (s.doc[d].edited /\ ~t.doc[d].loaded) =>
    \/ d \in ag \/ (\E w \in st : Has(s.win[w].tabs, d)) \/ ~InTab(s.win, d)

(* What is safe is not lost. *)
LEMMA SafeNotLost ==
  ASSUME NEW s, NEW t, NEW ag, NEW st, NEW x, Hold(t, x), Safe(s, t)
  PROVE  Lost(s, t, ag, st)
BY DEF Hold, Safe, Lost

(* What QuitKeepsChanges says of a state. *)
Quits(t, a, k, ag, discards) ==
  a = "quit" => \A d \in Docs : (InTab(t.win, d) /\ t.doc[d].edited) => d \in ag \cup k \/ discards

(* What any step does. *)
Result ==
  \E typed \in SUBSET Docs, agrees \in SUBSET Docs :
    /\ Record(typed, agrees)
    /\ Hold([win |-> win', doc |-> doc'], Saving(job')) /\ JobsOK(job')
    /\ \A d \in Docs : doc'[d].edited => doc[d].edited \/ d \in typed
    /\ \A j \in Jobs : Follows([win |-> win', doc |-> doc'], job[j], job'[j])
    /\ Lost(Now, [win |-> win', doc |-> doc'], agreed', stale)
    /\ Quits([win |-> win', doc |-> doc'], app', kept', agreed', discarded')
    /\ app' \in {"running", "terminating", "quit"} /\ kept' \subseteq Docs
    /\ discarded' \in BOOLEAN /\ edits' \in 0..MaxEdits /\ requests' \in 0..MaxRequests

(* The invariant that is inductive. *)
IInv ==
  /\ Inv(Now, job, stale)
  /\ app \in {"running", "terminating", "quit"} /\ kept \subseteq Docs /\ agreed \subseteq Docs
  /\ stale \subseteq Windows /\ discarded \in BOOLEAN
  /\ edits \in 0..MaxEdits /\ requests \in 0..MaxRequests

-----------------------------------------------------------------------------
(* The steps that start and end no job. *)
LEMMA NextState ==
  ASSUME NEW t, NEW x, Become(t), Hold(t, x)
  PROVE  [win |-> win', doc |-> doc'] = t
BY StateIs DEF Hold, Become

(* A job that does not change follows. *)
LEMMA FollowsSame ==
  ASSUME NEW t, NEW r PROVE Follows(t, r, r)
BY DEF Follows

(* What most of the steps need of the invariant. *)
LEMMA IInvGives ==
  ASSUME IInv
  PROVE  /\ Hold(Now, Saving(job)) /\ JobsOK(job) /\ Saving(job) \in [Docs -> Nat]
         /\ Now.win = win /\ Now.doc = doc /\ Now \in States
         /\ win \in WinType /\ doc \in [Docs -> DocRecord]
<1>1. Hold(Now, Saving(job)) /\ JobsOK(job)
  BY DEF IInv, Inv
<1>2. Now.win = win /\ Now.doc = doc
  BY DEF Now
<1>3. Now \in States
  BY <1>1 DEF Hold
<1>4. Saving(job) \in [Docs -> Nat]
  BY SavingIs
<1>5. win \in WinType /\ doc \in [Docs -> DocRecord]
  BY <1>2, <1>3, StateIs
<1> QED BY <1>1, <1>2, <1>3, <1>4, <1>5

(* A step that changes windows and documents only. *)
LEMMA ResultOf ==
  ASSUME IInv, app # "quit", NEW t, Become(t), Hold(t, Saving(job)), Safe(Now, t),
         UNCHANGED <<job, app, kept, discarded, edits>>, requests' \in 0..MaxRequests,
         Record({}, {})
  PROVE  Result
<1> DEFINE T == [win |-> win', doc |-> doc']
<1>1. T = t
  BY NextState
<1>2. T.doc = doc' /\ Now.doc = doc
  BY DEF Now
<1> HIDE DEF T
<1>3. job' = job
  OBVIOUS
<1>4. Hold(T, Saving(job')) /\ JobsOK(job')
  BY <1>1, <1>3 DEF IInv, Inv
<1>5. \A d \in Docs : doc'[d].edited => doc[d].edited \/ d \in {}
  BY <1>1, <1>2 DEF Safe
<1>6. \A j \in Jobs : Follows(T, job[j], job'[j])
  BY <1>3, FollowsSame
<1>7. Lost(Now, T, agreed', stale)
  BY <1>1, SafeNotLost
<1>8. Quits(T, app', kept', agreed', discarded')
  BY DEF Quits
<1>9. /\ app' \in {"running", "terminating", "quit"} /\ kept' \subseteq Docs
      /\ discarded' \in BOOLEAN /\ edits' \in 0..MaxEdits
  BY DEF IInv
<1>10. {} \in SUBSET Docs
  OBVIOUS
<1> HIDE DEF T
<1>11. /\ Record({}, {}) /\ requests' \in 0..MaxRequests
  OBVIOUS
<1> QED BY <1>4, <1>5, <1>6, <1>7, <1>8, <1>9, <1>10, <1>11 DEF Result, T

(* The same of a request. *)
LEMMA RequestResult ==
  ASSUME IInv, app # "quit", NEW t, Become(t), Hold(t, Saving(job)), Safe(Now, t),
         UNCHANGED job, Request
  PROVE  Result
<1>1. requests' \in 0..MaxRequests /\ Record({}, {}) /\ UNCHANGED <<app, kept, discarded, edits>>
  BY DocumentWindowAssumption DEF Request, IInv
<1> QED BY <1>1, ResultOf

(* Where a new tab goes. *)
LEMMA AfterSelectedIs ==
  ASSUME IInv, NEW w \in Windows
  PROVE  AfterSelected(w) \in Nat
<1>1. win[w].index \in Nat /\ win[w].tabs \in Seq(Docs)
  BY IInvGives, StateIs
<1> QED BY <1>1 DEF AfterSelected

(* A document that nobody uses, if there is one. *)
LEMMA UnusedIs ==
  ASSUME Unused(Now) # {}
  PROVE  (CHOOSE u \in Unused(Now) : TRUE) \in Docs
BY DocumentWindowAssumption DEF Unused

(* showDocument:andSelect:inProject:bringToFront:. *)
LEMMA ShowDocumentStep ==
  ASSUME IInv, app # "quit", NEW w \in Windows, NEW d \in Docs, ShowDocument(w, d)
  PROVE  Result
<1> DEFINE at == AfterSelected(w)
           closing == Disposable(Now, w)
           x == Saving(job)
           t == OpenAndSelect(Insert(WithState(Now, w, "open"), w, d, at, d, closing), w, d)
<1>1. at \in Nat
  BY AfterSelectedIs
<1>2. \A e \in Docs \cap closing : ~Now.doc[e].edited
  BY DEF Disposable, IsDisposable
<1>3. Become(t) /\ UNCHANGED job /\ Request
  BY DEF ShowDocument, Make, WithState
<1>4. x \in [Docs -> Nat] /\ Hold(Now, x)
  BY IInvGives
<1> HIDE DEF at, closing, x
<1>5. Hold(t, x) /\ Safe(Now, t)
  BY <1>1, <1>2, <1>4, ShowIs
<1> HIDE DEF t
<1> QED BY <1>3, <1>5, RequestResult DEF x

(* newDocumentInTab:. *)
LEMMA NewDocumentInTabStep ==
  ASSUME IInv, app # "quit", NEW w \in Windows, NewDocumentInTab(w)
  PROVE  Result
<1> DEFINE at == AfterSelected(w)
           none == {}
           d == CHOOSE u \in Unused(Now) : TRUE
           x == Saving(job)
           t == OpenAndSelect(Insert(WithState(Now, w, "open"), w, d, at, d, none), w, d)
<1>1. at \in Nat
  BY AfterSelectedIs
<1>2. \A e \in Docs \cap none : ~Now.doc[e].edited
  OBVIOUS
<1>3. Become(t) /\ UNCHANGED job /\ Request /\ Unused(Now) # {}
  BY DEF NewDocumentInTab, Make, WithState
<1>4. x \in [Docs -> Nat] /\ Hold(Now, x)
  BY IInvGives
<1>6. d \in Docs
  BY <1>3, UnusedIs
<1> HIDE DEF at, none, x, d
<1>5. Hold(t, x) /\ Safe(Now, t)
  BY <1>1, <1>2, <1>4, <1>6, ShowIs
<1> HIDE DEF t
<1> QED BY <1>3, <1>5, RequestResult DEF x

(* A tab is selected. *)
LEMMA SelectTabStep ==
  ASSUME IInv, app # "quit", NEW w \in Windows, NEW i \in DOMAIN win[w].tabs, SelectTab(w, i)
  PROVE  Result
<1> DEFINE d == win[w].tabs[i]
           x == Saving(job)
           t == OpenAndSelect(SetIndex(Now, w, i), w, d)
<1>1. d \in Docs /\ i \in Nat
  <2>1. win[w].tabs \in Seq(Docs)
    BY IInvGives, StateIs
  <2> QED BY <2>1, ElementOfSeq
<1>2. Become(t) /\ UNCHANGED job /\ Request
  BY DEF SelectTab
<1>3. x \in [Docs -> Nat] /\ Hold(Now, x)
  BY IInvGives
<1> HIDE DEF x, d
<1>4. Hold(t, x) /\ Safe(Now, t)
  BY <1>1, <1>3, SelectIs
<1> HIDE DEF t
<1> QED BY <1>2, <1>4, RequestResult DEF x

(* A tab is moved to a window of its own. *)
LEMMA TearOffStep ==
  ASSUME IInv, app # "quit", NEW w \in Windows, NEW i \in DOMAIN win[w].tabs, TearOff(w, i)
  PROVE  Result
<1> DEFINE v == NewWindow
           d == win[w].tabs[i]
           x == Saving(job)
           r == OpenAndSelect(SetIndex(SetDocuments(WithState(Now, v, "open"), v, <<d>>), v, 1),
                              v, d)
           t == IF Raises(r, w, {i}) THEN r ELSE CloseTabs(r, w, {i}, TRUE)
<1>1. v \in Windows /\ win[v].state = "none"
  BY DEF TearOff, NewWindow
<1>2. w # v /\ Now.win[v].tabs = <<>> /\ i \in DOMAIN Now.win[w].tabs /\ d = Now.win[w].tabs[i]
  <2>1. win[w].state = "open"
    BY DEF TearOff, Free, Open
  <2> HIDE DEF v
  <2>2. Now.win = win /\ Hold(Now, x)
    BY IInvGives
  <2>3. win[v].tabs = <<>>
    BY <1>1, <2>2 DEF Hold
  <2> QED BY <1>1, <2>1, <2>2, <2>3
<1>3. Become(t) /\ UNCHANGED job /\ Request
  BY DEF TearOff, Make, WithState
<1>4. x \in [Docs -> Nat] /\ Hold(Now, x)
  BY IInvGives
<1> HIDE DEF x, v
<1>5. Hold(t, x) /\ Safe(Now, t)
  <2> HIDE DEF d
  <2>1. LET e == Now.win[w].tabs[i]
            q == OpenAndSelect(SetIndex(SetDocuments(WithState(Now, v, "open"), v, <<e>>), v, 1),
                               v, e)
            u == IF Raises(q, w, {i}) THEN q ELSE CloseTabs(q, w, {i}, TRUE)
        IN  Hold(u, x) /\ Safe(Now, u)
    BY <1>1, <1>2, <1>4, TearOffIs
  <2> QED BY <1>2, <2>1
<1> HIDE DEF t
<1> QED BY <1>3, <1>5, RequestResult DEF x

(* A tab is dropped on another window. *)
LEMMA DropStep ==
  ASSUME IInv, app # "quit", NEW w \in Windows, NEW v \in Windows,
         NEW i \in DOMAIN win[v].tabs, NEW browser \in BOOLEAN, Drop(v, i, w, browser)
  PROVE  Result
<1> DEFINE s == Now
           x == Saving(job)
           u == Dropped(s, v, i, w, browser)
<1>1. Now.win = win /\ x \in [Docs -> Nat] /\ Hold(s, x)
  BY IInvGives
<1>2. w # v /\ s.win[w].state = "open" /\ i \in DOMAIN s.win[v].tabs /\ UNCHANGED job /\ Request
  BY <1>1 DEF Drop, Free, Open
<1>3. Become(u)
  BY <1>1 DEF Drop, Dropped
<1> HIDE DEF x, s
<1>4. Hold(u, x) /\ Safe(s, u)
  BY <1>1, <1>2, DropIs
<1> HIDE DEF u
<1> QED BY <1>2, <1>3, <1>4, RequestResult DEF x, s

(* mergeAllWindows:. *)
LEMMA MergeAllWindowsStep ==
  ASSUME IInv, app # "quit", NEW w \in Windows, MergeAllWindows(w)
  PROVE  Result
<1> DEFINE x == Saving(job)
           others == {v \in Windows \ {w} : Open(v)}
           order == SetToSeq(others)
           t == Merge(Now, w, order)
<1>1. Now.win = win /\ x \in [Docs -> Nat] /\ Hold(Now, x)
  BY IInvGives
<1>2. Now.win[w].state = "open" /\ UNCHANGED job /\ Request /\ Become(t)
  BY <1>1 DEF MergeAllWindows, Free, Open
<1>3. order \in Seq(Windows \ {w})
  <2>1. others \subseteq Windows \ {w} /\ others \subseteq Windows
    OBVIOUS
  <2> HIDE DEF others
  <2>2. IsFiniteSet(others)
    BY <2>1, FS_Subset, DocumentWindowAssumption
  <2>3. order \in Seq(others)
    BY <2>2, SetToSeqIs
  <2> QED BY <2>1, <2>3, SeqMonotonic
<1> HIDE DEF x, order
<1>4. Hold(t, x) /\ Safe(Now, t)
  BY <1>1, <1>2, <1>3, MergeIs
<1> HIDE DEF t
<1> QED BY <1>2, <1>4, RequestResult DEF x

-----------------------------------------------------------------------------
(* Closing without a question, editing, loading and deallocating.            *)

(* The edited ones among documents. *)
LEMMA EditedInIs ==
  ASSUME NEW s, NEW tabs \in Seq(Docs)
  PROVE  /\ EditedIn(s, tabs) \in Seq(Docs)
         /\ \A d \in Docs : (Has(tabs, d) /\ s.doc[d].edited) => Has(EditedIn(s, tabs), d)
<1>1. /\ Keep(tabs, {d \in Docs : s.doc[d].edited}) \in Seq(Docs)
      /\ \A e : Has(Keep(tabs, {d \in Docs : s.doc[d].edited}), e)
                  <=> e \in {d \in Docs : s.doc[d].edited} /\ Has(tabs, e)
  BY KeepHas
<1> QED BY <1>1 DEF EditedIn

(* The tabs at the indexes. *)
LEMMA TabsAtIs ==
  ASSUME NEW tabs \in Seq(Docs), NEW indexes, indexes \subseteq DOMAIN tabs
  PROVE  LET at == Keep([i \in DOMAIN tabs |-> i], indexes)
             ds == [i \in DOMAIN at |-> tabs[at[i]]]
         IN  ds \in Seq(Docs) /\ \A i \in indexes : Has(ds, tabs[i])
<1> DEFINE all == [i \in DOMAIN tabs |-> i]
           at == Keep(all, indexes)
           ds == [i \in DOMAIN at |-> tabs[at[i]]]
           n == Len(tabs)
<1>1. n \in Nat /\ DOMAIN tabs = 1..n
  BY LenProperties
<1>2. all \in Seq(1..n) /\ Len(all) = n /\ \A i \in 1..n : all[i] = i
  <2>1. all = [i \in 1..n |-> i]
    BY <1>1
  <2> HIDE DEF all, n
  <2> QED BY <1>1, <2>1
<1>6. all \in Seq(1..n)
  BY <1>2
<1> HIDE DEF all, n
<1>3. /\ at \in Seq(1..n) /\ \A i \in 1..n : i \in indexes => Has(at, i)
  <2>1. at \in Seq(1..n) /\ \A e : Has(at, e) <=> e \in indexes /\ Has(all, e)
    BY <1>6, KeepHas
  <2>2. \A i \in 1..n : Has(all, i)
    BY <1>2 DEF Has
  <2> QED BY <2>1, <2>2
<1> HIDE DEF at
<1>4. ds \in Seq(Docs) /\ Len(ds) = Len(at) /\ \A k \in 1..Len(at) : ds[k] = tabs[at[k]]
  <2>1. Len(at) \in Nat /\ DOMAIN at = 1..Len(at) /\ \A k \in 1..Len(at) : at[k] \in 1..n
    <3> DEFINE S == 1..n
    <3>1. at \in Seq(S)
      BY <1>3
    <3> HIDE DEF S
    <3>2. Len(at) \in Nat /\ DOMAIN at = 1..Len(at)
      BY ONLY <3>1, LenProperties
    <3>3. \A k \in 1..Len(at) : at[k] \in S
      BY ONLY <3>1, ElementOfSeq
    <3> QED BY <3>2, <3>3 DEF S
  <2>2. \A k \in 1..Len(at) : tabs[at[k]] \in Docs
    BY <1>1, <2>1
  <2>3. ds = [k \in 1..Len(at) |-> tabs[at[k]]]
    BY <2>1
  <2> DEFINE m == Len(at)
  <2>4. m \in Nat /\ ds = [k \in 1..m |-> tabs[at[k]]] /\ \A k \in 1..m : tabs[at[k]] \in Docs
    BY <2>1, <2>2, <2>3
  <2> HIDE DEF m, ds
  <2>5. ds \in [1..m -> Docs]
    BY <2>4
  <2>6. ds \in Seq(Docs) /\ Len(ds) = m
    BY <2>4, <2>5
  <2>7. \A k \in 1..m : ds[k] = tabs[at[k]]
    BY <2>4
  <2> QED BY <2>6, <2>7 DEF m
<1> HIDE DEF ds
<1>5. ASSUME NEW i \in indexes PROVE Has(ds, tabs[i])
  <2>1. i \in 1..n /\ Has(at, i)
    BY <1>1, <1>3
  <2>2. PICK k \in 1..Len(at) : at[k] = i
    BY <2>1 DEF Has
  <2>3. ds[k] = tabs[i] /\ k \in 1..Len(ds)
    BY <1>4, <2>2
  <2> QED BY <2>3 DEF Has
<1> QED BY <1>4, <1>5 DEF ds, at, all

(* A job changes. *)
WithJob(jobs, j, r) == [jobs EXCEPT ![j] = r]

(* A job becomes another one. *)
LEMMA WithJobIs ==
  ASSUME NEW jobs, JobsOK(jobs), NEW j \in Jobs, NEW r \in JobRecord,
         r.stage = "saving" => r.rest # <<>>, r.stage # "free" => r.window \in Windows,
         r.stage = "free" => r.then = "nothing"
  PROVE  /\ JobsOK(WithJob(jobs, j, r)) /\ WithJob(jobs, j, r)[j] = r
         /\ \A i \in Jobs \ {j} : WithJob(jobs, j, r)[i] = jobs[i]
<1> DEFINE next == WithJob(jobs, j, r)
<1>1. jobs \in [Jobs -> JobRecord]
  BY DEF JobsOK
<1>2. next \in [Jobs -> JobRecord] /\ next[j] = r /\ \A i \in Jobs \ {j} : next[i] = jobs[i]
  BY <1>1 DEF WithJob
<1> HIDE DEF next
<1>3. JobsOK(next)
  BY <1>2 DEF JobsOK
<1> QED BY <1>2, <1>3 DEF next

(* The user is asked: it is a sheet, and its documents have what is edited.  *)
LEMMA AskIs ==
  ASSUME IInv, app # "quit", NEW j \in Jobs, NEW w \in Windows, NEW docs \in Seq(Docs),
         NEW tabs \in SUBSET Nat, NEW then \in {"tabs", "window", "quit"},
         Ask(Now, j, w, docs, tabs, then),
         \A i \in DOMAIN win[w].tabs :
           (then # "quit" /\ (then = "tabs" => i \in tabs) /\ doc[win[w].tabs[i]].edited)
             => Has(docs, win[w].tabs[i]),
         UNCHANGED <<kept, discarded, edits>>, app' \in {"running", "terminating"},
         requests' \in 0..MaxRequests, Record({}, {})
  PROVE  Result
<1> DEFINE x == Saving(job)
           r == [stage |-> "sheet", window |-> w, rest |-> docs, tabs |-> tabs, then |-> then]
           t == ShowWarned(Now, w, docs)
           T == [win |-> win', doc |-> doc']
<1>1. x \in [Docs -> Nat] /\ Hold(Now, x) /\ Now.win = win /\ Now.doc = doc /\ JobsOK(job)
  BY IInvGives
<1>2. /\ r \in JobRecord /\ r.stage = "sheet" /\ r.window = w /\ r.rest = docs
      /\ r.tabs = tabs /\ r.then = then
  BY DEF JobRecord
<1>3. job[j].stage = "free" /\ job' = WithJob(job, j, r) /\ Become(t)
  BY DEF Ask, WithJob
<1> HIDE DEF r, x
<1>4. /\ JobsOK(job') /\ job'[j] = r /\ \A i \in Jobs \ {j} : job'[i] = job[i]
  BY <1>1, <1>2, <1>3, WithJobIs
<1>5. Hold(t, x) /\ Safe(Now, t) /\ SameTabs(Now, t)
  BY <1>1, ShowWarnedIs
<1> HIDE DEF t
<1>6. T = t /\ T.doc = doc' /\ T.win = win'
  BY <1>3, <1>5, NextState
<1> HIDE DEF T
<1>7. Hold(T, Saving(job'))
  <2> DEFINE y == Saving(job')
  <2>1. y \in [Docs -> Nat]
    BY SavingIs
  <2>2. ASSUME NEW d \in Docs PROVE y[d] <= x[d]
    <3>1. y[d] + Once(Saves(job[j], d)) = x[d] + Once(Saves(job'[j], d))
      BY <1>4, SavingChange DEF x
    <3>2. ~Saves(job[j], d) /\ ~Saves(job'[j], d)
      BY <1>2, <1>3, <1>4 DEF Saves
    <3>3. y[d] \in Nat /\ x[d] \in Nat
      BY <1>1, <2>1
    <3> HIDE DEF y
    <3>4. y[d] + 0 = x[d] + 0
      BY <3>1, <3>2 DEF Once
    <3> QED BY <3>3, <3>4
  <2>3. Hold(T, x)
    BY <1>5, <1>6
  <2> HIDE DEF y
  <2>4. Hold(T, y)
    BY <1>1, <2>1, <2>2, <2>3, HoldLess
  <2> QED BY <2>4 DEF y
<1>8. \A d \in Docs : doc'[d].edited => doc[d].edited \/ d \in {}
  BY <1>1, <1>5, <1>6 DEF Safe
<1>9. ASSUME NEW i \in Jobs PROVE Follows(T, job[i], job'[i])
  <2>1. CASE i # j
    BY <1>4, <2>1, FollowsSame
  <2>2. CASE i = j
    <3>1. CASE then = "quit"
      BY <1>2, <1>4, <2>2, <3>1 DEF Follows, Closing
    <3>2. CASE then # "quit"
      <4> DEFINE old == win[w].tabs
      <4>1. T.win[w].tabs = old /\ old \in Seq(Docs)
        <5>1. T.win[w].tabs = Now.win[w].tabs
          BY <1>5, <1>6 DEF SameTabs
        <5>2. Now.win[w].tabs \in Seq(Docs)
          BY <1>1, StateIs DEF Hold
        <5> QED BY <1>1, <5>1, <5>2
      <4>2. \A d \in Docs : T.doc[d].edited => doc[d].edited
        BY <1>6, <1>8
      <4>3. \A k \in DOMAIN old :
              ((then = "tabs" => k \in tabs) /\ doc[old[k]].edited) => Has(docs, old[k])
        BY <3>2
      <4> HIDE DEF old
      <4>4. \A k \in DOMAIN old : old[k] \in Docs
        BY <4>1
      <4>5. Asked(T, r)
        BY <1>2, <4>1, <4>2, <4>3, <4>4 DEF Asked
      <4> QED BY <1>4, <2>2, <4>5 DEF Follows
    <3> QED BY <3>1, <3>2
  <2> QED BY <2>1, <2>2
<1>10. Lost(Now, T, agreed', stale)
  BY <1>5, <1>6, SafeNotLost
<1>11. Quits(T, app', kept', agreed', discarded')
  BY DEF Quits
<1>12. /\ app' \in {"running", "terminating", "quit"} /\ kept' \subseteq Docs
       /\ discarded' \in BOOLEAN /\ edits' \in 0..MaxEdits
  BY DEF IInv
<1>13. {} \in SUBSET Docs /\ Record({}, {}) /\ requests' \in 0..MaxRequests
  OBVIOUS
<1> QED BY <1>4, <1>7, <1>8, <1>9, <1>10, <1>11, <1>12, <1>13 DEF Result, T

(* What every request of the user has in common. *)
LEMMA RequestIs ==
  ASSUME IInv, Request
  PROVE  /\ requests' \in 0..MaxRequests /\ Record({}, {})
         /\ UNCHANGED <<app, kept, discarded, edits>>
BY DocumentWindowAssumption DEF Request, IInv

(* Tabs are closed now if none of their documents is edited.                 *)
LEMMA PerformCloseTabsStep ==
  ASSUME IInv, app = "running", NEW w \in Windows, NEW indexes \in SUBSET DOMAIN win[w].tabs,
         PerformCloseTabs(w, indexes)
  PROVE  Result
<1> DEFINE x == Saving(job)
           tabs == win[w].tabs
           at == Keep([i \in DOMAIN tabs |-> i], indexes)
           ds == [i \in DOMAIN at |-> tabs[at[i]]]
           docs == EditedIn(Now, ds)
           t == CloseTabs(Now, w, indexes, TRUE)
<1>1. x \in [Docs -> Nat] /\ Hold(Now, x) /\ Now.win = win /\ Now.doc = doc
  BY IInvGives
<1>2. tabs \in Seq(Docs)
  BY <1>1, StateIs DEF Hold
<1>3. /\ Request
      /\ \/ /\ docs # <<>>
            /\ \E j \in Jobs : Ask(Now, j, w, docs, indexes, "tabs")
         \/ /\ docs = <<>> /\ ~Raises(Now, w, indexes) /\ Become(t) /\ UNCHANGED job
  BY DEF PerformCloseTabs
<1> HIDE DEF tabs, x
<1>4. ds \in Seq(Docs) /\ \A i \in indexes : Has(ds, tabs[i])
  <2>1. indexes \subseteq DOMAIN tabs
    BY DEF tabs
  <2> QED BY <1>2, <2>1, TabsAtIs
<1> HIDE DEF ds
<1>5. docs \in Seq(Docs) /\ \A d \in Docs : (Has(ds, d) /\ Now.doc[d].edited) => Has(docs, d)
  BY <1>4, EditedInIs
<1> HIDE DEF docs
<1>6. \A i \in indexes : tabs[i] \in Docs
  <2>1. indexes \subseteq DOMAIN tabs
    BY DEF tabs
  <2> QED BY <1>2, <2>1
<1>7. \A i \in indexes : Now.doc[tabs[i]].edited => Has(docs, tabs[i])
  BY <1>4, <1>5, <1>6
<1>8. CASE \E j \in Jobs : Ask(Now, j, w, docs, indexes, "tabs")
  <2>1. PICK j \in Jobs : Ask(Now, j, w, docs, indexes, "tabs")
    BY <1>8
  <2>2. indexes \in SUBSET Nat
    <3>1. indexes \subseteq DOMAIN tabs
      BY DEF tabs
    <3>2. DOMAIN tabs = 1..Len(tabs)
      BY ONLY <1>2
    <3> QED BY <3>1, <3>2
  <2> DEFINE then == "tabs"
  <2>3. /\ then \in {"tabs", "window", "quit"} /\ then = "tabs"
        /\ Ask(Now, j, w, docs, indexes, then)
    BY <2>1
  <2> HIDE DEF then
  <2>4. \A i \in DOMAIN win[w].tabs :
          (then # "quit" /\ (then = "tabs" => i \in indexes) /\ doc[win[w].tabs[i]].edited)
             => Has(docs, win[w].tabs[i])
    BY <1>1, <1>7, <2>3 DEF tabs
  <2>5. /\ requests' \in 0..MaxRequests /\ Record({}, {})
        /\ UNCHANGED <<app, kept, discarded, edits>>
    BY <1>3, RequestIs
  <2>6. UNCHANGED <<kept, discarded, edits>> /\ app' \in {"running", "terminating"}
        /\ app # "quit"
    BY <2>5
  <2> QED BY <1>5, <2>2, <2>3, <2>4, <2>5, <2>6, AskIs
<1>9. CASE docs = <<>> /\ ~Raises(Now, w, indexes) /\ Become(t) /\ UNCHANGED job
  <2>1. \A d : ~Has(docs, d)
    BY <1>9 DEF Has
  <2>2. \A e \in Docs : Closes(Now.win[w].tabs, indexes, e) =>
          ~Now.doc[e].edited \/ \E v \in Windows \ {w} : Has(Now.win[v].tabs, e)
    BY <1>1, <1>7, <2>1 DEF Closes, tabs
  <2>3. Hold(t, x) /\ Safe(Now, t)
    BY <1>1, <1>9, <2>2, CloseUnedited
  <2> HIDE DEF t
  <2>4. app # "quit"
    OBVIOUS
  <2> QED BY <1>3, <1>9, <2>3, <2>4, RequestResult DEF x
<1> QED BY <1>3, <1>8, <1>9

(* So is a window. *)
LEMMA WindowShouldCloseStep ==
  ASSUME IInv, app = "running", NEW w \in Windows, WindowShouldClose(w)
  PROVE  Result
<1> DEFINE x == Saving(job)
           tabs == win[w].tabs
           docs == EditedIn(Now, tabs)
           t == CloseWindow(Now, w)
           none == {}
           then == "window"
<1>1. x \in [Docs -> Nat] /\ Hold(Now, x) /\ Now.win = win /\ Now.doc = doc
  BY IInvGives
<1>2. tabs \in Seq(Docs)
  BY <1>1, StateIs DEF Hold
<1>3. /\ Request
      /\ \/ \E j \in Jobs : Ask(Now, j, w, docs, none, then)
         \/ docs = <<>> /\ Become(t) /\ UNCHANGED job
  BY DEF WindowShouldClose
<1>4. tabs = win[w].tabs /\ then = "window" /\ none \in SUBSET Nat
  OBVIOUS
<1> HIDE DEF tabs, x, none, then
<1>5. docs \in Seq(Docs) /\ \A d \in Docs : (Has(tabs, d) /\ Now.doc[d].edited) => Has(docs, d)
  BY <1>2, EditedInIs
<1> HIDE DEF docs
<1>7. \A i \in DOMAIN tabs : Now.doc[tabs[i]].edited => Has(docs, tabs[i])
  <2>1. DOMAIN tabs = 1..Len(tabs)
    BY ONLY <1>2
  <2>2. \A i \in DOMAIN tabs : tabs[i] \in Docs /\ Has(tabs, tabs[i])
    BY <1>2, <2>1 DEF Has
  <2> QED BY <1>5, <2>2
<1>8. CASE \E j \in Jobs : Ask(Now, j, w, docs, none, then)
  <2>1. PICK j \in Jobs : Ask(Now, j, w, docs, none, then)
    BY <1>8
  <2>3. then \in {"tabs", "window", "quit"}
    BY <1>4
  <2>4. \A i \in DOMAIN win[w].tabs :
          (then # "quit" /\ (then = "tabs" => i \in none) /\ doc[win[w].tabs[i]].edited)
             => Has(docs, win[w].tabs[i])
    BY <1>1, <1>4, <1>7
  <2>5. /\ requests' \in 0..MaxRequests /\ Record({}, {})
        /\ UNCHANGED <<app, kept, discarded, edits>>
    BY <1>3, RequestIs
  <2>6. UNCHANGED <<kept, discarded, edits>> /\ app' \in {"running", "terminating"}
        /\ app # "quit"
    BY <2>5
  <2> QED BY <1>4, <1>5, <2>1, <2>3, <2>4, <2>5, <2>6, AskIs
<1>9. CASE docs = <<>> /\ Become(t) /\ UNCHANGED job
  <2>1. \A d : ~Has(docs, d)
    BY <1>9 DEF Has
  <2>2. \A e \in Docs : Has(Now.win[w].tabs, e) =>
          ~Now.doc[e].edited \/ \E v \in Windows \ {w} : Has(Now.win[v].tabs, e)
    BY <1>1, <1>4, <1>5, <2>1
  <2>3. Hold(t, x) /\ Safe(Now, t)
    BY <1>1, <2>2, CloseWindowUnedited
  <2> HIDE DEF t
  <2>4. app # "quit"
    OBVIOUS
  <2> QED BY <1>3, <1>9, <2>3, <2>4, RequestResult DEF x
<1> QED BY <1>3, <1>8, <1>9

(* A closed window is deallocated. *)
LEMMA DeallocStep ==
  ASSUME IInv, app # "quit", NEW w \in Windows, Dealloc(w)
  PROVE  Result
<1> DEFINE s == Now
           x == Saving(job)
           c == IF s.win[w].shown = NoDoc THEN <<>> ELSE <<s.win[w].shown>>
           t == [OpenClose(s, <<>>, c) EXCEPT !.win[w] = Shut]
<1>1. Now.win = win /\ x \in [Docs -> Nat] /\ Hold(s, x)
  BY IInvGives
<1>2. s.win[w].state = "closed"
  BY <1>1 DEF Dealloc
<1>3. Become(t)
  BY <1>1 DEF Dealloc
<1>4. UNCHANGED <<job, app, kept, discarded, edits>> /\ Record({}, {}) /\ requests' = requests
  BY DEF Dealloc
<1>5. requests' \in 0..MaxRequests
  BY <1>4 DEF IInv
<1> HIDE DEF x, s
<1>6. Hold(t, x) /\ Safe(s, t)
  BY <1>1, <1>2, DeallocIs
<1> HIDE DEF t
<1> QED BY <1>3, <1>4, <1>5, <1>6, ResultOf DEF x, s

(* A load ends, one way or the other. *)
LEMMA LoadEndsStep ==
  ASSUME IInv, app # "quit", NEW d \in Docs, LoadEnds(d)
  PROVE  Result
<1> DEFINE x == Saving(job)
<1>1. x \in [Docs -> Nat] /\ Hold(Now, x)
  BY IInvGives
<1>4. UNCHANGED <<job, app, kept, discarded, edits>> /\ Record({}, {}) /\ requests' = requests
  BY DEF LoadEnds
<1>5. requests' \in 0..MaxRequests
  BY <1>4 DEF IInv
<1>2. doc[d].waiting # <<>>
  BY DEF LoadEnds
<1>3. Become(LoadSucceeds(d)) \/ \E browsers : Become(LoadFails(d, browsers))
  BY DEF LoadEnds
<1> HIDE DEF x
<1>6. CASE Become(LoadSucceeds(d))
  <2>1. Hold(LoadSucceeds(d), x) /\ Safe(Now, LoadSucceeds(d))
    BY <1>1, <1>2, LoadSucceedsIs
  <2> DEFINE t == LoadSucceeds(d)
  <2>2. Hold(t, x) /\ Safe(Now, t) /\ Become(t)
    BY <1>6, <2>1
  <2> HIDE DEF t
  <2> QED BY <1>4, <1>5, <2>2, ResultOf DEF x
<1>7. CASE \E browsers : Become(LoadFails(d, browsers))
  <2>1. PICK browsers : Become(LoadFails(d, browsers))
    BY <1>7
  <2> DEFINE t == LoadFails(d, browsers)
  <2>2. Hold(t, x) /\ Safe(Now, t)
    BY <1>1, <1>2, LoadFailsIs
  <2>3. Become(t)
    BY <2>1
  <2> HIDE DEF t
  <2> QED BY <1>4, <1>5, <2>2, <2>3, ResultOf DEF x
<1> QED BY <1>3, <1>6, <1>7

(* Typing marks the document that is shown as edited.                        *)
LEMMA TypeStep ==
  ASSUME IInv, app # "quit", NEW w \in Windows, Type(w)
  PROVE  Result
<1> DEFINE x == Saving(job)
           d == win[w].shown
           r == [doc[d] EXCEPT !.edited = TRUE]
           t == WithDoc(Now, d, r)
           T == [win |-> win', doc |-> doc']
<1>1. /\ x \in [Docs -> Nat] /\ Hold(Now, x) /\ Now.win = win /\ Now.doc = doc /\ JobsOK(job)
      /\ Now \in States
  BY IInvGives
<1>2. d \in Docs
  <2>1. win[w].shown \in Docs \cup {NoDoc} /\ win[w].shown # NoDoc
    BY <1>1, StateIs DEF Type
  <2> QED BY <2>1
<1>3. Now.win[w].shown = d
  BY <1>1
<1>4. /\ doc' = [doc EXCEPT ![win[w].shown].edited = TRUE]
      /\ UNCHANGED <<win, job, app, kept, discarded, requests>>
      /\ edits < MaxEdits /\ edits' = edits + 1 /\ Record({win[w].shown}, {})
  BY DEF Type
<1>5. doc' = [doc EXCEPT ![d] = r] /\ Record({d}, {})
  <2>1. doc \in [Docs -> DocRecord]
    BY <1>1, StateIs
  <2> QED BY <1>2, <1>4, <2>1
<1> HIDE DEF d, x
<1>6. doc[d] \in DocRecord /\ doc[d].loaded /\ doc[d].waiting = <<>>
  <2>1. Now.doc[d].loaded
    BY <1>1, <1>2, <1>3 DEF Hold
  <2>2. Now.doc[d].waiting = <<>>
    BY <1>1, <1>2, <2>1 DEF Hold
  <2> QED BY <1>1, <1>2, <2>1, <2>2, StateIs
<1>7. /\ r \in DocRecord /\ r.count = doc[d].count /\ r.loaded /\ r.waiting = <<>> /\ r.edited
  BY <1>6 DEF DocRecord
<1>8. Waits(r) = Waits(doc[d])
  BY <1>6, <1>7 DEF Waits
<1>9. T = t
  <2>1. Now = [win |-> win, doc |-> doc]
    BY DEF Now
  <2>2. t = [win |-> win, doc |-> [doc EXCEPT ![d] = r]]
    <3> DEFINE q == [doc EXCEPT ![d] = r]
    <3>1. t = [Now EXCEPT !.doc = q]
      BY <1>1 DEF WithDoc
    <3> HIDE DEF q, t
    <3>2. t = [win |-> Now.win, doc |-> q]
      BY <1>1, <3>1, StateExcept
    <3> QED BY <1>1, <3>2 DEF q
  <2> HIDE DEF t, r
  <2> QED BY <1>4, <1>5, <2>2
<1> HIDE DEF r, t
<1>10. Waits(r) + x[d] <= Waits(Now.doc[d]) + x[d]
  <2>1. Waits(r) = 0 /\ Waits(doc[d]) = 0
    BY <1>6, <1>7 DEF Waits
  <2>2. x[d] \in Nat
    BY <1>1, <1>2
  <2> DEFINE xd == x[d]
  <2>3. xd \in Nat
    BY <2>2
  <2> HIDE DEF xd
  <2>4. 0 + xd <= 0 + xd
    BY <2>3
  <2> QED BY <1>1, <2>1, <2>4 DEF xd
<1>11. /\ Hold(t, x) /\ t.win = Now.win
       /\ \A e \in Docs : t.doc[e] = IF e = d THEN r ELSE Now.doc[e]
  BY <1>1, <1>2, <1>6, <1>7, <1>10, WithDocIs DEF t
<1>12. T.doc = doc'
  OBVIOUS
<1> HIDE DEF T
<1>13. job' = job
  BY <1>4
<1>14. Hold(T, Saving(job')) /\ JobsOK(job')
  BY <1>1, <1>9, <1>11, <1>13 DEF x
<1>15. \A e \in Docs : doc'[e].edited => doc[e].edited \/ e \in {d}
  BY <1>1, <1>9, <1>11, <1>12
<1>16. \A j \in Jobs : Follows(T, job[j], job'[j])
  BY <1>13, FollowsSame
<1>17. Lost(Now, T, agreed', stale)
  <2>1. \A e \in Docs : Now.doc[e].edited => T.doc[e].loaded
    BY <1>1, <1>7, <1>9, <1>11 DEF Hold
  <2> QED BY <2>1 DEF Lost
<1>18. Quits(T, app', kept', agreed', discarded')
  BY <1>4 DEF Quits
<1>19. /\ app' \in {"running", "terminating", "quit"} /\ kept' \subseteq Docs
       /\ discarded' \in BOOLEAN /\ edits' \in 0..MaxEdits /\ requests' \in 0..MaxRequests
  BY <1>4, DocumentWindowAssumption DEF IInv
<1>20. {d} \in SUBSET Docs /\ {} \in SUBSET Docs
  BY <1>2
<1> QED BY <1>5, <1>14, <1>15, <1>16, <1>17, <1>18, <1>19, <1>20 DEF Result, T

-----------------------------------------------------------------------------
(* The ends of jobs. *)

(* Documents are opened and closed as a job changes: the save that starts    *)
(* needs a hold, and the one that ends has one no more.                      *)
Trades(jobs, next, j, o, c) ==
  /\ \A i \in Jobs \ {j} : next[i] = jobs[i]
  /\ \A d \in Docs : Times(c, d) + Once(Saves(next[j], d))
                         <= Times(o, d) + Once(Saves(jobs[j], d))

LEMMA JobHolds ==
  ASSUME NEW s, NEW jobs, NEW next, NEW j \in Jobs, NEW o \in Seq(Docs), NEW c \in Seq(Docs),
         Hold(s, Saving(jobs)), Trades(jobs, next, j, o, c)
  PROVE  LET t == OpenClose(s, o, c)
         IN  Hold(t, Saving(next)) /\ Rel(s, t) /\ t.win = s.win
<1> DEFINE x == Saving(jobs)
           y == Saving(next)
<1>1. x \in [Docs -> Nat] /\ y \in [Docs -> Nat] /\ Hold(s, x)
  BY SavingIs
<1>2. ASSUME NEW d \in Docs PROVE y[d] + Times(c, d) <= x[d] + Times(o, d)
  <2> DEFINE xd == x[d]
             yd == y[d]
             tc == Times(c, d)
             to == Times(o, d)
             before == Once(Saves(jobs[j], d))
             after == Once(Saves(next[j], d))
  <2>0. \A i \in Jobs \ {j} : next[i] = jobs[i]
    BY DEF Trades
  <2>1. yd + before = xd + after
    BY <2>0, SavingChange
  <2>2. tc + after <= to + before
    BY DEF Trades
  <2>3. xd \in Nat /\ yd \in Nat
    BY <1>1
  <2>4. tc \in Nat /\ to \in Nat
    BY PlacesFinite
  <2>5. before \in Nat /\ after \in Nat
    BY DEF Once
  <2> HIDE DEF xd, yd, tc, to, before, after
  <2>6. yd + tc <= xd + to
    BY ONLY <2>1, <2>2, <2>3, <2>4, <2>5
  <2> QED BY <2>6 DEF xd, yd, tc, to
<1> HIDE DEF x, y
<1>3. LET t == OpenClose(s, o, c) IN Hold(t, y) /\ Rel(s, t) /\ t.win = s.win
  BY <1>1, <1>2, OpenCloseHolds
<1> QED BY <1>3 DEF y

(* What is closed after the job. *)
Gives(s, r, d) ==
  \E i \in DOMAIN s.win[r.window].tabs :
    (r.then = "tabs" => i \in r.tabs) /\ s.win[r.window].tabs[i] = d

(* What is done after the saves closes only what was asked about. *)
LEMMA AfterIs ==
  ASSUME NEW s, NEW x \in [Docs -> Nat], Hold(s, x), NEW j \in Jobs, JobsOK(job),
         job[j].stage # "free", NEW ok \in BOOLEAN, ~Fails(s, j)
  PROVE  LET t == After(s, j, ok)
         IN  /\ Hold(t, x) /\ Rel(s, t)
             /\ \A d \in Docs : (InTab(s.win, d) /\ s.doc[d].edited)
                                   => InTab(t.win, d) \/ (ok /\ Closing(job[j]) /\ Gives(s, job[j], d))
             /\ job[j].then = "quit" => t = s
<1> DEFINE r == job[j]
           w == job[j].window
           tabs == s.win[w].tabs
           all == r.tabs
           some == {i \in all \cap DOMAIN tabs : ~s.doc[tabs[i]].edited}
           indexes == IF ok THEN all ELSE some
           t == After(s, j, ok)
<1>1. w \in Windows
  BY DEF JobsOK
<1>2. CASE r.then = "tabs"
  <2>1. t = CloseTabs(s, w, indexes, TRUE)
    BY <1>2 DEF After
  <2>2. ~Raises(s, w, all)
    BY <1>2 DEF Fails
  <2>3. ~Raises(s, w, indexes)
    BY <2>2 DEF Raises
  <2>4. \A d \in Docs : (Closes(tabs, indexes, d) /\ s.doc[d].edited) => ok /\ Gives(s, r, d)
    BY DEF Closes, Gives
  <2> HIDE DEF t, indexes, tabs
  <2>5. /\ Hold(t, x) /\ Rel(s, t)
        /\ \A v \in Windows \ {w} : t.win[v] = s.win[v]
        /\ \A e \in Docs : (Has(s.win[w].tabs, e) /\ ~Closes(s.win[w].tabs, indexes, e))
                             => Has(t.win[w].tabs, e)
    <3> DEFINE create == TRUE
               u == CloseTabs(s, w, indexes, create)
    <3> HIDE DEF w, create
    <3>1. Hold(u, x) /\ Rel(s, u)
      BY <1>1, <2>3, CloseTabsIs
    <3>2. \A v \in Windows \ {w} : u.win[v] = s.win[v]
      BY <1>1, <2>3, CloseTabsIs
    <3>3. \A e \in Docs : (Has(s.win[w].tabs, e) /\ ~Closes(s.win[w].tabs, indexes, e))
                             => Has(u.win[w].tabs, e)
      BY <1>1, <2>3, CloseTabsIs
    <3>4. t = u
      BY <2>1 DEF create
    <3> HIDE DEF u
    <3> QED BY <3>1, <3>2, <3>3, <3>4
  <2>6. Closing(r)
    BY <1>2 DEF Closing
  <2>7. ASSUME NEW d \in Docs, InTab(s.win, d), s.doc[d].edited, ~InTab(t.win, d)
        PROVE  ok /\ Gives(s, r, d)
    <3>1. \A v \in Windows \ {w} : ~Has(s.win[v].tabs, d)
      BY <2>5, <2>7 DEF InTab
    <3>2. Has(s.win[w].tabs, d) /\ ~Has(t.win[w].tabs, d)
      BY <1>1, <2>7, <3>1 DEF InTab
    <3>3. Closes(tabs, indexes, d)
      BY <2>5, <3>2 DEF tabs
    <3> QED BY <2>4, <2>7, <3>3
  <2> QED BY <1>2, <2>5, <2>6, <2>7 DEF t
<1>3. CASE r.then = "window" /\ ok /\ s.win[w].state = "open"
  <2>1. t = CloseWindow(s, w)
    BY <1>3 DEF After
  <2>2. \A d \in Docs : Has(tabs, d) => Gives(s, r, d)
    <3>1. tabs \in Seq(Docs)
      BY <1>1, StateIs DEF Hold
    <3>2. DOMAIN tabs = 1..Len(tabs)
      BY ONLY <3>1
    <3> QED BY <1>3, <3>2 DEF Has, Gives
  <2> HIDE DEF t, tabs
  <2>5. /\ Hold(t, x) /\ Rel(s, t) /\ \A v \in Windows \ {w} : t.win[v] = s.win[v]
    BY <1>1, <2>1, CloseWindowIs
  <2>6. Closing(r)
    BY <1>3 DEF Closing
  <2>7. ASSUME NEW d \in Docs, InTab(s.win, d), ~InTab(t.win, d) PROVE Gives(s, r, d)
    <3>1. Has(s.win[w].tabs, d)
      BY <1>1, <2>5, <2>7 DEF InTab
    <3> QED BY <2>2, <3>1 DEF tabs
  <2> QED BY <1>3, <2>5, <2>6, <2>7 DEF t
<1>4. CASE r.then # "tabs" /\ ~(r.then = "window" /\ ok /\ s.win[w].state = "open")
  <2>1. t = s
    BY <1>4 DEF After
  <2> HIDE DEF t
  <2>2. Hold(t, x) /\ Rel(s, t) /\ t.win = s.win
    BY <2>1, RelRefl
  <2> QED BY <2>1, <2>2 DEF t
<1> QED BY <1>2, <1>3, <1>4

(* The save that has ended, if one has, is the job's. *)
Done(r, done) == done \in Seq(Docs) /\ \A d \in Docs : Times(done, d) = Once(Saves(r, d))

(* A job that is free holds nothing. *)
LEMMA NoJobIs ==
  /\ NoJob \in JobRecord /\ NoJob.stage = "free" /\ NoJob.then = "nothing"
  /\ \A d : ~Saves(NoJob, d)
  /\ ~Closing(NoJob)
BY DEF NoJob, JobRecord, Saves, Closing

(* The documents of a session. *)
LEMMA SaveSessionIs ==
  ASSUME NEW s \in States
  PROVE  /\ SaveSession(s) \subseteq Docs
         /\ \A d \in Docs : (InTab(s.win, d) /\ s.doc[d].loaded /\ s.doc[d].edited)
                              => d \in SaveSession(s)
<1>1. ASSUME NEW d \in Docs, InTab(s.win, d) PROVE d \in InTabs(s)
  <2>1. PICK w \in Windows : Has(s.win[w].tabs, d)
    BY <1>1 DEF InTab
  <2> DEFINE tabs == s.win[w].tabs
  <2>2. tabs \in Seq(Docs)
    BY StateIs
  <2>3. Has(tabs, d)
    BY <2>1
  <2> HIDE DEF tabs
  <2>4. Times(tabs, d) > 0
    BY <2>2, <2>3, PlacesFinite DEF Has
  <2> QED BY <2>4 DEF InTabs, tabs
<1> QED BY <1>1 DEF SaveSession, InTabs

(* A chain of saves ends. *)
LEMMA FinishIs ==
  ASSUME IInv, app # "quit", NEW j \in Jobs, job[j].stage # "free", NEW s,
         Hold(s, Saving(job)), s.win = win, NEW ok \in BOOLEAN, NEW done, Done(job[j], done),
         Finish(s, j, ok, done), UNCHANGED <<discarded, edits, requests>>,
         NEW agrees \in SUBSET Docs, Record({}, agrees),
         \A d \in Docs : s.doc[d].edited => doc[d].edited,
         \A d \in Docs : (doc[d].edited /\ ~s.doc[d].edited) => d \in agreed',
         ok => \A d \in Docs : (Has(job[j].rest, d) /\ doc[d].edited) => d \in agreed'
  PROVE  Result
<1> DEFINE x == Saving(job)
           y == Saving(job')
           r == job[j]
           none == <<>>
           q == After(s, j, ok)
           t == IF Fails(s, j) THEN s ELSE OpenClose(q, <<>>, done)
           T == [win |-> win', doc |-> doc']
<1>1. x \in [Docs -> Nat] /\ y \in [Docs -> Nat] /\ Hold(s, x) /\ s \in States
  BY SavingIs DEF Hold
<1>2. /\ JobsOK(job) /\ Now.win = win /\ Now.doc = doc
  BY IInvGives
<1>3. job' = WithJob(job, j, NoJob) /\ Become(t)
  BY DEF Finish, WithJob
<1>4. JobsOK(job') /\ job'[j] = NoJob /\ \A i \in Jobs \ {j} : job'[i] = job[i]
  BY <1>2, <1>3, NoJobIs, WithJobIs
<1>5. none \in Seq(Docs) /\ done \in Seq(Docs)
  BY DEF Done
<1>6. ASSUME NEW d \in Docs
      PROVE  Times(done, d) + Once(Saves(job'[j], d)) <= Times(none, d) + Once(Saves(job[j], d))
  <2>1. Times(done, d) = Once(Saves(job[j], d)) /\ Once(Saves(job'[j], d)) = 0
    BY <1>4, NoJobIs DEF Done, Once
  <2>2. Times(none, d) = 0 /\ Once(Saves(job[j], d)) \in Nat
    BY TimesFew DEF Once
  <2> DEFINE a == Once(Saves(job[j], d))
             b == Times(done, d)
             c == Times(none, d)
             e == Once(Saves(job'[j], d))
  <2>3. b = a /\ e = 0 /\ c = 0 /\ a \in Nat
    BY <2>1, <2>2
  <2> HIDE DEF a, b, c, e
  <2>4. b + e <= c + a
    BY ONLY <2>3
  <2> QED BY <2>4 DEF a, b, c, e
<1> HIDE DEF x, r
<1>7. /\ Hold(t, y) /\ Rel(s, t)
      /\ \A d \in Docs : (InTab(s.win, d) /\ s.doc[d].edited)
                            => InTab(t.win, d) \/ (ok /\ Closing(r) /\ Gives(s, r, d))
      /\ r.then = "quit" => t.win = s.win
  <2>1. CASE Fails(s, j)
    <3>1. t = s
      BY <2>1
    <3>2. r.then # "quit"
      BY <2>1 DEF Fails, r
    <3>3. \A d \in Docs : y[d] <= x[d]
      <4> SUFFICES ASSUME NEW d \in Docs PROVE y[d] <= x[d]
        OBVIOUS
      <4> DEFINE yd == y[d]
                 xd == x[d]
                 b == Once(Saves(job[j], d))
      <4>1. yd + b = xd + 0
        <5>1. y[d] + Once(Saves(job[j], d)) = x[d] + Once(Saves(job'[j], d))
          BY <1>4, SavingChange DEF x
        <5>2. Once(Saves(job'[j], d)) = 0
          BY <1>4, NoJobIs DEF Once
        <5> HIDE DEF y
        <5> QED BY <5>1, <5>2
      <4>2. yd \in Nat /\ xd \in Nat
        BY <1>1
      <4>3. b \in Nat
        BY DEF Once
      <4> HIDE DEF yd, xd, b
      <4>4. yd <= xd
        BY ONLY <4>1, <4>2, <4>3
      <4> QED BY <4>4 DEF yd, xd
    <3> HIDE DEF t, y
    <3>4. Hold(s, y)
      BY <1>1, <3>3, HoldLess
    <3> QED BY <3>1, <3>2, <3>4, RelRefl
  <2>2. CASE ~Fails(s, j)
    <3>1. t = OpenClose(q, none, done)
      BY <2>2
    <3>2. /\ Hold(q, x) /\ Rel(s, q)
          /\ \A d \in Docs : (InTab(s.win, d) /\ s.doc[d].edited)
                                => InTab(q.win, d) \/ (ok /\ Closing(r) /\ Gives(s, r, d))
          /\ r.then = "quit" => q = s
      BY <1>1, <1>2, <2>2, AfterIs DEF r
    <3> HIDE DEF t, q, none
    <3>3. Hold(q, Saving(job))
      BY <3>2 DEF x
    <3>4. Hold(t, Saving(job')) /\ Rel(q, t) /\ t.win = q.win
      <4>1. Trades(job, job', j, none, done)
        BY <1>4, <1>6 DEF Trades
      <4> HIDE DEF none
      <4> QED BY <1>5, <3>1, <3>3, <4>1, JobHolds
    <3>5. Rel(s, t)
      <4>1. \A d \in Docs : InTab(t.win, d) => InTab(q.win, d)
        BY <3>4
      <4> QED BY <3>2, <3>4, <4>1, RelTrans
    <3> QED BY <3>2, <3>4, <3>5 DEF y
  <2> QED BY <2>1, <2>2
<1> HIDE DEF t, y, q
<1>8. T = t /\ T.doc = doc' /\ T.win = win'
  BY <1>3, <1>7, NextState
<1> HIDE DEF T
<1>9. Hold(T, Saving(job'))
  BY <1>7, <1>8 DEF y
<1>10. \A d \in Docs : doc'[d].edited => doc[d].edited \/ d \in {}
  BY <1>7, <1>8 DEF Rel
<1>11. ASSUME NEW i \in Jobs PROVE Follows(T, job[i], job'[i])
  <2>1. CASE i # j
    BY <1>4, <2>1, FollowsSame
  <2>2. CASE i = j
    BY <1>4, <2>2, NoJobIs DEF Follows
  <2> QED BY <2>1, <2>2
<1>12. Lost(Now, T, agreed', stale)
  <2> SUFFICES ASSUME NEW d \in Docs, doc[d].edited, ~t.doc[d].loaded, d \notin agreed',
                      InTab(win, d)
               PROVE  \E w \in stale : Has(win[w].tabs, d)
    BY <1>2, <1>8 DEF Lost
  <2>1. s.doc[d].edited /\ InTab(s.win, d)
    OBVIOUS
  <2>2. ~t.doc[d].edited
    BY <1>7 DEF Hold
  <2>3. ~InTab(t.win, d)
    BY <1>7, <2>1, <2>2 DEF Rel
  <2>4. ok /\ Closing(r) /\ Gives(s, r, d)
    BY <1>7, <2>1, <2>3
  <2> DEFINE w == r.window
             tabs == win[w].tabs
  <2>5. w \in Windows
    BY <1>2 DEF JobsOK, r
  <2>6. PICK i \in DOMAIN tabs : (r.then = "tabs" => i \in r.tabs) /\ tabs[i] = d
    BY <2>4 DEF Gives
  <2>7. Has(tabs, d)
    <3>1. tabs \in Seq(Docs)
      BY <1>1, <2>5, StateIs
    <3>2. DOMAIN tabs = 1..Len(tabs)
      BY ONLY <3>1
    <3> HIDE DEF tabs
    <3> QED BY <2>6, <3>2 DEF Has
  <2>8. CASE w \in stale
    BY <2>7, <2>8
  <2>9. CASE w \notin stale
    <3>1. Asked(Now, r)
      BY <2>4, <2>9 DEF IInv, Inv, r
    <3>2. Has(r.rest, d)
      BY <1>2, <2>6, <3>1 DEF Asked
    <3> QED BY <2>4, <3>2 DEF r
  <2> QED BY <2>8, <2>9
<1>13. app' \in {"running", "terminating", "quit"} /\ kept' \subseteq Docs
  <2>1. SaveSession(s) \subseteq Docs
    BY <1>1, SaveSessionIs
  <2> QED BY <2>1 DEF Finish, IInv
<1>14. Quits(T, app', kept', agreed', discarded')
  <2> SUFFICES ASSUME app' = "quit", NEW d \in Docs, InTab(T.win, d), T.doc[d].edited
               PROVE  d \in kept'
    BY DEF Quits
  <2>1. r.then = "quit" /\ ok /\ kept' = SaveSession(s)
    BY DEF Finish, r
  <2>2. InTab(s.win, d) /\ s.doc[d].edited
    BY <1>7, <1>8, <2>1 DEF Rel
  <2>3. s.doc[d].loaded
    BY <1>1, <2>2 DEF Hold
  <2> QED BY <1>1, <2>1, <2>2, <2>3, SaveSessionIs
<1>15. discarded' \in BOOLEAN /\ edits' \in 0..MaxEdits /\ requests' \in 0..MaxRequests
  BY DEF IInv
<1>16. {} \in SUBSET Docs /\ Record({}, agrees)
  OBVIOUS
<1> QED BY <1>4, <1>9, <1>10, <1>11, <1>12, <1>13, <1>14, <1>15, <1>16 DEF Result, T

(* What is in the first place. *)
LEMMA HeadIs ==
  ASSUME NEW S, NEW seq \in Seq(S), seq # <<>>
  PROVE  /\ Head(seq) \in S /\ Tail(seq) \in Seq(S)
         /\ \A e : Has(seq, e) => e = Head(seq) \/ Has(Tail(seq), e)
<1> DEFINE n == Len(seq)
           rest == Tail(seq)
<1>1. n \in Nat /\ n >= 1 /\ Head(seq) = seq[1] /\ DOMAIN seq = 1..n
  BY EmptySeq
<1>2. rest \in Seq(S) /\ Len(rest) = n - 1 /\ \A i \in 1..n - 1 : rest[i] = seq[i + 1]
  OBVIOUS
<1>3. Head(seq) \in S
  <2>1. 1 \in 1..n
    BY <1>1
  <2> QED BY <1>1, <2>1, ElementOfSeq
<1> HIDE DEF rest
<1>4. ASSUME NEW e, Has(seq, e) PROVE e = Head(seq) \/ Has(rest, e)
  <2>1. PICK i \in 1..n : seq[i] = e
    BY <1>4 DEF Has
  <2>2. CASE i = 1
    BY <1>1, <2>1, <2>2
  <2>3. CASE i # 1
    <3> DEFINE k == i - 1
    <3>1. k \in 1..n - 1 /\ k + 1 = i
      BY <1>1, <2>3
    <3> HIDE DEF k, n
    <3>2. rest[k] = e /\ k \in 1..Len(rest)
      BY <1>2, <2>1, <3>1
    <3> QED BY <3>2 DEF Has
  <2> QED BY <2>2, <2>3
<1> QED BY <1>2, <1>3, <1>4 DEF rest

(* The next save of a chain, or its end. *)
LEMMA SaveNextIs ==
  ASSUME IInv, app # "quit", NEW j \in Jobs, job[j].stage # "free", NEW s,
         Hold(s, Saving(job)), s.win = win, NEW rest \in Seq(Docs), NEW done, Done(job[j], done),
         SaveNext(s, j, rest, done), UNCHANGED <<discarded, edits, requests>>,
         NEW agrees \in SUBSET Docs, Record({}, agrees),
         \A d \in Docs : s.doc[d].edited => doc[d].edited,
         \A d \in Docs : (doc[d].edited /\ ~s.doc[d].edited) => d \in agreed',
         \A d \in Docs : (s.doc[d].edited /\ Has(job[j].rest, d)) => Has(rest, d)
  PROVE  Result
<1> DEFINE ok == rest = <<>>
<1>1. CASE ~(rest # <<>> /\ s.doc[Head(rest)].loaded)
  <2>1. Finish(s, j, ok, done)
    BY <1>1 DEF SaveNext
  <2>2. ok \in BOOLEAN
    OBVIOUS
  <2>3. ok => \A d \in Docs : (Has(job[j].rest, d) /\ doc[d].edited) => d \in agreed'
    <3>1. ok => \A d \in Docs : ~Has(rest, d)
      BY DEF Has
    <3> HIDE DEF ok
    <3> QED BY <3>1
  <2> HIDE DEF ok
  <2> QED BY <2>1, <2>2, <2>3, FinishIs
<1>2. CASE rest # <<>> /\ s.doc[Head(rest)].loaded
  <2> DEFINE x == Saving(job)
             r == [job[j] EXCEPT !.stage = "saving", !.rest = rest]
             h == Head(rest)
             one == <<h>>
             t == OpenClose(s, one, done)
             T == [win |-> win', doc |-> doc']
  <2>1. h \in Docs
    BY <1>2, HeadIs
  <2>2. /\ JobsOK(job) /\ Now.win = win /\ Now.doc = doc
    BY IInvGives
  <2>3. /\ job[j] \in JobRecord /\ job[j].window \in Windows
    BY <2>2 DEF JobsOK
  <2>4. /\ r \in JobRecord /\ r.stage = "saving" /\ r.rest = rest
        /\ r.window = job[j].window /\ r.tabs = job[j].tabs /\ r.then = job[j].then
    BY <2>3 DEF JobRecord
  <2>5. /\ job' = WithJob(job, j, r) /\ Become(t) /\ UNCHANGED <<app, kept>>
    <3>1. /\ job' = [job EXCEPT ![j].stage = "saving", ![j].rest = rest]
          /\ Become(t) /\ UNCHANGED <<app, kept>>
      BY <1>2 DEF SaveNext
    <3>2. job \in [Jobs -> JobRecord]
      BY <2>2 DEF JobsOK
    <3>3. [job EXCEPT ![j].stage = "saving", ![j].rest = rest] = [job EXCEPT ![j] = r]
      BY <3>2
    <3> QED BY <3>1, <3>3 DEF WithJob
  <2> HIDE DEF r, h
  <2>6. JobsOK(job') /\ job'[j] = r /\ \A i \in Jobs \ {j} : job'[i] = job[i]
    BY <1>2, <2>2, <2>3, <2>4, <2>5, WithJobIs
  <2>7. one \in Seq(Docs) /\ done \in Seq(Docs)
    BY <2>1 DEF Done
  <2>8. ASSUME NEW d \in Docs
        PROVE  Times(done, d) + Once(Saves(job'[j], d)) <= Times(one, d) + Once(Saves(job[j], d))
    <3> DEFINE a == Once(Saves(job[j], d))
               b == Times(done, d)
               c == Times(one, d)
               e == Once(Saves(job'[j], d))
    <3>1. b = a
      BY DEF Done
    <3>2. c = e
      <4>1. c = IF h = d THEN 1 ELSE 0
        BY TimesFew
      <4>2. Saves(job'[j], d) <=> h = d
        BY <2>4, <2>6 DEF Saves, h
      <4> QED BY <4>1, <4>2 DEF Once
    <3>3. a \in Nat /\ e \in Nat
      BY DEF Once
    <3> HIDE DEF a, b, c, e
    <3>4. b + e <= c + a
      BY ONLY <3>1, <3>2, <3>3
    <3> QED BY <3>4 DEF a, b, c, e
  <2> HIDE DEF one
  <2>9. Hold(t, Saving(job')) /\ Rel(s, t) /\ t.win = s.win
    <3>1. Trades(job, job', j, one, done)
      BY <2>6, <2>8 DEF Trades
    <3> QED BY <2>7, <3>1, JobHolds
  <2> HIDE DEF t
  <2>10. T = t /\ T.doc = doc' /\ T.win = win'
    BY <2>5, <2>9, NextState
  <2> HIDE DEF T
  <2>11. Hold(T, Saving(job'))
    BY <2>9, <2>10
  <2>12. \A d \in Docs : doc'[d].edited => doc[d].edited \/ d \in {}
    BY <2>9, <2>10 DEF Rel
  <2>13. ASSUME NEW i \in Jobs PROVE Follows(T, job[i], job'[i])
    <3>1. CASE i # j
      BY <2>6, <3>1, FollowsSame
    <3>2. CASE i = j
      <4>1. \A d \in Docs : (T.doc[d].edited /\ Has(job[j].rest, d)) => Has(r.rest, d)
        BY <2>4, <2>9, <2>10 DEF Rel
      <4> QED BY <2>4, <2>6, <3>2, <4>1 DEF Follows
    <3> QED BY <3>1, <3>2
  <2>14. Lost(Now, T, agreed', stale)
    <3> SUFFICES ASSUME NEW d \in Docs, doc[d].edited, ~t.doc[d].loaded, d \notin agreed',
                        InTab(win, d)
                 PROVE  FALSE
      BY <2>2, <2>10 DEF Lost
    <3>1. s.doc[d].edited /\ InTab(t.win, d)
      BY <2>9
    <3>2. t.doc[d].edited
      BY <2>9, <3>1 DEF Rel
    <3> QED BY <2>9, <3>2 DEF Hold
  <2>15. Quits(T, app', kept', agreed', discarded')
    BY <2>5 DEF Quits
  <2>16. /\ app' \in {"running", "terminating", "quit"} /\ kept' \subseteq Docs
         /\ discarded' \in BOOLEAN /\ edits' \in 0..MaxEdits /\ requests' \in 0..MaxRequests
    BY <2>5 DEF IInv
  <2>17. {} \in SUBSET Docs /\ Record({}, agrees)
    OBVIOUS
  <2> QED BY <2>6, <2>11, <2>12, <2>13, <2>14, <2>15, <2>16, <2>17 DEF Result, T
<1> QED BY <1>1, <1>2

(* The user answers a sheet. *)
LEMMA AnswerStep ==
  ASSUME IInv, app # "quit", NEW j \in Jobs, NEW answer \in {"save", "cancel", "don't save"},
         Answer(j, answer)
  PROVE  Result
<1> DEFINE s == Now
           done == <<>>
           rest == job[j].rest
           ok == answer = "don't save"
           agrees == IF answer = "don't save" THEN ToSet(job[j].rest) ELSE {}
<1>1. Hold(s, Saving(job)) /\ s.win = win /\ s.doc = doc /\ JobsOK(job)
  BY IInvGives
<1>2. /\ job[j].stage = "sheet"
      /\ IF answer = "save" THEN SaveNext(s, j, rest, done) ELSE Finish(s, j, ok, done)
      /\ UNCHANGED <<discarded, edits, requests>> /\ Record({}, agrees)
  BY DEF Answer
<1>3. rest \in Seq(Docs) /\ job[j].stage # "free"
  BY <1>1, <1>2 DEF JobsOK, JobRecord
<1>4. Done(job[j], done)
  <2>1. \A d \in Docs : Times(done, d) = 0 /\ Once(Saves(job[j], d)) = 0
    BY <1>2, TimesFew DEF Once, Saves
  <2>2. done \in Seq(Docs)
    BY EmptySeq
  <2> HIDE DEF done
  <2> QED BY <2>1, <2>2 DEF Done
<1>5. agrees \in SUBSET Docs
  <2>1. DOMAIN rest = 1..Len(rest) /\ \A i \in 1..Len(rest) : rest[i] \in Docs
    BY <1>3, LenProperties, ElementOfSeq
  <2> QED BY <2>1 DEF ToSet
<1>6. /\ \A d \in Docs : s.doc[d].edited => doc[d].edited
      /\ \A d \in Docs : (doc[d].edited /\ ~s.doc[d].edited) => d \in agreed'
  BY <1>1
<1>7. ok \in BOOLEAN
  OBVIOUS
<1>8. ok => \A d \in Docs : (Has(job[j].rest, d) /\ doc[d].edited) => d \in agreed'
  <2> SUFFICES ASSUME ok, NEW d \in Docs, Has(job[j].rest, d) PROVE d \in agreed'
    OBVIOUS
  <2>1. d \in ToSet(job[j].rest)
    <3>1. DOMAIN rest = 1..Len(rest)
      BY <1>3, LenProperties
    <3> QED BY <3>1 DEF ToSet, Has
  <2>2. d \in agrees
    BY <2>1
  <2> HIDE DEF agrees
  <2> QED BY <1>2, <2>2 DEF Record
<1> HIDE DEF s, done, ok, agrees
<1>9. CASE answer = "save"
  <2> HIDE DEF rest
  <2>1. \A d \in Docs : (s.doc[d].edited /\ Has(job[j].rest, d)) => Has(rest, d)
    BY DEF rest
  <2>2. SaveNext(s, j, rest, done) /\ UNCHANGED <<discarded, edits, requests>>
    BY <1>2, <1>9
  <2>3. Record({}, agrees)
    BY <1>2
  <2> QED BY <1>1, <1>3, <1>4, <1>5, <1>6, <2>1, <2>2, <2>3, SaveNextIs
<1>10. CASE answer # "save"
  <2>2. Finish(s, j, ok, done) /\ UNCHANGED <<discarded, edits, requests>>
    BY <1>2, <1>10
  <2>3. Record({}, agrees)
    BY <1>2
  <2> QED BY <1>1, <1>3, <1>4, <1>5, <1>6, <1>7, <1>8, <2>2, <2>3, FinishIs
<1> QED BY <1>9, <1>10

-----------------------------------------------------------------------------
(* Saves that end, and those that start. *)

(* A document was saved, and it was still loaded. *)
Saved(s, d) == WithDoc(s, d, [s.doc[d] EXCEPT !.edited = FALSE, !.path = TRUE])

(* A document that was saved is not edited any more, and it is held as before. *)
LEMMA SavedIs ==
  ASSUME NEW s, NEW x \in [Docs -> Nat], Hold(s, x), NEW d \in Docs
  PROVE  LET t == Saved(s, d)
         IN  /\ Hold(t, x) /\ t.win = s.win /\ ~t.doc[d].edited
             /\ \A e \in Docs \ {d} : t.doc[e].edited = s.doc[e].edited
<1> DEFINE r == [s.doc[d] EXCEPT !.edited = FALSE, !.path = TRUE]
           t == Saved(s, d)
<1>1. /\ s.doc[d] \in DocRecord /\ s.doc[d].count \in Nat /\ s.doc[d].loaded \in BOOLEAN
      /\ s.doc[d].waiting \in Seq(Windows)
  BY StateIs DEF Hold
<1>2. s.doc[d].loaded => s.doc[d].waiting = <<>>
  BY DEF Hold
<1>3. /\ r.count = s.doc[d].count /\ r.loaded = s.doc[d].loaded
      /\ r.waiting = s.doc[d].waiting /\ ~r.edited /\ r \in DocRecord
  BY <1>1 DEF DocRecord
<1>4. t = WithDoc(s, d, r)
  BY DEF Saved
<1> HIDE DEF r, t
<1>5. Waits(r) + x[d] <= Waits(s.doc[d]) + x[d]
  <2> DEFINE a == Waits(r)
             b == Waits(s.doc[d])
             xd == x[d]
  <2>1. a = b /\ b \in Nat /\ xd \in Nat
    BY <1>1, <1>3 DEF Waits
  <2> HIDE DEF a, b, xd
  <2>2. a + xd <= b + xd
    BY ONLY <2>1
  <2> QED BY <2>2 DEF a, b, xd
<1>6. \A e \in Docs \ {d} : x[e] = x[e]
  OBVIOUS
<1>7. /\ Hold(t, x) /\ t.win = s.win
      /\ \A e \in Docs : t.doc[e] = IF e = d THEN r ELSE s.doc[e]
  BY <1>2, <1>3, <1>4, <1>5, <1>6, WithDocIs
<1> QED BY <1>3, <1>7 DEF t

(* A save ends. *)
LEMMA SaveEndsStep ==
  ASSUME IInv, app # "quit", NEW j \in Jobs, NEW success \in BOOLEAN, SaveEnds(j, success)
  PROVE  Result
<1> DEFINE x == Saving(job)
           rest == job[j].rest
           h == Head(rest)
           next == Tail(rest)
           done == <<h>>
           no == FALSE
           s == IF success /\ doc[h].loaded THEN Saved(Now, h) ELSE Now
           agrees == IF success THEN {h} ELSE {}
<1>1. /\ x \in [Docs -> Nat] /\ Hold(Now, x) /\ Now.win = win /\ Now.doc = doc
      /\ JobsOK(job) /\ doc \in [Docs -> DocRecord]
  BY IInvGives
<1>2. job[j].stage = "saving" /\ job[j].stage # "free"
  BY DEF SaveEnds
<1>3. rest \in Seq(Docs) /\ rest # <<>>
  BY <1>1, <1>2 DEF JobsOK, JobRecord
<1>4. h \in Docs /\ next \in Seq(Docs) /\ \A e : Has(rest, e) => e = h \/ Has(next, e)
  <2> HIDE DEF rest
  <2> QED BY <1>3, HeadIs
<1>5. /\ IF success THEN SaveNext(s, j, next, done) ELSE Finish(s, j, no, done)
      /\ UNCHANGED <<discarded, edits, requests>> /\ Record({}, agrees)
  <2>1. Saved(Now, h) = [Now EXCEPT !.doc[h].edited = FALSE, !.doc[h].path = TRUE]
    <3>1. Now = [win |-> win, doc |-> doc]
      BY DEF Now
    <3>2. doc[h] \in DocRecord
      BY <1>1, <1>4
    <3> HIDE DEF h
    <3> QED BY <1>1, <3>1, <3>2 DEF Saved, WithDoc
  <2> QED BY <2>1 DEF SaveEnds
<1>6. Done(job[j], done)
  <2>1. ASSUME NEW d \in Docs PROVE Times(done, d) = Once(Saves(job[j], d))
    <3>1. Times(done, d) = IF h = d THEN 1 ELSE 0
      BY TimesFew
    <3>2. Saves(job[j], d) <=> h = d
      BY <1>2 DEF Saves
    <3> QED BY <3>1, <3>2 DEF Once
  <2>2. done \in Seq(Docs)
    BY <1>4
  <2> HIDE DEF done
  <2> QED BY <2>1, <2>2 DEF Done
<1>7. agrees \in SUBSET Docs
  BY <1>4
<1> HIDE DEF x, h, next
<1>8. /\ Hold(s, x) /\ s.win = win
      /\ \A d \in Docs : s.doc[d].edited => doc[d].edited
      /\ \A d \in Docs : (doc[d].edited /\ ~s.doc[d].edited) => success /\ d = h
      /\ success => ~s.doc[h].edited
  <2>1. CASE success /\ doc[h].loaded
    <3>1. s = Saved(Now, h)
      BY <2>1
    <3> HIDE DEF s
    <3>2. /\ Hold(s, x) /\ s.win = Now.win /\ ~s.doc[h].edited
          /\ \A e \in Docs \ {h} : s.doc[e].edited = Now.doc[e].edited
      BY <1>1, <1>4, <3>1, SavedIs
    <3> QED BY <1>1, <2>1, <3>2
  <2>2. CASE ~(success /\ doc[h].loaded)
    <3>1. s = Now
      BY <2>2
    <3> HIDE DEF s
    <3>2. success => ~doc[h].edited
      BY <1>1, <1>4, <2>2 DEF Hold
    <3> QED BY <1>1, <3>1, <3>2
  <2> QED BY <2>1, <2>2
<1> HIDE DEF s, done, rest, no
<1>9. \A d \in Docs : (doc[d].edited /\ ~s.doc[d].edited) => d \in agreed'
  <2> SUFFICES ASSUME NEW d \in Docs, doc[d].edited, ~s.doc[d].edited PROVE d \in agreed'
    OBVIOUS
  <2>1. d \in agrees
    BY <1>8
  <2> QED BY <1>5, <2>1 DEF Record
<1>10. \A d \in Docs : (s.doc[d].edited /\ Has(rest, d)) => success = FALSE \/ Has(next, d)
  BY <1>4, <1>8
<1> HIDE DEF agrees
<1>11. CASE success
  <2>1. SaveNext(s, j, next, done) /\ UNCHANGED <<discarded, edits, requests>> /\ Record({}, agrees)
    BY <1>5, <1>11
  <2>2. \A d \in Docs : (s.doc[d].edited /\ Has(job[j].rest, d)) => Has(next, d)
    BY <1>10, <1>11 DEF rest
  <2>3. Hold(s, Saving(job)) /\ s.win = win
    BY <1>8 DEF x
  <2> QED BY <1>2, <1>4, <1>6, <1>7, <1>8, <1>9, <2>1, <2>2, <2>3, SaveNextIs
<1>12. CASE ~success
  <2>1. Finish(s, j, no, done) /\ UNCHANGED <<discarded, edits, requests>> /\ Record({}, agrees)
    BY <1>5, <1>12
  <2>2. no \in BOOLEAN /\ ~no
    BY DEF no
  <2>3. Hold(s, Saving(job)) /\ s.win = win
    BY <1>8 DEF x
  <2>4. no => \A d \in Docs : (Has(job[j].rest, d) /\ doc[d].edited) => d \in agreed'
    BY <2>2
  <2> QED BY <1>2, <1>6, <1>7, <1>8, <1>9, <2>1, <2>2, <2>3, <2>4, FinishIs
<1> QED BY <1>11, <1>12

(* A save starts, and with it the first of its documents is held. *)
LEMMA StartIs ==
  ASSUME IInv, app # "quit", NEW j \in Jobs, job[j].stage = "free", NEW w \in Windows,
         NEW docs \in Seq(Docs), docs # <<>>, NEW then \in {"nothing", "quit"},
         job' = [job EXCEPT ![j] = [stage |-> "saving", window |-> w, rest |-> docs,
                                    tabs |-> {}, then |-> then]],
         Become(OpenClose(Now, <<Head(docs)>>, <<>>)),
         UNCHANGED <<kept, discarded, edits>>, app' \in {"running", "terminating"},
         requests' \in 0..MaxRequests, Record({}, {})
  PROVE  Result
<1> DEFINE x == Saving(job)
           none == {}
           r == [stage |-> "saving", window |-> w, rest |-> docs, tabs |-> none, then |-> then]
           h == Head(docs)
           one == <<h>>
           done == <<>>
           t == OpenClose(Now, one, done)
           T == [win |-> win', doc |-> doc']
<1>1. x \in [Docs -> Nat] /\ Hold(Now, x) /\ Now.win = win /\ Now.doc = doc /\ JobsOK(job)
  BY IInvGives
<1>2. /\ r \in JobRecord /\ r.stage = "saving" /\ r.window = w /\ r.rest = docs /\ r.then = then
  <2>1. none \in SUBSET Nat
    OBVIOUS
  <2> HIDE DEF none
  <2> QED BY <2>1 DEF JobRecord
<1>3. job' = WithJob(job, j, r) /\ Become(t)
  BY DEF WithJob
<1>4. h \in Docs
  BY HeadIs
<1> HIDE DEF r, h
<1>5. JobsOK(job') /\ job'[j] = r /\ \A i \in Jobs \ {j} : job'[i] = job[i]
  <2>1. /\ r.stage = "saving" => r.rest # <<>>
        /\ r.stage # "free" => r.window \in Windows
        /\ r.stage = "free" => r.then = "nothing"
    BY <1>2
  <2>2. /\ JobsOK(WithJob(job, j, r)) /\ WithJob(job, j, r)[j] = r
        /\ \A i \in Jobs \ {j} : WithJob(job, j, r)[i] = job[i]
    BY <1>1, <1>2, <2>1, WithJobIs
  <2> QED BY <1>3, <2>2
<1>6. one \in Seq(Docs) /\ done \in Seq(Docs)
  BY <1>4, EmptySeq
<1>7. ASSUME NEW d \in Docs
      PROVE  Times(done, d) + Once(Saves(job'[j], d)) <= Times(one, d) + Once(Saves(job[j], d))
  <2> DEFINE a == Once(Saves(job[j], d))
             b == Times(done, d)
             c == Times(one, d)
             e == Once(Saves(job'[j], d))
  <2>1. a = 0 /\ b = 0
    BY TimesFew DEF Saves, Once
  <2>2. c = e
    <3>1. c = IF h = d THEN 1 ELSE 0
      BY TimesFew
    <3>2. Saves(job'[j], d) <=> h = d
      BY <1>2, <1>5 DEF Saves, h
    <3> QED BY <3>1, <3>2 DEF Once
  <2>3. e \in Nat
    BY DEF Once
  <2> HIDE DEF a, b, c, e
  <2>4. b + e <= c + a
    BY ONLY <2>1, <2>2, <2>3
  <2> QED BY <2>4 DEF a, b, c, e
<1> HIDE DEF one, done
<1>8. Hold(t, Saving(job')) /\ Rel(Now, t) /\ t.win = Now.win
  <2>1. Hold(Now, Saving(job))
    BY <1>1 DEF x
  <2>2. \A i \in Jobs \ {j} : job'[i] = job[i]
    BY <1>5
  <2>3. j \in Jobs
    OBVIOUS
  <2>4. \A d \in Docs : Times(done, d) + Once(Saves(job'[j], d))
                            <= Times(one, d) + Once(Saves(job[j], d))
    BY <1>7
  <2>5. Trades(job, job', j, one, done)
    BY <2>2, <2>4 DEF Trades
  <2>6. one \in Seq(Docs) /\ done \in Seq(Docs)
    BY <1>6
  <2> QED BY ONLY <2>1, <2>3, <2>5, <2>6, JobHolds, SMTT(30)
<1> HIDE DEF t
<1>9. Safe(Now, t)
  <2>1. SameTabs(Now, t)
    BY <1>8 DEF SameTabs
  <2> QED BY <1>8, <2>1, SafeSame
<1>10. T = t /\ T.doc = doc' /\ T.win = win'
  BY <1>3, <1>8, NextState
<1> HIDE DEF T
<1>11. Hold(T, Saving(job'))
  BY <1>8, <1>10
<1>12. \A d \in Docs : doc'[d].edited => doc[d].edited \/ d \in {}
  BY <1>1, <1>8, <1>10 DEF Rel
<1>13. ASSUME NEW i \in Jobs PROVE Follows(T, job[i], job'[i])
  <2>1. CASE i # j
    BY <1>5, <2>1, FollowsSame
  <2>2. CASE i = j
    BY <1>2, <1>5, <2>2 DEF Follows, Closing
  <2> QED BY <2>1, <2>2
<1>14. Lost(Now, T, agreed', stale)
  BY <1>9, <1>10, <1>8, SafeNotLost
<1>15. Quits(T, app', kept', agreed', discarded')
  BY DEF Quits
<1>16. /\ app' \in {"running", "terminating", "quit"} /\ kept' \subseteq Docs
       /\ discarded' \in BOOLEAN /\ edits' \in 0..MaxEdits
  BY DEF IInv
<1>17. {} \in SUBSET Docs /\ Record({}, {}) /\ requests' \in 0..MaxRequests
  OBVIOUS
<1> QED BY <1>5, <1>11, <1>12, <1>13, <1>14, <1>15, <1>16, <1>17 DEF Result, T

(* saveDocument: and saveAllDocuments:. *)
LEMMA SaveStep ==
  ASSUME IInv, app # "quit", NEW w \in Windows, win[w].shown # NoDoc,
         NEW docs \in {<<win[w].shown>>, EditedIn(Now, win[w].tabs)}, Save(w, docs)
  PROVE  Result
<1> DEFINE none == "nothing"
<1>1. win[w].shown \in Docs /\ win[w].tabs \in Seq(Docs)
  <2>1. Now.win = win /\ Now \in States
    BY IInvGives
  <2> QED BY <2>1, StateIs
<1>2. docs \in Seq(Docs)
  <2>1. EditedIn(Now, win[w].tabs) \in Seq(Docs)
    BY <1>1, EditedInIs
  <2>2. <<win[w].shown>> \in Seq(Docs)
    BY <1>1
  <2> QED BY <2>1, <2>2
<1>3. /\ app = "running" /\ docs # <<>> /\ Request
      /\ Become(OpenClose(Now, <<Head(docs)>>, <<>>))
  BY DEF Save, Free, Running
<1>4. PICK j \in Jobs :
        /\ job[j].stage = "free"
        /\ job' = [job EXCEPT ![j] = [stage |-> "saving", window |-> w, rest |-> docs,
                                      tabs |-> {}, then |-> none]]
  BY DEF Save
<1>5. /\ requests' \in 0..MaxRequests /\ Record({}, {})
      /\ UNCHANGED <<app, kept, discarded, edits>>
  BY <1>3, RequestIs
<1>6. none \in {"nothing", "quit"}
  OBVIOUS
<1>7. UNCHANGED <<kept, discarded, edits>> /\ app' \in {"running", "terminating"}
  BY <1>3, <1>5
<1> HIDE DEF none
<1> QED BY <1>2, <1>3, <1>4, <1>5, <1>6, <1>7, StartIs

(* The application quits, and nothing else changes. *)
LEMMA QuitIs ==
  ASSUME IInv, UNCHANGED <<win, doc, job, edits, requests>>, app' = "quit", kept' \subseteq Docs,
         discarded' \in BOOLEAN, NEW agrees \in SUBSET Docs, Record({}, agrees),
         \A d \in Docs : (InTab(win, d) /\ doc[d].edited) => d \in agreed' \cup kept' \/ discarded'
  PROVE  Result
<1> DEFINE T == [win |-> win', doc |-> doc']
<1>1. Hold(Now, Saving(job)) /\ Now.win = win /\ Now.doc = doc /\ JobsOK(job)
  BY IInvGives
<1>2. T = Now
  BY DEF Now
<1>3. job' = job
  OBVIOUS
<1> HIDE DEF T
<1>4. Hold(T, Saving(job')) /\ JobsOK(job')
  BY <1>1, <1>2, <1>3
<1>5. \A d \in Docs : doc'[d].edited => doc[d].edited \/ d \in {}
  OBVIOUS
<1>6. \A j \in Jobs : Follows(T, job[j], job'[j])
  BY <1>3, FollowsSame
<1>7. Lost(Now, T, agreed', stale)
  BY <1>1, <1>2 DEF Hold, Lost
<1>8. Quits(T, app', kept', agreed', discarded')
  BY <1>1, <1>2 DEF Quits
<1>9. /\ app' \in {"running", "terminating", "quit"}
      /\ edits' \in 0..MaxEdits /\ requests' \in 0..MaxRequests
  BY DEF IInv
<1>10. {} \in SUBSET Docs /\ Record({}, agrees) /\ kept' \subseteq Docs /\ discarded' \in BOOLEAN
  OBVIOUS
<1> QED BY <1>4, <1>5, <1>6, <1>7, <1>8, <1>9, <1>10 DEF Result, T

(* What a window has that must be saved before the application quits.        *)
LEMMA NeedsSavingIs ==
  ASSUME IInv, NEW w \in Windows
  PROVE  /\ NeedsSaving(w) \in Seq(Docs)
         /\ w \in Needing <=> NeedsSaving(w) # <<>>
<1>1. win[w].tabs \in Seq(Docs)
  <2>1. Now.win = win /\ Now \in States
    BY IInvGives
  <2> QED BY <2>1, StateIs
<1>2. NeedsSaving(w) \in Seq(Docs)
  BY <1>1, KeepHas DEF NeedsSaving
<1> QED BY <1>2 DEF Needing

(* applicationShouldTerminate:, with at most one window to ask about.        *)
LEMMA TerminateStep ==
  ASSUME IInv, app # "quit", Terminate
  PROVE  Result
<1>1. UNCHANGED <<discarded, edits, requests>> /\ Record({}, {})
  BY DEF Terminate
<1>2. \/ app' = "quit" /\ kept' = SaveSession(Now) /\ UNCHANGED <<win, doc, job>>
      \/ /\ \E w \in Needing, j \in Jobs : Ask(Now, j, w, NeedsSaving(w), {}, "quit")
         /\ app' = "terminating" /\ UNCHANGED kept
  BY DEF Terminate
<1>3. CASE app' = "quit" /\ kept' = SaveSession(Now) /\ UNCHANGED <<win, doc, job>>
  <2> DEFINE none == {}
  <2>1. Hold(Now, Saving(job)) /\ Now.win = win /\ Now.doc = doc /\ Now \in States
    BY IInvGives
  <2>2. kept' \subseteq Docs
    BY <1>3, <2>1, SaveSessionIs
  <2>3. \A d \in Docs : (InTab(win, d) /\ doc[d].edited) => d \in agreed' \cup kept' \/ discarded'
    <3>1. \A d \in Docs : doc[d].edited => doc[d].loaded
      BY <2>1 DEF Hold
    <3>2. \A d \in Docs : (InTab(win, d) /\ doc[d].loaded /\ doc[d].edited) => d \in SaveSession(Now)
      BY <2>1, SaveSessionIs
    <3> QED BY <1>3, <3>1, <3>2
  <2>4. none \in SUBSET Docs /\ Record({}, none)
    BY <1>1
  <2>5. discarded' \in BOOLEAN
    BY <1>1 DEF IInv
  <2>6. UNCHANGED <<win, doc, job, edits, requests>> /\ app' = "quit"
    BY <1>1, <1>3
  <2> HIDE DEF none
  <2> QED BY <2>2, <2>3, <2>4, <2>5, <2>6, QuitIs
<1>4. CASE /\ \E w \in Needing, j \in Jobs : Ask(Now, j, w, NeedsSaving(w), {}, "quit")
           /\ app' = "terminating" /\ UNCHANGED kept
  <2> DEFINE none == {}
             then == "quit"
  <2>1. PICK w \in Needing, j \in Jobs : Ask(Now, j, w, NeedsSaving(w), none, then)
    BY <1>4
  <2>2. w \in Windows
    BY DEF Needing
  <2>3. NeedsSaving(w) \in Seq(Docs)
    BY <2>2, NeedsSavingIs
  <2> DEFINE docs == NeedsSaving(w)
  <2>4. docs \in Seq(Docs) /\ Ask(Now, j, w, docs, none, then)
    BY <2>1, <2>3
  <2>5. none \in SUBSET Nat /\ then \in {"tabs", "window", "quit"} /\ then = "quit"
    OBVIOUS
  <2>6. UNCHANGED <<kept, discarded, edits>> /\ app' \in {"running", "terminating"}
    BY <1>1, <1>4
  <2>7. requests' \in 0..MaxRequests
    BY <1>1 DEF IInv
  <2> HIDE DEF none, then, docs
  <2>8. \A i \in DOMAIN win[w].tabs :
          (then # "quit" /\ (then = "tabs" => i \in none) /\ doc[win[w].tabs[i]].edited)
             => Has(docs, win[w].tabs[i])
    BY <2>5
  <2> QED BY <1>1, <2>2, <2>4, <2>5, <2>6, <2>7, <2>8, AskIs
<1> QED BY <1>2, <1>3, <1>4

(* With several windows there is something to save. *)
LEMMA SeveralIs ==
  ASSUME IInv, Cardinality(Needing) > 1
  PROVE  LET docs == SetToSeq(UNION {ToSet(NeedsSaving(w)) : w \in Needing})
         IN  docs \in Seq(Docs) /\ docs # <<>> /\ \E w \in Needing : w \in Windows
<1> DEFINE all == UNION {ToSet(NeedsSaving(w)) : w \in Needing}
           docs == SetToSeq(all)
<1>3. PICK w \in Needing : w \in Windows
  <2>1. Needing \subseteq Windows
    BY DEF Needing
  <2>2. Needing # {}
    <3> SUFFICES ASSUME Needing = {} PROVE FALSE
      OBVIOUS
    <3> DEFINE c == Cardinality(Needing)
    <3>1. c = 0
      BY FS_EmptySet
    <3>2. c > 1
      OBVIOUS
    <3> HIDE DEF c
    <3> QED BY ONLY <3>1, <3>2
  <2> QED BY <2>1, <2>2
<1>4. all \subseteq Docs /\ all # {}
  <2>1. ASSUME NEW v \in Needing PROVE ToSet(NeedsSaving(v)) \subseteq Docs /\ ToSet(NeedsSaving(v)) # {}
    <3> DEFINE seq == NeedsSaving(v)
    <3>1. v \in Windows
      BY DEF Needing
    <3>2. seq \in Seq(Docs) /\ seq # <<>>
      BY <2>1, <3>1, NeedsSavingIs
    <3> HIDE DEF seq
    <3>3. Len(seq) \in Nat /\ Len(seq) # 0 /\ DOMAIN seq = 1..Len(seq)
      BY <3>2, EmptySeq, LenProperties
    <3>4. \A i \in 1..Len(seq) : seq[i] \in Docs
      BY <3>2, ElementOfSeq
    <3>5. 1 \in 1..Len(seq)
      BY <3>3
    <3>6. ToSet(seq) \subseteq Docs /\ seq[1] \in ToSet(seq)
      BY <3>3, <3>4, <3>5 DEF ToSet
    <3> QED BY <3>6 DEF seq
  <2> QED BY <2>1, <1>3
<1> HIDE DEF all
<1>5. docs \in Seq(all) /\ docs # <<>>
  <2>1. IsFiniteSet(all)
    BY <1>4, FS_Subset, DocumentWindowAssumption
  <2> QED BY <1>4, <2>1, SetToSeqIs
<1> HIDE DEF docs
<1>6. docs \in Seq(Docs)
  BY <1>4, <1>5, SeqMonotonic
<1> QED BY <1>3, <1>5, <1>6 DEF docs, all

(* The same with several windows, and the answer to the alert.               *)
LEMMA TerminateSeveralStep ==
  ASSUME IInv, app # "quit", NEW answer \in {"save", "don't save"}, TerminateSeveral(answer)
  PROVE  Result
<1> DEFINE docs == SetToSeq(UNION {ToSet(NeedsSaving(w)) : w \in Needing})
           saves == answer = "save"
<1>1. UNCHANGED <<kept, edits, requests>> /\ Cardinality(Needing) > 1
  BY DEF TerminateSeveral
<1>2. /\ saves => /\ \E j \in Jobs :
                       /\ job[j].stage = "free"
                       /\ job' = [job EXCEPT ![j] =
                            [stage |-> "saving", window |-> CHOOSE w \in Needing : TRUE,
                             rest |-> docs, tabs |-> {}, then |-> "quit"]]
                  /\ Become(OpenClose(Now, <<Head(docs)>>, <<>>))
                  /\ app' = "terminating" /\ UNCHANGED discarded
      /\ ~saves => app' = "quit" /\ discarded' = TRUE /\ UNCHANGED <<win, doc, job>>
      /\ Record({}, IF saves THEN {} ELSE ToSet(docs))
  BY DEF TerminateSeveral
<1>3. docs \in Seq(Docs) /\ docs # <<>> /\ \E w \in Needing : w \in Windows
  BY <1>1, SeveralIs
<1> HIDE DEF docs
<1>7. CASE saves
  <2> DEFINE then == "quit"
             v == CHOOSE u \in Needing : TRUE
  <2>1. v \in Windows
    <3>1. v \in Needing
      BY <1>3
    <3> QED BY <3>1 DEF Needing
  <2> HIDE DEF v
  <2>2. PICK j \in Jobs :
          /\ job[j].stage = "free"
          /\ job' = [job EXCEPT ![j] = [stage |-> "saving", window |-> v, rest |-> docs,
                                        tabs |-> {}, then |-> then]]
    BY <1>2, <1>7 DEF v
  <2>3. then \in {"nothing", "quit"}
    OBVIOUS
  <2>4. /\ Become(OpenClose(Now, <<Head(docs)>>, <<>>))
        /\ UNCHANGED <<kept, discarded, edits>> /\ app' \in {"running", "terminating"}
        /\ Record({}, {})
    BY <1>1, <1>2, <1>7
  <2>5. requests' \in 0..MaxRequests
    BY <1>1 DEF IInv
  <2> HIDE DEF then
  <2> QED BY <1>3, <2>1, <2>2, <2>3, <2>4, <2>5, StartIs
<1>8. CASE ~saves
  <2> DEFINE agrees == ToSet(docs)
  <2>1. UNCHANGED <<win, doc, job, edits, requests>> /\ app' = "quit" /\ discarded' = TRUE
    BY <1>1, <1>2, <1>8
  <2>2. Record({}, agrees)
    BY <1>2, <1>8
  <2>3. agrees \in SUBSET Docs
    <3>1. DOMAIN docs = 1..Len(docs) /\ \A i \in 1..Len(docs) : docs[i] \in Docs
      BY <1>3, LenProperties, ElementOfSeq
    <3> QED BY <3>1 DEF ToSet
  <2>4. kept' \subseteq Docs /\ discarded' \in BOOLEAN
    BY <1>1, <2>1 DEF IInv
  <2>5. \A d \in Docs : (InTab(win, d) /\ doc[d].edited) => d \in agreed' \cup kept' \/ discarded'
    BY <2>1
  <2> HIDE DEF agrees
  <2> QED BY <2>1, <2>2, <2>3, <2>4, <2>5, QuitIs
<1> QED BY <1>7, <1>8

-----------------------------------------------------------------------------
(* The invariant is inductive. *)

(* The steps of a window. *)
LEMMA WindowStep ==
  ASSUME IInv, app # "quit", NEW w \in Windows,
         \/ \E d \in Docs : ShowDocument(w, d)
         \/ \E i \in DOMAIN win[w].tabs : SelectTab(w, i) \/ TearOff(w, i)
         \/ \E indexes \in SUBSET DOMAIN win[w].tabs : PerformCloseTabs(w, indexes)
         \/ \E v \in Windows : \E i \in DOMAIN win[v].tabs, fileBrowser \in BOOLEAN :
              Drop(v, i, w, fileBrowser)
         \/ \E docs \in {<<win[w].shown>>, EditedIn(Now, win[w].tabs)} :
              win[w].shown # NoDoc /\ Save(w, docs)
         \/ NewDocumentInTab(w) \/ WindowShouldClose(w) \/ MergeAllWindows(w)
         \/ Type(w) \/ Dealloc(w)
  PROVE  Result
<1>1. ASSUME NEW d \in Docs, ShowDocument(w, d) PROVE Result
  BY <1>1, ShowDocumentStep
<1>2. ASSUME NEW i \in DOMAIN win[w].tabs, SelectTab(w, i) PROVE Result
  BY <1>2, SelectTabStep
<1>3. ASSUME NEW i \in DOMAIN win[w].tabs, TearOff(w, i) PROVE Result
  BY <1>3, TearOffStep
<1>4. ASSUME NEW indexes \in SUBSET DOMAIN win[w].tabs, PerformCloseTabs(w, indexes) PROVE Result
  <2>1. app = "running"
    BY <1>4 DEF PerformCloseTabs, Free, Running
  <2> QED BY <1>4, <2>1, PerformCloseTabsStep
<1>5. ASSUME NEW v \in Windows, NEW i \in DOMAIN win[v].tabs, NEW fileBrowser \in BOOLEAN,
             Drop(v, i, w, fileBrowser)
      PROVE  Result
  BY <1>5, DropStep
<1>6. ASSUME NEW docs \in {<<win[w].shown>>, EditedIn(Now, win[w].tabs)},
             win[w].shown # NoDoc, Save(w, docs)
      PROVE  Result
  BY <1>6, SaveStep
<1>7. CASE NewDocumentInTab(w)
  BY <1>7, NewDocumentInTabStep
<1>8. CASE WindowShouldClose(w)
  <2>1. app = "running"
    BY <1>8 DEF WindowShouldClose, Free, Running
  <2> QED BY <1>8, <2>1, WindowShouldCloseStep
<1>9. CASE MergeAllWindows(w)
  BY <1>9, MergeAllWindowsStep
<1>10. CASE Type(w)
  BY <1>10, TypeStep
<1>11. CASE Dealloc(w)
  BY <1>11, DeallocStep
<1> QED BY <1>1, <1>2, <1>3, <1>4, <1>5, <1>6, <1>7, <1>8, <1>9, <1>10, <1>11

(* Every step has the result that the invariant needs. *)
LEMMA NextResult ==
  ASSUME IInv, Next
  PROVE  Result
<1>1. app # "quit"
  BY DEF Next
<1>2. ASSUME NEW w \in Windows,
             \/ \E d \in Docs : ShowDocument(w, d)
             \/ \E i \in DOMAIN win[w].tabs : SelectTab(w, i) \/ TearOff(w, i)
             \/ \E indexes \in SUBSET DOMAIN win[w].tabs : PerformCloseTabs(w, indexes)
             \/ \E v \in Windows : \E i \in DOMAIN win[v].tabs, fileBrowser \in BOOLEAN :
                  Drop(v, i, w, fileBrowser)
             \/ \E docs \in {<<win[w].shown>>, EditedIn(Now, win[w].tabs)} :
                  win[w].shown # NoDoc /\ Save(w, docs)
             \/ NewDocumentInTab(w) \/ WindowShouldClose(w) \/ MergeAllWindows(w)
             \/ Type(w) \/ Dealloc(w)
      PROVE  Result
  BY <1>1, <1>2, WindowStep
<1>3. ASSUME NEW j \in Jobs, NEW answer \in {"save", "cancel", "don't save"}, Answer(j, answer)
      PROVE  Result
  BY <1>1, <1>3, AnswerStep
<1>4. ASSUME NEW j \in Jobs, NEW success \in BOOLEAN, SaveEnds(j, success) PROVE Result
  BY <1>1, <1>4, SaveEndsStep
<1>5. ASSUME NEW d \in Docs, LoadEnds(d) PROVE Result
  BY <1>1, <1>5, LoadEndsStep
<1>6. CASE Terminate
  BY <1>1, <1>6, TerminateStep
<1>7. ASSUME NEW answer \in {"save", "don't save"}, TerminateSeveral(answer) PROVE Result
  BY <1>1, <1>7, TerminateSeveralStep
<1> QED BY <1>2, <1>3, <1>4, <1>5, <1>6, <1>7, Zenon DEF Next

(* What QuitKeepsChanges says, of the state that is now. *)
QuitKept == Quits(Now, app, kept, agreed, discarded)

(* At the start no window is open and no document is held. *)
LEMMA InitHolds ==
  ASSUME Init
  PROVE  IInv /\ QuitKept
<1> DEFINE x == Saving(job)
<1>1. /\ win = [w \in Windows |-> Shut] /\ doc = [d \in Docs |-> Closed(d)]
      /\ job = [j \in Jobs |-> NoJob] /\ app = "running"
      /\ kept = {} /\ agreed = {} /\ stale = {} /\ discarded = FALSE /\ edits = 0 /\ requests = 0
  BY DEF Init
<1>2. /\ Shut.tabs = <<>> /\ Shut.shown = NoDoc /\ Shut.state = "none"
      /\ Shut \in [state : {"none", "open", "closed"}, tabs : Seq(Docs), index : Nat,
                   shown : Docs \cup {NoDoc}]
  <2> DEFINE none == <<>>
  <2>1. none \in Seq(Docs)
    BY EmptySeq
  <2>2. Shut = [state |-> "none", tabs |-> none, index |-> 0, shown |-> NoDoc]
    BY DEF Shut
  <2>3. none = <<>>
    OBVIOUS
  <2> HIDE DEF none
  <2> QED BY <2>1, <2>2, <2>3
<1>3. win \in WinType
  BY <1>1, <1>2 DEF WinType
<1>4. doc \in [Docs -> DocRecord]
  BY <1>1, ClosedIs
<1>5. Now \in States /\ Now.win = win /\ Now.doc = doc
  BY <1>3, <1>4, StateIs DEF Now
<1>6. JobsOK(job)
  BY <1>1, NoJobIs DEF JobsOK
<1>7. x \in [Docs -> Nat] /\ \A d \in Docs : x[d] = 0
  <2>1. ASSUME NEW d \in Docs PROVE x[d] = 0
    <3>1. {j \in Jobs : Saves(job[j], d)} = {}
      BY <1>1, NoJobIs
    <3>2. x[d] = Cardinality({j \in Jobs : Saves(job[j], d)})
      BY SavingIs
    <3> QED BY <3>1, <3>2, FS_EmptySet
  <2> QED BY <2>1, SavingIs
<1>8. ASSUME NEW d \in Docs PROVE Uses(win, d) = 0
  <2>1. TabPairs(win, d) = {}
    <3>1. \A w \in Windows : {i \in DOMAIN win[w].tabs : win[w].tabs[i] = d} = {}
      BY <1>1, <1>2
    <3> QED BY <3>1 DEF TabPairs
  <2>2. {w \in Windows : win[w].shown = d} = {}
    BY <1>1, <1>2, DocumentWindowAssumption
  <2>3. TabsOf(win, d) = 0 /\ Shows(win, d) = 0
    BY <2>1, <2>2, FS_EmptySet DEF TabsOf, Shows
  <2> QED BY <2>3 DEF Uses
<1>9. ASSUME NEW d \in Docs
      PROVE  /\ doc[d].count = 0 /\ ~doc[d].loaded /\ ~doc[d].edited /\ doc[d].waiting = <<>>
             /\ Waits(doc[d]) = 0
  BY <1>1, ClosedIs DEF Waits
<1> HIDE DEF x
<1>10. Hold(Now, x)
  <2>1. ASSUME NEW d \in Docs
        PROVE  /\ Now.doc[d].count >= Uses(Now.win, d) + Waits(Now.doc[d]) + x[d]
               /\ ~Now.doc[d].edited /\ ~Now.doc[d].loaded
               /\ ~\E w \in Windows : Now.win[w].shown = d
    <3>1. Uses(Now.win, d) = 0 /\ Waits(Now.doc[d]) = 0 /\ x[d] = 0 /\ Now.doc[d].count = 0
      BY <1>5, <1>7, <1>8, <1>9
    <3>2. ~\E w \in Windows : Now.win[w].shown = d
      BY <1>1, <1>2, <1>5, DocumentWindowAssumption
    <3> QED BY <1>5, <1>9, <3>1, <3>2
  <2>2. \A w \in Windows : Now.win[w].tabs = <<>>
    BY <1>1, <1>2, <1>5
  <2> QED BY <1>5, <2>1, <2>2 DEF Hold
<1>11. \A j \in Jobs : ~Closing(job[j])
  BY <1>1, NoJobIs
<1>12. Inv(Now, job, stale)
  BY <1>6, <1>10, <1>11 DEF Inv, x
<1>13. IInv
  <2>1. edits \in 0..MaxEdits /\ requests \in 0..MaxRequests
    BY <1>1, DocumentWindowAssumption
  <2> QED BY <1>1, <1>12, <2>1 DEF IInv
<1>14. QuitKept
  BY <1>1 DEF QuitKept, Quits
<1> QED BY <1>13, <1>14

(* The invariant is inductive. *)
LEMMA StepHolds ==
  ASSUME IInv, [Next]_vars
  PROVE  IInv' /\ (QuitKept => QuitKept')
<1>1. CASE Next
  <2> DEFINE T == [win |-> win', doc |-> doc']
  <2>1. PICK typed \in SUBSET Docs, agrees \in SUBSET Docs :
          /\ Record(typed, agrees)
          /\ Hold(T, Saving(job')) /\ JobsOK(job')
          /\ \A d \in Docs : doc'[d].edited => doc[d].edited \/ d \in typed
          /\ \A j \in Jobs : Follows(T, job[j], job'[j])
          /\ Quits(T, app', kept', agreed', discarded')
          /\ app' \in {"running", "terminating", "quit"} /\ kept' \subseteq Docs
          /\ discarded' \in BOOLEAN /\ edits' \in 0..MaxEdits /\ requests' \in 0..MaxRequests
    BY <1>1, NextResult DEF Result
  <2>2. Now' = T /\ T.win = win' /\ T.doc = doc'
    BY DEF Now
  <2>3. Now.win = win /\ Now.doc = doc /\ Inv(Now, job, stale)
    BY DEF Now, IInv
  <2> HIDE DEF T
  <2>4. stale' = StaleOf(Now, T, job', stale, typed)
    BY <2>1, <2>2, <2>3 DEF Record, StaleOf
  <2>5. \A d \in Docs : T.doc[d].edited => Now.doc[d].edited \/ d \in typed
    BY <2>1, <2>2, <2>3
  <2>6. Inv(T, job', stale')
    BY <2>1, <2>3, <2>4, <2>5, InvNext
  <2>7. agreed' \subseteq Docs /\ stale' \subseteq Windows
    BY <2>1 DEF Record, IInv
  <2>8. IInv'
    BY <2>1, <2>2, <2>6, <2>7 DEF IInv
  <2>9. QuitKept'
    BY <2>1, <2>2 DEF QuitKept
  <2> QED BY <2>8, <2>9
<1>2. CASE UNCHANGED vars
  <2>1. UNCHANGED <<win, doc, job, app, kept, agreed, stale, discarded, edits, requests>>
    BY <1>2 DEF vars
  <2>2. Now' = Now
    BY <2>1 DEF Now
  <2>3. IInv'
    BY <2>1, <2>2 DEF IInv
  <2>4. QuitKept => QuitKept'
    BY <2>1, <2>2 DEF QuitKept
  <2> QED BY <2>3, <2>4
<1> QED BY <1>1, <1>2

(* The invariant holds in every reachable state. *)
LEMMA Always == Spec => [](IInv /\ QuitKept)
<1>1. Init => IInv /\ QuitKept
  BY InitHolds
<1>2. IInv /\ QuitKept /\ [Next]_vars => IInv' /\ QuitKept'
  BY StepHolds
<1> QED BY <1>1, <1>2, PTL DEF Spec

-----------------------------------------------------------------------------
(* What follows from it. *)

(* InTabs has the documents of tabs. *)
LEMMA InTabsIs ==
  ASSUME NEW s \in States, NEW d \in Docs
  PROVE  /\ d \in InTabs(s) <=> InTab(s.win, d)
         /\ \A w \in Windows : Times(s.win[w].tabs, d) > 0 <=> Has(s.win[w].tabs, d)
<1>1. ASSUME NEW w \in Windows PROVE Times(s.win[w].tabs, d) > 0 <=> Has(s.win[w].tabs, d)
  <2> DEFINE tabs == s.win[w].tabs
  <2>1. tabs \in Seq(Docs)
    BY StateIs
  <2> HIDE DEF tabs
  <2>2. Times(tabs, d) > 0 <=> Has(tabs, d)
    BY <2>1, PlacesFinite DEF Has
  <2> QED BY <2>2 DEF tabs
<1> QED BY <1>1 DEF InTabs, InTab

(* The holds of a document, as Holds counts them. *)
LEMMA HoldsIs ==
  ASSUME NEW d \in Docs
  PROVE  Holds(d) = Uses(win, d) + Waits(doc[d]) + Saving(job)[d]
BY SavingIs DEF Holds, Uses, TabsOf, TabPairs, Shows, Waits, Saves

(* The types of the state hold in every reachable state, whatever loads,     *)
(* saves and sheets end in between, and in what order.                       *)
THEOREM TypeCorrect == Spec => []TypeOK
<1>1. IInv => TypeOK
  <2> SUFFICES ASSUME IInv PROVE TypeOK
    OBVIOUS
  <2>1. win \in WinType /\ doc \in [Docs -> DocRecord] /\ job \in [Jobs -> JobRecord]
    BY IInvGives DEF JobsOK
  <2> QED BY <2>1 DEF TypeOK, IInv, WinType, DocRecord, JobRecord
<1> QED BY <1>1, Always, PTL

(* What is in a tab, shown, waited for or being saved holds its document, so *)
(* that no handler closes a document somebody else still needs, and what is  *)
(* shown or edited is loaded (DocumentWindowController.mm:1115,              *)
(* OakDocument.mm:1028).                                                     *)
THEOREM UsersHold == Spec => []InUseIsHeld
<1>1. IInv => InUseIsHeld
  <2> SUFFICES ASSUME IInv, NEW d \in Docs
               PROVE  /\ doc[d].count >= Holds(d)
                      /\ (doc[d].edited \/ \E w \in Windows : win[w].shown = d) => doc[d].loaded
    BY DEF InUseIsHeld
  <2>1. Hold(Now, Saving(job)) /\ Now.win = win /\ Now.doc = doc
    BY IInvGives
  <2>2. /\ doc[d].count >= Uses(win, d) + Waits(doc[d]) + Saving(job)[d]
        /\ doc[d].edited => doc[d].loaded
        /\ (\E w \in Windows : win[w].shown = d) => doc[d].loaded
    BY <2>1 DEF Hold
  <2> QED BY <2>2, HoldsIs
<1> QED BY <1>1, Always, PTL

(* When the application quits, what is edited in a tab is in the session, or *)
(* the user agreed to lose it, or he chose "Don't Save" for several windows  *)
(* (DocumentWindowController.mm:549-598).                                    *)
THEOREM QuittingKeeps == Spec => []QuitKeepsChanges
<1>1. IInv /\ QuitKept => QuitKeepsChanges
  <2> SUFFICES ASSUME IInv, QuitKept PROVE QuitKeepsChanges
    OBVIOUS
  <2>1. Now \in States /\ Now.win = win /\ Now.doc = doc
    BY IInvGives
  <2> QED BY <2>1, InTabsIs DEF QuitKept, Quits, QuitKeepsChanges, InTabs
<1> QED BY <1>1, Always, PTL

(* No step takes away changes that the user did not agree to lose, but for a *)
(* window that changed while a close of it was waiting and a document whose  *)
(* tab was gone already (DocumentWindowController.mm:380-433,                *)
(* DocumentWindowController+CloseUI.mm:31-91).                               *)
THEOREM LossIsAgreed == Spec => LostIsAgreed
<1>1. IInv /\ [Next]_vars =>
        [\A d \in Docs : (doc[d].edited /\ ~doc'[d].loaded) =>
           \/ d \in agreed'
           \/ \E w \in stale : Times(win[w].tabs, d) > 0
           \/ d \notin InTabs(Now)]_vars
  <2> SUFFICES ASSUME IInv, Next, NEW d \in Docs, doc[d].edited, ~doc'[d].loaded
               PROVE  \/ d \in agreed'
                      \/ \E w \in stale : Times(win[w].tabs, d) > 0
                      \/ d \notin InTabs(Now)
    OBVIOUS
  <2> DEFINE T == [win |-> win', doc |-> doc']
  <2>1. Lost(Now, T, agreed', stale)
    BY NextResult DEF Result
  <2>2. Now \in States /\ Now.win = win /\ Now.doc = doc /\ T.doc = doc' /\ stale \subseteq Windows
    BY IInvGives DEF IInv
  <2> HIDE DEF T
  <2>3. d \in agreed' \/ (\E w \in stale : Has(win[w].tabs, d)) \/ ~InTab(win, d)
    BY <2>1, <2>2 DEF Lost
  <2> QED BY <2>2, <2>3, InTabsIs
<1> QED BY <1>1, Always, PTL DEF Spec, LostIsAgreed
=============================================================================
