----------------------------- MODULE TextProofs ------------------------------
(***************************************************************************)
(* What TLAPS proves of texts: of Excerpts for every patch, whatever its   *)
(* characters cost; of Handles for every threshold, base and number of     *)
(* places; of Links for every path and every alphabet.  What it takes of   *)
(* lists and of induction is here too, for the other parts of what a       *)
(* client is shown.                                                        *)
(***************************************************************************)
EXTENDS Excerpts, Handles, Links, FiniteSetTheorems, SequenceTheorems, WellFoundedInduction, TLAPS

------------------------------------------------------------------------------
(***************************************************************************)
(* Lists: what is in one, in one after another, in part of one.            *)
(***************************************************************************)
\* What the set of a sequence's elements is.
LEMMA ToSetOfSeq ==
  ASSUME NEW S, NEW s \in Seq(S)
  PROVE  /\ \A i : i \in ToSet(s) <=> \E p \in 1..Len(s) : s[p] = i
         /\ ToSet(s) \subseteq S
         /\ IsFiniteSet(ToSet(s))
  <1>1. ToSet(s) = {s[p] : p \in 1..Len(s)}
    BY DEF ToSet
  <1>2. IsFiniteSet(1..Len(s))
    BY FS_Interval
  <1>3. s \in Surjection(1..Len(s), ToSet(s))
    BY <1>1 DEF Surjection
  <1>4. IsFiniteSet(ToSet(s))
    BY <1>2, <1>3, FS_Surjection
  <1> QED
    BY <1>1, <1>4

\* Where the items of one sequence after another are.
LEMMA Placed ==
  ASSUME NEW S, NEW s \in Seq(S), NEW t \in Seq(S)
  PROVE  /\ s \o t \in Seq(S)
         /\ Len(s \o t) = Len(s) + Len(t)
         /\ \A p \in 1..Len(s) : (s \o t)[p] = s[p]
         /\ \A p \in 1..Len(t) : (s \o t)[Len(s) + p] = t[p]
         /\ \A p \in (Len(s) + 1)..(Len(s) + Len(t)) : (s \o t)[p] = t[p - Len(s)]
  <1>1. Len(s) \in Nat /\ Len(t) \in Nat
    BY LenProperties
  <1>2. \A p \in 1..Len(s) + Len(t) :
          (s \o t)[p] = IF p <= Len(s) THEN s[p] ELSE t[p - Len(s)]
    BY ConcatProperties
  <1>3. \A p \in 1..Len(s) : (s \o t)[p] = s[p]
    BY <1>1, <1>2
  <1>4. \A p \in (Len(s) + 1)..(Len(s) + Len(t)) : (s \o t)[p] = t[p - Len(s)]
    BY <1>1, <1>2
  <1>5. ASSUME NEW p \in 1..Len(t)
        PROVE  (s \o t)[Len(s) + p] = t[p]
    <2>1. Len(s) + p \in (Len(s) + 1)..(Len(s) + Len(t)) /\ Len(s) + p - Len(s) = p
      BY <1>1
    <2> QED
      BY <1>4, <2>1
  <1> QED
    BY <1>3, <1>4, <1>5, ConcatProperties

\* A page appended to what was seen adds its items to what was seen.
LEMMA ToSetOfConcat ==
  ASSUME NEW S, NEW s \in Seq(S), NEW t \in Seq(S)
  PROVE  ToSet(s \o t) = ToSet(s) \cup ToSet(t)
  <1>1. /\ s \o t \in Seq(S) /\ Len(s) \in Nat /\ Len(t) \in Nat
        /\ Len(s \o t) = Len(s) + Len(t)
    BY Placed, LenProperties
  <1>2. ASSUME NEW p \in 1..Len(s \o t)
        PROVE  (s \o t)[p] \in ToSet(s) \cup ToSet(t)
    <2>1. CASE p <= Len(s)
      BY <1>1, <2>1, Placed, ToSetOfSeq
    <2>2. CASE p > Len(s)
      <3>1. p \in (Len(s) + 1)..(Len(s) + Len(t)) /\ p - Len(s) \in 1..Len(t)
        BY <1>1, <2>2
      <3> QED
        BY <3>1, Placed, ToSetOfSeq
    <2> QED
      BY <1>1, <2>1, <2>2
  <1>3. ASSUME NEW p \in 1..Len(s)
        PROVE  s[p] \in ToSet(s \o t)
    <2>1. p \in 1..Len(s \o t) /\ (s \o t)[p] = s[p]
      BY <1>1, Placed
    <2> QED
      BY <1>1, <2>1, ToSetOfSeq
  <1>4. ASSUME NEW p \in 1..Len(t)
        PROVE  t[p] \in ToSet(s \o t)
    <2>1. Len(s) + p \in 1..Len(s \o t) /\ (s \o t)[Len(s) + p] = t[p]
      BY <1>1, Placed
    <2> QED
      BY <1>1, <2>1, ToSetOfSeq
  <1>5. ASSUME NEW i \in ToSet(s \o t)
        PROVE  i \in ToSet(s) \cup ToSet(t)
    <2>1. PICK p \in 1..Len(s \o t) : (s \o t)[p] = i
      BY <1>1, ToSetOfSeq
    <2> QED
      BY <1>2, <2>1
  <1>6. ToSet(s) \subseteq ToSet(s \o t)
    BY <1>3, ToSetOfSeq
  <1>7. ToSet(t) \subseteq ToSet(s \o t)
    BY <1>4, ToSetOfSeq
  <1> QED
    BY <1>5, <1>6, <1>7

\* What a part of a sequence is, and where its elements were.
LEMMA PartOf ==
  ASSUME NEW S, NEW s \in Seq(S), NEW m \in 1..(Len(s) + 1), NEW n \in (m - 1)..Len(s)
  PROVE  /\ SubSeq(s, m, n) \in Seq(S)
         /\ Len(SubSeq(s, m, n)) = n - m + 1
         /\ \A p \in 1..(n - m + 1) : SubSeq(s, m, n)[p] = s[m + p - 1]
         /\ \A p \in m..n : SubSeq(s, m, n)[p - m + 1] = s[p]
  <1>1. Len(s) \in Nat
    BY LenProperties
  <1>2. /\ SubSeq(s, m, n) \in Seq(S)
        /\ Len(SubSeq(s, m, n)) = n - m + 1
        /\ \A p \in 1..(n - m + 1) : SubSeq(s, m, n)[p] = s[m + p - 1]
    BY <1>1, SubSeqProperties
  <1>3. ASSUME NEW p \in m..n
        PROVE  SubSeq(s, m, n)[p - m + 1] = s[p]
    <2>1. p - m + 1 \in 1..(n - m + 1) /\ m + (p - m + 1) - 1 = p
      BY <1>1
    <2> QED
      BY <1>2, <2>1
  <1> QED
    BY <1>2, <1>3

\* What an insertion makes of a sequence, place by place.
LEMMA Inserted ==
  ASSUME NEW S, NEW s \in Seq(S), NEW e \in S, NEW at \in 1..(Len(s) + 1)
  PROVE  /\ InsertAt(s, at, e) \in Seq(S)
         /\ Len(InsertAt(s, at, e)) = Len(s) + 1
         /\ \A p \in 1..(Len(s) + 1) :
              InsertAt(s, at, e)[p] = IF p < at THEN s[p] ELSE IF p = at THEN e ELSE s[p - 1]
  <1> DEFINE before == SubSeq(s, 1, at - 1)
             after  == SubSeq(s, at, Len(s))
             upTo   == before \o <<e>>
  <1>1. Len(s) \in Nat
    BY LenProperties
  <1>2. /\ before \in Seq(S) /\ Len(before) = at - 1
        /\ \A p \in 1..(at - 1) : before[p] = s[p]
    BY <1>1, PartOf
  <1>3. /\ after \in Seq(S) /\ Len(after) = Len(s) - at + 1
        /\ \A p \in at..Len(s) : after[p - at + 1] = s[p]
    BY <1>1, PartOf
  <1>4. <<e>> \in Seq(S) /\ Len(<<e>>) = 1 /\ <<e>>[1] = e
    OBVIOUS
  <1> HIDE DEF before, after
  <1>5. /\ upTo \in Seq(S) /\ Len(upTo) = at
        /\ \A p \in 1..(at - 1) : upTo[p] = s[p]
        /\ upTo[at] = e
    <2>1. before \in Seq(S) /\ <<e>> \in Seq(S)
      BY <1>2, <1>4
    <2>2. /\ upTo \in Seq(S) /\ Len(upTo) = Len(before) + Len(<<e>>)
          /\ \A p \in 1..Len(before) : upTo[p] = before[p]
          /\ \A p \in 1..Len(<<e>>) : upTo[Len(before) + p] = <<e>>[p]
      BY <2>1, Placed
    <2> QED
      BY <1>1, <1>2, <1>4, <2>2, SMTT(30)
  <1> HIDE DEF upTo
  <1>6. /\ upTo \o after \in Seq(S) /\ Len(upTo \o after) = Len(s) + 1
        /\ \A p \in 1..at : (upTo \o after)[p] = upTo[p]
        /\ \A p \in (at + 1)..(Len(s) + 1) : (upTo \o after)[p] = after[p - at]
    <2>1. upTo \in Seq(S) /\ after \in Seq(S)
      BY <1>3, <1>5
    <2>2. /\ upTo \o after \in Seq(S) /\ Len(upTo \o after) = Len(upTo) + Len(after)
          /\ \A p \in 1..Len(upTo) : (upTo \o after)[p] = upTo[p]
          /\ \A p \in (Len(upTo) + 1)..(Len(upTo) + Len(after)) :
                (upTo \o after)[p] = after[p - Len(upTo)]
      BY <2>1, Placed
    <2>3. Len(upTo) = at /\ Len(upTo) + Len(after) = Len(s) + 1
      BY <1>1, <1>3, <1>5
    <2> QED
      BY <2>2, <2>3
  <1>7. ASSUME NEW p \in (at + 1)..(Len(s) + 1)
        PROVE  after[p - at] = s[p - 1]
    <2>1. p - 1 \in at..Len(s) /\ (p - 1) - at + 1 = p - at
      BY <1>1
    <2> QED
      BY <1>3, <2>1
  <1>8. InsertAt(s, at, e) = upTo \o after
    BY DEF InsertAt, upTo, before, after
  <1> QED
    BY <1>1, <1>5, <1>6, <1>7, <1>8

\* What a removal makes of a sequence, place by place.
LEMMA Removed ==
  ASSUME NEW S, NEW s \in Seq(S), NEW at \in 1..Len(s)
  PROVE  /\ RemoveAt(s, at) \in Seq(S)
         /\ Len(RemoveAt(s, at)) = Len(s) - 1
         /\ \A p \in 1..(Len(s) - 1) : RemoveAt(s, at)[p] = IF p < at THEN s[p] ELSE s[p + 1]
  <1> DEFINE before == SubSeq(s, 1, at - 1)
             after  == SubSeq(s, at + 1, Len(s))
  <1>1. Len(s) \in Nat
    BY LenProperties
  <1>2. /\ before \in Seq(S) /\ Len(before) = at - 1
        /\ \A p \in 1..(at - 1) : before[p] = s[p]
    BY <1>1, PartOf
  <1>3. /\ after \in Seq(S) /\ Len(after) = Len(s) - at
        /\ \A p \in (at + 1)..Len(s) : after[p - (at + 1) + 1] = s[p]
    BY <1>1, PartOf
  <1> HIDE DEF before, after
  <1>4. /\ before \o after \in Seq(S) /\ Len(before \o after) = Len(s) - 1
        /\ \A p \in 1..(at - 1) : (before \o after)[p] = before[p]
        /\ \A p \in at..(Len(s) - 1) : (before \o after)[p] = after[p - (at - 1)]
    <2>0. before \in Seq(S) /\ after \in Seq(S)
      BY <1>2, <1>3
    <2>1. \A p \in (Len(before) + 1)..(Len(before) + Len(after)) :
            (before \o after)[p] = after[p - Len(before)]
      BY <2>0, Placed
    <2>2. /\ before \o after \in Seq(S) /\ Len(before \o after) = Len(before) + Len(after)
          /\ \A p \in 1..Len(before) : (before \o after)[p] = before[p]
      BY <2>0, Placed
    <2>3. Len(before) + 1 = at /\ Len(before) + Len(after) = Len(s) - 1
      BY <1>1, <1>2, <1>3
    <2> QED
      BY <1>2, <2>1, <2>2, <2>3
  <1>5. ASSUME NEW p \in at..(Len(s) - 1)
        PROVE  after[p - (at - 1)] = s[p + 1]
    <2>1. p + 1 \in (at + 1)..Len(s) /\ (p + 1) - (at + 1) + 1 = p - (at - 1)
      BY <1>1
    <2> QED
      BY <1>3, <2>1
  <1>6. RemoveAt(s, at) = before \o after
    BY DEF RemoveAt, before, after
  <1> QED
    BY <1>1, <1>2, <1>4, <1>5, <1>6

------------------------------------------------------------------------------
(***************************************************************************)
(* Induction over numbers, by a smallest counterexample: a fold from the   *)
(* left there is, and so is a function whose values come from later ones.  *)
(***************************************************************************)
\* What holds of zero, and of a number's successor as soon as of it, holds of each.
LEMMA NatInduct ==
  ASSUME NEW Q, 0 \in Q, \A n \in Nat : n \in Q => n + 1 \in Q
  PROVE  Nat \subseteq Q
  <1> DEFINE Bad == Nat \ Q
             R == OpToRel(<, Nat)
  <1>1. SUFFICES ASSUME Bad # {}
                 PROVE  FALSE
    OBVIOUS
  <1>2. IsWellFoundedOn(R, Nat)
    BY NatLessThanWellFounded, Zenon DEF R
  <1>3. PICK n \in Bad : \A m \in Bad : <<m, n>> \notin R
    <2> HIDE DEF R, Bad
    <2>1. Bad \subseteq Nat
      BY DEF Bad
    <2> QED
      BY <1>1, <1>2, <2>1, WFMin
  <1>4. n - 1 \in Bad
    <2> HIDE DEF R
    <2> QED
      BY <1>3
  <1>5. <<n - 1, n>> \in R
    <2>1. n - 1 \in Nat /\ n \in Nat /\ n - 1 < n
      <3> HIDE DEF R
      <3> QED
        BY <1>4
    <2> QED
      BY <2>1 DEF OpToRel
  <1> QED
    BY <1>3, <1>4, <1>5

\* A fold there is, whatever order it takes the elements in: pick says which comes
\* last, and step[s][a] what that one makes of the others' a.
Folding(g, S, base, pick, step) ==
  \A s \in SUBSET S : g[s] = IF s = {} THEN base ELSE step[s][g[s \ {pick[s]}]]

\* Over a finite set a fold has a value at each subset.
LEMMA FoldExists ==
  ASSUME NEW S, IsFiniteSet(S), NEW A, NEW base \in A, NEW pick, NEW step,
         \A s \in SUBSET S : s # {} => pick[s] \in s,
         \A s \in SUBSET S, a \in A : s # {} => step[s][a] \in A
  PROVE  \E g \in [SUBSET S -> A] : Folding(g, S, base, pick, step)
  <1> DEFINE Step(g, s) == IF s = {} THEN base ELSE step[s][g[s \ {pick[s]}]]
             Upto(n, g) == \A s \in SUBSET S : Cardinality(s) <= n => g[s] = Step(g, s)
             Q == {n \in Nat : \E g \in [SUBSET S -> A] : Upto(n, g)}
  <1>a. \A s \in SUBSET S : IsFiniteSet(s) /\ Cardinality(s) \in Nat
    BY FS_Subset, FS_CardinalityType
  <1>b. /\ \A s \in SUBSET S : Cardinality(s) <= 0 => s = {}
        /\ \A s \in SUBSET S : \A x \in s :
             s \ {x} \in SUBSET S /\ Cardinality(s \ {x}) = Cardinality(s) - 1
    <2> HIDE DEF Upto, Q, Step
    <2>1. \A s \in SUBSET S : Cardinality(s) <= 0 => s = {}
      BY <1>a, FS_EmptySet
    <2>2. \A s \in SUBSET S : \A x \in s :
            s \ {x} \in SUBSET S /\ Cardinality(s \ {x}) = Cardinality(s) - 1
      BY <1>a, FS_RemoveElement
    <2> QED
      BY <2>1, <2>2
  <1>1. 0 \in Q
    <2> DEFINE g == [s \in SUBSET S |-> base]
    <2>1. \A s \in SUBSET S : Cardinality(s) <= 0 => s = {}
      BY <1>b
    <2>2. g \in [SUBSET S -> A] /\ Upto(0, g)
      BY <2>1
    <2> QED
      BY <2>2
  <1>2. ASSUME NEW n \in Nat, n \in Q
        PROVE  n + 1 \in Q
    <2>1. PICK g \in [SUBSET S -> A] : Upto(n, g)
      BY <1>2
    <2> DEFINE h == [s \in SUBSET S |-> Step(g, s)]
    <2>2. h \in [SUBSET S -> A]
      OBVIOUS
    <2>3. ASSUME NEW s \in SUBSET S, Cardinality(s) <= n + 1
          PROVE  h[s] = Step(h, s)
      <3>1. CASE s = {}
        BY <3>1
      <3>2. CASE s # {}
        <4> DEFINE r == s \ {pick[s]}
        <4>1. r \in SUBSET S /\ Cardinality(r) <= n
          <5>1. pick[s] \in s
            BY <3>2
          <5>2. r \in SUBSET S /\ Cardinality(r) = Cardinality(s) - 1
            BY <1>b, <5>1
          <5>3. Cardinality(s) \in Nat
            BY <1>a
          <5> HIDE DEF r
          <5> QED
            BY <2>3, <5>2, <5>3
        <4>2. h[r] = g[r]
          BY <2>1, <4>1
        <4> QED
          BY <3>2, <4>1, <4>2
      <3> QED
        BY <3>1, <3>2
    <2>4. Upto(n + 1, h)
      <3> HIDE DEF h
      <3> QED
        BY <2>3
    <2> HIDE DEF h, Upto
    <2>5. \E f \in [SUBSET S -> A] : Upto(n + 1, f)
      BY <2>2, <2>4, Zenon
    <2> QED
      BY <2>5
  <1>3. Cardinality(S) \in Q
    <2> HIDE DEF Q
    <2> QED
      BY <1>a, <1>1, <1>2, NatInduct
  <1>4. PICK g \in [SUBSET S -> A] : Upto(Cardinality(S), g)
    BY <1>3
  <1>5. \A s \in SUBSET S : g[s] = Step(g, s)
    BY <1>4, FS_Subset
  <1> QED
    BY <1>5 DEF Folding

\* The last of some first numbers, and what is left without it.
LEMMA MaxOfUpto ==
  ASSUME NEW n \in Nat, NEW s \in SUBSET (1..n), s # {}
  PROVE  Max(s) \in s /\ \A x \in s : x <= Max(s)
  <1> DEFINE Q == {k \in Nat : (\A x \in s : x <= k) => \E m \in s : \A x \in s : x <= m}
  <1>1. 0 \in Q
    <2>1. PICK x \in s : TRUE
      OBVIOUS
    <2>2. x > 0
      BY <2>1
    <2> QED
      BY <2>2
  <1>2. ASSUME NEW k \in Nat, k \in Q
        PROVE  k + 1 \in Q
    <2>1. CASE k + 1 \in s
      BY <2>1
    <2>2. CASE k + 1 \notin s
      <3>1. (\A x \in s : x <= k + 1) => \A x \in s : x <= k
        BY <2>2
      <3> QED
        BY <1>2, <3>1
    <2> QED
      BY <2>1, <2>2
  <1>3. n \in Q
    <2> HIDE DEF Q
    <2> QED
      BY <1>1, <1>2, NatInduct
  <1>4. PICK m \in s : \A x \in s : x <= m
    BY <1>3
  <1>5. \A x \in s : m >= x
    BY <1>4
  <1>6. Max(s) \in s /\ \A x \in s : Max(s) >= x
    BY <1>5, Zenon DEF Max
  <1> QED
    BY <1>6

Closed(n, A, step) == \A i \in 1..n, a \in A : step[i][a] \in A

FoldingUpto(g, n, base, step) ==
  \A s \in SUBSET (1..n) : g[s] = IF s = {} THEN base ELSE step[Max(s)][g[s \ {Max(s)}]]

\* A fold from the left, number by number: what a step makes of what was reached.
LEMMA FoldUpto ==
  ASSUME NEW n \in Nat, NEW A, NEW base \in A, NEW step,
         Closed(n, A, step)
  PROVE  \E g \in [SUBSET (1..n) -> A] : FoldingUpto(g, n, base, step)
  <1> DEFINE S == 1..n
             pick == [s \in (SUBSET S) \ {{}} |-> Max(s)]
             steps == [s \in (SUBSET S) \ {{}} |-> [a \in A |-> step[Max(s)][a]]]
  <1>1. IsFiniteSet(S)
    BY FS_Interval
  <1>2. \A s \in SUBSET S : s # {} => pick[s] \in s
    BY MaxOfUpto
  <1>3. \A s \in SUBSET S, a \in A : s # {} => steps[s][a] \in A
    BY MaxOfUpto DEF Closed
  <1>4. PICK g \in [SUBSET S -> A] : Folding(g, S, base, pick, steps)
    <2> HIDE DEF S, pick, steps
    <2> QED
      BY <1>1, <1>2, <1>3, FoldExists
  <1>5. ASSUME NEW s \in SUBSET S, s # {}
        PROVE  g[s] = step[Max(s)][g[s \ {Max(s)}]]
    <2>1. g[s \ {Max(s)}] \in A
      OBVIOUS
    <2> QED
      BY <1>4, <1>5, <2>1 DEF Folding
  <1>6. g[{}] = base
    BY <1>4 DEF Folding
  <1> QED
    BY <1>5, <1>6 DEF FoldingUpto

\* Such a fold over the first k numbers is a step from the one over k - 1 of them.
LEMMA FirstNumbers ==
  ASSUME NEW n \in Nat
  PROVE  /\ 1..0 = {}
         /\ \A k \in 1..n : 1..k \in SUBSET (1..n) /\ 1..k # {} /\ Max(1..k) = k
                            /\ (1..k) \ {Max(1..k)} = 1..(k - 1)
  <1>1. ASSUME NEW k \in 1..n
        PROVE  1..k \in SUBSET (1..n) /\ 1..k # {} /\ Max(1..k) = k
    <2>1. 1..k \in SUBSET (1..n) /\ 1..k # {} /\ k \in 1..k
      OBVIOUS
    <2>2. Max(1..k) \in 1..k /\ k <= Max(1..k)
      BY <2>1, MaxOfUpto
    <2> QED
      BY <2>1, <2>2
  <1> QED
    BY <1>1

\* Whatever fold of that kind it is, it reaches what the steps do one after another.
Reaches(e, n, base, step) ==
  e[0] = base /\ \A k \in 1..n : e[k] = step[k][e[k - 1]]

Steps(h, n, A, base, step) ==
  /\ h[{}] = base
  /\ \A s \in SUBSET (1..n) :
       s # {} /\ h[s \ {Max(s)}] \in A => h[s] = step[Max(s)][h[s \ {Max(s)}]]

Arrived(h, n, A, base, step) ==
  \E e \in [0..n -> A] : Reaches(e, n, base, step) /\ e[n] = h[1..n]

\* A fold over a sequence, unrolled from the first element, is what the folds say.
LEMMA FoldReaches ==
  ASSUME NEW n \in Nat, NEW A, NEW base \in A, NEW step,
         Closed(n, A, step),
         NEW h, Steps(h, n, A, base, step)
  PROVE  Arrived(h, n, A, base, step)
  <1> DEFINE e == [k \in 0..n |-> h[1..k]]
             Q == {k \in Nat : k <= n => h[1..k] \in A}
  <1>1. ASSUME NEW k \in 1..n, h[1..(k - 1)] \in A
        PROVE  h[1..k] = step[k][h[1..(k - 1)]]
    <2>1. /\ 1..k \in SUBSET (1..n) /\ 1..k # {} /\ Max(1..k) = k
          /\ (1..k) \ {Max(1..k)} = 1..(k - 1)
      BY FirstNumbers
    <2> DEFINE s == 1..k
    <2>2. h[s] = step[Max(s)][h[s \ {Max(s)}]]
      <3>1. s \in SUBSET (1..n) /\ s # {} /\ h[s \ {Max(s)}] \in A
        BY <1>1, <2>1
      <3> HIDE DEF s, e, Q
      <3> QED
        BY <3>1 DEF Steps
    <2> QED
      BY <2>1, <2>2
  <1>2. 1..0 = {} /\ h[1..0] = base
    <2>1. 1..0 = {}
      OBVIOUS
    <2> QED
      BY <2>1 DEF Steps
  <1>3. 0 \in Q
    BY <1>2
  <1>4. ASSUME NEW k \in Nat, k \in Q
        PROVE  k + 1 \in Q
    <2>1. SUFFICES ASSUME k + 1 <= n
                   PROVE  h[1..(k + 1)] \in A
      OBVIOUS
    <2>2. h[1..k] \in A /\ k + 1 \in 1..n /\ (k + 1) - 1 = k
      BY <1>4, <2>1
    <2>3. h[1..(k + 1)] = step[k + 1][h[1..k]]
      BY <1>1, <2>2
    <2>4. step[k + 1][h[1..k]] \in A
      BY <2>2 DEF Closed
    <2> QED
      BY <2>3, <2>4
  <1>5. \A k \in 0..n : h[1..k] \in A
    <2>1. Nat \subseteq Q
      <3> HIDE DEF Q
      <3> QED
        BY <1>3, <1>4, NatInduct
    <2> QED
      BY <2>1
  <1>6. e \in [0..n -> A]
    BY <1>5
  <1>7. e[0] = base /\ e[n] = h[1..n]
    BY <1>2
  <1>8. ASSUME NEW k \in 1..n
        PROVE  e[k] = step[k][e[k - 1]]
    <2>1. e[k] = h[1..k] /\ e[k - 1] = h[1..(k - 1)] /\ h[1..(k - 1)] \in A
      BY <1>5
    <2> QED
      BY <1>1, <2>1
  <1> HIDE DEF e
  <1>9. Reaches(e, n, base, step)
    BY <1>7, <1>8 DEF Reaches
  <1> QED
    BY <1>6, <1>7, <1>9 DEF Arrived

\* A function whose values come from those after it: there is one.
FromLater(of, n, A) ==
  /\ \A i \in 1..n, g \in [1..n -> A] : of[i][g] \in A
  /\ \A i \in 1..n, g \in [1..n -> A], h \in [1..n -> A] :
       (\A j \in (i + 1)..n : g[j] = h[j]) => of[i][g] = of[i][h]

Follows(g, n, of) == \A i \in 1..n : g[i] = of[i][g]

\* Where each value comes from later ones, a function has them all.
LEMMA BackwardsExists ==
  ASSUME NEW n \in Nat, NEW A, NEW of,
         FromLater(of, n, A),
         NEW some \in A
  PROVE  \E g \in [1..n -> A] : Follows(g, n, of)
  <1> DEFINE From(k, g) == \A i \in 1..n : i > n - k => g[i] = of[i][g]
             Q == {k \in Nat : k <= n => \E g \in [1..n -> A] : From(k, g)}
  <1>1. 0 \in Q
    <2>1. From(0, [i \in 1..n |-> some])
      OBVIOUS
    <2> QED
      BY <2>1
  <1>2. ASSUME NEW k \in Nat, k \in Q
        PROVE  k + 1 \in Q
    <2>1. SUFFICES ASSUME k + 1 <= n
                   PROVE  \E g \in [1..n -> A] : From(k + 1, g)
      OBVIOUS
    <2>2. PICK g \in [1..n -> A] : From(k, g)
      BY <1>2, <2>1
    <2> DEFINE at == n - k
               h == [g EXCEPT ![at] = of[at][g]]
    <2>3. at \in 1..n /\ h \in [1..n -> A]
      BY <2>1 DEF FromLater
    <2>4. \A j \in 1..n : j # at => h[j] = g[j]
      OBVIOUS
    <2>5. h[at] = of[at][g]
      BY <2>3
    <2>6. ASSUME NEW i \in 1..n, i > n - (k + 1)
          PROVE  h[i] = of[i][h]
      <3>1. i >= at
        BY <2>6
      <3>2. \A j \in (i + 1)..n : g[j] = h[j]
        BY <2>3, <2>4, <3>1
      <3>3. of[i][g] = of[i][h]
        <4> HIDE DEF h
        <4> QED
          BY <2>3, <3>2 DEF FromLater
      <3>4. CASE i = at
        BY <2>5, <3>3, <3>4
      <3>5. CASE i > at
        <4>1. g[i] = of[i][g]
          BY <2>2, <3>5
        <4> QED
          BY <2>4, <3>3, <3>5, <4>1
      <3> QED
        BY <3>1, <3>4, <3>5
    <2>7. From(k + 1, h)
      <3> HIDE DEF h
      <3> QED
        BY <2>6
    <2> HIDE DEF h, From
    <2> QED
      BY <2>3, <2>7
  <1>3. n \in Q
    <2> HIDE DEF Q
    <2> QED
      BY <1>1, <1>2, NatInduct
  <1> QED
    BY <1>3 DEF Follows

------------------------------------------------------------------------------
(***************************************************************************)
(* Links: what a client encodes is read as what it was.                    *)
(***************************************************************************)
\* What a client makes of one character.
Segment(c, kept) == IF c \in kept THEN <<c>> ELSE <<"%">> \o PercentCode[c]

Encoding(g, path, kept) ==
  g = [s \in SUBSET DOMAIN path |->
         IF s = {} THEN <<>> ELSE g[s \ {Max(s)}] \o Segment(path[Max(s)], kept)]

\* A client's encoding as the value of the fold it is.
LEMMA EncodedIs ==
  ASSUME NEW path, NEW kept
  PROVE  Encoded(path, kept) = (CHOOSE g : Encoding(g, path, kept))[DOMAIN path]
  BY DEF Encoded, FoldLeft, MapThenFoldSet, Encoding, Segment

\* A character that is kept is itself, any other a % and two digits that only it has.
LEMMA SegmentIs ==
  ASSUME NEW kept \in Keeps, NEW c \in PathChars
  PROVE  /\ Segment(c, kept) \in Seq(PathChars)
         /\ c \in kept => c # "%" /\ Len(Segment(c, kept)) = 1 /\ Segment(c, kept)[1] = c
         /\ c \notin kept =>
              /\ c \in PathChars \ {"file"}
              /\ Len(Segment(c, kept)) = 3
              /\ Segment(c, kept)[1] = "%"
              /\ PercentCode[c] = <<Segment(c, kept)[2], Segment(c, kept)[3]>>
  <1>1. CASE c \in kept
    <2>1. c # "%"
      BY <1>1 DEF Keeps
    <2>2. Segment(c, kept) = <<c>>
      BY <1>1 DEF Segment
    <2> QED
      BY <1>1, <2>1, <2>2
  <1>2. CASE c \notin kept
    <2>1. c \in PathChars \ {"file"}
      BY <1>2, PathCharsAssumption DEF Keeps
    <2>2. PICK x \in Hex, y \in Hex : PercentCode[c] = <<x, y>>
      BY <2>1, PathCharsAssumption
    <2>3. Segment(c, kept) = <<"%">> \o <<x, y>>
      BY <1>2, <2>2 DEF Segment
    <2>4. x \in PathChars /\ y \in PathChars /\ "%" \in PathChars
      BY PathCharsAssumption
    <2>5. PICK s : s = <<"%">>
      OBVIOUS
    <2>6. PICK t : t = <<x, y>>
      OBVIOUS
    <2>7. /\ s \in Seq(PathChars) /\ Len(s) = 1 /\ s[1] = "%"
          /\ t \in Seq(PathChars) /\ Len(t) = 2 /\ t[1] = x /\ t[2] = y
      BY <2>4, <2>5, <2>6
    <2>8. Segment(c, kept) = s \o t
      BY <2>3, <2>5, <2>6
    <2>9. /\ s \o t \in Seq(PathChars) /\ Len(s \o t) = Len(s) + Len(t)
          /\ \A p \in 1..Len(s) : (s \o t)[p] = s[p]
          /\ \A p \in 1..Len(t) : (s \o t)[Len(s) + p] = t[p]
      <3>1. s \in Seq(PathChars) /\ t \in Seq(PathChars)
        BY <2>7
      <3> QED
        BY <3>1, Placed
    <2>10. /\ Len(s \o t) = 3
           /\ (s \o t)[1] = "%" /\ (s \o t)[2] = x /\ (s \o t)[3] = y
      BY <2>7, <2>9
    <2> QED
      BY <1>2, <2>1, <2>2, <2>8, <2>9, <2>10
  <1> QED
    BY <1>1, <1>2

\* What is encoded of the first characters of a path, character by character.
EncodedUpto(e, path, kept) ==
  /\ e \in [0..Len(path) -> Seq(PathChars)]
  /\ e[0] = <<>>
  /\ \A k \in 1..Len(path) : e[k] = e[k - 1] \o Segment(path[k], kept)
  /\ Encoded(path, kept) = e[Len(path)]

\* A client's encoding, character by character, exists for every path.
LEMMA EncodedUptoExists ==
  ASSUME NEW path \in Seq(PathChars), NEW kept \in Keeps
  PROVE  \E e : EncodedUpto(e, path, kept)
  <1> DEFINE n == Len(path)
             A == Seq(PathChars)
             step == [i \in 1..n |-> [a \in A |-> a \o Segment(path[i], kept)]]
  <1>1. n \in Nat /\ DOMAIN path = 1..n /\ path \in [1..n -> PathChars]
    BY LenProperties
  <1>2. \A i \in 1..n, a \in A : a \o Segment(path[i], kept) \in A
    BY <1>1, SegmentIs, ConcatProperties
  <1>3. Closed(n, A, step)
    BY <1>2 DEF Closed
  <1>4. <<>> \in A
    OBVIOUS
  <1>5. PICK g \in [SUBSET (1..n) -> A] : FoldingUpto(g, n, <<>>, step)
    <2> HIDE DEF step, A, n
    <2> QED
      BY <1>1, <1>3, <1>4, FoldUpto
  <1>6. Encoding(g, path, kept)
    <2>1. ASSUME NEW s \in SUBSET (1..n)
          PROVE  g[s] = IF s = {} THEN <<>> ELSE g[s \ {Max(s)}] \o Segment(path[Max(s)], kept)
      <3>1. CASE s = {}
        BY <1>5, <3>1 DEF FoldingUpto
      <3>2. CASE s # {}
        <4>1. Max(s) \in 1..n
          BY <1>1, <3>2, MaxOfUpto
        <4>2. g[s \ {Max(s)}] \in A
          OBVIOUS
        <4>3. g[s] = step[Max(s)][g[s \ {Max(s)}]]
          BY <1>5, <3>2 DEF FoldingUpto
        <4> QED
          BY <3>2, <4>1, <4>2, <4>3
      <3> QED
        BY <3>1, <3>2
    <2> QED
      BY <1>1, <2>1 DEF Encoding
  <1> DEFINE h == CHOOSE f : Encoding(f, path, kept)
  <1>7. Encoding(h, path, kept)
    BY <1>6
  <1>8. Encoded(path, kept) = h[1..n]
    BY <1>1, EncodedIs
  <1> HIDE DEF h
  <1>9. h[{}] = <<>>
    BY <1>1, <1>7 DEF Encoding
  <1>10. ASSUME NEW s \in SUBSET (1..n), s # {}, h[s \ {Max(s)}] \in A
         PROVE  h[s] = step[Max(s)][h[s \ {Max(s)}]]
    <2>1. h[s] = h[s \ {Max(s)}] \o Segment(path[Max(s)], kept)
      BY <1>1, <1>7, <1>10 DEF Encoding
    <2>2. Max(s) \in 1..n
      BY <1>1, <1>10, MaxOfUpto
    <2> QED
      BY <1>10, <2>1, <2>2
  <1>a. Steps(h, n, A, <<>>, step)
    <2> HIDE DEF step, A, n
    <2> QED
      BY <1>9, <1>10 DEF Steps
  <1>11. PICK e \in [0..n -> A] : Reaches(e, n, <<>>, step) /\ e[n] = h[1..n]
    <2> HIDE DEF step, A, n
    <2>1. Arrived(h, n, A, <<>>, step)
      BY <1>1, <1>3, <1>4, <1>a, FoldReaches
    <2> QED
      BY <2>1 DEF Arrived
  <1>12. ASSUME NEW k \in 1..n
         PROVE  e[k] = e[k - 1] \o Segment(path[k], kept)
    <2>1. e[k] = step[k][e[k - 1]] /\ e[k - 1] \in A
      <3> HIDE DEF step, A, n
      <3> QED
        BY <1>1, <1>11 DEF Reaches
    <2> QED
      BY <2>1
  <1>13. e[0] = <<>> /\ e[n] = Encoded(path, kept)
    BY <1>8, <1>11 DEF Reaches
  <1> QED
    BY <1>11, <1>12, <1>13 DEF EncodedUpto

\* A character before each of some texts.
Behind(c, texts) == {<<c>> \o rest : rest \in texts}

\* What is read from the i-th character on, f being what is read from each later one.
Reading(f, text, i) ==
  IF i > Len(text) THEN {<<>>}
  ELSE IF text[i] # "%" THEN Behind(text[i], f[i + 1])
  ELSE UNION {Behind(c, f[i + 3]) : c \in Spelled(text, i)}

Decoding(f, text) == f = [i \in 1..(Len(text) + 1) |-> Reading(f, text, i)]

\* decoded as the first value of the function it is.
LEMMA DecodedIs ==
  ASSUME NEW text
  PROVE  Decoded(text) = (CHOOSE f : Decoding(f, text))[1]
  BY DEF Decoded, Decoding, Reading, Behind

\* A character put before texts makes texts.
LEMMA BehindTyped ==
  ASSUME NEW c \in PathChars, NEW texts \in SUBSET Seq(PathChars)
  PROVE  Behind(c, texts) \in SUBSET Seq(PathChars)
  <1>1. <<c>> \in Seq(PathChars)
    OBVIOUS
  <1>2. \A rest \in texts : <<c>> \o rest \in Seq(PathChars)
    BY <1>1, ConcatProperties
  <1> QED
    BY <1>2 DEF Behind

\* What decoded reads at a place are texts.
LEMMA ReadingTyped ==
  ASSUME NEW text \in Seq(PathChars), NEW i \in 1..(Len(text) + 1),
         NEW f \in [1..(Len(text) + 1) -> SUBSET Seq(PathChars)]
  PROVE  Reading(f, text, i) \in SUBSET Seq(PathChars)
  <1>1. Len(text) \in Nat /\ \A j \in 1..Len(text) : text[j] \in PathChars
    BY LenProperties
  <1>2. CASE i > Len(text)
    <2>1. Reading(f, text, i) = {<<>>}
      BY <1>2 DEF Reading
    <2>2. <<>> \in Seq(PathChars)
      OBVIOUS
    <2> QED
      BY <2>1, <2>2
  <1>3. CASE i <= Len(text) /\ text[i] # "%"
    <2>1. Reading(f, text, i) = Behind(text[i], f[i + 1])
      BY <1>1, <1>3 DEF Reading
    <2>2. f[i + 1] \in SUBSET Seq(PathChars) /\ text[i] \in PathChars
      BY <1>1, <1>3
    <2> QED
      BY <2>1, <2>2, BehindTyped
  <1>4. CASE i <= Len(text) /\ text[i] = "%"
    <2>1. Reading(f, text, i) = UNION {Behind(c, f[i + 3]) : c \in Spelled(text, i)}
      BY <1>1, <1>4 DEF Reading
    <2>2. ASSUME NEW c \in Spelled(text, i)
          PROVE  Behind(c, f[i + 3]) \in SUBSET Seq(PathChars)
      <3>1. c \in PathChars
        BY PathCharsAssumption DEF Spelled
      <3>2. i + 3 \in 1..(Len(text) + 1)
        BY <1>1 DEF Spelled
      <3>3. f[i + 3] \in SUBSET Seq(PathChars)
        BY <3>2
      <3> QED
        BY <3>1, <3>3, BehindTyped
    <2> QED
      BY <2>1, <2>2
  <1> QED
    BY <1>1, <1>2, <1>3, <1>4

\* What decoded reads at a place depends on the later places only.
LEMMA ReadingAgrees ==
  ASSUME NEW text \in Seq(PathChars), NEW i \in 1..(Len(text) + 1), NEW f, NEW g,
         \A j \in (i + 1)..(Len(text) + 1) : f[j] = g[j]
  PROVE  Reading(f, text, i) = Reading(g, text, i)
  <1>1. Len(text) \in Nat
    BY LenProperties
  <1>2. CASE i > Len(text)
    BY <1>2 DEF Reading
  <1>3. CASE i <= Len(text) /\ text[i] # "%"
    <2>1. f[i + 1] = g[i + 1]
      BY <1>1, <1>3
    <2> QED
      BY <1>1, <1>3, <2>1 DEF Reading
  <1>4. CASE i <= Len(text) /\ text[i] = "%"
    <2>1. ASSUME NEW c \in Spelled(text, i)
          PROVE  f[i + 3] = g[i + 3]
      <3>1. i + 3 \in (i + 1)..(Len(text) + 1)
        BY <1>1 DEF Spelled
      <3> QED
        BY <3>1
    <2>2. \A c \in Spelled(text, i) :
            Behind(c, f[i + 3]) = Behind(c, g[i + 3])
      BY <2>1
    <2>3. UNION {Behind(c, f[i + 3]) : c \in Spelled(text, i)}
            = UNION {Behind(c, g[i + 3]) : c \in Spelled(text, i)}
      BY <2>2, Zenon
    <2> QED
      BY <1>1, <1>4, <2>3 DEF Reading
  <1> QED
    BY <1>1, <1>2, <1>3, <1>4

\* decoded has a value at each place of every text.
LEMMA DecodingExists ==
  ASSUME NEW text \in Seq(PathChars)
  PROVE  /\ Decoding(CHOOSE f : Decoding(f, text), text)
  <1> DEFINE n == Len(text) + 1
             A == SUBSET Seq(PathChars)
             of == [i \in 1..n |-> [f \in [1..n -> A] |-> Reading(f, text, i)]]
  <1>1. n \in Nat
    BY LenProperties
  <1>2. \A i \in 1..n, f \in [1..n -> A] : of[i][f] \in A
    BY ReadingTyped
  <1>3. ASSUME NEW i \in 1..n, NEW f \in [1..n -> A], NEW g \in [1..n -> A],
               \A j \in (i + 1)..n : f[j] = g[j]
        PROVE  of[i][f] = of[i][g]
    <2>1. Reading(f, text, i) = Reading(g, text, i)
      BY <1>3, ReadingAgrees
    <2> QED
      BY <2>1
  <1>4. FromLater(of, n, A)
    <2> HIDE DEF of, n, A
    <2> QED
      BY <1>2, <1>3 DEF FromLater
  <1>5. {} \in A
    OBVIOUS
  <1>6. PICK f \in [1..n -> A] : Follows(f, n, of)
    <2> HIDE DEF of, n, A
    <2> QED
      BY <1>1, <1>4, <1>5, BackwardsExists
  <1>7. \A i \in 1..n : f[i] = Reading(f, text, i)
    BY <1>6 DEF Follows
  <1>8. Decoding(f, text)
    BY <1>7 DEF Decoding
  <1> QED
    BY <1>8

\* What was encoded of the first characters stays where it is as the others follow.
LEMMA EncodedStays ==
  ASSUME NEW path \in Seq(PathChars), NEW kept \in Keeps, NEW e, EncodedUpto(e, path, kept)
  PROVE  \A k \in 0..Len(path) :
           /\ Len(e[k]) <= Len(Encoded(path, kept))
           /\ \A p \in 1..Len(e[k]) : Encoded(path, kept)[p] = e[k][p]
  <1> DEFINE n == Len(path)
             Stays(m) == \A k \in 0..m : /\ Len(e[k]) <= Len(e[m])
                                         /\ \A p \in 1..Len(e[k]) : e[m][p] = e[k][p]
             Q == {m \in Nat : m <= n => Stays(m)}
  <1>1. n \in Nat /\ \A k \in 1..n : path[k] \in PathChars
    BY LenProperties
  <1>2. \A k \in 0..n : e[k] \in Seq(PathChars) /\ Len(e[k]) \in Nat
    BY LenProperties DEF EncodedUpto
  <1>3. 0 \in Q
    BY <1>1, <1>2
  <1>4. ASSUME NEW m \in Nat, m \in Q
        PROVE  m + 1 \in Q
    <2>1. SUFFICES ASSUME m + 1 <= n
                   PROVE  Stays(m + 1)
      OBVIOUS
    <2>2. Stays(m)
      BY <1>4, <2>1
    <2>3. PICK next \in Seq(PathChars) : e[m + 1] = e[m] \o next
      <3>1. m + 1 \in 1..n /\ (m + 1) - 1 = m
        BY <1>1, <2>1
      <3>2. Segment(path[m + 1], kept) \in Seq(PathChars)
        BY <1>1, <3>1, SegmentIs
      <3> QED
        BY <3>1, <3>2 DEF EncodedUpto
    <2>4. e[m] \in Seq(PathChars) /\ Len(e[m]) \in Nat
      BY <1>1, <1>2, <2>1
    <2>5. /\ Len(e[m + 1]) = Len(e[m]) + Len(next) /\ Len(next) \in Nat
          /\ \A p \in 1..Len(e[m]) : e[m + 1][p] = e[m][p]
      BY <2>3, <2>4, Placed, LenProperties
    <2>6. ASSUME NEW k \in 0..(m + 1)
          PROVE  Len(e[k]) <= Len(e[m + 1]) /\ \A p \in 1..Len(e[k]) : e[m + 1][p] = e[k][p]
      <3>1. CASE k = m + 1
        BY <1>1, <1>2, <2>1, <3>1
      <3>2. CASE k \in 0..m
        <4>1. Len(e[k]) \in Nat /\ Len(e[k]) <= Len(e[m])
              /\ \A p \in 1..Len(e[k]) : e[m][p] = e[k][p]
          <5>1. k \in 0..n
            BY <1>1, <2>1, <3>2
          <5> QED
            BY <1>2, <2>2, <3>2, <5>1
        <4>2. Len(e[k]) <= Len(e[m + 1])
          BY <2>4, <2>5, <4>1
        <4>3. ASSUME NEW p \in 1..Len(e[k])
              PROVE  e[m + 1][p] = e[k][p]
          <5>1. p \in 1..Len(e[m]) /\ e[m][p] = e[k][p]
            BY <2>4, <4>1
          <5> QED
            BY <2>5, <5>1
        <4> QED
          BY <4>2, <4>3
      <3> QED
        BY <3>1, <3>2
    <2> QED
      BY <2>6
  <1>5. n \in Q
    <2> HIDE DEF Q, n
    <2> QED
      BY <1>1, <1>3, <1>4, NatInduct
  <1>6. Encoded(path, kept) = e[n]
    BY DEF EncodedUpto
  <1> QED
    BY <1>1, <1>5, <1>6

\* A segment is in a text at a place, and the next one after it.
Stands(text, at, s, next) ==
  /\ text \in Seq(PathChars) /\ at \in Nat \ {0} /\ Len(s) \in Nat
  /\ next = at + Len(s)
  /\ at + Len(s) - 1 <= Len(text)
  /\ \A p \in 1..Len(s) : text[at + p - 1] = s[p]

\* Where a character of the path begins there is its segment, and then the next one's.
LEMMA SegmentStands ==
  ASSUME NEW path \in Seq(PathChars), NEW kept \in Keeps, NEW e, EncodedUpto(e, path, kept),
         NEW k \in 1..Len(path)
  PROVE  Stands(Encoded(path, kept), Len(e[k - 1]) + 1, Segment(path[k], kept), Len(e[k]) + 1)
  <1> DEFINE text == Encoded(path, kept)
             at   == Len(e[k - 1]) + 1
             s    == Segment(path[k], kept)
  <1>1. Len(path) \in Nat /\ path[k] \in PathChars
    BY LenProperties
  <1>2. e[k - 1] \in Seq(PathChars) /\ e[k] \in Seq(PathChars)
    BY <1>1, SMTT(30) DEF EncodedUpto
  <1>3. s \in Seq(PathChars)
    BY <1>1, SegmentIs
  <1>4. e[k] = e[k - 1] \o s
    BY DEF EncodedUpto
  <1>5. text \in Seq(PathChars)
    BY <1>1 DEF EncodedUpto
  <1> HIDE DEF s, text
  <1>6. /\ Len(e[k]) = Len(e[k - 1]) + Len(s)
        /\ \A p \in 1..Len(s) : e[k][Len(e[k - 1]) + p] = s[p]
    BY <1>2, <1>3, <1>4, Placed
  <1>7. Len(e[k - 1]) \in Nat /\ Len(s) \in Nat /\ Len(text) \in Nat
    BY <1>2, <1>3, <1>5, LenProperties
  <1>8. Len(e[k]) <= Len(text) /\ \A p \in 1..Len(e[k]) : text[p] = e[k][p]
    BY <1>1, EncodedStays DEF text
  <1>9. ASSUME NEW p \in 1..Len(s)
        PROVE  text[at + p - 1] = s[p]
    <2>1. Len(e[k - 1]) + p \in 1..Len(e[k]) /\ at + p - 1 = Len(e[k - 1]) + p
      BY <1>6, <1>7
    <2> QED
      BY <1>6, <1>8, <2>1
  <1> QED
    <2>1. at \in Nat \ {0} /\ Len(e[k]) + 1 = at + Len(s) /\ at + Len(s) - 1 <= Len(text)
      BY <1>6, <1>7, <1>8
    <2> HIDE DEF at
    <2>2. Stands(text, at, s, Len(e[k]) + 1)
      BY <1>5, <1>7, <1>9, <2>1 DEF Stands
    <2> QED
      BY <2>2 DEF s, text, at

\* A segment is read as its character, and what follows it as it would be read itself.
LEMMA SegmentIsRead ==
  ASSUME NEW text, NEW kept \in Keeps, NEW c \in PathChars, NEW f, NEW at, NEW next,
         Stands(text, at, Segment(c, kept), next)
  PROVE  Reading(f, text, at) = Behind(c, f[next])
  <1> DEFINE s == Segment(c, kept)
  <1>1. /\ text \in Seq(PathChars) /\ Len(text) \in Nat
        /\ at \in Nat \ {0}
        /\ at + Len(s) - 1 <= Len(text)
    BY LenProperties DEF Stands
  <1>a. next = at + Len(s) /\ \A p \in 1..Len(s) : text[at + p - 1] = s[p]
    BY DEF Stands
  <1>2. CASE c \in kept
    <2>1. c # "%" /\ Len(s) = 1 /\ s[1] = c
      BY <1>2, SegmentIs
    <2>2. text[at] = c
      <3>a. Len(s) = 1
        BY <2>1
      <3>1. text[at + 1 - 1] = s[1]
        <4>1. PICK p : p = 1
          OBVIOUS
        <4>2. p \in 1..Len(s)
          BY <3>a, <4>1
        <4> HIDE DEF s
        <4>3. text[at + p - 1] = s[p]
          BY <1>a, <4>2
        <4> QED
          BY <4>1, <4>3
      <3> QED
        BY <1>1, <2>1, <3>1
    <2>3. at <= Len(text) /\ next = at + 1
      BY <1>1, <1>a, <2>1
    <2> HIDE DEF s
    <2>4. Reading(f, text, at) = Behind(text[at], f[at + 1])
      BY <1>1, <2>1, <2>2, <2>3 DEF Reading
    <2> QED
      BY <2>2, <2>3, <2>4 DEF s
  <1>3. CASE c \notin kept
    <2>1. /\ c \in PathChars \ {"file"} /\ Len(s) = 3 /\ s[1] = "%"
          /\ PercentCode[c] = <<s[2], s[3]>>
      BY <1>3, SegmentIs
    <2>2. text[at] = s[1] /\ text[at + 1] = s[2] /\ text[at + 2] = s[3]
      <3>1. \A p \in 1..Len(s), q \in Nat : q = at + p - 1 => text[q] = s[p]
        BY <1>a
      <3>2. {1, 2, 3} \subseteq 1..Len(s)
        BY <2>1
      <3>3. /\ {at, at + 1, at + 2} \subseteq Nat
            /\ at = at + 1 - 1 /\ at + 1 = at + 2 - 1 /\ at + 2 = at + 3 - 1
        BY <1>1
      <3> HIDE DEF s
      <3> QED
        BY <3>1, <3>2, <3>3
    <2>3. at + 2 <= Len(text) /\ next = at + 3
      BY <1>1, <1>a, <2>1
    <2> HIDE DEF s
    <2>4. DOMAIN PercentCode = PathChars \ {"file"}
      BY PathCharsAssumption
    <2>5. c \in Spelled(text, at)
      BY <2>1, <2>2, <2>3, <2>4 DEF Spelled
    <2>6. ASSUME NEW d \in Spelled(text, at)
          PROVE  d = c
      <3>1. d \in PathChars \ {"file"} /\ PercentCode[d] = <<text[at + 1], text[at + 2]>>
        BY <2>4 DEF Spelled
      <3>2. PercentCode[d] = PercentCode[c]
        BY <2>1, <2>2, <3>1
      <3> QED
        BY <2>1, <3>1, <3>2, PathCharsAssumption
    <2>7. Spelled(text, at) = {c}
      BY <2>5, <2>6
    <2>8. text[at] = "%" /\ ~(at > Len(text))
      BY <1>1, <2>1, <2>2, <2>3
    <2>9. Reading(f, text, at) = UNION {Behind(d, f[at + 3]) : d \in Spelled(text, at)}
      BY <2>8, Zenon DEF Reading
    <2>10. Reading(f, text, at) = UNION {Behind(d, f[at + 3]) : d \in {c}}
      BY <2>7, <2>9, Zenon
    <2>11. UNION {Behind(d, f[at + 3]) : d \in {c}} = Behind(c, f[at + 3])
      OBVIOUS
    <2> QED
      BY <2>3, <2>10, <2>11 DEF s
  <1> QED
    BY <1>2, <1>3

\* What a client encoded is read as what it was, and as nothing else.
LEMMA DecodedEncoded ==
  ASSUME NEW path \in Seq(PathChars), NEW kept \in Keeps
  PROVE  Decoded(Encoded(path, kept)) = {path}
  <1>1. PICK e : EncodedUpto(e, path, kept)
    BY EncodedUptoExists
  <1> DEFINE n == Len(path)
             text == Encoded(path, kept)
             f == CHOOSE g : Decoding(g, text)
             Q == {k \in Nat : k <= n => f[Len(e[n - k]) + 1] = {SubSeq(path, n - k + 1, n)}}
  <1>2. n \in Nat /\ \A k \in 1..n : path[k] \in PathChars
    BY LenProperties
  <1>3. text = e[n] /\ text \in Seq(PathChars) /\ Len(text) \in Nat /\ e[0] = <<>>
    BY <1>1, <1>2, LenProperties DEF EncodedUpto
  <1> HIDE DEF f
  <1>4. \A i \in 1..(Len(text) + 1) : f[i] = Reading(f, text, i)
    <2>1. Decoding(f, text)
      BY <1>3, DecodingExists DEF f
    <2> QED
      BY <2>1 DEF Decoding
  <1> HIDE DEF text
  <1>5. 0 \in Q
    <2>1. f[Len(text) + 1] = {<<>>}
      <3>1. Len(text) + 1 \in 1..(Len(text) + 1) /\ Len(text) + 1 > Len(text)
        BY <1>3
      <3>2. Reading(f, text, Len(text) + 1) = {<<>>}
        BY <3>1, Zenon DEF Reading
      <3> QED
        BY <1>4, <3>1, <3>2
    <2>2. SubSeq(path, n - 0 + 1, n) = <<>>
      BY <1>2, SubSeqEmpty
    <2>3. n - 0 = n
      BY <1>2
    <2>4. f[Len(e[n - 0]) + 1] = {SubSeq(path, n - 0 + 1, n)}
      <3> HIDE DEF n
      <3> QED
        BY <1>3, <2>1, <2>2, <2>3
    <2> QED
      BY <2>4
  <1>6. ASSUME NEW j \in Nat, j \in Q
        PROVE  j + 1 \in Q
    <2>1. SUFFICES ASSUME j + 1 <= n
                   PROVE  f[Len(e[n - (j + 1)]) + 1] = {SubSeq(path, n - (j + 1) + 1, n)}
      OBVIOUS
    <2> DEFINE k == n - j
               at == Len(e[k - 1]) + 1
               s == Segment(path[k], kept)
    <2>2. k \in 1..n /\ n - (j + 1) = k - 1 /\ n - (j + 1) + 1 = k
      BY <1>2, <2>1
    <2>3. f[Len(e[k]) + 1] = {SubSeq(path, k + 1, n)}
      BY <1>6, <2>1
    <2> HIDE DEF k
    <2>5. path[k] \in PathChars
      BY <1>2, <2>2
    <2> HIDE DEF at, s, n
    <2>4. Stands(text, at, s, Len(e[k]) + 1)
      <3>1. k \in 1..Len(path)
        BY <2>2 DEF n
      <3>2. Stands(Encoded(path, kept), Len(e[k - 1]) + 1, Segment(path[k], kept), Len(e[k]) + 1)
        BY <1>1, <3>1, SegmentStands
      <3> QED
        BY <3>2 DEF text, at, s
    <2>6. Reading(f, text, at) = Behind(path[k], f[Len(e[k]) + 1])
      BY <2>4, <2>5, SegmentIsRead DEF s
    <2>7. Len(s) > 0
      <3>1. Len(Segment(path[k], kept)) = 1 \/ Len(Segment(path[k], kept)) = 3
        BY <2>5, SegmentIs, Zenon
      <3> QED
        BY <3>1 DEF s
    <2>8. at \in 1..(Len(text) + 1)
      BY <1>3, <2>4, <2>7 DEF Stands
    <2>9. f[at] = Behind(path[k], {SubSeq(path, k + 1, n)})
      BY <1>4, <2>3, <2>4, <2>6, <2>8
    <2>10. Behind(path[k], {SubSeq(path, k + 1, n)}) = {<<path[k]>> \o SubSeq(path, k + 1, n)}
      BY DEF Behind
    <2>11. SubSeq(path, k, n) = <<path[k]>> \o SubSeq(path, k + 1, n)
      BY <1>2, <2>2, SubSeqRecursiveFirst DEF n
    <2> QED
      BY <2>2, <2>9, <2>10, <2>11 DEF at
  <1>7. n \in Q
    <2> HIDE DEF Q, n
    <2> QED
      BY <1>2, <1>5, <1>6, NatInduct
  <1>8. f[Len(e[0]) + 1] = {SubSeq(path, 1, n)}
    <2>1. n - n = 0 /\ n - n + 1 = 1
      BY <1>2
    <2> QED
      BY <1>7, <2>1
  <1>9. f[1] = {path}
    BY <1>3, <1>8, SubSeqFull
  <1>10. Decoded(text) = f[1]
    BY DecodedIs DEF f
  <1> QED
    BY <1>9, <1>10 DEF text

\* One sequence after another, as a sequence of its own.
IsJoined(u, s, t) ==
  /\ u = s \o t
  /\ Len(u) = Len(s) + Len(t)
  /\ \A p \in 1..Len(s) : u[p] = s[p]
  /\ \A p \in 1..Len(t) : u[Len(s) + p] = t[p]

\* Two texts joined are a text.
LEMMA JoinedExists ==
  ASSUME NEW S, NEW s \in Seq(S), NEW t \in Seq(S)
  PROVE  \E u \in Seq(S) : IsJoined(u, s, t)
  <1>1. s \o t \in Seq(S) /\ IsJoined(s \o t, s, t)
    BY Placed DEF IsJoined
  <1> QED
    BY <1>1, Zenon

\* The address of a diff is PREFIX's two parts and a handle.
LEMMA SpeltInThree ==
  ASSUME NEW d, NEW s, NEW h
  PROVE  <<d, s>> \o <<h>> = <<d, s, h>>
  <1> DEFINE C == {d, s, h}
  <1>1. PICK ds : ds = <<d, s>>
    OBVIOUS
  <1>2. PICK hh : hh = <<h>>
    OBVIOUS
  <1>3. PICK t : t = <<d, s, h>>
    OBVIOUS
  <1>4. ds \in Seq(C) /\ hh \in Seq(C) /\ t \in Seq(C)
    BY <1>1, <1>2, <1>3
  <1>5. /\ Len(ds) = 2 /\ ds[1] = d /\ ds[2] = s
        /\ Len(hh) = 1 /\ hh[1] = h
        /\ Len(t) = 3 /\ t[1] = d /\ t[2] = s /\ t[3] = h
    BY <1>1, <1>2, <1>3
  <1> HIDE DEF C
  <1>6. PICK u \in Seq(C) : IsJoined(u, ds, hh)
    BY <1>4, JoinedExists
  <1>7. Len(u) = 3 /\ u[1] = d /\ u[2] = s /\ u[3] = h
    <2>1. /\ Len(u) = 2 + 1
          /\ \A p \in 1..2 : u[p] = ds[p]
          /\ \A p \in 1..1 : u[2 + p] = hh[p]
      BY <1>5, <1>6 DEF IsJoined
    <2>2. u[1] = ds[1] /\ u[2] = ds[2] /\ u[2 + 1] = hh[1]
      BY <2>1
    <2> QED
      BY <1>5, <2>1, <2>2
  <1>8. \A p \in 1..Len(u) : u[p] = t[p]
    BY <1>5, <1>7
  <1>9. u = t
    BY <1>4, <1>5, <1>7, <1>8, SeqEqual
  <1>10. u = ds \o hh
    BY <1>6 DEF IsJoined
  <1> QED
    BY <1>1, <1>2, <1>3, <1>9, <1>10, Zenon

\* A comparison's address, a separator and a path.
IsSpelt(u, d, s, h, w, text) ==
  /\ ((<<d, s>> \o <<h>>) \o <<s, w, s>>) \o text = u
  /\ Len(u) = 6 + Len(text)
  /\ u[1] = d /\ u[2] = s /\ u[3] = h /\ u[4] = s /\ u[5] = w /\ u[6] = s
  /\ \A p \in 1..Len(text) : u[6 + p] = text[p]

\* What an address is made of, character by character.
LEMMA Spelt ==
  ASSUME NEW C, NEW d \in C, NEW s \in C, NEW h \in C, NEW w \in C, NEW text \in Seq(C)
  PROVE  \E u \in Seq(C) : IsSpelt(u, d, s, h, w, text)
  <1>1. PICK ds : ds = <<d, s>>
    OBVIOUS
  <1>2. PICK hh : hh = <<h>>
    OBVIOUS
  <1>3. PICK sws : sws = <<s, w, s>>
    OBVIOUS
  <1>4. ds \in Seq(C) /\ hh \in Seq(C) /\ sws \in Seq(C)
    BY <1>1, <1>2, <1>3
  <1>5. /\ Len(ds) = 2 /\ ds[1] = d /\ ds[2] = s
        /\ Len(hh) = 1 /\ hh[1] = h
        /\ Len(sws) = 3 /\ sws[1] = s /\ sws[2] = w /\ sws[3] = s
    BY <1>1, <1>2, <1>3
  <1>6. PICK u3 \in Seq(C) : IsJoined(u3, ds, hh)
    BY <1>4, JoinedExists
  <1>7. Len(u3) = 3 /\ u3[1] = d /\ u3[2] = s /\ u3[3] = h
    <2>1. /\ Len(u3) = 2 + 1
          /\ \A p \in 1..2 : u3[p] = ds[p]
          /\ \A p \in 1..1 : u3[2 + p] = hh[p]
      BY <1>5, <1>6 DEF IsJoined
    <2>2. u3[1] = ds[1] /\ u3[2] = ds[2] /\ u3[2 + 1] = hh[1]
      BY <2>1
    <2> QED
      BY <1>5, <2>1, <2>2
  <1>8. PICK u6 \in Seq(C) : IsJoined(u6, u3, sws)
    BY <1>4, JoinedExists
  <1>9. /\ Len(u6) = 6
        /\ u6[1] = d /\ u6[2] = s /\ u6[3] = h /\ u6[4] = s /\ u6[5] = w /\ u6[6] = s
    <2>1. /\ Len(u6) = 3 + 3
          /\ \A p \in 1..3 : u6[p] = u3[p]
          /\ \A p \in 1..3 : u6[3 + p] = sws[p]
      BY <1>5, <1>7, <1>8 DEF IsJoined
    <2>2. /\ u6[1] = u3[1] /\ u6[2] = u3[2] /\ u6[3] = u3[3]
          /\ u6[3 + 1] = sws[1] /\ u6[3 + 2] = sws[2] /\ u6[3 + 3] = sws[3]
      BY <2>1
    <2> QED
      BY <1>5, <1>7, <2>1, <2>2
  <1>10. PICK u \in Seq(C) : IsJoined(u, u6, text)
    BY JoinedExists
  <1>11. /\ Len(u) = 6 + Len(text)
         /\ u[1] = d /\ u[2] = s /\ u[3] = h /\ u[4] = s /\ u[5] = w /\ u[6] = s
         /\ \A p \in 1..Len(text) : u[6 + p] = text[p]
    <2>1. /\ Len(u) = 6 + Len(text)
          /\ \A p \in 1..6 : u[p] = u6[p]
          /\ \A p \in 1..Len(text) : u[6 + p] = text[p]
      BY <1>9, <1>10 DEF IsJoined
    <2>2. /\ u[1] = u6[1] /\ u[2] = u6[2] /\ u[3] = u6[3]
          /\ u[4] = u6[4] /\ u[5] = u6[5] /\ u[6] = u6[6]
      BY <2>1
    <2> QED
      BY <1>9, <2>1, <2>2
  <1>13. ((<<d, s>> \o <<h>>) \o <<s, w, s>>) \o text = u
    BY <1>1, <1>2, <1>3, <1>6, <1>8, <1>10, Zenon DEF IsJoined
  <1> QED
    BY <1>11, <1>13, Zenon DEF IsSpelt

\* What follows the prefix.
IsRest(rest, s, h, w, text) ==
  /\ Len(rest) = 4 + Len(text)
  /\ rest[1] = h /\ rest[2] = s /\ rest[3] = w /\ rest[4] = s
  /\ \A p \in 1..Len(text) : rest[4 + p] = text[p]

IsCut(rest, part, h, text) ==
  /\ PlacesOf(part, rest) # {}
  /\ Cut(PlacesOf(part, rest)) = 2
  /\ SubSeq(rest, 1, 1) = <<h>>
  /\ After(rest, 2, part) = text

\* The rest of an address after its prefix, cut at the first separator.
LEMMA CutAtTheFirst ==
  ASSUME NEW C, NEW s \in C, NEW h \in C, NEW w \in C, NEW text \in Seq(C), h # s,
         NEW rest \in Seq(C), IsRest(rest, s, h, w, text),
         NEW part, part = <<s, w, s>>
  PROVE  IsCut(rest, part, h, text)
  <1>a. /\ Len(rest) = 4 + Len(text)
        /\ rest[1] = h /\ rest[2] = s /\ rest[3] = w /\ rest[4] = s
        /\ \A p \in 1..Len(text) : rest[4 + p] = text[p]
    BY DEF IsRest
  <1>1. Len(text) \in Nat /\ Len(rest) \in Nat /\ Len(part) = 3
    BY <1>a, LenProperties
  <1> DEFINE places == PlacesOf(part, rest)
  <1>2. places = {i \in 1..(Len(rest) - 3 + 1) : SubSeq(rest, i, i + 3 - 1) = part}
    BY <1>a, <1>1 DEF PlacesOf
  <1>3. 2 \in places
    <2>1. /\ Len(SubSeq(rest, 2, 4)) = 3 /\ SubSeq(rest, 2, 4) \in Seq(C)
          /\ \A p \in 1..3 : SubSeq(rest, 2, 4)[p] = rest[2 + p - 1]
      <3>1. /\ SubSeq(rest, 2, 4) \in Seq(C)
            /\ Len(SubSeq(rest, 2, 4)) = 4 - 2 + 1
            /\ \A p \in 1..(4 - 2 + 1) : SubSeq(rest, 2, 4)[p] = rest[2 + p - 1]
        BY <1>a, <1>1, PartOf
      <3> QED
        BY <3>1
    <2>2. part \in Seq(C) /\ part[1] = s /\ part[2] = w /\ part[3] = s
      OBVIOUS
    <2>3. /\ SubSeq(rest, 2, 4)[1] = rest[2] /\ SubSeq(rest, 2, 4)[2] = rest[3]
          /\ SubSeq(rest, 2, 4)[3] = rest[4]
      BY <2>1
    <2>4. \A p \in 1..3 : SubSeq(rest, 2, 4)[p] = part[p]
      BY <1>a, <2>2, <2>3
    <2>5. SubSeq(rest, 2, 4) = part
      BY <1>a, <1>1, <2>1, <2>2, <2>4, SeqEqual
    <2> HIDE DEF places
    <2>6. 2 + 3 - 1 = 4 /\ 2 \in 1..(Len(rest) - 3 + 1)
      BY <1>a, <1>1
    <2> QED
      BY <1>2, <2>5, <2>6
  <1>4. 1 \notin places
    <2>1. /\ SubSeq(rest, 1, 3) \in Seq(C)
          /\ \A p \in 1..(3 - 1 + 1) : SubSeq(rest, 1, 3)[p] = rest[1 + p - 1]
      BY <1>a, <1>1, PartOf
    <2>2. SubSeq(rest, 1, 3)[1] = h
      BY <1>a, <2>1
    <2>3. part[1] = s
      OBVIOUS
    <2>4. SubSeq(rest, 1, 3) # part
      BY <2>2, <2>3
    <2>5. 1 + 3 - 1 = 3
      OBVIOUS
    <2> HIDE DEF places
    <2> QED
      BY <1>2, <2>4, <2>5
  <1>5. places \in SUBSET (1..(Len(rest) - 3 + 1))
    BY <1>2
  <1>6. Cut(places) = 2
    <2> HIDE DEF places
    <2>1. \A x \in places : 2 <= x
      BY <1>a, <1>1, <1>4, <1>5
    <2>2. Min(places) \in places /\ \A x \in places : Min(places) <= x
      BY <1>3, <2>1, Zenon DEF Min
    <2>3. PICK m \in places : m = Min(places) /\ \A x \in places : m <= x
      BY <2>2
    <2>4. m <= 2 /\ 2 <= m
      BY <1>3, <2>1, <2>3
    <2>5. m = 2
      BY <1>a, <1>1, <1>5, <2>4
    <2> QED
      BY <2>3, <2>5 DEF Cut
  <1>7. SubSeq(rest, 1, 1) = <<h>>
    <2>1. /\ SubSeq(rest, 1, 1) \in Seq(C)
          /\ Len(SubSeq(rest, 1, 1)) = 1 - 1 + 1
          /\ \A p \in 1..(1 - 1 + 1) : SubSeq(rest, 1, 1)[p] = rest[1 + p - 1]
      BY <1>a, <1>1, PartOf
    <2>2. /\ <<h>> \in Seq(C) /\ Len(<<h>>) = 1 /\ <<h>>[1] = h
      OBVIOUS
    <2>3. Len(SubSeq(rest, 1, 1)) = 1 /\ SubSeq(rest, 1, 1)[1] = h
      BY <1>a, <2>1
    <2>4. \A p \in 1..Len(SubSeq(rest, 1, 1)) : SubSeq(rest, 1, 1)[p] = <<h>>[p]
      BY <2>2, <2>3
    <2> QED
      BY <2>1, <2>2, <2>3, <2>4, SeqEqual
  <1>8. After(rest, 2, part) = text
    <2>1. After(rest, 2, part) = SubSeq(rest, 5, Len(rest))
      <3>1. 2 + 3 = 5
        OBVIOUS
      <3> QED
        BY <1>a, <1>1, <3>1 DEF After
    <2>2. /\ SubSeq(rest, 5, Len(rest)) \in Seq(C)
          /\ Len(SubSeq(rest, 5, Len(rest))) = Len(rest) - 5 + 1
          /\ \A p \in 1..(Len(rest) - 5 + 1) : SubSeq(rest, 5, Len(rest))[p] = rest[5 + p - 1]
      BY <1>a, <1>1, PartOf
    <2>3. ASSUME NEW p \in 1..Len(text)
          PROVE  SubSeq(rest, 5, Len(rest))[p] = text[p]
      <3>1. p \in 1..(Len(rest) - 5 + 1) /\ 5 + p - 1 = 4 + p
        BY <1>a, <1>1
      <3> QED
        BY <1>a, <2>2, <3>1
    <2>4. Len(SubSeq(rest, 5, Len(rest))) = Len(text)
      BY <1>a, <1>1, <2>2
    <2> QED
      BY <2>1, <2>2, <2>3, <2>4, SeqEqual
  <1> QED
    BY <1>3, <1>6, <1>7, <1>8 DEF IsCut

\* What begins an address, and the rest of it.
IsRestOf(rest, u, part) ==
  /\ rest = After(u, 1, part)
  /\ Len(rest) = Len(u) - 2
  /\ \A p \in 1..(Len(u) - 2) : rest[p] = u[2 + p]

\* An address that starts as PREFIX does has it as its first part.
LEMMA PrefixAndRest ==
  ASSUME NEW C, NEW d \in C, NEW s \in C, NEW u \in Seq(C), Len(u) >= 3,
         u[1] = d, u[2] = s, NEW part, part = <<d, s>>
  PROVE  /\ IsPrefix(part, u)
         /\ \E rest \in Seq(C) : IsRestOf(rest, u, part)
  <1>1. part \in Seq(C) /\ Len(part) = 2 /\ part[1] = d /\ part[2] = s
    OBVIOUS
  <1>2. Len(u) \in Nat
    BY LenProperties
  <1>3. PICK two \in Seq(C) : /\ two = SubSeq(u, 1, 2) /\ Len(two) = 2
                              /\ \A p \in 1..2 : two[p] = u[p]
    <2>1. /\ SubSeq(u, 1, 2) \in Seq(C)
          /\ Len(SubSeq(u, 1, 2)) = 2 - 1 + 1
          /\ \A p \in 1..(2 - 1 + 1) : SubSeq(u, 1, 2)[p] = u[1 + p - 1]
      BY <1>2, PartOf
    <2>2. /\ Len(SubSeq(u, 1, 2)) = 2
          /\ \A p \in 1..2 : SubSeq(u, 1, 2)[p] = u[p]
      BY <2>1
    <2> QED
      BY <2>1, <2>2
  <1>4. two = part
    <2>1. \A p \in 1..Len(two) : two[p] = part[p]
      BY <1>1, <1>3
    <2> QED
      BY <1>1, <1>3, <2>1, SeqEqual
  <1>5. SubSeq(part, 1, Len(part)) = part
    BY <1>1, SubSeqFull
  <1>6. IsPrefix(part, u)
    BY <1>1, <1>2, <1>3, <1>4, <1>5 DEF IsPrefix
  <1>7. PICK rest \in Seq(C) : /\ rest = SubSeq(u, 3, Len(u)) /\ Len(rest) = Len(u) - 2
                               /\ \A p \in 1..(Len(u) - 2) : rest[p] = u[2 + p]
    <2>1. /\ SubSeq(u, 3, Len(u)) \in Seq(C)
          /\ Len(SubSeq(u, 3, Len(u))) = Len(u) - 3 + 1
          /\ \A p \in 1..(Len(u) - 3 + 1) : SubSeq(u, 3, Len(u))[p] = u[3 + p - 1]
      BY <1>2, PartOf
    <2>2. /\ Len(SubSeq(u, 3, Len(u))) = Len(u) - 2
          /\ \A p \in 1..(Len(u) - 2) : SubSeq(u, 3, Len(u))[p] = u[2 + p]
      BY <1>2, <2>1
    <2> QED
      BY <2>1, <2>2
  <1>8. rest = After(u, 1, part)
    <2>1. 1 + 2 = 3
      OBVIOUS
    <2> QED
      BY <1>1, <1>7, <2>1 DEF After
  <1> QED
    BY <1>6, <1>7, <1>8 DEF IsRestOf

Handle == <<"handle">>

\* A handle has no separator in it, and is not empty.
LEMMA HandleHasNoSlash == ~Contains(Handle, "/") /\ Handle # <<>>
  BY DEF Contains, Handle

\* The address of a file's diff.
LEMMA FileAddress ==
  ASSUME NEW text \in Seq(PathChars), text # <<>>
  PROVE  AddressOf(FileUri(Handle, text)) = [to |-> "file", handle |-> Handle, path |-> text]
  <1>1. PICK d : d = "diff"
    OBVIOUS
  <1>2. PICK s : s = "/"
    OBVIOUS
  <1>3. PICK h : h = "handle"
    OBVIOUS
  <1>4. PICK w : w = "file"
    OBVIOUS
  <1>5. h # s
    BY <1>2, <1>3
  <1>6. /\ Prefix = <<d, s>> /\ Handle = <<h>> /\ Separator = <<s, w, s>>
    BY <1>1, <1>2, <1>3, <1>4 DEF Prefix, Handle, Separator
  <1> DEFINE C == PathChars \cup {d, s, h, w}
             uri == FileUri(Handle, text)
  <1>7. d \in C /\ s \in C /\ h \in C /\ w \in C /\ text \in Seq(C)
    <2>1. PathChars \subseteq C
      OBVIOUS
    <2> HIDE DEF C
    <2>2. text \in Seq(C)
      BY <2>1, SeqMonotonic
    <2> QED
      BY <2>2 DEF C
  <1> HIDE DEF C
  <1>a. PICK u \in Seq(C) : IsSpelt(u, d, s, h, w, text)
    BY <1>7, Spelt
  <1>8. /\ Len(u) = 6 + Len(text)
        /\ u[1] = d /\ u[2] = s /\ u[3] = h /\ u[4] = s /\ u[5] = w /\ u[6] = s
        /\ \A p \in 1..Len(text) : u[6 + p] = text[p]
    BY <1>a DEF IsSpelt
  <1>9. uri = u
    BY <1>6, <1>a, Zenon DEF FileUri, DiffUri, IsSpelt
  <1>10. Len(text) \in Nat
    BY LenProperties
  <1>11. Len(u) >= 3
    BY <1>8, <1>10
  <1>12. /\ IsPrefix(Prefix, u)
         /\ \E rest \in Seq(C) : IsRestOf(rest, u, Prefix)
    BY <1>6, <1>7, <1>8, <1>11, PrefixAndRest
  <1>b. PICK rest \in Seq(C) : IsRestOf(rest, u, Prefix)
    BY <1>12
  <1>13. /\ rest = After(u, 1, Prefix)
         /\ Len(rest) = Len(u) - 2
         /\ \A p \in 1..(Len(u) - 2) : rest[p] = u[2 + p]
    BY <1>b DEF IsRestOf
  <1>14. /\ Len(rest) = 4 + Len(text)
         /\ rest[1] = h /\ rest[2] = s /\ rest[3] = w /\ rest[4] = s
         /\ \A p \in 1..Len(text) : rest[4 + p] = text[p]
    <2>1. Len(rest) = 4 + Len(text)
      BY <1>8, <1>10, <1>13
    <2>2. \A p \in 1..(4 + Len(text)) : rest[p] = u[2 + p]
      BY <1>8, <1>10, <1>13
    <2>3. rest[1] = u[2 + 1] /\ rest[2] = u[2 + 2] /\ rest[3] = u[2 + 3] /\ rest[4] = u[2 + 4]
      BY <1>10, <2>2
    <2>4. ASSUME NEW p \in 1..Len(text)
          PROVE  rest[4 + p] = text[p]
      <3>1. 4 + p \in 1..(4 + Len(text)) /\ 2 + (4 + p) = 6 + p
        BY <1>10
      <3> QED
        BY <1>8, <2>2, <3>1
    <2> QED
      BY <1>8, <2>1, <2>3, <2>4
  <1>c. IsRest(rest, s, h, w, text)
    BY <1>14 DEF IsRest
  <1>d. IsCut(rest, Separator, h, text)
    BY <1>5, <1>6, <1>7, <1>c, CutAtTheFirst
  <1>15. /\ PlacesOf(Separator, rest) # {}
         /\ Cut(PlacesOf(Separator, rest)) = 2
         /\ SubSeq(rest, 1, 1) = <<h>>
         /\ After(rest, 2, Separator) = text
    BY <1>d DEF IsCut
  <1> DEFINE parts == [handle |-> Handle, path |-> text]
  <1>16. PartsIn(u) = {parts}
    <2>1. 2 - 1 = 1
      OBVIOUS
    <2>2. [handle |-> SubSeq(rest, 1, Cut(PlacesOf(Separator, rest)) - 1),
           path |-> After(rest, Cut(PlacesOf(Separator, rest)), Separator)] = parts
      BY <1>6, <1>15, <2>1
    <2> DEFINE places == PlacesOf(Separator, rest)
               cut == [handle |-> SubSeq(rest, 1, Cut(places) - 1),
                       path |-> After(rest, Cut(places), Separator)]
    <2>3. PartsIn(u) = IF IsPrefix(Prefix, u) /\ places # {}
                          /\ cut.handle # <<>> /\ ~Contains(cut.handle, "/") /\ cut.path # <<>>
                       THEN {cut} ELSE {}
      BY <1>13, Zenon DEF PartsIn
    <2>4. cut.handle = Handle /\ cut.path = text /\ cut = parts
      BY <2>2
    <2> HIDE DEF cut, parts
    <2> QED
      BY <1>12, <1>15, <2>3, <2>4, HandleHasNoSlash
  <1>e. HandleIn(u) = {}
    <2>1. 2 \in 1..Len(rest) /\ rest[2] = "/"
      BY <1>2, <1>10, <1>14
    <2>2. Contains(rest, "/")
      BY <2>1 DEF Contains
    <2>3. HandleIn(u) = IF IsPrefix(Prefix, u) /\ rest # <<>> /\ ~Contains(rest, "/") THEN {rest} ELSE {}
      BY <1>13, Zenon DEF HandleIn
    <2> QED
      BY <2>2, <2>3
  <1>17. u # RegistriesUri
    <2>1. Len(RegistriesUri) = 1
      BY DEF RegistriesUri
    <2> QED
      BY <1>8, <1>10, <2>1
  <1>18. AddressOf(u) = [to |-> "file", handle |-> parts.handle, path |-> parts.path]
    <2>1. (CHOOSE p \in PartsIn(u) : TRUE) = parts
      BY <1>16
    <2>2. PartsIn(u) # {}
      BY <1>16
    <2> HIDE DEF parts
    <2> QED
      BY <1>17, <1>e, <2>1, <2>2 DEF AddressOf
  <1> QED
    BY <1>9, <1>18

\* The address of a comparison.
LEMMA DiffAddress == AddressOf(DiffUri(Handle)) = [to |-> "diff", handle |-> Handle]
  <1>1. PICK d : d = "diff"
    OBVIOUS
  <1>2. PICK s : s = "/"
    OBVIOUS
  <1>3. PICK h : h = "handle"
    OBVIOUS
  <1> DEFINE C == {d, s, h}
  <1>4. /\ Prefix = <<d, s>> /\ Handle = <<h>>
    BY <1>1, <1>2, <1>3 DEF Prefix, Handle
  <1>5. d \in C /\ s \in C /\ h \in C /\ <<>> \in Seq(C)
    OBVIOUS
  <1> HIDE DEF C
  <1>6. PICK u : u = <<d, s, h>>
    OBVIOUS
  <1>7. DiffUri(Handle) = u
    <2>1. <<d, s>> \o <<h>> = <<d, s, h>>
      BY SpeltInThree
    <2> QED
      BY <1>4, <1>6, <2>1, Zenon DEF DiffUri
  <1>8. u \in Seq(C) /\ Len(u) = 3 /\ u[1] = d /\ u[2] = s /\ u[3] = h
    BY <1>5, <1>6
  <1>9. /\ IsPrefix(Prefix, u)
        /\ \E rest \in Seq(C) : IsRestOf(rest, u, Prefix)
    <2>1. Len(u) >= 3 /\ u \in Seq(C) /\ u[1] = d /\ u[2] = s
      BY <1>8
    <2> QED
      BY <1>4, <1>5, <2>1, PrefixAndRest
  <1>b. PICK rest \in Seq(C) : IsRestOf(rest, u, Prefix)
    BY <1>9
  <1>10. /\ rest = After(u, 1, Prefix)
         /\ Len(rest) = Len(u) - 2
         /\ \A p \in 1..(Len(u) - 2) : rest[p] = u[2 + p]
    BY <1>b DEF IsRestOf
  <1>11. Len(rest) = 1 /\ rest[1] = h
    <2>1. Len(rest) = 1 /\ \A p \in 1..1 : rest[p] = u[2 + p]
      BY <1>8, <1>10
    <2>2. rest[1] = u[2 + 1]
      BY <2>1
    <2> QED
      BY <1>8, <2>1, <2>2
  <1>12. rest = Handle
    <2>1. PICK t : t = <<h>>
      OBVIOUS
    <2>2. t \in Seq(C) /\ Len(t) = 1 /\ t[1] = h
      BY <1>5, <2>1
    <2>3. \A p \in 1..Len(rest) : rest[p] = t[p]
      BY <1>11, <2>2
    <2>4. rest = t
      BY <1>11, <2>2, <2>3, SeqEqual
    <2> QED
      BY <1>4, <2>1, <2>4
  <1>13. PlacesOf(Separator, rest) = {}
    <2>1. Len(Separator) = 3
      BY DEF Separator
    <2> QED
      BY <1>11, <2>1 DEF PlacesOf
  <1>14. PartsIn(u) = {}
    BY <1>10, <1>13, Zenon DEF PartsIn
  <1>15. HandleIn(u) = {Handle}
    <2>1. HandleIn(u) = IF IsPrefix(Prefix, u) /\ rest # <<>> /\ ~Contains(rest, "/") THEN {rest} ELSE {}
      BY <1>10, Zenon DEF HandleIn
    <2> QED
      BY <1>9, <1>12, <2>1, HandleHasNoSlash
  <1>16. u # RegistriesUri
    <2>1. Len(RegistriesUri) = 1
      BY DEF RegistriesUri
    <2> QED
      BY <1>8, <2>1
  <1>17. (CHOOSE x \in HandleIn(u) : TRUE) = Handle /\ HandleIn(u) # {}
    BY <1>15
  <1>18. AddressOf(u) = [to |-> "diff", handle |-> Handle]
    BY <1>14, <1>16, <1>17 DEF AddressOf
  <1> QED
    BY <1>7, <1>18

\* A client encodes a path that is not empty as a text that is not.
LEMMA EncodedNotEmpty ==
  ASSUME NEW path \in Seq(PathChars), path # <<>>, NEW kept \in Keeps
  PROVE  Encoded(path, kept) \in Seq(PathChars) /\ Encoded(path, kept) # <<>>
  <1>1. PICK e : EncodedUpto(e, path, kept)
    BY EncodedUptoExists
  <1>2. Len(path) \in Nat \ {0} /\ path[1] \in PathChars
    <2>1. Len(path) \in Nat \ {0}
      BY EmptySeq
    <2> QED
      BY <2>1, ElementOfSeq
  <1>3. 1 \in 1..Len(path)
    BY <1>2
  <1>4. Stands(Encoded(path, kept), Len(e[1 - 1]) + 1, Segment(path[1], kept), Len(e[1]) + 1)
    BY <1>1, <1>3, SegmentStands
  <1>5. Len(Segment(path[1], kept)) = 1 \/ Len(Segment(path[1], kept)) = 3
    BY <1>2, SegmentIs, Zenon
  <1>6. Encoded(path, kept) \in Seq(PathChars) /\ Len(Encoded(path, kept)) \in Nat
    BY <1>4, LenProperties DEF Stands
  <1>7. Len(Encoded(path, kept)) >= 1
    <2>1. PICK at, s, next : Stands(Encoded(path, kept), at, s, next) /\ (Len(s) = 1 \/ Len(s) = 3)
      BY <1>4, <1>5
    <2>2. /\ at \in Nat \ {0} /\ Len(s) \in Nat
          /\ at + Len(s) - 1 <= Len(Encoded(path, kept))
      BY <2>1, Zenon DEF Stands
    <2>3. PICK n \in Nat : n = Len(s)
      BY <2>2, Zenon
    <2>4. n = 1 \/ n = 3
      BY <2>1, <2>3, Zenon
    <2>5. PICK l \in Nat : l = Len(Encoded(path, kept))
      BY <1>6, Zenon
    <2>6. at + n - 1 <= l
      BY <2>2, <2>3, <2>5, Zenon
    <2>7. l >= 1
      BY <2>2, <2>4, <2>6
    <2> QED
      BY <2>5, <2>7, Zenon
  <1> QED
    BY <1>6, <1>7, EmptySeq

\* The address of a path in a handle leads to that handle and that path.
LEMMA LeadsThere ==
  ASSUME NEW path \in Seq(PathChars) \ {<<>>}
  PROVE  LeadsToItself(Handle, path)
  <1>1. AddressOf(RegistriesUri) = Catalogue
    <2>1. ~IsPrefix(Prefix, RegistriesUri)
      <3>1. Len(Prefix) = 2 /\ Len(RegistriesUri) = 1
        BY DEF Prefix, RegistriesUri
      <3>2. ~(Len(Prefix) <= Len(RegistriesUri))
        BY <3>1
      <3> QED
        BY <3>2, Zenon DEF IsPrefix
    <2>2. PartsIn(RegistriesUri) = {} /\ HandleIn(RegistriesUri) = {}
      BY <2>1, Zenon DEF PartsIn, HandleIn
    <2> QED
      BY <2>2 DEF AddressOf
  <1>2. ASSUME NEW kept \in Keeps
        PROVE  LET address == AddressOf(FileUri(Handle, Encoded(path, kept)))
               IN  /\ address.to = "file" /\ address.handle = Handle
                   /\ Decoded(address.path) = {path}
    <2>1. AddressOf(FileUri(Handle, Encoded(path, kept)))
            = [to |-> "file", handle |-> Handle, path |-> Encoded(path, kept)]
      BY EncodedNotEmpty, FileAddress
    <2>2. Decoded(Encoded(path, kept)) = {path}
      BY DecodedEncoded
    <2> QED
      BY <2>1, <2>2
  <1> QED
    BY <1>1, <1>2, DiffAddress DEF LeadsToItself

------------------------------------------------------------------------------
(***************************************************************************)
(* Excerpts: an answer fits, and a larger one goes on from it.             *)
(***************************************************************************)
Summing(g, weight, text) ==
  g = [s \in SUBSET DOMAIN text |->
         IF s = {} THEN 0 ELSE g[s \ {Max(s)}] + weight[text[Max(s)]]]

\* encoded_len as the value of the fold it is.
LEMMA SumIs ==
  ASSUME NEW weight, NEW text
  PROVE  SumOf(weight, text) = (CHOOSE g : Summing(g, weight, text))[DOMAIN text]
  BY DEF SumOf, FoldLeft, MapThenFoldSet, Summing

Weights == [Chars -> Nat]

\* What the first characters of a text sum up to.
SumUpto(e, weight, text) ==
  /\ e \in [0..Len(text) -> Nat]
  /\ e[0] = 0
  /\ \A k \in 1..Len(text) : e[k] = e[k - 1] + weight[text[k]]

\* The sums of a text's first characters exist, one after another.
LEMMA SumUptoExists ==
  ASSUME NEW weight \in Weights, NEW text \in Seq(Chars)
  PROVE  \E e : SumUpto(e, weight, text) /\ SumOf(weight, text) = e[Len(text)]
  <1> DEFINE n == Len(text)
             step == [i \in 1..n |-> [a \in Nat |-> a + weight[text[i]]]]
  <1>1. n \in Nat /\ DOMAIN text = 1..n /\ \A i \in 1..n : weight[text[i]] \in Nat
    <2>1. n \in Nat /\ DOMAIN text = 1..n /\ \A i \in 1..n : text[i] \in Chars
      BY LenProperties, ElementOfSeq
    <2> QED
      BY <2>1 DEF Weights
  <1>2. Closed(n, Nat, step)
    BY <1>1 DEF Closed
  <1>3. PICK g \in [SUBSET (1..n) -> Nat] : FoldingUpto(g, n, 0, step)
    <2> HIDE DEF step, n
    <2> QED
      BY <1>1, <1>2, FoldUpto
  <1>4. Summing(g, weight, text)
    <2>1. ASSUME NEW s \in SUBSET (1..n)
          PROVE  g[s] = IF s = {} THEN 0 ELSE g[s \ {Max(s)}] + weight[text[Max(s)]]
      <3>1. CASE s = {}
        BY <1>3, <3>1 DEF FoldingUpto
      <3>2. CASE s # {}
        <4>1. Max(s) \in 1..n
          BY <1>1, <3>2, MaxOfUpto
        <4>2. g[s \ {Max(s)}] \in Nat
          OBVIOUS
        <4>3. g[s] = step[Max(s)][g[s \ {Max(s)}]]
          BY <1>3, <3>2 DEF FoldingUpto
        <4> QED
          BY <3>2, <4>1, <4>2, <4>3
      <3> QED
        BY <3>1, <3>2
    <2> QED
      BY <1>1, <2>1 DEF Summing
  <1> DEFINE h == CHOOSE f : Summing(f, weight, text)
  <1>5. Summing(h, weight, text)
    BY <1>4
  <1>6. SumOf(weight, text) = h[1..n]
    BY <1>1, SumIs
  <1> HIDE DEF h
  <1>7. Steps(h, n, Nat, 0, step)
    <2>1. h[{}] = 0
      BY <1>1, <1>5 DEF Summing
    <2>2. ASSUME NEW s \in SUBSET (1..n), s # {}, h[s \ {Max(s)}] \in Nat
          PROVE  h[s] = step[Max(s)][h[s \ {Max(s)}]]
      <3>1. h[s] = h[s \ {Max(s)}] + weight[text[Max(s)]]
        BY <1>1, <1>5, <2>2 DEF Summing
      <3>2. Max(s) \in 1..n
        BY <1>1, <2>2, MaxOfUpto
      <3> QED
        BY <2>2, <3>1, <3>2
    <2> HIDE DEF step, n
    <2> QED
      BY <2>1, <2>2 DEF Steps
  <1>8. PICK e \in [0..n -> Nat] : Reaches(e, n, 0, step) /\ e[n] = h[1..n]
    <2> HIDE DEF step, n
    <2>1. Arrived(h, n, Nat, 0, step)
      BY <1>1, <1>2, <1>7, FoldReaches
    <2> QED
      BY <2>1 DEF Arrived
  <1>9. ASSUME NEW k \in 1..n
        PROVE  e[k] = e[k - 1] + weight[text[k]]
    <2>1. e[k] = step[k][e[k - 1]] /\ e[k - 1] \in Nat
      <3>1. k - 1 \in 0..n
        BY <1>1
      <3> HIDE DEF step, n
      <3> QED
        BY <1>8, <3>1 DEF Reaches
    <2> QED
      BY <2>1
  <1>10. e[0] = 0
    BY <1>8 DEF Reaches
  <1> QED
    BY <1>6, <1>8, <1>9, <1>10 DEF SumUpto

\* The first characters of a text, as a text of its own.
IsFirstOf(part, n, text) ==
  part \in Seq(Chars) /\ Len(part) = n /\ \A p \in 1..n : part[p] = text[p]

\* A text's first characters weigh the same whatever comes after them.
LEMMA SumsAgree ==
  ASSUME NEW weight, NEW text \in Seq(Chars), NEW e, SumUpto(e, weight, text),
         NEW n \in 0..Len(text), NEW part, IsFirstOf(part, n, text), NEW d, SumUpto(d, weight, part)
  PROVE  d[n] = e[n]
  <1> DEFINE Q == {k \in Nat : k <= n => d[k] = e[k]}
  <1>0. Len(text) \in Nat /\ n \in Nat
    BY LenProperties
  <1>a. Len(part) = n
    BY DEF IsFirstOf
  <1>1. 0 \in Q
    BY DEF SumUpto
  <1>2. ASSUME NEW k \in Nat, k \in Q
        PROVE  k + 1 \in Q
    <2>1. SUFFICES ASSUME k + 1 <= n
                   PROVE  d[k + 1] = e[k + 1]
      OBVIOUS
    <2>2. k + 1 \in 1..Len(part) /\ k + 1 \in 1..Len(text) /\ (k + 1) - 1 = k
      BY <1>0, <1>a, <2>1
    <2>3. d[k + 1] = d[k] + weight[part[k + 1]] /\ e[k + 1] = e[k] + weight[text[k + 1]]
      BY <2>2 DEF SumUpto
    <2>4. part[k + 1] = text[k + 1] /\ d[k] = e[k]
      BY <1>2, <1>a, <2>1, <2>2 DEF IsFirstOf
    <2> QED
      BY <2>3, <2>4
  <1>3. n \in Q
    <2> HIDE DEF Q
    <2> QED
      BY <1>0, <1>1, <1>2, NatInduct
  <1> QED
    BY <1>0, <1>3

\* What the first characters of a text weigh is the sum up to there.
LEMMA SumOfPart ==
  ASSUME NEW weight \in Weights, NEW text \in Seq(Chars), NEW e, SumUpto(e, weight, text),
         NEW n \in 0..Len(text)
  PROVE  SumOf(weight, SubSeq(text, 1, n)) = e[n]
  <1>1. Len(text) \in Nat
    BY LenProperties
  <1>2. PICK part : part = SubSeq(text, 1, n)
    OBVIOUS
  <1>3. part \in Seq(Chars) /\ Len(part) = n /\ \A p \in 1..n : part[p] = text[p]
    <2>1. /\ SubSeq(text, 1, n) \in Seq(Chars)
          /\ Len(SubSeq(text, 1, n)) = n - 1 + 1
          /\ \A p \in 1..(n - 1 + 1) : SubSeq(text, 1, n)[p] = text[1 + p - 1]
      BY <1>1, PartOf
    <2> QED
      BY <1>1, <1>2, <2>1
  <1>4. PICK d : SumUpto(d, weight, part) /\ SumOf(weight, part) = d[Len(part)]
    BY <1>3, SumUptoExists
  <1>a. IsFirstOf(part, n, text)
    BY <1>3 DEF IsFirstOf
  <1>5. d[n] = e[n]
    BY <1>4, <1>a, SumsAgree
  <1> QED
    BY <1>2, <1>3, <1>4, <1>5

Keeping(text, max) == Max(FittingText(text, max))

\* The length of a character and its cost in the payload are weights.
LEMMA WeightsAre == Raw \in Weights /\ EncodedCost \in Weights
  BY CharsAssumption DEF Weights

\* MaxBytes::bytes never gives less than was asked, and never nothing.
LEMMA CapIs ==
  ASSUME NEW max \in Nat
  PROVE  Cap(max) \in Nat /\ Cap(max) >= max /\ Cap(max) >= 1 /\ (Cap(max) = max \/ Cap(max) = 1)
  <1>1. \E m \in {max, 1} : \A x \in {max, 1} : m >= x
    OBVIOUS
  <1>2. Max({max, 1}) \in {max, 1} /\ \A x \in {max, 1} : Max({max, 1}) >= x
    BY <1>1, Zenon DEF Max
  <1> QED
    BY <1>2 DEF Cap

\* What fits, in the sums of its characters.
FitsIn(n, r, c, max) == r[n] <= Cap(max) /\ c[n] <= Room

Sums(r, c, text) == SumUpto(r, Raw, text) /\ SumUpto(c, EncodedCost, text)

\* The lengths and the costs of a text's first characters exist.
LEMMA SumsExist ==
  ASSUME NEW text \in Seq(Chars)
  PROVE  \E r, c : Sums(r, c, text)
  <1>1. PICK r : SumUpto(r, Raw, text)
    BY WeightsAre, SumUptoExists
  <1>2. PICK c : SumUpto(c, EncodedCost, text)
    BY WeightsAre, SumUptoExists
  <1> QED
    BY <1>1, <1>2 DEF Sums

\* What truncate may keep, in terms of the two sums.
LEMMA FittingIs ==
  ASSUME NEW text \in Seq(Chars), NEW r, NEW c, Sums(r, c, text), NEW max
  PROVE  FittingText(text, max) = {n \in 0..Len(text) : FitsIn(n, r, c, max)}
  <1>1. ASSUME NEW n \in 0..Len(text)
        PROVE  /\ SumOf(Raw, SubSeq(text, 1, n)) = r[n]
               /\ SumOf(EncodedCost, SubSeq(text, 1, n)) = c[n]
    BY WeightsAre, SumOfPart DEF Sums
  <1> QED
    BY <1>1 DEF FittingText, FitsIn

\* truncate keeps the most that fits.
LEMMA KeepingFits ==
  ASSUME NEW text \in Seq(Chars), NEW r, NEW c, Sums(r, c, text), NEW max \in MaxBytes
  PROVE  /\ Keeping(text, max) \in 0..Len(text)
         /\ FitsIn(Keeping(text, max), r, c, max)
         /\ \A n \in 0..Len(text) : FitsIn(n, r, c, max) => n <= Keeping(text, max)
  <1> DEFINE F == FittingText(text, max)
  <1>1. F = {n \in 0..Len(text) : FitsIn(n, r, c, max)}
    BY FittingIs
  <1>2. Len(text) \in Nat /\ max \in Nat
    BY LenProperties, AsksAssumption
  <1>3. 0 \in F
    <2>1. r[0] = 0 /\ c[0] = 0
      BY DEF Sums, SumUpto
    <2>2. 0 <= Room /\ Cap(max) >= 1 /\ Cap(max) \in Nat
      BY <1>2, CapIs, CeilingAssumption DEF Room
    <2>3. FitsIn(0, r, c, max)
      BY <2>1, <2>2 DEF FitsIn
    <2> QED
      BY <1>1, <1>2, <2>3
  <1>4. Max(F) \in F /\ \A n \in F : n <= Max(F)
    <2>1. \A n \in F : n \in 0..Len(text)
      BY <1>1
    <2> HIDE DEF F
    <2> DEFINE s == F \ {0}
    <2>2. s \in SUBSET (1..Len(text))
      BY <2>1
    <2>3. \E m \in F : \A n \in F : m >= n
      <3>1. CASE s = {}
        BY <1>3, <3>1
      <3>2. CASE s # {}
        <4>1. Max(s) \in s /\ \A n \in s : n <= Max(s)
          <5> HIDE DEF s
          <5> QED
            BY <1>2, <2>2, <3>2, MaxOfUpto
        <4>2. Max(s) \in F /\ Max(s) \in Nat
          BY <2>2, <4>1
        <4>3. \A n \in F : n = 0 \/ n \in s
          OBVIOUS
        <4> HIDE DEF s
        <4>4. ASSUME NEW n \in F
              PROVE  Max(s) >= n
          BY <4>1, <4>2, <4>3, <2>1
        <4> QED
          BY <4>2, <4>4
      <3> QED
        BY <3>1, <3>2
    <2>4. Max(F) \in F /\ \A n \in F : Max(F) >= n
      BY <2>3, Zenon DEF Max
    <2> QED
      BY <2>1, <2>4
  <1>5. Keeping(text, max) = Max(F)
    BY DEF Keeping
  <1> HIDE DEF F
  <1> QED
    BY <1>1, <1>4, <1>5

\* truncate's answer: the characters kept, whether it cut, and what there was.
LEMMA TruncatedIs ==
  ASSUME NEW text, NEW max
  PROVE  /\ Truncated(text, max).text = SubSeq(text, 1, Keeping(text, max))
         /\ Truncated(text, max).truncated = (Keeping(text, max) # Len(text))
         /\ Truncated(text, max).bytes = SumOf(Raw, text)
  BY Zenon DEF Truncated, Keeping, BytesOf

\* truncate's answer fits the ceiling that was asked, in bytes and encoded.
LEMMA TruncatedFits ==
  ASSUME NEW text \in Seq(Chars), NEW max \in MaxBytes
  PROVE  Fits(Truncated(text, max))
  <1>1. PICK r, c : Sums(r, c, text)
    BY SumsExist
  <1> DEFINE kept == Keeping(text, max)
  <1>2. kept \in 0..Len(text) /\ FitsIn(kept, r, c, max)
    BY <1>1, KeepingFits
  <1>3. SumOf(EncodedCost, Truncated(text, max).text) = c[kept]
    <2>1. SumUpto(c, EncodedCost, text)
      BY <1>1 DEF Sums
    <2>2. SumOf(EncodedCost, SubSeq(text, 1, kept)) = c[kept]
      <3> HIDE DEF kept
      <3> QED
        BY <1>2, <2>1, WeightsAre, SumOfPart
    <2> QED
      BY <2>2, TruncatedIs
  <1>4. c[kept] \in Nat /\ c[kept] <= Room
    <2> HIDE DEF kept
    <2> QED
      BY <1>1, <1>2 DEF Sums, SumUpto, FitsIn
  <1>5. PICK sum \in Nat : sum = c[kept]
    BY <1>4
  <1>6. sum + MarkerCost + 2 <= TextCeiling /\ sum + 0 + 2 <= TextCeiling
    <2>1. sum <= Room
      BY <1>4, <1>5
    <2> QED
      BY <2>1, CeilingAssumption DEF Room
  <1> DEFINE shown == Truncated(text, max)
  <1>7. SumOf(EncodedCost, shown.text) = sum
    BY <1>3, <1>5
  <1> HIDE DEF shown
  <1>8. (IF shown.truncated THEN MarkerCost ELSE 0) \in {MarkerCost, 0}
    OBVIOUS
  <1>9. Fits(shown)
    BY <1>6, <1>7, <1>8 DEF Fits
  <1> QED
    BY <1>9 DEF shown

\* A larger ceiling reads on from what a smaller one gave.
LEMMA TruncatedGoesOn ==
  ASSUME NEW text \in Seq(Chars), NEW max \in MaxBytes, NEW larger \in MaxBytes, max <= larger
  PROVE  GoesOn(Truncated(text, larger), Truncated(text, max))
  <1>1. PICK r, c : Sums(r, c, text)
    BY SumsExist
  <1>2. PICK kept : kept = Keeping(text, max)
    OBVIOUS
  <1>3. PICK more : more = Keeping(text, larger)
    OBVIOUS
  <1>4. kept \in 0..Len(text) /\ FitsIn(kept, r, c, max)
    BY <1>1, <1>2, KeepingFits
  <1>5. more \in 0..Len(text) /\ \A n \in 0..Len(text) : FitsIn(n, r, c, larger) => n <= more
    BY <1>1, <1>3, KeepingFits
  <1>6. Len(text) \in Nat /\ max \in Nat /\ larger \in Nat
    BY LenProperties, AsksAssumption
  <1>7. kept <= more
    <2>1. Cap(max) <= Cap(larger)
      <3>1. Cap(max) \in Nat /\ (Cap(max) = max \/ Cap(max) = 1)
        BY <1>6, CapIs
      <3>2. Cap(larger) \in Nat /\ Cap(larger) >= larger /\ Cap(larger) >= 1
        BY <1>6, CapIs
      <3> QED
        BY <1>6, <3>1, <3>2
    <2>2. r[kept] \in Nat
      BY <1>1, <1>4 DEF Sums, SumUpto
    <2>3. Cap(max) \in Nat /\ Cap(larger) \in Nat
      BY <1>6, CapIs
    <2>4. FitsIn(kept, r, c, larger)
      BY <1>4, <2>1, <2>2, <2>3 DEF FitsIn
    <2> QED
      BY <1>4, <1>5, <2>4
  <1>8. IsPrefix(SubSeq(text, 1, kept), SubSeq(text, 1, more))
    <2>1. PICK short : short = SubSeq(text, 1, kept)
      OBVIOUS
    <2>2. PICK long : long = SubSeq(text, 1, more)
      OBVIOUS
    <2>3. short \in Seq(Chars) /\ Len(short) = kept /\ \A p \in 1..kept : short[p] = text[p]
      <3>1. 1 \in 1..(Len(text) + 1) /\ kept \in (1 - 1)..Len(text)
        BY <1>4, <1>6
      <3>2. /\ SubSeq(text, 1, kept) \in Seq(Chars)
            /\ Len(SubSeq(text, 1, kept)) = kept - 1 + 1
            /\ \A p \in 1..(kept - 1 + 1) : SubSeq(text, 1, kept)[p] = text[1 + p - 1]
        BY <3>1, PartOf
      <3> QED
        BY <1>4, <1>6, <2>1, <3>2
    <2>4. long \in Seq(Chars) /\ Len(long) = more /\ \A p \in 1..more : long[p] = text[p]
      <3>1. 1 \in 1..(Len(text) + 1) /\ more \in (1 - 1)..Len(text)
        BY <1>5, <1>6
      <3>2. /\ SubSeq(text, 1, more) \in Seq(Chars)
            /\ Len(SubSeq(text, 1, more)) = more - 1 + 1
            /\ \A p \in 1..(more - 1 + 1) : SubSeq(text, 1, more)[p] = text[1 + p - 1]
        BY <3>1, PartOf
      <3> QED
        BY <1>5, <1>6, <2>2, <3>2
    <2>5. IsPrefix(short, long)
      <3>1. Len(short) <= Len(long)
        BY <1>7, <2>3, <2>4
      <3>2. SubSeq(short, 1, Len(short)) = SubSeq(long, 1, Len(short))
        BY <1>4, <1>5, <1>6, <1>7, <2>3, <2>4
      <3> QED
        BY <3>1, <3>2 DEF IsPrefix
    <2> QED
      BY <2>1, <2>2, <2>5
  <1>9. more # Len(text) => kept # Len(text)
    BY <1>4, <1>5, <1>6, <1>7
  <1>10. more = Len(text) => SubSeq(text, 1, more) = text
    BY <1>6
  <1> DEFINE shown == Truncated(text, max)
             next  == Truncated(text, larger)
  <1>11. /\ shown.text = SubSeq(text, 1, kept) /\ next.text = SubSeq(text, 1, more)
         /\ shown.truncated = (kept # Len(text)) /\ next.truncated = (more # Len(text))
         /\ shown.bytes = SumOf(Raw, text)
    BY <1>2, <1>3, TruncatedIs, Zenon
  <1> HIDE DEF shown, next
  <1>12. IsPrefix(shown.text, next.text)
    BY <1>8, <1>11
  <1>13. next.truncated => shown.truncated
    BY <1>9, <1>11
  <1>14. ~next.truncated => shown.bytes = SumOf(Raw, next.text)
    BY <1>10, <1>11
  <1>15. GoesOn(next, shown)
    BY <1>12, <1>13, <1>14 DEF GoesOn
  <1> QED
    BY <1>15 DEF next, shown

Spans(n) == [start : 1..n, end : 1..n]

\* The larger and the smaller of two numbers.
LEMMA LargerOf ==
  ASSUME NEW a \in Int, NEW b \in Int
  PROVE  /\ Max({a, b}) = IF a >= b THEN a ELSE b
         /\ Min({a, b}) = IF a <= b THEN a ELSE b
  <1>1. /\ \E m \in {a, b} : \A x \in {a, b} : m >= x
        /\ \E m \in {a, b} : \A x \in {a, b} : m <= x
    OBVIOUS
  <1>2. Max({a, b}) \in {a, b} /\ \A x \in {a, b} : Max({a, b}) >= x
    BY <1>1, Zenon DEF Max
  <1>3. Min({a, b}) \in {a, b} /\ \A x \in {a, b} : Min({a, b}) <= x
    BY <1>1, Zenon DEF Min
  <1> QED
    BY <1>2, <1>3

\* Where a line's context begins and ends.
From(at, context) == Max({1, at - context})
To(at, context, n) == Min({at + context, n})

\* The context around a line stays within the file's lines.
LEMMA FromTo ==
  ASSUME NEW n \in Nat, NEW at \in 1..n, NEW context \in Nat
  PROVE  /\ From(at, context) \in 1..at
         /\ To(at, context, n) \in at..n
         /\ From(at, context) = IF 1 >= at - context THEN 1 ELSE at - context
         /\ To(at, context, n) = IF at + context <= n THEN at + context ELSE n
  <1>a. 1 \in Int /\ at - context \in Int /\ at + context \in Int /\ n \in Int
    OBVIOUS
  <1>1. Max({1, at - context}) = IF 1 >= at - context THEN 1 ELSE at - context
    BY <1>a, LargerOf
  <1>2. Min({at + context, n}) = IF at + context <= n THEN at + context ELSE n
    BY <1>a, LargerOf, Zenon
  <1> QED
    BY <1>1, <1>2 DEF From, To

\* The three things a line does to the hunks so far.
Skips(new, hunks, body, at) == ~Changed(body, at) /\ new = hunks

Prolongs(new, hunks, body, context, at) ==
  /\ Changed(body, at) /\ hunks # <<>>
  /\ Last(hunks).end + 1 >= From(at, context)
  /\ new = [hunks EXCEPT ![Len(hunks)].end =
                            Max({hunks[Len(hunks)].end, To(at, context, Len(body))})]

Opens(new, hunks, body, context, at) ==
  /\ Changed(body, at)
  /\ hunks = <<>> \/ ~(Last(hunks).end + 1 >= From(at, context))
  /\ new = Append(hunks, [start |-> From(at, context), end |-> To(at, context, Len(body))])

\* What hunks does with a line: skips it, prolongs the last hunk or opens one.
LEMMA LineIsOneOf ==
  ASSUME NEW hunks, NEW body, NEW context, NEW at, NEW new, new = WithLine(hunks, body, context, at)
  PROVE  \/ Skips(new, hunks, body, at)
         \/ Prolongs(new, hunks, body, context, at)
         \/ Opens(new, hunks, body, context, at)
  <1>1. new = IF ~Changed(body, at) THEN hunks
              ELSE IF hunks # <<>> /\ Last(hunks).end + 1 >= From(at, context)
              THEN [hunks EXCEPT ![Len(hunks)].end = Max({@, To(at, context, Len(body))})]
              ELSE Append(hunks, [start |-> From(at, context), end |-> To(at, context, Len(body))])
    BY Zenon DEF WithLine, Joins, From, To
  <1>2. CASE ~Changed(body, at)
    BY <1>1, <1>2 DEF Skips
  <1>3. CASE Changed(body, at) /\ hunks # <<>> /\ Last(hunks).end + 1 >= From(at, context)
    BY <1>1, <1>3 DEF Prolongs
  <1>4. CASE Changed(body, at) /\ ~(hunks # <<>> /\ Last(hunks).end + 1 >= From(at, context))
    BY <1>1, <1>4 DEF Opens
  <1> QED
    BY <1>2, <1>3, <1>4

\* What becomes of the last hunk that a line prolongs.
LEMMA Prolonged ==
  ASSUME NEW body, Len(body) \in Nat, NEW at \in 1..Len(body), NEW context \in Nat,
         NEW hunks \in Seq(Spans(Len(body))), NEW new, Prolongs(new, hunks, body, context, at)
  PROVE  LET last == Len(hunks)
             end  == IF hunks[last].end >= To(at, context, Len(body)) THEN hunks[last].end
                                                                     ELSE To(at, context, Len(body))
         IN  /\ last \in Nat \ {0} /\ Len(new) = last /\ new \in Seq(Spans(Len(body)))
             /\ \A h \in 1..(last - 1) : new[h] = hunks[h]
             /\ new[last] = [start |-> hunks[last].start, end |-> end]
             /\ hunks[last].end + 1 >= From(at, context)
  <1> DEFINE last == Len(hunks)
             to   == To(at, context, Len(body))
             end  == IF hunks[last].end >= to THEN hunks[last].end ELSE to
             n    == Len(body)
  <1>1. last \in Nat \ {0} /\ hunks \in [1..last -> Spans(n)] /\ hunks[last] \in Spans(n)
    <2>1. hunks # <<>>
      BY DEF Prolongs
    <2>2. last \in Nat \ {0} /\ DOMAIN hunks = 1..last /\ hunks \in [1..last -> Spans(n)]
      BY <2>1, LenProperties, EmptySeq
    <2> QED
      BY <2>2
  <1>2. hunks[last].start \in 1..n /\ hunks[last].end \in 1..n
        /\ hunks[last] = [start |-> hunks[last].start, end |-> hunks[last].end]
    BY <1>1 DEF Spans
  <1>3. to \in at..n
    BY FromTo
  <1>4. Max({hunks[last].end, to}) = end
    BY <1>2, <1>3, LargerOf
  <1>5. end \in 1..n
    BY <1>2, <1>3
  <1>6. new = [hunks EXCEPT ![last].end = end]
    BY <1>4, Zenon DEF Prolongs
  <1>7. Last(hunks) = hunks[last]
    BY DEF Last
  <1>8. hunks[last].end + 1 >= From(at, context)
    BY <1>7 DEF Prolongs
  <1>9. PICK e \in 1..n : e = end
    BY <1>5
  <1>10. new = [hunks EXCEPT ![last] = [start |-> hunks[last].start, end |-> e]]
    <2>1. [hunks[last] EXCEPT !.end = e] = [start |-> hunks[last].start, end |-> e]
      BY <1>2
    <2>2. new = [hunks EXCEPT ![last] = [hunks[last] EXCEPT !.end = e]]
      BY <1>1, <1>6, <1>9
    <2> QED
      BY <2>1, <2>2
  <1>11. [start |-> hunks[last].start, end |-> e] \in Spans(n)
    BY <1>2 DEF Spans
  <1>12. new \in [1..last -> Spans(n)]
    BY <1>1, <1>10, <1>11
  <1>13. /\ \A h \in 1..(last - 1) : new[h] = hunks[h]
         /\ new[last] = [start |-> hunks[last].start, end |-> e]
    BY <1>1, <1>10, <1>11
  <1>14. new \in Seq(Spans(n)) /\ Len(new) = last
    BY <1>1, <1>12
  <1> QED
    BY <1>1, <1>8, <1>9, <1>13, <1>14

\* A line that opens a hunk leaves those before it alone.
LEMMA Opened ==
  ASSUME NEW body, Len(body) \in Nat, NEW at \in 1..Len(body), NEW context \in Nat,
         NEW hunks \in Seq(Spans(Len(body))), NEW new, Opens(new, hunks, body, context, at)
  PROVE  LET last == Len(hunks)
         IN  /\ last \in Nat /\ Len(new) = last + 1 /\ new \in Seq(Spans(Len(body)))
             /\ \A h \in 1..last : new[h] = hunks[h]
             /\ new[last + 1] = [start |-> From(at, context), end |-> To(at, context, Len(body))]
             /\ last # 0 => ~(hunks[last].end + 1 >= From(at, context))
  <1> DEFINE hunk == [start |-> From(at, context), end |-> To(at, context, Len(body))]
  <1>1. Len(hunks) \in Nat
    BY LenProperties
  <1>2. hunk \in Spans(Len(body))
    <2>1. From(at, context) \in 1..at /\ To(at, context, Len(body)) \in at..Len(body)
      BY FromTo
    <2>2. From(at, context) \in 1..Len(body) /\ To(at, context, Len(body)) \in 1..Len(body)
      BY <2>1
    <2> QED
      BY <2>2 DEF Spans
  <1>3. new = Append(hunks, hunk)
    BY DEF Opens
  <1> HIDE DEF hunk
  <1>4. /\ new \in Seq(Spans(Len(body))) /\ Len(new) = Len(hunks) + 1
        /\ \A h \in 1..Len(hunks) : new[h] = hunks[h]
        /\ new[Len(hunks) + 1] = hunk
    BY <1>1, <1>2, <1>3, AppendProperties
  <1>5. Len(hunks) # 0 => ~(hunks[Len(hunks)].end + 1 >= From(at, context))
    <2>1. Last(hunks) = hunks[Len(hunks)]
      BY DEF Last
    <2>2. hunks = <<>> => Len(hunks) = 0
      BY EmptySeq
    <2> QED
      BY <2>1, <2>2, Zenon DEF Opens
  <1> QED
    BY <1>1, <1>4, <1>5 DEF hunk

\* Every hunk is a span of the patch's lines.
LEMMA WithLineTyped ==
  ASSUME NEW body, Len(body) \in Nat, NEW at \in 1..Len(body), NEW context \in Nat,
         NEW hunks \in Seq(Spans(Len(body)))
  PROVE  WithLine(hunks, body, context, at) \in Seq(Spans(Len(body)))
  <1>1. PICK new : new = WithLine(hunks, body, context, at)
    OBVIOUS
  <1>2. \/ Skips(new, hunks, body, at)
        \/ Prolongs(new, hunks, body, context, at)
        \/ Opens(new, hunks, body, context, at)
    BY <1>1, LineIsOneOf
  <1>3. CASE Skips(new, hunks, body, at)
    BY <1>1, <1>3 DEF Skips
  <1>4. CASE Prolongs(new, hunks, body, context, at)
    BY <1>1, <1>4, Prolonged
  <1>5. CASE Opens(new, hunks, body, context, at)
    BY <1>1, <1>5, Opened
  <1> QED
    BY <1>2, <1>3, <1>4, <1>5

Numbers(n) == [i \in 1..n |-> i]

Hunking(g, body, context) ==
  g = [s \in SUBSET DOMAIN Numbers(Len(body)) |->
         IF s = {} THEN <<>>
         ELSE WithLine(g[s \ {Max(s)}], body, context, Numbers(Len(body))[Max(s)])]

\* hunks as the value of the fold it is.
LEMMA HunksAre ==
  ASSUME NEW body, NEW context
  PROVE  Hunks(body, context)
           = (CHOOSE g : Hunking(g, body, context))[DOMAIN Numbers(Len(body))]
  BY DEF Hunks, FoldLeft, MapThenFoldSet, Hunking, Numbers

\* The hunks that the first lines make, line by line.
HunksUpto(e, body, context) ==
  /\ e \in [0..Len(body) -> Seq(Spans(Len(body)))]
  /\ e[0] = <<>>
  /\ \A k \in 1..Len(body) : e[k] = WithLine(e[k - 1], body, context, k)
  /\ Hunks(body, context) = e[Len(body)]

\* The hunks of a patch's first lines exist, line by line.
LEMMA HunksUptoExists ==
  ASSUME NEW body, Len(body) \in Nat, NEW context \in Nat
  PROVE  \E e : HunksUpto(e, body, context)
  <1> DEFINE n == Len(body)
             A == Seq(Spans(n))
             step == [i \in 1..n |-> [a \in A |-> WithLine(a, body, context, i)]]
  <1>1. n \in Nat /\ DOMAIN Numbers(n) = 1..n /\ \A i \in 1..n : Numbers(n)[i] = i
    BY DEF Numbers
  <1>2. \A i \in 1..n, a \in A : WithLine(a, body, context, i) \in A
    BY <1>1, WithLineTyped
  <1>3. Closed(n, A, step)
    BY <1>2 DEF Closed
  <1>4. <<>> \in A
    OBVIOUS
  <1>5. PICK g \in [SUBSET (1..n) -> A] : FoldingUpto(g, n, <<>>, step)
    <2> HIDE DEF step, A, n
    <2> QED
      BY <1>1, <1>3, <1>4, FoldUpto
  <1>6. Hunking(g, body, context)
    <2>1. ASSUME NEW s \in SUBSET (1..n)
          PROVE  g[s] = IF s = {} THEN <<>>
                        ELSE WithLine(g[s \ {Max(s)}], body, context, Numbers(n)[Max(s)])
      <3>1. CASE s = {}
        BY <1>5, <3>1 DEF FoldingUpto
      <3>2. CASE s # {}
        <4>1. Max(s) \in 1..n
          BY <1>1, <3>2, MaxOfUpto
        <4>2. g[s \ {Max(s)}] \in A
          OBVIOUS
        <4>3. g[s] = step[Max(s)][g[s \ {Max(s)}]]
          BY <1>5, <3>2 DEF FoldingUpto
        <4> QED
          BY <1>1, <3>2, <4>1, <4>2, <4>3
      <3> QED
        BY <3>1, <3>2
    <2> QED
      BY <1>1, <2>1 DEF Hunking
  <1> DEFINE h == CHOOSE f : Hunking(f, body, context)
  <1>7. Hunking(h, body, context)
    BY <1>6
  <1>8. Hunks(body, context) = h[1..n]
    BY <1>1, HunksAre
  <1> HIDE DEF h
  <1>9. h[{}] = <<>>
    BY <1>1, <1>7 DEF Hunking
  <1>10. ASSUME NEW s \in SUBSET (1..n), s # {}, h[s \ {Max(s)}] \in A
         PROVE  h[s] = step[Max(s)][h[s \ {Max(s)}]]
    <2>1. h[s] = WithLine(h[s \ {Max(s)}], body, context, Numbers(n)[Max(s)])
      BY <1>1, <1>7, <1>10 DEF Hunking
    <2>2. Max(s) \in 1..n
      BY <1>1, <1>10, MaxOfUpto
    <2> QED
      BY <1>1, <1>10, <2>1, <2>2
  <1>11. Steps(h, n, A, <<>>, step)
    <2> HIDE DEF step, A, n
    <2> QED
      BY <1>9, <1>10 DEF Steps
  <1>12. PICK e \in [0..n -> A] : Reaches(e, n, <<>>, step) /\ e[n] = h[1..n]
    <2> HIDE DEF step, A, n
    <2>1. Arrived(h, n, A, <<>>, step)
      BY <1>1, <1>3, <1>4, <1>11, FoldReaches
    <2> QED
      BY <2>1 DEF Arrived
  <1>13. ASSUME NEW k \in 1..n
         PROVE  e[k] = WithLine(e[k - 1], body, context, k)
    <2>1. e[k] = step[k][e[k - 1]] /\ e[k - 1] \in A
      <3>1. k - 1 \in 0..n
        BY <1>1
      <3> HIDE DEF step, A, n
      <3> QED
        BY <1>12, <3>1 DEF Reaches
    <2> QED
      BY <2>1
  <1>14. e[0] = <<>> /\ e[n] = Hunks(body, context)
    BY <1>8, <1>12 DEF Reaches
  <1> QED
    BY <1>12, <1>13, <1>14 DEF HunksUpto

\* hunks answers spans of the patch's lines.
LEMMA HunksTyped ==
  ASSUME NEW body, Len(body) \in Nat, NEW context \in Nat
  PROVE  Hunks(body, context) \in Seq(Spans(Len(body)))
  <1>1. PICK e : HunksUpto(e, body, context)
    BY HunksUptoExists
  <1> QED
    BY <1>1 DEF HunksUpto

\* The rows there are of a body.
LineRows(body) == [line : 1..Len(body)]
HeaderRows(body) == {[header |-> Header(body, hunk)] : hunk \in Spans(Len(body))}
RowsThereAre(body) == LineRows(body) \cup HeaderRows(body)

\* The lines of a hunk are lines of the patch.
LEMMA LinesTyped ==
  ASSUME NEW body, Len(body) \in Nat, NEW start \in 1..(Len(body) + 1), NEW end \in 0..Len(body)
  PROVE  /\ Lines(start, end) \in Seq(LineRows(body))
         /\ Len(Lines(start, end)) = IF start <= end + 1 THEN end - start + 1 ELSE 0
  <1>1. ASSUME NEW i \in 1..(end - start + 1)
        PROVE  [line |-> start + i - 1] \in LineRows(body)
    <2>1. start + i - 1 \in 1..Len(body)
      OBVIOUS
    <2> QED
      BY <2>1 DEF LineRows
  <1>2. CASE start <= end + 1
    <2>1. end - start + 1 \in Nat
      BY <1>2
    <2>2. PICK m \in Nat : m = end - start + 1
      BY <2>1
    <2>3. Lines(start, end) \in [1..m -> LineRows(body)]
      BY <1>1, <2>2 DEF Lines
    <2>4. Lines(start, end) \in Seq(LineRows(body)) /\ Len(Lines(start, end)) = m
      BY <2>3
    <2> QED
      BY <1>2, <2>2, <2>4
  <1>3. CASE ~(start <= end + 1)
    <2>1. 1..(end - start + 1) = {}
      BY <1>3
    <2>2. Lines(start, end) = <<>>
      BY <2>1 DEF Lines
    <2> QED
      BY <1>3, <2>2
  <1> QED
    BY <1>2, <1>3

\* A hunk's rows are its header and lines of the patch.
LEMMA HunkRowsTyped ==
  ASSUME NEW body, Len(body) \in Nat, NEW hunk \in Spans(Len(body))
  PROVE  HunkRows(body, hunk) \in Seq(RowsThereAre(body))
  <1>1. hunk.start \in 1..(Len(body) + 1) /\ hunk.end \in 0..Len(body)
    BY DEF Spans
  <1>2. Lines(hunk.start, hunk.end) \in Seq(RowsThereAre(body))
    <2>1. Lines(hunk.start, hunk.end) \in Seq(LineRows(body))
      BY <1>1, LinesTyped
    <2>2. LineRows(body) \subseteq RowsThereAre(body)
      BY DEF RowsThereAre
    <2> QED
      BY <2>1, <2>2
  <1>3. <<[header |-> Header(body, hunk)]>> \in Seq(RowsThereAre(body))
    <2>1. [header |-> Header(body, hunk)] \in RowsThereAre(body)
      BY DEF RowsThereAre, HeaderRows
    <2> QED
      BY <2>1
  <1> QED
    BY <1>2, <1>3, ConcatProperties DEF HunkRows

Rowing(g, body, hunks) ==
  g = [s \in SUBSET DOMAIN hunks |->
         IF s = {} THEN <<>> ELSE g[s \ {Max(s)}] \o HunkRows(body, hunks[Max(s)])]

\* trim's rows as the value of the fold they are.
LEMMA RowsAre ==
  ASSUME NEW p, NEW context, p.isDiff, context # Full
  PROVE  Rows(p, context)
           = (CHOOSE g : Rowing(g, p.body, Hunks(p.body, context)))[DOMAIN Hunks(p.body, context)]
  BY DEF Rows, FoldLeft, MapThenFoldSet, Rowing

\* The rows of the first hunks, hunk by hunk.
RowsUpto(e, body, hunks) ==
  /\ e \in [0..Len(hunks) -> Seq(RowsThereAre(body))]
  /\ e[0] = <<>>
  /\ \A k \in 1..Len(hunks) : e[k] = e[k - 1] \o HunkRows(body, hunks[k])

\* trim's rows exist, hunk by hunk.
LEMMA RowsUptoExists ==
  ASSUME NEW p, Len(p.body) \in Nat, p.isDiff, NEW context \in Nat, context # Full
  PROVE  \E e : /\ RowsUpto(e, p.body, Hunks(p.body, context))
                /\ Rows(p, context) = e[Len(Hunks(p.body, context))]
  <1> DEFINE hunks == Hunks(p.body, context)
             n == Len(hunks)
             A == Seq(RowsThereAre(p.body))
             step == [i \in 1..n |-> [a \in A |-> a \o HunkRows(p.body, hunks[i])]]
  <1>1. n \in Nat /\ DOMAIN hunks = 1..n /\ \A i \in 1..n : hunks[i] \in Spans(Len(p.body))
    <2>1. hunks \in Seq(Spans(Len(p.body)))
      BY HunksTyped
    <2> HIDE DEF hunks
    <2> QED
      BY <2>1, LenProperties, ElementOfSeq
  <1>2. \A i \in 1..n, a \in A : a \o HunkRows(p.body, hunks[i]) \in A
    <2> HIDE DEF hunks
    <2> QED
      BY <1>1, HunkRowsTyped, ConcatProperties
  <1>3. Closed(n, A, step)
    <2> HIDE DEF hunks
    <2> QED
      BY <1>2 DEF Closed
  <1>4. <<>> \in A
    OBVIOUS
  <1>5. PICK g \in [SUBSET (1..n) -> A] : FoldingUpto(g, n, <<>>, step)
    <2> HIDE DEF step, A, n
    <2> QED
      BY <1>1, <1>3, <1>4, FoldUpto
  <1>6. Rowing(g, p.body, hunks)
    <2> HIDE DEF hunks
    <2>1. ASSUME NEW s \in SUBSET (1..n)
          PROVE  g[s] = IF s = {} THEN <<>>
                        ELSE g[s \ {Max(s)}] \o HunkRows(p.body, hunks[Max(s)])
      <3>1. CASE s = {}
        BY <1>5, <3>1 DEF FoldingUpto
      <3>2. CASE s # {}
        <4>1. Max(s) \in 1..n
          BY <1>1, <3>2, MaxOfUpto
        <4>2. g[s \ {Max(s)}] \in A
          OBVIOUS
        <4>3. g[s] = step[Max(s)][g[s \ {Max(s)}]]
          BY <1>5, <3>2 DEF FoldingUpto
        <4> QED
          BY <1>1, <3>2, <4>1, <4>2, <4>3
      <3> QED
        BY <3>1, <3>2
    <2> QED
      BY <1>1, <2>1 DEF Rowing
  <1> DEFINE h == CHOOSE f : Rowing(f, p.body, hunks)
  <1>7. Rowing(h, p.body, hunks)
    BY <1>6
  <1>8. Rows(p, context) = h[1..n]
    BY <1>1, RowsAre
  <1> HIDE DEF h, hunks
  <1>9. h[{}] = <<>>
    BY <1>1, <1>7 DEF Rowing
  <1>10. ASSUME NEW s \in SUBSET (1..n), s # {}, h[s \ {Max(s)}] \in A
         PROVE  h[s] = step[Max(s)][h[s \ {Max(s)}]]
    <2>1. h[s] = h[s \ {Max(s)}] \o HunkRows(p.body, hunks[Max(s)])
      BY <1>1, <1>7, <1>10 DEF Rowing
    <2>2. Max(s) \in 1..n
      BY <1>1, <1>10, MaxOfUpto
    <2> QED
      BY <1>1, <1>10, <2>1, <2>2
  <1>11. Steps(h, n, A, <<>>, step)
    <2> HIDE DEF step, A, n
    <2> QED
      BY <1>9, <1>10 DEF Steps
  <1>12. PICK e \in [0..n -> A] : Reaches(e, n, <<>>, step) /\ e[n] = h[1..n]
    <2> HIDE DEF step, A, n
    <2>1. Arrived(h, n, A, <<>>, step)
      BY <1>1, <1>3, <1>4, <1>11, FoldReaches
    <2> QED
      BY <2>1 DEF Arrived
  <1>13. ASSUME NEW k \in 1..n
         PROVE  e[k] = e[k - 1] \o HunkRows(p.body, hunks[k])
    <2>1. e[k] = step[k][e[k - 1]] /\ e[k - 1] \in A
      <3>1. k - 1 \in 0..n
        BY <1>1
      <3> HIDE DEF step, A, n
      <3> QED
        BY <1>12, <3>1 DEF Reaches
    <2> QED
      BY <2>1
  <1>14. e[0] = <<>> /\ e[n] = Rows(p, context)
    BY <1>8, <1>12 DEF Reaches
  <1>15. RowsUpto(e, p.body, hunks) /\ Rows(p, context) = e[Len(hunks)]
    BY <1>12, <1>13, <1>14 DEF RowsUpto
  <1> QED
    BY <1>15 DEF hunks

\* trim's rows are headers and lines of the patch.
LEMMA RowsTyped ==
  ASSUME NEW p \in Patches, NEW context \in Contexts \cup {Full}
  PROVE  Rows(p, context) \in Seq(RowsThereAre(p.body)) /\ Len(p.body) \in Nat
  <1>1. Len(p.body) \in Nat
    BY PatchesAssumption, LenProperties DEF PatchesThereAre
  <1>2. CASE p.isDiff /\ context # Full
    <2>1. context \in Nat
      BY <1>2, AsksAssumption
    <2>2. PICK e : /\ RowsUpto(e, p.body, Hunks(p.body, context))
                   /\ Rows(p, context) = e[Len(Hunks(p.body, context))]
      BY <1>1, <1>2, <2>1, RowsUptoExists
    <2>3. PICK hunks : hunks = Hunks(p.body, context)
      OBVIOUS
    <2>4. Len(hunks) \in Nat
      BY <1>1, <2>1, <2>3, HunksTyped, LenProperties
    <2>5. RowsUpto(e, p.body, hunks) /\ Rows(p, context) = e[Len(hunks)]
      BY <2>2, <2>3
    <2> QED
      BY <1>1, <2>4, <2>5 DEF RowsUpto
  <1>3. CASE ~(p.isDiff /\ context # Full)
    <2>1. Rows(p, context) = Lines(1, Len(p.body))
      BY <1>3 DEF Rows
    <2>2. 1 \in 1..(Len(p.body) + 1) /\ Len(p.body) \in 0..Len(p.body)
      BY <1>1
    <2>3. Lines(1, Len(p.body)) \in Seq(LineRows(p.body))
      BY <1>1, <2>2, LinesTyped
    <2>4. LineRows(p.body) \subseteq RowsThereAre(p.body)
      BY DEF RowsThereAre
    <2> QED
      BY <1>1, <2>1, <2>3, <2>4
  <1> QED
    BY <1>2, <1>3

\* trim answers a text.
LEMMA TextTyped ==
  ASSUME NEW p \in Patches, NEW rows \in Seq(RowsThereAre(p.body))
  PROVE  TextOf(p, rows) \in Seq(Chars)
  <1> DEFINE CharAt(c) == LET row == rows[(c + 1) \div 2]
                          IN  IF c % 2 = 1 THEN "newline"
                              ELSE IF IsHeader(row) THEN "plain" ELSE p.body[row.line].char
             names == IF p.isDiff THEN <<"plain", "newline", "plain">> ELSE <<>>
             text == [c \in 1..(2 * Len(rows)) |-> CharAt(c)]
  <1>1. "plain" \in Chars /\ "newline" \in Chars
    BY CharsAssumption
  <1>2. ASSUME NEW row \in RowsThereAre(p.body), ~IsHeader(row)
        PROVE  p.body[row.line].char \in Chars
    <2>1. row \notin HeaderRows(p.body)
      BY <1>2 DEF IsHeader, HeaderRows
    <2>2. row.line \in 1..Len(p.body)
      BY <2>1 DEF RowsThereAre, LineRows
    <2>3. p.body \in Seq([kind : Kinds, char : Chars])
      BY PatchesAssumption DEF PatchesThereAre
    <2>4. p.body[row.line] \in [kind : Kinds, char : Chars]
      BY <2>2, <2>3, ElementOfSeq
    <2> QED
      BY <2>4
  <1>3. ASSUME NEW c \in 1..(2 * Len(rows))
        PROVE  CharAt(c) \in Chars
    <2>1. Len(rows) \in Nat
      BY LenProperties
    <2>2. (c + 1) \div 2 \in 1..Len(rows)
      BY <2>1
    <2>3. PICK row \in RowsThereAre(p.body) : row = rows[(c + 1) \div 2]
      BY <2>2, ElementOfSeq
    <2>4. CharAt(c) = IF c % 2 = 1 THEN "newline"
                      ELSE IF IsHeader(row) THEN "plain" ELSE p.body[row.line].char
      BY <2>3
    <2> HIDE DEF CharAt
    <2> QED
      BY <1>1, <1>2, <2>4, Zenon
  <1>4. text \in Seq(Chars)
    <2>1. 2 * Len(rows) \in Nat
      BY LenProperties
    <2>2. PICK m \in Nat : m = 2 * Len(rows)
      BY <2>1
    <2>3. text \in [1..m -> Chars]
      <3> HIDE DEF CharAt
      <3> QED
        BY <1>3, <2>2
    <2> HIDE DEF text
    <2> QED
      BY <2>3
  <1>5. names \in Seq(Chars)
    <2>1. PICK a \in Chars, b \in Chars : a = "plain" /\ b = "newline"
      BY <1>1
    <2>2. <<a, b, a>> \in Seq(Chars) /\ <<>> \in Seq(Chars)
      BY <2>1
    <2>3. names = IF p.isDiff THEN <<a, b, a>> ELSE <<>>
      BY <2>1, Zenon
    <2> HIDE DEF names
    <2> QED
      BY <2>2, <2>3
  <1>6. TextOf(p, rows) = names \o text
    BY Zenon DEF TextOf
  <1> HIDE DEF names, text
  <1> QED
    BY <1>4, <1>5, <1>6, ConcatProperties

\* get_file_diff's answer fits what was asked.
LEMMA AnswersFit ==
  ASSUME NEW p \in Patches, NEW context \in Contexts \cup {Full}, NEW max \in MaxBytes
  PROVE  Fits(Presented(p, [context |-> context, max |-> max]))
  <1>1. Presented(p, [context |-> context, max |-> max]) = Truncated(TextOf(p, Rows(p, context)), max)
    BY DEF Presented
  <1>2. TextOf(p, Rows(p, context)) \in Seq(Chars)
    BY RowsTyped, TextTyped
  <1> QED
    BY <1>1, <1>2, TruncatedFits

\* get_file_diff asked for more reads on from what it gave.
LEMMA AnswersGoOn ==
  ASSUME NEW p \in Patches, NEW context \in Contexts \cup {Full},
         NEW max \in MaxBytes, NEW larger \in MaxBytes, max <= larger
  PROVE  GoesOn(Presented(p, [context |-> context, max |-> larger]),
                Presented(p, [context |-> context, max |-> max]))
  <1>1. /\ Presented(p, [context |-> context, max |-> max])
             = Truncated(TextOf(p, Rows(p, context)), max)
        /\ Presented(p, [context |-> context, max |-> larger])
             = Truncated(TextOf(p, Rows(p, context)), larger)
    BY DEF Presented
  <1>2. TextOf(p, Rows(p, context)) \in Seq(Chars)
    BY RowsTyped, TextTyped
  <1> QED
    BY <1>1, <1>2, TruncatedGoesOn

------------------------------------------------------------------------------
(***************************************************************************)
(* trim: the lines of a side, counted; the hunks after each line; a reader *)
(* row by row, who is as far as the last line the rows have.               *)
(***************************************************************************)
\* How many lines a side has up to a line.
Upto(side, j) == Cardinality(side \cap 1..j)

Sided(side, n) == n \in Nat /\ side \in SUBSET (1..n)

\* The lines of a side are counted line by line.
LEMMA Counting ==
  ASSUME NEW n, NEW side, Sided(side, n)
  PROVE  /\ \A j \in 0..n : Upto(side, j) \in Nat
         /\ Upto(side, 0) = 0 /\ Upto(side, n) = Cardinality(side)
         /\ \A j \in 1..n : Upto(side, j) = Upto(side, j - 1) + (IF j \in side THEN 1 ELSE 0)
         /\ \A j, m \in 0..n : j <= m => Upto(side, j) <= Upto(side, m)
  <1>0. n \in Nat /\ side \in SUBSET (1..n)
    BY DEF Sided
  <1>1. ASSUME NEW j \in 0..n
        PROVE  IsFiniteSet(side \cap 1..j) /\ Upto(side, j) \in Nat
    <2>1. IsFiniteSet(1..j)
      BY <1>0, FS_Interval
    <2>2. IsFiniteSet(side \cap 1..j)
      BY <2>1, FS_Subset
    <2> QED
      BY <2>2, FS_CardinalityType DEF Upto
  <1>2. Upto(side, 0) = 0
    <2>1. side \cap 1..0 = {}
      OBVIOUS
    <2> QED
      BY <2>1, FS_EmptySet DEF Upto
  <1>3. Upto(side, n) = Cardinality(side)
    <2>1. side \cap 1..n = side
      BY <1>0
    <2> QED
      BY <2>1 DEF Upto
  <1>4. ASSUME NEW j \in 1..n
        PROVE  Upto(side, j) = Upto(side, j - 1) + (IF j \in side THEN 1 ELSE 0)
    <2>1. j - 1 \in 0..n
      BY <1>0
    <2>2. IsFiniteSet(side \cap 1..(j - 1)) /\ Upto(side, j - 1) \in Nat
      BY <1>1, <2>1
    <2>3. CASE j \in side
      <3>1. side \cap 1..j = (side \cap 1..(j - 1)) \cup {j} /\ j \notin side \cap 1..(j - 1)
        BY <1>0, <2>3
      <3>2. Cardinality(side \cap 1..j) = Cardinality(side \cap 1..(j - 1)) + 1
        BY <2>2, <3>1, FS_AddElement
      <3> QED
        BY <2>3, <3>2 DEF Upto
    <2>4. CASE j \notin side
      <3>1. side \cap 1..j = side \cap 1..(j - 1)
        BY <1>0, <2>4
      <3>2. Upto(side, j) = Upto(side, j - 1)
        BY <3>1, Zenon DEF Upto
      <3> QED
        BY <2>2, <2>4, <3>2
    <2> QED
      BY <2>3, <2>4
  <1>5. ASSUME NEW j \in 0..n, NEW m \in 0..n, j <= m
        PROVE  Upto(side, j) <= Upto(side, m)
    <2>1. side \cap 1..j \subseteq side \cap 1..m
      BY <1>5
    <2> QED
      BY <1>1, <2>1, FS_Subset DEF Upto
  <1> QED
    BY <1>1, <1>2, <1>3, <1>4, <1>5

\* Where a side has every line of a run, it has as many more at the end of it.
LEMMA CountingARun ==
  ASSUME NEW n, NEW side, Sided(side, n), NEW j \in 0..n, NEW m \in 0..n, j <= m,
         \A i \in (j + 1)..m : i \in side
  PROVE  Upto(side, m) = Upto(side, j) + (m - j)
  <1>0. n \in Nat /\ side \in SUBSET (1..n)
    BY DEF Sided
  <1>1. PICK run : run = (j + 1)..m
    OBVIOUS
  <1>2. IsFiniteSet(run) /\ Cardinality(run) = m - j
    <2>1. j + 1 \in Int /\ m \in Int /\ j \in Int
      BY <1>0
    <2>2. IsFiniteSet(run) /\ Cardinality(run) = IF j + 1 > m THEN 0 ELSE m - (j + 1) + 1
      BY <1>1, <2>1, FS_Interval, Zenon
    <2> QED
      BY <2>1, <2>2
  <1>3. PICK before : before = side \cap 1..j
    OBVIOUS
  <1>4. IsFiniteSet(before) /\ Cardinality(before) \in Nat
    <2>1. IsFiniteSet(1..j)
      BY FS_Interval
    <2> QED
      BY <1>3, <2>1, FS_Subset, FS_CardinalityType
  <1>5. side \cap 1..m = before \cup run /\ before \cap run = {}
    BY <1>0, <1>1, <1>3
  <1>6. Cardinality(before \cup run) = Cardinality(before) + Cardinality(run) - Cardinality({})
    BY <1>2, <1>4, <1>5, FS_Union
  <1>7. Cardinality({}) = 0
    BY FS_EmptySet
  <1>8. Upto(side, m) = Cardinality(before \cup run) /\ Upto(side, j) = Cardinality(before)
    BY <1>3, <1>5, Zenon DEF Upto
  <1> QED
    BY <1>2, <1>4, <1>6, <1>7, <1>8

\* The k-th line of a side there is.
LEMMA KthLine ==
  ASSUME NEW n, NEW side, Sided(side, n)
  PROVE  \A k \in 1..Cardinality(side) : \E i \in side : Upto(side, i) = k
  <1>0. n \in Nat /\ side \in SUBSET (1..n)
    BY DEF Sided
  <1> DEFINE Q == {j \in Nat : j <= n => \A k \in 1..Upto(side, j) : \E i \in side : Upto(side, i) = k}
  <1>1. 0 \in Q
    <2>1. Upto(side, 0) = 0
      BY Counting
    <2> QED
      BY <2>1
  <1>2. ASSUME NEW j \in Nat, j \in Q
        PROVE  j + 1 \in Q
    <2>1. SUFFICES ASSUME j + 1 <= n, NEW k \in 1..Upto(side, j + 1)
                   PROVE  \E i \in side : Upto(side, i) = k
      OBVIOUS
    <2>2. j + 1 \in 1..n /\ j \in 0..n /\ (j + 1) - 1 = j
      BY <1>0, <2>1
    <2>3. /\ Upto(side, j) \in Nat
          /\ Upto(side, j + 1) = Upto(side, j) + (IF j + 1 \in side THEN 1 ELSE 0)
      BY <2>2, Counting
    <2>4. CASE k \in 1..Upto(side, j)
      BY <1>2, <2>1, <2>2, <2>4
    <2>5. CASE k \notin 1..Upto(side, j)
      <3>1. j + 1 \in side /\ k = Upto(side, j + 1)
        BY <2>3, <2>5
      <3> QED
        BY <3>1
    <2> QED
      BY <2>4, <2>5
  <1>3. n \in Q
    <2> HIDE DEF Q
    <2> QED
      BY <1>0, <1>1, <1>2, NatInduct
  <1>4. Upto(side, n) = Cardinality(side)
    BY Counting
  <1> QED
    BY <1>0, <1>3, <1>4

\* A side as a file: a line is as far in it as there are lines up to it.
LEMMA FileIs ==
  ASSUME NEW n, NEW side, Sided(side, n)
  PROVE  /\ File(side) \in Seq(Nat)
         /\ Len(File(side)) = Upto(side, n)
         /\ \A i \in side : Upto(side, i) \in 1..Upto(side, n) /\ File(side)[Upto(side, i)] = i
  <1>0. n \in Nat /\ side \in SUBSET (1..n)
    BY DEF Sided
  <1>1. PICK c \in Nat : c = Upto(side, n) /\ c = Cardinality(side)
    <2>1. n \in 0..n
      BY <1>0
    <2> QED
      BY <2>1, Counting
  <1>2. PICK f : f = File(side)
    OBVIOUS
  <1>3. f = [k \in 1..c |-> CHOOSE i \in side : Upto(side, i) = k]
    BY <1>1, <1>2, Zenon DEF File, Ascending, Upto
  <1>4. ASSUME NEW k \in 1..c
        PROVE  f[k] \in side /\ Upto(side, f[k]) = k
    <2>1. \E i \in side : Upto(side, i) = k
      BY <1>1, KthLine
    <2>2. f[k] = CHOOSE i \in side : Upto(side, i) = k
      BY <1>3, Zenon
    <2> QED
      BY <2>1, <2>2, Zenon
  <1>5. f \in Seq(Nat) /\ Len(f) = c
    <2>1. f = [k \in 1..c |-> f[k]]
      BY <1>3
    <2>a. side \subseteq Nat
      BY <1>0
    <2>2. \A k \in 1..c : f[k] \in Nat
      BY <1>4, <2>a, Zenon
    <2>3. f \in [1..c -> Nat]
      BY <2>1, <2>2, Zenon
    <2> QED
      BY <2>3
  <1>6. ASSUME NEW i \in side
        PROVE  Upto(side, i) \in 1..c /\ f[Upto(side, i)] = i
    <2>1. i \in 1..n /\ i - 1 \in 0..n /\ i \in 0..n /\ n \in 0..n /\ i <= n
      BY <1>0
    <2>2. /\ Upto(side, i) = Upto(side, i - 1) + 1
          /\ Upto(side, i - 1) \in Nat /\ Upto(side, i) <= Upto(side, n)
      BY <1>6, <2>1, Counting
    <2>3. Upto(side, i) \in 1..c
      BY <1>1, <2>2
    <2>4. PICK m \in side : m = f[Upto(side, i)] /\ Upto(side, m) = Upto(side, i)
      BY <1>4, <2>3
    <2>5. m \in 1..n /\ m - 1 \in 0..n /\ m \in 0..n
      BY <1>0
    <2>6. /\ Upto(side, m) = Upto(side, m - 1) + 1 /\ Upto(side, m - 1) \in Nat
      BY <2>5, Counting
    <2>7. m = i
      <3>1. CASE m < i
        <4>1. m <= i - 1
          BY <2>1, <2>5, <3>1
        <4>2. Upto(side, m) <= Upto(side, i - 1)
          BY <2>1, <2>5, <4>1, Counting
        <4> QED
          BY <2>2, <2>4, <2>6, <4>2
      <3>2. CASE i < m
        <4>1. i <= m - 1
          BY <2>1, <2>5, <3>2
        <4>2. Upto(side, i) <= Upto(side, m - 1)
          BY <2>1, <2>5, <4>1, Counting
        <4> QED
          BY <2>2, <2>4, <2>6, <4>2
      <3> QED
        BY <2>1, <2>5, <3>1, <3>2
    <2> QED
      BY <2>3, <2>4, <2>7
  <1> QED
    BY <1>1, <1>2, <1>5, <1>6

\* A line within the context of another, and one in a hunk.
Near(i, c, context) == c - context <= i /\ i <= c + context
InHunk(i, hunk) == hunk.start <= i /\ i <= hunk.end

InSome(i, hunks) == \E h \in 1..Len(hunks) : InHunk(i, hunks[h])
NearChange(i, body, context, k) == \E c \in 1..k : Changed(body, c) /\ Near(i, c, context)

\* The hunks do not meet, and each one's end follows its start.
Apart(hunks) ==
  /\ \A h \in 1..Len(hunks) : hunks[h].start <= hunks[h].end
  /\ \A g, h \in 1..Len(hunks) : g < h => hunks[g].end + 1 < hunks[h].start

\* They have the context of the changes in the first k lines.
Cover(hunks, body, context, k) ==
  \A i \in 1..Len(body) : InSome(i, hunks) <=> NearChange(i, body, context, k)

\* The last one neither begins nor ends later than the context of a line to come does.
LastIsBehind(hunks, body, context, k) ==
  Len(hunks) # 0 =>
    \A at \in (k + 1)..Len(body) :
      /\ hunks[Len(hunks)].start <= From(at, context)
      /\ hunks[Len(hunks)].end <= To(at, context, Len(body))

HunksOfFirst(hunks, body, context, k) ==
  /\ hunks \in Seq(Spans(Len(body)))
  /\ Apart(hunks)
  /\ Cover(hunks, body, context, k)
  /\ LastIsBehind(hunks, body, context, k)

\* A line's context within the file begins and ends no later than a later line's.
LEMMA ContextMovesOn ==
  ASSUME NEW n \in Nat, NEW at \in 1..n, NEW later \in at..n, NEW context \in Nat
  PROVE  /\ From(at, context) <= From(later, context)
         /\ To(at, context, n) <= To(later, context, n)
  <1>1. later \in 1..n
    OBVIOUS
  <1>2. /\ From(at, context) = IF 1 >= at - context THEN 1 ELSE at - context
        /\ To(at, context, n) = IF at + context <= n THEN at + context ELSE n
    BY FromTo
  <1>3. /\ From(later, context) = IF 1 >= later - context THEN 1 ELSE later - context
        /\ To(later, context, n) = IF later + context <= n THEN later + context ELSE n
    BY <1>1, FromTo
  <1> QED
    BY <1>2, <1>3

\* A line is near another when it is between the ends of its context.
LEMMA NearIs ==
  ASSUME NEW n \in Nat, NEW at \in 1..n, NEW i \in 1..n, NEW context \in Nat
  PROVE  Near(i, at, context) <=> From(at, context) <= i /\ i <= To(at, context, n)
  <1>1. /\ From(at, context) = IF 1 >= at - context THEN 1 ELSE at - context
        /\ To(at, context, n) = IF at + context <= n THEN at + context ELSE n
    BY FromTo
  <1> QED
    BY <1>1 DEF Near

\* One more line is near no more changes than itself.
LEMMA OneMoreChange ==
  ASSUME NEW body, NEW i, NEW context, NEW k \in Nat
  PROVE  NearChange(i, body, context, k + 1)
           <=> NearChange(i, body, context, k) \/ (Changed(body, k + 1) /\ Near(i, k + 1, context))
  <1>1. \A c : c \in 1..(k + 1) <=> c \in 1..k \/ c = k + 1
    OBVIOUS
  <1> QED
    BY <1>1, Zenon DEF NearChange

\* What a line that is skipped leaves.
LEMMA SkippedKeeps ==
  ASSUME NEW body, Len(body) \in Nat, NEW context \in Nat, NEW k \in 0..(Len(body) - 1), NEW hunks,
         HunksOfFirst(hunks, body, context, k), NEW new, Skips(new, hunks, body, k + 1)
  PROVE  HunksOfFirst(new, body, context, k + 1)
  <1>1. new = hunks /\ ~Changed(body, k + 1)
    BY DEF Skips
  <1>2. Cover(hunks, body, context, k + 1)
    <2>1. k \in Nat
      OBVIOUS
    <2>2. Cover(hunks, body, context, k)
      BY DEF HunksOfFirst
    <2>3. \A i : NearChange(i, body, context, k + 1) <=> NearChange(i, body, context, k)
      BY <1>1, <2>1, OneMoreChange
    <2> QED
      BY <2>2, <2>3, Zenon DEF Cover
  <1>3. LastIsBehind(hunks, body, context, k + 1)
    <2>1. \A at \in ((k + 1) + 1)..Len(body) : at \in (k + 1)..Len(body)
      OBVIOUS
    <2> QED
      BY <2>1, Zenon DEF HunksOfFirst, LastIsBehind
  <1> QED
    BY <1>1, <1>2, <1>3 DEF HunksOfFirst

\* What a line that prolongs the last hunk leaves.
LEMMA ProlongedKeeps ==
  ASSUME NEW body, Len(body) \in Nat, NEW context \in Nat, NEW k \in 0..(Len(body) - 1), NEW hunks,
         HunksOfFirst(hunks, body, context, k), NEW new, Prolongs(new, hunks, body, context, k + 1)
  PROVE  HunksOfFirst(new, body, context, k + 1)
  <1>1. PICK n \in Nat : n = Len(body)
    OBVIOUS
  <1>2. PICK at \in 1..n : at = k + 1
    BY <1>1
  <1>3. hunks \in Seq(Spans(n)) /\ Apart(hunks)
    BY <1>1 DEF HunksOfFirst
  <1>4. PICK from \in 1..at, to \in at..n : from = From(at, context) /\ to = To(at, context, n)
    BY <1>1, FromTo
  <1>5. PICK last : last = Len(hunks)
    OBVIOUS
  <1>6. /\ last \in Nat \ {0} /\ Len(new) = last /\ new \in Seq(Spans(n))
        /\ \A h \in 1..(last - 1) : new[h] = hunks[h]
        /\ new[last] = [start |-> hunks[last].start,
                        end |-> IF hunks[last].end >= to THEN hunks[last].end ELSE to]
        /\ hunks[last].end + 1 >= from
    BY <1>1, <1>2, <1>3, <1>4, <1>5, Prolonged
  <1>7. \A h \in 1..last : hunks[h].start \in 1..n /\ hunks[h].end \in 1..n
    <2>1. \A h \in 1..last : hunks[h] \in Spans(n)
      BY <1>3, <1>5, ElementOfSeq
    <2> QED
      BY <2>1 DEF Spans
  <1>8. hunks[last].start <= from /\ hunks[last].end <= to
    <2>1. at \in (k + 1)..n /\ last # 0
      BY <1>2, <1>6
    <2> QED
      BY <1>1, <1>2, <1>4, <1>5, <2>1, Zenon DEF HunksOfFirst, LastIsBehind
  <1>9. new[last].start = hunks[last].start /\ new[last].end = to
    <2>1. hunks[last].end \in 1..n
      BY <1>6, <1>7
    <2>2. (IF hunks[last].end >= to THEN hunks[last].end ELSE to) = to
      BY <1>8, <2>1
    <2> QED
      BY <1>6, <2>2
  <1>10. /\ \A h \in 1..last : hunks[h].start <= hunks[h].end
         /\ \A g, h \in 1..last : g < h => hunks[g].end + 1 < hunks[h].start
    BY <1>3, <1>5, Zenon DEF Apart
  <1>11. Apart(new)
    <2>1. ASSUME NEW h \in 1..last
          PROVE  new[h].start <= new[h].end
      <3>1. CASE h = last
        BY <1>4, <1>6, <1>7, <1>8, <1>9, <3>1
      <3>2. CASE h # last
        <4>1. h \in 1..(last - 1)
          BY <1>6, <3>2
        <4> QED
          BY <1>6, <1>10, <4>1
      <3> QED
        BY <3>1, <3>2
    <2>2. ASSUME NEW g \in 1..last, NEW h \in 1..last, g < h
          PROVE  new[g].end + 1 < new[h].start
      <3>1. g \in 1..(last - 1) /\ new[g] = hunks[g]
        BY <1>6, <2>2
      <3>2. new[h].start = hunks[h].start
        <4>1. CASE h = last
          BY <1>9, <4>1
        <4>2. CASE h # last
          <5>1. h \in 1..(last - 1)
            BY <1>6, <4>2
          <5> QED
            BY <1>6, <5>1
        <4> QED
          BY <4>1, <4>2
      <3> QED
        BY <1>10, <2>2, <3>1, <3>2
    <2> QED
      BY <1>6, <2>1, <2>2 DEF Apart
  <1>12. ASSUME NEW i \in 1..n
         PROVE  InSome(i, new) <=> InSome(i, hunks) \/ (from <= i /\ i <= to)
    <2>1. InHunk(i, new[last]) <=> InHunk(i, hunks[last]) \/ (from <= i /\ i <= to)
      <3>1. PICK s \in 1..n, e \in 1..n : s = hunks[last].start /\ e = hunks[last].end
        BY <1>6, <1>7, SMTT(30)
      <3>2. s <= from /\ e <= to /\ e + 1 >= from /\ s <= e
        BY <1>6, <1>8, <1>10, <3>1
      <3>3. InHunk(i, new[last]) <=> s <= i /\ i <= to
        BY <1>9, <3>1, Zenon DEF InHunk
      <3>4. InHunk(i, hunks[last]) <=> s <= i /\ i <= e
        BY <3>1, Zenon DEF InHunk
      <3> QED
        BY <1>4, <3>2, <3>3, <3>4
    <2>2. last \in 1..last /\ \A h : h \in 1..last <=> h \in 1..(last - 1) \/ h = last
      BY <1>6
    <2> QED
      BY <1>5, <1>6, <2>1, <2>2, Zenon DEF InSome
  <1>13. Cover(new, body, context, k + 1)
    <2>1. ASSUME NEW i \in 1..n
          PROVE  InSome(i, new) <=> NearChange(i, body, context, k + 1)
      <3>1. InSome(i, hunks) <=> NearChange(i, body, context, k)
        BY <1>1, Zenon DEF HunksOfFirst, Cover
      <3>2. Changed(body, k + 1)
        BY DEF Prolongs
      <3>3. Near(i, k + 1, context) <=> from <= i /\ i <= to
        BY <1>2, <1>4, NearIs
      <3>4. k \in Nat
        BY <1>1
      <3> QED
        BY <1>12, <3>1, <3>2, <3>3, <3>4, OneMoreChange
    <2> QED
      BY <1>1, <2>1, Zenon DEF Cover
  <1>14. LastIsBehind(new, body, context, k + 1)
    <2>1. ASSUME NEW later \in ((k + 1) + 1)..n
          PROVE  new[last].start <= From(later, context) /\ new[last].end <= To(later, context, n)
      <3>1. later \in at..n /\ later \in 1..n
        BY <1>2
      <3>2. from <= From(later, context) /\ to <= To(later, context, n)
        BY <1>4, <3>1, ContextMovesOn
      <3>3. From(later, context) \in 1..later /\ To(later, context, n) \in later..n
        BY <3>1, FromTo
      <3>4. hunks[last].start \in 1..n
        BY <1>6, <1>7
      <3> QED
        BY <1>4, <1>8, <1>9, <3>2, <3>3, <3>4
    <2> QED
      BY <1>1, <1>6, <2>1, Zenon DEF LastIsBehind
  <1> QED
    BY <1>1, <1>6, <1>11, <1>13, <1>14 DEF HunksOfFirst

\* What a line that opens a hunk leaves.
LEMMA OpenedKeeps ==
  ASSUME NEW body, Len(body) \in Nat, NEW context \in Nat, NEW k \in 0..(Len(body) - 1), NEW hunks,
         HunksOfFirst(hunks, body, context, k), NEW new, Opens(new, hunks, body, context, k + 1)
  PROVE  HunksOfFirst(new, body, context, k + 1)
  <1>1. PICK n \in Nat : n = Len(body)
    OBVIOUS
  <1>2. PICK at \in 1..n : at = k + 1
    BY <1>1
  <1>3. hunks \in Seq(Spans(n)) /\ Apart(hunks)
    BY <1>1 DEF HunksOfFirst
  <1>4. PICK from \in 1..at, to \in at..n : from = From(at, context) /\ to = To(at, context, n)
    BY <1>1, FromTo
  <1>5. PICK last : last = Len(hunks)
    OBVIOUS
  <1>6. /\ last \in Nat /\ Len(new) = last + 1 /\ new \in Seq(Spans(n))
        /\ \A h \in 1..last : new[h] = hunks[h]
        /\ new[last + 1] = [start |-> from, end |-> to]
        /\ last # 0 => ~(hunks[last].end + 1 >= from)
    BY <1>1, <1>2, <1>3, <1>4, <1>5, Opened
  <1>7. \A h \in 1..last : hunks[h].start \in 1..n /\ hunks[h].end \in 1..n
    <2>1. \A h \in 1..last : hunks[h] \in Spans(n)
      BY <1>3, <1>5, ElementOfSeq
    <2> QED
      BY <2>1 DEF Spans
  <1>8. new[last + 1].start = from /\ new[last + 1].end = to
    BY <1>6
  <1>9. /\ \A h \in 1..last : hunks[h].start <= hunks[h].end
        /\ \A g, h \in 1..last : g < h => hunks[g].end + 1 < hunks[h].start
    BY <1>3, <1>5, Zenon DEF Apart
  <1>10. \A g \in 1..last : hunks[g].end + 1 < from
    <2>1. SUFFICES ASSUME NEW g \in 1..last
                   PROVE  hunks[g].end + 1 < from
      OBVIOUS
    <2>2. last \in 1..last
      BY <1>6
    <2>3. PICK e \in 1..n : e = hunks[last].end
      BY <1>7, <2>2
    <2>4. e + 1 < from
      BY <1>4, <1>6, <2>2, <2>3, SMTT(30)
    <2>5. CASE g = last
      BY <2>3, <2>4, <2>5
    <2>6. CASE g # last
      <3>1. g < last
        BY <1>6, <2>6
      <3>2. PICK a \in 1..n, s \in 1..n : a = hunks[g].end /\ s = hunks[last].start
        BY <1>7, <2>2
      <3>3. a + 1 < s /\ s <= e
        BY <1>9, <2>2, <2>3, <3>1, <3>2
      <3>4. a + 1 < from
        BY <1>4, <2>4, <3>3
      <3> QED
        BY <3>2, <3>4
    <2> QED
      BY <2>5, <2>6
  <1>11. Apart(new)
    <2>1. ASSUME NEW h \in 1..(last + 1)
          PROVE  new[h].start <= new[h].end
      <3>1. CASE h = last + 1
        BY <1>4, <1>8, <3>1
      <3>2. CASE h # last + 1
        <4>1. h \in 1..last
          BY <1>6, <3>2
        <4> QED
          BY <1>6, <1>9, <4>1
      <3> QED
        BY <3>1, <3>2
    <2>2. ASSUME NEW g \in 1..(last + 1), NEW h \in 1..(last + 1), g < h
          PROVE  new[g].end + 1 < new[h].start
      <3>1. g \in 1..last /\ new[g] = hunks[g]
        BY <1>6, <2>2
      <3>2. CASE h = last + 1
        BY <1>8, <1>10, <3>1, <3>2
      <3>3. CASE h # last + 1
        <4>1. h \in 1..last /\ new[h] = hunks[h]
          BY <1>6, <3>3
        <4> QED
          BY <1>9, <2>2, <3>1, <4>1
      <3> QED
        BY <3>2, <3>3
    <2> QED
      BY <1>6, <2>1, <2>2 DEF Apart
  <1>12. ASSUME NEW i \in 1..n
         PROVE  InSome(i, new) <=> InSome(i, hunks) \/ (from <= i /\ i <= to)
    <2>1. InHunk(i, new[last + 1]) <=> from <= i /\ i <= to
      BY <1>8, Zenon DEF InHunk
    <2>2. \A h : h \in 1..(last + 1) <=> h \in 1..last \/ h = last + 1
      BY <1>6
    <2> QED
      BY <1>5, <1>6, <2>1, <2>2, Zenon DEF InSome
  <1>13. Cover(new, body, context, k + 1)
    <2>1. ASSUME NEW i \in 1..n
          PROVE  InSome(i, new) <=> NearChange(i, body, context, k + 1)
      <3>1. InSome(i, hunks) <=> NearChange(i, body, context, k)
        BY <1>1, Zenon DEF HunksOfFirst, Cover
      <3>2. Changed(body, k + 1)
        BY DEF Opens
      <3>3. Near(i, k + 1, context) <=> from <= i /\ i <= to
        BY <1>2, <1>4, NearIs
      <3>4. k \in Nat
        BY <1>1
      <3> QED
        BY <1>12, <3>1, <3>2, <3>3, <3>4, OneMoreChange
    <2> QED
      BY <1>1, <2>1, Zenon DEF Cover
  <1>14. LastIsBehind(new, body, context, k + 1)
    <2>1. ASSUME NEW later \in ((k + 1) + 1)..n
          PROVE  /\ new[last + 1].start <= From(later, context)
                 /\ new[last + 1].end <= To(later, context, n)
      <3>1. later \in at..n
        BY <1>2
      <3>2. from <= From(later, context) /\ to <= To(later, context, n)
        BY <1>4, <3>1, ContextMovesOn
      <3> QED
        BY <1>8, <3>2
    <2> QED
      BY <1>1, <1>6, <2>1, Zenon DEF LastIsBehind
  <1> QED
    BY <1>1, <1>6, <1>11, <1>13, <1>14 DEF HunksOfFirst

\* hunks: what they are once every line was looked at.
LEMMA HunksHold ==
  ASSUME NEW body, Len(body) \in Nat, NEW context \in Nat
  PROVE  HunksOfFirst(Hunks(body, context), body, context, Len(body))
  <1>1. PICK e : HunksUpto(e, body, context)
    BY HunksUptoExists
  <1> DEFINE n == Len(body)
             Q == {k \in Nat : k <= n => HunksOfFirst(e[k], body, context, k)}
  <1>2. 0 \in Q
    <2>1. e[0] = <<>> /\ Len(e[0]) = 0 /\ <<>> \in Seq(Spans(n))
      BY <1>1 DEF HunksUpto
    <2>2. 1..0 = {}
      OBVIOUS
    <2>3. Apart(e[0]) /\ LastIsBehind(e[0], body, context, 0)
      BY <2>1, <2>2 DEF Apart, LastIsBehind
    <2>4. Cover(e[0], body, context, 0)
      BY <2>1, <2>2 DEF Cover, InSome, NearChange
    <2> QED
      BY <2>1, <2>3, <2>4 DEF HunksOfFirst
  <1>3. ASSUME NEW k \in Nat, k \in Q
        PROVE  k + 1 \in Q
    <2>1. SUFFICES ASSUME k + 1 <= n
                   PROVE  HunksOfFirst(e[k + 1], body, context, k + 1)
      OBVIOUS
    <2>2. k \in 0..(n - 1) /\ k + 1 \in 1..n /\ (k + 1) - 1 = k
      BY <2>1
    <2>3. HunksOfFirst(e[k], body, context, k)
      BY <1>3, <2>2
    <2>4. e[k + 1] = WithLine(e[k], body, context, k + 1)
      BY <1>1, <2>2 DEF HunksUpto
    <2>5. PICK new : new = e[k + 1]
      OBVIOUS
    <2>6. \/ Skips(new, e[k], body, k + 1)
          \/ Prolongs(new, e[k], body, context, k + 1)
          \/ Opens(new, e[k], body, context, k + 1)
      BY <2>4, <2>5, LineIsOneOf
    <2> HIDE DEF Q
    <2> QED
      BY <2>2, <2>3, <2>5, <2>6, SkippedKeeps, ProlongedKeeps, OpenedKeeps
  <1>4. n \in Q
    <2> HIDE DEF Q
    <2> QED
      BY <1>2, <1>3, NatInduct
  <1>5. Hunks(body, context) = e[n]
    BY <1>1 DEF HunksUpto
  <1> QED
    BY <1>4, <1>5

\* trim's hunks are the runs of lines within the context of a change.
LEMMA HunksAreRuns ==
  ASSUME NEW body, Len(body) \in Nat, NEW context \in Nat
  PROVE  AreRuns(body, context)
  <1>1. PICK n \in Nat : n = Len(body)
    OBVIOUS
  <1>2. PICK hunks : hunks = Hunks(body, context)
    OBVIOUS
  <1>3. hunks \in Seq(Spans(n)) /\ Apart(hunks) /\ Cover(hunks, body, context, n)
    BY <1>1, <1>2, HunksHold DEF HunksOfFirst
  <1>4. DOMAIN hunks = 1..Len(hunks) /\ Len(hunks) \in Nat
        /\ \A h \in 1..Len(hunks) : hunks[h].start \in 1..n /\ hunks[h].end \in 1..n
    <2>1. \A h \in 1..Len(hunks) : hunks[h] \in Spans(n)
      BY <1>3, ElementOfSeq
    <2> QED
      BY <1>3, <2>1, LenProperties DEF Spans
  <1>5. ASSUME NEW i
        PROVE  (\E h \in DOMAIN hunks : i \in hunks[h].start..hunks[h].end)
                 <=> i \in 1..n /\ \E c \in 1..n : Changed(body, c) /\ i - c \in -context..context
    <2>1. (\E h \in DOMAIN hunks : i \in hunks[h].start..hunks[h].end) => i \in 1..n
      BY <1>4
    <2>2. ASSUME i \in 1..n
          PROVE  (\E h \in DOMAIN hunks : i \in hunks[h].start..hunks[h].end)
                   <=> \E c \in 1..n : Changed(body, c) /\ i - c \in -context..context
      <3>1. (\E h \in DOMAIN hunks : i \in hunks[h].start..hunks[h].end) <=> InSome(i, hunks)
        <4>1. \A h \in 1..Len(hunks) : i \in hunks[h].start..hunks[h].end <=> InHunk(i, hunks[h])
          BY <1>4, <2>2 DEF InHunk
        <4> QED
          BY <1>4, <4>1, Zenon DEF InSome
      <3>2. \A c \in 1..n : i - c \in -context..context <=> Near(i, c, context)
        BY <2>2 DEF Near
      <3>3. (\E c \in 1..n : Changed(body, c) /\ i - c \in -context..context)
              <=> NearChange(i, body, context, n)
        BY <3>2, Zenon DEF NearChange
      <3> QED
        BY <1>1, <1>3, <2>2, <3>1, <3>3, Zenon DEF Cover
    <2> QED
      BY <2>1, <2>2
  <1>6. UNION {hunks[h].start..hunks[h].end : h \in DOMAIN hunks}
          = {i \in 1..n : \E c \in 1..n : Changed(body, c) /\ i - c \in -context..context}
    BY <1>5, Zenon
  <1>7. \A h \in 1..(Len(hunks) - 1) : hunks[h].end + 1 < hunks[h + 1].start
    <2>1. \A h \in 1..(Len(hunks) - 1) :
            h \in 1..Len(hunks) /\ h + 1 \in 1..Len(hunks) /\ h < h + 1
      BY <1>4
    <2> QED
      BY <1>3, <2>1, Zenon DEF Apart
  <1> QED
    BY <1>1, <1>2, <1>6, <1>7, Zenon DEF AreRuns

\* What a reader of the patch has read and made, whatever the rows.
Doings == [read : Nat, out : Seq(Nat), ok : BOOLEAN]

\* What is before a hunk in a side, as its header has it.
LEMMA HeaderTells ==
  ASSUME NEW body, Len(body) \in Nat, NEW hunk \in Spans(Len(body))
  PROVE  /\ LinesBefore(Header(body, hunk).first) = Upto(InFirst(body), hunk.start - 1)
         /\ LinesBefore(Header(body, hunk).second) = Upto(InSecond(body), hunk.start - 1)
         /\ Upto(InFirst(body), hunk.start - 1) \in Nat
         /\ Upto(InSecond(body), hunk.start - 1) \in Nat
  <1>1. ASSUME NEW side \in {InFirst(body), InSecond(body)}
        PROVE  /\ LinesBefore(Side(side, hunk)) = Upto(side, hunk.start - 1)
               /\ Upto(side, hunk.start - 1) \in Nat
    <2>1. Sided(side, Len(body))
      BY DEF InFirst, InSecond, Sided
    <2>2. hunk.start - 1 \in 0..Len(body)
      BY DEF Spans
    <2>3. PICK b \in Nat : b = Upto(side, hunk.start - 1)
      BY <2>1, <2>2, Counting
    <2>4. Before(side, hunk) = b
      BY <2>3, Zenon DEF Before, Upto
    <2>5. PICK c : c = Count(side, hunk)
      OBVIOUS
    <2>6. PICK at : at = b + (IF c = 0 THEN 0 ELSE 1)
      OBVIOUS
    <2>7. Side(side, hunk) = [at |-> at, count |-> c]
      BY <2>4, <2>5, <2>6, Zenon DEF Side, Start
    <2>8. LinesBefore(Side(side, hunk)) = IF c = 0 THEN at ELSE at - 1
      BY <2>7 DEF LinesBefore
    <2> QED
      BY <2>3, <2>6, <2>8
  <1>2. Header(body, hunk).first = Side(InFirst(body), hunk)
        /\ Header(body, hunk).second = Side(InSecond(body), hunk)
    BY DEF Header
  <1> QED
    BY <1>1, <1>2

\* A row is a header, or a line of the patch.
LEMMA RowIsOneOf ==
  ASSUME NEW body, NEW row \in RowsThereAre(body)
  PROVE  \/ IsHeader(row) /\ \E hunk \in Spans(Len(body)) : row.header = Header(body, hunk)
         \/ ~IsHeader(row) /\ row.line \in 1..Len(body)
  <1>1. CASE row \in LineRows(body)
    BY <1>1 DEF LineRows, IsHeader
  <1>2. CASE row \in HeaderRows(body)
    BY <1>2 DEF HeaderRows, IsHeader
  <1> QED
    BY <1>1, <1>2 DEF RowsThereAre

\* A reader of a row goes on from what it had.
LEMMA AfterRowTyped ==
  ASSUME NEW body, Len(body) \in Nat, NEW file \in Seq(Nat), NEW done \in Doings,
         NEW row \in RowsThereAre(body)
  PROVE  AfterRow(body, file, done, row) \in Doings
  <1>1. PICK read \in Nat, made \in Seq(Nat), ok \in BOOLEAN :
          read = done.read /\ made = done.out /\ ok = done.ok
    BY DEF Doings
  <1>2. CASE IsHeader(row)
    <2>1. PICK hunk \in Spans(Len(body)) : row.header = Header(body, hunk)
      BY <1>2, RowIsOneOf
    <2>2. PICK to \in Nat : to = LinesBefore(row.header.first)
      BY <2>1, HeaderTells
    <2>3. PICK len \in Nat : len = Len(file)
      BY LenProperties
    <2>4. PICK upto \in Nat : upto = Min({to, Len(file)}) /\ upto <= len
      <3>0. to \in Int /\ len \in Int
        OBVIOUS
      <3>1. Min({to, len}) = IF to <= len THEN to ELSE len
        BY <3>0, LargerOf, Zenon
      <3>2. Min({to, Len(file)}) = Min({to, len})
        BY <2>3
      <3>3. Min({to, len}) \in Nat /\ Min({to, len}) <= len
        BY <3>1
      <3> QED
        BY <3>2, <3>3, Zenon
    <2>5. PICK from \in Nat \ {0} : from = read + 1
      OBVIOUS
    <2>6. SubSeq(file, from, upto) \in Seq(Nat)
      <3>1. \A i \in from..upto : i \in 1..Len(file)
        BY <2>3, <2>4
      <3>2. \A i \in from..upto : file[i] \in Nat
        BY <3>1, ElementOfSeq
      <3> QED
        BY <3>2, SubSeqProperties
    <2>7. PICK out \in Seq(Nat) : out = done.out \o SubSeq(file, done.read + 1, Min({to, Len(file)}))
      BY <1>1, <2>4, <2>5, <2>6, ConcatProperties
    <2>8. PICK fits \in BOOLEAN :
            fits = (/\ done.ok /\ done.read <= to /\ to <= Len(file)
                    /\ Len(out) = LinesBefore(row.header.second))
      BY <1>1
    <2>9. AfterHeader(file, done, row.header) = [read |-> to, out |-> out, ok |-> fits]
      BY <2>2, <2>7, <2>8, Zenon DEF AfterHeader
    <2>10. [read |-> to, out |-> out, ok |-> fits] \in Doings
      BY DEF Doings
    <2> QED
      BY <1>2, <2>9, <2>10, Zenon DEF AfterRow
  <1>3. CASE ~IsHeader(row)
    <2>1. PICK line \in Nat : line = row.line
      <3>1. row.line \in 1..Len(body)
        BY <1>3, RowIsOneOf
      <3> QED
        BY <3>1
    <2>2. PICK next \in Nat : next = IF line \in InFirst(body) THEN done.read + 1 ELSE done.read
      BY <1>1
    <2>3. PICK out \in Seq(Nat) : out = IF line \in InSecond(body) THEN Append(done.out, line) ELSE done.out
      BY <1>1, <2>1, AppendProperties
    <2>4. PICK fits \in BOOLEAN :
            fits = (/\ done.ok
                    /\ line \in InFirst(body) => done.read < Len(file) /\ file[done.read + 1] = line)
      BY <1>1
    <2>5. AfterLine(body, file, done, line) = [read |-> next, out |-> out, ok |-> fits]
      BY <2>2, <2>3, <2>4, Zenon DEF AfterLine
    <2>6. [read |-> next, out |-> out, ok |-> fits] \in Doings
      BY DEF Doings
    <2> QED
      BY <1>3, <2>1, <2>5, <2>6, Zenon DEF AfterRow
  <1> QED
    BY <1>2, <1>3

Applying(g, body, file, rows) ==
  g = [s \in SUBSET DOMAIN rows |->
         IF s = {} THEN Unread ELSE AfterRow(body, file, g[s \ {Max(s)}], rows[Max(s)])]

\* What a reader makes of the rows, as the value of the fold it is.
LEMMA AfterRowsAre ==
  ASSUME NEW body, NEW file, NEW rows
  PROVE  AfterRows(body, file, rows) = (CHOOSE g : Applying(g, body, file, rows))[DOMAIN rows]
  BY DEF AfterRows, FoldLeft, MapThenFoldSet, Applying

\* What a reader made of the first rows, row by row.
AfterUpto(e, body, file, rows) ==
  /\ e \in [0..Len(rows) -> Doings]
  /\ e[0] = Unread
  /\ \A k \in 1..Len(rows) : e[k] = AfterRow(body, file, e[k - 1], rows[k])
  /\ AfterRows(body, file, rows) = e[Len(rows)]

\* What a reader made of the rows exists, row by row.
LEMMA AfterUptoExists ==
  ASSUME NEW body, Len(body) \in Nat, NEW file \in Seq(Nat), NEW rows \in Seq(RowsThereAre(body))
  PROVE  \E e : AfterUpto(e, body, file, rows)
  <1> DEFINE n == Len(rows)
             A == Doings
             step == [i \in 1..n |-> [a \in A |-> AfterRow(body, file, a, rows[i])]]
  <1>1. n \in Nat /\ DOMAIN rows = 1..n /\ \A i \in 1..n : rows[i] \in RowsThereAre(body)
    BY LenProperties, ElementOfSeq
  <1>2. \A i \in 1..n, a \in A : AfterRow(body, file, a, rows[i]) \in A
    <2> HIDE DEF n, A
    <2> QED
      BY <1>1, AfterRowTyped DEF A
  <1> HIDE DEF A
  <1>3. Closed(n, A, step)
    BY <1>2 DEF Closed
  <1>4. Unread \in A
    BY EmptySeq DEF A, Doings, Unread
  <1>5. PICK g \in [SUBSET (1..n) -> A] : FoldingUpto(g, n, Unread, step)
    <2> HIDE DEF step, n
    <2> QED
      BY <1>1, <1>3, <1>4, FoldUpto
  <1>6. Applying(g, body, file, rows)
    <2>1. ASSUME NEW s \in SUBSET (1..n)
          PROVE  g[s] = IF s = {} THEN Unread
                        ELSE AfterRow(body, file, g[s \ {Max(s)}], rows[Max(s)])
      <3>1. CASE s = {}
        BY <1>5, <3>1 DEF FoldingUpto
      <3>2. CASE s # {}
        <4>1. Max(s) \in 1..n
          BY <1>1, <3>2, MaxOfUpto
        <4>2. g[s \ {Max(s)}] \in A
          OBVIOUS
        <4>3. g[s] = step[Max(s)][g[s \ {Max(s)}]]
          BY <1>5, <3>2 DEF FoldingUpto
        <4> QED
          BY <1>1, <3>2, <4>1, <4>2, <4>3
      <3> QED
        BY <3>1, <3>2
    <2> QED
      BY <1>1, <2>1 DEF Applying
  <1> DEFINE h == CHOOSE f : Applying(f, body, file, rows)
  <1>7. Applying(h, body, file, rows)
    BY <1>6
  <1>8. AfterRows(body, file, rows) = h[1..n]
    BY <1>1, AfterRowsAre
  <1> HIDE DEF h
  <1>9. h[{}] = Unread
    BY <1>1, <1>7 DEF Applying
  <1>10. ASSUME NEW s \in SUBSET (1..n), s # {}, h[s \ {Max(s)}] \in A
         PROVE  h[s] = step[Max(s)][h[s \ {Max(s)}]]
    <2>1. h[s] = AfterRow(body, file, h[s \ {Max(s)}], rows[Max(s)])
      BY <1>1, <1>7, <1>10 DEF Applying
    <2>2. Max(s) \in 1..n
      BY <1>1, <1>10, MaxOfUpto
    <2> QED
      BY <1>1, <1>10, <2>1, <2>2
  <1>11. Steps(h, n, A, Unread, step)
    <2> HIDE DEF step, n
    <2> QED
      BY <1>9, <1>10 DEF Steps
  <1>12. PICK e \in [0..n -> A] : Reaches(e, n, Unread, step) /\ e[n] = h[1..n]
    <2> HIDE DEF step, n
    <2>1. Arrived(h, n, A, Unread, step)
      BY <1>1, <1>3, <1>4, <1>11, FoldReaches
    <2> QED
      BY <2>1 DEF Arrived
  <1>13. ASSUME NEW k \in 1..n
         PROVE  e[k] = AfterRow(body, file, e[k - 1], rows[k])
    <2>1. e[k] = step[k][e[k - 1]] /\ e[k - 1] \in A
      <3>1. k - 1 \in 0..n
        BY <1>1
      <3> HIDE DEF step, n
      <3> QED
        BY <1>12, <3>1 DEF Reaches
    <2> QED
      BY <2>1
  <1>14. e[0] = Unread /\ e[n] = AfterRows(body, file, rows)
    BY <1>8, <1>12 DEF Reaches
  <1>15. e \in [0..Len(rows) -> Doings]
    BY <1>12 DEF A
  <1> HIDE DEF step
  <1> QED
    BY <1>13, <1>14, <1>15 DEF AfterUpto

\* Two sequences of rows, the one with one row more than the other.
IsOneMore(more, rows, row) ==
  Len(more) = Len(rows) + 1 /\ more[Len(rows) + 1] = row /\ \A k \in 1..Len(rows) : more[k] = rows[k]

\* A reader of one more row has made of the others what it would without.
LEMMA OneMoreRow ==
  ASSUME NEW body, Len(body) \in Nat, NEW file \in Seq(Nat), NEW rows \in Seq(RowsThereAre(body)),
         NEW row \in RowsThereAre(body)
  PROVE  /\ AfterRows(body, file, Append(rows, row))
              = AfterRow(body, file, AfterRows(body, file, rows), row)
         /\ Append(rows, row) \in Seq(RowsThereAre(body))
  <1>1. PICK more : more = Append(rows, row)
    OBVIOUS
  <1>2. more \in Seq(RowsThereAre(body)) /\ IsOneMore(more, rows, row)
    BY <1>1, AppendProperties DEF IsOneMore
  <1>3. PICK n \in Nat : n = Len(rows) /\ n + 1 = Len(more)
    BY <1>2, LenProperties DEF IsOneMore
  <1>4. PICK e : AfterUpto(e, body, file, rows)
    BY AfterUptoExists
  <1>5. PICK d : AfterUpto(d, body, file, more)
    BY <1>2, AfterUptoExists
  <1> DEFINE Q == {k \in Nat : k <= n => d[k] = e[k]}
  <1>6. 0 \in Q
    BY <1>4, <1>5 DEF AfterUpto
  <1>7. ASSUME NEW k \in Nat, k \in Q
        PROVE  k + 1 \in Q
    <2>1. SUFFICES ASSUME k + 1 <= n
                   PROVE  d[k + 1] = e[k + 1]
      OBVIOUS
    <2>2. k + 1 \in 1..Len(rows) /\ k + 1 \in 1..Len(more) /\ (k + 1) - 1 = k
      BY <1>3, <2>1
    <2>3. /\ e[k + 1] = AfterRow(body, file, e[k], rows[k + 1])
          /\ d[k + 1] = AfterRow(body, file, d[k], more[k + 1])
      BY <1>4, <1>5, <2>2 DEF AfterUpto
    <2>4. more[k + 1] = rows[k + 1] /\ d[k] = e[k]
      BY <1>2, <1>7, <2>1, <2>2 DEF IsOneMore
    <2> QED
      BY <2>3, <2>4
  <1>8. n \in Q
    <2> HIDE DEF Q
    <2> QED
      BY <1>3, <1>6, <1>7, NatInduct
  <1>9. d[n] = e[n]
    BY <1>8
  <1>10. d[n + 1] = AfterRow(body, file, d[n], row)
    <2>1. n + 1 \in 1..Len(more) /\ (n + 1) - 1 = n
      BY <1>3
    <2>2. d[n + 1] = AfterRow(body, file, d[n], more[n + 1])
      BY <1>5, <2>1 DEF AfterUpto
    <2> QED
      BY <1>2, <1>3, <2>2 DEF IsOneMore
  <1>11. AfterRows(body, file, rows) = e[n] /\ AfterRows(body, file, more) = d[n + 1]
    BY <1>3, <1>4, <1>5 DEF AfterUpto
  <1> QED
    BY <1>1, <1>2, <1>9, <1>10, <1>11

\* A reader that has read no row.
LEMMA NoRows ==
  ASSUME NEW body, Len(body) \in Nat, NEW file \in Seq(Nat)
  PROVE  AfterRows(body, file, <<>>) = Unread
  <1>1. <<>> \in Seq(RowsThereAre(body)) /\ Len(<<>>) = 0
    OBVIOUS
  <1>2. PICK rows : rows = <<>>
    OBVIOUS
  <1>3. PICK e : AfterUpto(e, body, file, rows)
    BY <1>1, <1>2, AfterUptoExists
  <1>4. Len(rows) = 0
    BY <1>1, <1>2
  <1> QED
    BY <1>2, <1>3, <1>4 DEF AfterUpto

\* A reader that is as far as a line: it has read the first file up to there, and made
\* the second up to there.
AsFarAs(body, j) ==
  [read |-> Upto(InFirst(body), j),
   out  |-> SubSeq(File(InSecond(body)), 1, Upto(InSecond(body), j)),
   ok   |-> TRUE]

\* A side has no more lines up to one line than up to a later one.
LEMMA CountsOf ==
  ASSUME NEW n, NEW side, Sided(side, n), NEW j \in 0..n, NEW m \in j..n
  PROVE  /\ Upto(side, j) \in Nat /\ Upto(side, m) \in Nat /\ Upto(side, n) \in Nat
         /\ Upto(side, j) <= Upto(side, m) /\ Upto(side, m) <= Upto(side, n)
  <1>1. n \in 0..n /\ m \in 0..n /\ j <= m /\ m <= n
    BY DEF Sided
  <1>2. /\ \A k \in 0..n : Upto(side, k) \in Nat
        /\ \A k, l \in 0..n : k <= l => Upto(side, k) <= Upto(side, l)
    BY Counting
  <1> QED
    BY <1>1, <1>2, Zenon

\* The two sides of a patch are lines of it, and a line that did not change is in both.
LEMMA SidesAre ==
  ASSUME NEW body \in Seq([kind : Kinds, char : Chars])
  PROVE  /\ Len(body) \in Nat
         /\ Sided(InFirst(body), Len(body)) /\ Sided(InSecond(body), Len(body))
         /\ \A i \in 1..Len(body) :
              ~Changed(body, i) => i \in InFirst(body) /\ i \in InSecond(body)
  <1>1. Len(body) \in Nat
    BY LenProperties
  <1>2. Sided(InFirst(body), Len(body)) /\ Sided(InSecond(body), Len(body))
    BY <1>1 DEF Sided, InFirst, InSecond
  <1>3. ASSUME NEW i \in 1..Len(body), ~Changed(body, i)
        PROVE  i \in InFirst(body) /\ i \in InSecond(body)
    <2>1. body[i].kind = "context"
      BY <1>3 DEF Changed
    <2> QED
      BY <2>1 DEF InFirst, InSecond
  <1> QED
    BY <1>1, <1>2, <1>3

\* A side's part that has every line of a run.
IsRunOf(part, j, m) == Len(part) = m - j /\ \A p \in 1..(m - j) : part[p] = j + p

\* Such a part is what a file has from one line to another that a side has all between.
LEMMA RunOfASide ==
  ASSUME NEW n, NEW side, Sided(side, n), NEW j \in 0..n, NEW m \in j..n,
         \A i \in (j + 1)..m : i \in side
  PROVE  LET part == SubSeq(File(side), Upto(side, j) + 1, Upto(side, m))
         IN  part \in Seq(Nat) /\ IsRunOf(part, j, m)
  <1>0. n \in Nat /\ m \in 0..n /\ j <= m
    BY DEF Sided
  <1>1. PICK file \in Seq(Nat) :
          /\ file = File(side) /\ Len(file) = Upto(side, n)
          /\ \A i \in side : Upto(side, i) \in 1..Upto(side, n) /\ file[Upto(side, i)] = i
    BY FileIs
  <1>2. PICK a \in Nat, b \in Nat, c \in Nat : a = Upto(side, j) /\ b = Upto(side, m) /\ c = Upto(side, n)
    <2>1. n \in 0..n
      BY <1>0
    <2> QED
      BY <1>0, <2>1, Counting
  <1>3. b = a + (m - j)
    BY <1>0, <1>2, CountingARun
  <1>4. b <= c
    <2>1. n \in 0..n /\ m <= n
      BY <1>0
    <2> QED
      BY <1>0, <1>2, <2>1, Counting
  <1>5. ASSUME NEW p \in 1..(m - j)
        PROVE  file[a + p] = j + p
    <2>1. j + p \in 0..n /\ j <= j + p /\ j + p \in (j + 1)..m
      BY <1>0
    <2>2. PICK i \in 0..n : i = j + p
      BY <2>1
    <2>3. i \in side /\ \A q \in (j + 1)..i : q \in side
      BY <1>0, <2>1, <2>2
    <2>4. Upto(side, i) = Upto(side, j) + (i - j)
      BY <2>1, <2>2, <2>3, CountingARun
    <2>5. Upto(side, i) = a + p
      BY <1>2, <2>2, <2>4
    <2> QED
      BY <1>1, <2>2, <2>3, <2>5
  <1>6. PICK part : part = SubSeq(file, a + 1, b)
    OBVIOUS
  <1>7. /\ part \in Seq(Nat) /\ Len(part) = b - (a + 1) + 1
        /\ \A p \in 1..(b - (a + 1) + 1) : part[p] = file[(a + 1) + p - 1]
    <2>1. a + 1 \in 1..(Len(file) + 1) /\ b \in ((a + 1) - 1)..Len(file)
      BY <1>0, <1>1, <1>2, <1>3, <1>4
    <2>2. PICK s : s = a + 1
      OBVIOUS
    <2> QED
      BY <1>6, <2>1, <2>2, PartOf
  <1>8. Len(part) = m - j
    BY <1>0, <1>3, <1>7
  <1>9. ASSUME NEW p \in 1..(m - j)
        PROVE  part[p] = j + p
    <2>1. p \in 1..(b - (a + 1) + 1) /\ (a + 1) + p - 1 = a + p
      BY <1>0, <1>3
    <2> QED
      BY <1>5, <1>7, <2>1
  <1>10. IsRunOf(part, j, m)
    BY <1>8, <1>9 DEF IsRunOf
  <1> QED
    BY <1>1, <1>2, <1>6, <1>7, <1>10

\* What neither file changed follows in the second as it does in the first.
LEMMA Unchanged ==
  ASSUME NEW body \in Seq([kind : Kinds, char : Chars]), NEW j \in 0..Len(body), NEW m \in j..Len(body),
         \A i \in (j + 1)..m : ~Changed(body, i)
  PROVE  SubSeq(File(InSecond(body)), 1, Upto(InSecond(body), j))
           \o SubSeq(File(InFirst(body)), Upto(InFirst(body), j) + 1, Upto(InFirst(body), m))
         = SubSeq(File(InSecond(body)), 1, Upto(InSecond(body), m))
  <1>0. Len(body) \in Nat /\ Sided(InFirst(body), Len(body)) /\ Sided(InSecond(body), Len(body))
    BY SidesAre
  <1>1. PICK old, new : old = InFirst(body) /\ new = InSecond(body)
    OBVIOUS
  <1>2. PICK n \in Nat : n = Len(body)
    BY <1>0
  <1>3. \A i \in (j + 1)..m : i \in old /\ i \in new
    <2>1. \A i \in (j + 1)..m : i \in 1..Len(body)
      BY <1>0
    <2> QED
      BY <1>1, <2>1, SidesAre
  <1>4. Sided(old, n) /\ Sided(new, n) /\ j \in 0..n /\ m \in j..n
    BY <1>0, <1>1, <1>2
  <1>5. PICK one \in Seq(Nat) : /\ one = SubSeq(File(old), Upto(old, j) + 1, Upto(old, m))
                                /\ IsRunOf(one, j, m)
    BY <1>3, <1>4, RunOfASide
  <1>6. PICK two \in Seq(Nat) : /\ two = SubSeq(File(new), Upto(new, j) + 1, Upto(new, m))
                                /\ IsRunOf(two, j, m)
    BY <1>3, <1>4, RunOfASide
  <1>7. one = two
    <2>1. Len(one) = Len(two) /\ \A p \in 1..Len(one) : one[p] = two[p]
      BY <1>5, <1>6 DEF IsRunOf
    <2> QED
      BY <2>1, SeqEqual
  <1>8. PICK file \in Seq(Nat) : file = File(new) /\ Len(file) = Upto(new, n)
    BY <1>4, FileIs
  <1>9. PICK a \in Nat, b \in Nat, c \in Nat :
          a = Upto(new, j) /\ b = Upto(new, m) /\ c = Upto(new, n) /\ a <= b /\ b <= c
    <2>1. /\ Upto(new, j) \in Nat /\ Upto(new, m) \in Nat /\ Upto(new, n) \in Nat
          /\ Upto(new, j) <= Upto(new, m) /\ Upto(new, m) <= Upto(new, n)
      BY <1>4, CountsOf
    <2> QED
      BY <2>1, Zenon
  <1>10. SubSeq(file, 1, a) \o SubSeq(file, a + 1, b) = SubSeq(file, 1, b)
    <2>1. 1 \in 1..(Len(file) + 1) /\ a \in (1 - 1)..Len(file) /\ b \in a..Len(file)
      BY <1>8, <1>9
    <2> QED
      BY <2>1, ConcatAdjacentSubSeq
  <1> QED
    BY <1>1, <1>5, <1>6, <1>7, <1>8, <1>9, <1>10, Zenon

\* A header finds a reader that is as far as the last hunk as far as its own.
LEMMA HeaderStep ==
  ASSUME NEW body \in Seq([kind : Kinds, char : Chars]), NEW hunk \in Spans(Len(body)),
         NEW j \in 0..(hunk.start - 1), \A i \in (j + 1)..(hunk.start - 1) : ~Changed(body, i)
  PROVE  AfterRow(body, File(InFirst(body)), AsFarAs(body, j), [header |-> Header(body, hunk)])
           = AsFarAs(body, hunk.start - 1)
  <1>0. Len(body) \in Nat /\ Sided(InFirst(body), Len(body)) /\ Sided(InSecond(body), Len(body))
    BY SidesAre
  <1>1. PICK old, new, one, two :
          /\ old = InFirst(body) /\ new = InSecond(body)
          /\ one = File(old) /\ two = File(new)
    OBVIOUS
  <1>2. PICK n \in Nat : n = Len(body)
    BY <1>0
  <1>3. PICK m \in j..n : m = hunk.start - 1 /\ m \in 0..n
    BY <1>2 DEF Spans
  <1>4. Sided(old, n) /\ Sided(new, n) /\ j \in 0..n /\ n \in 0..n /\ j <= m /\ m <= n
    BY <1>0, <1>1, <1>2, <1>3
  <1>5. PICK a \in Nat, b \in Nat, c \in Nat :
          a = Upto(old, j) /\ b = Upto(old, m) /\ c = Upto(old, n) /\ a <= b /\ b <= c
    <2>1. /\ Upto(old, j) \in Nat /\ Upto(old, m) \in Nat /\ Upto(old, n) \in Nat
          /\ Upto(old, j) <= Upto(old, m) /\ Upto(old, m) <= Upto(old, n)
      BY <1>4, CountsOf
    <2> QED
      BY <2>1, Zenon
  <1>6. PICK d \in Nat, e \in Nat : d = Upto(new, m) /\ e = Upto(new, n) /\ d <= e
    <2>1. Upto(new, m) \in Nat /\ Upto(new, n) \in Nat /\ Upto(new, m) <= Upto(new, n)
      BY <1>4, CountsOf
    <2> QED
      BY <2>1, Zenon
  <1>7. Len(one) = c /\ two \in Seq(Nat) /\ Len(two) = e
    BY <1>1, <1>4, <1>5, <1>6, FileIs
  <1>8. PICK header : header = Header(body, hunk)
    OBVIOUS
  <1>9. LinesBefore(header.first) = b /\ LinesBefore(header.second) = d
    BY <1>0, <1>1, <1>3, <1>5, <1>6, <1>8, HeaderTells
  <1>10. PICK done : done = AsFarAs(body, j)
    OBVIOUS
  <1>11. done.read = a /\ done.out = SubSeq(two, 1, Upto(new, j)) /\ done.ok = TRUE
    BY <1>1, <1>5, <1>10 DEF AsFarAs
  <1>12. Min({b, Len(one)}) = b
    <2>1. b \in Int /\ c \in Int /\ b <= c
      BY <1>5
    <2>2. Min({b, c}) = IF b <= c THEN b ELSE c
      BY <2>1, LargerOf
    <2> QED
      BY <1>7, <2>1, <2>2
  <1>13. PICK out : out = SubSeq(two, 1, d)
    OBVIOUS
  <1>14. done.out \o SubSeq(one, done.read + 1, Min({b, Len(one)})) = out
    <2>1. SubSeq(two, 1, Upto(new, j)) \o SubSeq(one, Upto(old, j) + 1, Upto(old, m))
            = SubSeq(two, 1, Upto(new, m))
      BY <1>1, <1>2, <1>3, <1>4, Unchanged
    <2> QED
      BY <1>5, <1>6, <1>11, <1>12, <1>13, <2>1, Zenon
  <1>15. Len(out) = d
    <2>1. 1 \in 1..(Len(two) + 1) /\ d \in (1 - 1)..Len(two)
      BY <1>6, <1>7
    <2>2. Len(SubSeq(two, 1, d)) = d - 1 + 1
      BY <1>7, <2>1, PartOf
    <2> QED
      BY <1>6, <1>13, <2>2
  <1>16. PICK fits : fits = (/\ done.ok /\ done.read <= b /\ b <= Len(one) /\ Len(out) = d)
    OBVIOUS
  <1>17. fits = TRUE
    BY <1>5, <1>7, <1>11, <1>15, <1>16
  <1>18. AfterHeader(one, done, header) = [read |-> b, out |-> out, ok |-> fits]
    BY <1>9, <1>14, <1>16, Zenon DEF AfterHeader
  <1>19. AsFarAs(body, m) = [read |-> b, out |-> out, ok |-> TRUE]
    BY <1>1, <1>5, <1>6, <1>13, Zenon DEF AsFarAs
  <1>20. AfterRow(body, one, done, [header |-> header]) = AfterHeader(one, done, header)
    <2>1. IsHeader([header |-> header])
      BY DEF IsHeader
    <2>2. [header |-> header].header = header
      OBVIOUS
    <2> QED
      BY <2>1, <2>2, Zenon DEF AfterRow
  <1> QED
    BY <1>1, <1>3, <1>8, <1>10, <1>17, <1>18, <1>19, <1>20, Zenon

\* A line takes a reader that is as far as the line before one farther.
LEMMA LineStep ==
  ASSUME NEW body \in Seq([kind : Kinds, char : Chars]), NEW i \in 1..Len(body)
  PROVE  AfterRow(body, File(InFirst(body)), AsFarAs(body, i - 1), [line |-> i]) = AsFarAs(body, i)
  <1>0. Len(body) \in Nat /\ Sided(InFirst(body), Len(body)) /\ Sided(InSecond(body), Len(body))
    BY SidesAre
  <1>1. PICK old, new, one, two :
          /\ old = InFirst(body) /\ new = InSecond(body)
          /\ one = File(old) /\ two = File(new)
    OBVIOUS
  <1>2. PICK n \in Nat : n = Len(body)
    BY <1>0
  <1>3. Sided(old, n) /\ Sided(new, n) /\ i \in 1..n /\ i \in 0..n /\ i - 1 \in 0..n /\ n \in 0..n
        /\ i <= n
    BY <1>0, <1>1, <1>2
  <1>4. PICK a \in Nat, b \in Nat, c \in Nat :
          /\ a = Upto(old, i - 1) /\ b = Upto(old, i) /\ c = Upto(old, n)
          /\ b = a + (IF i \in old THEN 1 ELSE 0) /\ b <= c
    <2>1. /\ Upto(old, i - 1) \in Nat /\ Upto(old, i) \in Nat /\ Upto(old, n) \in Nat
          /\ Upto(old, i) = Upto(old, i - 1) + (IF i \in old THEN 1 ELSE 0)
      BY <1>3, Counting
    <2>2. Upto(old, i) <= Upto(old, n)
      BY <1>3, Counting
    <2> QED
      BY <2>1, <2>2, Zenon
  <1>5. PICK d \in Nat, e \in Nat, f \in Nat :
          /\ d = Upto(new, i - 1) /\ e = Upto(new, i) /\ f = Upto(new, n)
          /\ e = d + (IF i \in new THEN 1 ELSE 0) /\ e <= f
    <2>1. /\ Upto(new, i - 1) \in Nat /\ Upto(new, i) \in Nat /\ Upto(new, n) \in Nat
          /\ Upto(new, i) = Upto(new, i - 1) + (IF i \in new THEN 1 ELSE 0)
      BY <1>3, Counting
    <2>2. Upto(new, i) <= Upto(new, n)
      BY <1>3, Counting
    <2> QED
      BY <2>1, <2>2, Zenon
  <1>6. /\ Len(one) = c /\ two \in Seq(Nat) /\ Len(two) = f
        /\ i \in old => one[b] = i
        /\ i \in new => two[e] = i
    <2>1. Len(one) = c /\ (i \in old => one[b] = i)
      <3>1. Len(File(old)) = Upto(old, n) /\ (i \in old => File(old)[Upto(old, i)] = i)
        BY <1>3, FileIs
      <3> QED
        BY <1>1, <1>4, <3>1, Zenon
    <2>2. two \in Seq(Nat) /\ Len(two) = f /\ (i \in new => two[e] = i)
      <3>1. /\ File(new) \in Seq(Nat) /\ Len(File(new)) = Upto(new, n)
            /\ i \in new => File(new)[Upto(new, i)] = i
        BY <1>3, FileIs
      <3> QED
        BY <1>1, <1>5, <3>1, Zenon
    <2> QED
      BY <2>1, <2>2
  <1>7. PICK done : done = AsFarAs(body, i - 1)
    OBVIOUS
  <1>8. done.read = a /\ done.out = SubSeq(two, 1, d) /\ done.ok = TRUE
    BY <1>1, <1>4, <1>5, <1>7 DEF AsFarAs
  <1>9. (IF i \in old THEN done.read + 1 ELSE done.read) = b
    BY <1>4, <1>8
  <1>10. (IF i \in new THEN Append(done.out, i) ELSE done.out) = SubSeq(two, 1, e)
    <2>1. CASE i \in new
      <3>1. e = d + 1
        BY <1>5, <2>1
      <3>2. 1 \in 1..Len(two) /\ e \in 1..Len(two)
        BY <1>5, <1>6, <3>1
      <3>3. SubSeq(two, 1, e) = SubSeq(two, 1, e - 1) \o <<two[e]>>
        BY <1>6, <3>2, SubSeqRecursiveSecond
      <3>4. e - 1 = d /\ two[e] = i
        BY <1>6, <2>1, <3>1
      <3>5. SubSeq(two, 1, d) \in Seq(Nat)
        <4>1. 1 \in 1..(Len(two) + 1) /\ d \in (1 - 1)..Len(two)
          BY <1>5, <1>6
        <4> QED
          BY <1>6, <4>1, PartOf
      <3>6. Append(SubSeq(two, 1, d), i) = SubSeq(two, 1, d) \o <<i>>
        <4>1. i \in Nat
          BY <1>3
        <4> QED
          BY <3>5, <4>1, AppendIsConcat
      <3> QED
        BY <1>8, <2>1, <3>3, <3>4, <3>6, Zenon
    <2>2. CASE i \notin new
      <3>1. e = d
        BY <1>5, <2>2
      <3> QED
        BY <1>8, <2>2, <3>1, Zenon
    <2> QED
      BY <2>1, <2>2
  <1>11. PICK fits : fits = (/\ done.ok
                             /\ i \in old => done.read < Len(one) /\ one[done.read + 1] = i)
    OBVIOUS
  <1>12. fits = TRUE
    <2>1. CASE i \in old
      <3>1. b = a + 1 /\ a < c
        BY <1>4, <2>1
      <3> QED
        BY <1>6, <1>8, <1>11, <2>1, <3>1
    <2>2. CASE i \notin old
      BY <1>8, <1>11, <2>2
    <2> QED
      BY <2>1, <2>2
  <1>13. AfterLine(body, one, done, i) = [read |-> b, out |-> SubSeq(two, 1, e), ok |-> fits]
    BY <1>1, <1>9, <1>10, <1>11, Zenon DEF AfterLine
  <1>14. AsFarAs(body, i) = [read |-> b, out |-> SubSeq(two, 1, e), ok |-> TRUE]
    BY <1>1, <1>4, <1>5, Zenon DEF AsFarAs
  <1>15. AfterRow(body, one, done, [line |-> i]) = AfterLine(body, one, done, i)
    <2>1. ~IsHeader([line |-> i])
      BY DEF IsHeader
    <2>2. [line |-> i].line = i
      OBVIOUS
    <2> QED
      BY <2>1, <2>2, Zenon DEF AfterRow
  <1> QED
    BY <1>1, <1>7, <1>12, <1>13, <1>14, <1>15, Zenon

\* A hunk's lines, one line more.
LEMMA OneMoreLine ==
  ASSUME NEW body, Len(body) \in Nat, NEW a \in 1..(Len(body) + 1), NEW i \in a..Len(body)
  PROVE  /\ Lines(a, i) = Append(Lines(a, i - 1), [line |-> i])
         /\ Lines(a, i - 1) \in Seq(RowsThereAre(body)) /\ [line |-> i] \in RowsThereAre(body)
  <1>1. PICK n \in Nat : n = Len(body)
    OBVIOUS
  <1>2. PICK less, more, row : less = Lines(a, i - 1) /\ more = Lines(a, i) /\ row = [line |-> i]
    OBVIOUS
  <1>3. LineRows(body) \subseteq RowsThereAre(body)
    BY DEF RowsThereAre
  <1>4. row \in LineRows(body)
    <2>1. i \in 1..Len(body)
      OBVIOUS
    <2> QED
      BY <1>2, <2>1 DEF LineRows
  <1>5. less \in Seq(LineRows(body)) /\ Len(less) = i - a
    <2>1. i - 1 \in 0..Len(body) /\ a <= (i - 1) + 1 /\ (i - 1) - a + 1 = i - a
      BY <1>1
    <2> QED
      BY <1>2, <2>1, LinesTyped
  <1>6. more \in Seq(LineRows(body)) /\ Len(more) = i - a + 1
    <2>1. i \in 0..Len(body) /\ a <= i + 1
      BY <1>1
    <2> QED
      BY <1>2, <2>1, LinesTyped
  <1>7. \A p \in 1..(i - a) : less[p] = [line |-> a + p - 1]
    <2>1. (i - 1) - a + 1 = i - a
      OBVIOUS
    <2>2. less = [p \in 1..(i - a) |-> [line |-> a + p - 1]]
      BY <1>2, <2>1, Zenon DEF Lines
    <2> QED
      BY <2>2, Zenon
  <1>8. \A p \in 1..(i - a + 1) : more[p] = [line |-> a + p - 1]
    <2>1. more = [p \in 1..(i - a + 1) |-> [line |-> a + p - 1]]
      BY <1>2, Zenon DEF Lines
    <2> QED
      BY <2>1, Zenon
  <1>9. /\ Append(less, row) \in Seq(LineRows(body)) /\ Len(Append(less, row)) = i - a + 1
        /\ \A p \in 1..(i - a) : Append(less, row)[p] = less[p]
        /\ Append(less, row)[i - a + 1] = row
    BY <1>4, <1>5, AppendProperties
  <1>10. PICK both : both = Append(less, row)
    OBVIOUS
  <1>11. \A p \in 1..Len(more) : more[p] = both[p]
    <2>1. SUFFICES ASSUME NEW p \in 1..(i - a + 1)
                   PROVE  more[p] = both[p]
      BY <1>6
    <2>2. CASE p \in 1..(i - a)
      BY <1>7, <1>8, <1>9, <1>10, <2>2
    <2>3. CASE p \notin 1..(i - a)
      <3>1. p = i - a + 1 /\ a + p - 1 = i
        BY <2>3
      <3>2. more[p] = [line |-> i]
        BY <1>8, <3>1
      <3> QED
        BY <1>2, <1>9, <1>10, <3>1, <3>2
    <2> QED
      BY <2>2, <2>3
  <1>12. more = both
    <2>1. both \in Seq(LineRows(body)) /\ Len(more) = Len(both)
      BY <1>6, <1>9, <1>10
    <2> QED
      BY <1>6, <1>11, <2>1, SeqEqual
  <1>13. less \in Seq(RowsThereAre(body)) /\ row \in RowsThereAre(body)
    BY <1>3, <1>4, <1>5
  <1> QED
    BY <1>2, <1>10, <1>12, <1>13

\* A reader's answer to the rows of one patch.
ReadSo(body, rows, j) ==
  rows \in Seq(RowsThereAre(body)) /\ AfterRows(body, File(InFirst(body)), rows) = AsFarAs(body, j)

\* A reader that is as far as the line before a run of lines is as far as the last of them.
LEMMA ReadsLines ==
  ASSUME NEW body \in Seq([kind : Kinds, char : Chars]), NEW a \in 1..(Len(body) + 1),
         NEW b \in (a - 1)..Len(body), NEW rows, ReadSo(body, rows, a - 1)
  PROVE  ReadSo(body, rows \o Lines(a, b), b)
  <1>0. Len(body) \in Nat /\ File(InFirst(body)) \in Seq(Nat)
    BY SidesAre, FileIs
  <1>1. PICK n \in Nat : n = Len(body)
    BY <1>0
  <1>2. rows \in Seq(RowsThereAre(body))
    BY DEF ReadSo
  <1> DEFINE Q == {i \in Nat : (a - 1) + i <= n => ReadSo(body, rows \o Lines(a, (a - 1) + i), (a - 1) + i)}
  <1>3. 0 \in Q
    <2>1. (a - 1) + 0 = a - 1 /\ 1..((a - 1) - a + 1) = {}
      BY <1>1
    <2>2. Lines(a, a - 1) = <<>>
      BY <2>1 DEF Lines
    <2>3. rows \o Lines(a, a - 1) = rows
      BY <1>2, <2>2, ConcatEmptySeq
    <2> QED
      BY <2>1, <2>3
  <1>4. ASSUME NEW i \in Nat, i \in Q
        PROVE  i + 1 \in Q
    <2>1. SUFFICES ASSUME (a - 1) + (i + 1) <= n
                   PROVE  ReadSo(body, rows \o Lines(a, (a - 1) + (i + 1)), (a - 1) + (i + 1))
      OBVIOUS
    <2>2. PICK k \in a..Len(body) : k = (a - 1) + (i + 1) /\ k - 1 = (a - 1) + i /\ k \in 1..Len(body)
      BY <1>1, <2>1
    <2>3. ReadSo(body, rows \o Lines(a, k - 1), k - 1)
      BY <1>1, <1>4, <2>2
    <2> HIDE DEF Q
    <2>4. PICK less, row : less = Lines(a, k - 1) /\ row = [line |-> k]
      OBVIOUS
    <2>5. /\ Lines(a, k) = Append(less, row)
          /\ less \in Seq(RowsThereAre(body)) /\ row \in RowsThereAre(body)
      BY <1>0, <2>2, <2>4, OneMoreLine
    <2>6. rows \o Append(less, row) = Append(rows \o less, row)
      <3>1. Append(less, row) = less \o <<row>> /\ <<row>> \in Seq(RowsThereAre(body))
        BY <2>5, AppendIsConcat
      <3>2. rows \o less \in Seq(RowsThereAre(body))
        BY <1>2, <2>5, ConcatProperties
      <3>3. Append(rows \o less, row) = (rows \o less) \o <<row>>
        BY <2>5, <3>2, AppendIsConcat
      <3>4. (rows \o less) \o <<row>> = rows \o (less \o <<row>>)
        BY <1>2, <2>5, <3>1, ConcatAssociative, SMTT(30)
      <3> QED
        BY <3>1, <3>3, <3>4
    <2>7. PICK so : so = rows \o less
      OBVIOUS
    <2>8. so \in Seq(RowsThereAre(body)) /\ AfterRows(body, File(InFirst(body)), so) = AsFarAs(body, k - 1)
      BY <2>3, <2>4, <2>7 DEF ReadSo
    <2>9. /\ AfterRows(body, File(InFirst(body)), Append(so, row))
               = AfterRow(body, File(InFirst(body)), AsFarAs(body, k - 1), row)
          /\ Append(so, row) \in Seq(RowsThereAre(body))
      BY <1>0, <2>5, <2>8, OneMoreRow
    <2>10. AfterRow(body, File(InFirst(body)), AsFarAs(body, k - 1), row) = AsFarAs(body, k)
      BY <2>2, <2>4, LineStep
    <2>11. ReadSo(body, Append(so, row), k)
      BY <2>9, <2>10 DEF ReadSo
    <2> QED
      BY <2>2, <2>5, <2>6, <2>7, <2>11
  <1>5. PICK i \in Nat : b = (a - 1) + i
    <2>1. b - (a - 1) \in Nat /\ b = (a - 1) + (b - (a - 1))
      BY <1>1
    <2> QED
      BY <2>1
  <1>6. i \in Q
    <2>1. Nat \subseteq Q
      <3> HIDE DEF Q
      <3> QED
        BY <1>3, <1>4, NatInduct
    <2> QED
      BY <2>1
  <1> QED
    BY <1>1, <1>5, <1>6

\* A reader that is as far as the last hunk is as far as the next one after it.
LEMMA ReadsAHunk ==
  ASSUME NEW body \in Seq([kind : Kinds, char : Chars]), NEW hunk \in Spans(Len(body)),
         hunk.start <= hunk.end, NEW j \in 0..(hunk.start - 1),
         \A i \in (j + 1)..(hunk.start - 1) : ~Changed(body, i),
         NEW rows, ReadSo(body, rows, j)
  PROVE  ReadSo(body, rows \o HunkRows(body, hunk), hunk.end)
  <1>0. Len(body) \in Nat /\ File(InFirst(body)) \in Seq(Nat)
    BY SidesAre, FileIs
  <1>1. PICK a \in 1..Len(body), b \in 1..Len(body) : a = hunk.start /\ b = hunk.end
    BY DEF Spans
  <1>2. PICK row : row = [header |-> Header(body, hunk)]
    OBVIOUS
  <1>3. row \in RowsThereAre(body)
    BY <1>2 DEF RowsThereAre, HeaderRows
  <1>4. rows \in Seq(RowsThereAre(body)) /\ AfterRows(body, File(InFirst(body)), rows) = AsFarAs(body, j)
    BY DEF ReadSo
  <1>5. PICK more : more = Append(rows, row)
    OBVIOUS
  <1>6. /\ AfterRows(body, File(InFirst(body)), more)
             = AfterRow(body, File(InFirst(body)), AsFarAs(body, j), row)
        /\ more \in Seq(RowsThereAre(body))
    BY <1>0, <1>3, <1>4, <1>5, OneMoreRow
  <1>7. AfterRow(body, File(InFirst(body)), AsFarAs(body, j), row) = AsFarAs(body, a - 1)
    BY <1>1, <1>2, HeaderStep
  <1>8. ReadSo(body, more, a - 1)
    BY <1>6, <1>7 DEF ReadSo
  <1>9. ReadSo(body, more \o Lines(a, b), b)
    <2>1. a \in 1..(Len(body) + 1) /\ b \in (a - 1)..Len(body)
      BY <1>0, <1>1
    <2> QED
      BY <1>8, <2>1, ReadsLines
  <1>10. rows \o HunkRows(body, hunk) = more \o Lines(a, b)
    <2>1. PICK lines : lines = Lines(a, b)
      OBVIOUS
    <2>2. lines \in Seq(RowsThereAre(body))
      <3>1. a \in 1..(Len(body) + 1) /\ b \in 0..Len(body)
        BY <1>0, <1>1
      <3>2. lines \in Seq(LineRows(body))
        BY <1>0, <2>1, <3>1, LinesTyped
      <3>3. LineRows(body) \subseteq RowsThereAre(body)
        BY DEF RowsThereAre
      <3> QED
        BY <3>2, <3>3
    <2>3. <<row>> \in Seq(RowsThereAre(body))
      BY <1>3
    <2>4. HunkRows(body, hunk) = <<row>> \o lines
      BY <1>1, <1>2, <2>1, Zenon DEF HunkRows
    <2>5. more = rows \o <<row>>
      BY <1>3, <1>4, <1>5, AppendIsConcat
    <2>6. (rows \o <<row>>) \o lines = rows \o (<<row>> \o lines)
      BY <1>4, <2>2, <2>3, ConcatAssociative
    <2> QED
      BY <2>1, <2>4, <2>5, <2>6, Zenon
  <1> QED
    BY <1>1, <1>9, <1>10

\* The last line of the first hunks.
EndOf(hunks, h) == IF h = 0 THEN 0 ELSE hunks[h].end

\* Between two hunks, before the first and after the last, nothing changed.
LEMMA NothingBetween ==
  ASSUME NEW body, Len(body) \in Nat, NEW context \in Nat, NEW hunks,
         HunksOfFirst(hunks, body, context, Len(body)),
         NEW h \in 0..Len(hunks), NEW i \in (EndOf(hunks, h) + 1)..Len(body),
         h < Len(hunks) => i < hunks[h + 1].start
  PROVE  ~Changed(body, i)
  <1>1. PICK n \in Nat, last \in Nat : n = Len(body) /\ last = Len(hunks)
    BY LenProperties DEF HunksOfFirst
  <1>2. \A g \in 1..last : hunks[g].start \in 1..n /\ hunks[g].end \in 1..n
    <2>1. \A g \in 1..last : hunks[g] \in Spans(n)
      BY <1>1, ElementOfSeq DEF HunksOfFirst
    <2> QED
      BY <2>1 DEF Spans
  <1>3. /\ \A g \in 1..last : hunks[g].start <= hunks[g].end
        /\ \A f, g \in 1..last : f < g => hunks[f].end + 1 < hunks[g].start
    BY <1>1, Zenon DEF HunksOfFirst, Apart
  <1>4. i \in 1..n
    <2>1. EndOf(hunks, h) \in 0..n
      BY <1>1, <1>2 DEF EndOf
    <2> QED
      BY <1>1, <2>1
  <1>5. ASSUME NEW g \in 1..last
        PROVE  ~InHunk(i, hunks[g])
    <2>1. PICK s \in 1..n, e \in 1..n : s = hunks[g].start /\ e = hunks[g].end /\ s <= e
      BY <1>2, <1>3
    <2>2. CASE g <= h
      <3>1. h \in 1..last /\ EndOf(hunks, h) = hunks[h].end
        BY <1>1, <2>2 DEF EndOf
      <3>2. PICK t \in 1..n, f \in 1..n : t = hunks[h].start /\ f = hunks[h].end /\ t <= f
        BY <1>2, <1>3, <3>1
      <3>3. e <= f
        <4>1. CASE g = h
          BY <2>1, <3>2, <4>1
        <4>2. CASE g # h
          <5>1. g < h
            BY <1>1, <2>2, <4>2
          <5>2. e + 1 < t
            BY <1>3, <2>1, <3>1, <3>2, <5>1
          <5> QED
            BY <3>2, <5>2
        <4> QED
          BY <4>1, <4>2
      <3>4. f < i
        BY <3>1, <3>2
      <3>5. e < i
        BY <1>4, <3>3, <3>4
      <3> QED
        BY <1>4, <2>1, <3>5 DEF InHunk
    <2>3. CASE h < g
      <3>1. h + 1 \in 1..last /\ h < Len(hunks)
        BY <1>1, <2>3
      <3>2. PICK t \in 1..n, f \in 1..n : t = hunks[h + 1].start /\ f = hunks[h + 1].end /\ t <= f
        BY <1>2, <1>3, <3>1
      <3>3. i < t
        BY <3>1, <3>2
      <3>4. t <= s
        <4>1. CASE g = h + 1
          BY <2>1, <3>2, <4>1
        <4>2. CASE g # h + 1
          <5>1. h + 1 < g
            BY <1>1, <2>3, <4>2
          <5>2. f + 1 < s
            BY <1>3, <2>1, <3>1, <3>2, <5>1
          <5> QED
            <6>1. t <= f /\ f + 1 < s /\ s \in Int /\ t \in Int /\ f \in Int
              BY <1>1, <2>1, <3>2, <5>2, SMTT(30)
            <6> QED
              BY <6>1
        <4> QED
          BY <4>1, <4>2
      <3>5. i < s
        BY <1>4, <3>3, <3>4
      <3> QED
        BY <1>4, <2>1, <3>5 DEF InHunk
    <2> QED
      BY <1>1, <2>2, <2>3
  <1>6. ~InSome(i, hunks)
    BY <1>1, <1>5, Zenon DEF InSome
  <1>7. ~NearChange(i, body, context, n)
    BY <1>1, <1>4, <1>6, Zenon DEF HunksOfFirst, Cover
  <1>8. Near(i, i, context)
    BY <1>4 DEF Near
  <1> QED
    BY <1>4, <1>7, <1>8, Zenon DEF NearChange

\* No line is as far as a reader that has read no row.
LEMMA NothingIsUnread ==
  ASSUME NEW body \in Seq([kind : Kinds, char : Chars])
  PROVE  AsFarAs(body, 0) = Unread
  <1>1. Sided(InFirst(body), Len(body)) /\ Sided(InSecond(body), Len(body))
    BY SidesAre
  <1>2. Upto(InFirst(body), 0) = 0 /\ Upto(InSecond(body), 0) = 0
    BY <1>1, Counting
  <1>3. SubSeq(File(InSecond(body)), 1, 0) = <<>>
    <2>1. File(InSecond(body)) \in Seq(Nat)
      BY <1>1, FileIs
    <2>2. SubSeq(File(InSecond(body)), 1, 0) \in Seq(Nat) /\ Len(SubSeq(File(InSecond(body)), 1, 0)) = 0
      BY <2>1, SubSeqProperties
    <2> QED
      BY <2>2, EmptySeq
  <1> QED
    BY <1>2, <1>3, Zenon DEF AsFarAs, Unread

\* A reader of every hunk is as far as the last line of the last.
LEMMA HunksRead ==
  ASSUME NEW body \in Seq([kind : Kinds, char : Chars]), NEW context \in Nat, NEW hunks,
         HunksOfFirst(hunks, body, context, Len(body)), NEW e, RowsUpto(e, body, hunks)
  PROVE  /\ Len(hunks) \in Nat /\ EndOf(hunks, Len(hunks)) \in 0..Len(body)
         /\ ReadSo(body, e[Len(hunks)], EndOf(hunks, Len(hunks)))
  <1>0. Len(body) \in Nat /\ File(InFirst(body)) \in Seq(Nat)
        /\ Sided(InFirst(body), Len(body)) /\ Sided(InSecond(body), Len(body))
    BY SidesAre, FileIs
  <1>1. PICK n \in Nat, last \in Nat : n = Len(body) /\ last = Len(hunks)
    BY <1>0, LenProperties DEF HunksOfFirst
  <1>2. \A g \in 1..last : hunks[g] \in Spans(Len(body))
    BY <1>1, ElementOfSeq DEF HunksOfFirst
  <1>3. /\ \A g \in 1..last : hunks[g].start <= hunks[g].end
        /\ \A f, g \in 1..last : f < g => hunks[f].end + 1 < hunks[g].start
    BY <1>1, Zenon DEF HunksOfFirst, Apart
  <1>4. \A h \in 0..last : EndOf(hunks, h) \in 0..n
    <2>1. SUFFICES ASSUME NEW h \in 0..last
                   PROVE  EndOf(hunks, h) \in 0..n
      OBVIOUS
    <2>2. CASE h = 0
      BY <1>1, <2>2 DEF EndOf
    <2>3. CASE h # 0
      <3>1. h \in 1..last
        BY <1>1, <2>3
      <3>2. hunks[h].end \in 1..n
        BY <1>1, <1>2, <3>1 DEF Spans
      <3> QED
        BY <1>1, <2>3, <3>2 DEF EndOf
    <2> QED
      BY <2>2, <2>3
  <1> DEFINE Q == {h \in Nat : h <= last => ReadSo(body, e[h], EndOf(hunks, h))}
  <1>5. 0 \in Q
    <2>1. e[0] = <<>> /\ <<>> \in Seq(RowsThereAre(body))
      BY DEF RowsUpto
    <2>2. AfterRows(body, File(InFirst(body)), <<>>) = Unread
      BY <1>0, NoRows
    <2>3. AsFarAs(body, 0) = Unread
      BY NothingIsUnread
    <2>4. EndOf(hunks, 0) = 0
      BY DEF EndOf
    <2>5. ReadSo(body, e[0], 0)
      BY <2>1, <2>2, <2>3 DEF ReadSo
    <2> QED
      BY <2>4, <2>5
  <1>6. ASSUME NEW h \in Nat, h \in Q
        PROVE  h + 1 \in Q
    <2>1. SUFFICES ASSUME h + 1 <= last
                   PROVE  ReadSo(body, e[h + 1], EndOf(hunks, h + 1))
      OBVIOUS
    <2>2. h + 1 \in 1..last /\ h \in 0..last /\ (h + 1) - 1 = h /\ h < last
      BY <1>1, <2>1
    <2>3. ReadSo(body, e[h], EndOf(hunks, h))
      BY <1>6, <2>2
    <2> HIDE DEF Q
    <2>4. PICK hunk \in Spans(Len(body)) : hunk = hunks[h + 1]
      BY <1>2, <2>2
    <2>5. PICK j \in 0..n : j = EndOf(hunks, h)
      BY <1>4, <2>2
    <2>6. e[h + 1] = e[h] \o HunkRows(body, hunk)
      BY <1>1, <2>2, <2>4 DEF RowsUpto
    <2>7. PICK s \in 1..n, t \in 1..n : s = hunk.start /\ t = hunk.end /\ s <= t
      BY <1>1, <1>3, <2>2, <2>4 DEF Spans
    <2>8. j < s
      <3>1. CASE h = 0
        BY <2>5, <2>7, <3>1 DEF EndOf
      <3>2. CASE h # 0
        <4>1. h \in 1..last /\ h < h + 1
          BY <2>2, <3>2
        <4>2. hunks[h].end + 1 < hunk.start
          BY <1>3, <2>2, <2>4, <4>1
        <4>3. j = hunks[h].end
          BY <2>5, <3>2 DEF EndOf
        <4> QED
          BY <1>1, <2>7, <4>2, <4>3
      <3> QED
        BY <3>1, <3>2
    <2>9. ASSUME NEW i \in (j + 1)..(s - 1)
          PROVE  ~Changed(body, i)
      <3>1. i \in (EndOf(hunks, h) + 1)..Len(body) /\ i < hunks[h + 1].start
        BY <1>1, <2>4, <2>5, <2>7
      <3>2. h \in 0..Len(hunks)
        BY <1>1, <2>2
      <3> QED
        BY <1>0, <3>1, <3>2, NothingBetween
    <2>10. j \in 0..(hunk.start - 1) /\ hunk.start <= hunk.end
      BY <1>1, <2>7, <2>8
    <2>11. ReadSo(body, e[h], j)
      BY <2>3, <2>5
    <2>12. ReadSo(body, e[h] \o HunkRows(body, hunk), hunk.end)
      <3>1. \A i \in (j + 1)..(hunk.start - 1) : ~Changed(body, i)
        BY <2>7, <2>9
      <3> QED
        BY <2>10, <2>11, <3>1, ReadsAHunk
    <2>13. EndOf(hunks, h + 1) = hunk.end
      <3>1. h + 1 # 0
        OBVIOUS
      <3> QED
        BY <2>4, <3>1, Zenon DEF EndOf
    <2> QED
      BY <2>6, <2>12, <2>13
  <1>7. last \in Q
    <2> HIDE DEF Q
    <2> QED
      BY <1>1, <1>5, <1>6, NatInduct
  <1>8. last \in 0..last
    BY <1>1
  <1> QED
    BY <1>1, <1>4, <1>7, <1>8

\* A reader that is as far as a line nothing changed after has the second file.
LEMMA ReadThrough ==
  ASSUME NEW body \in Seq([kind : Kinds, char : Chars]), NEW j \in 0..Len(body),
         \A i \in (j + 1)..Len(body) : ~Changed(body, i), NEW rows, ReadSo(body, rows, j)
  PROVE  Applied(body, File(InFirst(body)), rows) = File(InSecond(body))
  <1>0. Len(body) \in Nat /\ Sided(InFirst(body), Len(body)) /\ Sided(InSecond(body), Len(body))
    BY SidesAre
  <1>1. PICK old, new, one, two :
          /\ old = InFirst(body) /\ new = InSecond(body)
          /\ one = File(old) /\ two = File(new)
    OBVIOUS
  <1>2. PICK n \in Nat : n = Len(body)
    BY <1>0
  <1>3. /\ Len(one) = Upto(old, n)
        /\ two \in Seq(Nat) /\ Len(two) = Upto(new, n)
    BY <1>0, <1>1, <1>2, FileIs
  <1>4. AfterRows(body, one, rows) = AsFarAs(body, j)
    BY <1>1 DEF ReadSo
  <1>5. PICK end : end = AfterRows(body, one, rows)
    OBVIOUS
  <1>6. end.ok = TRUE /\ end.read = Upto(old, j) /\ end.out = SubSeq(two, 1, Upto(new, j))
    <2>1. end = [read |-> Upto(old, j), out |-> SubSeq(two, 1, Upto(new, j)), ok |-> TRUE]
      BY <1>1, <1>4, <1>5, Zenon DEF AsFarAs
    <2> QED
      BY <2>1
  <1>7. Applied(body, one, rows) = end.out \o SubSeq(one, end.read + 1, Len(one))
    BY <1>5, <1>6, Zenon DEF Applied
  <1>8. SubSeq(two, 1, Upto(new, j)) \o SubSeq(one, Upto(old, j) + 1, Upto(old, n))
          = SubSeq(two, 1, Upto(new, n))
    <2>1. n \in j..Len(body) /\ \A i \in (j + 1)..n : ~Changed(body, i)
      BY <1>2
    <2> QED
      BY <1>1, <2>1, Unchanged
  <1>9. SubSeq(two, 1, Len(two)) = two
    BY <1>3, SubSeqFull
  <1> QED
    BY <1>1, <1>3, <1>6, <1>7, <1>8, <1>9, Zenon

\* trim: what is left of a patch turns the first file into the second, as the whole did.
LEMMA PatchIsApplied ==
  ASSUME NEW p \in Patches, NEW context \in Contexts \cup {Full}
  PROVE  Applies(p, context)
  <1>0. PICK body \in Seq([kind : Kinds, char : Chars]) : body = p.body
    BY PatchesAssumption DEF PatchesThereAre
  <1>1. Len(body) \in Nat /\ File(InFirst(body)) \in Seq(Nat)
        /\ Sided(InFirst(body), Len(body)) /\ Sided(InSecond(body), Len(body))
    BY SidesAre, FileIs
  <1>2. PICK rows : rows = Rows(p, context)
    OBVIOUS
  <1>3. CASE p.isDiff /\ context # Full
    <2>1. context \in Nat
      BY <1>3, AsksAssumption
    <2>2. PICK hunks : hunks = Hunks(body, context)
      OBVIOUS
    <2>3. HunksOfFirst(hunks, body, context, Len(body))
      BY <1>1, <2>1, <2>2, HunksHold
    <2>4. PICK e : RowsUpto(e, body, hunks) /\ rows = e[Len(hunks)]
      <3>1. Len(p.body) \in Nat
        BY <1>0, <1>1
      <3>2. PICK e : /\ RowsUpto(e, p.body, Hunks(p.body, context))
                     /\ Rows(p, context) = e[Len(Hunks(p.body, context))]
        BY <1>3, <2>1, <3>1, RowsUptoExists
      <3> QED
        BY <1>0, <1>2, <2>2, <3>2
    <2>5. /\ Len(hunks) \in Nat /\ EndOf(hunks, Len(hunks)) \in 0..Len(body)
          /\ ReadSo(body, rows, EndOf(hunks, Len(hunks)))
      BY <2>1, <2>3, <2>4, HunksRead
    <2>6. PICK j \in 0..Len(body) : j = EndOf(hunks, Len(hunks))
      BY <2>5
    <2>7. ASSUME NEW i \in (j + 1)..Len(body)
          PROVE  ~Changed(body, i)
      <3>1. Len(hunks) \in 0..Len(hunks) /\ ~(Len(hunks) < Len(hunks))
        BY <2>5
      <3>2. i \in (EndOf(hunks, Len(hunks)) + 1)..Len(body)
        BY <2>6
      <3> QED
        BY <1>1, <2>1, <2>3, <3>1, <3>2, NothingBetween
    <2>8. ReadSo(body, rows, j)
      BY <2>5, <2>6
    <2>9. Applied(body, File(InFirst(body)), rows) = File(InSecond(body))
      BY <2>7, <2>8, ReadThrough
    <2> QED
      BY <1>0, <1>2, <2>9 DEF Applies
  <1>4. CASE ~(p.isDiff /\ context # Full)
    <2>1. rows = Lines(1, Len(body))
      BY <1>0, <1>2, <1>4 DEF Rows
    <2>2. ReadSo(body, <<>>, 0)
      <3>1. <<>> \in Seq(RowsThereAre(body))
        OBVIOUS
      <3>2. AfterRows(body, File(InFirst(body)), <<>>) = Unread
        BY <1>1, NoRows
      <3> QED
        BY <1>1, <3>1, <3>2, NothingIsUnread DEF ReadSo
    <2>3. ReadSo(body, <<>> \o Lines(1, Len(body)), Len(body))
      <3>1. 1 \in 1..(Len(body) + 1) /\ Len(body) \in (1 - 1)..Len(body) /\ 1 - 1 = 0
        BY <1>1
      <3> QED
        BY <2>2, <3>1, ReadsLines
    <2>4. <<>> \o Lines(1, Len(body)) = Lines(1, Len(body))
      <3>1. 1 \in 1..(Len(body) + 1) /\ Len(body) \in 0..Len(body)
        BY <1>1
      <3>2. PICK lines : lines = Lines(1, Len(body))
        OBVIOUS
      <3>3. lines \in Seq(LineRows(body))
        BY <1>1, <3>1, <3>2, LinesTyped
      <3>4. <<>> \o lines = lines
        BY <3>3, ConcatEmptySeq
      <3> QED
        BY <3>2, <3>4
    <2>5. ReadSo(body, rows, Len(body))
      BY <2>1, <2>3, <2>4
    <2>6. Len(body) \in 0..Len(body) /\ \A i \in (Len(body) + 1)..Len(body) : ~Changed(body, i)
      BY <1>1
    <2>7. Applied(body, File(InFirst(body)), rows) = File(InSecond(body))
      BY <2>5, <2>6, ReadThrough
    <2> QED
      BY <1>0, <1>2, <2>7 DEF Applies
  <1> QED
    BY <1>3, <1>4

------------------------------------------------------------------------------
(***************************************************************************)
(* Handles: a threshold is written as it is rounded.                       *)
(***************************************************************************)
LEMMA Divided ==
  ASSUME NEW a \in Nat, NEW d \in Nat \ {0}
  PROVE  /\ a \div d \in Nat /\ a % d \in 0..(d - 1)
         /\ a = (a \div d) * d + (a % d)
  OBVIOUS

\* A product is no less than one of its factors, whatever the other is.
LEMMA Products ==
  ASSUME NEW q \in Int, NEW d \in Nat \ {0}
  PROVE  /\ q * d \in Int
         /\ q >= 1 => q * d >= d
         /\ q <= -1 => q * d <= -d
  <1>1. q * d \in Int
    OBVIOUS
  <1>2. ASSUME q >= 1 PROVE q * d >= d
    BY <1>2
  <1>3. ASSUME q <= -1 PROVE q * d <= -d
    BY <1>3
  <1> QED
    BY <1>1, <1>2, <1>3

\* A number has one quotient and one remainder.
LEMMA OnlyQuotient ==
  ASSUME NEW d \in Nat \ {0}, NEW q \in Int, NEW r \in 0..(d - 1),
         NEW s \in Int, NEW t \in 0..(d - 1), q * d + r = s * d + t
  PROVE  q = s /\ r = t
  <1>1. (q - s) * d = t - r
    OBVIOUS
  <1>2. PICK e \in Int : e = q - s
    OBVIOUS
  <1>3. e * d = t - r
    BY <1>1, <1>2
  <1>4. ~(e >= 1) /\ ~(e <= -1)
    BY <1>3, Products
  <1> QED
    BY <1>2, <1>3, <1>4

\* Whatever divides a number into a quotient and a remainder is its division.
LEMMA QuotientIs ==
  ASSUME NEW a \in Nat, NEW d \in Nat \ {0}, NEW q \in Int, NEW r \in 0..(d - 1), a = q * d + r
  PROVE  a \div d = q /\ a % d = r
  <1>1. /\ a \div d \in Int /\ a % d \in 0..(d - 1)
        /\ (a \div d) * d + (a % d) = q * d + r
    BY Divided, SMTT(30)
  <1> QED
    BY <1>1, OnlyQuotient

\* What divides twice, divides by the product.
LEMMA DividedTwice ==
  ASSUME NEW a \in Nat, NEW d \in Nat \ {0}, NEW b \in Nat \ {0}
  PROVE  d * b \in Nat \ {0} /\ a \div (d * b) = (a \div d) \div b
  <1>1. PICK q \in Nat : q = a \div d
    BY Divided
  <1>2. PICK r \in 0..(d - 1) : a = q * d + r
    BY <1>1, Divided
  <1>3. PICK p \in Nat : p = q \div b
    BY <1>1, Divided
  <1>4. PICK s \in 0..(b - 1) : q = p * b + s
    BY <1>3, Divided, ZenonT(30)
  <1>5. d * b \in Nat \ {0}
    BY Products
  <1>6. a = p * (d * b) + (s * d + r)
    <2>1. q * d = p * (d * b) + s * d
      BY <1>4
    <2>2. q * d \in Int /\ p * (d * b) \in Int /\ s * d \in Int
      OBVIOUS
    <2> QED
      BY <1>2, <2>1, <2>2
  <1>7. s * d + r \in 0..(d * b - 1)
    <2>1. s * d \in Int /\ s * d >= 0
      BY Products
    <2>2. (b - 1 - s) * d >= 0 /\ (b - 1 - s) * d = b * d - d - s * d
      <3>1. b - 1 - s \in Nat
        OBVIOUS
      <3>2. (b - 1 - s) * d >= 0
        BY <3>1, Products
      <3> QED
        BY <3>2
    <2>3. b * d = d * b
      OBVIOUS
    <2> QED
      BY <1>5, <2>1, <2>2, <2>3
  <1>8. a \div (d * b) = p
    <2>1. PICK m \in Nat \ {0} : m = d * b
      BY <1>5
    <2>2. PICK t \in 0..(m - 1) : t = s * d + r
      BY <1>7, <2>1
    <2>3. a = p * m + t
      BY <1>6, <2>1, <2>2
    <2>4. a \div m = p
      BY <2>3, QuotientIs
    <2> QED
      BY <2>1, <2>4
  <1>9. (a \div d) \div b = p
    BY <1>1, <1>3, Zenon
  <1> QED
    BY <1>5, <1>8, <1>9

\* The powers of the base, as many as are wanted.
PowersUpto(e, n) ==
  /\ e \in [0..n -> Nat \ {0}]
  /\ e[0] = 1
  /\ \A k \in 1..n : e[k] = Base * e[k - 1]

\* The base has a half.
LEMMA BaseIs ==
  Base \in Nat \ {0} /\ Base % 2 = 0 /\ Base \div 2 \in Nat /\ Base = 2 * (Base \div 2)
  BY PlacesAssumption

\* The powers of the base exist, one after another.
LEMMA PowersExist == \A n \in Nat : \E e : PowersUpto(e, n)
  <1> DEFINE Q == {n \in Nat : \E e : PowersUpto(e, n)}
  <1>1. 0 \in Q
    <2>1. PowersUpto([k \in 0..0 |-> 1], 0)
      BY DEF PowersUpto
    <2> QED
      BY <2>1
  <1>2. ASSUME NEW n \in Nat, n \in Q
        PROVE  n + 1 \in Q
    <2>1. PICK e : PowersUpto(e, n)
      BY <1>2
    <2> DEFINE d == [k \in 0..(n + 1) |-> IF k = n + 1 THEN Base * e[n] ELSE e[k]]
    <2>2. e[n] \in Nat \ {0}
      BY <2>1 DEF PowersUpto
    <2>3. Base * e[n] \in Nat \ {0}
      BY <2>2, BaseIs, Products
    <2>4. d \in [0..(n + 1) -> Nat \ {0}]
      BY <2>1, <2>3 DEF PowersUpto
    <2>5. ASSUME NEW k \in 1..(n + 1)
          PROVE  d[k] = Base * d[k - 1]
      <3>1. CASE k = n + 1
        <4>1. k - 1 = n /\ n \in 0..(n + 1) /\ n # n + 1
          BY <3>1
        <4>2. d[n] = e[n]
          BY <4>1
        <4> QED
          BY <3>1, <4>1, <4>2
      <3>2. CASE k # n + 1
        <4>1. k \in 1..n /\ k - 1 \in 0..n
          BY <3>2
        <4>2. e[k] = Base * e[k - 1]
          BY <2>1, <4>1 DEF PowersUpto
        <4> QED
          BY <4>1, <4>2
      <3> QED
        BY <3>1, <3>2
    <2>6. d[0] = 1
      BY <2>1 DEF PowersUpto
    <2> HIDE DEF d
    <2>7. PowersUpto(d, n + 1)
      BY <2>4, <2>5, <2>6 DEF PowersUpto
    <2> QED
      BY <2>7
  <1>3. Nat \subseteq Q
    <2> HIDE DEF Q
    <2> QED
      BY <1>1, <1>2, NatInduct
  <1> QED
    BY <1>3

\* The powers up to one number are those up to another.
LEMMA PowersAgree ==
  ASSUME NEW n \in Nat, NEW m \in Nat, NEW e, NEW d, PowersUpto(e, n), PowersUpto(d, m)
  PROVE  \A k \in Nat : k <= n /\ k <= m => e[k] = d[k]
  <1> DEFINE Q == {k \in Nat : k <= n /\ k <= m => e[k] = d[k]}
  <1>1. 0 \in Q
    BY DEF PowersUpto
  <1>2. ASSUME NEW k \in Nat, k \in Q
        PROVE  k + 1 \in Q
    <2>1. SUFFICES ASSUME k + 1 <= n, k + 1 <= m
                   PROVE  e[k + 1] = d[k + 1]
      OBVIOUS
    <2>2. k + 1 \in 1..n /\ k + 1 \in 1..m /\ (k + 1) - 1 = k /\ e[k] = d[k]
      BY <1>2, <2>1
    <2>3. e[k + 1] = Base * e[k] /\ d[k + 1] = Base * d[k]
      BY <2>2 DEF PowersUpto
    <2> QED
      BY <2>2, <2>3
  <1>3. Nat \subseteq Q
    <2> HIDE DEF Q
    <2> QED
      BY <1>1, <1>2, NatInduct
  <1> QED
    BY <1>3

Powering(g) == g = [n \in Nat |-> IF n = 0 THEN 1 ELSE Base * g[n - 1]]

\* A power is the one before it times the base.
LEMMA Powers ==
  /\ \A n \in Nat : Power[n] \in Nat \ {0}
  /\ Power[0] = 1
  /\ \A n \in Nat : Power[n + 1] = Power[n] * Base
  <1> DEFINE Of(n) == CHOOSE e : PowersUpto(e, n)
             g == [n \in Nat |-> Of(n)[n]]
  <1>1. \A n \in Nat : PowersUpto(Of(n), n)
    BY PowersExist
  <1>2. \A n \in Nat : g[n] \in Nat \ {0}
    <2> HIDE DEF Of
    <2> QED
      BY <1>1 DEF PowersUpto
  <1>3. g[0] = 1
    <2> HIDE DEF Of
    <2> QED
      BY <1>1 DEF PowersUpto
  <1>4. ASSUME NEW n \in Nat, n # 0
        PROVE  g[n] = Base * g[n - 1]
    <2> HIDE DEF Of
    <2>1. n - 1 \in Nat /\ n \in 1..n
      BY <1>4
    <2>2. PowersUpto(Of(n), n) /\ PowersUpto(Of(n - 1), n - 1)
      BY <1>1, <2>1
    <2>3. Of(n)[n] = Base * Of(n)[n - 1]
      BY <2>1, <2>2 DEF PowersUpto
    <2>4. Of(n)[n - 1] = Of(n - 1)[n - 1]
      BY <2>1, <2>2, PowersAgree
    <2> QED
      BY <2>1, <2>3, <2>4
  <1>5. Powering(g)
    <2> HIDE DEF Of
    <2>1. \A n \in Nat : g[n] = IF n = 0 THEN 1 ELSE Base * g[n - 1]
      <3> HIDE DEF g
      <3> QED
        BY <1>3, <1>4
    <2> QED
      BY <2>1 DEF Powering
  <1> HIDE DEF g
  <1> DEFINE h == CHOOSE f : Powering(f)
  <1>6. Powering(h)
    BY <1>5
  <1>7. Power = h
    BY DEF Power, Powering
  <1>8. Powering(Power)
    BY <1>6, <1>7
  <1>9. \A n \in Nat : Power[n] = IF n = 0 THEN 1 ELSE Base * Power[n - 1]
    <2> HIDE DEF h
    <2> QED
      BY <1>8 DEF Powering
  <1>10. Power[0] = 1
    BY <1>9
  <1>11. ASSUME NEW n \in Nat
         PROVE  Power[n + 1] = Base * Power[n]
    <2>1. n + 1 \in Nat /\ n + 1 # 0 /\ (n + 1) - 1 = n
      OBVIOUS
    <2> QED
      BY <1>9, <2>1
  <1> DEFINE Q == {n \in Nat : Power[n] \in Nat \ {0}}
  <1>12. ASSUME NEW n \in Nat, n \in Q
         PROVE  n + 1 \in Q
    <2>1. Base * Power[n] \in Nat \ {0}
      BY <1>12, BaseIs, Products
    <2> QED
      BY <1>11, <2>1
  <1>13. Nat \subseteq Q
    <2>1. 0 \in Q
      BY <1>10
    <2> HIDE DEF Q
    <2> QED
      BY <1>12, <2>1, NatInduct
  <1> QED
    BY <1>10, <1>11, <1>13, BaseIs

\* The power of a sum is the product of the powers.
LEMMA PowerOfSum ==
  \A a, b \in Nat : Power[a + b] = Power[a] * Power[b]
  <1> SUFFICES ASSUME NEW a \in Nat
               PROVE  \A b \in Nat : Power[a + b] = Power[a] * Power[b]
    OBVIOUS
  <1> DEFINE Q == {b \in Nat : Power[a + b] = Power[a] * Power[b]}
  <1>1. 0 \in Q
    BY Powers
  <1>2. ASSUME NEW b \in Nat, b \in Q
        PROVE  b + 1 \in Q
    <2>1. Power[a + (b + 1)] = Power[a + b] * Base /\ Power[b + 1] = Power[b] * Base
      <3>1. a + b \in Nat /\ a + (b + 1) = (a + b) + 1
        OBVIOUS
      <3> QED
        BY <3>1, Powers
    <2>2. PICK x \in Nat : x = Power[a]
      BY Powers
    <2>3. PICK y \in Nat : y = Power[b]
      BY Powers
    <2>4. Power[a + b] = x * y
      BY <1>2, <2>2, <2>3
    <2>5. (x * y) * Base = x * (y * Base)
      BY BaseIs
    <2>6. Power[a + (b + 1)] = Power[a] * Power[b + 1]
      BY <2>1, <2>2, <2>3, <2>4, <2>5
    <2> QED
      BY <2>6
  <1>3. Nat \subseteq Q
    <2> HIDE DEF Q
    <2> QED
      BY <1>1, <1>2, NatInduct
  <1> QED
    BY <1>3

\* A threshold in units of the last place kept, and what is cut off after it.
Units(t) == t.places \div Power[Places - Kept]
Up(t) == IF RoundsUp(t) THEN 1 ELSE 0
Nearest(t) == Units(t) + Up(t)

\* What a threshold is made of.
LEMMA ThresholdTyped ==
  ASSUME NEW t \in Thresholds
  PROVE  t.places \in Nat /\ t.negative \in BOOLEAN /\ t = [negative |-> t.negative, places |-> t.places]
  BY PlacesAssumption DEF Thresholds

\* A threshold's kept digits read as one number, and the nearest to all of it.
LEMMA UnitsTyped ==
  ASSUME NEW t \in Thresholds
  PROVE  Units(t) \in Nat /\ Up(t) \in {0, 1} /\ Nearest(t) \in Nat
  <1>1. Places - Kept \in Nat
    BY PlacesAssumption
  <1>2. Power[Places - Kept] \in Nat \ {0}
    BY <1>1, Powers
  <1>3. Units(t) \in Nat
    BY <1>2, ThresholdTyped, Divided DEF Units
  <1>4. Up(t) \in {0, 1}
    BY DEF Up
  <1> QED
    BY <1>3, <1>4 DEF Nearest

\* The places kept are the digits of these units.
LEMMA PlacesKept ==
  ASSUME NEW t \in Thresholds, NEW k \in 0..Kept
  PROVE  t.places \div Power[Places - k] = Units(t) \div Power[Kept - k]
  <1>1. Places - Kept \in Nat /\ Kept - k \in Nat /\ Places - k = (Places - Kept) + (Kept - k)
    BY PlacesAssumption
  <1>2. PICK x \in Nat \ {0} : x = Power[Places - Kept]
    BY <1>1, Powers
  <1>3. PICK y \in Nat \ {0} : y = Power[Kept - k]
    BY <1>1, Powers
  <1>4. Power[Places - k] = x * y
    BY <1>1, <1>2, <1>3, PowerOfSum
  <1>5. t.places \div (x * y) = (t.places \div x) \div y
    BY ThresholdTyped, DividedTwice
  <1> QED
    BY <1>2, <1>3, <1>4, <1>5 DEF Units

\* format_threshold's digit at a place is that place of the number kept.
LEMMA DigitsKept ==
  ASSUME NEW t \in Thresholds, NEW k \in 0..Kept
  PROVE  Digit(t, k) = (Units(t) \div Power[Kept - k]) % Base
  BY PlacesKept DEF Digit

\* Half up, digit by digit, is half up.
LEMMA HalfUp ==
  ASSUME NEW b \in Nat \ {0}, NEW v \in Nat \ {0}, NEW a \in Nat
  PROVE  LET u == v * (2 * b)
             h == a \div u
             s == (a \div v) % (2 * b)
         IN  /\ u \in Nat \ {0}
             /\ (2 * a + u) \div (2 * u) = IF s >= b THEN h + 1 ELSE h
  <1>1. PICK m \in Nat \ {0} : m = 2 * b
    OBVIOUS
  <1>2. PICK u \in Nat \ {0} : u = v * m
    BY Products
  <1>3. PICK h \in Nat : h = a \div u
    BY Divided
  <1>4. PICK r \in 0..(u - 1) : a = h * u + r
    BY <1>3, Divided, ZenonT(30)
  <1>5. PICK s \in Nat : s = r \div v
    BY Divided
  <1>6. PICK w \in 0..(v - 1) : r = s * v + w
    <2>1. r \in Nat
      OBVIOUS
    <2>2. r % v \in 0..(v - 1) /\ r = (r \div v) * v + (r % v)
      BY <2>1, Divided
    <2> QED
      BY <1>5, <2>2
  <1>7. s \in 0..(m - 1)
    <2>1. ASSUME s >= m
          PROVE  FALSE
      <3>1. PICK e \in Nat : s = m + e
        <4>1. s - m \in Nat /\ s = m + (s - m)
          BY <2>1
        <4> QED
          BY <4>1
      <3>2. s * v = u + e * v
        BY <1>2, <3>1
      <3>3. e * v \in Nat
        OBVIOUS
      <3> QED
        BY <1>6, <3>2, <3>3
    <2> QED
      BY <2>1
  <1>8. a \div v = h * m + s
    <2>1. h * u = (h * m) * v
      BY <1>2
    <2>2. a = (h * m + s) * v + w
      <3>1. (h * m + s) * v = (h * m) * v + s * v
        OBVIOUS
      <3> QED
        BY <1>4, <1>6, <2>1, <3>1
    <2>3. h * m + s \in Int
      OBVIOUS
    <2> QED
      BY <2>2, <2>3, QuotientIs
  <1>9. (a \div v) % m = s
    <2>1. h * m + s \in Nat
      <3>1. h * m \in Nat
        OBVIOUS
      <3> QED
        BY <3>1
    <2>2. PICK q \in Nat : q = h * m + s
      BY <2>1
    <2>3. q % m = s
      BY <1>7, <2>2, QuotientIs
    <2> QED
      BY <1>8, <2>2, <2>3
  <1>10. PICK c \in Nat : c = b * v
    OBVIOUS
  <1>11. u = 2 * c
    BY <1>1, <1>2, <1>10
  <1>12. s >= b => r >= c
    <2>1. SUFFICES ASSUME s >= b PROVE r >= c
      OBVIOUS
    <2>2. PICK e \in Nat : s = b + e
      <3>1. s - b \in Nat /\ s = b + (s - b)
        BY <2>1
      <3> QED
        BY <3>1
    <2>3. s * v = c + e * v
      BY <1>10, <2>2
    <2>4. e * v \in Nat
      OBVIOUS
    <2> QED
      BY <1>6, <2>3, <2>4
  <1>13. ~(s >= b) => r < c
    <2>1. SUFFICES ASSUME ~(s >= b) PROVE r < c
      OBVIOUS
    <2>2. PICK e \in Nat : b = s + 1 + e
      <3>1. b - s - 1 \in Nat /\ b = s + 1 + (b - s - 1)
        BY <2>1
      <3> QED
        BY <3>1
    <2>3. c = s * v + v + e * v
      BY <1>10, <2>2
    <2>4. e * v \in Nat /\ s * v \in Nat
      OBVIOUS
    <2> QED
      BY <1>6, <2>3, <2>4
  <1>14. PICK d \in Nat \ {0} : d = 2 * u
    OBVIOUS
  <1>15. PICK n \in Nat : n = 2 * a + u
    OBVIOUS
  <1>16. n = h * d + (2 * r + u)
    <2>1. 2 * (h * u) = h * d
      BY <1>14
    <2>2. h * u \in Int /\ h * d \in Int
      OBVIOUS
    <2> QED
      BY <1>4, <1>15, <2>1, <2>2
  <1>17. CASE s >= b
    <2>1. 2 * r + u - d \in 0..(d - 1)
      BY <1>11, <1>12, <1>14, <1>17
    <2>2. n = (h + 1) * d + (2 * r + u - d)
      <3>1. (h + 1) * d = h * d + d /\ h * d \in Int
        OBVIOUS
      <3> QED
        BY <1>16, <3>1
    <2>3. n \div d = h + 1
      <3>1. h + 1 \in Int
        OBVIOUS
      <3> QED
        BY <2>1, <2>2, <3>1, QuotientIs
    <2> QED
      BY <1>1, <1>2, <1>3, <1>9, <1>14, <1>15, <1>17, <2>3
  <1>18. CASE ~(s >= b)
    <2>1. 2 * r + u \in 0..(d - 1)
      BY <1>11, <1>13, <1>14, <1>18
    <2>2. n \div d = h
      <3>1. h \in Int
        OBVIOUS
      <3> QED
        BY <1>16, <2>1, <3>1, QuotientIs
    <2> QED
      BY <1>1, <1>2, <1>3, <1>9, <1>14, <1>15, <1>18, <2>2
  <1> QED
    BY <1>17, <1>18

\* A rounded threshold is the nearest number of as many places as are kept.
LEMMA RoundedIsNearest ==
  ASSUME NEW t \in Thresholds
  PROVE  Rounded(t) = <<t.negative, Nearest(t)>>
  <1>1. PICK b \in Nat \ {0} : b = Base \div 2 /\ Base = 2 * b
    BY BaseIs
  <1>2. Places - Kept - 1 \in Nat /\ Places - Kept = (Places - Kept - 1) + 1
        /\ Places - (Kept + 1) = Places - Kept - 1
    BY PlacesAssumption
  <1>3. PICK v \in Nat \ {0} : v = Power[Places - Kept - 1]
    BY <1>2, Powers
  <1>4. Power[Places - Kept] = v * (2 * b)
    BY <1>1, <1>2, <1>3, Powers
  <1>5. PICK a \in Nat : a = t.places
    BY ThresholdTyped
  <1>6. RoundsUp(t) <=> (a \div v) % (2 * b) >= b
    BY <1>1, <1>2, <1>3, <1>5 DEF RoundsUp, Digit
  <1>7. Units(t) = a \div (v * (2 * b))
    BY <1>4, <1>5 DEF Units
  <1>8. (2 * a + v * (2 * b)) \div (2 * (v * (2 * b)))
          = IF (a \div v) % (2 * b) >= b THEN a \div (v * (2 * b)) + 1 ELSE a \div (v * (2 * b))
    BY HalfUp, Zenon
  <1>9. Nearest(t) = IF (a \div v) % (2 * b) >= b THEN Units(t) + 1 ELSE Units(t)
    <2>1. Units(t) \in Nat
      BY UnitsTyped
    <2> QED
      BY <1>6, <2>1 DEF Nearest, Up
  <1>10. (2 * a + v * (2 * b)) \div (2 * (v * (2 * b))) = Nearest(t)
    BY <1>7, <1>8, <1>9, Zenon
  <1>11. Rounded(t) = <<t.negative, (2 * a + v * (2 * b)) \div (2 * (v * (2 * b)))>>
    BY <1>4, <1>5, Zenon DEF Rounded
  <1> QED
    BY <1>10, <1>11, Zenon

InTwo(a, d) == a \div (d * Base) = (a \div d) \div Base

\* A number and its half, as one division by two.
LEMMA DividedInTwo ==
  ASSUME NEW a \in Nat, NEW d \in Nat \ {0}
  PROVE  InTwo(a, d)
  BY BaseIs, DividedTwice DEF InTwo

\* One more in the last place: whether it is carried on.
LEMMA OneMore ==
  ASSUME NEW a \in Nat, NEW c \in {0, 1}
  PROVE  LET full == a % Base = Base - 1
         IN  /\ (a + c) \div Base = (a \div Base) + (IF c = 1 /\ full THEN 1 ELSE 0)
             /\ (a + c) % Base = IF c = 0 THEN a % Base ELSE IF full THEN 0 ELSE (a % Base) + 1
  <1>1. PICK b \in Nat \ {0} : b = Base
    BY BaseIs
  <1>2. PICK q \in Nat, r \in 0..(b - 1) : q = a \div b /\ r = a % b /\ a = q * b + r
    BY Divided
  <1>3. PICK n \in Nat : n = a + c
    OBVIOUS
  <1>4. CASE c = 1 /\ r = b - 1
    <2>1. n = (q + 1) * b + 0
      <3>1. (q + 1) * b = q * b + b /\ q * b \in Int
        OBVIOUS
      <3> QED
        BY <1>2, <1>3, <1>4, <3>1
    <2>2. q + 1 \in Int /\ 0 \in 0..(b - 1)
      OBVIOUS
    <2>3. n \div b = q + 1 /\ n % b = 0
      BY <2>1, <2>2, QuotientIs
    <2> QED
      BY <1>1, <1>2, <1>3, <1>4, <2>3
  <1>5. CASE ~(c = 1 /\ r = b - 1)
    <2>1. r + c \in 0..(b - 1)
      BY <1>5
    <2>2. q * b \in Int
      OBVIOUS
    <2>3. n = q * b + (r + c)
      BY <1>2, <1>3, <2>2
    <2>4. q \in Int
      OBVIOUS
    <2>5. n \div b = q /\ n % b = r + c
      BY <2>1, <2>3, <2>4, QuotientIs
    <2> QED
      BY <1>1, <1>2, <1>3, <1>5, <2>5
  <1> QED
    BY <1>4, <1>5

Carried(t, k) == IF IsCarriedInto(t, k) THEN 1 ELSE 0

\* A carry goes on past a digit exactly when that digit is the largest.
LEMMA CarriedOn ==
  ASSUME NEW t \in Thresholds, NEW k \in 1..Kept
  PROVE  IsCarriedInto(t, k - 1) <=> IsCarriedInto(t, k) /\ Digit(t, k) = Base - 1
  <1>1. Kept \in Nat /\ (k - 1) + 1 = k
    BY PlacesAssumption
  <1>2. \A j : j \in k..Kept <=> j = k \/ j \in (k + 1)..Kept
    BY <1>1
  <1> QED
    BY <1>1, <1>2 DEF IsCarriedInto

\* What is carried makes the digits those of the nearest number of units.
LEMMA CarriedInto ==
  ASSUME NEW t \in Thresholds
  PROVE  \A j \in 0..Kept :
           Nearest(t) \div Power[j] = Units(t) \div Power[j] + Carried(t, Kept - j)
  <1> DEFINE A(j) == Nearest(t) \div Power[j] = Units(t) \div Power[j] + Carried(t, Kept - j)
             Q == {j \in Nat : j <= Kept => A(j)}
  <1>0. Kept \in Nat /\ Units(t) \in Nat /\ Nearest(t) \in Nat
    BY PlacesAssumption, UnitsTyped
  <1>1. 0 \in Q
    <2>1. Power[0] = 1
      BY Powers
    <2>2. IsCarriedInto(t, Kept - 0) <=> RoundsUp(t)
      <3>1. (Kept - 0 + 1)..Kept = {}
        BY <1>0
      <3> QED
        BY <3>1 DEF IsCarriedInto
    <2>3. Carried(t, Kept - 0) = Up(t)
      BY <2>2 DEF Carried, Up
    <2>4. Nearest(t) \div 1 = Nearest(t) /\ Units(t) \div 1 = Units(t)
      BY <1>0
    <2> QED
      BY <2>1, <2>3, <2>4 DEF Nearest
  <1>2. ASSUME NEW j \in Nat, j \in Q
        PROVE  j + 1 \in Q
    <2>1. SUFFICES ASSUME j + 1 <= Kept
                   PROVE  A(j + 1)
      OBVIOUS
    <2>2. PICK k : k = Kept - j
      OBVIOUS
    <2>3. k \in 1..Kept /\ Kept - (j + 1) = k - 1 /\ Kept - k = j
      BY <1>0, <2>1, <2>2
    <2>4. PICK d \in Nat \ {0} : d = Power[j]
      BY Powers
    <2>5. Power[j + 1] = d * Base
      BY <2>4, Powers
    <2>6. PICK a \in Nat : a = Units(t) \div d
      BY <1>0, Divided
    <2>7. PICK c \in {0, 1} : c = Carried(t, k)
      BY DEF Carried
    <2>8. Nearest(t) \div d = a + c
      <3>1. j <= Kept
        BY <1>0, <2>1
      <3>2. A(j)
        BY <1>2, <3>1
      <3> QED
        BY <2>2, <2>4, <2>6, <2>7, <3>2, Zenon
    <2>9. Nearest(t) \div Power[j + 1] = (a + c) \div Base
      <3>1. Nearest(t) \div (d * Base) = (Nearest(t) \div d) \div Base
        <4>1. InTwo(Nearest(t), d)
          BY <1>0, DividedInTwo
        <4> QED
          BY <4>1, Zenon DEF InTwo
      <3> QED
        BY <2>5, <2>8, <3>1, Zenon
    <2>10. Units(t) \div Power[j + 1] = a \div Base
      <3>1. Units(t) \div (d * Base) = (Units(t) \div d) \div Base
        <4>1. InTwo(Units(t), d)
          BY <1>0, DividedInTwo
        <4> QED
          BY <4>1, Zenon DEF InTwo
      <3> QED
        BY <2>5, <2>6, <3>1, Zenon
    <2>11. a % Base = Digit(t, k)
      <3>1. k \in 0..Kept
        BY <2>3
      <3> QED
        BY <2>3, <2>4, <2>6, <3>1, DigitsKept
    <2>12. Carried(t, k - 1) = IF c = 1 /\ a % Base = Base - 1 THEN 1 ELSE 0
      <3>1. c = 1 <=> IsCarriedInto(t, k)
        BY <2>7 DEF Carried
      <3>2. IsCarriedInto(t, k - 1) <=> IsCarriedInto(t, k) /\ Digit(t, k) = Base - 1
        BY <2>3, CarriedOn
      <3> QED
        BY <2>11, <3>1, <3>2, Zenon DEF Carried
    <2>13. (a + c) \div Base = (a \div Base) + (IF c = 1 /\ a % Base = Base - 1 THEN 1 ELSE 0)
      BY OneMore
    <2> QED
      BY <2>3, <2>9, <2>10, <2>12, <2>13
  <1>3. Nat \subseteq Q
    <2> HIDE DEF Q
    <2> QED
      BY <1>1, <1>2, NatInduct
  <1> QED
    BY <1>0, <1>3

PlaceOf(n, k) == (n \div Power[Kept - k]) % Base

\* The digits after the carry are those of the rounded number.
LEMMA DigitsAre ==
  ASSUME NEW t \in Thresholds, NEW k \in 1..Kept
  PROVE  Carry(t).digits[k] = PlaceOf(Nearest(t), k)
  <1>0. Kept \in Nat /\ Units(t) \in Nat /\ Nearest(t) \in Nat
    BY PlacesAssumption, UnitsTyped
  <1>1. PICK j \in 0..Kept : j = Kept - k /\ Kept - j = k
    BY <1>0
  <1>2. PICK d \in Nat \ {0} : d = Power[j]
    BY Powers
  <1>3. PICK a \in Nat : a = Units(t) \div d
    BY <1>0, Divided
  <1>4. PICK c \in {0, 1} : c = Carried(t, k)
    BY DEF Carried
  <1>5. Nearest(t) \div d = a + c
    BY <1>1, <1>2, <1>3, <1>4, CarriedInto
  <1>6. a % Base = Digit(t, k)
    <2>1. k \in 0..Kept
      BY <1>0
    <2> QED
      BY <1>1, <1>2, <1>3, <2>1, DigitsKept
  <1>7. c = 0 <=> ~IsCarriedInto(t, k)
    BY <1>4 DEF Carried
  <1>8. (a + c) % Base
          = IF c = 0 THEN a % Base ELSE IF a % Base = Base - 1 THEN 0 ELSE (a % Base) + 1
    BY OneMore
  <1>9. Carry(t).digits[k]
          = IF ~IsCarriedInto(t, k) THEN Digit(t, k)
            ELSE IF Digit(t, k) = Base - 1 THEN 0 ELSE Digit(t, k) + 1
    BY DEF Carry
  <1>10. PlaceOf(Nearest(t), k) = (a + c) % Base
    BY <1>1, <1>2, <1>5 DEF PlaceOf
  <1> QED
    BY <1>6, <1>7, <1>8, <1>9, <1>10, Zenon

\* The whole part after the carry is that of the rounded number.
LEMMA WholeIs ==
  ASSUME NEW t \in Thresholds
  PROVE  t.places \div Power[Places] + (IF Carry(t).carry THEN 1 ELSE 0) = Nearest(t) \div Power[Kept]
  <1>0. Kept \in Nat /\ Kept \in 0..Kept /\ 0 \in 0..Kept /\ Kept - Kept = 0 /\ Kept - 0 = Kept
        /\ Places - 0 = Places
    BY PlacesAssumption
  <1>1. t.places \div Power[Places] = Units(t) \div Power[Kept]
    BY <1>0, PlacesKept
  <1>2. Nearest(t) \div Power[Kept] = Units(t) \div Power[Kept] + Carried(t, 0)
    BY <1>0, CarriedInto
  <1>3. (IF Carry(t).carry THEN 1 ELSE 0) = Carried(t, 0)
    BY DEF Carry, Carried
  <1> QED
    BY <1>1, <1>2, <1>3

\* format_threshold writes the rounded number: its sign, its whole part, its digits.
LEMMA Formatted ==
  ASSUME NEW t \in Thresholds
  PROVE  FormatThreshold(t) = [negative |-> t.negative,
                               whole |-> (Nearest(t) \div Power[Kept]) % Whole,
                               digits |-> [k \in 1..Kept |-> PlaceOf(Nearest(t), k)]]
  <1>1. Carry(t).digits = [k \in 1..Kept |-> PlaceOf(Nearest(t), k)]
    <2>1. Carry(t).digits = [k \in 1..Kept |-> Carry(t).digits[k]]
      BY DEF Carry
    <2> QED
      BY <2>1, DigitsAre
  <1> QED
    BY <1>1, WholeIs, Zenon DEF FormatThreshold

\* A number is its digits and what is before them.
LEMMA DigitsTell ==
  ASSUME NEW n \in Nat, NEW m \in Nat,
         n \div Power[Kept] = m \div Power[Kept],
         \A k \in 1..Kept : PlaceOf(n, k) = PlaceOf(m, k)
  PROVE  n = m
  <1> DEFINE Q == {k \in Nat : k <= Kept => n \div Power[Kept - k] = m \div Power[Kept - k]}
  <1>0. Kept \in Nat
    BY PlacesAssumption
  <1>1. 0 \in Q
    BY <1>0
  <1>2. ASSUME NEW k \in Nat, k \in Q
        PROVE  k + 1 \in Q
    <2>1. SUFFICES ASSUME k + 1 <= Kept
                   PROVE  n \div Power[Kept - (k + 1)] = m \div Power[Kept - (k + 1)]
      OBVIOUS
    <2>2. PICK j \in Nat : j = Kept - (k + 1) /\ Kept - k = j + 1
      BY <1>0, <2>1
    <2>3. PICK d \in Nat \ {0} : d = Power[j]
      BY Powers
    <2>4. Power[Kept - k] = d * Base
      BY <2>2, <2>3, Powers
    <2>5. PICK x \in Nat : x = n \div d
      BY Divided
    <2>6. PICK y \in Nat : y = m \div d
      BY Divided
    <2>7. x \div Base = y \div Base
      <3>1. n \div (d * Base) = (n \div d) \div Base /\ m \div (d * Base) = (m \div d) \div Base
        <4>1. InTwo(n, d) /\ InTwo(m, d)
          BY DividedInTwo
        <4> QED
          BY <4>1, Zenon DEF InTwo
      <3>2. k <= Kept
        BY <1>0, <2>1
      <3>3. n \div Power[Kept - k] = m \div Power[Kept - k]
        BY <1>2, <3>2
      <3> QED
        BY <2>4, <2>5, <2>6, <3>1, <3>3, Zenon
    <2>8. x % Base = y % Base
      <3>1. k + 1 \in 1..Kept
        BY <2>1
      <3>2. PlaceOf(n, k + 1) = PlaceOf(m, k + 1)
        BY <3>1
      <3> QED
        BY <2>2, <2>3, <2>5, <2>6, <3>2, Zenon DEF PlaceOf
    <2>9. x = y
      <3>1. x = (x \div Base) * Base + (x % Base) /\ y = (y \div Base) * Base + (y % Base)
        BY BaseIs, Divided
      <3> QED
        BY <2>7, <2>8, <3>1
    <2> QED
      BY <2>2, <2>3, <2>5, <2>6, <2>9
  <1>3. Nat \subseteq Q
    <2> HIDE DEF Q
    <2> QED
      BY <1>1, <1>2, NatInduct
  <1>4. n \div Power[0] = m \div Power[0]
    <2>1. Kept \in Q /\ Kept - Kept = 0
      BY <1>0, <1>3
    <2> QED
      BY <1>0, <2>1
  <1>5. n \div 1 = n /\ m \div 1 = m
    OBVIOUS
  <1> QED
    BY <1>4, <1>5, Powers

\* A whole part that is counted is written as it is.
LEMMA CountedFits ==
  ASSUME NEW t \in Thresholds, Counted(t)
  PROVE  (Nearest(t) \div Power[Kept]) % Whole = Nearest(t) \div Power[Kept]
  <1>1. Rounded(t)[2] = Nearest(t)
    BY RoundedIsNearest
  <1>2. PICK d \in Nat \ {0} : d = Power[Kept]
    BY PlacesAssumption, Powers
  <1>3. PICK w \in Nat \ {0} : w = Whole
    BY PlacesAssumption
  <1>4. PICK n \in Nat : n = Nearest(t)
    BY UnitsTyped
  <1>5. n < w * d
    BY <1>1, <1>2, <1>3, <1>4 DEF Counted
  <1>6. PICK q \in Nat, r \in 0..(d - 1) : q = n \div d /\ n = q * d + r
    BY Divided
  <1>7. q < w
    <2>1. ASSUME q >= w
          PROVE  FALSE
      <3>1. PICK e \in Nat : q = w + e
        <4>1. q - w \in Nat /\ q = w + (q - w)
          BY <2>1
        <4> QED
          BY <4>1
      <3>2. q * d = w * d + e * d
        BY <3>1
      <3>3. e * d \in Nat /\ w * d \in Nat
        OBVIOUS
      <3> QED
        BY <1>5, <1>6, <3>2, <3>3
    <2> QED
      BY <2>1
  <1>8. q % w = q
    <2>1. q \in 0..(w - 1) /\ 0 \in Int /\ q = 0 * w + q
      BY <1>7
    <2> QED
      BY <2>1, QuotientIs
  <1> QED
    BY <1>2, <1>3, <1>4, <1>6, <1>8

\* Two thresholds are written alike exactly when they are rounded alike.
LEMMA WrittenAlike ==
  ASSUME NEW t \in Thresholds, NEW u \in Thresholds, Counted(t), Counted(u)
  PROVE  FormatThreshold(t) = FormatThreshold(u) <=> Rounded(t) = Rounded(u)
  <1>1. ASSUME Rounded(t) = Rounded(u)
        PROVE  FormatThreshold(t) = FormatThreshold(u)
    <2>1. t.negative = u.negative /\ Nearest(t) = Nearest(u)
      BY <1>1, RoundedIsNearest
    <2> QED
      BY <2>1, Formatted
  <1>2. ASSUME FormatThreshold(t) = FormatThreshold(u)
        PROVE  Rounded(t) = Rounded(u)
    <2>1. /\ FormatThreshold(t).negative = t.negative
          /\ FormatThreshold(t).whole = (Nearest(t) \div Power[Kept]) % Whole
          /\ \A k \in 1..Kept : FormatThreshold(t).digits[k] = PlaceOf(Nearest(t), k)
      <3>1. PICK whole : whole = (Nearest(t) \div Power[Kept]) % Whole
        OBVIOUS
      <3>2. FormatThreshold(t) = [negative |-> t.negative, whole |-> whole,
                                   digits |-> [k \in 1..Kept |-> PlaceOf(Nearest(t), k)]]
        BY <3>1, Formatted, Zenon
      <3>3. /\ FormatThreshold(t).negative = t.negative
            /\ FormatThreshold(t).whole = whole
            /\ \A k \in 1..Kept : FormatThreshold(t).digits[k] = PlaceOf(Nearest(t), k)
        BY <3>2
      <3> QED
        BY <3>1, <3>3, Zenon
    <2>2. /\ FormatThreshold(u).negative = u.negative
          /\ FormatThreshold(u).whole = (Nearest(u) \div Power[Kept]) % Whole
          /\ \A k \in 1..Kept : FormatThreshold(u).digits[k] = PlaceOf(Nearest(u), k)
      <3>1. PICK whole : whole = (Nearest(u) \div Power[Kept]) % Whole
        OBVIOUS
      <3>2. FormatThreshold(u) = [negative |-> u.negative, whole |-> whole,
                                   digits |-> [k \in 1..Kept |-> PlaceOf(Nearest(u), k)]]
        BY <3>1, Formatted, Zenon
      <3>3. /\ FormatThreshold(u).negative = u.negative
            /\ FormatThreshold(u).whole = whole
            /\ \A k \in 1..Kept : FormatThreshold(u).digits[k] = PlaceOf(Nearest(u), k)
        BY <3>2
      <3> QED
        BY <3>1, <3>3, Zenon
    <2>3. Nearest(t) \div Power[Kept] = Nearest(u) \div Power[Kept]
      BY <1>2, <2>1, <2>2, CountedFits
    <2>4. \A k \in 1..Kept : PlaceOf(Nearest(t), k) = PlaceOf(Nearest(u), k)
      BY <1>2, <2>1, <2>2
    <2>5. Nearest(t) = Nearest(u)
      BY <2>3, <2>4, UnitsTyped, DigitsTell
    <2>6. t.negative = u.negative
      BY <1>2, <2>1, <2>2
    <2> QED
      BY <2>5, <2>6, RoundedIsNearest
  <1> QED
    BY <1>1, <1>2

\* A text that has the diff_id of some inputs, and says what it may of the rest.
Text(version, readable, build, said, inputs) ==
  [version |-> version, readable |-> readable,
   payload |-> [diffId |-> DiffId(ThisBuild, inputs), build |-> build, inputs |-> said]]

IsTaken(version, readable, build, said, inputs) ==
  /\ version = "d1" /\ readable
  /\ build = ThisBuild
  /\ said.registry \in Ours
  /\ DiffId(ThisBuild, inputs) = DiffId(ThisBuild, said)

\* parse takes a text exactly when it is this version's, readable, of this build, and hashes
\* to what it says.
LEMMA TakenWhen ==
  ASSUME NEW version, NEW readable, NEW build, NEW said, NEW inputs
  PROVE  LET text == Text(version, readable, build, said, inputs)
         IN  /\ Decode(text).refused = "no" <=> IsTaken(version, readable, build, said, inputs)
             /\ IsTaken(version, readable, build, said, inputs) => Decode(text) = Taken(said)
             /\ StillNames(text, inputs) <=> /\ version = "d1" /\ readable
                                             /\ build = ThisBuild /\ SameComparison(inputs, said)
  <1>1. PICK id : id = DiffId(ThisBuild, inputs)
    OBVIOUS
  <1>2. PICK other : other = DiffId(ThisBuild, said)
    OBVIOUS
  <1>3. PICK text : text = [version |-> version, readable |-> readable,
                            payload |-> [diffId |-> id, build |-> build, inputs |-> said]]
    OBVIOUS
  <1>4. Text(version, readable, build, said, inputs) = text
    BY <1>1, <1>3, Zenon DEF Text
  <1>5. /\ text.version = version /\ text.readable = readable
        /\ text.payload.build = build /\ text.payload.inputs = said /\ text.payload.diffId = id
    BY <1>3
  <1>6. Malformed.refused = "malformed" /\ [refused |-> "otherBuild"].refused = "otherBuild"
        /\ [refused |-> "edited"].refused = "edited" /\ Taken(said).refused = "no"
    BY DEF Malformed, Taken
  <1>7. Decode(text) = IF version # "d1" \/ ~readable THEN Malformed
                       ELSE IF build # ThisBuild THEN [refused |-> "otherBuild"]
                       ELSE IF said.registry \notin Ours THEN Malformed
                       ELSE IF id # other THEN [refused |-> "edited"]
                       ELSE Taken(said)
    BY <1>2, <1>5, Zenon DEF Decode
  <1>8. IsTaken(version, readable, build, said, inputs)
          <=> version = "d1" /\ readable /\ build = ThisBuild /\ said.registry \in Ours /\ id = other
    BY <1>1, <1>2, Zenon DEF IsTaken
  <1>9. /\ Decode(text).refused = "no" <=> IsTaken(version, readable, build, said, inputs)
        /\ IsTaken(version, readable, build, said, inputs) => Decode(text) = Taken(said)
    <2>1. CASE version # "d1" \/ ~readable
      BY <1>6, <1>7, <1>8, <2>1
    <2>2. CASE ~(version # "d1" \/ ~readable) /\ build # ThisBuild
      BY <1>6, <1>7, <1>8, <2>2
    <2>3. CASE ~(version # "d1" \/ ~readable) /\ ~(build # ThisBuild) /\ said.registry \notin Ours
      BY <1>6, <1>7, <1>8, <2>3
    <2>4. CASE /\ ~(version # "d1" \/ ~readable) /\ ~(build # ThisBuild)
               /\ ~(said.registry \notin Ours) /\ id # other
      BY <1>6, <1>7, <1>8, <2>4
    <2>5. CASE /\ ~(version # "d1" \/ ~readable) /\ ~(build # ThisBuild)
               /\ ~(said.registry \notin Ours) /\ ~(id # other)
      BY <1>6, <1>7, <1>8, <2>5
    <2> QED
      BY <2>1, <2>2, <2>3, <2>4, <2>5
  <1>10. StillNames(text, inputs) <=> /\ version = "d1" /\ readable
                                      /\ build = ThisBuild /\ SameComparison(inputs, said)
    BY <1>5, Zenon DEF StillNames
  <1> QED
    BY <1>4, <1>9, <1>10

\* Inputs that a diff_id does not tell apart differ in their thresholds alone.
LEMMA SameDiffId ==
  ASSUME NEW i \in Inputs, NEW j \in Inputs
  PROVE  DiffId(ThisBuild, i) = DiffId(ThisBuild, j)
           <=> /\ j = [i EXCEPT !.threshold = j.threshold]
               /\ FormatThreshold(i.threshold) = FormatThreshold(j.threshold)
  <1>1. PICK a : a = FormatThreshold(i.threshold)
    OBVIOUS
  <1>2. PICK b : b = FormatThreshold(j.threshold)
    OBVIOUS
  <1>3. DiffId(ThisBuild, i)
          = [build |-> ThisBuild, registry |-> i.registry, package |-> i.package,
             from |-> i.from, to |-> i.to, ignoreWhitespace |-> i.ignoreWhitespace, threshold |-> a]
    BY <1>1, Zenon DEF DiffId
  <1>4. DiffId(ThisBuild, j)
          = [build |-> ThisBuild, registry |-> j.registry, package |-> j.package,
             from |-> j.from, to |-> j.to, ignoreWhitespace |-> j.ignoreWhitespace, threshold |-> b]
    BY <1>2, Zenon DEF DiffId
  <1>5. DiffId(ThisBuild, i) = DiffId(ThisBuild, j)
          <=> /\ i.registry = j.registry /\ i.package = j.package /\ i.from = j.from /\ i.to = j.to
              /\ i.ignoreWhitespace = j.ignoreWhitespace /\ a = b
    BY <1>3, <1>4
  <1>6. j = [i EXCEPT !.threshold = j.threshold]
          <=> /\ i.registry = j.registry /\ i.package = j.package /\ i.from = j.from /\ i.to = j.to
              /\ i.ignoreWhitespace = j.ignoreWhitespace
    BY DEF Inputs
  <1> QED
    BY <1>1, <1>2, <1>5, <1>6

\* A handle is read as what it was minted for.
LEMMA ReadAsMinted ==
  ASSUME NEW i \in Inputs
  PROVE  Decode(Encode(i)) = Taken(i)
  <1>1. Encode(i) = Text("d1", TRUE, ThisBuild, i, i)
    BY Zenon DEF Encode, Text
  <1>2. IsTaken("d1", TRUE, ThisBuild, i, i)
    BY DEF IsTaken, Inputs
  <1>3. Decode(Text("d1", TRUE, ThisBuild, i, i)) = Taken(i)
    BY <1>2, TakenWhen, Zenon
  <1> QED
    BY <1>1, <1>3

Reversioned(e, new) == [e EXCEPT !.version = new]
Spoilt(e, new) == [e EXCEPT !.readable = new]
Rebuilt(e, new) == [e EXCEPT !.payload.build = new]
Resaid(e, new) == [e EXCEPT !.payload.inputs = new]
Reread(e, new) == [e EXCEPT !.payload.inputs.threshold = new]

InPlaceIs(v, r, b, j, i, new) ==
  /\ Reversioned(Text(v, r, b, j, i), new) = Text(new, r, b, j, i)
  /\ Spoilt(Text(v, r, b, j, i), new) = Text(v, new, b, j, i)
  /\ Rebuilt(Text(v, r, b, j, i), new) = Text(v, r, new, j, i)
  /\ Resaid(Text(v, r, b, j, i), new) = Text(v, r, b, new, i)
  /\ Reread(Text(v, r, b, j, i), new) = Text(v, r, b, [j EXCEPT !.threshold = new], i)

\* A text edited in one field is the text with that field replaced.
LEMMA InPlace ==
  \A v, r, b, j, i, new : InPlaceIs(v, r, b, j, i, new)
  <1> SUFFICES ASSUME NEW v, NEW r, NEW b, NEW j, NEW i, NEW new
               PROVE  InPlaceIs(v, r, b, j, i, new)
    OBVIOUS
  <1>1. PICK id : id = DiffId(ThisBuild, i)
    OBVIOUS
  <1>2. PICK p : p = [diffId |-> id, build |-> b, inputs |-> j]
    OBVIOUS
  <1>3. PICK q : q = [diffId |-> id, build |-> new, inputs |-> j]
    OBVIOUS
  <1>4. PICK s : s = [diffId |-> id, build |-> b, inputs |-> new]
    OBVIOUS
  <1>5. [p EXCEPT !.build = new] = q /\ [p EXCEPT !.inputs = new] = s
    BY <1>2, <1>3, <1>4
  <1>6. PICK e : e = [version |-> v, readable |-> r, payload |-> p]
    OBVIOUS
  <1>7. /\ [e EXCEPT !.version = new] = [version |-> new, readable |-> r, payload |-> p]
        /\ [e EXCEPT !.readable = new] = [version |-> v, readable |-> new, payload |-> p]
        /\ [e EXCEPT !.payload = q] = [version |-> v, readable |-> r, payload |-> q]
        /\ [e EXCEPT !.payload = s] = [version |-> v, readable |-> r, payload |-> s]
        /\ e.payload = p
    BY <1>6
  <1>8. Text(v, r, b, j, i) = e
    BY <1>1, <1>2, <1>6, Zenon DEF Text
  <1>9. /\ Text(new, r, b, j, i) = [version |-> new, readable |-> r, payload |-> p]
        /\ Text(v, new, b, j, i) = [version |-> v, readable |-> new, payload |-> p]
        /\ Text(v, r, new, j, i) = [version |-> v, readable |-> r, payload |-> q]
        /\ Text(v, r, b, new, i) = [version |-> v, readable |-> r, payload |-> s]
    BY <1>1, <1>2, <1>3, <1>4, Zenon DEF Text
  <1>10. /\ Reversioned(e, new) = Text(new, r, b, j, i)
         /\ Spoilt(e, new) = Text(v, new, b, j, i)
    BY <1>7, <1>9 DEF Reversioned, Spoilt
  <1>11. Rebuilt(e, new) = Text(v, r, new, j, i)
    <2>1. Rebuilt(e, new) = [e EXCEPT !.payload = [e.payload EXCEPT !.build = new]]
      BY <1>6 DEF Rebuilt
    <2> QED
      BY <1>5, <1>7, <1>9, <2>1
  <1>12. Resaid(e, new) = Text(v, r, b, new, i)
    <2>1. Resaid(e, new) = [e EXCEPT !.payload = [e.payload EXCEPT !.inputs = new]]
      BY <1>6 DEF Resaid
    <2> QED
      BY <1>5, <1>7, <1>9, <2>1
  <1>13. Reread(e, new) = Text(v, r, b, [j EXCEPT !.threshold = new], i)
    <2>1. PICK k : k = [j EXCEPT !.threshold = new]
      <3> DEFINE k == [j EXCEPT !.threshold = new]
      <3>1. k = k
        OBVIOUS
      <3> HIDE DEF k
      <3> QED
        BY <3>1, Zenon
    <2>2. PICK s2 : s2 = [diffId |-> id, build |-> b, inputs |-> k]
      OBVIOUS
    <2>3. Reread(e, new)
            = [e EXCEPT !.payload = [e.payload EXCEPT !.inputs = [e.payload.inputs EXCEPT !.threshold = new]]]
      BY <1>2, <1>6 DEF Reread
    <2>4. e.payload.inputs = j
      BY <1>2, <1>7
    <2>5. [p EXCEPT !.inputs = k] = s2
      BY <1>2, <2>2
    <2>6. Reread(e, new) = [e EXCEPT !.payload = s2]
      BY <1>7, <2>1, <2>3, <2>4, <2>5
    <2>7. [e EXCEPT !.payload = s2] = [version |-> v, readable |-> r, payload |-> s2]
      BY <1>6
    <2>8. Text(v, r, b, k, i) = [version |-> v, readable |-> r, payload |-> s2]
      BY <1>1, <2>2, Zenon DEF Text
    <2> QED
      BY <2>1, <2>6, <2>7, <2>8
  <1> QED
    BY <1>8, <1>10, <1>11, <1>12, <1>13, Zenon DEF InPlaceIs

\* What somebody who edits a handle in one place makes of its text.
IsEdited(text, i) ==
  \/ text = Text("d0", TRUE, ThisBuild, i, i)
  \/ text = Text("d1", FALSE, ThisBuild, i, i)
  \/ \E build \in Builds \ {ThisBuild} : text = Text("d1", TRUE, build, i, i)
  \/ \E id \in (Ours \cup {Unknown}) \ {i.registry} :
       text = Text("d1", TRUE, ThisBuild, [i EXCEPT !.registry = id], i)
  \/ \E name \in Names \ {i.package} :
       text = Text("d1", TRUE, ThisBuild, [i EXCEPT !.package = name], i)
  \/ \E name \in Names \ {i.from} :
       text = Text("d1", TRUE, ThisBuild, [i EXCEPT !.from = name], i)
  \/ \E name \in Names \ {i.to} :
       text = Text("d1", TRUE, ThisBuild, [i EXCEPT !.to = name], i)
  \/ \E t \in Thresholds :
       Counted(t) /\ text = Text("d1", TRUE, ThisBuild, [i EXCEPT !.threshold = t], i)
  \/ text = Text("d1", TRUE, ThisBuild, [i EXCEPT !.ignoreWhitespace = ~@], i)

\* The texts a handle can be edited into in one place.
LEMMA EditedAre ==
  ASSUME NEW i, NEW text \in Edited(Encode(i))
  PROVE  IsEdited(text, i)
  <1>1. PICK e : e = Text("d1", TRUE, ThisBuild, i, i)
    OBVIOUS
  <1>3. Encode(i) = e
    BY <1>1, Zenon DEF Encode, Text
  <1>4. e.payload.inputs = i
    <2>1. PICK p : p = [diffId |-> DiffId(ThisBuild, i), build |-> ThisBuild, inputs |-> i]
      OBVIOUS
    <2>2. e = [version |-> "d1", readable |-> TRUE, payload |-> p]
      BY <1>1, <2>1, Zenon DEF Text
    <2> QED
      BY <2>1, <2>2
  <1>8. /\ Reversioned(e, "d0") = Text("d0", TRUE, ThisBuild, i, i)
        /\ Spoilt(e, FALSE) = Text("d1", FALSE, ThisBuild, i, i)
    <2>1. InPlaceIs("d1", TRUE, ThisBuild, i, i, "d0") /\ InPlaceIs("d1", TRUE, ThisBuild, i, i, FALSE)
      BY InPlace, Zenon
    <2> QED
      BY <1>1, <2>1, Zenon DEF InPlaceIs
  <1>9. \A build : Rebuilt(e, build) = Text("d1", TRUE, build, i, i)
    <2>1. \A build : InPlaceIs("d1", TRUE, ThisBuild, i, i, build)
      BY InPlace, Zenon
    <2> QED
      BY <1>1, <2>1, Zenon DEF InPlaceIs
  <1>10. \A other : Resaid(e, other) = Text("d1", TRUE, ThisBuild, other, i)
    <2>1. \A other : InPlaceIs("d1", TRUE, ThisBuild, i, i, other)
      BY InPlace, Zenon
    <2> QED
      BY <1>1, <2>1, Zenon DEF InPlaceIs
  <1> DEFINE With(others) == {Resaid(e, other) : other \in others}
  <1>11. text \in {Reversioned(e, "d0"), Spoilt(e, FALSE)}
           \cup {Rebuilt(e, build) : build \in Builds \ {ThisBuild}}
           \cup With({[i EXCEPT !.registry = r] : r \in (Ours \cup {Unknown}) \ {i.registry}})
           \cup With({[i EXCEPT !.package = name] : name \in Names \ {i.package}})
           \cup With({[i EXCEPT !.from = name] : name \in Names \ {i.from}})
           \cup With({[i EXCEPT !.to = name] : name \in Names \ {i.to}})
           \cup With({[i EXCEPT !.threshold = t] : t \in {u \in Thresholds : Counted(u)}})
           \cup With({[i EXCEPT !.ignoreWhitespace = ~@]})
    <2>1. text \in {[e EXCEPT !.version = "d0"], [e EXCEPT !.readable = FALSE]}
             \cup {[e EXCEPT !.payload.build = build] : build \in Builds \ {ThisBuild}}
             \cup {[e EXCEPT !.payload.inputs = other] : other \in
                     {[i EXCEPT !.registry = r] : r \in (Ours \cup {Unknown}) \ {i.registry}}}
             \cup {[e EXCEPT !.payload.inputs = other] : other \in
                     {[i EXCEPT !.package = name] : name \in Names \ {i.package}}}
             \cup {[e EXCEPT !.payload.inputs = other] : other \in
                     {[i EXCEPT !.from = name] : name \in Names \ {i.from}}}
             \cup {[e EXCEPT !.payload.inputs = other] : other \in
                     {[i EXCEPT !.to = name] : name \in Names \ {i.to}}}
             \cup {[e EXCEPT !.payload.inputs = other] : other \in
                     {[i EXCEPT !.threshold = t] : t \in {u \in Thresholds : Counted(u)}}}
             \cup {[e EXCEPT !.payload.inputs = other] : other \in
                     {[i EXCEPT !.ignoreWhitespace = ~@]}}
      BY <1>3, <1>4 DEF Edited
    <2> QED
      BY <2>1, Zenon DEF Reversioned, Spoilt, Rebuilt, Resaid
  <1>12. \A others : \A x \in With(others) :
           \E other \in others : x = Text("d1", TRUE, ThisBuild, other, i)
    BY <1>10
  <1> HIDE DEF With
  <1>13. CASE text \in {Reversioned(e, "d0"), Spoilt(e, FALSE)}
    BY <1>8, <1>13 DEF IsEdited
  <1>14. CASE text \in {Rebuilt(e, build) : build \in Builds \ {ThisBuild}}
    BY <1>9, <1>14 DEF IsEdited
  <1>15. CASE text \in With({[i EXCEPT !.registry = r] : r \in (Ours \cup {Unknown}) \ {i.registry}})
    <2>1. PICK other \in {[i EXCEPT !.registry = r] : r \in (Ours \cup {Unknown}) \ {i.registry}} :
            text = Text("d1", TRUE, ThisBuild, other, i)
      BY <1>12, <1>15, Zenon
    <2>2. PICK r \in (Ours \cup {Unknown}) \ {i.registry} : other = [i EXCEPT !.registry = r]
      BY <2>1, Zenon
    <2>3. text = Text("d1", TRUE, ThisBuild, [i EXCEPT !.registry = r], i)
      BY <2>1, <2>2, Zenon
    <2> QED
      BY <2>3, Zenon DEF IsEdited
  <1>16. CASE text \in With({[i EXCEPT !.package = name] : name \in Names \ {i.package}})
    <2>1. PICK other \in {[i EXCEPT !.package = name] : name \in Names \ {i.package}} :
            text = Text("d1", TRUE, ThisBuild, other, i)
      BY <1>12, <1>16, Zenon
    <2>2. PICK name \in Names \ {i.package} : other = [i EXCEPT !.package = name]
      BY <2>1, Zenon
    <2>3. text = Text("d1", TRUE, ThisBuild, [i EXCEPT !.package = name], i)
      BY <2>1, <2>2, Zenon
    <2> QED
      BY <2>3, Zenon DEF IsEdited
  <1>17. CASE text \in With({[i EXCEPT !.from = name] : name \in Names \ {i.from}})
    <2>1. PICK other \in {[i EXCEPT !.from = name] : name \in Names \ {i.from}} :
            text = Text("d1", TRUE, ThisBuild, other, i)
      BY <1>12, <1>17, Zenon
    <2>2. PICK name \in Names \ {i.from} : other = [i EXCEPT !.from = name]
      BY <2>1, Zenon
    <2>3. text = Text("d1", TRUE, ThisBuild, [i EXCEPT !.from = name], i)
      BY <2>1, <2>2, Zenon
    <2> QED
      BY <2>3, Zenon DEF IsEdited
  <1>18. CASE text \in With({[i EXCEPT !.to = name] : name \in Names \ {i.to}})
    <2>1. PICK other \in {[i EXCEPT !.to = name] : name \in Names \ {i.to}} :
            text = Text("d1", TRUE, ThisBuild, other, i)
      BY <1>12, <1>18, Zenon
    <2>2. PICK name \in Names \ {i.to} : other = [i EXCEPT !.to = name]
      BY <2>1, Zenon
    <2>3. text = Text("d1", TRUE, ThisBuild, [i EXCEPT !.to = name], i)
      BY <2>1, <2>2, Zenon
    <2> QED
      BY <2>3, Zenon DEF IsEdited
  <1>19. CASE text \in With({[i EXCEPT !.threshold = t] : t \in {u \in Thresholds : Counted(u)}})
    <2>1. PICK other \in {[i EXCEPT !.threshold = t] : t \in {u \in Thresholds : Counted(u)}} :
            text = Text("d1", TRUE, ThisBuild, other, i)
      BY <1>12, <1>19, Zenon
    <2>2. PICK t \in {u \in Thresholds : Counted(u)} : other = [i EXCEPT !.threshold = t]
      BY <2>1, Zenon
    <2>3. text = Text("d1", TRUE, ThisBuild, [i EXCEPT !.threshold = t], i)
      BY <2>1, <2>2, Zenon
    <2>4. t \in Thresholds /\ Counted(t)
      OBVIOUS
    <2> QED
      BY <2>3, <2>4, Zenon DEF IsEdited
  <1>20. CASE text \in With({[i EXCEPT !.ignoreWhitespace = ~@]})
    <2>1. text = Resaid(e, [i EXCEPT !.ignoreWhitespace = ~@])
      BY <1>20 DEF With
    <2>2. text = Text("d1", TRUE, ThisBuild, [i EXCEPT !.ignoreWhitespace = ~@], i)
      BY <1>10, <2>1, Zenon
    <2> QED
      BY <2>2, Zenon DEF IsEdited
  <1> QED
    BY <1>11, <1>13, <1>14, <1>15, <1>16, <1>17, <1>18, <1>19, <1>20

TakenIfNamed(text, inputs) == Decode(text).refused = "no" <=> StillNames(text, inputs)

TakenIfSame(version, readable, build, said, inputs) ==
  TakenIfNamed(Text(version, readable, build, said, inputs), inputs)

\* parse takes an edited text only when it names the same comparison.
LEMMA TakenSo ==
  ASSUME NEW version, NEW readable, NEW build, NEW said, NEW inputs,
         IsTaken(version, readable, build, said, inputs)
           <=> version = "d1" /\ readable /\ build = ThisBuild /\ SameComparison(inputs, said)
  PROVE  TakenIfSame(version, readable, build, said, inputs)
  <1>1. PICK text : text = Text(version, readable, build, said, inputs)
    OBVIOUS
  <1>2. Decode(text).refused = "no" <=> IsTaken(version, readable, build, said, inputs)
    BY <1>1, TakenWhen
  <1>3. StillNames(text, inputs) <=> /\ version = "d1" /\ readable
                                     /\ build = ThisBuild /\ SameComparison(inputs, said)
    BY <1>1, TakenWhen
  <1>4. TakenIfNamed(text, inputs)
    BY <1>2, <1>3, Zenon DEF TakenIfNamed
  <1> QED
    BY <1>1, <1>4, Zenon DEF TakenIfSame

\* A text of another version, unreadable or of another build is not taken, whatever it says.
LEMMA NotTaken ==
  ASSUME NEW version, NEW readable, NEW build, NEW said, NEW inputs,
         version # "d1" \/ ~readable \/ build # ThisBuild
  PROVE  TakenIfSame(version, readable, build, said, inputs)
  <1>1. ~IsTaken(version, readable, build, said, inputs)
    BY DEF IsTaken
  <1> QED
    BY <1>1, TakenSo

\* What is taken of a text that says something else.
LEMMA SaidOtherwise ==
  ASSUME NEW i \in Inputs, NEW j \in Inputs, Counted(i.threshold), Counted(j.threshold)
  PROVE  TakenIfSame("d1", TRUE, ThisBuild, j, i)
  <1>1. i.threshold \in Thresholds /\ j.threshold \in Thresholds /\ j.registry \in Ours
    BY DEF Inputs
  <1>2. FormatThreshold(i.threshold) = FormatThreshold(j.threshold)
          <=> Rounded(i.threshold) = Rounded(j.threshold)
    BY <1>1, WrittenAlike
  <1>3. DiffId(ThisBuild, i) = DiffId(ThisBuild, j) <=> SameComparison(i, j)
    <2>1. DiffId(ThisBuild, i) = DiffId(ThisBuild, j)
            <=> /\ j = [i EXCEPT !.threshold = j.threshold]
                /\ FormatThreshold(i.threshold) = FormatThreshold(j.threshold)
      BY SameDiffId
    <2>2. PICK same : same <=> j = [i EXCEPT !.threshold = j.threshold]
      OBVIOUS
    <2>3. SameComparison(i, j) <=> same /\ Rounded(i.threshold) = Rounded(j.threshold)
      BY <2>2 DEF SameComparison
    <2> QED
      BY <1>2, <2>1, <2>2, <2>3
  <1>4. IsTaken("d1", TRUE, ThisBuild, j, i) <=> SameComparison(i, j)
    BY <1>1, <1>3, Zenon DEF IsTaken
  <1> QED
    BY <1>4, TakenSo

\* A registry that is none of ours is none that the handle was minted for.
LEMMA NoRegistry ==
  ASSUME NEW i \in Inputs, NEW j, j.registry = Unknown
  PROVE  TakenIfSame("d1", TRUE, ThisBuild, j, i)
  <1>2. j.registry = Unknown /\ i.registry \in Ours /\ i.registry # Unknown
    BY BuildsAssumption DEF Inputs
  <1>3. ~IsTaken("d1", TRUE, ThisBuild, j, i)
    BY <1>2, BuildsAssumption DEF IsTaken
  <1>4. ~SameComparison(i, j)
    <2>1. [i EXCEPT !.threshold = j.threshold].registry = i.registry
      BY DEF Inputs
    <2> QED
      BY <1>2, <2>1 DEF SameComparison
  <1> QED
    BY <1>3, <1>4, TakenSo

\* A comparison with another registry or another package is a comparison.
LEMMA InputsEdited ==
  ASSUME NEW i \in Inputs
  PROVE  /\ \A id \in Ours : [i EXCEPT !.registry = id] \in Inputs
                              /\ [i EXCEPT !.registry = id].threshold = i.threshold
         /\ \A name \in Names : /\ [i EXCEPT !.package = name] \in Inputs
                                /\ [i EXCEPT !.package = name].threshold = i.threshold
                                /\ [i EXCEPT !.from = name] \in Inputs
                                /\ [i EXCEPT !.from = name].threshold = i.threshold
                                /\ [i EXCEPT !.to = name] \in Inputs
                                /\ [i EXCEPT !.to = name].threshold = i.threshold
         /\ \A t \in Thresholds : /\ [i EXCEPT !.threshold = t] \in Inputs
                                  /\ [i EXCEPT !.threshold = t].threshold = t
         /\ [i EXCEPT !.ignoreWhitespace = ~@] \in Inputs
         /\ [i EXCEPT !.ignoreWhitespace = ~@].threshold = i.threshold
  BY DEF Inputs

\* What a text says that somebody edited, or nobody: it is not this build's to read, or it
\* says inputs, or a registry that is none of ours.
Says(text, i) ==
  \E version, readable, build, j :
    /\ text = Text(version, readable, build, j, i)
    /\ j.threshold \in Thresholds
    /\ \/ version # "d1" \/ ~readable \/ build # ThisBuild
       \/ /\ version = "d1" /\ readable = TRUE /\ build = ThisBuild
          /\ j \in Inputs \/ j = [i EXCEPT !.registry = Unknown]

\* A handle, and one that was edited, says what a text says.
LEMMA EditedSays ==
  ASSUME NEW i \in Inputs, NEW text,
         text = Text("d1", TRUE, ThisBuild, i, i) \/ IsEdited(text, i)
  PROVE  Says(text, i)
  <1>1. i.threshold \in Thresholds
    BY DEF Inputs
  <1>2. ASSUME NEW j \in Inputs, text = Text("d1", TRUE, ThisBuild, j, i)
        PROVE  Says(text, i)
    <2>1. j.threshold \in Thresholds
      BY DEF Inputs
    <2> QED
      BY <1>2, <2>1, Zenon DEF Says
  <1>3. CASE text = Text("d1", TRUE, ThisBuild, i, i)
    BY <1>2, <1>3, Zenon
  <1>4. CASE text = Text("d0", TRUE, ThisBuild, i, i)
    <2>1. "d0" # "d1"
      OBVIOUS
    <2> QED
      BY <1>1, <1>4, <2>1, Zenon DEF Says
  <1>5. CASE text = Text("d1", FALSE, ThisBuild, i, i)
    BY <1>1, <1>5, Zenon DEF Says
  <1>6. CASE \E build \in Builds \ {ThisBuild} : text = Text("d1", TRUE, build, i, i)
    <2>1. PICK build : build # ThisBuild /\ text = Text("d1", TRUE, build, i, i)
      BY <1>6
    <2> QED
      BY <1>1, <2>1, Zenon DEF Says
  <1>7. CASE \E id \in (Ours \cup {Unknown}) \ {i.registry} :
               text = Text("d1", TRUE, ThisBuild, [i EXCEPT !.registry = id], i)
    <2>1. PICK id \in Ours \cup {Unknown} :
            text = Text("d1", TRUE, ThisBuild, [i EXCEPT !.registry = id], i)
      BY <1>7, Zenon
    <2>2. CASE id = Unknown
      <3>1. PICK j : j = [i EXCEPT !.registry = Unknown]
        OBVIOUS
      <3>2. j.threshold \in Thresholds
        BY <3>1 DEF Inputs
      <3> QED
        BY <2>1, <2>2, <3>1, <3>2, Zenon DEF Says
    <2>3. CASE id \in Ours
      BY <1>2, <2>1, <2>3, InputsEdited, Zenon
    <2> QED
      BY <2>2, <2>3
  <1>8. CASE \E name \in Names \ {i.package} :
               text = Text("d1", TRUE, ThisBuild, [i EXCEPT !.package = name], i)
    BY <1>2, <1>8, InputsEdited, ZenonT(30)
  <1>9. CASE \E name \in Names \ {i.from} :
               text = Text("d1", TRUE, ThisBuild, [i EXCEPT !.from = name], i)
    BY <1>2, <1>9, InputsEdited, ZenonT(30)
  <1>10. CASE \E name \in Names \ {i.to} :
                text = Text("d1", TRUE, ThisBuild, [i EXCEPT !.to = name], i)
    BY <1>2, <1>10, InputsEdited, ZenonT(30)
  <1>11. CASE \E t \in Thresholds :
                Counted(t) /\ text = Text("d1", TRUE, ThisBuild, [i EXCEPT !.threshold = t], i)
    BY <1>2, <1>11, InputsEdited, ZenonT(30)
  <1>12. CASE text = Text("d1", TRUE, ThisBuild, [i EXCEPT !.ignoreWhitespace = ~@], i)
    BY <1>2, <1>12, InputsEdited, Zenon
  <1> QED
    BY <1>3, <1>4, <1>5, <1>6, <1>7, <1>8, <1>9, <1>10, <1>11, <1>12, Zenon DEF IsEdited

\* However the threshold of a text is read, what parse takes names the comparison that the
\* handle was minted for.
LEMMA ReadNames ==
  ASSUME NEW i \in Inputs, Counted(i.threshold), NEW text, Says(text, i),
         NEW read \in Readings(text), Counted(read.payload.inputs.threshold)
  PROVE  TakenIfNamed(read, i)
  <1>1. PICK version, readable, build, j :
          /\ text = Text(version, readable, build, j, i)
          /\ j.threshold \in Thresholds
          /\ \/ version # "d1" \/ ~readable \/ build # ThisBuild
             \/ /\ version = "d1" /\ readable = TRUE /\ build = ThisBuild
                /\ j \in Inputs \/ j = [i EXCEPT !.registry = Unknown]
    BY Zenon DEF Says
  <1>2. text.payload.inputs = j
    <2>1. PICK id : id = DiffId(ThisBuild, i)
      OBVIOUS
    <2>2. text = [version |-> version, readable |-> readable,
                  payload |-> [diffId |-> id, build |-> build, inputs |-> j]]
      BY <1>1, <2>1, Zenon DEF Text
    <2> QED
      BY <2>2
  <1>3. PICK t \in ReadAs[j.threshold] : read = Reread(text, t)
    BY <1>2, Zenon DEF Readings, Reread
  <1>4. t \in Thresholds
    BY <1>1, <1>3, ReadAsAssumption
  <1>5. PICK k : k = [j EXCEPT !.threshold = t]
    OBVIOUS
  <1>6. read = Text(version, readable, build, k, i)
    <2>1. InPlaceIs(version, readable, build, j, i, t)
      BY InPlace, Zenon
    <2> QED
      BY <1>1, <1>3, <1>5, <2>1, Zenon DEF InPlaceIs
  <1>7. CASE version # "d1" \/ ~readable \/ build # ThisBuild
    <2>1. TakenIfSame(version, readable, build, k, i)
      BY <1>7, NotTaken
    <2> QED
      BY <1>6, <2>1, Zenon DEF TakenIfSame
  <1>8. CASE version = "d1" /\ readable = TRUE /\ build = ThisBuild /\ j \in Inputs
    <2>1. k \in Inputs /\ k.threshold = t
      BY <1>4, <1>5, <1>8, InputsEdited, Zenon
    <2>2. Counted(t)
      <3>1. PICK id : id = DiffId(ThisBuild, i)
        OBVIOUS
      <3>2. read = [version |-> version, readable |-> readable,
                    payload |-> [diffId |-> id, build |-> build, inputs |-> k]]
        BY <1>6, <3>1, Zenon DEF Text
      <3>3. read.payload.inputs = k
        BY <3>2
      <3> QED
        BY <2>1, <3>3
    <2>3. TakenIfSame("d1", TRUE, ThisBuild, k, i)
      BY <2>1, <2>2, SaidOtherwise
    <2> QED
      BY <1>6, <1>8, <2>3, Zenon DEF TakenIfSame
  <1>9. CASE version = "d1" /\ readable = TRUE /\ build = ThisBuild /\ j = [i EXCEPT !.registry = Unknown]
    <2>1. k.registry = Unknown
      BY <1>5, <1>9 DEF Inputs
    <2>2. TakenIfSame("d1", TRUE, ThisBuild, k, i)
      BY <2>1, NoRegistry
    <2> QED
      BY <1>6, <1>9, <2>2, Zenon DEF TakenIfSame
  <1> QED
    BY <1>1, <1>7, <1>8, <1>9

\* A handle names the comparison it was minted for and no other.
LEMMA NamesOne ==
  ASSUME NEW i \in Inputs
  PROVE  NamesOneComparison(i)
  <1>1. Encode(i) = Text("d1", TRUE, ThisBuild, i, i)
    BY Zenon DEF Encode, Text
  <1>2. ASSUME NEW text \in {Encode(i)} \cup Edited(Encode(i))
        PROVE  Says(text, i)
    <2>1. CASE text = Encode(i)
      BY <1>1, <2>1, EditedSays, Zenon
    <2>2. CASE text \in Edited(Encode(i))
      <3>1. IsEdited(text, i)
        BY <2>2, EditedAre
      <3> QED
        BY <3>1, EditedSays, Zenon
    <2> QED
      BY <1>2, <2>1, <2>2, Zenon
  <1>3. ASSUME Counted(i.threshold), NEW text \in {Encode(i)} \cup Edited(Encode(i)),
               NEW read \in Readings(text), Counted(read.payload.inputs.threshold)
        PROVE  Decode(read).refused = "no" <=> StillNames(read, i)
    <2>1. Says(text, i)
      BY <1>2, Zenon
    <2>2. TakenIfNamed(read, i)
      BY <1>3, <2>1, ReadNames, Zenon
    <2> QED
      BY <2>2, Zenon DEF TakenIfNamed
  <1> QED
    BY <1>3, ReadAsMinted, Zenon DEF NamesOneComparison
==============================================================================
