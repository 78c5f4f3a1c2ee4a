----------------------------- MODULE ShownProofs -----------------------------
(***************************************************************************)
(* What TLAPS proves of what a client is shown: of Pages for every list,   *)
(* every size of an item, every ceiling and every number of changes; of    *)
(* TreeWalk for every tree, path, depth and choice of statuses; of         *)
(* Listings for every document a registry may serve; of Hits for every     *)
(* index, ranking, query and limits; and, with TextProofs, of an excerpt,  *)
(* a handle and an address that a client asks for.                         *)
(***************************************************************************)
EXTENDS Shown, TextProofs

\* paginate's wanted: an explicit limit or the default, a number either way.
LEMMA WantedTyped == limit \in Limits \cup {NoLimit} => Wanted \in Nat
  BY LimitsAssumption DEF Wanted

------------------------------------------------------------------------------
\* What was there throughout, and what of it was missed, can be counted.
LEMMA ThroughoutIsFinite ==
  ASSUME TypeOK
  PROVE  /\ IsFiniteSet(Throughout) /\ IsFiniteSet(Missed)
         /\ Cardinality(Missed) \in Nat /\ Cardinality(removed) \in Nat
  <1>1. IsFiniteSet(ToSet(first))
    BY ToSetOfSeq DEF TypeOK
  <1>2. IsFiniteSet(Throughout)
    BY <1>1, FS_Subset DEF Throughout
  <1>3. IsFiniteSet(Missed)
    BY <1>2, FS_Subset DEF Missed
  <1> QED
    BY <1>2, <1>3, FS_CardinalityType DEF TypeOK

\* A list has no item twice when a walk starts.
LEMMA ListsAreDistinct ==
  ASSUME NEW l \in Starts
  PROVE  l \in Seq(Items) /\ \A p, q \in 1..Len(l) : l[p] = l[q] => p = q
  <1>1. l \in Seq(Items) /\ Cardinality(ToSet(l)) = Len(l)
    BY ItemsAssumption DEF Lists
  <1>2. IsFiniteSet(1..Len(l)) /\ Cardinality(1..Len(l)) = Len(l)
    <2>1. Len(l) \in Nat
      BY <1>1, LenProperties
    <2>2. IsFiniteSet(1..Len(l)) /\ Cardinality(1..Len(l)) = IF 1 > Len(l) THEN 0 ELSE Len(l) - 1 + 1
      BY <2>1, FS_Interval
    <2> QED
      BY <2>1, <2>2
  <1>3. l \in Surjection(1..Len(l), ToSet(l))
    BY <1>1, ToSetOfSeq, LenProperties DEF Surjection
  <1>4. l \in Injection(1..Len(l), ToSet(l))
    BY <1>1, <1>2, <1>3, FS_Surjection
  <1> QED
    BY <1>1, <1>4 DEF Injection, IsInjective

\* The inductive invariant of a walk holds when it starts.
LEMMA Initially == Init => IInv
  <1> SUFFICES ASSUME Init
               PROVE  IInv
    OBVIOUS
  <1>1. list \in Seq(Items) /\ \A p, q \in 1..Len(list) : list[p] = list[q] => p = q
    BY ListsAreDistinct DEF Init
  <1>2. TypeOK
    <2>1. IsFiniteSet({}) /\ Cardinality({}) = 0
      BY FS_EmptySet
    <2>2. /\ first \in Seq(Items) /\ seen \in Seq(Items) /\ cursor \in Nat
          /\ limit \in Limits \cup {NoLimit}
      BY <1>1, EmptySeq DEF Init
    <2>5. ended \in BOOLEAN
      BY Zenon DEF Init
    <2>3. added = {} /\ removed = {}
      BY DEF Init
    <2>4. IsFiniteSet(added) /\ IsFiniteSet(removed)
      BY <2>1, <2>3
    <2> QED
      BY <1>1, <2>2, <2>4, <2>5 DEF TypeOK
  <1>3. ListIsWhatIsLeft
    BY <1>1, ToSetOfSeq DEF ListIsWhatIsLeft, Throughout, Init
  <1>4. Missed = {}
    BY <1>1 DEF Missed, Init
  <1>5. UnchangedSoFar
    BY <1>1, SubSeqEmpty DEF UnchangedSoFar, Init
  <1> QED
    BY <1>2, <1>3, <1>4, <1>5, FS_EmptySet DEF IInv, MissesOnlyAfterARemoval, Init

\* A page is the items between one cursor and the next.
LEMMA PageIs ==
  ASSUME TypeOK, NEW n \in Fitting
  PROVE  /\ n \in Nat
         /\ n > 0 => cursor + n <= Len(list)
         /\ PageItems(n) \in Seq(Items)
         /\ Len(PageItems(n)) = n
         /\ \A p \in (cursor + 1)..(cursor + n) : list[p] \in ToSet(PageItems(n))
  <1>1. n \in Nat /\ n <= Wanted /\ (n > 0 => cursor + n <= Len(list))
    BY WantedTyped DEF Fitting, TypeOK
  <1>2. CASE n = 0
    BY <1>1, <1>2, SubSeqEmpty DEF PageItems, TypeOK
  <1>3. CASE n > 0
    <2>1. /\ cursor + 1 \in 1..(Len(list) + 1) /\ cursor + n \in ((cursor + 1) - 1)..Len(list)
          /\ (cursor + n) - (cursor + 1) + 1 = n
      BY <1>1, <1>3 DEF TypeOK
    <2>2. PageItems(n) \in Seq(Items) /\ Len(PageItems(n)) = n
      BY <2>1, PartOf DEF PageItems, TypeOK
    <2>3. ASSUME NEW p \in (cursor + 1)..(cursor + n)
          PROVE  list[p] \in ToSet(PageItems(n))
      <3>1. PageItems(n)[p - (cursor + 1) + 1] = list[p]
        BY <2>1, PartOf DEF PageItems, TypeOK
      <3>2. p - (cursor + 1) + 1 \in 1..n
        BY <1>1 DEF TypeOK
      <3> QED
        BY <2>2, <3>1, <3>2, ToSetOfSeq
    <2> QED
      BY <1>1, <2>2, <2>3
  <1> QED
    BY <1>1, <1>2, <1>3

\* What the client has seen it has seen, and no more is missed than before.
LEMMA MissedShrinks ==
  ASSUME IInv, TypeOK', UNCHANGED <<list, first, added, removed>>,
         ToSet(seen) \subseteq ToSet(seen'),
         \A p \in 1..Len(list) : p > cursor /\ p <= cursor' => list[p] \in ToSet(seen')
  PROVE  Cardinality(Missed') <= Cardinality(removed')
  <1>1. Missed' \subseteq Missed
    BY DEF Missed, Throughout, IInv, TypeOK
  <1>2. Cardinality(Missed') <= Cardinality(Missed)
    BY <1>1, ThroughoutIsFinite, FS_Subset DEF IInv
  <1>3. Cardinality(Missed) <= Cardinality(removed) /\ Cardinality(removed') = Cardinality(removed)
    BY DEF IInv
  <1>4. Cardinality(Missed') \in Nat
    <2>1. IsFiniteSet(Missed')
      BY <1>1, ThroughoutIsFinite, FS_Subset DEF IInv
    <2> QED
      BY <2>1, FS_CardinalityType
  <1> QED
    BY <1>2, <1>3, <1>4, ThroughoutIsFinite DEF IInv
------------------------------------------------------------------------------
\* paginate's page keeps the invariant: the items given are those the cursor moves past.
LEMMA PageKeeps == IInv /\ AnswersAPage => IInv'
  <1> SUFFICES ASSUME IInv, AnswersAPage
               PROVE  IInv'
    OBVIOUS
  <1> USE DEF IInv
  <1>1. PICK n \in Fitting :
          /\ seen' = seen \o PageItems(n)
          /\ ended' = (Reached(n) >= Len(list))
          /\ cursor' = IF ended' THEN cursor ELSE Reached(n)
    BY DEF AnswersAPage
  <1>2. /\ n \in Nat /\ (n > 0 => cursor + n <= Len(list))
        /\ PageItems(n) \in Seq(Items) /\ Len(PageItems(n)) = n
        /\ \A p \in (cursor + 1)..(cursor + n) : list[p] \in ToSet(PageItems(n))
    BY PageIs
  <1>3. /\ ~ended /\ UNCHANGED <<list, limit, first, added, removed>>
        /\ Reached(n) = cursor + n
    BY <1>2 DEF AnswersAPage, Reached
  <1>4. seen' \in Seq(Items) /\ ToSet(seen') = ToSet(seen) \cup ToSet(PageItems(n))
    BY <1>1, <1>2, Placed, ToSetOfConcat DEF TypeOK
  <1>5. TypeOK'
    BY <1>1, <1>2, <1>3, <1>4 DEF TypeOK
  <1>6. ListIsWhatIsLeft'
    BY <1>3 DEF ListIsWhatIsLeft, Throughout
  <1>7. Cardinality(Missed') <= Cardinality(removed')
    <2>1. \A p \in 1..Len(list) : p > cursor /\ p <= cursor' => list[p] \in ToSet(seen')
      BY <1>1, <1>2, <1>3, <1>4 DEF TypeOK
    <2> QED
      BY <1>3, <1>4, <1>5, <2>1, MissedShrinks
  <1>8. MissesOnlyAfterARemoval'
    <2>1. CASE ended'
      <3>1. Len(list) <= cursor + n
        BY <1>1, <1>3, <2>1, LenProperties DEF TypeOK
      <3>2. Throughout' \ ToSet(seen') \subseteq Missed
        <4>1. ASSUME NEW i \in Throughout, i \notin ToSet(seen')
              PROVE  \E p \in 1..Len(list) : p <= cursor /\ list[p] = i
          <5>1. PICK p \in 1..Len(list) : list[p] = i
            BY <4>1 DEF ListIsWhatIsLeft
          <5>2. p <= cursor
            BY <1>2, <1>4, <3>1, <4>1, <5>1, LenProperties DEF TypeOK
          <5> QED
            BY <5>1, <5>2
        <4> QED
          BY <1>3, <1>4, <4>1 DEF Missed, Throughout
      <3>3. Cardinality(Throughout' \ ToSet(seen')) <= Cardinality(Missed)
        BY <3>2, ThroughoutIsFinite, FS_Subset
      <3>4. Cardinality(Throughout' \ ToSet(seen')) \in Nat
        BY <3>2, ThroughoutIsFinite, FS_Subset, FS_CardinalityType
      <3> QED
        BY <1>3, <3>3, <3>4, ThroughoutIsFinite DEF MissesOnlyAfterARemoval
    <2> QED
      BY <2>1 DEF MissesOnlyAfterARemoval
  <1>9. UnchangedSoFar'
    <2> SUFFICES ASSUME added = {}, removed = {}
                 PROVE  /\ list = first
                        /\ IF ended' THEN seen' = first
                                     ELSE cursor' <= Len(first) /\ seen' = SubSeq(first, 1, cursor')
      BY <1>3 DEF UnchangedSoFar
    <2>1. list = first /\ cursor <= Len(first) /\ seen = SubSeq(first, 1, cursor)
      BY <1>3 DEF UnchangedSoFar
    <2>2. cursor + n <= Len(first) /\ Len(first) \in Nat
      BY <1>2, <2>1, LenProperties DEF TypeOK
    <2>3. seen' = SubSeq(first, 1, cursor + n)
      <3>1. cursor \in 0..Len(first) /\ cursor + n \in cursor..Len(first)
        BY <1>2, <2>1, <2>2 DEF TypeOK
      <3>2. 1 \in 1..(Len(first) + 1) /\ cursor \in (1 - 1)..Len(first)
        BY <2>2, <3>1
      <3>3. SubSeq(first, 1, cursor) \o SubSeq(first, cursor + 1, cursor + n)
              = SubSeq(first, 1, cursor + n)
        BY <3>1, <3>2, ConcatAdjacentSubSeq DEF TypeOK
      <3> QED
        BY <1>1, <2>1, <3>3 DEF PageItems
    <2>4. CASE ended'
      BY <1>1, <1>2, <1>3, <2>1, <2>2, <2>3, <2>4, SubSeqFull DEF TypeOK
    <2>5. CASE ~ended'
      BY <1>1, <1>3, <2>1, <2>2, <2>3, <2>5
    <2> QED
      BY <2>1, <2>4, <2>5
  <1> QED
    BY <1>5, <1>6, <1>7, <1>8, <1>9

\* An item that no page can hold keeps it: the client is told of it, and goes on past it.
LEMMA TooLargeKeeps == IInv /\ AnswersItemTooLarge => IInv'
  <1> SUFFICES ASSUME IInv, AnswersItemTooLarge
               PROVE  IInv'
    OBVIOUS
  <1> USE DEF IInv
  <1>1. /\ cursor \in Nat /\ cursor < Len(list) /\ Len(list) \in Nat /\ cursor' = cursor + 1
        /\ seen' = Append(seen, list[cursor + 1])
        /\ UNCHANGED <<list, limit, ended, first, added, removed>>
        /\ ~ended /\ ~ended'
    BY LenProperties DEF AnswersItemTooLarge, NextIsTooLarge, Resume, TypeOK
  <1>2. cursor + 1 \in 1..Len(list)
    BY <1>1
  <1>3. list[cursor + 1] \in Items
    BY <1>2, ElementOfSeq DEF TypeOK
  <1>4. seen' \in Seq(Items) /\ ToSet(seen') = ToSet(seen) \cup {list[cursor + 1]}
    <2>1. <<list[cursor + 1]>> \in Seq(Items) /\ seen' = seen \o <<list[cursor + 1]>>
      BY <1>1, <1>3, AppendIsConcat DEF TypeOK
    <2>2. ToSet(<<list[cursor + 1]>>) = {list[cursor + 1]}
      BY DEF ToSet
    <2>3. ToSet(seen \o <<list[cursor + 1]>>) = ToSet(seen) \cup ToSet(<<list[cursor + 1]>>)
      BY <2>1, ToSetOfConcat, ZenonT(30) DEF TypeOK
    <2>4. seen \o <<list[cursor + 1]>> \in Seq(Items)
      BY <2>1, Placed DEF TypeOK
    <2> QED
      BY <2>1, <2>2, <2>3, <2>4
  <1>5. TypeOK'
    BY <1>1, <1>4 DEF TypeOK
  <1>6. ListIsWhatIsLeft'
    BY <1>1 DEF ListIsWhatIsLeft, Throughout
  <1>7. Cardinality(Missed') <= Cardinality(removed')
    <2>1. \A p \in 1..Len(list) : p > cursor /\ p <= cursor' => list[p] \in ToSet(seen')
      BY <1>1, <1>4
    <2> QED
      BY <1>1, <1>4, <1>5, <2>1, MissedShrinks
  <1>8. MissesOnlyAfterARemoval'
    BY <1>1 DEF MissesOnlyAfterARemoval
  <1>9. UnchangedSoFar'
    <2> SUFFICES ASSUME added = {}, removed = {}
                 PROVE  /\ list = first
                        /\ cursor + 1 <= Len(first) /\ seen' = SubSeq(first, 1, cursor + 1)
      BY <1>1 DEF UnchangedSoFar
    <2>1. list = first /\ seen = SubSeq(first, 1, cursor)
      BY <1>1 DEF UnchangedSoFar
    <2>2. 1 \in 1..Len(first) /\ cursor + 1 \in 1..Len(first) /\ (cursor + 1) - 1 = cursor
      BY <1>1, <2>1
    <2>3. SubSeq(first, 1, cursor + 1) = SubSeq(first, 1, cursor) \o <<first[cursor + 1]>>
      <3>1. SubSeq(first, 1, cursor + 1) = SubSeq(first, 1, (cursor + 1) - 1) \o <<first[cursor + 1]>>
        BY <2>2, SubSeqRecursiveSecond DEF TypeOK
      <3> QED
        BY <2>2, <3>1
    <2>4. seen' = seen \o <<first[cursor + 1]>>
      BY <1>1, <1>3, <2>1, AppendIsConcat DEF TypeOK
    <2> QED
      BY <1>1, <2>1, <2>3, <2>4
  <1> QED
    BY <1>5, <1>6, <1>7, <1>8, <1>9

\* A publication keeps it, ahead of the cursor or behind it.
LEMMA PublishKeeps == IInv /\ Publish => IInv'
  <1> SUFFICES ASSUME IInv, Publish
               PROVE  IInv'
    OBVIOUS
  <1> USE DEF IInv
  <1>1. PICK item \in Items \ (ToSet(first) \cup added), at \in 1..(Len(list) + 1) :
          list' = InsertAt(list, at, item) /\ added' = added \cup {item}
    BY DEF Publish
  <1>2. ~ended /\ UNCHANGED <<limit, cursor, ended, seen, first, removed>>
    BY DEF Publish, RoomForChange
  <1>3. /\ list' \in Seq(Items) /\ Len(list') = Len(list) + 1 /\ Len(list) \in Nat
        /\ \A p \in 1..(Len(list) + 1) :
             list'[p] = IF p < at THEN list[p] ELSE IF p = at THEN item ELSE list[p - 1]
    <2>1. list \in Seq(Items) /\ item \in Items /\ Len(list) \in Nat
      BY <1>1, LenProperties DEF TypeOK
    <2>2. /\ InsertAt(list, at, item) \in Seq(Items)
          /\ Len(InsertAt(list, at, item)) = Len(list) + 1
          /\ \A p \in 1..(Len(list) + 1) :
               InsertAt(list, at, item)[p] =
                 IF p < at THEN list[p] ELSE IF p = at THEN item ELSE list[p - 1]
      BY <2>1, Inserted
    <2> QED
      BY <1>1, <2>1, <2>2
  <1>4. \A p \in 1..Len(list) : list[p] # item
    BY <1>1 DEF ListIsWhatIsLeft
  <1>5. TypeOK'
    <2>1. IsFiniteSet(added')
      BY <1>1, FS_AddElement DEF TypeOK
    <2> QED
      BY <1>2, <1>3, <2>1 DEF TypeOK
  <1>6. ASSUME NEW p \in 1..Len(list')
        PROVE  \/ p = at /\ list'[p] = item
               \/ p < at /\ p \in 1..Len(list) /\ list'[p] = list[p]
               \/ p > at /\ p - 1 \in 1..Len(list) /\ list'[p] = list[p - 1]
    BY <1>3
  <1>7. ASSUME NEW p \in 1..Len(list)
        PROVE  \E q \in 1..Len(list') : q >= p /\ list'[q] = list[p]
    <2>1. CASE p < at
      BY <1>3, <2>1
    <2>2. CASE p >= at
      <3>1. p + 1 \in 1..Len(list') /\ list'[p + 1] = list[(p + 1) - 1] /\ (p + 1) - 1 = p
        BY <1>3, <2>2
      <3> QED
        BY <3>1
    <2> QED
      BY <2>1, <2>2
  <1>8. ListIsWhatIsLeft'
    <2>1. \A p, q \in 1..Len(list') : list'[p] = list'[q] => p = q
      <3> SUFFICES ASSUME NEW p \in 1..Len(list'), NEW q \in 1..Len(list'), list'[p] = list'[q]
                   PROVE  p = q
        OBVIOUS
      <3>1. p \in Int /\ q \in Int /\ at \in Int
        BY <1>3
      <3>2. CASE p = at
        BY <1>4, <1>6, <3>1, <3>2
      <3>3. CASE q = at
        BY <1>4, <1>6, <3>1, <3>3
      <3>4. CASE p < at /\ q < at
        BY <1>6, <3>1, <3>4 DEF ListIsWhatIsLeft
      <3>5. CASE p > at /\ q > at
        <4>1. p - 1 \in 1..Len(list) /\ q - 1 \in 1..Len(list) /\ list[p - 1] = list[q - 1]
          <5>1. p - 1 \in 1..Len(list) /\ list'[p] = list[p - 1]
            BY <1>6, <3>1, <3>5
          <5>2. q - 1 \in 1..Len(list) /\ list'[q] = list[q - 1]
            BY <1>6, <3>1, <3>5
          <5> QED
            BY <5>1, <5>2
        <4>2. p - 1 = q - 1
          BY <4>1 DEF ListIsWhatIsLeft
        <4> QED
          BY <3>1, <4>2
      <3>6. CASE p < at /\ q > at
        <4>1. p \in 1..Len(list) /\ q - 1 \in 1..Len(list) /\ list[p] = list[q - 1]
          BY <1>6, <3>1, <3>6
        <4>2. p = q - 1
          BY <4>1 DEF ListIsWhatIsLeft
        <4> QED
          BY <3>1, <3>6, <4>2
      <3>7. CASE p > at /\ q < at
        <4>1. p - 1 \in 1..Len(list) /\ q \in 1..Len(list) /\ list[p - 1] = list[q]
          BY <1>6, <3>1, <3>7
        <4>2. p - 1 = q
          BY <4>1 DEF ListIsWhatIsLeft
        <4> QED
          BY <3>1, <3>7, <4>2
      <3> QED
        BY <3>1, <3>2, <3>3, <3>4, <3>5, <3>6, <3>7
    <2>2. \A p \in 1..Len(list') : list'[p] \in (ToSet(first) \cup added') \ removed
      BY <1>1, <1>6 DEF ListIsWhatIsLeft
    <2>3. \A i \in Throughout : \E p \in 1..Len(list') : list'[p] = i
      BY <1>7 DEF ListIsWhatIsLeft
    <2>4. removed \subseteq ToSet(first) \cup added'
      BY <1>1 DEF ListIsWhatIsLeft
    <2> QED
      BY <1>2, <2>1, <2>2, <2>3, <2>4 DEF ListIsWhatIsLeft, Throughout
  <1>9. Cardinality(Missed') <= Cardinality(removed')
    <2>1. ASSUME NEW i \in Throughout, NEW q \in 1..Len(list'), q <= cursor, list'[q] = i
          PROVE  \E p \in 1..Len(list) : p <= cursor /\ list[p] = i
      <3>1. PICK p \in 1..Len(list) : list[p] = i
        BY DEF ListIsWhatIsLeft
      <3>2. PICK r \in 1..Len(list') : r >= p /\ list'[r] = list[p]
        BY <1>7
      <3>3. r = q
        BY <1>8, <2>1, <3>1, <3>2 DEF ListIsWhatIsLeft
      <3>4. p <= cursor
        BY <1>3, <2>1, <3>2, <3>3 DEF TypeOK
      <3> QED
        BY <3>1, <3>4
    <2>2. Missed' \subseteq Missed
      BY <1>2, <2>1 DEF Missed, Throughout
    <2>3. Cardinality(Missed') <= Cardinality(Missed) /\ Cardinality(Missed') \in Nat
      BY <2>2, ThroughoutIsFinite, FS_Subset, FS_CardinalityType
    <2> QED
      BY <1>2, <2>3, ThroughoutIsFinite
  <1>10. MissesOnlyAfterARemoval'
    BY <1>2 DEF MissesOnlyAfterARemoval
  <1>11. UnchangedSoFar'
    BY <1>1 DEF UnchangedSoFar
  <1> QED
    BY <1>5, <1>8, <1>9, <1>10, <1>11

\* A removal keeps it: one item at most is behind the cursor now and was never seen.
LEMMA TakeBackKeeps == IInv /\ TakeBack => IInv'
  <1> SUFFICES ASSUME IInv, TakeBack
               PROVE  IInv'
    OBVIOUS
  <1> USE DEF IInv
  <1>1. PICK at \in 1..Len(list) :
          list' = RemoveAt(list, at) /\ removed' = removed \cup {list[at]}
    BY DEF TakeBack
  <1>2. ~ended /\ UNCHANGED <<limit, cursor, ended, seen, first, added>>
    BY DEF TakeBack, RoomForChange
  <1>3. /\ list' \in Seq(Items) /\ Len(list') = Len(list) - 1 /\ Len(list) \in Nat
        /\ \A p \in 1..(Len(list) - 1) : list'[p] = IF p < at THEN list[p] ELSE list[p + 1]
    <2>1. list \in Seq(Items) /\ Len(list) \in Nat
      BY LenProperties DEF TypeOK
    <2> QED
      BY <1>1, <2>1, Removed
  <1>4. list[at] \notin removed
    BY DEF ListIsWhatIsLeft
  <1>5. TypeOK'
    <2>1. IsFiniteSet(removed')
      BY <1>1, FS_AddElement DEF TypeOK
    <2> QED
      BY <1>2, <1>3, <2>1 DEF TypeOK
  <1>6. Cardinality(removed') = Cardinality(removed) + 1
    BY <1>1, <1>4, FS_AddElement DEF TypeOK
  <1>7. ASSUME NEW p \in 1..Len(list')
        PROVE  \/ p < at /\ p \in 1..Len(list) /\ list'[p] = list[p]
               \/ p >= at /\ p + 1 \in 1..Len(list) /\ list'[p] = list[p + 1]
    BY <1>3
  <1>8. ASSUME NEW p \in 1..Len(list), p # at
        PROVE  \E q \in 1..Len(list') : q <= p /\ q >= p - 1 /\ list'[q] = list[p]
    <2>1. CASE p < at
      BY <1>3, <2>1
    <2>2. CASE p > at
      <3>1. p - 1 \in 1..Len(list') /\ list'[p - 1] = list[(p - 1) + 1] /\ (p - 1) + 1 = p
        BY <1>3, <2>2
      <3> QED
        BY <1>3, <3>1
    <2> QED
      BY <1>3, <1>8, <2>1, <2>2
  <1>9. ListIsWhatIsLeft'
    <2>1. \A p, q \in 1..Len(list') : list'[p] = list'[q] => p = q
      <3> SUFFICES ASSUME NEW p \in 1..Len(list'), NEW q \in 1..Len(list'), list'[p] = list'[q]
                   PROVE  p = q
        OBVIOUS
      <3>1. p \in Int /\ q \in Int /\ at \in Int
        BY <1>3
      <3>2. CASE p < at /\ q < at
        BY <1>7, <3>1, <3>2 DEF ListIsWhatIsLeft
      <3>3. CASE p >= at /\ q >= at
        <4>1. p + 1 \in 1..Len(list) /\ q + 1 \in 1..Len(list) /\ list[p + 1] = list[q + 1]
          BY <1>7, <3>1, <3>3
        <4>2. p + 1 = q + 1
          BY <4>1 DEF ListIsWhatIsLeft
        <4> QED
          BY <3>1, <4>2
      <3>4. CASE p < at /\ q >= at
        <4>1. p \in 1..Len(list) /\ q + 1 \in 1..Len(list) /\ list[p] = list[q + 1]
          BY <1>7, <3>1, <3>4
        <4>2. p = q + 1
          BY <4>1 DEF ListIsWhatIsLeft
        <4> QED
          BY <3>1, <3>4, <4>2
      <3>5. CASE p >= at /\ q < at
        <4>1. p + 1 \in 1..Len(list) /\ q \in 1..Len(list) /\ list[p + 1] = list[q]
          BY <1>7, <3>1, <3>5
        <4>2. p + 1 = q
          BY <4>1 DEF ListIsWhatIsLeft
        <4> QED
          BY <3>1, <3>5, <4>2
      <3> QED
        BY <3>1, <3>2, <3>3, <3>4, <3>5
    <2>2. ASSUME NEW p \in 1..Len(list')
          PROVE  list'[p] \in (ToSet(first) \cup added) \ removed'
      <3>1. PICK q \in 1..Len(list) : q # at /\ list'[p] = list[q]
        BY <1>3, <1>7
      <3>2. list[q] # list[at]
        BY <3>1 DEF ListIsWhatIsLeft
      <3> QED
        BY <1>1, <3>1, <3>2 DEF ListIsWhatIsLeft
    <2>3. ASSUME NEW i \in Throughout'
          PROVE  \E p \in 1..Len(list') : list'[p] = i
      <3>1. i \in Throughout /\ i # list[at]
        BY <1>1, <1>2 DEF Throughout
      <3>2. PICK p \in 1..Len(list) : list[p] = i
        BY <3>1 DEF ListIsWhatIsLeft
      <3> QED
        BY <1>8, <3>1, <3>2
    <2>4. removed' \subseteq ToSet(first) \cup added
      BY <1>1 DEF ListIsWhatIsLeft
    <2> QED
      BY <1>2, <2>1, <2>2, <2>3, <2>4 DEF ListIsWhatIsLeft
  \* The item after the cursor, if there is one, comes to be behind it.
  <1>10. PICK x : \A p \in 1..Len(list) : p = cursor + 1 => list[p] = x
    OBVIOUS
  <1>11. Missed' \subseteq Missed \cup {x}
    <2>1. ASSUME NEW i \in Throughout', NEW q \in 1..Len(list'), q <= cursor, list'[q] = i, i # x
          PROVE  \E p \in 1..Len(list) : p <= cursor /\ list[p] = i
      <3>1. CASE q < at
        BY <1>7, <1>3, <2>1, <3>1
      <3>2. CASE q >= at
        <4>1. q + 1 \in 1..Len(list) /\ list[q + 1] = i
          BY <1>3, <1>7, <2>1, <3>2
        <4>2. q + 1 <= cursor
          BY <1>3, <1>10, <2>1, <4>1 DEF TypeOK
        <4> QED
          BY <4>1, <4>2
      <3> QED
        BY <1>3, <3>1, <3>2
    <2>2. Throughout' \subseteq Throughout
      BY <1>1, <1>2 DEF Throughout
    <2> QED
      BY <1>2, <2>1, <2>2 DEF Missed
  <1>12. Cardinality(Missed') <= Cardinality(removed')
    <2>1. IsFiniteSet(Missed) /\ Cardinality(Missed) \in Nat /\ Cardinality(removed) \in Nat
      BY ThroughoutIsFinite
    <2>2. /\ IsFiniteSet(Missed \cup {x})
          /\ Cardinality(Missed \cup {x}) <= Cardinality(Missed) + 1
          /\ Cardinality(Missed \cup {x}) \in Nat
      <3>1. /\ IsFiniteSet(Missed \cup {x})
            /\ \/ Cardinality(Missed \cup {x}) = Cardinality(Missed)
               \/ Cardinality(Missed \cup {x}) = Cardinality(Missed) + 1
        BY <2>1, FS_AddElement
      <3> QED
        BY <2>1, <3>1
    <2>3. Cardinality(Missed') <= Cardinality(Missed \cup {x}) /\ Cardinality(Missed') \in Nat
      BY <1>11, <2>2, FS_Subset, FS_CardinalityType
    <2> QED
      BY <1>6, <2>1, <2>2, <2>3
  <1>13. MissesOnlyAfterARemoval'
    BY <1>2 DEF MissesOnlyAfterARemoval
  <1>14. UnchangedSoFar'
    BY <1>1 DEF UnchangedSoFar
  <1> QED
    BY <1>5, <1>9, <1>12, <1>13, <1>14

------------------------------------------------------------------------------
\* What is ahead of the cursor and was given already can be counted.
LEMMA AheadIsFinite ==
  ASSUME TypeOK
  PROVE  /\ IsFiniteSet(Ahead) /\ Cardinality(Ahead) \in Nat
         /\ IsFiniteSet(ToSet(seen)) /\ Cardinality(ToSet(seen)) \in Nat
         /\ Cardinality(added) \in Nat /\ Len(seen) \in Nat
  <1>1. IsFiniteSet(ToSet(seen)) /\ Len(seen) \in Nat
    BY ToSetOfSeq, LenProperties DEF TypeOK
  <1>2. Ahead \in SUBSET ToSet(seen)
    BY DEF Ahead
  <1>3. IsFiniteSet(Ahead)
    BY <1>1, <1>2, FS_Subset
  <1> QED
    BY <1>1, <1>3, FS_CardinalityType DEF TypeOK

\* A sequence with nothing twice has as many elements as its length.
LEMMA DistinctAreCounted ==
  ASSUME NEW S, NEW s \in Seq(S), \A p, q \in 1..Len(s) : s[p] = s[q] => p = q
  PROVE  Cardinality(ToSet(s)) = Len(s)
  <1>1. Len(s) \in Nat
    BY LenProperties
  <1>2. s \in [1..Len(s) -> ToSet(s)]
    BY <1>1, ToSetOfSeq, LenProperties
  <1>3. s \in Bijection(1..Len(s), ToSet(s))
    BY <1>2, ToSetOfSeq DEF Bijection, Injection, IsInjective, Surjection
  <1>4. ExistsBijection(1..Len(s), ToSet(s))
    BY <1>3 DEF ExistsBijection
  <1> QED
    BY <1>1, <1>4, FS_CountingElements

\* A page with P on it, after which B is still to come again of what was: A.
LEMMA PageIsCounted ==
  ASSUME NEW seenSet, IsFiniteSet(seenSet), NEW P, IsFiniteSet(P), NEW A, IsFiniteSet(A),
         NEW B, P \cap seenSet \subseteq A, B \subseteq A \ P
  PROVE  /\ IsFiniteSet(B)
         /\ Cardinality(B) + Cardinality(P) + Cardinality(seenSet)
              <= Cardinality(A) + Cardinality(seenSet \cup P)
  <1> DEFINE both == P \cap seenSet
  <1>1. both = seenSet \cap P /\ A \cap both = both
    OBVIOUS
  <1>8. Cardinality(seenSet \cap P) = Cardinality(both) /\ Cardinality(A \cap both) = Cardinality(both)
    BY <1>1
  <1>2. IsFiniteSet(both)
    BY FS_Subset
  <1>3. /\ Cardinality(seenSet \cup P)
             = Cardinality(seenSet) + Cardinality(P) - Cardinality(seenSet \cap P)
        /\ IsFiniteSet(seenSet \cup P)
    BY FS_Union
  <1>4. /\ IsFiniteSet(A \ both)
        /\ Cardinality(A \ both) = Cardinality(A) - Cardinality(A \cap both)
    BY FS_Difference
  <1>5. B \in SUBSET (A \ both)
    OBVIOUS
  <1>6. IsFiniteSet(B) /\ Cardinality(B) <= Cardinality(A \ both)
    BY <1>4, <1>5, FS_Subset
  <1>7. /\ Cardinality(both) \in Nat /\ Cardinality(seenSet) \in Nat /\ Cardinality(P) \in Nat
        /\ Cardinality(A) \in Nat /\ Cardinality(B) \in Nat
        /\ Cardinality(A \ both) \in Nat /\ Cardinality(seenSet \cup P) \in Nat
    BY <1>2, <1>3, <1>4, <1>6, FS_CardinalityType
  <1>9. Cardinality(B) <= Cardinality(A) - Cardinality(both)
    BY <1>4, <1>6, <1>8
  <1>10. Cardinality(seenSet \cup P) = Cardinality(seenSet) + Cardinality(P) - Cardinality(both)
    BY <1>3, <1>8
  <1> HIDE DEF both
  <1> QED
    BY <1>6, <1>7, <1>9, <1>10

\* A page has no item twice, and its items are those that follow the cursor.
LEMMA PageIsDistinct ==
  ASSUME IInv, NEW n \in Fitting
  PROVE  /\ IsFiniteSet(ToSet(PageItems(n))) /\ Cardinality(ToSet(PageItems(n))) = n
         /\ \A i \in ToSet(PageItems(n)) :
              \E p \in 1..Len(list) : p > cursor /\ p <= cursor + n /\ list[p] = i
  <1> USE DEF IInv
  <1>1. /\ n \in Nat /\ cursor \in Nat /\ Len(list) \in Nat /\ (n > 0 => cursor + n <= Len(list))
        /\ PageItems(n) \in Seq(Items) /\ Len(PageItems(n)) = n
    BY PageIs, LenProperties DEF TypeOK
  <1>2. ASSUME NEW p \in 1..n
        PROVE  PageItems(n)[p] = list[cursor + p] /\ cursor + p \in 1..Len(list)
    <2>1. /\ cursor + 1 \in 1..(Len(list) + 1) /\ cursor + n \in ((cursor + 1) - 1)..Len(list)
          /\ (cursor + n) - (cursor + 1) + 1 = n /\ (cursor + 1) + p - 1 = cursor + p
      BY <1>1, <1>2
    <2> QED
      BY <1>1, <2>1, PartOf DEF PageItems, TypeOK
  <1>3. ASSUME NEW p \in 1..n, NEW q \in 1..n, PageItems(n)[p] = PageItems(n)[q]
        PROVE  p = q
    <2>1. cursor + p = cursor + q
      BY <1>2, <1>3 DEF ListIsWhatIsLeft
    <2> QED
      BY <1>1, <2>1
  <1>4. Cardinality(ToSet(PageItems(n))) = n
    BY <1>1, <1>3, DistinctAreCounted
  <1>5. ASSUME NEW i \in ToSet(PageItems(n))
        PROVE  \E p \in 1..Len(list) : p > cursor /\ p <= cursor + n /\ list[p] = i
    <2>1. PICK p \in 1..n : PageItems(n)[p] = i
      BY <1>1, <1>5, ToSetOfSeq
    <2>2. cursor + p > cursor /\ cursor + p <= cursor + n
      BY <1>1
    <2> QED
      BY <1>2, <2>1, <2>2
  <1> QED
    BY <1>1, <1>4, <1>5, ToSetOfSeq

\* A page counts one repeat for each of its items that was ahead and seen.
LEMMA PageCounts == IInv /\ IInv' /\ RepeatsAreCounted /\ AnswersAPage => RepeatsAreCounted'
  <1> SUFFICES ASSUME IInv, IInv', RepeatsAreCounted, AnswersAPage
               PROVE  RepeatsAreCounted'
    OBVIOUS
  <1>1. PICK n \in Fitting :
          /\ seen' = seen \o PageItems(n)
          /\ ended' = (Reached(n) >= Len(list))
          /\ cursor' = IF ended' THEN cursor ELSE Reached(n)
    BY DEF AnswersAPage
  <1> DEFINE page == ToSet(PageItems(n))
             still == {i \in ToSet(seen') : \E p \in 1..Len(list) : p > cursor + n /\ list[p] = i}
  <1>2. /\ n \in Nat /\ cursor \in Nat /\ PageItems(n) \in Seq(Items) /\ Len(PageItems(n)) = n
        /\ seen \in Seq(Items) /\ Len(list) \in Nat
    BY PageIs, LenProperties DEF IInv, TypeOK
  <1>3. ~ended /\ UNCHANGED <<list, added>> /\ Reached(n) = cursor + n
    BY <1>2 DEF AnswersAPage, Reached
  <1>4. Len(seen') = Len(seen) + n /\ ToSet(seen') = ToSet(seen) \cup page
    <2>1. Len(seen \o PageItems(n)) = Len(seen) + Len(PageItems(n))
      BY <1>2, Placed
    <2>2. ToSet(seen \o PageItems(n)) = ToSet(seen) \cup ToSet(PageItems(n))
      BY <1>2, ToSetOfConcat
    <2> QED
      BY <1>1, <1>2, <2>1, <2>2
  <1>5. /\ IsFiniteSet(page) /\ Cardinality(page) = n
        /\ \A i \in page : \E p \in 1..Len(list) : p > cursor /\ p <= cursor + n /\ list[p] = i
    BY PageIsDistinct
  <1>6. page \cap ToSet(seen) \subseteq Ahead
    BY <1>5 DEF Ahead
  <1>7. still \subseteq Ahead \ page
    <2> SUFFICES ASSUME NEW i \in still
                 PROVE  i \in Ahead /\ i \notin page
      OBVIOUS
    <2>1. PICK p \in 1..Len(list) : p > cursor + n /\ list[p] = i
      OBVIOUS
    <2>2. i \notin page
      <3>1. ASSUME NEW q \in 1..Len(list), q <= cursor + n, list[q] = i
            PROVE  FALSE
        <4>1. q = p
          BY <2>1, <3>1 DEF IInv, ListIsWhatIsLeft
        <4> QED
          BY <1>2, <2>1, <3>1, <4>1
      <3> QED
        BY <1>5, <3>1
    <2>3. i \in ToSet(seen)
      BY <1>4, <2>2
    <2>4. p > cursor
      BY <1>2, <2>1
    <2> QED
      BY <2>1, <2>2, <2>3, <2>4 DEF Ahead
  <1> HIDE DEF page, still
  <1>8. /\ IsFiniteSet(still)
        /\ Cardinality(still) + Cardinality(page) + Cardinality(ToSet(seen))
             <= Cardinality(Ahead) + Cardinality(ToSet(seen) \cup page)
    BY <1>5, <1>6, <1>7, AheadIsFinite, PageIsCounted DEF IInv
  <1>9. /\ Cardinality(still) \in Nat /\ Cardinality(Ahead) \in Nat /\ Cardinality(ToSet(seen)) \in Nat
        /\ Cardinality(added) \in Nat /\ Len(seen) \in Nat
        /\ Cardinality(ToSet(seen')) = Cardinality(ToSet(seen) \cup page)
        /\ Cardinality(ToSet(seen')) \in Nat
    <2>1. Cardinality(ToSet(seen')) \in Nat
      <3>1. seen' \in Seq(Items)
        BY DEF IInv, TypeOK
      <3> QED
        BY <3>1, ToSetOfSeq, FS_CardinalityType
    <2> QED
      BY <1>4, <1>8, <2>1, AheadIsFinite, FS_CardinalityType DEF IInv
  <1>10. Len(seen) + Cardinality(Ahead) <= Cardinality(ToSet(seen)) + Cardinality(added)
    BY <1>3 DEF RepeatsAreCounted
  <1>11. Len(seen') + Cardinality(still) <= Cardinality(ToSet(seen')) + Cardinality(added)
    BY <1>2, <1>4, <1>5, <1>8, <1>9, <1>10, SMTT(30)
  <1>12. CASE ended'
    <2>1. Len(seen') <= Cardinality(ToSet(seen')) + Cardinality(added')
      BY <1>2, <1>3, <1>4, <1>9, <1>11
    <2>2. Len(seen') \in Nat
      BY <1>2, <1>4, <1>9
    <2> QED
      BY <1>12, <2>1, <2>2 DEF RepeatsAreCounted
  <1>13. CASE ~ended'
    <2>1. Ahead' = still
      BY <1>1, <1>3, <1>13 DEF Ahead, still
    <2> QED
      BY <1>3, <1>11, <1>13, <2>1 DEF RepeatsAreCounted
  <1> QED
    BY <1>12, <1>13

\* An item that no page can hold is a repeat when it was ahead and seen.
LEMMA TooLargeCounts ==
  IInv /\ IInv' /\ RepeatsAreCounted /\ AnswersItemTooLarge => RepeatsAreCounted'
  <1> SUFFICES ASSUME IInv, IInv', RepeatsAreCounted, AnswersItemTooLarge
               PROVE  RepeatsAreCounted'
    OBVIOUS
  <1> DEFINE page == {list[cursor + 1]}
  <1>1. /\ cursor \in Nat /\ cursor < Len(list) /\ Len(list) \in Nat /\ cursor' = cursor + 1
        /\ seen' = Append(seen, list[cursor + 1])
        /\ UNCHANGED <<list, ended, added>>
        /\ ~ended /\ ~ended' /\ seen \in Seq(Items)
    BY LenProperties DEF AnswersItemTooLarge, NextIsTooLarge, Resume, IInv, TypeOK
  <1>2. cursor + 1 \in 1..Len(list)
    BY <1>1
  <1>3. list[cursor + 1] \in Items
    BY <1>2, ElementOfSeq DEF IInv, TypeOK
  <1>4. Len(seen') = Len(seen) + 1 /\ ToSet(seen') = ToSet(seen) \cup page
    <2>1. <<list[cursor + 1]>> \in Seq(Items) /\ seen' = seen \o <<list[cursor + 1]>>
      BY <1>1, <1>3, AppendIsConcat
    <2>2. ToSet(<<list[cursor + 1]>>) = page /\ Len(<<list[cursor + 1]>>) = 1
      BY DEF ToSet
    <2>3. Len(seen \o <<list[cursor + 1]>>) = Len(seen) + Len(<<list[cursor + 1]>>)
      BY <1>1, <2>1, Placed
    <2>4. ToSet(seen \o <<list[cursor + 1]>>) = ToSet(seen) \cup ToSet(<<list[cursor + 1]>>)
      BY <1>1, <2>1, ToSetOfConcat, ZenonT(30)
    <2> QED
      BY <2>1, <2>2, <2>3, <2>4
  <1>5. IsFiniteSet(page) /\ Cardinality(page) = 1
    BY FS_Singleton
  <1>6. page \cap ToSet(seen) \subseteq Ahead
    <2>1. cursor + 1 > cursor
      BY <1>1
    <2> QED
      BY <1>2, <2>1 DEF Ahead
  <1>7. Ahead' \subseteq Ahead \ page
    <2> SUFFICES ASSUME NEW i \in Ahead'
                 PROVE  i \in Ahead /\ i \notin page
      OBVIOUS
    <2>1. PICK p \in 1..Len(list) : p > cursor + 1 /\ list[p] = i
      BY <1>1 DEF Ahead
    <2>2. i \notin page
      <3>1. CASE i = list[cursor + 1]
        <4>1. p = cursor + 1
          BY <1>2, <2>1, <3>1 DEF IInv, ListIsWhatIsLeft
        <4> QED
          BY <1>1, <2>1, <4>1
      <3> QED
        BY <3>1
    <2>3. i \in ToSet(seen)
      BY <1>4, <2>2 DEF Ahead
    <2>4. p > cursor
      BY <1>1, <2>1
    <2> QED
      BY <2>1, <2>2, <2>3, <2>4 DEF Ahead
  <1> HIDE DEF page
  <1>8. Cardinality(Ahead') + Cardinality(page) + Cardinality(ToSet(seen))
          <= Cardinality(Ahead) + Cardinality(ToSet(seen) \cup page)
    BY <1>5, <1>6, <1>7, AheadIsFinite, PageIsCounted DEF IInv
  <1>9. /\ Cardinality(Ahead) \in Nat /\ Cardinality(ToSet(seen)) \in Nat
        /\ Cardinality(added) \in Nat /\ Len(seen) \in Nat
        /\ Cardinality(ToSet(seen')) = Cardinality(ToSet(seen) \cup page)
    BY <1>4, AheadIsFinite DEF IInv
  <1>10. Cardinality(Ahead') \in Nat /\ Cardinality(ToSet(seen')) \in Nat
    <2>1. TypeOK'
      BY DEF IInv
    <2>2. IsFiniteSet(ToSet(seen')) /\ Ahead' \in SUBSET ToSet(seen')
      BY <2>1, ToSetOfSeq DEF TypeOK, Ahead
    <2>3. IsFiniteSet(Ahead')
      BY <2>2, FS_Subset
    <2> QED
      BY <2>2, <2>3, FS_CardinalityType
  <1>11. Len(seen) + Cardinality(Ahead) <= Cardinality(ToSet(seen)) + Cardinality(added)
    BY <1>1 DEF RepeatsAreCounted
  <1>12. Len(seen') + Cardinality(Ahead') <= Cardinality(ToSet(seen')) + Cardinality(added)
    BY <1>4, <1>5, <1>8, <1>9, <1>10, <1>11
  <1> QED
    BY <1>1, <1>12 DEF RepeatsAreCounted

\* A publication moves at most one item that was seen ahead of the cursor.
LEMMA PublishCounts == IInv /\ RepeatsAreCounted /\ Publish => RepeatsAreCounted'
  <1> SUFFICES ASSUME IInv, RepeatsAreCounted, Publish
               PROVE  RepeatsAreCounted'
    OBVIOUS
  <1>1. PICK item \in Items \ (ToSet(first) \cup added), at \in 1..(Len(list) + 1) :
          list' = InsertAt(list, at, item) /\ added' = added \cup {item}
    BY DEF Publish
  <1>2. ~ended /\ UNCHANGED <<cursor, ended, seen>>
    BY DEF Publish, RoomForChange
  <1>3. /\ Len(list') = Len(list) + 1 /\ Len(list) \in Nat /\ cursor \in Nat
        /\ \A p \in 1..(Len(list) + 1) :
             list'[p] = IF p < at THEN list[p] ELSE IF p = at THEN item ELSE list[p - 1]
    <2>1. list \in Seq(Items) /\ item \in Items /\ Len(list) \in Nat /\ cursor \in Nat
      BY <1>1, LenProperties DEF IInv, TypeOK
    <2>2. /\ Len(InsertAt(list, at, item)) = Len(list) + 1
          /\ \A p \in 1..(Len(list) + 1) :
               InsertAt(list, at, item)[p] =
                 IF p < at THEN list[p] ELSE IF p = at THEN item ELSE list[p - 1]
      BY <2>1, Inserted
    <2> QED
      BY <1>1, <2>1, <2>2
  \* Either the new item comes to be ahead, or the last one behind the cursor does.
  <1>4. PICK x : \A q \in 1..Len(list') : q > cursor =>
                   \/ list'[q] = x
                   \/ \E p \in 1..Len(list) : p > cursor /\ list[p] = list'[q]
    <2>1. CASE at > cursor
      <3>1. ASSUME NEW q \in 1..Len(list'), q > cursor, list'[q] # item
            PROVE  \E p \in 1..Len(list) : p > cursor /\ list[p] = list'[q]
        <4>1. CASE q < at
          BY <1>3, <3>1, <4>1
        <4>2. CASE q > at
          <5>1. q - 1 \in 1..Len(list) /\ q - 1 > cursor /\ list'[q] = list[q - 1]
            BY <1>3, <2>1, <3>1, <4>2
          <5> QED
            BY <5>1
        <4>3. q # at
          BY <1>3, <3>1
        <4> QED
          BY <1>3, <4>1, <4>2, <4>3
      <3> QED
        BY <3>1
    <2>2. CASE at <= cursor
      <3>1. ASSUME NEW q \in 1..Len(list'), q > cursor, list'[q] # list[cursor]
            PROVE  \E p \in 1..Len(list) : p > cursor /\ list[p] = list'[q]
        <4>1. q - 1 \in 1..Len(list) /\ list'[q] = list[q - 1] /\ q - 1 >= cursor
          BY <1>3, <2>2, <3>1
        <4>2. q - 1 # cursor
          BY <3>1, <4>1
        <4> QED
          BY <1>3, <4>1, <4>2
      <3> QED
        BY <3>1
    <2>3. at > cursor \/ at <= cursor
      BY <1>3
    <2> QED
      BY <2>1, <2>2, <2>3
  <1>5. Ahead' \in SUBSET (Ahead \cup {x})
    BY <1>2, <1>4 DEF Ahead
  <1>6. /\ Cardinality(Ahead) \in Nat /\ Cardinality(ToSet(seen)) \in Nat
        /\ Cardinality(added) \in Nat /\ Len(seen) \in Nat
        /\ IsFiniteSet(Ahead) /\ IsFiniteSet(added)
    BY AheadIsFinite DEF IInv, TypeOK
  <1>7. /\ IsFiniteSet(Ahead \cup {x}) /\ Cardinality(Ahead \cup {x}) <= Cardinality(Ahead) + 1
        /\ Cardinality(Ahead \cup {x}) \in Nat
    <2>1. /\ IsFiniteSet(Ahead \cup {x})
          /\ \/ Cardinality(Ahead \cup {x}) = Cardinality(Ahead)
             \/ Cardinality(Ahead \cup {x}) = Cardinality(Ahead) + 1
      BY <1>6, FS_AddElement
    <2> QED
      BY <1>6, <2>1
  <1>8. Cardinality(Ahead') <= Cardinality(Ahead \cup {x}) /\ Cardinality(Ahead') \in Nat
    BY <1>5, <1>7, FS_Subset, FS_CardinalityType
  <1>9. Cardinality(added') = Cardinality(added) + 1
    BY <1>1, <1>6, FS_AddElement
  <1> QED
    BY <1>2, <1>6, <1>7, <1>8, <1>9 DEF RepeatsAreCounted

\* A removal moves nothing that was seen ahead of the cursor.
LEMMA TakeBackCounts == IInv /\ RepeatsAreCounted /\ TakeBack => RepeatsAreCounted'
  <1> SUFFICES ASSUME IInv, RepeatsAreCounted, TakeBack
               PROVE  RepeatsAreCounted'
    OBVIOUS
  <1>1. PICK at \in 1..Len(list) : list' = RemoveAt(list, at)
    BY DEF TakeBack
  <1>2. ~ended /\ UNCHANGED <<cursor, ended, seen, added>>
    BY DEF TakeBack, RoomForChange
  <1>3. /\ Len(list') = Len(list) - 1 /\ Len(list) \in Nat /\ cursor \in Nat
        /\ \A p \in 1..(Len(list) - 1) : list'[p] = IF p < at THEN list[p] ELSE list[p + 1]
    <2>1. list \in Seq(Items) /\ Len(list) \in Nat /\ cursor \in Nat
      BY LenProperties DEF IInv, TypeOK
    <2> QED
      BY <1>1, <2>1, Removed
  <1>4. ASSUME NEW q \in 1..Len(list'), q > cursor
        PROVE  \E p \in 1..Len(list) : p > cursor /\ list[p] = list'[q]
    <2>1. CASE q < at
      BY <1>3, <1>4, <2>1
    <2>2. CASE q >= at
      <3>1. q + 1 \in 1..Len(list) /\ q + 1 > cursor /\ list'[q] = list[q + 1]
        BY <1>3, <1>4, <2>2
      <3> QED
        BY <3>1
    <2> QED
      BY <1>3, <2>1, <2>2
  <1>5. Ahead' \in SUBSET Ahead
    BY <1>2, <1>4 DEF Ahead
  <1>6. /\ Cardinality(Ahead) \in Nat /\ Cardinality(ToSet(seen)) \in Nat
        /\ Cardinality(added) \in Nat /\ Len(seen) \in Nat /\ IsFiniteSet(Ahead)
    BY AheadIsFinite DEF IInv
  <1>7. Cardinality(Ahead') <= Cardinality(Ahead) /\ Cardinality(Ahead') \in Nat
    BY <1>5, <1>6, FS_Subset, FS_CardinalityType
  <1> QED
    BY <1>2, <1>6, <1>7 DEF RepeatsAreCounted

------------------------------------------------------------------------------
\* What the list has, what the cursor is past and what the client saw stay in step:
\* page::paginate counts its cursor over the list as it is when it is asked.
THEOREM Invariance == Spec => []IInv
  <1>1. Init => IInv
    BY Initially
  <1>2. IInv /\ [Next]_vars => IInv'
    <2> SUFFICES ASSUME IInv, [Next]_vars
                 PROVE  IInv'
      OBVIOUS
    <2>1. CASE AnswersAPage
      BY <2>1, PageKeeps
    <2>2. CASE AnswersItemTooLarge
      BY <2>2, TooLargeKeeps
    <2>3. CASE AsksForMoreOrLess
      <3>1. limit' \in Limits \cup {NoLimit} /\ UNCHANGED <<list, cursor, ended, seen, first, added, removed>>
        BY <2>3 DEF AsksForMoreOrLess
      <3> QED
        BY <3>1 DEF IInv, TypeOK, ListIsWhatIsLeft, Missed, Throughout, MissesOnlyAfterARemoval,
                    UnchangedSoFar
    <2>4. CASE Publish
      BY <2>4, PublishKeeps
    <2>5. CASE TakeBack
      BY <2>5, TakeBackKeeps
    <2>6. CASE UNCHANGED vars
      BY <2>6 DEF IInv, TypeOK, ListIsWhatIsLeft, Missed, Throughout, MissesOnlyAfterARemoval,
                  UnchangedSoFar, vars
    <2> QED
      BY <2>1, <2>2, <2>3, <2>4, <2>5, <2>6 DEF Next, AnswersTheClient, Over
  <1> QED
    BY <1>1, <1>2, PTL DEF Spec

\* Whatever the limits, the ceiling and the sizes of the items, a walk that ends over
\* a list that did not change has had every item once and in order.
THEOREM UnchangedReadOnce == Spec => []UnchangedListIsReadOnce
  <1>1. IInv => UnchangedListIsReadOnce
    BY DEF IInv, UnchangedSoFar, UnchangedListIsReadOnce
  <1> QED
    BY <1>1, Invariance, PTL

\* However the list changes under a walk, what was there all along and the client never
\* had is no more than what was taken back meanwhile.
THEOREM MissesBounded == Spec => []MissesOnlyAfterARemoval
  <1>1. IInv => MissesOnlyAfterARemoval
    BY DEF IInv
  <1> QED
    BY <1>1, Invariance, PTL

\* However the list changes under a walk, the client has no more items again than were
\* published meanwhile: each one moves at most one item from behind the cursor to ahead of
\* it, and paginate takes no item of one list for two.
THEOREM RepeatsBounded == Spec => []RepeatsOnlyAfterAPublication
  <1>1. Init => RepeatsAreCounted
    <2> SUFFICES ASSUME Init
                 PROVE  RepeatsAreCounted
      OBVIOUS
    <2>1. ToSet(seen) = {} /\ Len(seen) = 0 /\ added = {}
      BY DEF Init, ToSet
    <2>2. Ahead = {}
      BY <2>1 DEF Ahead
    <2> QED
      BY <2>1, <2>2, FS_EmptySet DEF RepeatsAreCounted
  <1>2. IInv /\ IInv' /\ RepeatsAreCounted /\ [Next]_vars => RepeatsAreCounted'
    <2> SUFFICES ASSUME IInv, IInv', RepeatsAreCounted, [Next]_vars
                 PROVE  RepeatsAreCounted'
      OBVIOUS
    <2>1. CASE AnswersAPage
      BY <2>1, PageCounts
    <2>2. CASE AnswersItemTooLarge
      BY <2>2, TooLargeCounts
    <2>3. CASE AsksForMoreOrLess
      BY <2>3 DEF AsksForMoreOrLess, RepeatsAreCounted, Ahead
    <2>4. CASE Publish
      BY <2>4, PublishCounts
    <2>5. CASE TakeBack
      BY <2>5, TakeBackCounts
    <2>6. CASE UNCHANGED vars
      BY <2>6 DEF RepeatsAreCounted, Ahead, vars
    <2> QED
      BY <2>1, <2>2, <2>3, <2>4, <2>5, <2>6 DEF Next, AnswersTheClient, Over
  <1>3. IInv /\ RepeatsAreCounted => RepeatsOnlyAfterAPublication
    BY AheadIsFinite DEF IInv, RepeatsAreCounted, RepeatsOnlyAfterAPublication
  <1> QED
    BY <1>1, <1>2, <1>3, Invariance, PTL DEF Spec

------------------------------------------------------------------------------
(***************************************************************************)
(* Lists made of others: what an order arranges, and what is picked.       *)
(***************************************************************************)
\* A relation by which one of any two elements comes first.
StrictlyOrders(R, S) ==
  /\ \A x \in S : <<x, x>> \notin R
  /\ \A x, y, z \in S : <<x, y>> \in R /\ <<y, z>> \in R => <<x, z>> \in R
  /\ \A x, y \in S : x # y => <<x, y>> \in R \/ <<y, x>> \in R

Below(R, S, x) == {y \in S : <<y, x>> \in R}

InTurn(f, R, S) ==
  /\ f \in [1..Cardinality(S) -> S]
  /\ \A x \in S : \E k \in 1..Cardinality(S) : f[k] = x
  /\ \A j, k \in 1..Cardinality(S) : <<f[j], f[k]>> \in R <=> j < k

\* Where an order is strict and total, as many elements as there are places before it
\* come before an element.
LEMMA ArrangedIs ==
  ASSUME NEW S, IsFiniteSet(S), NEW R, StrictlyOrders(R, S),
         NEW f, f = [k \in 1..Cardinality(S) |-> f[k]],
         \A k \in 1..Cardinality(S) : f[k] = CHOOSE x \in S : Cardinality(Below(R, S, x)) = k - 1
  PROVE  InTurn(f, R, S)
  <1> DEFINE rank == [x \in S |-> Cardinality(Below(R, S, x))]
             n == Cardinality(S)
             T == 0..(n - 1)
  <1>0. n \in Nat
    BY FS_CardinalityType
  <1>1. ASSUME NEW x \in S
        PROVE  IsFiniteSet(Below(R, S, x)) /\ rank[x] \in Nat /\ rank[x] < n
    <2>1. Below(R, S, x) \subseteq S /\ x \notin Below(R, S, x)
      BY DEF Below, StrictlyOrders
    <2>2. IsFiniteSet(Below(R, S, x)) /\ Cardinality(Below(R, S, x)) \in Nat
      BY <2>1, FS_Subset, FS_CardinalityType
    <2>3. Cardinality(Below(R, S, x)) <= n /\ Cardinality(Below(R, S, x)) # n
      BY <2>1, FS_Subset
    <2> QED
      BY <1>0, <2>2, <2>3
  <1>2. ASSUME NEW x \in S, NEW y \in S, <<x, y>> \in R
        PROVE  rank[x] < rank[y]
    <2>1. Below(R, S, x) \subseteq Below(R, S, y) /\ x \in Below(R, S, y) /\ x \notin Below(R, S, x)
      BY <1>2 DEF Below, StrictlyOrders
    <2>2. /\ Cardinality(Below(R, S, x)) <= Cardinality(Below(R, S, y))
          /\ Cardinality(Below(R, S, x)) # Cardinality(Below(R, S, y))
      BY <1>1, <2>1, FS_Subset
    <2>3. rank[x] <= rank[y] /\ rank[x] # rank[y]
      BY <2>2
    <2> HIDE DEF rank
    <2> QED
      BY <1>1, <2>3
  <1>3. rank \in [S -> T]
    <2>1. rank = [x \in S |-> rank[x]]
      OBVIOUS
    <2> HIDE DEF rank, n
    <2>2. \A x \in S : rank[x] \in T
      BY <1>0, <1>1
    <2> QED
      BY <2>1, <2>2
  <1>4. rank \in Injection(S, T)
    <2>1. ASSUME NEW x \in S, NEW y \in S, rank[x] = rank[y]
          PROVE  x = y
      <3>1. CASE x # y
        <4>1. <<x, y>> \in R \/ <<y, x>> \in R
          BY <3>1 DEF StrictlyOrders
        <4>2. rank[x] < rank[y] \/ rank[y] < rank[x]
          BY <1>2, <4>1
        <4> HIDE DEF rank
        <4> QED
          BY <1>1, <2>1, <4>2
      <3> QED
        BY <3>1
    <2> HIDE DEF rank, T
    <2> QED
      BY <1>3, <2>1, Zenon DEF Injection, IsInjective
  <1>5. IsFiniteSet(T) /\ Cardinality(T) = n
    <2>1. n - 1 \in Int /\ 0 \in Int
      BY <1>0
    <2>2. IsFiniteSet(T) /\ Cardinality(T) = IF 0 > n - 1 THEN 0 ELSE n - 1 - 0 + 1
      BY <2>1, FS_Interval
    <2> HIDE DEF n
    <2> QED
      BY <1>0, <2>2
  <1>6. rank \in Surjection(S, T)
    <2> HIDE DEF rank, T
    <2> QED
      BY <1>4, <1>5, FS_Injection
  <1>7. ASSUME NEW k \in 1..n
        PROVE  f[k] \in S /\ rank[f[k]] = k - 1
    <2>1. k - 1 \in T
      BY <1>0
    <2>2. \E x \in S : rank[x] = k - 1
      <3> HIDE DEF rank, T
      <3> QED
        BY <1>6, <2>1 DEF Surjection
    <2>3. \E x \in S : Cardinality(Below(R, S, x)) = k - 1
      BY <2>2
    <2>4. f[k] = CHOOSE x \in S : Cardinality(Below(R, S, x)) = k - 1
      BY Zenon
    <2>5. f[k] \in S /\ Cardinality(Below(R, S, f[k])) = k - 1
      BY <2>3, <2>4, Zenon
    <2> QED
      BY <2>5
  <1> HIDE DEF rank
  <1>8. f \in [1..n -> S]
    <2>1. f = [k \in 1..n |-> f[k]]
      OBVIOUS
    <2> QED
      BY <1>7, <2>1, Zenon
  <1>9. ASSUME NEW x \in S
        PROVE  \E k \in 1..n : f[k] = x
    <2>1. rank[x] \in Nat /\ rank[x] < n
      BY <1>1
    <2>2. PICK k \in 1..n : k = rank[x] + 1
      BY <1>0, <2>1
    <2>3. f[k] \in S /\ rank[f[k]] = rank[x]
      BY <1>7, <2>1, <2>2
    <2> QED
      BY <1>4, <2>3 DEF Injection, IsInjective
  <1>10. ASSUME NEW j \in 1..n, NEW k \in 1..n
         PROVE  <<f[j], f[k]>> \in R <=> j < k
    <2>1. f[j] \in S /\ rank[f[j]] = j - 1 /\ f[k] \in S /\ rank[f[k]] = k - 1
      BY <1>7
    <2>2. <<f[j], f[k]>> \in R => j < k
      <3>1. <<f[j], f[k]>> \in R => rank[f[j]] < rank[f[k]]
        BY <1>2, <2>1, Zenon
      <3> QED
        BY <2>1, <3>1
    <2>3. <<f[k], f[j]>> \in R => k < j
      <3>1. <<f[k], f[j]>> \in R => rank[f[k]] < rank[f[j]]
        BY <1>2, <2>1, Zenon
      <3> QED
        BY <2>1, <3>1
    <2>4. j < k => f[j] # f[k]
      <3>1. f[j] = f[k] => rank[f[j]] = rank[f[k]]
        BY Zenon
      <3>2. j \in Int /\ k \in Int
        BY <1>0
      <3>3. f[j] = f[k] => j - 1 = k - 1
        BY <2>1, <3>1, Zenon
      <3> QED
        BY <3>2, <3>3
    <2>5. f[j] # f[k] => <<f[j], f[k]>> \in R \/ <<f[k], f[j]>> \in R
      BY <2>1, Zenon DEF StrictlyOrders
    <2>6. j < k => ~(k < j)
      <3>1. j \in Int /\ k \in Int
        BY <1>0
      <3> QED
        BY <3>1
    <2> QED
      BY <2>2, <2>3, <2>4, <2>5, <2>6, Zenon
  <1> QED
    BY <1>8, <1>9, <1>10 DEF InTurn

\* A later place has more places up to it.
LEMMA CountedApart ==
  ASSUME NEW n, NEW side, Sided(side, n), NEW i \in side, NEW j \in side
  PROVE  Upto(side, i) < Upto(side, j) <=> i < j
  <1>0. n \in Nat /\ i \in 1..n /\ j \in 1..n /\ i - 1 \in 0..n /\ j - 1 \in 0..n /\ i \in 0..n /\ j \in 0..n
    BY DEF Sided
  <1>1. /\ Upto(side, i) = Upto(side, i - 1) + 1 /\ Upto(side, j) = Upto(side, j - 1) + 1
        /\ Upto(side, i) \in Nat /\ Upto(side, j) \in Nat
        /\ Upto(side, i - 1) \in Nat /\ Upto(side, j - 1) \in Nat
    BY <1>0, Counting
  <1>2. CASE i < j
    <2>1. i <= j - 1
      BY <1>0, <1>2
    <2>2. Upto(side, i) <= Upto(side, j - 1)
      BY <1>0, <2>1, Counting
    <2> QED
      BY <1>1, <1>2, <2>2
  <1>3. CASE j <= i
    <2>1. Upto(side, j) <= Upto(side, i)
      BY <1>0, <1>3, Counting
    <2> QED
      BY <1>0, <1>1, <1>3, <2>1
  <1> QED
    BY <1>0, <1>2, <1>3

\* A sequence with some places picked: what is at a place comes as far as it is counted.
PicksAt(picked, s, places) ==
  /\ Len(picked) = Cardinality(places)
  /\ \A i \in places : Upto(places, i) \in 1..Len(picked) /\ picked[Upto(places, i)] = s[i]
  /\ \A k \in 1..Len(picked) : \E i \in places : Upto(places, i) = k /\ picked[k] = s[i]

\* What is picked from a sequence, place by place.
LEMMA PickedIs ==
  ASSUME NEW A, NEW s \in Seq(A), NEW places \in SUBSET (1..Len(s))
  PROVE  Picked(s, places) \in Seq(A) /\ PicksAt(Picked(s, places), s, places)
  <1>1. PICK n \in Nat : n = Len(s)
    BY LenProperties
  <1>2. Sided(places, n)
    BY <1>1 DEF Sided
  <1>3. PICK c \in Nat : c = Cardinality(places) /\ c = Upto(places, n)
    <2>1. n \in 0..n
      BY <1>1
    <2> QED
      BY <1>2, <2>1, Counting
  <1>4. PICK picked : picked = Picked(s, places)
    OBVIOUS
  <1>5. picked = [k \in 1..c |-> s[Ascending(places)[k]]]
    BY <1>3, <1>4, Zenon DEF Picked
  <1>6. \A i \in places : Upto(places, i) \in 1..c /\ Ascending(places)[Upto(places, i)] = i
    BY <1>2, <1>3, FileIs, Zenon DEF File
  <1>7. \A i \in places : picked[Upto(places, i)] = s[i]
    BY <1>5, <1>6, Zenon
  <1>8. \A k \in 1..c : \E i \in places : Upto(places, i) = k
    <2>1. \A k \in 1..Cardinality(places) : \E i \in places : Upto(places, i) = k
      BY <1>2, KthLine
    <2> QED
      BY <1>3, <2>1, Zenon
  <1>9. \A k \in 1..c : \E i \in places : Upto(places, i) = k /\ picked[k] = s[i]
    BY <1>7, <1>8, Zenon
  <1>10. \A i \in places : s[i] \in A
    BY <1>1, ElementOfSeq
  <1>11. picked \in [1..c -> A]
    <2>1. \A k \in 1..c : picked[k] \in A
      BY <1>9, <1>10, Zenon
    <2>2. picked = [k \in 1..c |-> picked[k]]
      BY <1>5, Zenon
    <2> QED
      BY <2>1, <2>2, Zenon
  <1>12. picked \in Seq(A) /\ Len(picked) = c
    BY <1>11
  <1> QED
    BY <1>3, <1>4, <1>6, <1>7, <1>9, <1>12, Zenon DEF PicksAt

------------------------------------------------------------------------------
(***************************************************************************)
(* Searches: what a name has of a query, how an index is sorted by it,     *)
(* what a registry has for it, and a walk over what that is, page by page. *)
(***************************************************************************)
\* Lowercase changes letters and nothing else.
LEMMA LowercaseTyped ==
  ASSUME NEW name \in Seq(Nat)
  PROVE  Lowercase(name) \in Seq(Nat) /\ Len(Lowercase(name)) = Len(name)
  <1>1. PICK n \in Nat : n = Len(name) /\ DOMAIN name = 1..n
    BY LenProperties
  <1>2. \A i \in 1..n : name[i] \in Nat
    BY <1>1, ElementOfSeq
  <1>3. Lowercase(name) = [i \in 1..n |-> IF name[i] \in Capitals THEN SmallOf[name[i]] ELSE name[i]]
    BY <1>1 DEF Lowercase
  <1>4. Lowercase(name) \in [1..n -> Nat]
    BY <1>2, <1>3, LettersAssumption
  <1> QED
    BY <1>1, <1>4

\* Who begins with a text has it somewhere in it.
LEMMA PrefixIsWithin ==
  ASSUME NEW s \in Seq(Nat), NEW t \in Seq(Nat), IsPrefix(s, t)
  PROVE  s \in SubSeqs(t)
  <1>1. Len(s) \in Nat /\ Len(t) \in Nat /\ Len(s) <= Len(t)
    BY LenProperties DEF IsPrefix
  <1>2. SubSeq(s, 1, Len(s)) = s
    BY SubSeqFull
  <1>3. SubSeq(t, 1, Len(s)) = s
    BY <1>2 DEF IsPrefix
  <1>4. 0 \in 0..Len(t) /\ Len(s) \in 0..Len(t) /\ 0 + 1 = 1
    BY <1>1
  <1>5. \E i, j \in 0..Len(t) : s = SubSeq(t, i + 1, j)
    BY <1>3, <1>4
  <1> QED
    BY <1>5 DEF SubSeqs

\* Whoever is its own small letters begins with them.
LEMMA PrefixOfItself ==
  ASSUME NEW s \in Seq(Nat)
  PROVE  IsPrefix(s, s)
  BY LenProperties DEF IsPrefix

\* rank, as what a name has of a query: the better it matches, the more.
LEMMA MeritsAre ==
  ASSUME NEW name \in Seq(Nat), NEW query \in Seq(Nat)
  PROVE  /\ Rank(name, Lowercase(query)) \in 1..4
         /\ Merits(name, query) = {merit \in 1..3 : Rank(name, Lowercase(query)) <= merit}
  <1> DEFINE small == Lowercase(name)
             wanted == Lowercase(query)
             rank == Rank(name, wanted)
  <1>1. small \in Seq(Nat) /\ wanted \in Seq(Nat)
    BY LowercaseTyped
  <1>2. small = wanted => IsPrefix(wanted, small)
    BY <1>1, PrefixOfItself
  <1>3. IsPrefix(wanted, small) => wanted \in SubSeqs(small)
    BY <1>1, PrefixIsWithin
  <1>4. /\ rank = 1 => small = wanted
        /\ rank = 2 => IsPrefix(wanted, small) /\ small # wanted
        /\ rank = 3 => wanted \in SubSeqs(small) /\ ~IsPrefix(wanted, small)
        /\ rank = 4 => wanted \notin SubSeqs(small)
        /\ rank \in 1..4
    <2>1. rank = CASE small = wanted -> 1
                   [] IsStrictPrefix(wanted, small) -> 2
                   [] wanted \in SubSeqs(small) /\ ~IsPrefix(wanted, small) -> 3
                   [] OTHER -> 4
      BY DEF Rank
    <2>2. IsStrictPrefix(wanted, small) <=> IsPrefix(wanted, small) /\ wanted # small
      BY DEF IsStrictPrefix
    <2> HIDE DEF rank, small, wanted
    <2>3. CASE small = wanted
      <3>1. rank = 1
        BY <1>2, <1>3, <2>1, <2>2, <2>3
      <3> QED
        BY <2>3, <3>1
    <2>4. CASE small # wanted /\ IsPrefix(wanted, small)
      <3>1. rank = 2
        BY <1>2, <1>3, <2>1, <2>2, <2>4
      <3> QED
        BY <2>4, <3>1
    <2>5. CASE ~IsPrefix(wanted, small) /\ wanted \in SubSeqs(small)
      <3>1. rank = 3
        BY <1>2, <1>3, <2>1, <2>2, <2>5
      <3> QED
        BY <2>5, <3>1
    <2>6. CASE wanted \notin SubSeqs(small)
      <3>1. rank = 4
        BY <1>2, <1>3, <2>1, <2>2, <2>6
      <3> QED
        BY <2>6, <3>1
    <2> QED
      BY <2>3, <2>4, <2>5, <2>6
  <1>5. /\ 1 \in Merits(name, query) <=> small = wanted
        /\ 2 \in Merits(name, query) <=> IsPrefix(wanted, small)
        /\ 3 \in Merits(name, query) <=> wanted \in SubSeqs(small)
        /\ Merits(name, query) \subseteq 1..3
    <2>1. Merits(name, query) = {merit \in 1..3 : CASE merit = 1 -> small = wanted
                                                    [] merit = 2 -> IsPrefix(wanted, small)
                                                    [] merit = 3 -> wanted \in SubSeqs(small)}
      BY DEF Merits
    <2>2. PICK a, b, c : /\ a = (small = wanted) /\ b = IsPrefix(wanted, small)
                         /\ c = (wanted \in SubSeqs(small))
      OBVIOUS
    <2> HIDE DEF small, wanted
    <2>3. Merits(name, query) = {merit \in 1..3 : CASE merit = 1 -> a [] merit = 2 -> b [] merit = 3 -> c}
      BY <2>1, <2>2, Zenon
    <2>4. /\ (CASE 1 = 1 -> a [] 1 = 2 -> b [] 1 = 3 -> c) = a
          /\ (CASE 2 = 1 -> a [] 2 = 2 -> b [] 2 = 3 -> c) = b
          /\ (CASE 3 = 1 -> a [] 3 = 2 -> b [] 3 = 3 -> c) = c
      OBVIOUS
    <2>5. 1 \in 1..3 /\ 2 \in 1..3 /\ 3 \in 1..3
      OBVIOUS
    <2>6. (1 \in Merits(name, query) <=> a) /\ (2 \in Merits(name, query) <=> b)
            /\ (3 \in Merits(name, query) <=> c) /\ Merits(name, query) \subseteq 1..3
      BY <2>3, <2>4, <2>5
    <2> QED
      BY <2>2, <2>6
  <1> HIDE DEF rank, small, wanted
  <1>6. ASSUME NEW merit \in 1..3
        PROVE  merit \in Merits(name, query) <=> rank <= merit
    <2>1. merit = 1 \/ merit = 2 \/ merit = 3
      OBVIOUS
    <2>2. rank = 1 \/ rank = 2 \/ rank = 3 \/ rank = 4
      BY <1>4
    <2> QED
      BY <1>2, <1>3, <1>4, <1>5, <2>1, <2>2
  <1>7. Merits(name, query) = {merit \in 1..3 : rank <= merit}
    BY <1>5, <1>6
  <1> QED
    BY <1>4, <1>7 DEF rank, wanted

\* Who has more of a query, or as much and is shorter, comes first.
LEMMA BetterIsBefore ==
  ASSUME NEW left \in Seq(Nat), NEW right \in Seq(Nat), NEW query \in Seq(Nat),
         Better(left, right, query)
  PROVE  IsBefore(left, right, Lowercase(query))
  <1>1. PICK a : a = Rank(left, Lowercase(query))
    OBVIOUS
  <1>2. PICK b : b = Rank(right, Lowercase(query))
    OBVIOUS
  <1>3. /\ a \in 1..4 /\ b \in 1..4
        /\ Merits(left, query) = {merit \in 1..3 : a <= merit}
        /\ Merits(right, query) = {merit \in 1..3 : b <= merit}
    BY <1>1, <1>2, MeritsAre
  <1>4. CASE Merits(right, query) \subseteq Merits(left, query) /\ Merits(right, query) # Merits(left, query)
    <2>1. PICK m \in 1..3 : a <= m /\ ~(b <= m)
      BY <1>3, <1>4
    <2>2. a < b
      BY <1>3, <2>1
    <2> QED
      BY <1>1, <1>2, <2>2 DEF IsBefore
  <1>5. CASE Merits(left, query) = Merits(right, query) /\ Len(left) < Len(right)
    <2>1. \A m \in 1..3 : a <= m <=> b <= m
      BY <1>3, <1>5
    <2>2. a = b
      <3>1. (a <= 1 <=> b <= 1) /\ (a <= 2 <=> b <= 2) /\ (a <= 3 <=> b <= 3)
        BY <2>1
      <3> QED
        BY <1>3, <3>1
    <2> QED
      BY <1>1, <1>2, <1>5, <2>2 DEF IsBefore
  <1> QED
    BY <1>4, <1>5 DEF Better

\* Of two different texts of one length, the first place where they differ tells.
LEMMA FirstDifference ==
  ASSUME NEW n \in Nat, NEW left \in Seq(Nat), NEW right \in Seq(Nat),
         Len(left) = n, Len(right) = n, left # right
  PROVE  \E i \in 1..n : left[i] # right[i] /\ \A j \in 1..(i - 1) : left[j] = right[j]
  <1> DEFINE Alike(k) == \A j \in 1..k : left[j] = right[j]
             Differs == \E i \in 1..n : left[i] # right[i] /\ Alike(i - 1)
             Q == {k \in Nat : k <= n => Alike(k) \/ Differs}
  <1>1. 0 \in Q
    OBVIOUS
  <1>2. ASSUME NEW k \in Nat, k + 1 <= n, Alike(k)
        PROVE  Alike(k + 1) \/ Differs
    <2>1. CASE left[k + 1] = right[k + 1]
      <3>1. \A j \in 1..(k + 1) : j \in 1..k \/ j = k + 1
        OBVIOUS
      <3>2. \A j \in 1..(k + 1) : left[j] = right[j]
        BY <1>2, <2>1, <3>1, Zenon
      <3> QED
        BY <3>2
    <2>2. CASE left[k + 1] # right[k + 1]
      <3>1. k + 1 \in 1..n /\ (k + 1) - 1 = k
        BY <1>2
      <3>2. Differs
        BY <1>2, <2>2, <3>1
      <3> QED
        BY <3>2
    <2> QED
      BY <2>1, <2>2
  <1>3. ~Alike(n)
    BY SeqEqual
  <1> HIDE DEF Alike, Differs
  <1>4. n \in Q
    <2>1. ASSUME NEW k \in Nat, k \in Q
          PROVE  k + 1 \in Q
      BY <1>2, <2>1
    <2> HIDE DEF Q
    <2> QED
      BY <1>1, <2>1, NatInduct
  <1>5. Differs
    BY <1>3, <1>4
  <1> QED
    BY <1>5 DEF Differs, Alike

\* The order in which names are sorted, as the pairs it puts in order.
Sorting(names, query) ==
  {pair \in names \X names : IsBefore(pair[1], pair[2], query)}

\* One text is before another of its length at the first place where they differ.
TextDiffers(left, right, i) ==
  left[i] < right[i] /\ \A j \in 1..(i - 1) : left[j] = right[j]

\* The order of two names as text is that of the first letters in which they differ.
LEMMA InTextIs ==
  ASSUME NEW n \in Nat, NEW left \in Seq(Nat), NEW right \in Seq(Nat),
         Len(left) = n, Len(right) = n
  PROVE  InText(left, right) <=> \E i \in 1..n : TextDiffers(left, right, i)
  <1>1. DOMAIN left = 1..n /\ DOMAIN right = 1..n
    BY LenProperties
  <1>2. ~IsStrictPrefix(left, right)
    <2>1. SubSeq(left, 1, n) = left /\ SubSeq(right, 1, n) = right
      BY SubSeqFull
    <2> QED
      BY <2>1 DEF IsStrictPrefix, IsPrefix
  <1> QED
    BY <1>1, <1>2 DEF InText, TextDiffers

\* Names are sorted by rank, length and text, of which two names differ in one.
LEMMA NamesAreOrdered ==
  ASSUME NEW names \in SUBSET Seq(Nat), NEW query \in Seq(Nat)
  PROVE  StrictlyOrders(Sorting(names, Lowercase(query)), names)
  <1> DEFINE rank == [name \in names |-> Rank(name, Lowercase(query))]
             size == [name \in names |-> Len(name)]
             R == Sorting(names, Lowercase(query))
  <1>1. \A x \in names : rank[x] \in 1..4 /\ size[x] \in Nat
    BY MeritsAre, LenProperties
  <1>2. \A x, y \in names :
          <<x, y>> \in R <=> \/ rank[x] < rank[y]
                             \/ rank[x] = rank[y] /\ size[x] < size[y]
                             \/ rank[x] = rank[y] /\ size[x] = size[y] /\ InText(x, y)
    BY DEF Sorting, IsBefore
  <1>3. ASSUME NEW x \in names, NEW y \in names, size[x] = size[y]
        PROVE  /\ InText(x, y) <=> \E i \in 1..size[x] : TextDiffers(x, y, i)
               /\ x # y => InText(x, y) \/ InText(y, x)
    <2>1. PICK n \in Nat : n = size[x] /\ n = Len(x) /\ n = Len(y)
      BY <1>1, <1>3
    <2>2. /\ InText(x, y) <=> \E i \in 1..n : TextDiffers(x, y, i)
          /\ InText(y, x) <=> \E i \in 1..n : TextDiffers(y, x, i)
      BY <2>1, InTextIs
    <2>3. ASSUME x # y
          PROVE  InText(x, y) \/ InText(y, x)
      <3>1. PICK i \in 1..n : x[i] # y[i] /\ \A j \in 1..(i - 1) : x[j] = y[j]
        BY <2>1, <2>3, FirstDifference, ZenonT(30)
      <3>2. x[i] \in Nat /\ y[i] \in Nat
        BY <2>1, <3>1, ElementOfSeq
      <3>3. x[i] < y[i] \/ y[i] < x[i]
        BY <3>1, <3>2
      <3>4. TextDiffers(x, y, i) \/ TextDiffers(y, x, i)
        BY <3>1, <3>3 DEF TextDiffers
      <3> QED
        BY <2>2, <3>4
    <2> QED
      BY <2>1, <2>2, <2>3
  <1>4. ASSUME NEW x \in names, NEW y \in names, NEW z \in names,
               size[x] = size[y], size[y] = size[z], InText(x, y), InText(y, z)
        PROVE  InText(x, z)
    <2>1. PICK n \in Nat : n = size[x] /\ n = Len(x) /\ n = Len(y) /\ n = Len(z)
      BY <1>1, <1>4
    <2>2. PICK i \in 1..n : TextDiffers(x, y, i)
      BY <1>3, <1>4, <2>1
    <2>3. PICK k \in 1..n : TextDiffers(y, z, k)
      BY <1>3, <1>4, <2>1
    <2>4. \A j \in 1..n : x[j] \in Nat /\ y[j] \in Nat /\ z[j] \in Nat
      BY <2>1, ElementOfSeq
    <2>5. \E m \in 1..n : TextDiffers(x, z, m)
      <3> HIDE DEF size, rank, R
      <3>1. CASE i < k
        <4>1. x[i] < y[i] /\ y[i] = z[i] /\ \A j \in 1..(i - 1) : x[j] = y[j] /\ y[j] = z[j]
          BY <2>2, <2>3, <3>1, SMTT(30) DEF TextDiffers
        <4>2. TextDiffers(x, z, i)
          BY <4>1 DEF TextDiffers
        <4> QED
          BY <4>2
      <3>2. CASE i = k
        <4>1. x[i] < y[i] /\ y[i] < z[i] /\ \A j \in 1..(i - 1) : x[j] = y[j] /\ y[j] = z[j]
          BY <2>2, <2>3, <3>2 DEF TextDiffers
        <4>2. x[i] < z[i]
          BY <2>4, <4>1, SMTT(30)
        <4>3. TextDiffers(x, z, i)
          BY <4>1, <4>2 DEF TextDiffers
        <4> QED
          BY <4>3
      <3>3. CASE k < i
        <4>1. y[k] < z[k] /\ x[k] = y[k] /\ \A j \in 1..(k - 1) : x[j] = y[j] /\ y[j] = z[j]
          BY <2>2, <2>3, <3>3, SMTT(30) DEF TextDiffers
        <4>2. TextDiffers(x, z, k)
          BY <4>1 DEF TextDiffers
        <4> QED
          BY <4>2
      <3> QED
        BY <3>1, <3>2, <3>3
    <2>6. size[x] = size[z]
      BY <1>4
    <2> QED
      BY <1>3, <2>1, <2>5, <2>6
  <1>5. ASSUME NEW x \in names
        PROVE  ~InText(x, x)
    <2>1. PICK n \in Nat : n = Len(x)
      BY <1>1
    <2>2. \A i \in 1..n : x[i] \in Nat
      BY <2>1, ElementOfSeq
    <2>3. \A i \in 1..n : ~TextDiffers(x, x, i)
      BY <2>2 DEF TextDiffers
    <2> QED
      BY <2>1, <2>3, InTextIs
  <1> HIDE DEF rank, size, R
  <1>6. ASSUME NEW x \in names
        PROVE  <<x, x>> \notin R
    <2>1. rank[x] \in 1..4 /\ size[x] \in Nat
      BY <1>1
    <2>2. ~(rank[x] < rank[x]) /\ ~(size[x] < size[x])
      BY <2>1
    <2> QED
      BY <1>2, <1>5, <2>2, Zenon
  <1>7. ASSUME NEW x \in names, NEW y \in names, NEW z \in names,
               <<x, y>> \in R, <<y, z>> \in R
        PROVE  <<x, z>> \in R
    <2>1. /\ rank[x] \in 1..4 /\ rank[y] \in 1..4 /\ rank[z] \in 1..4
          /\ size[x] \in Nat /\ size[y] \in Nat /\ size[z] \in Nat
      BY <1>1
    <2>2. \/ rank[x] < rank[y]
          \/ rank[x] = rank[y] /\ size[x] < size[y]
          \/ rank[x] = rank[y] /\ size[x] = size[y] /\ InText(x, y)
      BY <1>2, <1>7
    <2>3. \/ rank[y] < rank[z]
          \/ rank[y] = rank[z] /\ size[y] < size[z]
          \/ rank[y] = rank[z] /\ size[y] = size[z] /\ InText(y, z)
      BY <1>2, <1>7
    <2>4. InText(x, y) /\ InText(y, z) /\ size[x] = size[y] /\ size[y] = size[z] => InText(x, z)
      BY <1>4
    <2>5. \/ rank[x] < rank[z]
          \/ rank[x] = rank[z] /\ size[x] < size[z]
          \/ rank[x] = rank[z] /\ size[x] = size[z] /\ InText(x, z)
      BY <2>1, <2>2, <2>3, <2>4
    <2> QED
      BY <1>2, <2>5
  <1>8. ASSUME NEW x \in names, NEW y \in names, x # y
        PROVE  <<x, y>> \in R \/ <<y, x>> \in R
    <2>1. rank[x] \in 1..4 /\ rank[y] \in 1..4 /\ size[x] \in Nat /\ size[y] \in Nat
      BY <1>1
    <2>2. size[x] = size[y] => InText(x, y) \/ InText(y, x)
      BY <1>3, <1>8
    <2>3. \/ rank[x] < rank[y]
          \/ rank[y] < rank[x]
          \/ rank[x] = rank[y] /\ size[x] < size[y]
          \/ rank[x] = rank[y] /\ size[y] < size[x]
          \/ rank[x] = rank[y] /\ size[x] = size[y]
      BY <2>1
    <2> QED
      BY <1>2, <2>2, <2>3
  <1>9. StrictlyOrders(R, names)
    BY <1>6, <1>7, <1>8 DEF StrictlyOrders
  <1> QED
    BY <1>9 DEF R

\* The places of the hits that are not only provided.
Found(hits, provided) == {i \in 1..Len(hits) : hits[i] \notin provided}

\* What is left of a list without some of it: the others, each once, in its order.
LeavesInOrder(left, hits, provided) ==
  /\ left \in Seq(Seq(Nat))
  /\ ToSet(left) = ToSet(hits) \ provided
  /\ IsInjective(left)
  /\ \A a, b \in 1..Len(left) : a < b =>
       ~\E i, j \in DOMAIN hits : i < j /\ hits[i] = left[b] /\ hits[j] = left[a]

\* Packagist's filter leaves what it lists in its order.
LEMMA WithoutIs ==
  ASSUME NEW hits \in Seq(Seq(Nat)), IsInjective(hits), NEW provided
  PROVE  LeavesInOrder(Without(hits, provided), hits, provided)
  <1> DEFINE kept == Found(hits, provided)
  <1>1. PICK n \in Nat : n = Len(hits) /\ DOMAIN hits = 1..n
    BY LenProperties
  <1>2. kept \in SUBSET (1..n) /\ Sided(kept, n) /\ \A i \in 1..n : i \in kept <=> hits[i] \notin provided
    BY <1>1 DEF Found, Sided
  <1>3. PICK w : w = Without(hits, provided)
    OBVIOUS
  <1>4. w \in Seq(Seq(Nat)) /\ PicksAt(w, hits, kept)
    <2>1. w = Picked(hits, kept)
      BY <1>3 DEF Without, Found
    <2> HIDE DEF kept
    <2> QED
      BY <1>1, <1>2, <2>1, PickedIs
  <1>5. PICK c \in Nat : c = Len(w) /\ DOMAIN w = 1..c
    BY <1>4, LenProperties
  <1> HIDE DEF kept
  <1>6. /\ \A i \in kept : Upto(kept, i) \in 1..c /\ w[Upto(kept, i)] = hits[i]
        /\ \A k \in 1..c : \E i \in kept : Upto(kept, i) = k /\ w[k] = hits[i]
    BY <1>4, <1>5 DEF PicksAt
  <1>7. ToSet(w) = ToSet(hits) \ provided
    <2>1. ToSet(w) = {w[k] : k \in 1..c} /\ ToSet(hits) = {hits[i] : i \in 1..n}
      BY <1>1, <1>5 DEF ToSet
    <2>2. \A x \in ToSet(w) : x \in ToSet(hits) /\ x \notin provided
      BY <1>2, <1>6, <2>1, ZenonT(30)
    <2>3. \A i \in 1..n : hits[i] \notin provided => hits[i] \in ToSet(w)
      BY <1>2, <1>6, <2>1
    <2> QED
      BY <2>1, <2>2, <2>3
  <1>8. ASSUME NEW i \in 1..n, NEW j \in 1..n, hits[i] = hits[j]
        PROVE  i = j
    BY <1>1, <1>8, Zenon DEF IsInjective
  <1>9. ASSUME NEW a \in 1..c, NEW b \in 1..c, a < b, NEW i \in 1..n, NEW j \in 1..n,
               hits[i] = w[b], hits[j] = w[a]
        PROVE  j < i
    <2>1. PICK k \in kept : Upto(kept, k) = a /\ w[a] = hits[k]
      BY <1>6
    <2>2. PICK m \in kept : Upto(kept, m) = b /\ w[b] = hits[m]
      BY <1>6
    <2>3. k = j /\ m = i
      BY <1>2, <1>8, <1>9, <2>1, <2>2
    <2>4. Upto(kept, k) < Upto(kept, m)
      BY <1>9, <2>1, <2>2, Zenon
    <2> QED
      BY <1>2, <2>3, <2>4, CountedApart
  <1>10. \A a, b \in 1..c : a < b =>
           ~\E i, j \in DOMAIN hits : i < j /\ hits[i] = w[b] /\ hits[j] = w[a]
    <2>1. \A i, j \in 1..n : i < j => ~(j < i)
      BY <1>1
    <2> QED
      BY <1>1, <1>9, <2>1, Zenon
  <1>11. \A a, b \in 1..c : w[a] = w[b] => a = b
    <2>1. ASSUME NEW a \in 1..c, NEW b \in 1..c, w[a] = w[b]
          PROVE  a = b
      <3>1. PICK k \in kept : Upto(kept, k) = a /\ w[a] = hits[k]
        BY <1>6
      <3>2. PICK m \in kept : Upto(kept, m) = b /\ w[b] = hits[m]
        BY <1>6
      <3>3. k = m
        BY <1>2, <1>8, <2>1, <3>1, <3>2
      <3> QED
        BY <3>1, <3>2, <3>3
    <2> QED
      BY <2>1
  <1>12. IsInjective(w)
    BY <1>5, <1>11, Zenon DEF IsInjective
  <1>13. \A a, b \in 1..Len(w) : a < b =>
           ~\E i, j \in DOMAIN hits : i < j /\ hits[i] = w[b] /\ hits[j] = w[a]
    BY <1>5, <1>10, Zenon
  <1> QED
    BY <1>3, <1>4, <1>7, <1>12, <1>13, Zenon DEF LeavesInOrder

\* What it leaves of the first hits comes first in what it leaves of all of them.
LEMMA WithoutOfFirst ==
  ASSUME NEW hits \in Seq(Seq(Nat)), NEW provided, NEW n \in 0..Len(hits)
  PROVE  \E m \in 0..Len(Without(hits, provided)) :
           Without(SubSeq(hits, 1, n), provided) = SubSeq(Without(hits, provided), 1, m)
  <1> DEFINE kept == Found(hits, provided)
  <1>1. PICK size \in Nat : size = Len(hits) /\ DOMAIN hits = 1..size
    BY LenProperties
  <1>2. PICK part : part = SubSeq(hits, 1, n)
    OBVIOUS
  <1>3. part \in Seq(Seq(Nat)) /\ Len(part) = n /\ \A i \in 1..n : part[i] = hits[i]
    <2>1. \A i \in 1..n : hits[i] \in Seq(Nat)
      BY <1>1, ElementOfSeq
    <2>2. /\ part \in Seq(Seq(Nat))
          /\ Len(part) = IF 1 <= n THEN n - 1 + 1 ELSE 0
          /\ \A i \in 1..(n - 1 + 1) : part[i] = hits[1 + i - 1]
      BY <1>1, <1>2, <2>1, SubSeqProperties
    <2>3. n \in Nat
      BY <1>1
    <2> QED
      BY <2>2, <2>3
  <1>4. kept \in SUBSET (1..size) /\ Sided(kept, size) /\ n \in Nat /\ n \in 0..size /\ size \in 0..size
    BY <1>1 DEF Found, Sided
  <1>5. Found(part, provided) = kept \cap 1..n
    BY <1>1, <1>3, <1>4 DEF Found
  <1> HIDE DEF kept
  <1>6. PICK c : c = kept \cap 1..n
    OBVIOUS
  <1>7. c \in SUBSET (1..n) /\ Sided(c, n)
    BY <1>4, <1>6 DEF Sided
  <1>8. PICK w : w = Without(hits, provided)
    OBVIOUS
  <1>9. PICK v : v = Without(part, provided)
    OBVIOUS
  <1>10. w \in Seq(Seq(Nat)) /\ PicksAt(w, hits, kept)
    <2>1. w = Picked(hits, kept)
      BY <1>8 DEF Without, Found, kept
    <2> QED
      BY <1>1, <1>4, <2>1, PickedIs
  <1>11. v \in Seq(Seq(Nat)) /\ PicksAt(v, part, c)
    <2>1. v = Picked(part, c)
      BY <1>5, <1>6, <1>9, Zenon DEF Without, Found
    <2> QED
      BY <1>3, <1>7, <2>1, PickedIs
  <1>12. PICK m \in Nat : m = Upto(kept, n) /\ m = Cardinality(c) /\ m <= Cardinality(kept)
    <2>1. Upto(kept, n) \in Nat /\ Upto(kept, n) <= Upto(kept, size) /\ Upto(kept, size) = Cardinality(kept)
      BY <1>4, Counting
    <2>2. Upto(kept, n) = Cardinality(c)
      BY <1>6, Zenon DEF Upto
    <2> QED
      BY <2>1, <2>2
  <1>13. \A i \in c : Upto(c, i) = Upto(kept, i)
    <2>1. ASSUME NEW i \in c
          PROVE  c \cap 1..i = kept \cap 1..i
      BY <1>6, <1>7
    <2> QED
      BY <2>1, Zenon DEF Upto
  <1>14. Len(v) = m /\ Len(w) \in Nat /\ m <= Len(w)
    BY <1>10, <1>11, <1>12, LenProperties DEF PicksAt
  <1>15. ASSUME NEW k \in 1..m
         PROVE  v[k] = w[k]
    <2>1. PICK i \in c : Upto(c, i) = k /\ v[k] = part[i]
      BY <1>11, <1>14 DEF PicksAt
    <2>2. i \in kept /\ i \in 1..n /\ Upto(kept, i) = k
      BY <1>6, <1>13, <2>1
    <2>3. w[Upto(kept, i)] = hits[i]
      BY <1>10, <2>2 DEF PicksAt
    <2>4. part[i] = hits[i]
      BY <1>3, <2>2
    <2> QED
      BY <2>1, <2>2, <2>3, <2>4
  <1>16. PICK u : u = SubSeq(w, 1, m)
    OBVIOUS
  <1>17. u \in Seq(Seq(Nat)) /\ Len(u) = m /\ \A k \in 1..m : u[k] = w[k]
    <2>1. \A k \in 1..m : w[k] \in Seq(Nat)
      BY <1>10, <1>14, ElementOfSeq
    <2>2. /\ u \in Seq(Seq(Nat))
          /\ Len(u) = IF 1 <= m THEN m - 1 + 1 ELSE 0
          /\ \A k \in 1..(m - 1 + 1) : u[k] = w[1 + k - 1]
      BY <1>12, <1>16, <2>1, SubSeqProperties
    <2>3. /\ (IF 1 <= m THEN m - 1 + 1 ELSE 0) = m
          /\ \A k \in 1..m : k \in 1..(m - 1 + 1) /\ 1 + k - 1 = k
      BY <1>12
    <2>4. ASSUME NEW k \in 1..m
          PROVE  u[k] = w[k]
      <3>1. k \in 1..(m - 1 + 1) /\ 1 + k - 1 = k
        BY <2>3
      <3>2. u[k] = w[1 + k - 1]
        BY <2>2, <3>1, Zenon
      <3> QED
        BY <3>1, <3>2, Zenon
    <2>5. Len(u) = m
      <3>1. PICK l : l = Len(u)
        OBVIOUS
      <3>2. l = IF 1 <= m THEN m - 1 + 1 ELSE 0
        BY <2>2, <3>1, Zenon
      <3>3. l = m
        BY <1>12, <3>2
      <3> QED
        BY <3>1, <3>3
    <2> QED
      BY <2>2, <2>4, <2>5, Zenon
  <1>18. v = u
    BY <1>11, <1>14, <1>15, <1>17, SeqEqual
  <1>19. m \in 0..Len(w)
    BY <1>12, <1>14
  <1> QED
    BY <1>2, <1>8, <1>9, <1>16, <1>18, <1>19

\* The names that match, sorted: each once, and none after one it is better than.
LEMMA MatchedIs ==
  ASSUME NEW index, IsFiniteSet(index), index \subseteq Seq(Nat), NEW query \in Seq(Nat)
  PROVE  LET found   == Matched(index, Lowercase(query))
             matches == {name \in index : Merits(name, query) # {}}
         IN  /\ found \in Seq(Seq(Nat)) /\ Len(found) = Cardinality(matches)
             /\ ToSet(found) = matches /\ IsInjective(found)
             /\ \A i, j \in 1..Len(found) : i < j => ~Better(found[j], found[i], query)
  <1> DEFINE wanted == Lowercase(query)
             matches == {name \in index : Merits(name, query) # {}}
             R == Sorting(matches, wanted)
  <1>1. matches = {name \in index : Rank(name, wanted) < 4}
    <2>1. ASSUME NEW name \in index
          PROVE  Merits(name, query) # {} <=> Rank(name, wanted) < 4
      <3>1. /\ Rank(name, wanted) \in 1..4
            /\ Merits(name, query) = {merit \in 1..3 : Rank(name, wanted) <= merit}
        BY MeritsAre
      <3>2. PICK rank \in 1..4 : rank = Rank(name, wanted)
        BY <3>1
      <3>3. Merits(name, query) = {merit \in 1..3 : rank <= merit}
        BY <3>1, <3>2
      <3>4. rank < 4 => 3 \in Merits(name, query)
        BY <3>3
      <3>5. Merits(name, query) # {} => rank < 4
        BY <3>3
      <3> QED
        BY <3>2, <3>4, <3>5
    <2> QED
      BY <2>1
  <1>2. matches \subseteq index /\ matches \in SUBSET Seq(Nat) /\ IsFiniteSet(matches)
    <2>1. matches \subseteq index
      OBVIOUS
    <2> QED
      BY <2>1, FS_Subset
  <1>3. PICK found : found = Matched(index, wanted)
    OBVIOUS
  <1>4. PICK n \in Nat : n = Cardinality(matches)
    BY <1>2, FS_CardinalityType
  <1>5. found = [k \in 1..Cardinality(matches) |->
                   CHOOSE x \in matches : Cardinality({y \in matches : IsBefore(y, x, wanted)}) = k - 1]
    <2> HIDE DEF matches
    <2> QED
      BY <1>1, <1>3 DEF Matched, Arranged
  <1> HIDE DEF matches
  <1>6. \A x \in matches : {y \in matches : IsBefore(y, x, wanted)} = Below(R, matches, x)
    BY DEF Sorting, Below
  <1>7. /\ found = [k \in 1..Cardinality(matches) |-> found[k]]
        /\ \A k \in 1..Cardinality(matches) :
             found[k] = CHOOSE x \in matches : Cardinality(Below(R, matches, x)) = k - 1
    <2>1. ASSUME NEW k \in 1..Cardinality(matches)
          PROVE  found[k] = CHOOSE x \in matches : Cardinality(Below(R, matches, x)) = k - 1
      <3>1. found[k] = CHOOSE x \in matches :
                         Cardinality({y \in matches : IsBefore(y, x, wanted)}) = k - 1
        BY <1>5, Zenon
      <3>2. \A x \in matches : Cardinality({y \in matches : IsBefore(y, x, wanted)}) = k - 1
                               <=> Cardinality(Below(R, matches, x)) = k - 1
        BY <1>6, Zenon
      <3> HIDE DEF R, wanted
      <3> QED
        BY <3>1, <3>2
    <2>2. found = [k \in 1..Cardinality(matches) |-> found[k]]
      <3> DEFINE at(k) == CHOOSE x \in matches :
                            Cardinality({y \in matches : IsBefore(y, x, wanted)}) = k - 1
      <3>1. found = [k \in 1..Cardinality(matches) |-> at(k)]
        BY <1>5
      <3> HIDE DEF R, wanted, at
      <3> QED
        BY <3>1
    <2> HIDE DEF R, wanted
    <2> HIDE <1>5, <1>6
    <2> QED
      BY <2>1, <2>2, Zenon
  <1>8. StrictlyOrders(R, matches)
    BY <1>2, NamesAreOrdered
  <1>9. InTurn(found, R, matches)
    <2> HIDE DEF R
    <2> QED
      BY <1>2, <1>7, <1>8, ArrangedIs
  <1>10. /\ found \in [1..n -> matches]
         /\ \A x \in matches : \E k \in 1..n : found[k] = x
         /\ \A j, k \in 1..n : <<found[j], found[k]>> \in R <=> j < k
    BY <1>4, <1>9, Zenon DEF InTurn
  <1>11. found \in Seq(Seq(Nat)) /\ Len(found) = n /\ DOMAIN found = 1..n
    <2> HIDE DEF R
    <2>1. found \in [1..n -> Seq(Nat)]
      BY <1>2, <1>10
    <2> QED
      BY <2>1
  <1>12. ToSet(found) = matches
    <2>1. ToSet(found) = {found[k] : k \in 1..n}
      BY <1>11 DEF ToSet
    <2> HIDE DEF R
    <2>2. \A k \in 1..n : found[k] \in matches
      BY <1>10
    <2> QED
      BY <1>10, <2>1, <2>2
  <1>13. IsInjective(found)
    <2>1. ASSUME NEW j \in 1..n, NEW k \in 1..n, found[j] = found[k]
          PROVE  j = k
      <3>1. <<found[j], found[j]>> \notin R /\ <<found[k], found[k]>> \notin R
        BY <1>8, <1>10 DEF StrictlyOrders
      <3>2. ~(j < k) /\ ~(k < j)
        BY <1>10, <2>1, <3>1, Zenon
      <3> QED
        BY <3>2
    <2> QED
      BY <1>11, <2>1, Zenon DEF IsInjective
  <1>14. ASSUME NEW i \in 1..n, NEW j \in 1..n, i < j
         PROVE  ~Better(found[j], found[i], query)
    <2>1. found[i] \in matches /\ found[j] \in matches
      BY <1>10
    <2>2. found[i] \in Seq(Nat) /\ found[j] \in Seq(Nat)
      BY <1>2, <2>1
    <2>3. <<found[j], found[i]>> \notin R
      <3>1. ~(j < i)
        BY <1>14
      <3> QED
        BY <1>10, <3>1, Zenon
    <2>4. ~IsBefore(found[j], found[i], wanted)
      BY <2>1, <2>3 DEF Sorting
    <2> QED
      BY <2>2, <2>4, BetterIsBefore
  <1> QED
    BY <1>3, <1>4, <1>11, <1>12, <1>13, <1>14, Zenon DEF matches

\* All that a registry has for a query, in its order.
AllHits(source, query) ==
  IF query = <<>> THEN <<>>
  ELSE CASE source.kind = "index"   -> Matched(source.names, Lowercase(query))
         [] source.kind = "ranked"  -> Without(source.hits, source.provided)
         [] source.kind = "modules" -> IF query \in source.names THEN <<query>> ELSE <<>>

\* They are what matches, each once, and none after one it is better than.
Ranks(hits, source, query) ==
  /\ hits \in Seq(Seq(Nat))
  /\ ToSet(hits) = Matches(source, query)
  /\ IsInjective(hits)
  /\ \A i, j \in 1..Len(hits) : i < j => ~IsBetter(source, hits[j], hits[i], query)

\* Whatever registry it is, all it has for a query is what matches, the best first.
LEMMA AllHitsAre ==
  ASSUME NEW source, IsSource(source), NEW query \in Seq(Nat)
  PROVE  /\ Ranks(AllHits(source, query), source, query)
         /\ source.kind = "index" =>
              Len(AllHits(source, query)) = Cardinality(Matches(source, query))
  <1>1. PICK hits : hits = AllHits(source, query)
    OBVIOUS
  <1>2. CASE query = <<>>
    <2>1. hits = <<>> /\ Matches(source, query) = {}
      BY <1>1, <1>2 DEF AllHits, Matches
    <2>2. hits \in Seq(Seq(Nat)) /\ Len(hits) = 0 /\ DOMAIN hits = {} /\ ToSet(hits) = {}
      BY <2>1 DEF ToSet
    <2>3. IsInjective(hits)
      BY <2>2 DEF IsInjective
    <2>4. \A i, j \in 1..Len(hits) : i < j => ~IsBetter(source, hits[j], hits[i], query)
      BY <2>2
    <2> QED
      BY <1>1, <2>1, <2>2, <2>3, <2>4, FS_EmptySet DEF Ranks
  <1>3. CASE query # <<>> /\ source.kind = "index"
    <2>1. IsFiniteSet(source.names) /\ source.names \subseteq Seq(Nat)
      BY <1>3 DEF IsSource
    <2>2. hits = Matched(source.names, Lowercase(query))
      BY <1>1, <1>3 DEF AllHits
    <2>3. Matches(source, query) = {name \in source.names : Merits(name, query) # {}}
      BY <1>3 DEF Matches
    <2>4. \A left, right : IsBetter(source, left, right, query) <=> Better(left, right, query)
      BY <1>3 DEF IsBetter
    <2>5. /\ hits \in Seq(Seq(Nat)) /\ Len(hits) = Cardinality(Matches(source, query))
          /\ ToSet(hits) = Matches(source, query) /\ IsInjective(hits)
          /\ \A i, j \in 1..Len(hits) : i < j => ~Better(hits[j], hits[i], query)
      BY <2>1, <2>2, <2>3, MatchedIs
    <2> QED
      BY <1>1, <2>4, <2>5, Zenon DEF Ranks
  <1>4. CASE query # <<>> /\ source.kind = "ranked"
    <2>1. source.hits \in Seq(Seq(Nat)) /\ IsInjective(source.hits)
      BY <1>4 DEF IsSource
    <2>2. hits = Without(source.hits, source.provided)
      BY <1>1, <1>4 DEF AllHits
    <2>3. Matches(source, query) = ToSet(source.hits) \ source.provided
      BY <1>4 DEF Matches
    <2>4. \A left, right : IsBetter(source, left, right, query) <=>
            \E i, j \in DOMAIN source.hits : i < j /\ source.hits[i] = left /\ source.hits[j] = right
      BY <1>4 DEF IsBetter
    <2>5. PICK listed : listed = source.hits
      OBVIOUS
    <2>6. PICK provided : provided = source.provided
      OBVIOUS
    <2>7. listed \in Seq(Seq(Nat)) /\ IsInjective(listed)
      BY <2>1, <2>5
    <2>8. PICK left : left = Without(listed, provided)
      OBVIOUS
    <2>9. LeavesInOrder(left, listed, provided)
      BY <2>7, <2>8, WithoutIs, Zenon
    <2>10. \A a, b \in 1..Len(left) : a < b => ~IsBetter(source, left[b], left[a], query)
      <3>1. ASSUME NEW a \in 1..Len(left), NEW b \in 1..Len(left), a < b
            PROVE  ~IsBetter(source, left[b], left[a], query)
        <4>1. ~\E i, j \in DOMAIN listed : i < j /\ listed[i] = left[b] /\ listed[j] = left[a]
          BY <2>9, <3>1, Zenon DEF LeavesInOrder
        <4>2. IsBetter(source, left[b], left[a], query) <=>
                \E i, j \in DOMAIN listed : i < j /\ listed[i] = left[b] /\ listed[j] = left[a]
          BY <2>4, <2>5
        <4> QED
          BY <4>1, <4>2, Zenon
      <3> QED
        BY <3>1, Zenon
    <2>11. ToSet(left) = Matches(source, query)
      BY <2>3, <2>5, <2>6, <2>9 DEF LeavesInOrder
    <2>12. Ranks(left, source, query)
      BY <2>9, <2>10, <2>11, Zenon DEF Ranks, LeavesInOrder
    <2>13. left = hits /\ source.kind # "index"
      BY <1>4, <2>2, <2>5, <2>6, <2>8
    <2> QED
      BY <1>1, <2>12, <2>13, Zenon
  <1>5. CASE query # <<>> /\ source.kind = "modules"
    <2>1. hits = IF query \in source.names THEN <<query>> ELSE <<>>
      BY <1>1, <1>5 DEF AllHits
    <2>2. Matches(source, query) = source.names \cap {query}
      BY <1>5 DEF Matches
    <2>3. \A left, right : ~IsBetter(source, left, right, query)
      BY <1>5 DEF IsBetter
    <2>4. CASE query \in source.names
      <3>1. hits = <<query>>
        BY <2>1, <2>4
      <3>2. hits \in Seq(Seq(Nat)) /\ DOMAIN hits = {1} /\ hits[1] = query
        BY <3>1
      <3>3. ToSet(hits) = {query}
        BY <3>2 DEF ToSet
      <3>4. IsInjective(hits)
        BY <3>2 DEF IsInjective
      <3> QED
        BY <1>1, <1>5, <2>2, <2>3, <2>4, <3>2, <3>3, <3>4 DEF Ranks
    <2>5. CASE query \notin source.names
      <3>1. hits = <<>>
        BY <2>1, <2>5
      <3>2. hits \in Seq(Seq(Nat)) /\ DOMAIN hits = {}
        BY <3>1
      <3>3. ToSet(hits) = {}
        BY <3>2 DEF ToSet
      <3>4. IsInjective(hits)
        BY <3>2 DEF IsInjective
      <3> QED
        BY <1>1, <1>5, <2>2, <2>3, <2>5, <3>2, <3>3, <3>4 DEF Ranks
    <2> QED
      BY <2>4, <2>5
  <1>6. source.kind \in {"index", "ranked", "modules"}
    BY DEF IsSource
  <1> QED
    BY <1>2, <1>3, <1>4, <1>5, <1>6

\* The first elements of a sequence, and the first of those.
LEMMA FirstOf ==
  ASSUME NEW A, NEW s \in Seq(A), NEW m \in 0..Len(s)
  PROVE  /\ SubSeq(s, 1, m) \in Seq(A) /\ Len(SubSeq(s, 1, m)) = m
         /\ \A i \in 1..m : SubSeq(s, 1, m)[i] = s[i]
  <1>1. Len(s) \in Nat /\ m \in Nat
    BY LenProperties
  <1>2. \A i \in 1..m : s[i] \in A
    BY <1>1, ElementOfSeq
  <1>3. /\ SubSeq(s, 1, m) \in Seq(A)
        /\ Len(SubSeq(s, 1, m)) = IF 1 <= m THEN m - 1 + 1 ELSE 0
        /\ \A i \in 1..(m - 1 + 1) : SubSeq(s, 1, m)[i] = s[1 + i - 1]
    BY <1>1, <1>2, SubSeqProperties
  <1>4. m - 1 + 1 = m /\ \A i \in 1..m : 1 + i - 1 = i
    BY <1>1
  <1> QED
    BY <1>1, <1>3, <1>4

\* The first of the first are the first.
LEMMA FirstOfFirst ==
  ASSUME NEW A, NEW s \in Seq(A), NEW m \in 0..Len(s), NEW k \in 0..m
  PROVE  SubSeq(SubSeq(s, 1, m), 1, k) = SubSeq(s, 1, k)
  <1>1. Len(s) \in Nat /\ m \in Nat /\ k \in 0..Len(s)
    BY LenProperties
  <1>2. PICK first_m : first_m = SubSeq(s, 1, m)
    OBVIOUS
  <1>3. first_m \in Seq(A) /\ Len(first_m) = m /\ \A i \in 1..m : first_m[i] = s[i]
    BY <1>2, FirstOf
  <1>4. PICK one : one = SubSeq(first_m, 1, k)
    OBVIOUS
  <1>5. one \in Seq(A) /\ Len(one) = k /\ \A i \in 1..k : one[i] = first_m[i]
    BY <1>3, <1>4, FirstOf
  <1>6. PICK two : two = SubSeq(s, 1, k)
    OBVIOUS
  <1>7. two \in Seq(A) /\ Len(two) = k /\ \A i \in 1..k : two[i] = s[i]
    BY <1>1, <1>6, FirstOf
  <1>8. \A i \in 1..k : one[i] = two[i]
    BY <1>1, <1>3, <1>5, <1>7
  <1>9. one = two
    BY <1>5, <1>7, <1>8, SeqEqual
  <1> QED
    BY <1>2, <1>4, <1>6, <1>9

\* The smaller of two numbers is at most each of them.
LEMMA SmallerOf ==
  ASSUME NEW a \in Nat, NEW b \in Nat
  PROVE  /\ Min({a, b}) = IF a <= b THEN a ELSE b
         /\ Min({a, b}) \in 0..b /\ Min({a, b}) <= a
  <1>1. a \in Int /\ b \in Int
    OBVIOUS
  <1>2. Min({a, b}) = IF a <= b THEN a ELSE b
    BY <1>1, LargerOf
  <1> QED
    BY <1>2

\* Whatever limit a registry is asked with, it answers with its first hits, and an index
\* with as many of them as were asked for.
LEMMA HitsAreFirst ==
  ASSUME NEW source, IsSource(source), NEW query \in Seq(Nat), NEW asked \in Nat \ {0}
  PROVE  \E m \in 0..Len(AllHits(source, query)) :
           /\ HitsFor(source, query, asked) = SubSeq(AllHits(source, query), 1, m)
           /\ source.kind = "index" => m = Min({asked, Len(AllHits(source, query))})
  <1>1. PICK hits : hits = AllHits(source, query)
    OBVIOUS
  <1>2. hits \in Seq(Seq(Nat)) /\ Len(hits) \in Nat
    BY <1>1, AllHitsAre, LenProperties DEF Ranks
  <1>3. PICK most \in 0..Len(hits) : most = Min({asked, Len(hits)})
    <2>1. asked \in Nat
      OBVIOUS
    <2> QED
      BY <1>2, <2>1, SmallerOf
  <1>4. CASE query = <<>>
    <2>1. hits = <<>> /\ HitsFor(source, query, asked) = <<>>
      BY <1>1, <1>4 DEF AllHits, HitsFor
    <2>2. Len(hits) = 0 /\ most = 0
      BY <1>3, <2>1
    <2>3. SubSeq(hits, 1, most) = <<>>
      <3>1. SubSeq(hits, 1, most) \in Seq(Seq(Nat)) /\ Len(SubSeq(hits, 1, most)) = 0
        BY <1>2, <2>2, FirstOf
      <3> QED
        BY <3>1, EmptySeq
    <2> QED
      BY <1>1, <1>3, <2>1, <2>3
  <1>5. CASE query # <<>> /\ source.kind # "ranked"
    <2>1. HitsFor(source, query, asked) = Take(hits, asked)
      BY <1>1, <1>5 DEF AllHits, HitsFor, ReadHits, IsSource
    <2>2. HitsFor(source, query, asked) = SubSeq(hits, 1, most)
      BY <1>3, <2>1, Zenon DEF Take
    <2> QED
      BY <1>1, <1>3, <2>2
  <1>6. CASE query # <<>> /\ source.kind = "ranked"
    <2>1. source.hits \in Seq(Seq(Nat)) /\ Len(source.hits) \in Nat
      BY <1>6, LenProperties DEF IsSource
    <2>2. hits = Without(source.hits, source.provided)
      BY <1>1, <1>6 DEF AllHits
    <2>3. PICK n : n = Min({Min({asked, AnswersMost}), Len(source.hits)})
      OBVIOUS
    <2>4. n \in 0..Len(source.hits)
      <3>1. AnswersMost \in Nat
        BY WantsAssumption
      <3>2. Min({asked, AnswersMost}) \in 0..AnswersMost
        BY <3>1, SmallerOf
      <3>3. PICK l \in Nat : l = Min({asked, AnswersMost})
        BY <3>1, <3>2
      <3>4. n = Min({l, Len(source.hits)})
        BY <2>3, <3>3, Zenon
      <3> QED
        BY <2>1, <3>3, <3>4, SmallerOf
    <2>5. HitsFor(source, query, asked)
            = Take(Without(SubSeq(source.hits, 1, n), source.provided), asked)
      BY <1>6, <2>3 DEF HitsFor, ReadHits, Take
    <2>6. PICK m \in 0..Len(hits) :
            Without(SubSeq(source.hits, 1, n), source.provided) = SubSeq(hits, 1, m)
      BY <2>1, <2>2, <2>4, WithoutOfFirst
    <2>7. m \in Nat /\ Len(SubSeq(hits, 1, m)) = m
      BY <1>2, <2>6, FirstOf
    <2>8. PICK k \in 0..m : k = Min({asked, m})
      <3>1. asked \in Nat
        OBVIOUS
      <3> QED
        BY <2>7, <3>1, SmallerOf
    <2>9. HitsFor(source, query, asked) = SubSeq(SubSeq(hits, 1, m), 1, k)
      BY <2>5, <2>6, <2>7, <2>8, Zenon DEF Take
    <2>10. HitsFor(source, query, asked) = SubSeq(hits, 1, k)
      BY <1>2, <2>8, <2>9, FirstOfFirst
    <2>11. k \in 0..Len(hits)
      BY <1>2, <2>6, <2>8
    <2> QED
      BY <1>1, <1>6, <2>10, <2>11
  <1> QED
    BY <1>4, <1>5, <1>6

Walking(g, source, query, wants) ==
  g = [s \in SUBSET DOMAIN wants |->
         IF s = {} THEN [seen |-> <<>>, cursor |-> 0, ended |-> FALSE]
         ELSE NextPage(source, query, g[s \ {Max(s)}], wants[Max(s)])]

\* A walk as the value of the fold it is.
LEMMA WalkIs ==
  ASSUME NEW source, NEW query, NEW wants
  PROVE  WalkOf(source, query, wants)
           = (CHOOSE g : Walking(g, source, query, wants))[DOMAIN wants]
  BY DEF WalkOf, FoldLeft, MapThenFoldSet, Walking

\* What holds before the first page, and after a page as soon as before it, holds of a walk.
LEMMA WalkStays ==
  ASSUME NEW source, NEW query, NEW wants, NEW n \in Nat, DOMAIN wants = 1..n,
         NEW A, [seen |-> <<>>, cursor |-> 0, ended |-> FALSE] \in A,
         \A i \in 1..n : \A walk \in A : NextPage(source, query, walk, wants[i]) \in A
  PROVE  WalkOf(source, query, wants) \in A
  <1> DEFINE base == [seen |-> <<>>, cursor |-> 0, ended |-> FALSE]
             step == [i \in 1..n |-> [a \in A |-> NextPage(source, query, a, wants[i])]]
  <1>1. Closed(n, A, step)
    BY DEF Closed
  <1>2. base \in A
    OBVIOUS
  <1>3. PICK g \in [SUBSET (1..n) -> A] : FoldingUpto(g, n, base, step)
    <2> HIDE DEF step, base
    <2> QED
      BY <1>1, <1>2, FoldUpto
  <1>4. Walking(g, source, query, wants)
    <2>1. ASSUME NEW s \in SUBSET (1..n)
          PROVE  g[s] = IF s = {} THEN base
                        ELSE NextPage(source, query, g[s \ {Max(s)}], wants[Max(s)])
      <3>1. CASE s = {}
        BY <1>3, <3>1 DEF FoldingUpto
      <3>2. CASE s # {}
        <4>1. Max(s) \in 1..n
          BY <3>2, MaxOfUpto
        <4>2. g[s \ {Max(s)}] \in A
          OBVIOUS
        <4>3. g[s] = step[Max(s)][g[s \ {Max(s)}]]
          BY <1>3, <3>2 DEF FoldingUpto
        <4> QED
          BY <3>2, <4>1, <4>2, <4>3
      <3> QED
        BY <3>1, <3>2
    <2> QED
      BY <2>1 DEF Walking
  <1> DEFINE h == CHOOSE f : Walking(f, source, query, wants)
  <1>5. Walking(h, source, query, wants)
    BY <1>4
  <1>6. WalkOf(source, query, wants) = h[1..n]
    BY WalkIs
  <1> HIDE DEF h
  <1>7. h[{}] = base
    BY <1>5 DEF Walking
  <1>8. ASSUME NEW s \in SUBSET (1..n), s # {}, h[s \ {Max(s)}] \in A
        PROVE  h[s] = step[Max(s)][h[s \ {Max(s)}]]
    <2>1. h[s] = NextPage(source, query, h[s \ {Max(s)}], wants[Max(s)])
      BY <1>5, <1>8 DEF Walking
    <2>2. Max(s) \in 1..n
      BY <1>8, MaxOfUpto
    <2> QED
      BY <1>8, <2>1, <2>2
  <1>9. Steps(h, n, A, base, step)
    <2> HIDE DEF step, base
    <2> QED
      BY <1>7, <1>8 DEF Steps
  <1>10. Arrived(h, n, A, base, step)
    <2> HIDE DEF step, base
    <2> QED
      BY <1>1, <1>2, <1>9, FoldReaches
  <1>11. h[1..n] \in A
    <2> HIDE DEF step, base
    <2>1. PICK e \in [0..n -> A] : e[n] = h[1..n]
      BY <1>10 DEF Arrived
    <2>2. n \in 0..n
      OBVIOUS
    <2> QED
      BY <2>1, <2>2
  <1> QED
    BY <1>6, <1>11

\* A walk has shown the first of all the hits, up to its cursor.
WalksOver(hits) ==
  {walk \in [seen : Seq(Seq(Nat)), cursor : 0..Len(hits), ended : BOOLEAN] :
     walk.seen = SubSeq(hits, 1, walk.cursor)}

\* Where it may go on to with one limit throughout, and where it ends.
Within(walk, most) == walk.cursor <= most /\ (walk.ended => walk.cursor >= most)

\* A page goes on from the cursor, whatever its limit, and no further than the hits go.
LEMMA ReachedIs ==
  ASSUME NEW at \in Nat, NEW want \in Nat \ {0}, NEW most \in Nat
  PROVE  LET reached == Max({at, Min({at + want, at + PageRoom, most})})
         IN  /\ reached \in Nat /\ at <= reached
             /\ reached <= most \/ reached = at
  <1>1. PICK room \in Nat : room = PageRoom
    BY WantsAssumption
  <1>2. PICK least : least = Min({at + want, at + room, most})
    OBVIOUS
  <1>3. \E m \in {at + want, at + room, most} : \A x \in {at + want, at + room, most} : m <= x
    <2>1. CASE at + want <= at + room /\ at + want <= most
      BY <2>1
    <2>2. CASE at + room <= at + want /\ at + room <= most
      BY <2>2
    <2>3. CASE most <= at + want /\ most <= at + room
      BY <2>3
    <2> QED
      BY <2>1, <2>2, <2>3
  <1>4. least \in {at + want, at + room, most} /\ \A x \in {at + want, at + room, most} : least <= x
    BY <1>2, <1>3, Zenon DEF Min
  <1>5. least \in Nat /\ least <= most
    BY <1>4
  <1>6. Max({at, least}) = IF at >= least THEN at ELSE least
    <2>1. at \in Int /\ least \in Int
      BY <1>5
    <2> QED
      BY <2>1, LargerOf
  <1> QED
    BY <1>1, <1>2, <1>5, <1>6

\* A page adds the next hits to what a walk has shown.
LEMMA PageGoesOn ==
  ASSUME NEW source, IsSource(source), NEW query \in Seq(Nat), NEW want \in Nat \ {0},
         NEW walk \in WalksOver(AllHits(source, query))
  PROVE  /\ NextPage(source, query, walk, want) \in WalksOver(AllHits(source, query))
         /\ \A most \in Nat : /\ Len(HitsFor(source, query, want)) = most
                              /\ Within(walk, most)
                              => Within(NextPage(source, query, walk, want), most)
  <1>1. PICK hits : hits = AllHits(source, query)
    OBVIOUS
  <1>2. hits \in Seq(Seq(Nat)) /\ Len(hits) \in Nat
    BY <1>1, AllHitsAre, LenProperties DEF Ranks
  <1>3. PICK m \in 0..Len(hits) : HitsFor(source, query, want) = SubSeq(hits, 1, m)
    BY <1>1, HitsAreFirst
  <1>4. PICK found : found = HitsFor(source, query, want)
    OBVIOUS
  <1>5. /\ found \in Seq(Seq(Nat)) /\ Len(found) = m /\ m \in Nat
        /\ \A i \in 1..m : found[i] = hits[i]
    BY <1>2, <1>3, <1>4, FirstOf
  <1>6. PICK at \in 0..Len(hits) : at = walk.cursor
    BY <1>1 DEF WalksOver
  <1>7. walk.seen = SubSeq(hits, 1, at) /\ walk.ended \in BOOLEAN
    BY <1>1, <1>6 DEF WalksOver
  <1>8. CASE walk.ended
    <2>1. NextPage(source, query, walk, want) = walk
      BY <1>8 DEF NextPage
    <2> QED
      BY <2>1
  <1>9. CASE ~walk.ended
    <2>1. PICK reached : reached = Max({at, Min({at + want, at + PageRoom, m})})
      OBVIOUS
    <2>2. reached \in Nat /\ at <= reached /\ (reached <= m \/ reached = at) /\ at \in Nat
      <3>1. at \in Nat /\ m \in Nat
        BY <1>2, <1>5
      <3>2. /\ Max({at, Min({at + want, at + PageRoom, m})}) \in Nat
            /\ at <= Max({at, Min({at + want, at + PageRoom, m})})
            /\ \/ Max({at, Min({at + want, at + PageRoom, m})}) <= m
               \/ Max({at, Min({at + want, at + PageRoom, m})}) = at
        BY <3>1, ReachedIs, Zenon
      <3> QED
        BY <2>1, <3>1, <3>2, Zenon
    <2>3. PICK page : page = SubSeq(found, at + 1, reached)
      OBVIOUS
    <2>4. NextPage(source, query, walk, want)
            = [seen |-> walk.seen \o page, cursor |-> reached, ended |-> reached >= m]
      BY <1>4, <1>5, <1>6, <1>9, <2>1, <2>3 DEF NextPage
    <2>5. reached \in 0..Len(hits)
      BY <1>2, <1>5, <2>2
    <2>6. \A i \in (at + 1)..reached : i \in 1..m
      BY <1>5, <2>2
    <2>7. /\ page \in Seq(Seq(Nat)) /\ Len(page) = reached - at
          /\ \A i \in 1..(reached - at) : page[i] = hits[at + i]
      <3>1. at + 1 \in Int /\ reached \in Int /\ \A i \in (at + 1)..reached : found[i] \in Seq(Nat)
        BY <1>5, <2>2, <2>6, ElementOfSeq
      <3>2. /\ page \in Seq(Seq(Nat))
            /\ Len(page) = IF at + 1 <= reached THEN reached - (at + 1) + 1 ELSE 0
            /\ \A i \in 1..(reached - (at + 1) + 1) : page[i] = found[at + 1 + i - 1]
        BY <2>3, <3>1, SubSeqProperties
      <3>3. Len(page) = reached - at
        BY <2>2, <3>2
      <3>4. ASSUME NEW i \in 1..(reached - at)
            PROVE  page[i] = hits[at + i]
        <4>1. i \in 1..(reached - (at + 1) + 1) /\ at + 1 + i - 1 = at + i /\ at + i \in (at + 1)..reached
          BY <2>2
        <4>2. page[i] = found[at + i]
          BY <3>2, <4>1
        <4>3. at + i \in 1..m
          BY <2>6, <4>1
        <4> QED
          BY <1>5, <4>2, <4>3
      <3> QED
        BY <3>2, <3>3, <3>4
    <2>8. PICK first_hits : first_hits = SubSeq(hits, 1, reached)
      OBVIOUS
    <2>9. /\ first_hits \in Seq(Seq(Nat)) /\ Len(first_hits) = reached
          /\ \A i \in 1..reached : first_hits[i] = hits[i]
      BY <1>2, <2>5, <2>8, FirstOf
    <2>10. PICK before : before = walk.seen
      OBVIOUS
    <2>11. before \in Seq(Seq(Nat)) /\ Len(before) = at /\ \A i \in 1..at : before[i] = hits[i]
      BY <1>2, <1>7, <2>10, FirstOf
    <2>12. PICK all : all = before \o page
      OBVIOUS
    <2>13. /\ all \in Seq(Seq(Nat)) /\ Len(all) = reached
           /\ \A i \in 1..reached : all[i] = IF i <= at THEN before[i] ELSE page[i - at]
      <3>1. /\ all \in Seq(Seq(Nat)) /\ Len(all) = Len(before) + Len(page)
            /\ \A i \in 1..Len(before) + Len(page) :
                 all[i] = IF i <= Len(before) THEN before[i] ELSE page[i - Len(before)]
        BY <2>7, <2>11, <2>12, ConcatProperties
      <3>2. Len(before) + Len(page) = reached
        BY <2>2, <2>7, <2>11
      <3> QED
        BY <2>11, <3>1, <3>2
    <2>14. ASSUME NEW i \in 1..reached
           PROVE  all[i] = first_hits[i]
      <3>1. CASE i <= at
        <4>1. i \in 1..at
          BY <3>1
        <4> QED
          BY <2>9, <2>11, <2>13, <3>1, <4>1
      <3>2. CASE ~(i <= at)
        <4>1. i - at \in 1..(reached - at) /\ at + (i - at) = i
          BY <2>2, <3>2
        <4>2. all[i] = page[i - at]
          BY <2>13, <3>2
        <4>3. page[i - at] = hits[at + (i - at)]
          BY <2>7, <4>1
        <4> QED
          BY <2>9, <4>1, <4>2, <4>3
      <3> QED
        BY <3>1, <3>2
    <2>15. all = first_hits
      BY <2>9, <2>13, <2>14, SeqEqual
    <2>16. NextPage(source, query, walk, want)
             = [seen |-> first_hits, cursor |-> reached, ended |-> reached >= m]
      BY <2>4, <2>10, <2>12, <2>15
    <2>17. PICK next : next = NextPage(source, query, walk, want)
      OBVIOUS
    <2>18. next = [seen |-> first_hits, cursor |-> reached, ended |-> reached >= m]
      BY <2>16, <2>17
    <2>19. next \in WalksOver(hits)
      BY <2>5, <2>8, <2>9, <2>18 DEF WalksOver
    <2>20. ASSUME Within(walk, m)
           PROVE  Within(next, m)
      <3>1. at <= m
        BY <1>6, <2>20 DEF Within
      <3>2. reached <= m
        BY <2>2, <3>1
      <3>3. next.cursor = reached /\ next.ended = (reached >= m)
        BY <2>18
      <3> QED
        BY <3>2, <3>3 DEF Within
    <2> QED
      BY <1>1, <1>4, <1>5, <2>17, <2>19, <2>20
  <1> QED
    BY <1>7, <1>8, <1>9

\* Before its first page a walk has shown nothing.
LEMMA BeforeTheFirstPage ==
  ASSUME NEW hits \in Seq(Seq(Nat)), NEW most \in Nat
  PROVE  LET walk == [seen |-> <<>>, cursor |-> 0, ended |-> FALSE]
         IN  walk \in WalksOver(hits) /\ Within(walk, most)
  <1>1. Len(hits) \in Nat /\ 0 \in 0..Len(hits)
    BY LenProperties
  <1>2. SubSeq(hits, 1, 0) \in Seq(Seq(Nat)) /\ Len(SubSeq(hits, 1, 0)) = 0
    BY <1>1, FirstOf
  <1>3. SubSeq(hits, 1, 0) = <<>>
    BY <1>2, EmptySeq
  <1>4. <<>> \in Seq(Seq(Nat))
    OBVIOUS
  <1>5. PICK walk : walk = [seen |-> <<>>, cursor |-> 0, ended |-> FALSE]
    OBVIOUS
  <1>6. walk \in [seen : Seq(Seq(Nat)), cursor : 0..Len(hits), ended : BOOLEAN]
    BY <1>1, <1>4, <1>5
  <1>7. walk.seen = SubSeq(hits, 1, walk.cursor)
    BY <1>3, <1>5
  <1>8. walk \in WalksOver(hits)
    BY <1>6, <1>7 DEF WalksOver
  <1>9. Within(walk, most)
    BY <1>5 DEF Within
  <1> QED
    BY <1>5, <1>8, <1>9

\* The first of all hits are the best, and none of those left is better than one of them.
LEMMA FirstAreBest ==
  ASSUME NEW source, NEW query, NEW hits, Ranks(hits, source, query), NEW at \in 0..Len(hits)
  PROVE  BestFirst(source, query, SubSeq(hits, 1, at))
  <1>1. PICK n \in Nat : n = Len(hits) /\ DOMAIN hits = 1..n /\ at \in 0..n
    BY LenProperties DEF Ranks
  <1>2. PICK shown : shown = SubSeq(hits, 1, at)
    OBVIOUS
  <1>3. /\ shown \in Seq(Seq(Nat)) /\ Len(shown) = at /\ DOMAIN shown = 1..at
        /\ \A i \in 1..at : shown[i] = hits[i] /\ i \in 1..n
    <2>1. shown \in Seq(Seq(Nat)) /\ Len(shown) = at /\ \A i \in 1..at : shown[i] = hits[i]
      BY <1>2, FirstOf DEF Ranks
    <2>2. DOMAIN shown = 1..at
      BY <2>1, LenProperties
    <2> QED
      BY <1>1, <2>1, <2>2
  <1>4. \A i, j \in 1..n : hits[i] = hits[j] => i = j
    BY <1>1 DEF Ranks, IsInjective
  <1>5. \A i, j \in 1..n : i < j => ~IsBetter(source, hits[j], hits[i], query)
    BY <1>1, Zenon DEF Ranks
  <1>6. Matches(source, query) = {hits[i] : i \in 1..n} /\ ToSet(shown) = {hits[i] : i \in 1..at}
    <2>1. Matches(source, query) = {hits[i] : i \in 1..n}
      BY <1>1 DEF Ranks, ToSet
    <2>2. ToSet(shown) = {shown[i] : i \in 1..at}
      BY <1>3 DEF ToSet
    <2> QED
      BY <1>3, <2>1, <2>2
  <1>7. IsInjective(shown)
    BY <1>3, <1>4 DEF IsInjective
  <1>8. ToSet(shown) \subseteq Matches(source, query)
    BY <1>3, <1>6
  <1>9. \A i, j \in DOMAIN shown : i < j => ~IsBetter(source, shown[j], shown[i], query)
    BY <1>3, <1>5
  <1>10. ASSUME NEW hit \in ToSet(shown), NEW other \in Matches(source, query) \ ToSet(shown)
         PROVE  ~IsBetter(source, other, hit, query)
    <2>1. PICK i \in 1..at : hit = hits[i]
      BY <1>6
    <2>2. PICK j \in 1..n : other = hits[j]
      BY <1>6
    <2>3. j \notin 1..at
      BY <1>6, <2>2
    <2>4. i \in 1..n /\ i < j
      BY <1>1, <2>3
    <2> QED
      BY <1>5, <2>1, <2>2, <2>4
  <1> QED
    BY <1>2, <1>7, <1>8, <1>9, <1>10 DEF BestFirst

\* search_packages, for every registry, query and limits in turn.
LEMMA WalkIsBest ==
  ASSUME NEW source, IsSource(source), NEW query \in Seq(Nat), NEW wants \in WantsInTurn
  PROVE  /\ BestFirst(source, query, WalkOf(source, query, wants).seen)
         /\ Cardinality(ToSet(wants)) = 1 =>
              GivesAll(source, query, WalkOf(source, query, wants), wants[1])
  <1>1. PICK hits : hits = AllHits(source, query)
    OBVIOUS
  <1>2. /\ Ranks(hits, source, query) /\ hits \in Seq(Seq(Nat)) /\ Len(hits) \in Nat
        /\ source.kind = "index" => Len(hits) = Cardinality(Matches(source, query))
    BY <1>1, AllHitsAre, LenProperties DEF Ranks
  <1>3. PICK n \in Nat : /\ n = Len(wants) /\ DOMAIN wants = 1..n
                         /\ \A i \in 1..n : wants[i] \in Nat \ {0}
    <2>1. wants \in Seq(Wants)
      BY QuestionsAssumption
    <2>2. \A i \in 1..Len(wants) : wants[i] \in Wants
      BY <2>1, ElementOfSeq
    <2> QED
      BY <2>1, <2>2, LenProperties, WantsAssumption
  <1>4. PICK walk : walk = WalkOf(source, query, wants)
    OBVIOUS
  <1>5. walk \in WalksOver(hits)
    <2>1. \A i \in 1..n : \A before \in WalksOver(hits) :
            NextPage(source, query, before, wants[i]) \in WalksOver(hits)
      BY <1>1, <1>3, PageGoesOn
    <2>2. [seen |-> <<>>, cursor |-> 0, ended |-> FALSE] \in WalksOver(hits)
      BY <1>2, BeforeTheFirstPage
    <2> QED
      BY <1>3, <1>4, <2>1, <2>2, WalkStays
  <1>6. walk.seen = SubSeq(hits, 1, walk.cursor) /\ walk.cursor \in 0..Len(hits)
    BY <1>5 DEF WalksOver
  <1>7. BestFirst(source, query, walk.seen)
    BY <1>2, <1>6, FirstAreBest
  <1>8. ASSUME Cardinality(ToSet(wants)) = 1, walk.ended, source.kind = "index"
        PROVE  Len(walk.seen) = Min({wants[1], Cardinality(Matches(source, query))})
    <2>1. ToSet(wants) = {wants[i] : i \in 1..n}
      BY <1>3 DEF ToSet
    <2>2. PICK want : ToSet(wants) = {want}
      <3>1. IsFiniteSet(ToSet(wants))
        <4>1. IsFiniteSet(1..n)
          BY <1>3, FS_Interval
        <4>2. wants \in Surjection(1..n, ToSet(wants))
          <5>1. wants \in [1..n -> ToSet(wants)]
            <6>1. wants \in Seq(Wants)
              BY QuestionsAssumption
            <6>2. wants = [i \in 1..n |-> wants[i]]
              BY <1>3, <6>1
            <6> QED
              BY <2>1, <6>2
          <5> QED
            BY <2>1, <5>1 DEF Surjection
        <4> QED
          BY <4>1, <4>2, FS_Surjection
      <3> QED
        BY <1>8, <3>1, FS_Singleton
    <2>3. n # 0 /\ \A i \in 1..n : wants[i] = want
      <3>1. \A i \in 1..n : wants[i] \in {want}
        BY <2>1, <2>2
      <3>2. \E i \in 1..n : wants[i] = want
        BY <2>1, <2>2
      <3> QED
        BY <1>3, <3>1, <3>2
    <2>4. 1 \in 1..n /\ wants[1] = want /\ want \in Nat \ {0}
      BY <1>3, <2>3
    <2>5. PICK most \in Nat : most = Len(HitsFor(source, query, want)) /\ most = Min({want, Len(hits)})
      <3>1. PICK m \in 0..Len(hits) : /\ HitsFor(source, query, want) = SubSeq(hits, 1, m)
                                      /\ m = Min({want, Len(hits)})
        BY <1>1, <1>8, <2>4, HitsAreFirst
      <3>2. Len(HitsFor(source, query, want)) = m
        BY <1>2, <3>1, FirstOf
      <3> QED
        BY <1>2, <3>1, <3>2
    <2> DEFINE A == {before \in WalksOver(hits) : Within(before, most)}
    <2>6. \A i \in 1..n : \A before \in A : NextPage(source, query, before, wants[i]) \in A
      BY <1>1, <2>3, <2>4, <2>5, PageGoesOn
    <2>7. [seen |-> <<>>, cursor |-> 0, ended |-> FALSE] \in A
      BY <1>2, BeforeTheFirstPage
    <2>8. walk \in A
      <3> HIDE DEF A
      <3> QED
        BY <1>3, <1>4, <2>6, <2>7, WalkStays
    <2>9. walk.cursor = most
      <3>1. walk.cursor <= most /\ walk.cursor >= most
        BY <1>8, <2>8 DEF Within
      <3> QED
        BY <1>2, <1>6, <3>1
    <2>10. Len(walk.seen) = walk.cursor
      BY <1>2, <1>6, FirstOf
    <2> QED
      BY <1>2, <1>8, <2>4, <2>5, <2>9, <2>10
  <1> QED
    BY <1>4, <1>7, <1>8 DEF GivesAll

------------------------------------------------------------------------------
(***************************************************************************)
(* Versions: the order, which is strict and total by place where dates and *)
(* versions leave something equal; Packagist's releases, entry by entry.   *)
(***************************************************************************)
\* What the order reads of a version.
Comparable(registry, v) ==
  /\ v.date \in Dates \cup {None}
  /\ registry = "go" => v.spelling.core \in Nat /\ v.spelling.pre \in Nat

\* Of two versions at most one is the newer, and a version that is neither older nor newer
\* than two others sets nothing between these.
LEMMA GoNewerWeakly ==
  ASSUME NEW a, NEW b, NEW c,
         {a.core, a.pre, b.core, b.pre, c.core, c.pre} \subseteq Nat
  PROVE  /\ ~(GoNewer(a, b) /\ GoNewer(b, a))
         /\ GoNewer(a, c) => GoNewer(a, b) \/ GoNewer(b, c)
  BY DEF GoNewer

\* The same of the order by dates and, for Go, by versions.
LEMMA BeforeWeakly ==
  ASSUME NEW registry, NEW a, NEW b, NEW c,
         Comparable(registry, a), Comparable(registry, b), Comparable(registry, c)
  PROVE  /\ ~(ComesBefore(registry, a, b) /\ ComesBefore(registry, b, a))
         /\ ComesBefore(registry, a, c) => ComesBefore(registry, a, b) \/ ComesBefore(registry, b, c)
  <1>1. /\ a.date # None => a.date \in Int
        /\ b.date # None => b.date \in Int
        /\ c.date # None => c.date \in Int
    <2>1. Dates \subseteq Int
      BY DatesAssumption
    <2>2. a.date \in Dates \cup {None} /\ b.date \in Dates \cup {None} /\ c.date \in Dates \cup {None}
      BY DEF Comparable
    <2> QED
      BY <2>1, <2>2
  <1>2. registry = "go" =>
          /\ ~(GoNewer(a.spelling, b.spelling) /\ GoNewer(b.spelling, a.spelling))
          /\ GoNewer(a.spelling, c.spelling) =>
               GoNewer(a.spelling, b.spelling) \/ GoNewer(b.spelling, c.spelling)
    BY GoNewerWeakly DEF Comparable
  <1>3. ~(ComesBefore(registry, a, b) /\ ComesBefore(registry, b, a))
    BY <1>1, <1>2 DEF ComesBefore
  <1>4. ASSUME ComesBefore(registry, a, c)
        PROVE  ComesBefore(registry, a, b) \/ ComesBefore(registry, b, c)
    <2>1. CASE a.date = c.date /\ a.date = b.date
      BY <1>1, <1>2, <1>4, <2>1 DEF ComesBefore
    <2>2. CASE ~(a.date = c.date /\ a.date = b.date)
      BY <1>1, <1>4, <2>2 DEF ComesBefore
    <2> QED
      BY <2>1, <2>2
  <1> QED
    BY <1>3, <1>4

\* Which place comes before which.
Precedence(registry, versions, n) ==
  {p \in (1..n) \X (1..n) : SortsBefore(registry, versions, p[1], p[2])}

\* By place, one of any two versions comes first.
LEMMA PlacesAreOrdered ==
  ASSUME NEW registry, NEW versions, NEW n \in Nat,
         \A i \in 1..n : Comparable(registry, versions[i])
  PROVE  StrictlyOrders(Precedence(registry, versions, n), 1..n)
  <1> DEFINE C(i, j) == ComesBefore(registry, versions[i], versions[j])
             P(i, j) == <<i, j>> \in Precedence(registry, versions, n)
  <1>1. \A i, j \in 1..n : P(i, j) <=> C(i, j) \/ (~C(j, i) /\ i < j)
    BY DEF Precedence, SortsBefore
  <1>2. \A i, j, k \in 1..n : ~(C(i, j) /\ C(j, i)) /\ (C(i, k) => C(i, j) \/ C(j, k))
    BY BeforeWeakly
  <1> HIDE DEF C, P
  <1>3. \A i \in 1..n : ~P(i, i)
    BY <1>1, <1>2
  <1>4. \A i, j, k \in 1..n : P(i, j) /\ P(j, k) => P(i, k)
    BY <1>1, <1>2
  <1>5. \A i, j \in 1..n : i # j => P(i, j) \/ P(j, i)
    BY <1>1, <1>2
  <1> QED
    BY <1>3, <1>4, <1>5, Zenon DEF StrictlyOrders, P

\* The places of a sorted list, in turn.
Ordering(f, registry, versions, n) ==
  /\ f \in [1..n -> 1..n]
  /\ \A i \in 1..n : \E k \in 1..n : f[k] = i
  /\ \A j, k \in 1..n : j < k => SortsBefore(registry, versions, f[j], f[k])
  /\ \A j, k \in 1..n : f[j] = f[k] => j = k
  /\ Sorted(registry, versions) = [k \in 1..n |-> versions[f[k]]]

\* sort_by leaves every place once, in turn.
LEMMA SortedIs ==
  ASSUME NEW registry, NEW versions, NEW n \in Nat, Len(versions) = n,
         \A i \in 1..n : Comparable(registry, versions[i])
  PROVE  \E f : Ordering(f, registry, versions, n)
  <1> DEFINE R == Precedence(registry, versions, n)
             S == 1..n
             at(k) == CHOOSE x \in S : Cardinality({y \in S : SortsBefore(registry, versions, y, x)}) = k - 1
             f == [k \in 1..Cardinality(S) |-> at(k)]
  <1>1. IsFiniteSet(S) /\ Cardinality(S) = n
    <2>1. IsFiniteSet(1..n) /\ Cardinality(1..n) = IF 1 > n THEN 0 ELSE n - 1 + 1
      BY FS_Interval
    <2> QED
      BY <2>1
  <1>2. Arranged(1..n, LAMBDA i, j : SortsBefore(registry, versions, i, j)) = f
    BY DEF Arranged
  <1>3. \A x \in S : {y \in S : SortsBefore(registry, versions, y, x)} = Below(R, S, x)
    BY DEF Below, Precedence
  <1>4. \A k : at(k) = CHOOSE x \in S : Cardinality(Below(R, S, x)) = k - 1
    BY <1>3
  <1>5. StrictlyOrders(R, S)
    BY PlacesAreOrdered
  <1>6. InTurn(f, R, S)
    <2>1. \A k \in 1..Cardinality(S) : f[k] = CHOOSE x \in S : Cardinality(Below(R, S, x)) = k - 1
      <3> HIDE DEF R, S
      <3> QED
        BY <1>4, Zenon
    <2>2. f = [k \in 1..Cardinality(S) |-> f[k]]
      <3> HIDE DEF at, S
      <3> QED
        OBVIOUS
    <2> HIDE DEF f, R, S
    <2> QED
      BY <1>1, <1>5, <2>1, <2>2, ArrangedIs
  <1>7. PICK places : places = f
    OBVIOUS
  <1>8. Sorted(registry, versions) = [k \in 1..n |-> versions[places[k]]]
    <2>1. places = Arranged(1..n, LAMBDA i, j : SortsBefore(registry, versions, i, j))
      <3> HIDE DEF f
      <3> QED
        BY <1>2, <1>7
    <2> HIDE DEF f
    <2> QED
      BY <2>1 DEF Sorted
  <1>9. /\ places \in [1..n -> S]
        /\ \A i \in S : \E k \in 1..n : places[k] = i
        /\ \A j, k \in 1..n : <<places[j], places[k]>> \in R <=> j < k
    <2> HIDE DEF f, R, S
    <2> QED
      BY <1>1, <1>6, <1>7, Zenon DEF InTurn
  <1>10. \A j, k \in 1..n : j < k => SortsBefore(registry, versions, places[j], places[k])
    BY <1>9 DEF Precedence
  <1>11. ASSUME NEW j \in 1..n, NEW k \in 1..n, places[j] = places[k]
         PROVE  j = k
    <2>1. <<places[j], places[k]>> \notin R /\ <<places[k], places[j]>> \notin R
      <3>1. \A x \in S : <<x, x>> \notin R
        BY <1>5 DEF StrictlyOrders
      <3> HIDE DEF R, S
      <3> QED
        BY <1>9, <1>11, <3>1
    <2>2. ~(j < k) /\ ~(k < j)
      <3> HIDE DEF R
      <3> QED
        BY <1>9, <2>1
    <2> QED
      BY <2>2
  <1> HIDE DEF f
  <1> QED
    BY <1>8, <1>9, <1>10, <1>11 DEF Ordering

\* What is sorted is what there was, as often.
AsOften(sorted, versions, n) ==
  \A v : Cardinality({k \in 1..n : sorted[k] = v}) = Cardinality({i \in 1..n : versions[i] = v})

\* What is sorted has everything as often as it was there.
LEMMA SortedAsOften ==
  ASSUME NEW registry, NEW versions, NEW n \in Nat, NEW f, Ordering(f, registry, versions, n)
  PROVE  AsOften(Sorted(registry, versions), versions, n)
  <1> SUFFICES ASSUME NEW v
               PROVE  Cardinality({k \in 1..n : Sorted(registry, versions)[k] = v})
                        = Cardinality({i \in 1..n : versions[i] = v})
    BY Zenon DEF AsOften
  <1> DEFINE K == {k \in 1..n : Sorted(registry, versions)[k] = v}
             I == {i \in 1..n : versions[i] = v}
             g == [k \in K |-> f[k]]
  <1>1. K = {k \in 1..n : versions[f[k]] = v}
    BY DEF Ordering
  <1>2. IsFiniteSet(K)
    <2>1. IsFiniteSet(1..n)
      BY FS_Interval
    <2> QED
      BY <2>1, FS_Subset
  <1>3. g \in [K -> I]
    BY <1>1 DEF Ordering
  <1>4. \A a, b \in K : g[a] = g[b] => a = b
    BY DEF Ordering
  <1>5. \A i \in I : \E k \in K : g[k] = i
    BY <1>1 DEF Ordering
  <1>6. g \in Bijection(K, I)
    <2> HIDE DEF g, K, I
    <2> QED
      BY <1>3, <1>4, <1>5, Zenon DEF Bijection, Injection, Surjection, IsInjective
  <1>7. ExistsBijection(K, I)
    <2> HIDE DEF g, K, I
    <2> QED
      BY <1>6, Zenon DEF ExistsBijection
  <1> HIDE DEF K, I
  <1>8. Cardinality(K) = Cardinality(I)
    BY <1>2, <1>7, FS_Bijection
  <1> QED
    BY <1>8, Zenon DEF K, I

\* What is sorted has what there was as often, in order, and what is equal in this order
\* is as it was in.
KeepsOrder(registry, versions, all, n) ==
  /\ Len(all) = n /\ AsOften(all, versions, n)
  /\ \A i, j \in 1..n : i < j =>
       /\ all[j].date # None => all[i].date # None /\ all[i].date >= all[j].date
       /\ all[i].date = all[j].date /\ registry = "go" => ~GoNewer(all[j].spelling, all[i].spelling)
       /\ all[i].date = all[j].date /\ registry # "go" =>
            \E k, m \in 1..n : k < m /\ versions[k] = all[i] /\ versions[m] = all[j]

\* What is sorted is what there was, in order.
LEMMA SortedInOrder ==
  ASSUME NEW registry, NEW versions, NEW n \in Nat, Len(versions) = n,
         \A i \in 1..n : Comparable(registry, versions[i])
  PROVE  /\ KeepsOrder(registry, versions, Sorted(registry, versions), n)
         /\ Sorted(registry, versions) = <<>> <=> n = 0
  <1>1. PICK f : Ordering(f, registry, versions, n)
    BY SortedIs
  <1>2. PICK all : all = Sorted(registry, versions)
    OBVIOUS
  <1>3. all = [k \in 1..n |-> versions[f[k]]] /\ \A k \in 1..n : f[k] \in 1..n
    BY <1>1, <1>2 DEF Ordering
  <1>4. Len(all) = n
    BY <1>3
  <1>5. AsOften(all, versions, n)
    BY <1>1, <1>2, SortedAsOften
  <1>6. ASSUME NEW i \in 1..n, NEW j \in 1..n, i < j
        PROVE  /\ all[j].date # None => all[i].date # None /\ all[i].date >= all[j].date
               /\ all[i].date = all[j].date /\ registry = "go" => ~GoNewer(all[j].spelling, all[i].spelling)
               /\ all[i].date = all[j].date /\ registry # "go" =>
                    \E k, m \in 1..n : k < m /\ versions[k] = all[i] /\ versions[m] = all[j]
    <2>1. PICK a, b : a = all[i] /\ b = all[j]
      OBVIOUS
    <2>2. PICK k \in 1..n, m \in 1..n :
            k = f[i] /\ m = f[j] /\ a = versions[k] /\ b = versions[m]
      BY <1>3, <2>1
    <2>3. SortsBefore(registry, versions, k, m)
      BY <1>1, <1>6, <2>2 DEF Ordering
    <2>4. Comparable(registry, a) /\ Comparable(registry, b)
      BY <2>2
    <2>5. /\ ComesBefore(registry, a, b) \/ (~ComesBefore(registry, b, a) /\ k < m)
          /\ ~ComesBefore(registry, b, a)
      <3>1. ~(ComesBefore(registry, a, b) /\ ComesBefore(registry, b, a))
        BY <2>4, BeforeWeakly
      <3> QED
        BY <2>2, <2>3, <3>1 DEF SortsBefore
    <2>6. a.date \in Nat \cup {None} /\ b.date \in Nat \cup {None}
      BY <2>4, DatesAssumption DEF Comparable
    <2>7. b.date # None => a.date # None /\ ~(b.date > a.date)
      BY <2>5 DEF ComesBefore
    <2>8. b.date # None => a.date # None /\ a.date >= b.date
      <3>1. (b.date # None => b.date \in Int) /\ (a.date # None => a.date \in Int)
        BY <2>6
      <3> QED
        BY <2>7, <3>1
    <2>9. a.date = b.date /\ registry = "go" => ~GoNewer(b.spelling, a.spelling)
      BY <2>5 DEF ComesBefore
    <2>10. a.date = b.date /\ registry # "go" => k < m
      <3>1. a.date = b.date /\ registry # "go" => ~ComesBefore(registry, a, b)
        BY <2>6 DEF ComesBefore
      <3> QED
        BY <2>5, <3>1
    <2> QED
      BY <2>1, <2>2, <2>8, <2>9, <2>10
  <1>7. KeepsOrder(registry, versions, all, n)
    BY <1>4, <1>5, <1>6, Zenon DEF KeepsOrder
  <1>8. all = <<>> <=> n = 0
    <2>1. n = 0 => DOMAIN all = {}
      BY <1>3
    <2>2. all = <<>> => Len(all) = 0
      OBVIOUS
    <2> QED
      BY <1>3, <1>4, <2>1, <2>2
  <1> QED
    BY <1>2, <1>7, <1>8, Zenon

\* A list that is read as it stands is in order as soon as it is sorted.
LEMMA InOrderAsItStands ==
  ASSUME NEW registry, registry # "npm", NEW named, NEW all, NEW n \in Nat, Len(named) = n,
         KeepsOrder(registry, named, all, n)
  PROVE  InOrder(registry, named, all)
  <1>1. /\ Len(all) = Len(named)
        /\ \A v \in ToSet(named) \cup ToSet(all) :
             Cardinality({i \in 1..Len(all) : all[i] = v})
               = Cardinality({i \in 1..Len(named) : named[i] = v})
    BY Zenon DEF KeepsOrder, AsOften
  <1> DEFINE D(l, m) ==
               \A i, j \in 1..l : i < j =>
                 /\ all[j].date # None => all[i].date # None /\ all[i].date >= all[j].date
                 /\ all[i].date = all[j].date /\ registry = "go" => ~GoNewer(all[j].spelling, all[i].spelling)
                 /\ all[i].date = all[j].date /\ registry = "npm" =>
                      all[i].spelling.text < all[j].spelling.text
                 /\ all[i].date = all[j].date /\ registry \notin {"npm", "go"} =>
                      \E a, b \in 1..m : a < b /\ named[a] = all[i] /\ named[b] = all[j]
  <1>2. D(n, n)
    <2>1. registry \notin {"npm", "go"} => registry # "go"
      OBVIOUS
    <2> QED
      BY <2>1, Zenon DEF KeepsOrder
  <1>3. D(Len(all), Len(named))
    <2>1. Len(all) = n
      BY DEF KeepsOrder
    <2> HIDE DEF D
    <2> QED
      BY <1>2, <2>1, Zenon
  <1> QED
    BY <1>1, <1>3, Zenon DEF InOrder

\* npm's versions in the order of their texts.
TextOrder(S) == {p \in S \X S : p[1].spelling.text < p[2].spelling.text}

InTextOrder(listed, entries, n) ==
  /\ Len(listed) = n /\ AsOften(listed, entries, n)
  /\ ToSet(listed) = ToSet(entries)
  /\ \A k \in 1..n : listed[k].date \in Dates \cup {None}
  /\ \A j, k \in 1..n : j < k => listed[j].spelling.text < listed[k].spelling.text

\* A map of versions has each version once, in the order of the texts.
LEMMA ByTextIs ==
  ASSUME NEW entries \in DatedEntries, EachOnce(entries),
         NEW n \in Nat, Len(entries) = n
  PROVE  InTextOrder(ByText(entries), entries, n)
  <1> DEFINE S == ToSet(entries)
             R == TextOrder(S)
             g == [i \in 1..n |-> entries[i]]
  <1>1. \A i \in 1..n : entries[i] \in [spelling : Spellings, date : Dates \cup {None}]
    BY ElementOfSeq DEF DatedEntries
  <1>2. \A i, j \in 1..n : entries[i] = entries[j] => i = j
    BY DEF EachOnce
  <1>3. S = {entries[i] : i \in 1..n}
    BY DEF ToSet, DatedEntries
  <1>4. IsFiniteSet(S) /\ Cardinality(S) = n
    <2>1. g \in Bijection(1..n, S)
      <3>1. g \in [1..n -> S] /\ (\A i, j \in 1..n : g[i] = g[j] => i = j)
            /\ \A x \in S : \E i \in 1..n : g[i] = x
        BY <1>2, <1>3
      <3> HIDE DEF g, S
      <3> QED
        BY <3>1, Zenon DEF Bijection, Injection, Surjection, IsInjective
    <2>2. ExistsBijection(1..n, S)
      <3> HIDE DEF g, S
      <3> QED
        BY <2>1, Zenon DEF ExistsBijection
    <2>3. IsFiniteSet(1..n) /\ Cardinality(1..n) = n
      <3>1. IsFiniteSet(1..n) /\ Cardinality(1..n) = IF 1 > n THEN 0 ELSE n - 1 + 1
        BY FS_Interval
      <3> QED
        BY <3>1
    <2> HIDE DEF S
    <2> QED
      BY <2>2, <2>3, FS_Bijection
  <1>5. /\ \A x \in S : x.spelling.text \in Nat /\ x.date \in Dates \cup {None}
        /\ \A x, y \in S : x.spelling.text = y.spelling.text => x = y
    <2>1. ASSUME NEW i \in 1..n, NEW j \in 1..n, entries[i].spelling.text = entries[j].spelling.text
          PROVE  entries[i] = entries[j]
      <3>1. entries[i].spelling \in Spellings /\ entries[j].spelling \in Spellings
        BY <1>1
      <3>2. entries[i].spelling = entries[j].spelling
        BY <2>1, <3>1, SpellingsAssumption
      <3> QED
        BY <3>2 DEF EachOnce
    <2>2. ASSUME NEW i \in 1..n
          PROVE  entries[i].spelling.text \in Nat /\ entries[i].date \in Dates \cup {None}
      <3>1. entries[i].spelling \in Spellings /\ entries[i].date \in Dates \cup {None}
        BY <1>1
      <3> QED
        BY <3>1, SpellingsAssumption
    <2> QED
      BY <1>3, <2>1, <2>2
  <1> HIDE DEF S
  <1>6. StrictlyOrders(R, S)
    BY <1>5 DEF StrictlyOrders, TextOrder
  <1>7. PICK listed : listed = ByText(entries)
    OBVIOUS
  <1>8. listed = [k \in 1..Cardinality(S) |->
                   CHOOSE x \in S : Cardinality({y \in S : y.spelling.text < x.spelling.text}) = k - 1]
    BY <1>7 DEF ByText, Arranged, S
  <1>9. InTurn(listed, R, S)
    <2>1. \A x \in S : {y \in S : y.spelling.text < x.spelling.text} = Below(R, S, x)
      BY DEF TextOrder, Below
    <2>2. \A k \in 1..Cardinality(S) :
            listed[k] = CHOOSE x \in S : Cardinality(Below(R, S, x)) = k - 1
      <3> TAKE k \in 1..Cardinality(S)
      <3>1. listed[k] = CHOOSE x \in S :
                          Cardinality({y \in S : y.spelling.text < x.spelling.text}) = k - 1
        BY <1>8, Zenon
      <3>2. \A x \in S : Cardinality({y \in S : y.spelling.text < x.spelling.text}) = k - 1
                         <=> Cardinality(Below(R, S, x)) = k - 1
        BY <2>1, Zenon
      <3> HIDE DEF R
      <3> QED
        BY <3>1, <3>2
    <2>3. listed = [k \in 1..Cardinality(S) |-> listed[k]]
      <3> DEFINE at(k) == CHOOSE x \in S :
                            Cardinality({y \in S : y.spelling.text < x.spelling.text}) = k - 1
      <3>1. listed = [k \in 1..Cardinality(S) |-> at(k)]
        BY <1>8
      <3> HIDE DEF at, R
      <3> QED
        BY <3>1
    <2> HIDE DEF R
    <2> QED
      BY <1>4, <1>6, <2>2, <2>3, ArrangedIs
  <1>10. /\ listed \in [1..n -> S]
         /\ \A x \in S : \E k \in 1..n : listed[k] = x
         /\ \A j, k \in 1..n : <<listed[j], listed[k]>> \in R <=> j < k
    <2> HIDE DEF R
    <2> QED
      BY <1>4, <1>9, Zenon DEF InTurn
  <1>11. \A j, k \in 1..n : listed[j].spelling.text < listed[k].spelling.text <=> j < k
    BY <1>10 DEF TextOrder
  <1>12. Len(listed) = n /\ ToSet(listed) = S
    BY <1>10 DEF ToSet
  <1>13. AsOften(listed, entries, n)
    <2> SUFFICES ASSUME NEW v
                 PROVE  Cardinality({k \in 1..n : listed[k] = v})
                          = Cardinality({i \in 1..n : entries[i] = v})
      BY Zenon DEF AsOften
    <2>1. CASE v \in S
      <3>1. PICK k \in 1..n : listed[k] = v
        BY <1>10, <2>1
      <3>2. PICK i \in 1..n : entries[i] = v
        BY <1>3, <2>1
      <3>3. {j \in 1..n : listed[j] = v} = {k}
        <4>1. ASSUME NEW j \in 1..n, listed[j] = v
              PROVE  j = k
          <5>1. ~(j < k) /\ ~(k < j)
            BY <1>5, <1>11, <2>1, <3>1, <4>1
          <5> QED
            BY <5>1
        <4> QED
          BY <3>1, <4>1
      <3>4. {j \in 1..n : entries[j] = v} = {i}
        BY <1>2, <3>2
      <3> QED
        BY <3>3, <3>4, FS_Singleton
    <2>2. CASE v \notin S
      <3>1. {k \in 1..n : listed[k] = v} = {}
        BY <1>10, <2>2
      <3>2. {i \in 1..n : entries[i] = v} = {}
        BY <1>3, <2>2
      <3> QED
        BY <3>1, <3>2
    <2> QED
      BY <2>1, <2>2
  <1>14. \A k \in 1..n : listed[k].date \in Dates \cup {None}
    BY <1>5, <1>10
  <1> QED
    BY <1>7, <1>11, <1>12, <1>13, <1>14, Zenon DEF InTextOrder, S

\* npm's, sorted: what no date tells apart is in the order of the texts.
LEMMA InOrderByText ==
  ASSUME NEW entries, NEW listed, NEW all, NEW n \in Nat, Len(entries) = n,
         InTextOrder(listed, entries, n), KeepsOrder("npm", listed, all, n)
  PROVE  InOrder("npm", entries, all)
  <1>1. /\ Len(all) = Len(entries)
        /\ \A v \in ToSet(entries) \cup ToSet(all) :
             Cardinality({i \in 1..Len(all) : all[i] = v})
               = Cardinality({i \in 1..Len(entries) : entries[i] = v})
    <2>1. \A v : Cardinality({i \in 1..n : all[i] = v}) = Cardinality({i \in 1..n : listed[i] = v})
      BY Zenon DEF KeepsOrder, AsOften
    <2>2. \A v : Cardinality({i \in 1..n : listed[i] = v}) = Cardinality({i \in 1..n : entries[i] = v})
      BY Zenon DEF InTextOrder, AsOften
    <2>3. \A v : Cardinality({i \in 1..n : all[i] = v}) = Cardinality({i \in 1..n : entries[i] = v})
      <3> TAKE v
      <3>1. Cardinality({i \in 1..n : all[i] = v}) = Cardinality({i \in 1..n : listed[i] = v})
        BY <2>1, Zenon
      <3>2. Cardinality({i \in 1..n : listed[i] = v}) = Cardinality({i \in 1..n : entries[i] = v})
        BY <2>2, Zenon
      <3> QED
        BY <3>1, <3>2, Zenon
    <2>4. Len(all) = n
      BY Zenon DEF KeepsOrder
    <2> QED
      BY <2>3, <2>4, Zenon
  <1> DEFINE D(l) ==
               \A i, j \in 1..l : i < j =>
                 /\ all[j].date # None => all[i].date # None /\ all[i].date >= all[j].date
                 /\ all[i].date = all[j].date => all[i].spelling.text < all[j].spelling.text
  <1>2. D(n)
    <2> SUFFICES ASSUME NEW i \in 1..n, NEW j \in 1..n, i < j
                 PROVE  /\ all[j].date # None => all[i].date # None /\ all[i].date >= all[j].date
                        /\ all[i].date = all[j].date => all[i].spelling.text < all[j].spelling.text
      OBVIOUS
    <2>1. all[j].date # None => all[i].date # None /\ all[i].date >= all[j].date
      BY Zenon DEF KeepsOrder
    <2>2. ASSUME all[i].date = all[j].date
          PROVE  all[i].spelling.text < all[j].spelling.text
      <3>1. "npm" # "go"
        OBVIOUS
      <3>2. PICK k \in 1..n, m \in 1..n : k < m /\ listed[k] = all[i] /\ listed[m] = all[j]
        BY <2>2, <3>1, Zenon DEF KeepsOrder
      <3>3. listed[k].spelling.text < listed[m].spelling.text
        BY <3>2, Zenon DEF InTextOrder
      <3> QED
        BY <3>2, <3>3, Zenon
    <2> QED
      BY <2>1, <2>2
  <1>3. D(Len(all))
    <2>1. Len(all) = n
      BY DEF KeepsOrder
    <2> HIDE DEF D
    <2> QED
      BY <1>2, <2>1, Zenon
  <1> HIDE DEF D
  <1>4. \A i, j \in 1..Len(all) : i < j =>
          /\ all[j].date # None => all[i].date # None /\ all[i].date >= all[j].date
          /\ all[i].date = all[j].date => all[i].spelling.text < all[j].spelling.text
    BY <1>3, Zenon DEF D
  <1>5. "npm" # "go" /\ "npm" \in {"npm", "go"}
    OBVIOUS
  <1> QED
    BY <1>1, <1>4, <1>5, Zenon DEF InOrder

\* What is served of a package by Packagist, and what is made of it entry by entry.
Said == Spellings \cup Dates \cup {None, Unset}

EntriesServed ==
  Seq([version : Spellings \cup {None, Unset}, normalized : Spellings \cup {None, Unset},
       time : Dates \cup {None, Unset}])

Shapes == [version : Said, normalized : Said, time : Said]
VersionsRead == Seq([version : [spelling : Said, date : Said], preview : BOOLEAN])
ReadSoFar == [last : Shapes, found : VersionsRead]

NothingSoFar == [last |-> NoRelease, found |-> <<>>]

\* An entry adds at most what it comes to.
LEMMA ReadEntryTyped ==
  ASSUME NEW read \in ReadSoFar, NEW entry \in Shapes, NEW minified
  PROVE  ReadEntry(read, entry, minified) \in ReadSoFar
  <1>1. PICK release : release = Absorb(IF minified THEN read.last ELSE NoRelease, entry)
    OBVIOUS
  <1>2. PICK before : before = IF minified THEN read.last ELSE NoRelease
    OBVIOUS
  <1>3. before \in Shapes
    BY <1>2 DEF ReadSoFar, Shapes, NoRelease, Said
  <1>4. release = [field \in {"version", "normalized", "time"} |-> CarryForward(before[field], entry[field])]
    BY <1>1, <1>2 DEF Absorb, NoRelease
  <1>5. \A a, b \in Said : CarryForward(a, b) \in Said
    BY DEF CarryForward, Said
  <1>6. release \in Shapes
    BY <1>3, <1>4, <1>5 DEF Shapes
  <1>7. AsVersion(release) \in [version : [spelling : Said, date : Said], preview : BOOLEAN]
    BY <1>6 DEF AsVersion, Version, IsPrerelease, Shapes
  <1>8. read.found \in VersionsRead
    BY DEF ReadSoFar
  <1>9. Append(read.found, AsVersion(release)) \in VersionsRead
    BY <1>7, <1>8, AppendProperties DEF VersionsRead
  <1>10. ReadEntry(read, entry, minified)
           = [last |-> release, found |-> IF release.version = None THEN read.found
                                          ELSE Append(read.found, AsVersion(release))]
    BY <1>1 DEF ReadEntry
  <1> QED
    BY <1>6, <1>8, <1>9, <1>10 DEF ReadSoFar

Absorbing(g, entries, minified) ==
  g = [s \in SUBSET DOMAIN entries |->
         IF s = {} THEN NothingSoFar
         ELSE ReadEntry(g[s \ {Max(s)}], entries[Max(s)], minified)]

\* Releases as the value of the fold it is.
LEMMA ReleasesAre ==
  ASSUME NEW entries, NEW minified
  PROVE  Releases(entries, minified)
           = (CHOOSE g : Absorbing(g, entries, minified))[DOMAIN entries].found
  BY DEF Releases, FoldLeft, MapThenFoldSet, Absorbing, NothingSoFar

\* What the first entries come to, entry by entry.
ReadUpto(e, entries, minified, n) ==
  /\ e \in [0..n -> ReadSoFar]
  /\ e[0] = NothingSoFar
  /\ \A k \in 1..n : e[k] = ReadEntry(e[k - 1], entries[k], minified)
  /\ Releases(entries, minified) = e[n].found

\* What the first entries come to exists, entry by entry.
LEMMA ReadUptoExists ==
  ASSUME NEW entries, NEW n \in Nat, DOMAIN entries = 1..n,
         \A i \in 1..n : entries[i] \in Shapes, NEW minified
  PROVE  \E e : ReadUpto(e, entries, minified, n)
  <1> DEFINE A == ReadSoFar
             step == [i \in 1..n |-> [a \in A |-> ReadEntry(a, entries[i], minified)]]
  <1>1. \A i \in 1..n, a \in A : ReadEntry(a, entries[i], minified) \in A
    BY ReadEntryTyped
  <1>2. Closed(n, A, step)
    BY <1>1 DEF Closed
  <1>3. NothingSoFar \in A
    BY DEF NothingSoFar, NoRelease, ReadSoFar, Shapes, Said, VersionsRead
  <1>4. PICK g \in [SUBSET (1..n) -> A] : FoldingUpto(g, n, NothingSoFar, step)
    <2> HIDE DEF step, A
    <2> QED
      BY <1>2, <1>3, FoldUpto
  <1>5. Absorbing(g, entries, minified)
    <2>1. ASSUME NEW s \in SUBSET (1..n)
          PROVE  g[s] = IF s = {} THEN NothingSoFar
                        ELSE ReadEntry(g[s \ {Max(s)}], entries[Max(s)], minified)
      <3>1. CASE s = {}
        BY <1>4, <3>1 DEF FoldingUpto
      <3>2. CASE s # {}
        <4>1. Max(s) \in 1..n
          BY <3>2, MaxOfUpto
        <4>2. g[s \ {Max(s)}] \in A
          OBVIOUS
        <4>3. g[s] = step[Max(s)][g[s \ {Max(s)}]]
          BY <1>4, <3>2 DEF FoldingUpto
        <4> QED
          BY <3>2, <4>1, <4>2, <4>3
      <3> QED
        BY <3>1, <3>2
    <2> QED
      BY <2>1 DEF Absorbing
  <1> DEFINE h == CHOOSE f : Absorbing(f, entries, minified)
  <1>6. Absorbing(h, entries, minified)
    BY <1>5
  <1>7. Releases(entries, minified) = h[1..n].found
    BY ReleasesAre
  <1> HIDE DEF h
  <1>8. h[{}] = NothingSoFar
    BY <1>6 DEF Absorbing
  <1>9. ASSUME NEW s \in SUBSET (1..n), s # {}, h[s \ {Max(s)}] \in A
        PROVE  h[s] = step[Max(s)][h[s \ {Max(s)}]]
    <2>1. h[s] = ReadEntry(h[s \ {Max(s)}], entries[Max(s)], minified)
      BY <1>6, <1>9 DEF Absorbing
    <2>2. Max(s) \in 1..n
      BY <1>9, MaxOfUpto
    <2> QED
      BY <1>9, <2>1, <2>2
  <1>10. Steps(h, n, A, NothingSoFar, step)
    <2> HIDE DEF step, A
    <2> QED
      BY <1>8, <1>9 DEF Steps
  <1>11. PICK e \in [0..n -> A] : Reaches(e, n, NothingSoFar, step) /\ e[n] = h[1..n]
    <2> HIDE DEF step, A
    <2>1. Arrived(h, n, A, NothingSoFar, step)
      BY <1>2, <1>3, <1>10, FoldReaches
    <2> QED
      BY <2>1 DEF Arrived
  <1>12. ASSUME NEW k \in 1..n
         PROVE  e[k] = ReadEntry(e[k - 1], entries[k], minified)
    <2>1. e[k] = step[k][e[k - 1]] /\ e[k - 1] \in A
      <3>1. k - 1 \in 0..n
        OBVIOUS
      <3> HIDE DEF step, A
      <3> QED
        BY <1>11, <3>1 DEF Reaches
    <2> QED
      BY <2>1
  <1>13. e[0] = NothingSoFar /\ Releases(entries, minified) = e[n].found
    BY <1>7, <1>11 DEF Reaches
  <1> QED
    BY <1>11, <1>12, <1>13 DEF ReadUpto

\* A release after k entries, from the last that said anything of each field.
ReleaseAt(entries, minified, k) ==
  [field \in {"version", "normalized", "time"} |-> FieldAt(entries, minified, field, k)]

\* A field moves on with each entry as CarryForward has it.
LEMMA FieldMovesOn ==
  ASSUME NEW entries, NEW k \in Nat \ {0}, NEW field
  PROVE  /\ FieldAt(entries, TRUE, field, k)
              = CarryForward(FieldAt(entries, TRUE, field, k - 1), entries[k][field])
         /\ FieldAt(entries, FALSE, field, k) = CarryForward(None, entries[k][field])
         /\ FieldAt(entries, TRUE, field, 0) = None
  <1> DEFINE said(m) == {j \in 1..m : entries[j][field] # None}
             told(s) == IF s = {} \/ entries[Max(s)][field] = Unset THEN None ELSE entries[Max(s)][field]
  <1>1. \A m : FieldAt(entries, TRUE, field, m) = told(said(m))
    BY DEF FieldAt
  <1>2. FieldAt(entries, FALSE, field, k) = told({j \in {k} : entries[j][field] # None})
    <2>1. k..k = {k}
      OBVIOUS
    <2> QED
      BY <2>1 DEF FieldAt
  <1>3. said(0) = {}
    OBVIOUS
  <1>4. told({}) = None
    OBVIOUS
  <1>5. CASE entries[k][field] = None
    <2>1. said(k) = said(k - 1) /\ {j \in {k} : entries[j][field] # None} = {}
      BY <1>5
    <2>2. CarryForward(told(said(k - 1)), entries[k][field]) = told(said(k - 1))
      BY <1>5, DatesAssumption DEF CarryForward
    <2>3. CarryForward(None, entries[k][field]) = None
      BY <1>5 DEF CarryForward
    <2> HIDE DEF said, told
    <2> QED
      BY <1>1, <1>2, <1>3, <1>4, <2>1, <2>2, <2>3
  <1>6. CASE entries[k][field] # None
    <2>1. k \in said(k) /\ said(k) \in SUBSET (1..k) /\ {j \in {k} : entries[j][field] # None} = {k}
      BY <1>6
    <2>2. Max(said(k)) = k
      <3>1. Max(said(k)) \in said(k) /\ k <= Max(said(k))
        <4> HIDE DEF said
        <4> QED
          BY <2>1, MaxOfUpto
      <3>2. Max(said(k)) \in 1..k
        BY <2>1, <3>1
      <3> QED
        BY <3>1, <3>2
    <2>3. Max({k}) = k
      <3>1. {k} \in SUBSET (1..k) /\ {k} # {}
        OBVIOUS
      <3>2. Max({k}) \in {k}
        BY <3>1, MaxOfUpto
      <3> QED
        BY <3>2
    <2>4. told(said(k)) = IF entries[k][field] = Unset THEN None ELSE entries[k][field]
      <3> HIDE DEF said
      <3> QED
        BY <2>1, <2>2
    <2>5. told({k}) = IF entries[k][field] = Unset THEN None ELSE entries[k][field]
      BY <2>3
    <2>6. \A was : CarryForward(was, entries[k][field])
                     = IF entries[k][field] = Unset THEN None ELSE entries[k][field]
      BY <1>6 DEF CarryForward
    <2> HIDE DEF said, told
    <2> QED
      BY <1>1, <1>2, <1>3, <1>4, <2>1, <2>4, <2>5, <2>6
  <1> QED
    BY <1>5, <1>6

\* The last place picked comes last.
LEMMA PickedOneMore ==
  ASSUME NEW A, NEW s \in Seq(A), NEW k \in 1..Len(s), NEW places \in SUBSET (1..(k - 1))
  PROVE  Picked(s, places \cup {k}) = Append(Picked(s, places), s[k])
  <1>1. PICK n \in Nat : n = Len(s) /\ k \in 1..n
    BY LenProperties
  <1>2. PICK more : more = places \cup {k}
    OBVIOUS
  <1>3. places \in SUBSET (1..Len(s)) /\ more \in SUBSET (1..Len(s)) /\ more \in SUBSET (1..k)
    BY <1>1, <1>2
  <1>4. PICK p : p = Picked(s, places)
    OBVIOUS
  <1>5. PICK q : q = Picked(s, more)
    OBVIOUS
  <1>6. p \in Seq(A) /\ PicksAt(p, s, places) /\ q \in Seq(A) /\ PicksAt(q, s, more)
    BY <1>3, <1>4, <1>5, PickedIs
  <1>7. PICK c \in Nat : c = Cardinality(places) /\ Cardinality(more) = c + 1
    <2>1. IsFiniteSet(1..k)
      BY FS_Interval
    <2>2. IsFiniteSet(places)
      <3>1. places \subseteq 1..k
        BY <1>1
      <3> QED
        BY <2>1, <3>1, FS_Subset
    <2>3. k \notin places
      BY <1>1
    <2> QED
      BY <1>2, <2>2, <2>3, FS_AddElement, FS_CardinalityType
  <1>8. Len(p) = c /\ Len(q) = c + 1
    BY <1>6, <1>7 DEF PicksAt
  <1>9. ASSUME NEW i \in 1..c
        PROVE  q[i] = p[i]
    <2>1. PICK j \in places : Upto(places, j) = i /\ p[i] = s[j]
      BY <1>6, <1>8 DEF PicksAt
    <2>2. more \cap 1..j = places \cap 1..j
      BY <1>1, <1>2, <2>1
    <2>3. Upto(more, j) = i /\ j \in more
      BY <1>2, <2>1, <2>2 DEF Upto
    <2> QED
      BY <1>6, <2>1, <2>3 DEF PicksAt
  <1>10. q[c + 1] = s[k]
    <2>1. more \cap 1..k = more
      BY <1>3
    <2>2. Upto(more, k) = c + 1 /\ k \in more
      BY <1>2, <1>7, <2>1 DEF Upto
    <2> QED
      BY <1>6, <2>2 DEF PicksAt
  <1>11. PICK r : r = Append(p, s[k])
    OBVIOUS
  <1>12. r \in Seq(A) /\ Len(r) = c + 1 /\ (\A i \in 1..c : r[i] = p[i]) /\ r[c + 1] = s[k]
    <2>1. s[k] \in A
      BY ElementOfSeq
    <2> QED
      BY <1>6, <1>8, <1>11, <2>1, AppendProperties
  <1>13. \A i \in 1..(c + 1) : q[i] = r[i]
    BY <1>9, <1>10, <1>12
  <1>14. q = r
    BY <1>6, <1>8, <1>12, <1>13, SeqEqual
  <1> QED
    BY <1>2, <1>4, <1>5, <1>11, <1>14

\* An entry's release is what is said at it.
LEMMA ReleaseMovesOn ==
  ASSUME NEW entries, NEW minified \in BOOLEAN, NEW k \in Nat \ {0},
         NEW last, last = IF k = 1 THEN NoRelease ELSE ReleaseAt(entries, minified, k - 1)
  PROVE  Absorb(IF minified THEN last ELSE NoRelease, entries[k]) = ReleaseAt(entries, minified, k)
  <1> DEFINE F == {"version", "normalized", "time"}
  <1>1. DOMAIN NoRelease = F /\ \A field \in F : NoRelease[field] = None
    BY DEF NoRelease
  <1>2. PICK was : was = IF minified THEN last ELSE NoRelease
    OBVIOUS
  <1>3. ASSUME NEW field \in F
        PROVE  CarryForward(was[field], entries[k][field]) = FieldAt(entries, minified, field, k)
    <2>0. /\ FieldAt(entries, TRUE, field, k)
                = CarryForward(FieldAt(entries, TRUE, field, k - 1), entries[k][field])
          /\ FieldAt(entries, FALSE, field, k) = CarryForward(None, entries[k][field])
          /\ FieldAt(entries, TRUE, field, 0) = None
      BY FieldMovesOn
    <2>1. CASE minified = TRUE
      <3>1. was[field] = FieldAt(entries, TRUE, field, k - 1)
        <4>1. CASE k = 1
          <5>1. was[field] = None /\ k - 1 = 0
            BY <1>1, <1>2, <2>1, <4>1
          <5> QED
            BY <2>0, <5>1, Zenon
        <4>2. CASE k # 1
          <5>1. was = ReleaseAt(entries, TRUE, k - 1)
            BY <1>2, <2>1, <4>2
          <5> QED
            BY <5>1 DEF ReleaseAt
        <4> QED
          BY <4>1, <4>2
      <3> QED
        BY <2>0, <2>1, <3>1, Zenon
    <2>2. CASE minified = FALSE
      <3>1. was[field] = None
        BY <1>1, <1>2, <2>2
      <3> QED
        BY <2>0, <2>2, <3>1, Zenon
    <2> QED
      BY <2>1, <2>2
  <1>4. Absorb(was, entries[k]) = [field \in F |-> CarryForward(was[field], entries[k][field])]
    BY <1>1 DEF Absorb
  <1>5. Absorb(was, entries[k]) = ReleaseAt(entries, minified, k)
    BY <1>3, <1>4 DEF ReleaseAt
  <1> QED
    BY <1>2, <1>5

\* What is said of a field is of its kind.
LEMMA FieldTyped ==
  ASSUME NEW entries, NEW n \in Nat, NEW minified \in BOOLEAN, NEW k \in 1..n, NEW field,
         NEW S, \A i \in 1..n : entries[i][field] \in S \cup {None, Unset}
  PROVE  FieldAt(entries, minified, field, k) \in S \cup {None}
  <1> DEFINE said == {j \in (IF minified THEN 1 ELSE k)..k : entries[j][field] # None}
  <1>1. said \in SUBSET (1..n)
    BY DEF said
  <1>2. FieldAt(entries, minified, field, k)
          = IF said = {} \/ entries[Max(said)][field] = Unset THEN None ELSE entries[Max(said)][field]
    BY DEF FieldAt
  <1>3. said # {} => Max(said) \in 1..n
    <2> HIDE DEF said
    <2> QED
      BY <1>1, MaxOfUpto
  <1> HIDE DEF said
  <1> QED
    BY <1>2, <1>3

\* The releases there are, where their versions are.
AllReleases(entries, minified, n) == [j \in 1..n |-> AsVersion(ReleaseAt(entries, minified, j))]
ListedUpto(entries, minified, k) == {j \in 1..k : ReleaseAt(entries, minified, j).version # None}

\* packagist_versions finds the releases of the entries with a version.
LEMMA ReleasesArePicked ==
  ASSUME NEW entries, NEW n \in Nat, DOMAIN entries = 1..n,
         \A i \in 1..n : entries[i] \in Shapes, NEW minified \in BOOLEAN
  PROVE  Releases(entries, minified)
           = Picked(AllReleases(entries, minified, n), ListedUpto(entries, minified, n))
  <1>1. PICK e : ReadUpto(e, entries, minified, n)
    BY ReadUptoExists
  <1>2. PICK all : all = AllReleases(entries, minified, n)
    OBVIOUS
  <1>3. PICK R : R = {all[j] : j \in 1..n}
    OBVIOUS
  <1>4. all \in Seq(R) /\ Len(all) = n /\ \A j \in 1..n : all[j] = AsVersion(ReleaseAt(entries, minified, j))
    BY <1>2, <1>3 DEF AllReleases
  <1> DEFINE Q == {k \in Nat : k <= n =>
                     /\ e[k].found = Picked(all, ListedUpto(entries, minified, k))
                     /\ e[k].last = IF k = 0 THEN NoRelease ELSE ReleaseAt(entries, minified, k)}
  <1>5. 0 \in Q
    <2>1. ListedUpto(entries, minified, 0) = {}
      BY DEF ListedUpto
    <2>2. Picked(all, {}) = <<>>
      <3>1. {} \in SUBSET (1..Len(all)) /\ Cardinality({}) = 0
        BY FS_EmptySet
      <3>2. Picked(all, {}) \in Seq(R) /\ Len(Picked(all, {})) = 0
        BY <1>4, <3>1, PickedIs DEF PicksAt
      <3> QED
        BY <3>2, EmptySeq
    <2>3. e[0] = NothingSoFar
      BY <1>1 DEF ReadUpto
    <2>4. e[0].found = <<>> /\ e[0].last = NoRelease
      BY <2>3 DEF NothingSoFar
    <2> QED
      BY <2>1, <2>2, <2>4
  <1>6. ASSUME NEW m \in Nat, m \in Q
        PROVE  m + 1 \in Q
    <2>1. SUFFICES ASSUME m + 1 <= n
                   PROVE  /\ e[m + 1].found = Picked(all, ListedUpto(entries, minified, m + 1))
                          /\ e[m + 1].last = ReleaseAt(entries, minified, m + 1)
      OBVIOUS
    <2>2. PICK k \in 1..n : k = m + 1 /\ m = k - 1 /\ k \in Nat \ {0}
      BY <2>1
    <2>3. /\ e[m].found = Picked(all, ListedUpto(entries, minified, m))
          /\ e[m].last = IF k = 1 THEN NoRelease ELSE ReleaseAt(entries, minified, k - 1)
      BY <1>6, <2>1, <2>2
    <2> HIDE DEF Q
    <2>4. e[k] = ReadEntry(e[m], entries[k], minified)
      BY <1>1, <2>2 DEF ReadUpto
    <2>5. PICK release : release = ReleaseAt(entries, minified, k)
      OBVIOUS
    <2>6. Absorb(IF minified THEN e[m].last ELSE NoRelease, entries[k]) = release
      BY <2>2, <2>3, <2>5, ReleaseMovesOn
    <2>7. e[k] = [last |-> release, found |-> IF release.version = None THEN e[m].found
                                              ELSE Append(e[m].found, AsVersion(release))]
      BY <2>4, <2>6 DEF ReadEntry
    <2>8. CASE release.version = None
      <3>1. ListedUpto(entries, minified, k) = ListedUpto(entries, minified, m)
        BY <2>2, <2>5, <2>8 DEF ListedUpto
      <3> QED
        BY <2>2, <2>3, <2>5, <2>7, <2>8, <3>1
    <2>9. CASE release.version # None
      <3>1. PICK before : before = ListedUpto(entries, minified, m)
        OBVIOUS
      <3>2. ListedUpto(entries, minified, k) = before \cup {k} /\ before \in SUBSET (1..(k - 1))
        BY <2>2, <2>5, <2>9, <3>1 DEF ListedUpto
      <3>3. k \in 1..Len(all)
        BY <1>4
      <3>4. Picked(all, before \cup {k}) = Append(Picked(all, before), all[k])
        BY <1>4, <3>2, <3>3, PickedOneMore
      <3>5. all[k] = AsVersion(release)
        BY <1>4, <2>5
      <3>6. e[k].found = Append(e[m].found, AsVersion(release)) /\ e[k].last = release
        BY <2>7, <2>9
      <3> QED
        BY <2>2, <2>3, <2>5, <3>1, <3>2, <3>4, <3>5, <3>6
    <2> QED
      BY <2>8, <2>9
  <1>7. n \in Q
    <2> HIDE DEF Q
    <2> QED
      BY <1>5, <1>6, NatInduct
  <1> QED
    BY <1>1, <1>2, <1>7 DEF ReadUpto

\* Packagist's list is what its document names.
LEMMA ComposerListed ==
  ASSUME NEW document \in Served("composer")
  PROVE  Listed("composer", document) = Named("composer", document)
  <1>1. PICK entries, minified : entries = document.entries /\ minified = document.minified
    OBVIOUS
  <1>2. minified \in BOOLEAN /\ entries \in EntriesServed
    BY <1>1 DEF Served, EntriesServed
  <1>3. PICK n \in Nat : n = Len(entries) /\ DOMAIN entries = 1..n
    BY <1>2, LenProperties DEF EntriesServed
  <1>4. \A i \in 1..n : entries[i] \in Shapes
    <2>1. \A i \in 1..n : entries[i] \in [version : Spellings \cup {None, Unset},
                                          normalized : Spellings \cup {None, Unset},
                                          time : Dates \cup {None, Unset}]
      BY <1>2, <1>3, ElementOfSeq DEF EntriesServed
    <2> QED
      BY <2>1 DEF Shapes, Said
  <1>5. PICK all : all = AllReleases(entries, minified, n)
    OBVIOUS
  <1>6. PICK places : places = ListedUpto(entries, minified, n)
    OBVIOUS
  <1>7. PICK releases : releases = Releases(entries, minified)
    OBVIOUS
  <1>8. releases = Picked(all, places)
    BY <1>2, <1>3, <1>4, <1>5, <1>6, <1>7, ReleasesArePicked
  <1>9. PICK R : R = {all[j] : j \in 1..n}
    OBVIOUS
  <1>10. all \in Seq(R) /\ Len(all) = n /\ \A j \in 1..n : all[j] = AsVersion(ReleaseAt(entries, minified, j))
    BY <1>5, <1>9 DEF AllReleases
  <1>11. places \in SUBSET (1..n)
    BY <1>6 DEF ListedUpto
  <1>12. releases \in Seq(R) /\ PicksAt(releases, all, places)
    BY <1>8, <1>10, <1>11, PickedIs
  <1> DEFINE versions == [k \in 1..n |-> Version(FieldAt(entries, minified, "version", k),
                                                FieldAt(entries, minified, "time", k))]
  <1>13. \A k \in 1..n : versions[k] = all[k].version
    BY <1>10 DEF ReleaseAt, AsVersion
  <1>14. \A k \in 1..n : versions[k].spelling = ReleaseAt(entries, minified, k).version
    BY DEF ReleaseAt, Version
  <1>15. {k \in 1..Len(versions) : versions[k].spelling # None} = places
    <2>1. Len(versions) = n
      OBVIOUS
    <2> HIDE DEF versions
    <2> QED
      BY <1>6, <1>14, <2>1 DEF ListedUpto
  <1>16. PICK V : V = {versions[k] : k \in 1..n}
    OBVIOUS
  <1>17. versions \in Seq(V) /\ Len(versions) = n
    BY <1>16
  <1>18. PICK named : named = Named("composer", document)
    OBVIOUS
  <1>19. named = Picked(versions, places)
    <2>1. named = Picked(versions, {k \in 1..Len(versions) : versions[k].spelling # None})
      BY <1>1, <1>3, <1>18 DEF Named, SaidAt
    <2> HIDE DEF versions
    <2> QED
      BY <1>15, <2>1
  <1> HIDE DEF versions
  <1>20. named \in Seq(V) /\ PicksAt(named, versions, places)
    BY <1>11, <1>17, <1>19, PickedIs
  <1>21. PICK listed : listed = Listed("composer", document)
    OBVIOUS
  <1>22. listed = [i \in 1..Len(releases) |-> releases[i].version]
    BY <1>1, <1>7, <1>21 DEF Listed
  <1>23. PICK c \in Nat : c = Len(releases) /\ c = Len(named)
    <2>1. Len(releases) \in Nat
      BY <1>12, LenProperties
    <2> QED
      BY <1>12, <1>20, <2>1 DEF PicksAt
  <1>24. \A i \in 1..c : listed[i] = named[i]
    <2>1. ASSUME NEW i \in 1..c
          PROVE  listed[i] = named[i]
      <3>1. listed[i] = releases[i].version
        BY <1>22, <1>23
      <3>2. PICK j \in places : Upto(places, j) = i /\ releases[i] = all[j]
        BY <1>12, <1>23 DEF PicksAt
      <3>3. named[i] = versions[j]
        BY <1>20, <3>2 DEF PicksAt
      <3> QED
        BY <1>11, <1>13, <3>1, <3>2, <3>3
    <2> QED
      BY <2>1
  <1>25. \A i \in 1..c : named[i] \in V
    BY <1>20, <1>23, ElementOfSeq
  <1>26. listed \in Seq(V) /\ Len(listed) = c
    BY <1>22, <1>23, <1>24, <1>25
  <1>27. listed = named
    BY <1>20, <1>23, <1>24, <1>26, SeqEqual
  <1> QED
    BY <1>18, <1>21, <1>27

\* What is listed, whatever registry serves it, is what is named, and can be ordered.
Orderable(registry, versions) ==
  /\ Len(versions) \in Nat
  /\ versions = <<>> <=> Len(versions) = 0
  /\ \A i \in 1..Len(versions) : Comparable(registry, versions[i])

\* Of every registry but npm, read_versions lists what the document names as it stands.
LEMMA NamedAre ==
  ASSUME NEW registry \in Registries, registry # "npm", NEW document \in Served(registry)
  PROVE  /\ Listed(registry, document) = Named(registry, document)
         /\ Orderable(registry, Named(registry, document))
  <1>1. CASE registry = "dated"
    <2>1. PICK entries : entries = document.entries
      OBVIOUS
    <2>2. Listed(registry, document) = entries /\ Named(registry, document) = entries
      BY <1>1, <2>1 DEF Listed, Named
    <2>3. entries \in Seq([spelling : Spellings, date : Dates \cup {None}])
      BY <1>1, <2>1 DEF Served, DatedEntries
    <2>4. Len(entries) \in Nat /\ \A i \in 1..Len(entries) : entries[i].date \in Dates \cup {None}
      <3>1. \A i \in 1..Len(entries) : entries[i] \in [spelling : Spellings, date : Dates \cup {None}]
        BY <2>3, ElementOfSeq
      <3> QED
        BY <2>3, <3>1, LenProperties
    <2>5. entries = <<>> <=> Len(entries) = 0
      BY <2>3, EmptySeq
    <2> QED
      BY <1>1, <2>2, <2>4, <2>5 DEF Orderable, Comparable
  <1>2. CASE registry = "go"
    <2>1. PICK entries : entries = document.entries
      OBVIOUS
    <2>2. PICK versions : versions = [i \in 1..Len(entries) |-> Version(entries[i].spelling, None)]
      OBVIOUS
    <2>3. Listed(registry, document) = versions /\ Named(registry, document) = versions
      BY <1>2, <2>1, <2>2 DEF Listed, Named
    <2>4. entries \in Seq([spelling : Spellings, date : {None}])
      BY <1>2, <2>1 DEF Served
    <2>5. PICK n \in Nat : n = Len(entries) /\ \A i \in 1..n : entries[i].spelling \in Spellings
      <3>1. \A i \in 1..Len(entries) : entries[i] \in [spelling : Spellings, date : {None}]
        BY <2>4, ElementOfSeq
      <3> QED
        BY <2>4, <3>1, LenProperties
    <2>6. /\ Len(versions) = n
          /\ \A i \in 1..n : versions[i].spelling \in Spellings /\ versions[i].date = None
      BY <2>2, <2>5 DEF Version
    <2>7. versions \in Seq([spelling : Spellings, date : {None}])
      BY <2>2, <2>5 DEF Version
    <2>8. versions = <<>> <=> Len(versions) = 0
      BY <2>7, EmptySeq
    <2>9. \A i \in 1..n : Comparable(registry, versions[i])
      BY <2>6, SpellingsAssumption DEF Comparable
    <2> QED
      BY <2>3, <2>6, <2>8, <2>9 DEF Orderable
  <1>3. CASE registry = "composer"
    <2>1. Listed(registry, document) = Named(registry, document)
      BY <1>3, ComposerListed
    <2>2. PICK entries, minified : entries = document.entries /\ minified = document.minified
      OBVIOUS
    <2>3. minified \in BOOLEAN /\ entries \in EntriesServed
      BY <1>3, <2>2 DEF Served, EntriesServed
    <2>4. PICK n \in Nat : n = Len(entries) /\ \A i \in 1..n : entries[i]["time"] \in Dates \cup {None, Unset}
      <3>1. \A i \in 1..Len(entries) : entries[i] \in [version : Spellings \cup {None, Unset},
                                                       normalized : Spellings \cup {None, Unset},
                                                       time : Dates \cup {None, Unset}]
        BY <2>3, ElementOfSeq DEF EntriesServed
      <3> QED
        BY <2>3, <3>1, LenProperties DEF EntriesServed
    <2>5. \A k \in 1..n : FieldAt(entries, minified, "time", k) \in Dates \cup {None}
      BY <2>3, <2>4, FieldTyped
    <2> DEFINE versions == [k \in 1..n |-> Version(FieldAt(entries, minified, "version", k),
                                                  FieldAt(entries, minified, "time", k))]
               places == {k \in 1..Len(versions) : versions[k].spelling # None}
    <2>6. PICK V : V = {versions[k] : k \in 1..n}
      OBVIOUS
    <2>7. versions \in Seq(V) /\ Len(versions) = n /\ \A v \in V : v.date \in Dates \cup {None}
      BY <2>5, <2>6 DEF Version
    <2>8. places \in SUBSET (1..Len(versions))
      OBVIOUS
    <2>9. PICK named : named = Named(registry, document)
      OBVIOUS
    <2>10. named = Picked(versions, places)
      BY <1>3, <2>2, <2>4, <2>9 DEF Named, SaidAt
    <2> HIDE DEF versions, places
    <2>11. named \in Seq(V)
      BY <2>7, <2>8, <2>10, PickedIs
    <2>12. Len(named) \in Nat /\ \A i \in 1..Len(named) : named[i].date \in Dates \cup {None}
      BY <2>7, <2>11, LenProperties, ElementOfSeq
    <2>13. named = <<>> <=> Len(named) = 0
      BY <2>11, EmptySeq
    <2>14. Orderable(registry, named)
      BY <1>3, <2>12, <2>13 DEF Orderable, Comparable
    <2> QED
      BY <2>1, <2>9, <2>14
  <1> QED
    BY <1>1, <1>2, <1>3 DEF Registries

\* npm's document names its versions in its order, and read_versions lists them by text.
LEMMA NpmNamed ==
  ASSUME NEW document \in Served("npm")
  PROVE  LET named  == Named("npm", document)
             listed == Listed("npm", document)
         IN  /\ Len(named) \in Nat
             /\ named = <<>> <=> Len(named) = 0
             /\ InTextOrder(listed, named, Len(named))
  <1>1. PICK entries : entries = document.entries
    OBVIOUS
  <1>2. Named("npm", document) = entries /\ Listed("npm", document) = ByText(entries)
    BY <1>1 DEF Named, Listed
  <1>3. entries \in DatedEntries /\ EachOnce(entries)
    BY <1>1 DEF Served
  <1>4. Len(entries) \in Nat /\ (entries = <<>> <=> Len(entries) = 0)
    BY <1>3, LenProperties, EmptySeq DEF DatedEntries
  <1>5. InTextOrder(ByText(entries), entries, Len(entries))
    BY <1>3, <1>4, ByTextIs
  <1> QED
    BY <1>2, <1>4, <1>5

\* Of every registry, what is listed is what the document names, in order.
LEMMA ListedInOrder ==
  ASSUME NEW registry \in Registries, NEW document \in Served(registry)
  PROVE  LET named == Named(registry, document)
             all   == ReadVersions(registry, document).all
         IN  InOrder(registry, named, all) /\ (all = <<>> <=> named = <<>>)
  <1>1. PICK named, listed : named = Named(registry, document) /\ listed = Listed(registry, document)
    OBVIOUS
  <1>2. PICK all : all = ReadVersions(registry, document).all
    OBVIOUS
  <1>3. all = Sorted(registry, listed)
    BY <1>1, <1>2 DEF ReadVersions
  <1>4. CASE registry = "npm"
    <2>1. PICK n \in Nat : /\ n = Len(named) /\ (named = <<>> <=> n = 0)
                           /\ InTextOrder(listed, named, n)
      BY <1>1, <1>4, NpmNamed
    <2>2. Len(listed) = n /\ \A i \in 1..n : Comparable("npm", listed[i])
      BY <2>1 DEF InTextOrder, Comparable
    <2>3. KeepsOrder("npm", listed, all, n) /\ (all = <<>> <=> n = 0)
      BY <1>3, <1>4, <2>2, SortedInOrder
    <2>4. InOrder("npm", named, all)
      BY <2>1, <2>3, InOrderByText
    <2> QED
      BY <1>1, <1>2, <1>4, <2>1, <2>3, <2>4
  <1>5. CASE registry # "npm"
    <2>1. listed = named /\ Orderable(registry, named)
      BY <1>1, <1>5, NamedAre
    <2>2. PICK n \in Nat : /\ n = Len(named) /\ (named = <<>> <=> n = 0)
                           /\ \A i \in 1..n : Comparable(registry, named[i])
      BY <2>1 DEF Orderable
    <2>3. KeepsOrder(registry, named, all, n) /\ (all = <<>> <=> n = 0)
      BY <1>3, <2>1, <2>2, SortedInOrder
    <2>4. InOrder(registry, named, all)
      BY <1>5, <2>2, <2>3, InOrderAsItStands
    <2> QED
      BY <1>1, <1>2, <2>2, <2>3, <2>4
  <1> QED
    BY <1>4, <1>5

\* A list that was read is answered, with a current version.
LEMMA ReadIsAnswered ==
  ASSUME NEW registry, NEW listed, NEW latest, listed.state = "read",
         latest.state \in {"none", "read", "failed"},
         ReadVersions(registry, listed.document).all = <<>> <=> Named(registry, listed.document) = <<>>
  PROVE  IsAnswered(registry, listed, latest) /\ IsCurrent(registry, listed, latest)
  <1>1. PICK versions : versions = ReadVersions(registry, listed.document)
    OBVIOUS
  <1>2. PICK pointer : pointer = Pointer(registry, listed.document)
    OBVIOUS
  <1>3. PICK all : all = Sorted(registry, Listed(registry, listed.document))
    OBVIOUS
  <1>4. versions = [all |-> all, current |-> pointer]
    BY <1>1, <1>2, <1>3 DEF ReadVersions
  <1>5. all = <<>> <=> Named(registry, listed.document) = <<>>
    BY <1>1, <1>4
  <1>6. PICK answer : answer = Joined(registry, listed, latest)
    OBVIOUS
  <1>7. versions.all = all
    BY <1>4
  <1>8. answer = IF all = <<>>
                  THEN CASE latest.state = "failed" -> Failed
                         [] latest.state = "none"   -> Answered(versions)
                         [] latest.state = "read"   -> Answered(Only(latest.version))
                  ELSE IF latest.state = "read"
                       THEN Answered(PointingAt(versions, latest.version))
                       ELSE Answered(versions)
    <2>1. answer = IF versions.all = <<>>
                   THEN CASE latest.state = "failed" -> Failed
                          [] latest.state = "none"   -> Answered(versions)
                          [] latest.state = "read"   -> Answered(Only(latest.version))
                   ELSE IF latest.state = "read"
                        THEN Answered(PointingAt(versions, latest.version))
                        ELSE Answered(versions)
      BY <1>1, <1>6 DEF Joined
    <2> QED
      BY <1>7, <2>1
  <1>9. CASE all = <<>> /\ latest.state = "failed"
    <2>1. answer = Failed
      BY <1>8, <1>9
    <2>2. answer.answered = FALSE
      BY <2>1 DEF Failed
    <2> QED
      BY <1>5, <1>6, <1>9, <2>2 DEF IsAnswered, IsCurrent
  <1>10. CASE all = <<>> /\ latest.state = "read"
    <2>1. answer = Answered(Only(latest.version))
      BY <1>8, <1>10
    <2>2. answer.answered = TRUE /\ answer.current = latest.version.spelling
      BY <2>1 DEF Answered, Only
    <2> QED
      BY <1>5, <1>6, <1>10, <2>2 DEF IsAnswered, IsCurrent
  <1>11. CASE latest.state = "none"
    <2>1. answer = Answered(versions)
      BY <1>8, <1>11
    <2>2. answer.answered = TRUE /\ answer.current = pointer
      BY <1>4, <2>1 DEF Answered
    <2> QED
      BY <1>2, <1>6, <1>11, <2>2 DEF IsAnswered, IsCurrent
  <1>12. CASE all # <<>> /\ latest.state = "failed"
    <2>1. answer = Answered(versions)
      BY <1>8, <1>12
    <2>2. answer.answered = TRUE /\ answer.current = pointer
      BY <1>4, <2>1 DEF Answered
    <2> QED
      BY <1>2, <1>5, <1>6, <1>12, <2>2 DEF IsAnswered, IsCurrent
  <1>13. CASE all # <<>> /\ latest.state = "read"
    <2>1. answer = Answered(PointingAt(versions, latest.version))
      BY <1>8, <1>13
    <2>2. answer.answered = TRUE /\ answer.current = latest.version.spelling
      BY <1>4, <2>1 DEF Answered, PointingAt
    <2> QED
      BY <1>5, <1>6, <1>13, <2>2 DEF IsAnswered, IsCurrent
  <1> QED
    BY <1>9, <1>10, <1>11, <1>12, <1>13

\* Whatever a registry serves, and whatever of it fails to come.
LEMMA VersionsAre ==
  ASSUME NEW registry, NEW listed, NEW latest, IsRead(registry, listed, latest)
  PROVE  /\ listed.state = "read" =>
              InOrder(registry, Named(registry, listed.document),
                      ReadVersions(registry, listed.document).all)
         /\ IsAnswered(registry, listed, latest)
         /\ IsCurrent(registry, listed, latest)
  <1>1. CASE listed.state = "read"
    <2>1. PICK document : document = listed.document
      OBVIOUS
    <2>2. registry \in Registries /\ document \in Served(registry)
      BY <1>1, <2>1 DEF IsRead
    <2>3. PICK named, all : /\ named = Named(registry, document)
                            /\ all = ReadVersions(registry, document).all
      OBVIOUS
    <2>4. InOrder(registry, named, all) /\ (all = <<>> <=> named = <<>>)
      BY <2>2, <2>3, ListedInOrder
    <2>5. latest.state \in {"none", "read", "failed"}
      BY DEF IsRead
    <2>6. IsAnswered(registry, listed, latest) /\ IsCurrent(registry, listed, latest)
      BY <1>1, <2>1, <2>3, <2>4, <2>5, ReadIsAnswered
    <2> QED
      BY <2>1, <2>3, <2>4, <2>6
  <1>2. CASE listed.state # "read"
    <2>1. Joined(registry, listed, latest) = Failed
      BY <1>2 DEF Joined
    <2>2. Failed.answered = FALSE
      BY DEF Failed
    <2> QED
      BY <1>2, <2>1, <2>2 DEF IsAnswered, IsCurrent
  <1> QED
    BY <1>1, <1>2

------------------------------------------------------------------------------
(***************************************************************************)
(* Comparisons: what is had of a list, of lists one after another, and of  *)
(* a tree's.                                                               *)
(***************************************************************************)
\* What a sequence has of some elements, in its order.
Having(s, good) == Picked(s, {i \in 1..Len(s) : s[i] \in good})

\* What holds of no element, and of one more as soon as of what is before it, holds of
\* each sequence.
LEMMA SeqInduct ==
  ASSUME NEW A, NEW Q, <<>> \in Q,
         \A s \in Seq(A), x \in A : s \in Q => Append(s, x) \in Q
  PROVE  Seq(A) \subseteq Q
  <1> DEFINE N == {n \in Nat : \A s \in Seq(A) : Len(s) = n => s \in Q}
  <1>1. 0 \in N
    BY EmptySeq
  <1>2. ASSUME NEW n \in Nat, n \in N
        PROVE  n + 1 \in N
    <2>1. ASSUME NEW s \in Seq(A), Len(s) = n + 1
          PROVE  s \in Q
      <3>1. PICK t : t = SubSeq(s, 1, n)
        OBVIOUS
      <3>2. 1 \in 1..(Len(s) + 1) /\ n \in (1 - 1)..Len(s) /\ n + 1 \in 1..Len(s)
        BY <2>1
      <3>3. t \in Seq(A) /\ Len(t) = n /\ \A p \in 1..n : t[p] = s[p]
        <4>1. /\ SubSeq(s, 1, n) \in Seq(A)
              /\ Len(SubSeq(s, 1, n)) = n - 1 + 1
              /\ \A p \in 1..n : SubSeq(s, 1, n)[p - 1 + 1] = s[p]
          BY <3>2, PartOf
        <4> QED
          BY <3>1, <4>1
      <3>4. s[n + 1] \in A
        BY <3>2, ElementOfSeq
      <3>5. PICK u : u = Append(t, s[n + 1])
        OBVIOUS
      <3>6. u \in Seq(A) /\ Len(u) = n + 1 /\ \A p \in 1..(n + 1) : u[p] = s[p]
        BY <3>3, <3>4, <3>5, AppendProperties
      <3>7. u = s
        BY <2>1, <3>6, SeqEqual
      <3>8. t \in Q
        BY <1>2, <3>3
      <3> QED
        BY <3>3, <3>4, <3>5, <3>7, <3>8
    <2> QED
      BY <2>1
  <1>3. Nat \subseteq N
    <2> HIDE DEF N
    <2> QED
      BY <1>1, <1>2, NatInduct
  <1>4. ASSUME NEW s \in Seq(A)
        PROVE  s \in Q
    BY <1>3, LenProperties
  <1> QED
    BY <1>4

\* What a sequence has is there, and nothing else.
LEMMA HavingTyped ==
  ASSUME NEW A, NEW s \in Seq(A), NEW good
  PROVE  Having(s, good) \in Seq(A) /\ Having(s, good) \in Seq(A \cap good)
  <1>1. PICK places : places = {i \in 1..Len(s) : s[i] \in good}
    OBVIOUS
  <1>2. places \in SUBSET (1..Len(s)) /\ \A i \in places : s[i] \in A \cap good
    BY <1>1, ElementOfSeq
  <1>3. PICK p : p = Having(s, good)
    OBVIOUS
  <1>4. p \in Seq(A) /\ PicksAt(p, s, places)
    BY <1>1, <1>2, <1>3, PickedIs DEF Having
  <1>5. \A k \in 1..Len(p) : p[k] \in A \cap good
    BY <1>2, <1>4, Zenon DEF PicksAt
  <1>6. p \in Seq(A \cap good)
    <2>1. Len(p) \in Nat /\ p \in [1..Len(p) -> A] /\ DOMAIN p = 1..Len(p)
      BY <1>4, LenProperties
    <2>2. p = [k \in 1..Len(p) |-> p[k]]
      BY <2>1
    <2>3. p \in [1..Len(p) -> A \cap good]
      BY <1>5, <2>2, Zenon
    <2> QED
      BY <2>1, <2>3
  <1> QED
    BY <1>3, <1>4, <1>6

\* What is picked from a sequence does not depend on what comes after it.
LEMMA PickedBefore ==
  ASSUME NEW A, NEW s \in Seq(A), NEW t \in Seq(A), Len(s) <= Len(t),
         \A i \in 1..Len(s) : t[i] = s[i], NEW places \in SUBSET (1..Len(s))
  PROVE  Picked(t, places) = Picked(s, places)
  <1>1. Len(s) \in Nat /\ Len(t) \in Nat
    BY LenProperties
  <1>2. places \in SUBSET (1..Len(t))
    BY <1>1
  <1>3. PICK p : p = Picked(s, places)
    OBVIOUS
  <1>4. PICK q : q = Picked(t, places)
    OBVIOUS
  <1>5. p \in Seq(A) /\ PicksAt(p, s, places) /\ q \in Seq(A) /\ PicksAt(q, t, places)
    BY <1>2, <1>3, <1>4, PickedIs
  <1>6. Len(p) = Len(q)
    BY <1>5 DEF PicksAt
  <1>7. ASSUME NEW k \in 1..Len(p)
        PROVE  p[k] = q[k]
    <2>1. PICK i \in places : Upto(places, i) = k /\ p[k] = s[i]
      BY <1>5 DEF PicksAt
    <2>2. q[Upto(places, i)] = t[i]
      BY <1>5 DEF PicksAt
    <2> QED
      BY <2>1, <2>2
  <1>8. p = q
    BY <1>5, <1>6, <1>7, SeqEqual
  <1> QED
    BY <1>3, <1>4, <1>8

\* One more element is had after the others, if it is one of those.
LEMMA HavingOneMore ==
  ASSUME NEW A, NEW s \in Seq(A), NEW x \in A, NEW good
  PROVE  Having(Append(s, x), good)
           = IF x \in good THEN Append(Having(s, good), x) ELSE Having(s, good)
  <1>1. PICK n \in Nat : n = Len(s)
    BY LenProperties
  <1>2. PICK t : t = Append(s, x)
    OBVIOUS
  <1>3. t \in Seq(A) /\ Len(t) = n + 1 /\ (\A i \in 1..n : t[i] = s[i]) /\ t[n + 1] = x
    BY <1>1, <1>2, AppendProperties
  <1>4. PICK places : places = {i \in 1..n : s[i] \in good}
    OBVIOUS
  <1>5. PICK more : more = {i \in 1..Len(t) : t[i] \in good}
    OBVIOUS
  <1>6. places \in SUBSET (1..n) /\ n + 1 \in 1..Len(t) /\ (n + 1) - 1 = n
    BY <1>3, <1>4
  <1>7. Picked(t, places) = Picked(s, places)
    BY <1>1, <1>3, <1>6, PickedBefore
  <1>8. Having(s, good) = Picked(s, places) /\ Having(t, good) = Picked(t, more)
    BY <1>1, <1>4, <1>5 DEF Having
  <1>9. \A i \in 1..(n + 1) : i \in 1..n \/ i = n + 1
    BY <1>1
  <1>10. CASE x \in good
    <2>1. more = places \cup {n + 1}
      BY <1>3, <1>4, <1>5, <1>9, <1>10
    <2>2. Picked(t, places \cup {n + 1}) = Append(Picked(t, places), t[n + 1])
      BY <1>3, <1>6, PickedOneMore
    <2> QED
      BY <1>2, <1>3, <1>7, <1>8, <1>10, <2>1, <2>2, Zenon
  <1>11. CASE x \notin good
    <2>1. more = places
      BY <1>3, <1>4, <1>5, <1>9, <1>11
    <2> QED
      BY <1>2, <1>7, <1>8, <1>11, <2>1, Zenon
  <1> QED
    BY <1>10, <1>11

\* Nothing has nothing.
LEMMA HavingNothing ==
  ASSUME NEW good
  PROVE  Having(<<>>, good) = <<>>
  <1>1. Len(<<>>) = 0 /\ <<>> \in Seq({})
    OBVIOUS
  <1>2. Having(<<>>, good) \in Seq({} \cap good)
    BY <1>1, HavingTyped
  <1> QED
    BY <1>2

\* What two sequences have one after the other is what each has.
LEMMA HavingOfBoth ==
  ASSUME NEW A, NEW s \in Seq(A), NEW t \in Seq(A), NEW good
  PROVE  Having(s \o t, good) = Having(s, good) \o Having(t, good)
  <1> DEFINE Q == {u \in Seq(A) : Having(s \o u, good) = Having(s, good) \o Having(u, good)}
  <1>1. <<>> \in Q
    <2>1. <<>> \in Seq(A) /\ s \o <<>> = s
      BY ConcatEmptySeq, EmptySeq
    <2>3. Having(s, good) \in Seq(A)
      BY HavingTyped
    <2>2. Having(s, good) \o <<>> = Having(s, good)
      BY <2>3, ConcatEmptySeq
    <2> QED
      BY <2>1, <2>2, HavingNothing
  <1>2. ASSUME NEW u \in Seq(A), NEW x \in A, u \in Q
        PROVE  Append(u, x) \in Q
    <2>1. PICK v : v = s \o u
      OBVIOUS
    <2>2. PICK one : one = <<x>>
      OBVIOUS
    <2>3. v \in Seq(A) /\ one \in Seq(A) /\ Append(u, x) = u \o one /\ Append(v, x) = v \o one
      BY <2>1, <2>2, ConcatProperties, AppendIsConcat
    <2>4. s \o Append(u, x) = Append(v, x) /\ Append(u, x) \in Seq(A)
      <3>1. (s \o u) \o one = s \o (u \o one)
        BY <2>3, ConcatAssociative, SMTT(30)
      <3>2. u \o one \in Seq(A)
        BY <2>3, ConcatProperties
      <3> QED
        BY <2>1, <2>3, <3>1, <3>2
    <2>5. PICK a : a = Having(s, good)
      OBVIOUS
    <2>6. PICK b : b = Having(u, good)
      OBVIOUS
    <2>7. a \in Seq(A) /\ b \in Seq(A)
      BY <2>5, <2>6, HavingTyped
    <2>8. Having(v, good) = a \o b
      BY <1>2, <2>1, <2>5, <2>6
    <2>9. CASE x \in good
      <3>1. Having(Append(v, x), good) = Append(a \o b, x) /\ Having(Append(u, x), good) = Append(b, x)
        <4>1. Having(Append(v, x), good) = Append(Having(v, good), x)
          BY <2>3, <2>9, HavingOneMore
        <4>2. Having(Append(u, x), good) = Append(Having(u, good), x)
          BY <2>9, HavingOneMore
        <4> QED
          BY <2>6, <2>8, <4>1, <4>2, Zenon
      <3>2. Append(a \o b, x) = (a \o b) \o one /\ Append(b, x) = b \o one
        BY <2>2, <2>7, ConcatProperties, AppendIsConcat
      <3>3. (a \o b) \o one = a \o (b \o one)
        BY <2>3, <2>7, ConcatAssociative, SMTT(30)
      <3> QED
        BY <2>4, <2>5, <3>1, <3>2, <3>3
    <2>10. CASE x \notin good
      <3>1. Having(Append(v, x), good) = a \o b /\ Having(Append(u, x), good) = b
        <4>1. Having(Append(v, x), good) = Having(v, good)
          BY <2>3, <2>10, HavingOneMore
        <4>2. Having(Append(u, x), good) = Having(u, good)
          BY <2>10, HavingOneMore
        <4> QED
          BY <2>6, <2>8, <4>1, <4>2, Zenon
      <3> QED
        BY <2>4, <2>5, <3>1
    <2> QED
      BY <2>9, <2>10
  <1>3. Seq(A) \subseteq Q
    <2> HIDE DEF Q
    <2> QED
      BY <1>1, <1>2, SeqInduct
  <1> QED
    BY <1>3

\* A sequence of only those has all of itself, one of none of them nothing.
LEMMA HavingAllOrNone ==
  ASSUME NEW A, NEW s \in Seq(A), NEW good
  PROVE  /\ A \subseteq good => Having(s, good) = s
         /\ A \cap good = {} => Having(s, good) = <<>>
  <1> DEFINE Q == {u \in Seq(A) : /\ A \subseteq good => Having(u, good) = u
                                  /\ A \cap good = {} => Having(u, good) = <<>>}
  <1>1. <<>> \in Q
    BY HavingNothing
  <1>2. ASSUME NEW u \in Seq(A), NEW x \in A, u \in Q
        PROVE  Append(u, x) \in Q
    <2>1. Append(u, x) \in Seq(A)
      BY AppendProperties
    <2>2. A \subseteq good => x \in good /\ Having(u, good) = u
      BY <1>2
    <2>3. A \cap good = {} => x \notin good /\ Having(u, good) = <<>>
      BY <1>2
    <2> QED
      BY <2>1, <2>2, <2>3, HavingOneMore
  <1>3. Seq(A) \subseteq Q
    <2> HIDE DEF Q
    <2> QED
      BY <1>1, <1>2, SeqInduct
  <1> QED
    BY <1>3

\* What it has of what it has.
LEMMA HavingTwice ==
  ASSUME NEW A, NEW s \in Seq(A), NEW good, NEW better
  PROVE  Having(Having(s, good), better) = Having(s, good \cap better)
  <1> DEFINE both == good \cap better
             Q == {u \in Seq(A) : Having(Having(u, good), better) = Having(u, both)}
  <1>1. <<>> \in Q
    BY HavingNothing
  <1>2. ASSUME NEW u \in Seq(A), NEW x \in A, u \in Q
        PROVE  Append(u, x) \in Q
    <2>1. PICK a : a = Having(u, good)
      OBVIOUS
    <2>2. a \in Seq(A) /\ Append(u, x) \in Seq(A) /\ Having(a, better) = Having(u, both)
      BY <1>2, <2>1, HavingTyped, AppendProperties
    <2>3. Having(Append(u, x), both) = IF x \in both THEN Append(Having(u, both), x) ELSE Having(u, both)
      BY HavingOneMore
    <2>4. CASE x \in good
      <3>1. Having(Append(u, x), good) = Append(a, x)
        BY <2>1, <2>4, HavingOneMore
      <3>2. Having(Append(a, x), better) = IF x \in better THEN Append(Having(a, better), x) ELSE Having(a, better)
        BY <2>2, HavingOneMore
      <3>3. x \in both <=> x \in better
        BY <2>4
      <3> QED
        BY <2>2, <2>3, <3>1, <3>2, <3>3
    <2>5. CASE x \notin good
      <3>1. Having(Append(u, x), good) = a
        BY <2>1, <2>5, HavingOneMore
      <3>2. x \notin both
        BY <2>5
      <3> QED
        BY <2>2, <2>3, <3>1, <3>2
    <2> QED
      BY <2>4, <2>5
  <1>3. Seq(A) \subseteq Q
    <2> HIDE DEF Q
    <2> QED
      BY <1>1, <1>2, SeqInduct
  <1> QED
    BY <1>3

\* Lists one after another, up to each.
Chain(e, n, lists, A) ==
  /\ e \in [0..n -> Seq(A)]
  /\ e[0] = <<>>
  /\ \A k \in 1..n : e[k] = e[k - 1] \o lists[k]

Flattening(g, lists) ==
  g = [i \in 1..Len(lists) |-> IF i = 1 THEN lists[i] ELSE g[i - 1] \o lists[i]]

\* FlattenSeq: the last of what the lists are, one after another.
LEMMA FlattenSeqIs ==
  ASSUME NEW A, NEW lists \in Seq(Seq(A))
  PROVE  /\ FlattenSeq(lists) \in Seq(A)
         /\ \E e : Chain(e, Len(lists), lists, A) /\ FlattenSeq(lists) = e[Len(lists)]
  <1>1. PICK n \in Nat : n = Len(lists)
    BY LenProperties
  <1>2. \A i \in 1..n : lists[i] \in Seq(A)
    BY <1>1, ElementOfSeq
  <1>3. <<>> \in Seq(A)
    BY EmptySeq
  <1> DEFINE Q == {k \in Nat : k <= n => \E e : Chain(e, k, lists, A)}
  <1>4. 0 \in Q
    <2>1. Chain([j \in 0..0 |-> <<>>], 0, lists, A)
      BY <1>3 DEF Chain
    <2> QED
      BY <2>1
  <1>5. ASSUME NEW k \in Nat, k \in Q
        PROVE  k + 1 \in Q
    <2>1. SUFFICES ASSUME k + 1 <= n
                   PROVE  \E e : Chain(e, k + 1, lists, A)
      OBVIOUS
    <2>2. PICK e : Chain(e, k, lists, A)
      BY <1>5, <2>1
    <2>3. PICK one : one = e[k] \o lists[k + 1]
      OBVIOUS
    <2>4. e[k] \in Seq(A) /\ lists[k + 1] \in Seq(A)
      BY <1>2, <2>1, <2>2 DEF Chain
    <2>5. one \in Seq(A)
      BY <2>3, <2>4, ConcatProperties
    <2> DEFINE d == [j \in 0..(k + 1) |-> IF j = k + 1 THEN one ELSE e[j]]
    <2>6. \A j \in 0..k : j \in 0..(k + 1) /\ j # k + 1 /\ e[j] \in Seq(A)
      BY <2>2 DEF Chain
    <2>a. \A j \in 0..k : d[j] = e[j]
      BY <2>6, Zenon
    <2>b. k + 1 \in 0..(k + 1) /\ k \in 0..k
      OBVIOUS
    <2>7. d[k + 1] = one /\ d[k] = e[k]
      BY <2>a, <2>b, Zenon
    <2>c. \A j \in 0..(k + 1) : j \in 0..k \/ j = k + 1
      OBVIOUS
    <2>d. d = [j \in 0..(k + 1) |-> d[j]]
      OBVIOUS
    <2> HIDE DEF d
    <2>8. d \in [0..(k + 1) -> Seq(A)]
      <3>1. \A j \in 0..(k + 1) : d[j] \in Seq(A)
        BY <2>5, <2>6, <2>7, <2>a, <2>c, Zenon
      <3> QED
        BY <2>d, <3>1, Zenon
    <2>9. ASSUME NEW j \in 1..(k + 1)
          PROVE  d[j] = d[j - 1] \o lists[j]
      <3>1. CASE j = k + 1
        <4>1. j - 1 = k
          BY <3>1
        <4> QED
          BY <2>3, <2>7, <3>1, <4>1, Zenon
      <3>2. CASE j # k + 1
        <4>1. j \in 1..k /\ j \in 0..k /\ j - 1 \in 0..k
          BY <3>2
        <4>2. e[j] = e[j - 1] \o lists[j]
          BY <2>2, <4>1 DEF Chain
        <4> QED
          BY <2>a, <4>1, <4>2, Zenon
      <3> QED
        BY <3>1, <3>2
    <2>10. d[0] = <<>>
      <3>1. 0 \in 0..k
        OBVIOUS
      <3> QED
        BY <2>2, <2>a, <3>1, Zenon DEF Chain
    <2>11. Chain(d, k + 1, lists, A)
      BY <2>8, <2>9, <2>10 DEF Chain
    <2> QED
      BY <2>11
  <1>6. n \in Q
    <2> HIDE DEF Q
    <2> QED
      BY <1>1, <1>4, <1>5, NatInduct
  <1>7. PICK e : Chain(e, n, lists, A)
    BY <1>6
  <1>8. Chain(e, Len(lists), lists, A)
    BY <1>1, <1>7
  <1>9. CASE n = 0
    <2>1. lists = <<>> /\ FlattenSeq(lists) = lists
      BY <1>1, <1>9, EmptySeq DEF FlattenSeq
    <2> QED
      BY <1>1, <1>3, <1>7, <1>8, <1>9, <2>1 DEF Chain
  <1>10. CASE n # 0
    <2>1. FlattenSeq(lists) = (CHOOSE g : Flattening(g, lists))[n]
      BY <1>1, <1>10 DEF FlattenSeq, Flattening
    <2>2. \E g : Flattening(g, lists)
      <3> DEFINE g == [i \in 1..n |-> e[i]]
      <3>1. ASSUME NEW i \in 1..n
            PROVE  g[i] = IF i = 1 THEN lists[i] ELSE g[i - 1] \o lists[i]
        <4>1. g[i] = e[i] /\ e[i] = e[i - 1] \o lists[i]
          BY <1>7 DEF Chain
        <4>2. CASE i = 1
          <5>1. e[i - 1] = <<>> /\ lists[i] \in Seq(A)
            BY <1>2, <1>7, <4>2 DEF Chain
          <5>2. <<>> \o lists[i] = lists[i]
            BY <5>1, ConcatEmptySeq
          <5> QED
            BY <4>1, <4>2, <5>1, <5>2
        <4>3. CASE i # 1
          <5>1. i - 1 \in 1..n
            BY <1>1, <4>3
          <5>2. g[i - 1] = e[i - 1]
            BY <5>1
          <5> QED
            BY <4>1, <4>3, <5>2
        <4> QED
          BY <4>2, <4>3
      <3>2. g = [i \in 1..n |-> g[i]]
        OBVIOUS
      <3> HIDE DEF g
      <3>3. g = [i \in 1..n |-> IF i = 1 THEN lists[i] ELSE g[i - 1] \o lists[i]]
        BY <3>1, <3>2, Zenon
      <3>4. Flattening(g, lists)
        BY <1>1, <3>3, Zenon DEF Flattening
      <3> QED
        BY <3>4
    <2>3. PICK g : g = CHOOSE f : Flattening(f, lists)
      OBVIOUS
    <2>4. Flattening(g, lists) /\ FlattenSeq(lists) = g[n]
      BY <2>1, <2>2, <2>3, Zenon
    <2>5. ASSUME NEW i \in 1..n
          PROVE  g[i] = IF i = 1 THEN lists[i] ELSE g[i - 1] \o lists[i]
      BY <1>1, <2>4 DEF Flattening
    <2> DEFINE R == {k \in Nat : k + 1 <= n => g[k + 1] = e[k + 1]}
    <2>6. 0 \in R
      <3>1. SUFFICES ASSUME 1 <= n
                     PROVE  g[1] = e[1]
        OBVIOUS
      <3>2. 1 \in 1..n /\ 1 - 1 = 0
        BY <1>1, <3>1
      <3>3. g[1] = lists[1] /\ e[1] = e[0] \o lists[1] /\ e[0] = <<>> /\ lists[1] \in Seq(A)
        BY <1>2, <1>7, <2>5, <3>2 DEF Chain
      <3>4. <<>> \o lists[1] = lists[1]
        BY <3>3, ConcatEmptySeq
      <3> QED
        BY <3>3, <3>4
    <2>7. ASSUME NEW k \in Nat, k \in R
          PROVE  k + 1 \in R
      <3>1. SUFFICES ASSUME (k + 1) + 1 <= n
                     PROVE  g[(k + 1) + 1] = e[(k + 1) + 1]
        OBVIOUS
      <3>2. PICK j : j = (k + 1) + 1
        OBVIOUS
      <3>3. j \in 1..n /\ j # 1 /\ j - 1 = k + 1 /\ k + 1 <= n
        BY <1>1, <3>1, <3>2
      <3>4. g[j] = g[j - 1] \o lists[j]
        BY <2>5, <3>3
      <3>5. e[j] = e[j - 1] \o lists[j]
        BY <1>7, <3>3 DEF Chain
      <3>6. g[k + 1] = e[k + 1]
        BY <2>7, <3>3
      <3> QED
        BY <3>2, <3>3, <3>4, <3>5, <3>6, Zenon
    <2>8. n - 1 \in R /\ (n - 1) + 1 = n
      <3>1. n - 1 \in Nat /\ (n - 1) + 1 = n
        BY <1>1, <1>10
      <3>2. Nat \subseteq R
        <4> HIDE DEF R
        <4> QED
          BY <2>6, <2>7, NatInduct
      <3> QED
        BY <3>1, <3>2, Zenon
    <2>9. g[n] = e[n] /\ e[n] \in Seq(A)
      BY <1>7, <2>8 DEF Chain
    <2> QED
      BY <1>1, <1>8, <2>4, <2>9
  <1> QED
    BY <1>9, <1>10

\* What lists have one after another is what each has.
LEMMA HavingOfAll ==
  ASSUME NEW A, NEW lists \in Seq(Seq(A)), NEW good, NEW left \in Seq(Seq(A)),
         Len(left) = Len(lists), \A i \in 1..Len(lists) : left[i] = Having(lists[i], good)
  PROVE  Having(FlattenSeq(lists), good) = FlattenSeq(left)
  <1>1. PICK n \in Nat : n = Len(lists)
    BY LenProperties
  <1>2. PICK e : Chain(e, n, lists, A) /\ FlattenSeq(lists) = e[n]
    BY <1>1, FlattenSeqIs
  <1>3. PICK d : Chain(d, n, left, A) /\ FlattenSeq(left) = d[n]
    BY <1>1, FlattenSeqIs
  <1> DEFINE Q == {k \in Nat : k <= n => Having(e[k], good) = d[k]}
  <1>4. 0 \in Q
    BY <1>2, <1>3, HavingNothing DEF Chain
  <1>5. ASSUME NEW k \in Nat, k \in Q
        PROVE  k + 1 \in Q
    <2>1. SUFFICES ASSUME k + 1 <= n
                   PROVE  Having(e[k + 1], good) = d[k + 1]
      OBVIOUS
    <2>2. PICK j : j = k + 1
      OBVIOUS
    <2>3. j \in 1..n /\ j - 1 = k /\ k \in 0..n /\ k <= n
      BY <1>1, <2>1, <2>2
    <2>4. e[j] = e[k] \o lists[j] /\ e[k] \in Seq(A)
      BY <1>1, <1>2, <2>3 DEF Chain
    <2>5. d[j] = d[k] \o left[j]
      BY <1>1, <1>3, <2>3 DEF Chain
    <2>6. lists[j] \in Seq(A) /\ left[j] = Having(lists[j], good)
      BY <1>1, <2>3, ElementOfSeq
    <2>7. Having(e[k] \o lists[j], good) = Having(e[k], good) \o Having(lists[j], good)
      <3>1. PICK front : front = e[k]
        OBVIOUS
      <3>2. PICK last : last = lists[j]
        OBVIOUS
      <3>3. front \in Seq(A) /\ last \in Seq(A)
        BY <2>4, <2>6, <3>1, <3>2
      <3>4. Having(front \o last, good) = Having(front, good) \o Having(last, good)
        BY <3>3, HavingOfBoth
      <3> QED
        BY <3>1, <3>2, <3>4, Zenon
    <2>8. Having(e[k], good) = d[k]
      BY <1>5, <2>3
    <2> QED
      BY <2>2, <2>4, <2>5, <2>6, <2>7, <2>8, Zenon
  <1>6. n \in Q
    <2> HIDE DEF Q
    <2> QED
      BY <1>1, <1>4, <1>5, NatInduct
  <1> QED
    BY <1>2, <1>3, <1>6

\* Of lists that are empty, but one at most, that one is left.
LEMMA FlattenOne ==
  ASSUME NEW A, NEW lists \in Seq(Seq(A)), NEW at \in Nat,
         \A i \in 1..Len(lists) : i # at => lists[i] = <<>>
  PROVE  FlattenSeq(lists) = IF at \in 1..Len(lists) THEN lists[at] ELSE <<>>
  <1>1. PICK n \in Nat : n = Len(lists)
    BY LenProperties
  <1>2. PICK e : Chain(e, n, lists, A) /\ FlattenSeq(lists) = e[n]
    BY <1>1, FlattenSeqIs
  <1>3. <<>> \in Seq(A)
    BY EmptySeq
  <1> DEFINE Q == {k \in Nat : k <= n => e[k] = IF at \in 1..k THEN lists[at] ELSE <<>>}
  <1>4. 0 \in Q
    BY <1>2 DEF Chain
  <1>5. ASSUME NEW k \in Nat, k \in Q
        PROVE  k + 1 \in Q
    <2>1. SUFFICES ASSUME k + 1 <= n
                   PROVE  e[k + 1] = IF at \in 1..(k + 1) THEN lists[at] ELSE <<>>
      OBVIOUS
    <2>2. PICK j : j = k + 1
      OBVIOUS
    <2>3. j \in 1..n /\ j - 1 = k /\ k \in 0..n /\ k <= n
      BY <1>1, <2>1, <2>2
    <2>4. e[j] = e[k] \o lists[j] /\ e[k] \in Seq(A) /\ lists[j] \in Seq(A)
      BY <1>1, <1>2, <2>3, ElementOfSeq DEF Chain
    <2>5. e[k] = IF at \in 1..k THEN lists[at] ELSE <<>>
      BY <1>5, <2>3
    <2>6. e[k] \o <<>> = e[k] /\ <<>> \o lists[j] = lists[j]
      BY <2>4, ConcatEmptySeq
    <2>7. CASE at = j
      <3>1. at \notin 1..k /\ at \in 1..j
        BY <2>2, <2>7
      <3> QED
        BY <2>2, <2>4, <2>5, <2>6, <2>7, <3>1, Zenon
    <2>8. CASE at # j
      <3>1. at \in 1..k <=> at \in 1..j
        BY <2>2, <2>8
      <3>2. lists[j] = <<>>
        BY <1>1, <2>3, <2>8
      <3>3. e[j] = e[k]
        BY <2>4, <2>6, <3>2, Zenon
      <3> QED
        BY <2>2, <2>5, <3>1, <3>3, Zenon
    <2> QED
      BY <2>7, <2>8
  <1>6. n \in Q
    <2> HIDE DEF Q
    <2> QED
      BY <1>1, <1>4, <1>5, NatInduct
  <1> QED
    BY <1>1, <1>2, <1>6

\* What begins a path, name by name.
LEMMA BeginsWith ==
  ASSUME NEW s \in Seq(Nat), NEW t \in Seq(Nat)
  PROVE  /\ IsPrefix(s, t) <=> Len(s) <= Len(t) /\ \A i \in 1..Len(s) : s[i] = t[i]
         /\ IsStrictPrefix(s, t) <=> Len(s) < Len(t) /\ \A i \in 1..Len(s) : s[i] = t[i]
  <1>1. PICK m \in Nat : m = Len(s)
    BY LenProperties
  <1>2. PICK n \in Nat : n = Len(t)
    BY LenProperties
  <1>3. SubSeq(s, 1, m) = s
    BY <1>1, SubSeqFull
  <1>4. ASSUME m <= n
        PROVE  SubSeq(s, 1, m) = SubSeq(t, 1, m) <=> \A i \in 1..m : s[i] = t[i]
    <2>1. PICK u : u = SubSeq(t, 1, m)
      OBVIOUS
    <2>2. u \in Seq(Nat) /\ Len(u) = m /\ \A p \in 1..m : u[p] = t[p]
      <3>1. 1 \in 1..(Len(t) + 1) /\ m \in (1 - 1)..Len(t)
        BY <1>2, <1>4
      <3>2. /\ SubSeq(t, 1, m) \in Seq(Nat)
            /\ Len(SubSeq(t, 1, m)) = m - 1 + 1
            /\ \A p \in 1..m : SubSeq(t, 1, m)[p - 1 + 1] = t[p]
        BY <3>1, PartOf
      <3> QED
        BY <2>1, <3>2
    <2>3. s = u => \A i \in 1..m : s[i] = t[i]
      BY <2>2
    <2>4. (\A i \in 1..m : s[i] = t[i]) => s = u
      <3>1. ASSUME \A i \in 1..m : s[i] = t[i]
            PROVE  s = u
        <4>1. \A i \in 1..Len(s) : s[i] = u[i]
          BY <1>1, <2>2, <3>1
        <4> QED
          BY <1>1, <2>2, <4>1, SeqEqual
      <3> QED
        BY <3>1
    <2> QED
      BY <1>3, <2>1, <2>3, <2>4, Zenon
  <1>5. IsPrefix(s, t) <=> m <= n /\ \A i \in 1..m : s[i] = t[i]
    <2>1. IsPrefix(s, t) <=> m <= n /\ SubSeq(s, 1, m) = SubSeq(t, 1, m)
      BY <1>1, <1>2 DEF IsPrefix
    <2> QED
      BY <1>4, <2>1, Zenon
  <1>6. IsStrictPrefix(s, t) <=> IsPrefix(s, t) /\ s # t
    BY DEF IsStrictPrefix
  <1>7. m = n /\ (\A i \in 1..m : s[i] = t[i]) => s = t
    BY <1>1, <1>2, SeqEqual
  <1>8. s = t => m = n
    BY <1>1, <1>2
  <1>9. m <= n <=> m < n \/ m = n
    OBVIOUS
  <1>10. ~(m < n /\ m = n)
    OBVIOUS
  <1>11. IsStrictPrefix(s, t) <=> m < n /\ \A i \in 1..m : s[i] = t[i]
    BY <1>5, <1>6, <1>7, <1>8, <1>9, <1>10, Zenon
  <1> QED
    BY <1>1, <1>2, <1>5, <1>11, Zenon

IsChildOf(child, entry) ==
  /\ child \in Entries
  /\ Len(child.path) = Len(entry.path) + 1
  /\ \A k \in 1..Len(entry.path) : child.path[k] = entry.path[k]

\* What the engine's entries are.
LEMMA EntryIs ==
  ASSUME NEW entry \in Entries
  PROVE  /\ entry.path \in Seq(Nat) /\ Len(entry.path) \in Nat /\ Len(entry.path) <= AllTheWay
         /\ entry.type \in {"file", "directory"} /\ entry.status \in Statuses /\ entry.lines \in Nat
         /\ entry.children \in Seq(Entries) /\ Len(entry.children) \in Nat
         /\ DOMAIN entry.children = 1..Len(entry.children)
         /\ entry.type = "file" => Len(entry.children) = 0
         /\ \A i \in 1..Len(entry.children) : IsChildOf(entry.children[i], entry)
         /\ \A i, j \in 1..Len(entry.children) :
              entry.children[i].path = entry.children[j].path /\ entry.children[i].type = entry.children[j].type
                => i = j
  <1>1. IsEntry(entry)
    BY EntriesAssumption
  <1>2. entry.path \in Seq(Nat) /\ entry.children \in Seq(Entries)
    BY <1>1 DEF IsEntry
  <1>3. /\ Len(entry.path) \in Nat /\ Len(entry.children) \in Nat
        /\ DOMAIN entry.children = 1..Len(entry.children)
    BY <1>2, LenProperties
  <1>4. ASSUME NEW i \in 1..Len(entry.children)
        PROVE  IsChildOf(entry.children[i], entry)
    <2>1. PICK child : child = entry.children[i]
      OBVIOUS
    <2>2. child \in Entries
      BY <1>2, <2>1, ElementOfSeq
    <2>3. child.path \in Seq(Nat)
      BY <2>2, EntriesAssumption DEF IsEntry
    <2>4. Len(child.path) = Len(entry.path) + 1 /\ IsPrefix(entry.path, child.path)
      BY <1>1, <1>3, <2>1 DEF IsEntry
    <2>5. \A k \in 1..Len(entry.path) : entry.path[k] = child.path[k]
      BY <1>2, <2>3, <2>4, BeginsWith
    <2> QED
      BY <2>1, <2>2, <2>4, <2>5 DEF IsChildOf
  <1>5. entry.type = "file" => Len(entry.children) = 0
    <2>1. entry.type = "file" => entry.children = <<>>
      BY <1>1 DEF IsEntry
    <2> QED
      BY <2>1, EmptySeq
  <1>6. \A i, j \in 1..Len(entry.children) :
          entry.children[i].path = entry.children[j].path /\ entry.children[i].type = entry.children[j].type
            => i = j
    BY <1>1, <1>3 DEF IsEntry
  <1>7. /\ Len(entry.path) <= AllTheWay /\ entry.type \in {"file", "directory"}
        /\ entry.status \in Statuses /\ entry.lines \in Nat
    BY <1>1 DEF IsEntry
  <1> QED
    BY <1>2, <1>3, <1>4, <1>5, <1>6, <1>7

\* What is in an entry is an entry.
LEMMA ChildIs ==
  ASSUME NEW entry \in Entries, NEW i \in 1..Len(entry.children)
  PROVE  entry.children[i] \in Entries /\ IsChildOf(entry.children[i], entry)
  <1>1. IsChildOf(entry.children[i], entry)
    BY EntryIs
  <1> QED
    BY <1>1, Zenon DEF IsChildOf

\* The entries below which there are fewer names than so many.
Lower(n) == {entry \in Entries : Len(entry.path) + n > AllTheWay}

\* What is in one of these is one of those with one name fewer; at last there is none.
LEMMA OneFewer ==
  /\ Lower(0) = {} /\ AllTheWay + 1 \in Nat /\ Entries \subseteq Lower(AllTheWay + 1)
  /\ \A n \in Nat : \A entry \in Lower(n + 1) :
       \A i \in 1..Len(entry.children) : entry.children[i] \in Lower(n)
  <1>1. AllTheWay \in Nat
    BY DepthsAssumption
  <1>2. ASSUME NEW entry \in Entries
        PROVE  ~(Len(entry.path) + 0 > AllTheWay) /\ Len(entry.path) + (AllTheWay + 1) > AllTheWay
    <2>1. PICK m \in Nat : m = Len(entry.path) /\ m <= AllTheWay
      BY EntryIs
    <2>2. ~(m + 0 > AllTheWay) /\ m + (AllTheWay + 1) > AllTheWay
      <3>1. PICK top \in Nat : top = AllTheWay
        BY <1>1
      <3>2. m <= top
        BY <2>1, <3>1
      <3>3. ~(m + 0 > top) /\ m + (top + 1) > top
        BY <3>2
      <3> QED
        BY <3>1, <3>3, Zenon
    <2> QED
      BY <2>1, <2>2, Zenon
  <1>3. ASSUME NEW n \in Nat, NEW entry \in Lower(n + 1), NEW i \in 1..Len(entry.children)
        PROVE  entry.children[i] \in Lower(n)
    <2>1. PICK child : child = entry.children[i]
      OBVIOUS
    <2>2. entry \in Entries /\ Len(entry.path) + (n + 1) > AllTheWay
      BY DEF Lower
    <2>3. PICK m \in Nat : m = Len(entry.path)
      BY <2>2, EntryIs
    <2>4. child \in Entries /\ Len(child.path) = m + 1
      BY <2>1, <2>2, <2>3, EntryIs DEF IsChildOf
    <2>5. m + (n + 1) > AllTheWay
      BY <2>2, <2>3, Zenon
    <2>6. (m + 1) + n > AllTheWay
      BY <1>1, <2>5
    <2>7. Len(child.path) + n > AllTheWay
      BY <2>4, <2>6, Zenon
    <2> QED
      BY <2>1, <2>4, <2>7 DEF Lower
  <1>4. Lower(0) = {} /\ Entries \subseteq Lower(AllTheWay + 1)
    BY <1>2, Zenon DEF Lower
  <1> QED
    BY <1>1, <1>3, <1>4

\* What holds of an entry as soon as of what is in it holds of each.
LEMMA EntryInduct ==
  ASSUME NEW Q, \A entry \in Entries :
                  (\A i \in 1..Len(entry.children) : entry.children[i] \in Q) => entry \in Q
  PROVE  Entries \subseteq Q
  <1> DEFINE N == {n \in Nat : Lower(n) \subseteq Q}
  <1>1. 0 \in N
    BY OneFewer
  <1>2. ASSUME NEW n \in Nat, n \in N
        PROVE  n + 1 \in N
    <2>1. ASSUME NEW entry \in Lower(n + 1)
          PROVE  entry \in Q
      <3>1. entry \in Entries
        BY DEF Lower
      <3>2. \A i \in 1..Len(entry.children) : entry.children[i] \in Q
        BY <1>2, OneFewer
      <3> QED
        BY <3>1, <3>2
    <2> QED
      BY <2>1
  <1>3. AllTheWay + 1 \in N
    <2> HIDE DEF N
    <2> QED
      BY <1>1, <1>2, OneFewer, NatInduct
  <1> QED
    BY <1>3, OneFewer

\* What is worked out of each thing in an entry, in its order.
OfChildren(f, entry) == [i \in DOMAIN entry.children |-> f[entry.children[i]]]

MadeOf(f, whole) == \A entry \in Entries : f[entry] = whole[entry][OfChildren(f, entry)]

OfParts(V) == {whole \in [Entries -> [Seq(V) -> V]] : TRUE}

\* Where a value comes from those of what is in an entry, there is one for each.
LEMMA OverEntries ==
  ASSUME NEW V, NEW whole \in OfParts(V), NEW some \in V
  PROVE  \E f \in [Entries -> V] : MadeOf(f, whole)
  <1> DEFINE Right(n, f) == \A entry \in Lower(n) : f[entry] = whole[entry][OfChildren(f, entry)]
             N == {n \in Nat : \E f \in [Entries -> V] : Right(n, f)}
  <1>1. ASSUME NEW f \in [Entries -> V], NEW entry \in Entries
        PROVE  OfChildren(f, entry) \in Seq(V) /\ whole[entry][OfChildren(f, entry)] \in V
    <2>1. \A i \in 1..Len(entry.children) : entry.children[i] \in Entries
      BY EntryIs DEF IsChildOf
    <2>2. Len(entry.children) \in Nat /\ DOMAIN entry.children = 1..Len(entry.children)
      BY EntryIs
    <2>3. OfChildren(f, entry) \in [1..Len(entry.children) -> V]
      BY <2>1, <2>2 DEF OfChildren
    <2>4. OfChildren(f, entry) \in Seq(V)
      BY <2>2, <2>3
    <2> QED
      BY <2>4 DEF OfParts
  <1>2. 0 \in N
    <2> DEFINE f == [entry \in Entries |-> some]
    <2>2. f \in [Entries -> V]
      OBVIOUS
    <2> HIDE DEF f
    <2>3. Right(0, f)
      BY OneFewer
    <2> HIDE DEF Right
    <2> QED
      BY <2>2, <2>3
  <1>3. ASSUME NEW n \in Nat, n \in N
        PROVE  n + 1 \in N
    <2>1. PICK f \in [Entries -> V] : Right(n, f)
      BY <1>3
    <2> DEFINE g == [entry \in Entries |-> whole[entry][OfChildren(f, entry)]]
    <2>2. g \in [Entries -> V]
      BY <1>1
    <2>3. \A entry \in Entries : g[entry] = whole[entry][OfChildren(f, entry)]
      OBVIOUS
    <2> HIDE DEF g
    <2>4. \A entry \in Lower(n) : g[entry] = f[entry]
      BY <2>1, <2>3 DEF Lower
    <2>5. ASSUME NEW entry \in Lower(n + 1)
          PROVE  OfChildren(g, entry) = OfChildren(f, entry)
      <3>1. \A i \in 1..Len(entry.children) : entry.children[i] \in Lower(n)
        BY OneFewer
      <3>2. DOMAIN entry.children = 1..Len(entry.children)
        BY EntryIs DEF Lower
      <3>3. \A i \in DOMAIN entry.children : g[entry.children[i]] = f[entry.children[i]]
        BY <2>4, <3>1, <3>2, Zenon
      <3> QED
        BY <3>3 DEF OfChildren
    <2>6. Right(n + 1, g)
      BY <2>3, <2>5 DEF Lower
    <2> HIDE DEF Right
    <2> QED
      BY <2>2, <2>6
  <1>4. AllTheWay + 1 \in N
    <2> HIDE DEF N
    <2> QED
      BY <1>2, <1>3, OneFewer, NatInduct
  <1>5. PICK f \in [Entries -> V] : Right(AllTheWay + 1, f)
    BY <1>4
  <1>6. MadeOf(f, whole)
    BY <1>5, OneFewer DEF MadeOf
  <1> QED
    BY <1>6

\* What is listed of an entry, as a place in its order after what is listed before it.
Parts(entry, n, wanted) ==
  [i \in DOMAIN entry.children |->
     NodeIfWanted(entry.children[i], wanted) \o Flatten(entry.children[i], n, wanted)]

Listing0 == [entry \in Entries |-> <<>>]

ListingOf(below, wanted) ==
  [entry \in Entries |->
     FlattenSeq([i \in DOMAIN entry.children |->
       NodeIfWanted(entry.children[i], wanted) \o below[entry.children[i]]])]

Descending(g, wanted) ==
  g = [n \in Nat |->
        [entry \in Entries |->
           IF n = 0 THEN <<>>
           ELSE FlattenSeq([i \in DOMAIN entry.children |->
                  NodeIfWanted(entry.children[i], wanted) \o g[n - 1][entry.children[i]]])]]

WalkUpto(e, n, wanted) ==
  e[0] = Listing0 /\ \A k \in 1..n : e[k] = ListingOf(e[k - 1], wanted)

\* The lists of a tree exist, depth by depth.
LEMMA ListingsExist ==
  ASSUME NEW wanted
  PROVE  \A n \in Nat : \E e : WalkUpto(e, n, wanted)
  <1> DEFINE Q == {n \in Nat : \E e : WalkUpto(e, n, wanted)}
  <1>1. 0 \in Q
    <2>1. WalkUpto([k \in 0..0 |-> Listing0], 0, wanted)
      BY DEF WalkUpto
    <2> QED
      BY <2>1
  <1>2. ASSUME NEW n \in Nat, n \in Q
        PROVE  n + 1 \in Q
    <2>1. PICK e : WalkUpto(e, n, wanted)
      BY <1>2
    <2> DEFINE d == [k \in 0..(n + 1) |-> IF k = n + 1 THEN ListingOf(e[n], wanted) ELSE e[k]]
    <2>2. \A k \in 0..n : k \in 0..(n + 1) /\ k # n + 1
      OBVIOUS
    <2>3. \A k \in 0..n : d[k] = e[k]
      BY <2>2, Zenon
    <2>4. n + 1 \in 0..(n + 1) /\ n \in 0..n /\ 0 \in 0..n
      OBVIOUS
    <2>5. d[n + 1] = ListingOf(e[n], wanted)
      BY <2>4, Zenon
    <2> HIDE DEF d
    <2>6. ASSUME NEW k \in 1..(n + 1)
          PROVE  d[k] = ListingOf(d[k - 1], wanted)
      <3>1. CASE k = n + 1
        <4>1. k - 1 = n
          BY <3>1
        <4> QED
          BY <2>3, <2>4, <2>5, <3>1, <4>1, Zenon
      <3>2. CASE k # n + 1
        <4>1. k \in 1..n /\ k \in 0..n /\ k - 1 \in 0..n
          BY <3>2
        <4>2. e[k] = ListingOf(e[k - 1], wanted)
          BY <2>1, <4>1, Zenon DEF WalkUpto
        <4> QED
          BY <2>3, <4>1, <4>2, Zenon
      <3> QED
        BY <3>1, <3>2
    <2>7. d[0] = Listing0
      BY <2>1, <2>3, <2>4, Zenon DEF WalkUpto
    <2>8. WalkUpto(d, n + 1, wanted)
      BY <2>6, <2>7 DEF WalkUpto
    <2> QED
      BY <2>8
  <1>3. Nat \subseteq Q
    <2> HIDE DEF Q
    <2> QED
      BY <1>1, <1>2, NatInduct
  <1> QED
    BY <1>3

\* The lists of a tree down to one depth are those down to another.
LEMMA ListingsAgree ==
  ASSUME NEW wanted, NEW n \in Nat, NEW m \in Nat, NEW e, NEW d,
         WalkUpto(e, n, wanted), WalkUpto(d, m, wanted)
  PROVE  \A k \in Nat : k <= n /\ k <= m => e[k] = d[k]
  <1> DEFINE R == {k \in Nat : k <= n /\ k <= m => e[k] = d[k]}
  <1>1. 0 \in R
    BY DEF WalkUpto
  <1>2. ASSUME NEW k \in Nat, k \in R
        PROVE  k + 1 \in R
    <2>1. SUFFICES ASSUME k + 1 <= n, k + 1 <= m
                   PROVE  e[k + 1] = d[k + 1]
      OBVIOUS
    <2>2. k + 1 \in 1..n /\ k + 1 \in 1..m /\ (k + 1) - 1 = k /\ e[k] = d[k]
      BY <1>2, <2>1
    <2>3. e[k + 1] = ListingOf(e[(k + 1) - 1], wanted) /\ d[k + 1] = ListingOf(d[(k + 1) - 1], wanted)
      BY <2>2, Zenon DEF WalkUpto
    <2> QED
      BY <2>2, <2>3, Zenon
  <1>3. Nat \subseteq R
    <2> HIDE DEF R
    <2> QED
      BY <1>1, <1>2, NatInduct
  <1> QED
    BY <1>3

\* flatten: nothing at no depth, and at one more each child, if it is wanted, before what
\* is in it.
LEMMA FlattenIs ==
  ASSUME NEW entry \in Entries, NEW wanted
  PROVE  /\ Flatten(entry, 0, wanted) = <<>>
         /\ \A n \in Nat : Flatten(entry, n + 1, wanted) = FlattenSeq(Parts(entry, n, wanted))
  <1> DEFINE Of(n) == CHOOSE e : WalkUpto(e, n, wanted)
             h == [n \in Nat |-> Of(n)[n]]
  <1>1. \A n \in Nat : WalkUpto(Of(n), n, wanted)
    BY ListingsExist
  <1>2. h[0] = Listing0
    <2> HIDE DEF Of
    <2> QED
      BY <1>1 DEF WalkUpto
  <1>3. ASSUME NEW n \in Nat, n # 0
        PROVE  h[n] = ListingOf(h[n - 1], wanted)
    <2>1. n - 1 \in Nat /\ n \in 1..n /\ n - 1 <= n /\ n - 1 <= n - 1
      BY <1>3
    <2>2. WalkUpto(Of(n), n, wanted) /\ WalkUpto(Of(n - 1), n - 1, wanted)
      BY <1>1, <2>1
    <2> HIDE DEF Of
    <2>3. Of(n)[n] = ListingOf(Of(n)[n - 1], wanted)
      BY <2>1, <2>2, Zenon DEF WalkUpto
    <2>4. Of(n)[n - 1] = Of(n - 1)[n - 1]
      <3>1. PICK m : m = n - 1
        OBVIOUS
      <3>2. PICK u : u = Of(n)
        OBVIOUS
      <3>3. PICK v : v = Of(m)
        OBVIOUS
      <3>4. WalkUpto(u, n, wanted) /\ WalkUpto(v, m, wanted) /\ m \in Nat /\ m <= n /\ m <= m
        BY <2>1, <2>2, <3>1, <3>2, <3>3, Zenon
      <3>5. \A k \in Nat : k <= n /\ k <= m => u[k] = v[k]
        BY <3>4, ListingsAgree
      <3> QED
        BY <3>1, <3>2, <3>3, <3>4, <3>5, Zenon
    <2> QED
      BY <2>1, <2>3, <2>4, Zenon
  <1>4. h = [n \in Nat |-> h[n]]
    OBVIOUS
  <1> HIDE DEF h
  <1>5. ASSUME NEW n \in Nat
        PROVE  h[n] = [inside \in Entries |->
                         IF n = 0 THEN <<>>
                         ELSE FlattenSeq([i \in DOMAIN inside.children |->
                                NodeIfWanted(inside.children[i], wanted) \o h[n - 1][inside.children[i]]])]
    <2>1. CASE n = 0
      BY <1>2, <2>1, Zenon DEF Listing0
    <2>2. CASE n # 0
      BY <1>3, <2>2, Zenon DEF ListingOf
    <2> QED
      BY <2>1, <2>2
  <1>6. Descending(h, wanted)
    BY <1>4, <1>5, Zenon DEF Descending
  <1>7. PICK g : g = CHOOSE f : Descending(f, wanted)
    OBVIOUS
  <1>8. Descending(g, wanted)
    BY <1>6, <1>7, Zenon
  <1>9. \A inside \in Entries : \A n : Flatten(inside, n, wanted) = g[n][inside]
    BY <1>7, Zenon DEF Flatten, Descending
  <1>10. ASSUME NEW n \in Nat
         PROVE  g[n] = [inside \in Entries |->
                          IF n = 0 THEN <<>>
                          ELSE FlattenSeq([i \in DOMAIN inside.children |->
                                 NodeIfWanted(inside.children[i], wanted) \o g[n - 1][inside.children[i]]])]
    BY <1>8, Zenon DEF Descending
  <1>11. Flatten(entry, 0, wanted) = <<>>
    <2>1. 0 \in Nat
      OBVIOUS
    <2>2. g[0] = [inside \in Entries |-> <<>>]
      BY <1>10, <2>1, Zenon
    <2> QED
      BY <1>9, <2>2, Zenon
  <1>12. ASSUME NEW n \in Nat
         PROVE  Flatten(entry, n + 1, wanted) = FlattenSeq(Parts(entry, n, wanted))
    <2>1. PICK m : m = n + 1
      OBVIOUS
    <2>2. m \in Nat /\ m # 0 /\ m - 1 = n
      BY <2>1
    <2>3. g[m][entry] = FlattenSeq([i \in DOMAIN entry.children |->
                          NodeIfWanted(entry.children[i], wanted) \o g[n][entry.children[i]]])
      <3>1. g[m] = [inside \in Entries |->
                      IF m = 0 THEN <<>>
                      ELSE FlattenSeq([i \in DOMAIN inside.children |->
                             NodeIfWanted(inside.children[i], wanted) \o g[m - 1][inside.children[i]]])]
        BY <1>10, <2>2, Zenon
      <3>2. g[m][entry] = IF m = 0 THEN <<>>
                          ELSE FlattenSeq([i \in DOMAIN entry.children |->
                                 NodeIfWanted(entry.children[i], wanted) \o g[m - 1][entry.children[i]]])
        BY <3>1, Zenon
      <3> QED
        BY <2>2, <3>2, Zenon
    <2>4. \A i \in DOMAIN entry.children : g[n][entry.children[i]] = Flatten(entry.children[i], n, wanted)
      <3>1. \A i \in DOMAIN entry.children : entry.children[i] \in Entries
        BY EntryIs DEF IsChildOf
      <3> QED
        BY <1>9, <3>1, Zenon
    <2>5. Parts(entry, n, wanted) = [i \in DOMAIN entry.children |->
                          NodeIfWanted(entry.children[i], wanted) \o g[n][entry.children[i]]]
      BY <2>4 DEF Parts
    <2> QED
      BY <1>9, <2>1, <2>3, <2>5, Zenon
  <1> QED
    BY <1>11, <1>12

\* The rows of a listing, and those that can be asked for under a path.
NodesThereAre ==
  {node \in [path : Seq(Nat), type : {"file", "directory"}, status : Statuses, lines : Nat] :
     Len(node.path) <= AllTheWay}

Inside(path, n, wanted) == {node \in NodesThereAre : AskedFor(node, path, n, wanted)}

\* A row of an entry says of it what it is.
LEMMA NodeIs ==
  ASSUME NEW entry \in Entries, NEW wanted
  PROVE  /\ NodeOf(entry) \in NodesThereAre
         /\ NodeOf(entry).path = entry.path /\ NodeOf(entry).type = entry.type
         /\ NodeOf(entry).status = entry.status /\ NodeOf(entry).lines = entry.lines
         /\ NodeIfWanted(entry, wanted)
              = IF wanted = {} \/ NodeOf(entry).status \in wanted THEN <<NodeOf(entry)>> ELSE <<>>
  BY EntryIs DEF NodeOf, NodesThereAre, NodeIfWanted

\* A child's row is asked for under the entry, and what is asked for under the child is.
LEMMA InsideOfChild ==
  ASSUME NEW entry \in Entries, NEW child \in Entries, IsChildOf(child, entry),
         NEW n \in Nat, NEW wanted
  PROVE  /\ NodeOf(child) \in Inside(entry.path, n + 1, wanted)
              <=> wanted = {} \/ NodeOf(child).status \in wanted
         /\ Inside(child.path, n, wanted) \subseteq Inside(entry.path, n + 1, wanted)
         /\ \A m \in Nat : \A node \in Inside(child.path, m, {}) :
              node \in Inside(entry.path, n + 1, wanted) <=> node \in Inside(child.path, n, wanted)
  <1>1. child \in Entries /\ IsChildOf(child, entry)
    OBVIOUS
  <1>2. PICK p : p = entry.path
    OBVIOUS
  <1>3. PICK q : q = child.path
    OBVIOUS
  <1>4. PICK k \in Nat : k = Len(p)
    BY <1>2, EntryIs
  <1>5. /\ p \in Seq(Nat) /\ q \in Seq(Nat) /\ Len(q) = k + 1
        /\ \A j \in 1..k : q[j] = p[j]
    BY <1>1, <1>2, <1>3, <1>4, EntryIs DEF IsChildOf
  <1>6. IsStrictPrefix(p, q)
    <2>1. Len(p) < Len(q)
      BY <1>4, <1>5
    <2> QED
      BY <1>4, <1>5, <2>1, BeginsWith
  <1>7. ASSUME NEW r \in Seq(Nat)
        PROVE  /\ IsStrictPrefix(q, r) => IsStrictPrefix(p, r)
               /\ Len(r) <= k + (n + 1) <=> Len(r) <= Len(q) + n
    <2>1. PICK m \in Nat : m = Len(r)
      BY LenProperties
    <2>2. IsStrictPrefix(q, r) => IsStrictPrefix(p, r)
      <3>1. SUFFICES ASSUME IsStrictPrefix(q, r)
                     PROVE  IsStrictPrefix(p, r)
        OBVIOUS
      <3>2. k + 1 < m /\ \A j \in 1..(k + 1) : q[j] = r[j]
        BY <1>5, <2>1, <3>1, BeginsWith
      <3>a. \A j \in 1..k : j \in 1..(k + 1)
        OBVIOUS
      <3>3. \A j \in 1..k : p[j] = r[j]
        BY <1>5, <3>2, <3>a, Zenon
      <3>4. k < m
        BY <3>2
      <3> QED
        BY <1>4, <1>5, <2>1, <3>3, <3>4, BeginsWith
    <2>3. m <= k + (n + 1) <=> m <= (k + 1) + n
      OBVIOUS
    <2> QED
      BY <1>5, <2>1, <2>2, <2>3, Zenon
  <1>8. \A node \in NodesThereAre : node.path \in Seq(Nat)
    BY DEF NodesThereAre
  <1>9. ASSUME NEW node \in NodesThereAre, IsStrictPrefix(q, node.path)
        PROVE  AskedFor(node, p, n + 1, wanted) <=> AskedFor(node, q, n, wanted)
    <2>1. IsStrictPrefix(p, node.path) /\ (Len(node.path) <= k + (n + 1) <=> Len(node.path) <= Len(q) + n)
      BY <1>7, <1>8, <1>9, Zenon
    <2> QED
      BY <1>4, <1>9, <2>1, Zenon DEF AskedFor
  <1>10. \A m : \A node \in Inside(q, m, wanted) : node \in NodesThereAre /\ IsStrictPrefix(q, node.path)
    BY DEF Inside, AskedFor
  <1>11. \A m : \A node \in Inside(q, m, {}) : node \in NodesThereAre /\ IsStrictPrefix(q, node.path)
    BY DEF Inside, AskedFor
  <1>12. Inside(q, n, wanted) \subseteq Inside(p, n + 1, wanted)
    BY <1>9, <1>10 DEF Inside
  <1>13. ASSUME NEW m \in Nat, NEW node \in Inside(q, m, {})
         PROVE  node \in Inside(p, n + 1, wanted) <=> node \in Inside(q, n, wanted)
    BY <1>9, <1>11 DEF Inside
  <1>14. NodeOf(child) \in Inside(p, n + 1, wanted) <=> wanted = {} \/ NodeOf(child).status \in wanted
    <2>1. NodeOf(child) \in NodesThereAre /\ NodeOf(child).path = q
      BY <1>1, <1>3, NodeIs
    <2>2. Len(q) <= Len(p) + (n + 1)
      BY <1>4, <1>5
    <2> QED
      BY <1>6, <2>1, <2>2, Zenon DEF Inside, AskedFor
  <1> QED
    BY <1>2, <1>3, <1>12, <1>13, <1>14, Zenon

\* What a sequence has does not change with what is not in it.
LEMMA HavingSame ==
  ASSUME NEW A, NEW s \in Seq(A), NEW good, NEW better,
         \A x \in A : x \in good <=> x \in better
  PROVE  Having(s, good) = Having(s, better)
  <1>1. \A i \in 1..Len(s) : s[i] \in A
    OBVIOUS
  <1>2. {i \in 1..Len(s) : s[i] \in good} = {i \in 1..Len(s) : s[i] \in better}
    BY <1>1
  <1> QED
    BY <1>2, Zenon DEF Having

\* A sequence of some elements is one of more.
LEMMA SeqGrows ==
  ASSUME NEW A, NEW B, A \subseteq B
  PROVE  Seq(A) \subseteq Seq(B)
  OBVIOUS

\* The parts of a listing are as many as there are children.
LEMMA PartsAre ==
  ASSUME NEW entry \in Entries, NEW n, NEW wanted, NEW A,
         \A i \in 1..Len(entry.children) :
           /\ NodeIfWanted(entry.children[i], wanted) \in Seq(A)
           /\ Flatten(entry.children[i], n, wanted) \in Seq(A)
  PROVE  /\ Parts(entry, n, wanted) \in Seq(Seq(A))
         /\ Len(Parts(entry, n, wanted)) = Len(entry.children)
         /\ \A i \in 1..Len(entry.children) :
              Parts(entry, n, wanted)[i]
                = NodeIfWanted(entry.children[i], wanted) \o Flatten(entry.children[i], n, wanted)
  <1>1. PICK k \in Nat : k = Len(entry.children) /\ DOMAIN entry.children = 1..k
    BY EntryIs
  <1>2. Parts(entry, n, wanted) = [i \in 1..k |->
          NodeIfWanted(entry.children[i], wanted) \o Flatten(entry.children[i], n, wanted)]
    BY <1>1, Zenon DEF Parts
  <1>3. \A i \in 1..k : NodeIfWanted(entry.children[i], wanted) \o Flatten(entry.children[i], n, wanted)
                          \in Seq(A)
    BY <1>1, Placed, Zenon
  <1>4. PICK parts : parts = Parts(entry, n, wanted)
    OBVIOUS
  <1>5. parts \in [1..k -> Seq(A)]
    BY <1>2, <1>3, <1>4
  <1>6. parts \in Seq(Seq(A)) /\ Len(parts) = k
    BY <1>5
  <1> QED
    BY <1>1, <1>2, <1>4, <1>6, Zenon

HasRows(n, wanted) == \A entry \in Entries : Flatten(entry, n, wanted) \in Seq(Inside(entry.path, n, wanted))

\* flatten: a listing has rows that were asked for.
LEMMA FlattenTyped ==
  ASSUME NEW wanted
  PROVE  \A n \in Nat : HasRows(n, wanted)
  <1> DEFINE Q == {n \in Nat : HasRows(n, wanted)}
  <1>1. 0 \in Q
    <2>1. \A entry \in Entries : Flatten(entry, 0, wanted) = <<>>
      BY FlattenIs, Zenon
    <2>2. \A entry \in Entries : <<>> \in Seq(Inside(entry.path, 0, wanted))
      OBVIOUS
    <2> QED
      BY <2>1, <2>2 DEF HasRows
  <1>2. ASSUME NEW n \in Nat, n \in Q
        PROVE  n + 1 \in Q
    <2>1. ASSUME NEW entry \in Entries
          PROVE  Flatten(entry, n + 1, wanted) \in Seq(Inside(entry.path, n + 1, wanted))
      <3>1. PICK A : A = Inside(entry.path, n + 1, wanted)
        OBVIOUS
      <3>2. ASSUME NEW i \in 1..Len(entry.children)
            PROVE  /\ NodeIfWanted(entry.children[i], wanted) \in Seq(A)
                   /\ Flatten(entry.children[i], n, wanted) \in Seq(A)
        <4>1. PICK child : child = entry.children[i]
          OBVIOUS
        <4>2. child \in Entries /\ IsChildOf(child, entry)
          BY <4>1, ChildIs, Zenon
        <4>3. /\ NodeOf(child) \in A <=> wanted = {} \/ NodeOf(child).status \in wanted
              /\ Inside(child.path, n, wanted) \subseteq A
          BY <3>1, <4>2, InsideOfChild, Zenon
        <4>4. NodeIfWanted(child, wanted) = IF NodeOf(child) \in A THEN <<NodeOf(child)>> ELSE <<>>
          BY <4>2, <4>3, NodeIs, Zenon
        <4>5. NodeIfWanted(child, wanted) \in Seq(A)
          BY <4>4
        <4>6. Flatten(child, n, wanted) \in Seq(Inside(child.path, n, wanted))
          BY <1>2, <4>2 DEF HasRows
        <4>7. Flatten(child, n, wanted) \in Seq(A)
          BY <4>3, <4>6, SeqGrows
        <4> QED
          BY <4>1, <4>5, <4>7, Zenon
      <3>3. Parts(entry, n, wanted) \in Seq(Seq(A))
        BY <3>2, PartsAre, Zenon
      <3>4. FlattenSeq(Parts(entry, n, wanted)) \in Seq(A)
        BY <3>3, FlattenSeqIs, Zenon
      <3> QED
        BY <3>1, <3>4, FlattenIs, Zenon
    <2> QED
      BY <2>1 DEF HasRows
  <1>3. Nat \subseteq Q
    <2> HIDE DEF Q
    <2> QED
      BY <1>1, <1>2, NatInduct
  <1> QED
    BY <1>3

\* Listings are of the rows there are.
LEMMA FlattenRows ==
  ASSUME NEW entry \in Entries, NEW n \in Nat, NEW wanted
  PROVE  /\ Flatten(entry, n, wanted) \in Seq(Inside(entry.path, n, wanted))
         /\ Flatten(entry, n, wanted) \in Seq(NodesThereAre)
         /\ NodeIfWanted(entry, wanted) \in Seq(NodesThereAre)
  <1>1. Flatten(entry, n, wanted) \in Seq(Inside(entry.path, n, wanted))
    BY FlattenTyped DEF HasRows
  <1>2. Inside(entry.path, n, wanted) \subseteq NodesThereAre
    BY DEF Inside
  <1>3. NodeIfWanted(entry, wanted) \in Seq(NodesThereAre)
    <2>1. NodeOf(entry) \in NodesThereAre
      BY NodeIs
    <2> QED
      BY <2>1 DEF NodeIfWanted
  <1> QED
    BY <1>1, <1>2, <1>3, SeqGrows

\* A row is had if it is one of those.
LEMMA HavingOne ==
  ASSUME NEW x, NEW good
  PROVE  Having(<<x>>, good) = IF x \in good THEN <<x>> ELSE <<>>
  <1>a. PICK one : one = <<x>>
    OBVIOUS
  <1>1. one \in Seq({x})
    BY <1>a
  <1>2. /\ {x} \subseteq good => Having(one, good) = one
        /\ {x} \cap good = {} => Having(one, good) = <<>>
    BY <1>1, HavingAllOrNone
  <1>3. /\ x \in good => {x} \subseteq good
        /\ x \notin good => {x} \cap good = {}
    OBVIOUS
  <1> QED
    BY <1>a, <1>2, <1>3, Zenon

\* Nothing is listed at no depth.
LEMMA NoDepth ==
  ASSUME NEW entry \in Entries, NEW wanted
  PROVE  Inside(entry.path, 0, wanted) = {}
  <1>1. SUFFICES ASSUME NEW node \in Inside(entry.path, 0, wanted)
                 PROVE  FALSE
    OBVIOUS
  <1>2. /\ node.path \in Seq(Nat) /\ IsStrictPrefix(entry.path, node.path)
        /\ Len(node.path) <= Len(entry.path) + 0
    BY <1>1 DEF Inside, NodesThereAre, AskedFor
  <1>3. entry.path \in Seq(Nat)
    BY EntryIs
  <1>4. Len(entry.path) < Len(node.path)
    BY <1>2, <1>3, BeginsWith
  <1>5. Len(entry.path) \in Nat /\ Len(node.path) \in Nat
    BY <1>2, <1>3
  <1> QED
    BY <1>2, <1>4, <1>5

Narrowed(n, wanted) ==
  \A entry \in Entries : \A m \in Nat :
    n <= m => Flatten(entry, n, wanted) = Having(Flatten(entry, m, {}), Inside(entry.path, n, wanted))

\* flatten: less of a tree is the rows of more of it that were asked for.
LEMMA Narrower ==
  ASSUME NEW wanted
  PROVE  \A n \in Nat : Narrowed(n, wanted)
  <1> DEFINE Q == {n \in Nat : Narrowed(n, wanted)}
  <1>1. 0 \in Q
    <2>1. ASSUME NEW entry \in Entries, NEW m \in Nat
          PROVE  Flatten(entry, 0, wanted) = Having(Flatten(entry, m, {}), Inside(entry.path, 0, wanted))
      <3>1. Flatten(entry, m, {}) \in Seq(NodesThereAre)
        BY FlattenRows
      <3>2. NodesThereAre \cap Inside(entry.path, 0, wanted) = {}
        BY NoDepth
      <3>3. Having(Flatten(entry, m, {}), Inside(entry.path, 0, wanted)) = <<>>
        BY <3>1, <3>2, HavingAllOrNone
      <3> QED
        BY <3>3, FlattenIs, Zenon
    <2> QED
      BY <2>1 DEF Narrowed
  <1>2. ASSUME NEW n \in Nat, n \in Q
        PROVE  n + 1 \in Q
    <2>1. ASSUME NEW entry \in Entries, NEW m \in Nat, n + 1 <= m
          PROVE  Flatten(entry, n + 1, wanted)
                   = Having(Flatten(entry, m, {}), Inside(entry.path, n + 1, wanted))
      <3>1. PICK k \in Nat : m = k + 1 /\ n <= k
        <4>1. m - 1 \in Nat /\ m = (m - 1) + 1 /\ n <= m - 1
          BY <2>1
        <4> QED
          BY <4>1
      <3>2. PICK good : good = Inside(entry.path, n + 1, wanted)
        OBVIOUS
      <3>3. PICK lists : lists = Parts(entry, k, {})
        OBVIOUS
      <3>4. PICK left : left = Parts(entry, n, wanted)
        OBVIOUS
      <3>5. ASSUME NEW i \in 1..Len(entry.children), NEW any, NEW depth \in Nat
            PROVE  /\ NodeIfWanted(entry.children[i], any) \in Seq(NodesThereAre)
                   /\ Flatten(entry.children[i], depth, any) \in Seq(NodesThereAre)
        BY ChildIs, FlattenRows, Zenon
      <3>6. /\ lists \in Seq(Seq(NodesThereAre)) /\ Len(lists) = Len(entry.children)
            /\ \A i \in 1..Len(entry.children) :
                 lists[i] = NodeIfWanted(entry.children[i], {}) \o Flatten(entry.children[i], k, {})
        BY <3>3, <3>5, PartsAre, Zenon
      <3>7. /\ left \in Seq(Seq(NodesThereAre)) /\ Len(left) = Len(entry.children)
            /\ \A i \in 1..Len(entry.children) :
                 left[i] = NodeIfWanted(entry.children[i], wanted) \o Flatten(entry.children[i], n, wanted)
        BY <3>4, <3>5, PartsAre, Zenon
      <3>8. ASSUME NEW i \in 1..Len(entry.children)
            PROVE  left[i] = Having(lists[i], good)
        <4>1. PICK child : child = entry.children[i]
          OBVIOUS
        <4>2. child \in Entries /\ IsChildOf(child, entry)
          BY <4>1, ChildIs, Zenon
        <4>3. /\ NodeOf(child) \in good <=> wanted = {} \/ NodeOf(child).status \in wanted
              /\ \A node \in Inside(child.path, k, {}) : node \in good <=> node \in Inside(child.path, n, wanted)
          BY <3>2, <4>2, InsideOfChild, Zenon
        <4>4. NodeIfWanted(child, {}) = <<NodeOf(child)>>
          BY <4>2, NodeIs, Zenon
        <4>5. NodeIfWanted(child, wanted) = Having(<<NodeOf(child)>>, good)
          BY <4>2, <4>3, NodeIs, HavingOne, Zenon
        <4>6. Flatten(child, k, {}) \in Seq(Inside(child.path, k, {}))
          BY <4>2, FlattenRows, Zenon
        <4>7. Having(Flatten(child, k, {}), good) = Having(Flatten(child, k, {}), Inside(child.path, n, wanted))
          BY <4>3, <4>6, HavingSame
        <4>8. Flatten(child, n, wanted) = Having(Flatten(child, k, {}), Inside(child.path, n, wanted))
          BY <1>2, <3>1, <4>2 DEF Narrowed
        <4>9. <<NodeOf(child)>> \in Seq(NodesThereAre) /\ Flatten(child, k, {}) \in Seq(NodesThereAre)
          BY <4>2, <4>4, FlattenRows
        <4>10. Having(<<NodeOf(child)>> \o Flatten(child, k, {}), good)
                 = Having(<<NodeOf(child)>>, good) \o Having(Flatten(child, k, {}), good)
          <5>1. PICK one : one = <<NodeOf(child)>>
            OBVIOUS
          <5>2. PICK rest : rest = Flatten(child, k, {})
            OBVIOUS
          <5>3. Having(one \o rest, good) = Having(one, good) \o Having(rest, good)
            <6>1. one \in Seq(NodesThereAre) /\ rest \in Seq(NodesThereAre)
              BY <4>9, <5>1, <5>2, Zenon
            <6> QED
              BY ONLY <6>1, HavingOfBoth
          <5> QED
            BY <5>1, <5>2, <5>3, Zenon
        <4> QED
          BY <3>6, <3>7, <4>1, <4>4, <4>5, <4>7, <4>8, <4>10, Zenon
      <3>9. Len(left) = Len(lists) /\ \A i \in 1..Len(lists) : left[i] = Having(lists[i], good)
        BY <3>6, <3>7, <3>8, Zenon
      <3>10. Having(FlattenSeq(lists), good) = FlattenSeq(left)
        BY <3>6, <3>7, <3>9, HavingOfAll
      <3>11. Flatten(entry, k + 1, {}) = FlattenSeq(lists) /\ Flatten(entry, n + 1, wanted) = FlattenSeq(left)
        BY <3>1, <3>3, <3>4, FlattenIs, Zenon
      <3> QED
        BY <3>1, <3>2, <3>10, <3>11, Zenon
    <2> QED
      BY <2>1 DEF Narrowed
  <1>3. Nat \subseteq Q
    <2> HIDE DEF Q
    <2> QED
      BY <1>1, <1>2, NatInduct
  <1> QED
    BY <1>3

\* A tree is listed whole from where no name is deeper.
LEMMA Stable ==
  ASSUME NEW entry \in Entries, NEW n \in Nat, NEW m \in Nat, n <= m,
         Len(entry.path) + n >= AllTheWay
  PROVE  Flatten(entry, n, {}) = Flatten(entry, m, {})
  <1>1. Flatten(entry, n, {}) = Having(Flatten(entry, m, {}), Inside(entry.path, n, {}))
    BY Narrower DEF Narrowed
  <1>2. Flatten(entry, m, {}) \in Seq(Inside(entry.path, m, {}))
    BY FlattenRows
  <1>3. ASSUME NEW node \in Inside(entry.path, m, {})
        PROVE  node \in Inside(entry.path, n, {})
    <2>1. node \in NodesThereAre /\ AskedFor(node, entry.path, m, {})
      BY DEF Inside
    <2>2. Len(node.path) \in Nat /\ Len(node.path) <= AllTheWay
      BY <2>1 DEF NodesThereAre
    <2>3. Len(entry.path) \in Nat /\ AllTheWay \in Nat
      BY EntryIs, DepthsAssumption
    <2>4. Len(node.path) <= Len(entry.path) + n
      BY <2>2, <2>3
    <2> QED
      BY <2>1, <2>4 DEF Inside, AskedFor
  <1>4. Inside(entry.path, m, {}) \subseteq Inside(entry.path, n, {})
    BY <1>3
  <1>5. Having(Flatten(entry, m, {}), Inside(entry.path, n, {})) = Flatten(entry, m, {})
    BY <1>2, <1>4, HavingAllOrNone
  <1> QED
    BY <1>1, <1>5, Zenon

\* The rows that are strictly under a path.
Under(path) == {node \in NodesThereAre : IsStrictPrefix(path, node.path)}

AllParts(entry) ==
  [i \in DOMAIN entry.children |-> <<NodeOf(entry.children[i])>> \o AllNodes(entry.children[i])]

\* All there is under a path is as deep as anything is.
LEMMA UnderIs ==
  ASSUME NEW path \in Seq(Nat)
  PROVE  Inside(path, AllTheWay, {}) = Under(path)
  <1>1. ASSUME NEW node \in NodesThereAre
        PROVE  Len(node.path) <= Len(path) + AllTheWay
    <2>1. Len(node.path) \in Nat /\ Len(node.path) <= AllTheWay
      BY DEF NodesThereAre
    <2>2. Len(path) \in Nat /\ AllTheWay \in Nat
      BY DepthsAssumption
    <2> QED
      BY <2>1, <2>2
  <1> QED
    BY <1>1 DEF Inside, Under, AskedFor

\* The whole answer about an entry: each child before all that is in it.
LEMMA AllIs ==
  ASSUME NEW entry \in Entries
  PROVE  /\ AllNodes(entry) \in Seq(NodesThereAre)
         /\ AllNodes(entry) \in Seq(Under(entry.path))
         /\ AllParts(entry) \in Seq(Seq(NodesThereAre))
         /\ Len(AllParts(entry)) = Len(entry.children)
         /\ \A i \in 1..Len(entry.children) :
              AllParts(entry)[i] = <<NodeOf(entry.children[i])>> \o AllNodes(entry.children[i])
         /\ AllNodes(entry) = FlattenSeq(AllParts(entry))
  <1>1. AllNodes(entry) \in Seq(NodesThereAre) /\ AllNodes(entry) \in Seq(Under(entry.path))
    <2>1. AllTheWay \in Nat /\ entry.path \in Seq(Nat)
      BY DepthsAssumption, EntryIs
    <2> QED
      BY <2>1, FlattenRows, UnderIs, Zenon DEF AllNodes
  <1>2. PICK k \in Nat : AllTheWay = k + 1
    <2>1. AllTheWay - 1 \in Nat /\ AllTheWay = (AllTheWay - 1) + 1
      BY DepthsAssumption
    <2> QED
      BY <2>1
  <1>3. ASSUME NEW i \in 1..Len(entry.children)
        PROVE  /\ Flatten(entry.children[i], k, {}) = AllNodes(entry.children[i])
               /\ NodeIfWanted(entry.children[i], {}) = <<NodeOf(entry.children[i])>>
    <2>1. PICK child : child = entry.children[i]
      OBVIOUS
    <2>2. child \in Entries /\ IsChildOf(child, entry)
      BY <2>1, ChildIs, Zenon
    <2>3. Len(child.path) + k >= AllTheWay
      <3>1. Len(child.path) = Len(entry.path) + 1 /\ Len(entry.path) \in Nat
        BY <2>2, EntryIs DEF IsChildOf
      <3> QED
        BY <1>2, <3>1
    <2>4. Flatten(child, k, {}) = Flatten(child, k + 1, {})
      <3>1. k + 1 \in Nat /\ k <= k + 1
        OBVIOUS
      <3> QED
        BY <2>2, <2>3, <3>1, Stable
    <2>5. NodeIfWanted(child, {}) = <<NodeOf(child)>>
      BY <2>2, NodeIs, Zenon
    <2> QED
      BY <1>2, <2>1, <2>4, <2>5, Zenon DEF AllNodes
  <1>4. Parts(entry, k, {}) = AllParts(entry)
    <2>1. DOMAIN entry.children = 1..Len(entry.children)
      BY EntryIs
    <2> QED
      BY <1>3, <2>1, Zenon DEF Parts, AllParts
  <1>5. \A i \in 1..Len(entry.children) :
          /\ NodeIfWanted(entry.children[i], {}) \in Seq(NodesThereAre)
          /\ Flatten(entry.children[i], k, {}) \in Seq(NodesThereAre)
    BY ChildIs, FlattenRows, Zenon
  <1>6. /\ Parts(entry, k, {}) \in Seq(Seq(NodesThereAre))
        /\ Len(Parts(entry, k, {})) = Len(entry.children)
        /\ \A i \in 1..Len(entry.children) :
             Parts(entry, k, {})[i]
               = NodeIfWanted(entry.children[i], {}) \o Flatten(entry.children[i], k, {})
    BY <1>5, PartsAre, Zenon
  <1>7. AllNodes(entry) = FlattenSeq(Parts(entry, k, {}))
    BY <1>2, FlattenIs, Zenon DEF AllNodes
  <1> QED
    BY <1>1, <1>3, <1>4, <1>6, <1>7, Zenon

\* Nothing is listed under a file.
LEMMA NothingInAFile ==
  ASSUME NEW entry \in Entries, entry.type = "file"
  PROVE  AllNodes(entry) = <<>>
  <1>1. Len(AllParts(entry)) = 0
    BY AllIs, EntryIs, Zenon
  <1>2. PICK lists : lists = AllParts(entry)
    OBVIOUS
  <1>3. lists \in Seq(Seq(NodesThereAre)) /\ Len(lists) = 0
    BY <1>1, <1>2, AllIs, Zenon
  <1>4. 0 \in Nat /\ 0 \notin 1..Len(lists) /\ \A i \in 1..Len(lists) : i # 0 => lists[i] = <<>>
    BY <1>3
  <1>5. FlattenSeq(lists) = <<>>
    BY <1>3, <1>4, FlattenOne
  <1> QED
    BY <1>2, <1>5, AllIs, Zenon

\* The least of some numbers is one of them.
LEMMA LeastOf ==
  ASSUME NEW numbers, numbers \subseteq Nat, numbers # {}
  PROVE  Min(numbers) \in numbers
  <1> DEFINE R == OpToRel(<, Nat)
  <1>1. PICK m \in numbers : \A x \in numbers : <<x, m>> \notin R
    <2>1. IsWellFoundedOn(R, Nat)
      BY NatLessThanWellFounded, Zenon DEF R
    <2> HIDE DEF R
    <2> QED
      BY <2>1, WFMin
  <1>2. \A x \in numbers : m <= x
    <2>1. ASSUME NEW x \in numbers
          PROVE  m <= x
      <3>1. x \in Nat /\ m \in Nat
        OBVIOUS
      <3>2. x < m => <<x, m>> \in R
        BY <3>1 DEF OpToRel
      <3>3. ~(x < m)
        BY <1>1, <3>2, Zenon
      <3> QED
        BY <3>1, <3>3
    <2> QED
      BY <2>1
  <1> QED
    BY <1>2, Zenon DEF Min

Finding(f, path, kind) ==
  f = [entry \in Entries |->
        IF entry.path = path THEN {found \in {entry} : found.type = kind}
        ELSE IF Leading(entry, path, kind) = {} THEN {}
        ELSE f[entry.children[Min(Leading(entry, path, kind))]]]

\* node_at goes into the first child that leads to the path.
LEMMA NodeAtIs ==
  ASSUME NEW entry \in Entries, NEW path, NEW kind
  PROVE  /\ entry.path = path => NodeAt(entry, path, kind) = IF entry.type = kind THEN {entry} ELSE {}
         /\ entry.path # path /\ Leading(entry, path, kind) = {} => NodeAt(entry, path, kind) = {}
         /\ entry.path # path /\ Leading(entry, path, kind) # {} =>
              NodeAt(entry, path, kind)
                = NodeAt(entry.children[Min(Leading(entry, path, kind))], path, kind)
  <1> DEFINE V == SUBSET Entries
             At(some) == {found \in {some} : found.type = kind}
             least(some) == Min(Leading(some, path, kind))
             Of(some, below) == IF some.path = path THEN At(some)
                                ELSE IF Leading(some, path, kind) = {} THEN {}
                                ELSE IF least(some) \in DOMAIN below THEN below[least(some)] ELSE {}
             whole == [some \in Entries |-> [below \in Seq(V) |-> Of(some, below)]]
  <1>1. ASSUME NEW some \in Entries, NEW below \in Seq(V)
        PROVE  Of(some, below) \in V
    <2>1. At(some) \in V /\ {} \in V
      OBVIOUS
    <2>2. \A i \in DOMAIN below : below[i] \in V
      OBVIOUS
    <2> QED
      BY <2>1, <2>2, Zenon
  <1>2. whole \in OfParts(V) /\ {} \in V
    BY <1>1 DEF OfParts
  <1>3. \A some \in Entries : \A below \in Seq(V) : whole[some][below] = Of(some, below)
    OBVIOUS
  <1> HIDE DEF whole, Of
  <1>4. PICK f \in [Entries -> V] : MadeOf(f, whole)
    <2>1. PICK W : W = V
      OBVIOUS
    <2>2. whole \in OfParts(W) /\ {} \in W
      BY <1>2, <2>1
    <2>3. \E f \in [Entries -> W] : MadeOf(f, whole)
      BY ONLY <2>2, OverEntries
    <2> QED
      BY <2>1, <2>3, Zenon
  <1>5. ASSUME NEW some \in Entries
        PROVE  /\ some.path = path => f[some] = At(some)
               /\ some.path # path /\ Leading(some, path, kind) = {} => f[some] = {}
               /\ some.path # path /\ Leading(some, path, kind) # {} =>
                    f[some] = f[some.children[least(some)]]
    <2>1. PICK below : below = OfChildren(f, some)
      OBVIOUS
    <2>2. \A i \in DOMAIN some.children : some.children[i] \in Entries
      BY ChildIs, EntryIs
    <2>3. /\ DOMAIN some.children = 1..Len(some.children) /\ Len(some.children) \in Nat
      BY EntryIs
    <2>4. below = [i \in 1..Len(some.children) |-> f[some.children[i]]]
      BY <2>1, <2>3, Zenon DEF OfChildren
    <2>5. \A i \in 1..Len(some.children) : f[some.children[i]] \in V
      BY <2>2, <2>3
    <2>6. below \in [1..Len(some.children) -> V]
      BY <2>4, <2>5
    <2>7. below \in Seq(V)
      BY <2>3, <2>6
    <2>8. f[some] = Of(some, below)
      BY <1>3, <1>4, <2>1, <2>7, Zenon DEF MadeOf
    <2>9. Leading(some, path, kind) # {} =>
            least(some) \in 1..Len(some.children) /\ below[least(some)] = f[some.children[least(some)]]
      <3>1. Leading(some, path, kind) \subseteq 1..Len(some.children)
        BY <2>3, Zenon DEF Leading
      <3>2. Leading(some, path, kind) \subseteq Nat
        BY <3>1
      <3>3. Leading(some, path, kind) # {} => least(some) \in Leading(some, path, kind)
        BY <3>2, LeastOf
      <3> QED
        BY <2>4, <3>1, <3>3, Zenon
    <2>10. DOMAIN below = 1..Len(some.children)
      BY <2>4, Zenon
    <2> QED
      BY <2>8, <2>9, <2>10, Zenon DEF Of
  <1>6. Finding(f, path, kind)
    <2> DEFINE body(some) ==
                 IF some.path = path THEN {found \in {some} : found.type = kind}
                 ELSE IF Leading(some, path, kind) = {} THEN {}
                 ELSE f[some.children[Min(Leading(some, path, kind))]]
    <2>1. ASSUME NEW some \in Entries
          PROVE  f[some] = body(some)
      <3>1. /\ some.path = path => body(some) = At(some)
            /\ some.path # path /\ Leading(some, path, kind) = {} => body(some) = {}
            /\ some.path # path /\ Leading(some, path, kind) # {} =>
                 body(some) = f[some.children[least(some)]]
        <4>1. CASE some.path = path
          BY <4>1
        <4>2. CASE some.path # path /\ Leading(some, path, kind) = {}
          BY <4>2
        <4>3. CASE some.path # path /\ Leading(some, path, kind) # {}
          BY <4>3
        <4> QED
          BY <4>1, <4>2, <4>3
      <3> QED
        BY <1>5, <3>1, Zenon
    <2>2. f = [some \in Entries |-> f[some]]
      BY <1>4
    <2>3. f = [some \in Entries |-> body(some)]
      BY <2>1, <2>2, Zenon
    <2> QED
      BY <2>3, Zenon DEF Finding
  <1>7. PICK g : g = CHOOSE h : Finding(h, path, kind)
    OBVIOUS
  <1>8. Finding(g, path, kind)
    BY <1>6, <1>7, Zenon
  <1>9. \A some \in Entries : NodeAt(some, path, kind) = g[some]
    BY <1>7, Zenon DEF NodeAt, Finding
  <1>10. ASSUME NEW some \in Entries
         PROVE  g[some] = IF some.path = path THEN {found \in {some} : found.type = kind}
                          ELSE IF Leading(some, path, kind) = {} THEN {}
                          ELSE g[some.children[Min(Leading(some, path, kind))]]
    BY <1>8, Zenon DEF Finding
  <1>11. CASE entry.path = path
    <2>1. g[entry] = {found \in {entry} : found.type = kind}
      BY <1>10, <1>11
    <2>2. g[entry] = IF entry.type = kind THEN {entry} ELSE {}
      BY <2>1
    <2> QED
      BY <1>9, <1>11, <2>2, Zenon
  <1>12. CASE entry.path # path /\ Leading(entry, path, kind) = {}
    <2>1. g[entry] = {}
      BY <1>10, <1>12
    <2> QED
      BY <1>9, <1>12, <2>1, Zenon
  <1>13. CASE entry.path # path /\ Leading(entry, path, kind) # {}
    <2>1. g[entry] = g[entry.children[Min(Leading(entry, path, kind))]]
      BY <1>10, <1>13
    <2>2. entry.children[Min(Leading(entry, path, kind))] \in Entries
      <3>1. Leading(entry, path, kind) \subseteq DOMAIN entry.children
        BY DEF Leading
      <3>2. DOMAIN entry.children = 1..Len(entry.children)
        BY EntryIs
      <3>3. Leading(entry, path, kind) \subseteq Nat
        BY <3>1, <3>2
      <3>4. Min(Leading(entry, path, kind)) \in Leading(entry, path, kind)
        BY <1>13, <3>3, LeastOf
      <3> QED
        BY <3>1, <3>2, <3>4, ChildIs, Zenon
    <2> QED
      BY <1>9, <1>13, <2>1, <2>2, Zenon
  <1> QED
    BY <1>11, <1>12, <1>13, Zenon

\* What begins one path that another begins too, and is no longer, begins the other.
LEMMA BothBegin ==
  ASSUME NEW p \in Seq(Nat), NEW q \in Seq(Nat), NEW r \in Seq(Nat), Len(q) <= Len(p),
         IsPrefix(p, r), IsPrefix(q, r)
  PROVE  q = p \/ IsStrictPrefix(q, p)
  <1>1. PICK k \in Nat : k = Len(p)
    OBVIOUS
  <1>2. PICK l \in Nat : l = Len(q)
    OBVIOUS
  <1>3. /\ \A i \in 1..k : p[i] = r[i]
        /\ \A i \in 1..l : q[i] = r[i]
    BY <1>1, <1>2, BeginsWith
  <1>4. \A i \in 1..l : i \in 1..k
    BY <1>1, <1>2
  <1>5. \A i \in 1..l : q[i] = p[i]
    BY <1>3, <1>4, Zenon
  <1>6. CASE l = k
    <2>1. Len(q) = Len(p) /\ \A i \in 1..Len(q) : q[i] = p[i]
      BY <1>1, <1>2, <1>5, <1>6, Zenon
    <2>2. q = p
      BY <2>1, SeqEqual
    <2> QED
      BY <2>2
  <1>7. CASE l < k
    BY <1>1, <1>2, <1>5, <1>7, BeginsWith
  <1> QED
    BY <1>1, <1>2, <1>6, <1>7

\* A path begins another strictly, or is it.
LEMMA StrictOrSame ==
  ASSUME NEW p \in Seq(Nat), NEW q \in Seq(Nat)
  PROVE  /\ IsPrefix(p, p)
         /\ IsStrictPrefix(p, q) => IsPrefix(p, q) /\ Len(p) < Len(q)
         /\ IsPrefix(p, q) /\ p # q => IsStrictPrefix(p, q)
  <1>1. IsPrefix(p, p)
    BY BeginsWith
  <1>2. IsStrictPrefix(p, q) => IsPrefix(p, q) /\ Len(p) < Len(q)
    <2>1. Len(p) < Len(q) => Len(p) <= Len(q)
      OBVIOUS
    <2> QED
      BY <2>1, BeginsWith, Zenon
  <1>3. IsPrefix(p, q) /\ p # q => IsStrictPrefix(p, q)
    BY Zenon DEF IsStrictPrefix
  <1> QED
    BY <1>1, <1>2, <1>3

\* A child that does not lead to a path has nothing under it to give, and one that does
\* gives what is under the path in it.
LEMMA ChildGives ==
  ASSUME NEW entry \in Entries, NEW child \in Entries, IsChildOf(child, entry),
         NEW path \in Seq(Nat), IsStrictPrefix(entry.path, path)
  PROVE  /\ Having(<<NodeOf(child)>>, Under(path)) = <<>>
         /\ LeadsTo(child, path, "directory") => child.type = "directory" /\ IsPrefix(child.path, path)
         /\ ~LeadsTo(child, path, "directory") => Having(AllNodes(child), Under(path)) = <<>>
  <1>1. PICK p \in Seq(Nat) : p = entry.path
    BY EntryIs
  <1>2. PICK q \in Seq(Nat) : q = child.path
    BY EntryIs
  <1>3. Len(q) = Len(p) + 1 /\ Len(p) < Len(path)
    BY <1>1, <1>2, StrictOrSame DEF IsChildOf
  <1>4. Len(q) <= Len(path)
    BY <1>3
  <1>5. NodeOf(child) \notin Under(path)
    <2>1. SUFFICES ASSUME IsStrictPrefix(path, q)
                   PROVE  FALSE
      BY <1>2, NodeIs DEF Under
    <2>2. Len(path) < Len(q)
      BY <2>1, StrictOrSame
    <2> QED
      BY <1>4, <2>2
  <1>6. Having(<<NodeOf(child)>>, Under(path)) = <<>>
    BY <1>5, HavingOne, Zenon
  <1>7. LeadsTo(child, path, "directory") => child.type = "directory" /\ IsPrefix(child.path, path)
    BY <1>2, StrictOrSame DEF LeadsTo
  <1>8. ASSUME ~LeadsTo(child, path, "directory")
        PROVE  Having(AllNodes(child), Under(path)) = <<>>
    <2>1. CASE child.type = "file"
      BY <2>1, NothingInAFile, HavingNothing, Zenon
    <2>2. CASE child.type = "directory"
      <3>1. q # path /\ ~IsStrictPrefix(q, path)
        BY <1>2, <1>8, <2>2 DEF LeadsTo
      <3>2. ASSUME NEW node \in Under(q), node \in Under(path)
            PROVE  FALSE
        <4>1. node.path \in Seq(Nat) /\ IsStrictPrefix(q, node.path) /\ IsStrictPrefix(path, node.path)
          BY <3>2 DEF Under, NodesThereAre
        <4>2. IsPrefix(q, node.path) /\ IsPrefix(path, node.path)
          BY <4>1, StrictOrSame
        <4> QED
          BY <1>4, <3>1, <4>1, <4>2, BothBegin
      <3>3. Under(q) \cap Under(path) = {}
        BY <3>2
      <3>4. AllNodes(child) \in Seq(Under(q))
        BY <1>2, AllIs, Zenon
      <3> QED
        BY <3>3, <3>4, HavingAllOrNone
    <2> QED
      BY <2>1, <2>2, EntryIs
  <1> QED
    BY <1>6, <1>7, <1>8, Zenon

\* What is under a path is the whole answer about the directory at it.
FoundAt(entry, path) ==
  \/ NodeAt(entry, path, "directory") = {} /\ Having(AllNodes(entry), Under(path)) = <<>>
  \/ \E there \in Entries :
       /\ NodeAt(entry, path, "directory") = {there}
       /\ there.path = path
       /\ Having(AllNodes(entry), Under(path)) = AllNodes(there)

IsFound(entry, path) == entry.type = "directory" /\ IsPrefix(entry.path, path) => FoundAt(entry, path)

\* node_at: at most one child leads to a path, and only what is in that one is under it.
LEMMA Rooted ==
  ASSUME NEW path \in Seq(Nat)
  PROVE  \A entry \in Entries : IsFound(entry, path)
  <1> DEFINE Q == {entry \in Entries : IsFound(entry, path)}
  <1>1. ASSUME NEW entry \in Entries, \A i \in 1..Len(entry.children) : entry.children[i] \in Q
        PROVE  entry \in Q
    <2>1. SUFFICES ASSUME entry.type = "directory", IsPrefix(entry.path, path)
                   PROVE  FoundAt(entry, path)
      BY DEF IsFound
    <2>2. CASE entry.path = path
      <3>1. NodeAt(entry, path, "directory") = {entry}
        BY <2>1, <2>2, NodeAtIs, Zenon
      <3>2. AllNodes(entry) \in Seq(Under(path))
        BY <2>2, AllIs, Zenon
      <3>3. Having(AllNodes(entry), Under(path)) = AllNodes(entry)
        BY <3>2, HavingAllOrNone
      <3> QED
        BY <2>2, <3>1, <3>3, Zenon DEF FoundAt
    <2>3. CASE entry.path # path
      <3>1. IsStrictPrefix(entry.path, path)
        BY <2>1, <2>3, StrictOrSame, EntryIs
      <3>2. PICK lists : lists = AllParts(entry)
        OBVIOUS
      <3>3. PICK len \in Nat : len = Len(entry.children) /\ DOMAIN entry.children = 1..len
        BY EntryIs
      <3>4. /\ lists \in Seq(Seq(NodesThereAre)) /\ Len(lists) = len
            /\ \A i \in 1..len :
                 lists[i] = <<NodeOf(entry.children[i])>> \o AllNodes(entry.children[i])
            /\ AllNodes(entry) = FlattenSeq(lists)
        BY <3>2, <3>3, AllIs, Zenon
      <3> DEFINE given(i) == Having(AllNodes(entry.children[i]), Under(path))
                 leading == Leading(entry, path, "directory")
      <3>5. PICK left : left = [i \in 1..len |-> given(i)]
        OBVIOUS
      <3>6. ASSUME NEW i \in 1..len
            PROVE  /\ given(i) \in Seq(NodesThereAre)
                   /\ left[i] = given(i)
                   /\ left[i] = Having(lists[i], Under(path))
                   /\ i \notin leading => left[i] = <<>>
                   /\ i \in leading => /\ entry.children[i].type = "directory"
                                       /\ IsPrefix(entry.children[i].path, path)
        <4>1. PICK child : child = entry.children[i]
          OBVIOUS
        <4>2. child \in Entries /\ IsChildOf(child, entry)
          BY <3>3, <4>1, ChildIs, Zenon
        <4>3. /\ Having(<<NodeOf(child)>>, Under(path)) = <<>>
              /\ LeadsTo(child, path, "directory") => child.type = "directory" /\ IsPrefix(child.path, path)
              /\ ~LeadsTo(child, path, "directory") => Having(AllNodes(child), Under(path)) = <<>>
          BY <3>1, <4>2, ChildGives, Zenon
        <4>4. PICK one : one = <<NodeOf(child)>>
          OBVIOUS
        <4>5. PICK rest : rest = AllNodes(child)
          OBVIOUS
        <4>6. one \in Seq(NodesThereAre) /\ rest \in Seq(NodesThereAre)
          <5>1. NodeOf(child) \in NodesThereAre
            BY <4>2, NodeIs, Zenon
          <5>2. <<NodeOf(child)>> \in Seq(NodesThereAre)
            BY <5>1
          <5>3. AllNodes(child) \in Seq(NodesThereAre)
            BY <4>2, AllIs, Zenon
          <5> QED
            BY <4>4, <4>5, <5>2, <5>3, Zenon
        <4>7. Having(one \o rest, Under(path)) = Having(one, Under(path)) \o Having(rest, Under(path))
          BY ONLY <4>6, HavingOfBoth
        <4>8. Having(rest, Under(path)) \in Seq(NodesThereAre)
          BY <4>6, HavingTyped
        <4>9. PICK had : had = Having(rest, Under(path))
          OBVIOUS
        <4>10. <<>> \o had = had
          BY <4>8, <4>9
        <4>11. Having(lists[i], Under(path)) = had
          BY <3>4, <4>1, <4>3, <4>4, <4>5, <4>7, <4>9, <4>10, Zenon
        <4>12. left[i] = given(i) /\ given(i) = had
          BY <3>5, <4>1, <4>5, <4>9, Zenon
        <4>13. i \in leading <=> LeadsTo(child, path, "directory")
          BY <3>3, <4>1, Zenon DEF Leading
        <4> QED
          BY <4>1, <4>3, <4>5, <4>8, <4>9, <4>11, <4>12, <4>13, Zenon
      <3>7. left \in Seq(Seq(NodesThereAre)) /\ Len(left) = len
        <4> HIDE DEF given
        <4>1. \A i \in 1..len : given(i) \in Seq(NodesThereAre)
          BY <3>6
        <4>2. left \in [1..len -> Seq(NodesThereAre)]
          BY <3>5, <4>1
        <4> QED
          BY <4>2
      <3>8. Having(AllNodes(entry), Under(path)) = FlattenSeq(left)
        <4>1. Len(left) = Len(lists) /\ \A i \in 1..Len(lists) : left[i] = Having(lists[i], Under(path))
          BY <3>4, <3>6, <3>7
        <4>2. Having(FlattenSeq(lists), Under(path)) = FlattenSeq(left)
          BY ONLY <3>4, <3>7, <4>1, HavingOfAll
        <4> QED
          BY <3>4, <4>2, Zenon
      <3>9. leading \subseteq 1..len
        BY <3>3, Zenon DEF Leading
      <3>10. CASE leading = {}
        <4>1. NodeAt(entry, path, "directory") = {}
          BY <2>3, <3>10, NodeAtIs, Zenon
        <4>2. 0 \in Nat /\ 0 \notin 1..Len(left) /\ \A i \in 1..Len(left) : i # 0 => left[i] = <<>>
          BY <3>6, <3>7, <3>10
        <4>3. FlattenSeq(left) = <<>>
          BY ONLY <3>7, <4>2, FlattenOne
        <4> QED
          BY <3>8, <4>1, <4>3, Zenon DEF FoundAt
      <3>11. CASE leading # {}
        <4>1. PICK at : at = Min(leading)
          OBVIOUS
        <4>2. at \in leading /\ at \in 1..len /\ at \in Nat
          <5>1. leading \subseteq Nat
            BY <3>9
          <5>2. at \in leading
            BY <3>11, <4>1, <5>1, LeastOf, Zenon
          <5> QED
            BY <3>9, <5>1, <5>2
        <4>3. PICK child : child = entry.children[at]
          OBVIOUS
        <4>4. NodeAt(entry, path, "directory") = NodeAt(child, path, "directory")
          BY <2>3, <3>11, <4>1, <4>3, NodeAtIs, Zenon
        <4>5. child.type = "directory" /\ IsPrefix(child.path, path) /\ child \in Q
          BY <1>1, <3>3, <3>6, <4>2, <4>3, Zenon
        <4>6. FoundAt(child, path)
          BY <4>5 DEF IsFound
        <4>7. ASSUME NEW i \in 1..len, i # at
              PROVE  left[i] = <<>>
          <5>1. SUFFICES ASSUME i \in leading
                         PROVE  FALSE
            BY <3>6
          <5>2. PICK other : other = entry.children[i]
            OBVIOUS
          <5>3. other.type = "directory" /\ IsPrefix(other.path, path)
            BY <3>6, <5>1, <5>2
          <5>4. other \in Entries /\ child \in Entries /\ IsChildOf(other, entry) /\ IsChildOf(child, entry)
            BY <3>3, <4>2, <4>3, <5>2, ChildIs, Zenon
          <5>5. Len(other.path) = Len(child.path)
            BY <5>4, Zenon DEF IsChildOf
          <5>6. other.path \in Seq(Nat) /\ child.path \in Seq(Nat)
            BY <5>4, EntryIs
          <5>7. other.path = child.path
            <6>1. other.path = child.path \/ IsStrictPrefix(other.path, child.path)
              <7>1. Len(other.path) <= Len(child.path)
                BY <5>5, <5>6
              <7> QED
                BY <4>5, <5>3, <5>6, <7>1, BothBegin
            <6>2. ~IsStrictPrefix(other.path, child.path)
              BY <5>5, <5>6, StrictOrSame
            <6> QED
              BY <6>1, <6>2
          <5>8. i = at
            <6>1. /\ entry.children[i].path = entry.children[at].path
                  /\ entry.children[i].type = entry.children[at].type
              BY <4>3, <4>5, <5>2, <5>3, <5>7, Zenon
            <6>2. i \in 1..Len(entry.children) /\ at \in 1..Len(entry.children)
              BY <3>3, <4>2, Zenon
            <6> QED
              BY <6>1, <6>2, EntryIs
          <5> QED
            BY <4>7, <5>8
        <4>8. at \in 1..Len(left) /\ \A i \in 1..Len(left) : i # at => left[i] = <<>>
          BY <3>7, <4>2, <4>7
        <4>9. FlattenSeq(left) = left[at]
          BY ONLY <3>7, <4>2, <4>8, FlattenOne
        <4>10. left[at] = Having(AllNodes(child), Under(path))
          BY <3>6, <4>2, <4>3, Zenon
        <4> QED
          BY <3>8, <4>4, <4>6, <4>9, <4>10, Zenon DEF FoundAt
      <3> QED
        BY <3>10, <3>11
    <2> QED
      BY <2>2, <2>3
  <1>2. Entries \subseteq Q
    <2> HIDE DEF Q
    <2> QED
      BY <1>1, EntryInduct
  <1> QED
    BY <1>2

\* The rows of the whole answer that are asked for are those it has of them.
LEMMA RowsAskedFor ==
  ASSUME NEW all \in Seq(NodesThereAre), NEW path, NEW n, NEW wanted
  PROVE  RowsOf(all, path, n, wanted) = Having(all, Inside(path, n, wanted))
  <1>1. DOMAIN all = 1..Len(all) /\ \A i \in 1..Len(all) : all[i] \in NodesThereAre
    OBVIOUS
  <1>2. {i \in DOMAIN all : AskedFor(all[i], path, n, wanted)}
          = {i \in 1..Len(all) : all[i] \in Inside(path, n, wanted)}
    BY <1>1 DEF Inside
  <1> QED
    BY <1>2, Zenon DEF RowsOf, Having

\* What a client asks for is a path.
LEMMA AskedPathsAre ==
  ASSUME NEW tree \in Entries
  PROVE  AskedPaths(tree) \subseteq Seq(Nat)
  <1>1. ASSUME NEW node \in ToSet(AllNodes(tree))
        PROVE  node.path \in Seq(Nat)
    <2>1. AllNodes(tree) \in Seq(NodesThereAre)
      BY AllIs
    <2>2. node \in NodesThereAre
      BY <2>1, ToSetOfSeq
    <2> QED
      BY <2>2 DEF NodesThereAre
  <1>2. PathsIn(tree) \subseteq Seq(Nat)
    <2>1. <<>> \in Seq(Nat)
      OBVIOUS
    <2> QED
      BY <1>1, <2>1, Zenon DEF PathsIn
  <1>3. \A path \in Seq(Nat) : Append(path, 1) \in Seq(Nat)
    OBVIOUS
  <1> QED
    BY <1>2, <1>3 DEF AskedPaths

\* flatten under a path: the rows of the whole answer that are asked for.
LEMMA UnderAPath ==
  ASSUME NEW tree \in Trees, NEW path \in Seq(Nat), NEW n \in Nat, n <= AllTheWay, NEW wanted
  PROVE  /\ NodeAt(tree, path, "directory") = {} =>
              RowsOf(AllNodes(tree), path, n, wanted) = <<>>
         /\ \A there : NodeAt(tree, path, "directory") = {there} =>
              RowsOf(AllNodes(tree), path, n, wanted) = Flatten(there, n, wanted)
  <1>1. tree \in Entries /\ tree.type = "directory" /\ tree.path = <<>>
    BY TreesAssumption
  <1>2. IsPrefix(tree.path, path)
    <2>1. <<>> \in Seq(Nat) /\ Len(<<>>) = 0 /\ 0 <= Len(path) /\ 1..0 = {}
      OBVIOUS
    <2>2. Len(<<>>) <= Len(path) /\ \A i \in 1..Len(<<>>) : <<>>[i] = path[i]
      BY <2>1
    <2> QED
      BY <1>1, <2>1, <2>2, BeginsWith
  <1>3. FoundAt(tree, path)
    BY <1>1, <1>2, Rooted DEF IsFound
  <1>4. PICK all \in Seq(NodesThereAre) : all = AllNodes(tree)
    BY <1>1, AllIs
  <1>5. PICK some : some = Inside(path, n, wanted)
    OBVIOUS
  <1>6. some \subseteq Under(path)
    BY <1>5 DEF Inside, Under, AskedFor
  <1>7. RowsOf(all, path, n, wanted) = Having(Having(all, Under(path)), some)
    <2>1. Having(Having(all, Under(path)), some) = Having(all, Under(path) \cap some)
      BY HavingTwice
    <2>2. Under(path) \cap some = some
      BY <1>6
    <2>3. RowsOf(all, path, n, wanted) = Having(all, some)
      BY <1>5, RowsAskedFor
    <2> QED
      BY <2>1, <2>2, <2>3, Zenon
  <1>8. CASE NodeAt(tree, path, "directory") = {} /\ Having(all, Under(path)) = <<>>
    <2>1. RowsOf(all, path, n, wanted) = <<>>
      BY <1>7, <1>8, HavingNothing, Zenon
    <2> QED
      BY <1>4, <1>8, <2>1, Zenon
  <1>9. ASSUME NEW d \in Entries, NodeAt(tree, path, "directory") = {d}, d.path = path,
               Having(all, Under(path)) = AllNodes(d)
        PROVE  /\ NodeAt(tree, path, "directory") # {}
               /\ \A there : NodeAt(tree, path, "directory") = {there} =>
                    RowsOf(all, path, n, wanted) = Flatten(there, n, wanted)
    <2>1. AllTheWay \in Nat
      BY DepthsAssumption
    <2>2. Flatten(d, n, wanted) = Having(Flatten(d, AllTheWay, {}), Inside(d.path, n, wanted))
      BY <2>1, Narrower DEF Narrowed
    <2>3. RowsOf(all, path, n, wanted) = Flatten(d, n, wanted)
      BY <1>5, <1>7, <1>9, <2>2, Zenon DEF AllNodes
    <2>4. \A there : {d} = {there} => there = d
      OBVIOUS
    <2> QED
      BY <1>9, <2>3, <2>4, Zenon
  <1> QED
    BY <1>3, <1>4, <1>8, <1>9, Zenon DEF FoundAt

\* get_diff_tree: less of a tree is the rows of all of it that were asked for.
LEMMA ListingsNarrow ==
  ASSUME NEW tree \in Trees
  PROVE  Narrows(tree)
  <1>1. SUFFICES ASSUME NEW path \in AskedPaths(tree), NEW depth \in Depths \cup {AllTheWay}, NEW wanted
                 PROVE  Listing(tree, path, depth, wanted)
                          = RowsOf(AllNodes(tree), path, Max({depth, 1}), wanted)
    BY Zenon DEF Narrows
  <1>2. path \in Seq(Nat)
    BY AskedPathsAre, TreesAssumption
  <1>3. PICK n \in Nat : n = Max({depth, 1}) /\ n <= AllTheWay
    <2>1. depth \in Nat /\ depth <= AllTheWay /\ AllTheWay \in Nat /\ 1 <= AllTheWay
      BY DepthsAssumption
    <2>2. Max({depth, 1}) = IF depth >= 1 THEN depth ELSE 1
      BY <2>1, LargerOf
    <2> QED
      BY <2>1, <2>2
  <1>4. PICK rooted : rooted = NodeAt(tree, path, "directory")
    OBVIOUS
  <1>5. /\ rooted = {} => RowsOf(AllNodes(tree), path, n, wanted) = <<>>
        /\ \A there : rooted = {there} =>
             RowsOf(AllNodes(tree), path, n, wanted) = Flatten(there, n, wanted)
    BY <1>2, <1>3, <1>4, UnderAPath, Zenon
  <1>6. Listing(tree, path, depth, wanted)
          = IF rooted = {} THEN <<>> ELSE Flatten(CHOOSE entry \in rooted : TRUE, n, wanted)
    BY <1>3, <1>4 DEF Listing
  <1>7. rooted = {} \/ \E there : rooted = {there}
    <2>1. tree \in Entries /\ tree.type = "directory" /\ tree.path = <<>>
      BY TreesAssumption
    <2>2. <<>> \in Seq(Nat) /\ Len(<<>>) = 0 /\ 0 <= Len(path) /\ 1..0 = {}
      BY <1>2
    <2>3. Len(<<>>) <= Len(path) /\ \A i \in 1..Len(<<>>) : <<>>[i] = path[i]
      BY <2>2
    <2>4. FoundAt(tree, path)
      BY <1>2, <2>1, <2>2, <2>3, BeginsWith, Rooted DEF IsFound
    <2> QED
      BY <1>4, <2>4, Zenon DEF FoundAt
  <1>8. \A there : (CHOOSE entry \in {there} : TRUE) = there
    OBVIOUS
  <1> QED
    BY <1>3, <1>5, <1>6, <1>7, <1>8, Zenon

FileNodes == {node \in NodesThereAre : node.type = "file"}

Filing(f) ==
  f = [node \in Entries |->
        IF node.type = "file" THEN <<NodeOf(node)>>
        ELSE FlattenSeq([i \in DOMAIN node.children |-> f[node.children[i]]])]

FilesOf(entry) == [i \in DOMAIN entry.children |-> Files[entry.children[i]]]

\* What is worked out of each thing in an entry is a list of as many.
LEMMA OfChildrenAre ==
  ASSUME NEW V, NEW f \in [Entries -> V], NEW entry \in Entries
  PROVE  /\ OfChildren(f, entry) \in Seq(V)
         /\ Len(OfChildren(f, entry)) = Len(entry.children)
         /\ \A i \in 1..Len(entry.children) : OfChildren(f, entry)[i] = f[entry.children[i]]
  <1>1. \A i \in 1..Len(entry.children) : entry.children[i] \in Entries
    BY ChildIs
  <1>2. PICK k \in Nat : k = Len(entry.children) /\ DOMAIN entry.children = 1..k
    BY EntryIs
  <1>3. PICK list1 : list1 = OfChildren(f, entry)
    OBVIOUS
  <1>4. list1 = [i \in 1..k |-> f[entry.children[i]]]
    BY <1>2, <1>3, Zenon DEF OfChildren
  <1>5. \A i \in 1..k : f[entry.children[i]] \in V
    BY <1>1, <1>2
  <1>6. list1 \in [1..k -> V]
    BY <1>4, <1>5
  <1>7. list1 \in Seq(V) /\ Len(list1) = k
    BY <1>6
  <1> QED
    BY <1>2, <1>3, <1>4, <1>7, Zenon

\* walk: a file is itself, a directory what is in it.
LEMMA FilesAre ==
  /\ Files \in [Entries -> Seq(NodesThereAre)]
  /\ \A entry \in Entries :
       Files[entry] = IF entry.type = "file" THEN <<NodeOf(entry)>> ELSE FlattenSeq(FilesOf(entry))
  <1> DEFINE V == Seq(NodesThereAre)
             Of(entry, below) == IF entry.type = "file" THEN <<NodeOf(entry)>> ELSE FlattenSeq(below)
             whole == [entry \in Entries |-> [below \in Seq(V) |-> Of(entry, below)]]
  <1>1. ASSUME NEW entry \in Entries, NEW below \in Seq(V)
        PROVE  Of(entry, below) \in V
    <2>1. NodeOf(entry) \in NodesThereAre
      BY NodeIs
    <2>2. <<NodeOf(entry)>> \in V
      BY <2>1
    <2>3. FlattenSeq(below) \in V
      BY FlattenSeqIs
    <2> QED
      BY <2>2, <2>3, Zenon
  <1>2. whole \in OfParts(V)
    BY <1>1 DEF OfParts
  <1>3. \A entry \in Entries : \A below \in Seq(V) : whole[entry][below] = Of(entry, below)
    OBVIOUS
  <1>4. <<>> \in V
    OBVIOUS
  <1> HIDE DEF whole, Of
  <1>5. PICK f \in [Entries -> V] : MadeOf(f, whole)
    <2>1. PICK W : W = V
      OBVIOUS
    <2>2. whole \in OfParts(W) /\ <<>> \in W
      BY <1>2, <1>4, <2>1, Zenon
    <2>3. \E f \in [Entries -> W] : MadeOf(f, whole)
      BY ONLY <2>2, OverEntries
    <2> QED
      BY <2>1, <2>3, Zenon
  <1>6. Filing(f)
    <2>1. ASSUME NEW entry \in Entries
          PROVE  f[entry] = IF entry.type = "file" THEN <<NodeOf(entry)>>
                            ELSE FlattenSeq([i \in DOMAIN entry.children |-> f[entry.children[i]]])
      <3>1. PICK below : below = OfChildren(f, entry)
        OBVIOUS
      <3>2. below \in Seq(V)
        <4>1. PICK W : W = V
          OBVIOUS
        <4>2. f \in [Entries -> W]
          BY <4>1, Zenon
        <4>3. OfChildren(f, entry) \in Seq(W)
          BY ONLY <4>2, entry \in Entries, OfChildrenAre
        <4> QED
          BY <3>1, <4>1, <4>3, Zenon
      <3>3. f[entry] = Of(entry, below)
        BY <1>3, <1>5, <3>1, <3>2, Zenon DEF MadeOf
      <3> QED
        BY <3>1, <3>3, Zenon DEF Of, OfChildren
    <2>2. f = [entry \in Entries |-> f[entry]]
      BY <1>5, Zenon
    <2>3. f = [entry \in Entries |->
                IF entry.type = "file" THEN <<NodeOf(entry)>>
                ELSE FlattenSeq([i \in DOMAIN entry.children |-> f[entry.children[i]]])]
      BY <2>1, <2>2, Zenon
    <2> QED
      BY <2>3, Zenon DEF Filing
  <1>7. Files = CHOOSE g : Filing(g)
    BY Zenon DEF Files, Filing
  <1>8. Filing(Files)
    BY <1>6, <1>7, Zenon
  <1>9. PICK g : g = Files
    OBVIOUS
  <1>10. g = [entry \in Entries |->
               IF entry.type = "file" THEN <<NodeOf(entry)>>
               ELSE FlattenSeq([i \in DOMAIN entry.children |-> g[entry.children[i]]])]
    BY <1>8, <1>9, Zenon DEF Filing
  <1>11. \A entry \in Entries :
           g[entry] = IF entry.type = "file" THEN <<NodeOf(entry)>> ELSE FlattenSeq(OfChildren(g, entry))
    BY <1>10, Zenon DEF OfChildren
  <1>12. \A entry \in Entries : OfChildren(g, entry) = FilesOf(entry)
    BY <1>9, Zenon DEF OfChildren, FilesOf
  <1>13. g \in [Entries -> V]
    <2> DEFINE Q == {entry \in Entries : g[entry] \in V}
    <2>1. ASSUME NEW entry \in Entries, \A i \in 1..Len(entry.children) : entry.children[i] \in Q
          PROVE  entry \in Q
      <3>1. PICK k \in Nat : k = Len(entry.children) /\ DOMAIN entry.children = 1..k
        BY EntryIs
      <3>2. PICK below : below = OfChildren(g, entry)
        OBVIOUS
      <3>3. below = [i \in 1..k |-> g[entry.children[i]]]
        BY <3>1, <3>2, Zenon DEF OfChildren
      <3>4. \A i \in 1..k : g[entry.children[i]] \in V
        BY <2>1, <3>1
      <3>5. below \in [1..k -> V]
        BY <3>3, <3>4
      <3>6. below \in Seq(V)
        BY <3>5
      <3>7. Of(entry, below) \in V
        BY <1>1, <3>6
      <3>8. g[entry] = Of(entry, below)
        BY <1>11, <3>2, Zenon DEF Of
      <3> QED
        BY <3>7, <3>8
    <2>2. Entries \subseteq Q
      <3> HIDE DEF Q
      <3> QED
        BY <2>1, EntryInduct
    <2>3. \A entry \in Entries : g[entry] \in V
      BY <2>2
    <2>4. g = [entry \in Entries |-> g[entry]]
      <3>1. \E h : g = [entry \in Entries |-> h[entry]]
        <4>1. PICK h : h = [entry \in Entries |->
                         IF entry.type = "file" THEN <<NodeOf(entry)>>
                         ELSE FlattenSeq([i \in DOMAIN entry.children |-> g[entry.children[i]]])]
          OBVIOUS
        <4>2. h = [entry \in Entries |-> h[entry]]
          BY <4>1
        <4> QED
          BY <1>10, <4>1, <4>2, Zenon
      <3> QED
        BY <3>1
    <2> QED
      BY <2>3, <2>4
  <1> QED
    BY <1>9, <1>11, <1>12, <1>13, Zenon

FilesAreHad(entry) ==
  Files[entry] = IF entry.type = "file" THEN <<NodeOf(entry)>> ELSE Having(AllNodes(entry), FileNodes)

\* The files of what is in an entry, one after another.
LEMMA FilesOfAre ==
  ASSUME NEW entry \in Entries
  PROVE  /\ FilesOf(entry) \in Seq(Seq(NodesThereAre))
         /\ Len(FilesOf(entry)) = Len(entry.children)
         /\ \A i \in 1..Len(entry.children) : FilesOf(entry)[i] = Files[entry.children[i]]
  <1>1. PICK V : V = Seq(NodesThereAre)
    OBVIOUS
  <1>2. PICK f \in [Entries -> V] : f = Files
    BY <1>1, FilesAre, Zenon
  <1>3. /\ OfChildren(f, entry) \in Seq(V)
        /\ Len(OfChildren(f, entry)) = Len(entry.children)
        /\ \A i \in 1..Len(entry.children) : OfChildren(f, entry)[i] = f[entry.children[i]]
    BY ONLY f \in [Entries -> V], entry \in Entries, OfChildrenAre
  <1>4. OfChildren(f, entry) = FilesOf(entry)
    BY <1>2, Zenon DEF OfChildren, FilesOf
  <1> QED
    BY <1>1, <1>2, <1>3, <1>4, Zenon

\* walk: the files of a directory are those of its whole listing.
LEMMA FilesAreRows ==
  \A entry \in Entries : FilesAreHad(entry)
  <1> DEFINE Q == {entry \in Entries : FilesAreHad(entry)}
  <1>1. ASSUME NEW entry \in Entries, \A i \in 1..Len(entry.children) : entry.children[i] \in Q
        PROVE  entry \in Q
    <2>1. CASE entry.type = "file"
      BY <2>1, FilesAre, Zenon DEF FilesAreHad
    <2>2. CASE entry.type # "file"
      <3>1. PICK lists : lists = AllParts(entry)
        OBVIOUS
      <3>2. PICK len \in Nat : len = Len(entry.children)
        BY EntryIs
      <3>3. /\ lists \in Seq(Seq(NodesThereAre)) /\ Len(lists) = len
            /\ \A i \in 1..len :
                 lists[i] = <<NodeOf(entry.children[i])>> \o AllNodes(entry.children[i])
            /\ AllNodes(entry) = FlattenSeq(lists)
        BY <3>1, <3>2, AllIs, Zenon
      <3>4. PICK left : left = FilesOf(entry)
        OBVIOUS
      <3>5. /\ left \in Seq(Seq(NodesThereAre)) /\ Len(left) = len
            /\ \A i \in 1..len : left[i] = Files[entry.children[i]]
        BY <3>2, <3>4, FilesOfAre, Zenon
      <3>6. ASSUME NEW i \in 1..len
            PROVE  left[i] = Having(lists[i], FileNodes)
        <4>1. PICK child : child = entry.children[i]
          OBVIOUS
        <4>2. child \in Entries
          BY <3>2, <4>1, ChildIs, Zenon
        <4>3. PICK node \in NodesThereAre : node = NodeOf(child)
          BY <4>2, NodeIs
        <4>4. PICK rest \in Seq(NodesThereAre) : rest = AllNodes(child)
          BY <4>2, AllIs
        <4>5. PICK one \in Seq(NodesThereAre) : one = <<node>>
          <5>1. <<node>> \in Seq(NodesThereAre)
            BY <4>3
          <5> QED
            BY <5>1, Zenon
        <4>6. node \in FileNodes <=> child.type = "file"
          BY <4>2, <4>3, NodeIs DEF FileNodes
        <4>7. Having(one \o rest, FileNodes) = Having(one, FileNodes) \o Having(rest, FileNodes)
          BY ONLY one \in Seq(NodesThereAre), rest \in Seq(NodesThereAre), HavingOfBoth
        <4>8. Having(one, FileNodes) = IF node \in FileNodes THEN <<node>> ELSE <<>>
          BY <4>5, HavingOne, Zenon
        <4>9. FilesAreHad(child)
          BY <1>1, <3>2, <4>1
        <4>10. Having(rest, FileNodes) \in Seq(NodesThereAre)
          BY HavingTyped
        <4>11. CASE child.type = "file"
          <5>1. rest = <<>>
            BY <4>2, <4>4, <4>11, NothingInAFile, Zenon
          <5>2. Having(rest, FileNodes) = <<>>
            BY <5>1, HavingNothing, Zenon
          <5>3. one \o <<>> = one
            OBVIOUS
          <5>4. Having(one \o rest, FileNodes) = one
            BY <4>5, <4>6, <4>7, <4>8, <4>11, <5>2, <5>3, Zenon
          <5>5. Files[child] = one
            BY <4>3, <4>5, <4>9, <4>11, Zenon DEF FilesAreHad
          <5> QED
            BY <3>3, <3>5, <4>1, <4>3, <4>4, <4>5, <5>4, <5>5, Zenon
        <4>12. CASE child.type # "file"
          <5>1. Having(one, FileNodes) = <<>>
            BY <4>6, <4>8, <4>12, Zenon
          <5>2. PICK had : had = Having(rest, FileNodes)
            OBVIOUS
          <5>3. <<>> \o had = had
            BY <4>10, <5>2
          <5>4. Having(one \o rest, FileNodes) = had
            BY <4>7, <5>1, <5>2, <5>3, Zenon
          <5>5. Files[child] = had
            BY <4>4, <4>9, <4>12, <5>2, Zenon DEF FilesAreHad
          <5> QED
            BY <3>3, <3>5, <4>1, <4>3, <4>4, <4>5, <5>4, <5>5, Zenon
        <4> QED
          BY <4>11, <4>12
      <3>7. Len(left) = Len(lists) /\ \A i \in 1..Len(lists) : left[i] = Having(lists[i], FileNodes)
        BY <3>3, <3>5, <3>6, Zenon
      <3>8. Having(FlattenSeq(lists), FileNodes) = FlattenSeq(left)
        BY ONLY <3>3, <3>5, <3>7, HavingOfAll
      <3>9. Files[entry] = FlattenSeq(left)
        BY <2>2, <3>4, FilesAre, Zenon
      <3> QED
        BY <2>2, <3>3, <3>8, <3>9, Zenon DEF FilesAreHad
    <2> QED
      BY <2>1, <2>2
  <1>2. Entries \subseteq Q
    <2> HIDE DEF Q
    <2> QED
      BY <1>1, EntryInduct
  <1> QED
    BY <1>2

\* A sequence is one of what is in it.
LEMMA OfItsOwn ==
  ASSUME NEW A, NEW s \in Seq(A)
  PROVE  s \in Seq(ToSet(s))
  <1>1. \A i \in 1..Len(s) : s[i] \in ToSet(s)
    BY ToSetOfSeq
  <1>2. PICK B : B = ToSet(s)
    OBVIOUS
  <1>3. s = [i \in 1..Len(s) |-> s[i]] /\ Len(s) \in Nat
    OBVIOUS
  <1>4. s \in [1..Len(s) -> B]
    BY <1>1, <1>2, <1>3, Zenon
  <1>5. s \in Seq(B)
    BY <1>3, <1>4
  <1> QED
    BY <1>2, <1>5, Zenon

OnePerPath(entry) == \A x, y \in ToSet(Files[entry]) : x.path = y.path => x = y

\* Where a file's row is found below an entry.
LEMMA FileIsBelow ==
  ASSUME NEW entry \in Entries, NEW x \in ToSet(Files[entry])
  PROVE  /\ x \in NodesThereAre /\ x.path \in Seq(Nat) /\ IsPrefix(entry.path, x.path)
         /\ entry.type = "file" => x = NodeOf(entry) /\ x.path = entry.path
         /\ entry.type # "file" => Len(entry.path) < Len(x.path)
  <1>1. CASE entry.type = "file"
    <2>1. Files[entry] = <<NodeOf(entry)>>
      BY <1>1, FilesAre, Zenon
    <2>2. PICK node \in NodesThereAre : node = NodeOf(entry)
      BY NodeIs
    <2>3. PICK one \in Seq(NodesThereAre) : one = <<node>>
      <3>1. <<node>> \in Seq(NodesThereAre)
        BY <2>2
      <3> QED
        BY <3>1, Zenon
    <2>4. x \in ToSet(one)
      BY <2>1, <2>2, <2>3, Zenon
    <2>5. x = node
      <3>1. PICK i \in 1..Len(one) : one[i] = x
        BY <2>3, <2>4, ToSetOfSeq
      <3> QED
        BY <2>3, <3>1
    <2>6. x.path = entry.path /\ entry.path \in Seq(Nat)
      BY <2>2, <2>5, NodeIs, EntryIs
    <2> QED
      BY <1>1, <2>2, <2>5, <2>6, StrictOrSame
  <1>2. CASE entry.type # "file"
    <2>1. PICK all : all = AllNodes(entry)
      OBVIOUS
    <2>2. all \in Seq(Under(entry.path))
      BY <2>1, AllIs
    <2>3. PICK had : had = Having(all, FileNodes)
      OBVIOUS
    <2>4. had \in Seq(Under(entry.path))
      BY <2>2, <2>3, HavingTyped
    <2>5. x \in ToSet(had)
      BY <1>2, <2>1, <2>3, FilesAreRows, Zenon DEF FilesAreHad
    <2>6. x \in Under(entry.path)
      BY <2>4, <2>5, ToSetOfSeq
    <2>7. x \in NodesThereAre /\ x.path \in Seq(Nat) /\ IsStrictPrefix(entry.path, x.path)
      BY <2>6 DEF Under, NodesThereAre
    <2>8. entry.path \in Seq(Nat)
      BY EntryIs
    <2> QED
      BY <1>2, <2>7, <2>8, StrictOrSame
  <1> QED
    BY <1>1, <1>2

\* No two files are at one path, though a directory may be there as well.
LEMMA OneFileAPath ==
  \A entry \in Entries : OnePerPath(entry)
  <1> DEFINE Q == {entry \in Entries : OnePerPath(entry)}
  <1>1. ASSUME NEW entry \in Entries, \A i \in 1..Len(entry.children) : entry.children[i] \in Q
        PROVE  entry \in Q
    <2>1. CASE entry.type = "file"
      BY <2>1, FileIsBelow DEF OnePerPath
    <2>2. CASE entry.type # "file"
      <3>1. PICK len \in Nat : len = Len(entry.children)
        BY EntryIs
      <3>2. PICK lists : lists = FilesOf(entry)
        OBVIOUS
      <3>3. /\ lists \in Seq(Seq(NodesThereAre)) /\ Len(lists) = len
            /\ \A i \in 1..len : lists[i] = Files[entry.children[i]]
        BY <3>1, <3>2, FilesOfAre, Zenon
      <3>4. PICK B : B = UNION {ToSet(Files[entry.children[i]]) : i \in 1..len}
        OBVIOUS
      <3>5. \A i \in 1..len : ToSet(lists[i]) \subseteq B
        BY <3>3, <3>4
      <3>6. \A i \in 1..len : lists[i] \in Seq(NodesThereAre)
        BY <3>3
      <3>7. \A i \in 1..len : lists[i] \in Seq(B)
        BY <3>5, <3>6, OfItsOwn, SeqGrows
      <3>8. lists \in [1..len -> Seq(B)]
        BY <3>3, <3>7
      <3>9. lists \in Seq(Seq(B))
        BY <3>8
      <3>10. FlattenSeq(lists) \in Seq(B)
        BY <3>9, FlattenSeqIs
      <3>11. Files[entry] = FlattenSeq(lists)
        BY <2>2, <3>2, FilesAre, Zenon
      <3>12. ToSet(Files[entry]) \subseteq B
        BY <3>10, <3>11, ToSetOfSeq
      <3>13. ASSUME NEW x \in ToSet(Files[entry]), NEW y \in ToSet(Files[entry]), x.path = y.path
             PROVE  x = y
        <4>1. PICK i \in 1..len : x \in ToSet(Files[entry.children[i]])
          BY <3>4, <3>12
        <4>2. PICK j \in 1..len : y \in ToSet(Files[entry.children[j]])
          BY <3>4, <3>12
        <4>3. PICK one : one = entry.children[i]
          OBVIOUS
        <4>4. PICK two : two = entry.children[j]
          OBVIOUS
        <4>5. /\ one \in Entries /\ IsChildOf(one, entry) /\ OnePerPath(one)
              /\ two \in Entries /\ IsChildOf(two, entry) /\ OnePerPath(two)
          BY <1>1, <3>1, <4>3, <4>4, ChildIs
        <4>6. /\ x \in ToSet(Files[one]) /\ y \in ToSet(Files[two])
          BY <4>1, <4>2, <4>3, <4>4, Zenon
        <4>7. /\ x.path \in Seq(Nat) /\ IsPrefix(one.path, x.path)
              /\ one.type = "file" => x.path = one.path
              /\ one.type # "file" => Len(one.path) < Len(x.path)
          BY <4>5, <4>6, FileIsBelow, Zenon
        <4>8. /\ y.path \in Seq(Nat) /\ IsPrefix(two.path, y.path)
              /\ two.type = "file" => y.path = two.path
              /\ two.type # "file" => Len(two.path) < Len(y.path)
          BY <4>5, <4>6, FileIsBelow, Zenon
        <4>9. PICK p \in Seq(Nat) : p = one.path
          BY <4>5, EntryIs
        <4>10. PICK q \in Seq(Nat) : q = two.path
          BY <4>5, EntryIs
        <4>11. Len(p) = Len(q)
          BY <4>5, <4>9, <4>10, Zenon DEF IsChildOf
        <4>12. p = q
          <5>1. IsPrefix(p, x.path) /\ IsPrefix(q, x.path)
            BY <3>13, <4>7, <4>8, <4>9, <4>10, Zenon
          <5>2. Len(q) <= Len(p)
            BY <4>11
          <5>3. q = p \/ IsStrictPrefix(q, p)
            BY <4>7, <5>1, <5>2, BothBegin
          <5>4. ~IsStrictPrefix(q, p)
            BY <4>11, StrictOrSame
          <5> QED
            BY <5>3, <5>4
        <4>13. one.type = two.type
          <5>1. one.type \in {"file", "directory"} /\ two.type \in {"file", "directory"}
            BY <4>5, EntryIs
          <5>2. one.type = "file" /\ two.type # "file" => FALSE
            BY <3>13, <4>7, <4>8, <4>9, <4>10, <4>12
          <5>3. two.type = "file" /\ one.type # "file" => FALSE
            BY <3>13, <4>7, <4>8, <4>9, <4>10, <4>12
          <5> QED
            BY <5>1, <5>2, <5>3
        <4>14. i = j
          <5>1. /\ entry.children[i].path = entry.children[j].path
                /\ entry.children[i].type = entry.children[j].type
            BY <4>3, <4>4, <4>9, <4>10, <4>12, <4>13, Zenon
          <5> QED
            BY <3>1, <5>1, EntryIs
        <4> QED
          BY <3>13, <4>3, <4>4, <4>5, <4>6, <4>14, Zenon DEF OnePerPath
      <3> QED
        BY <3>13 DEF OnePerPath
    <2> QED
      BY <2>1, <2>2
  <1>2. Entries \subseteq Q
    <2> HIDE DEF Q
    <2> QED
      BY <1>1, EntryInduct
  <1> QED
    BY <1>2

Tallies == [files : [Statuses -> Nat], lines : Nat]

NoFiles == [files |-> [status \in Statuses |-> 0], lines |-> 0]

Totalling(g, rows) ==
  g = [s \in SUBSET DOMAIN rows |->
         IF s = {} THEN NoFiles ELSE CountedIn(g[s \ {Max(s)}], rows[Max(s)])]

\* Totals as the value of the fold it is.
LEMMA TotalsAre ==
  ASSUME NEW tree
  PROVE  Totals(tree) = (CHOOSE g : Totalling(g, Files[tree]))[DOMAIN Files[tree]]
  BY DEF Totals, FoldLeft, MapThenFoldSet, Totalling, NoFiles

\* Totals::count: one file more of its status, and its lines.
LEMMA OneMoreFile ==
  ASSUME NEW totals \in Tallies, NEW row \in NodesThereAre
  PROVE  /\ CountedIn(totals, row) \in Tallies
         /\ \A status \in Statuses :
              CountedIn(totals, row).files[status]
                = totals.files[status] + (IF row.status = status THEN 1 ELSE 0)
         /\ CountedIn(totals, row).lines = totals.lines + row.lines
  <1>1. PICK status \in Statuses : status = row.status
    BY DEF NodesThereAre
  <1>2. PICK lines \in Nat : lines = row.lines
    BY DEF NodesThereAre
  <1>3. PICK files \in [Statuses -> Nat] : files = totals.files
    BY DEF Tallies
  <1>4. PICK sum \in Nat : sum = totals.lines
    BY DEF Tallies
  <1>5. PICK more : more = [files EXCEPT ![status] = @ + 1]
    OBVIOUS
  <1>6. /\ more \in [Statuses -> Nat]
        /\ \A some \in Statuses : more[some] = files[some] + (IF status = some THEN 1 ELSE 0)
    BY <1>5
  <1>7. CountedIn(totals, row) = [files |-> more, lines |-> sum + lines]
    BY <1>1, <1>2, <1>3, <1>4, <1>5, Zenon DEF CountedIn
  <1>8. sum + lines \in Nat
    OBVIOUS
  <1>9. CountedIn(totals, row) \in Tallies
    BY <1>6, <1>7, <1>8 DEF Tallies
  <1>10. CountedIn(totals, row).files = more /\ CountedIn(totals, row).lines = sum + lines
    BY <1>7
  <1> QED
    BY <1>1, <1>2, <1>3, <1>4, <1>6, <1>9, <1>10, Zenon

\* What the first files add up to.
TotalsUpto(e, rows) ==
  /\ e \in [0..Len(rows) -> Tallies]
  /\ e[0] = NoFiles
  /\ \A k \in 1..Len(rows) : e[k] = CountedIn(e[k - 1], rows[k])

\* The totals of the first files exist, one after another.
LEMMA TotalsUptoExists ==
  ASSUME NEW tree, NEW rows \in Seq(NodesThereAre), rows = Files[tree]
  PROVE  \E e : TotalsUpto(e, rows) /\ Totals(tree) = e[Len(rows)]
  <1> DEFINE n == Len(rows)
             step == [i \in 1..n |-> [a \in Tallies |-> CountedIn(a, rows[i])]]
  <1>1. n \in Nat /\ DOMAIN rows = 1..n /\ \A i \in 1..n : rows[i] \in NodesThereAre
    OBVIOUS
  <1>2. Closed(n, Tallies, step)
    <2>1. \A i \in 1..n, a \in Tallies : CountedIn(a, rows[i]) \in Tallies
      BY <1>1, OneMoreFile, Zenon
    <2> QED
      BY <2>1, Zenon DEF Closed
  <1>a. NoFiles \in Tallies
    BY DEF NoFiles, Tallies
  <1>3. PICK g \in [SUBSET (1..n) -> Tallies] : FoldingUpto(g, n, NoFiles, step)
    <2> HIDE DEF step, n
    <2> QED
      BY <1>1, <1>2, <1>a, FoldUpto
  <1>4. Totalling(g, rows)
    <2>1. ASSUME NEW s \in SUBSET (1..n)
          PROVE  g[s] = IF s = {} THEN NoFiles ELSE CountedIn(g[s \ {Max(s)}], rows[Max(s)])
      <3>1. CASE s = {}
        BY <1>3, <3>1 DEF FoldingUpto
      <3>2. CASE s # {}
        <4>1. Max(s) \in 1..n
          BY <1>1, <3>2, MaxOfUpto
        <4>2. g[s \ {Max(s)}] \in Tallies
          OBVIOUS
        <4>3. g[s] = step[Max(s)][g[s \ {Max(s)}]]
          BY <1>3, <3>2 DEF FoldingUpto
        <4>4. step[Max(s)][g[s \ {Max(s)}]] = CountedIn(g[s \ {Max(s)}], rows[Max(s)])
          BY <4>1, <4>2, Zenon
        <4> QED
          BY <3>2, <4>3, <4>4, Zenon
      <3> QED
        BY <3>1, <3>2
    <2>2. g = [s \in SUBSET (1..n) |-> g[s]]
      OBVIOUS
    <2> HIDE DEF n
    <2> QED
      BY <1>1, <2>1, <2>2, Zenon DEF Totalling
  <1> DEFINE h == CHOOSE f : Totalling(f, rows)
  <1>5. Totalling(h, rows)
    BY <1>4, Zenon
  <1>6. Totals(tree) = h[1..n]
    BY <1>1, TotalsAre, Zenon
  <1> HIDE DEF h
  <1>b. \A s \in SUBSET (1..n) :
          h[s] = IF s = {} THEN NoFiles ELSE CountedIn(h[s \ {Max(s)}], rows[Max(s)])
    BY <1>1, <1>5, Zenon DEF Totalling
  <1>7. Steps(h, n, Tallies, NoFiles, step)
    <2>1. h[{}] = NoFiles
      BY <1>b
    <2>2. ASSUME NEW s \in SUBSET (1..n), s # {}, h[s \ {Max(s)}] \in Tallies
          PROVE  h[s] = step[Max(s)][h[s \ {Max(s)}]]
      <3>1. h[s] = CountedIn(h[s \ {Max(s)}], rows[Max(s)])
        BY <1>b, <2>2, Zenon
      <3>2. Max(s) \in 1..n
        BY <1>1, <2>2, MaxOfUpto
      <3> QED
        BY <2>2, <3>1, <3>2, Zenon
    <2> HIDE DEF step, n
    <2> QED
      BY <2>1, <2>2 DEF Steps
  <1>8. PICK e \in [0..n -> Tallies] : Reaches(e, n, NoFiles, step) /\ e[n] = h[1..n]
    <2> HIDE DEF step, n
    <2>1. Arrived(h, n, Tallies, NoFiles, step)
      BY <1>1, <1>2, <1>a, <1>7, FoldReaches
    <2> QED
      BY <2>1 DEF Arrived
  <1>9. ASSUME NEW k \in 1..n
        PROVE  e[k] = CountedIn(e[k - 1], rows[k])
    <2>1. e[k] = step[k][e[k - 1]] /\ e[k - 1] \in Tallies
      <3>1. k - 1 \in 0..n
        BY <1>1
      <3> HIDE DEF step, n
      <3> QED
        BY <1>8, <3>1 DEF Reaches
    <2> QED
      BY <2>1, Zenon
  <1>10. e[0] = NoFiles
    BY <1>8 DEF Reaches
  <1> QED
    BY <1>6, <1>8, <1>9, <1>10, Zenon DEF TotalsUpto

\* The lines of the first rows, each as one.
LinesOf(rows, k) == UNION {{i} \X (1..rows[i].lines) : i \in 1..k}

\* A row has as many lines more as it says.
LEMMA LinesGrow ==
  ASSUME NEW rows \in Seq(NodesThereAre), NEW k \in 1..Len(rows), IsFiniteSet(LinesOf(rows, k - 1))
  PROVE  /\ IsFiniteSet(LinesOf(rows, k))
         /\ Cardinality(LinesOf(rows, k)) = Cardinality(LinesOf(rows, k - 1)) + rows[k].lines
  <1>1. PICK n \in Nat : n = rows[k].lines
    <2>1. rows[k] \in NodesThereAre
      OBVIOUS
    <2> QED
      BY <2>1 DEF NodesThereAre
  <1>2. PICK more : more = {k} \X (1..n)
    OBVIOUS
  <1>3. PICK before : before = LinesOf(rows, k - 1)
    OBVIOUS
  <1>4. IsFiniteSet(more) /\ Cardinality(more) = n
    <2>1. IsFiniteSet({k}) /\ Cardinality({k}) = 1
      BY FS_Singleton
    <2>2. IsFiniteSet(1..n) /\ Cardinality(1..n) = n
      <3>1. 1 \in Int /\ n \in Int
        OBVIOUS
      <3>2. IsFiniteSet(1..n) /\ Cardinality(1..n) = IF 1 > n THEN 0 ELSE n - 1 + 1
        BY <3>1, FS_Interval
      <3> QED
        BY <3>2
    <2>3. PICK only : only = {k}
      OBVIOUS
    <2>4. PICK span : span = 1..n
      OBVIOUS
    <2>5. IsFiniteSet(only) /\ Cardinality(only) = 1 /\ IsFiniteSet(span) /\ Cardinality(span) = n
      BY <2>1, <2>2, <2>3, <2>4, Zenon
    <2>6. IsFiniteSet(only \X span) /\ Cardinality(only \X span) = Cardinality(only) * Cardinality(span)
      BY ONLY <2>5, FS_Product
    <2>7. Cardinality(only) * Cardinality(span) = n
      <3>1. 1 * n = n
        OBVIOUS
      <3> QED
        BY <2>5, <3>1, Zenon
    <2> QED
      BY <1>2, <2>3, <2>4, <2>6, <2>7, Zenon
  <1>5. LinesOf(rows, k) = before \cup more
    <2>1. 1..k = (1..(k - 1)) \cup {k}
      OBVIOUS
    <2>2. LinesOf(rows, k) = LinesOf(rows, k - 1) \cup ({k} \X (1..rows[k].lines))
      BY <2>1, Zenon DEF LinesOf
    <2> QED
      BY <1>1, <1>2, <1>3, <2>2, Zenon
  <1>6. before \cap more = {}
    <2>1. SUFFICES ASSUME NEW x \in before, x \in more
                   PROVE  FALSE
      OBVIOUS
    <2>2. x[1] = k
      BY <1>2, <2>1
    <2>3. PICK i \in 1..(k - 1) : x \in {i} \X (1..rows[i].lines)
      BY <1>3, <2>1 DEF LinesOf
    <2>4. x[1] = i
      BY <2>3
    <2> QED
      BY <2>2, <2>4
  <1>7. /\ IsFiniteSet(before \cup more)
        /\ Cardinality(before \cup more) = Cardinality(before) + n - Cardinality(before \cap more)
    BY <1>3, <1>4, FS_Union
  <1>8. Cardinality({}) = 0
    BY FS_EmptySet
  <1>9. PICK many \in Nat : many = Cardinality(before)
    BY <1>3, FS_CardinalityType
  <1>10. Cardinality(before \cup more) = many + n - 0
    BY <1>6, <1>7, <1>8, <1>9, Zenon
  <1>11. many + n - 0 = many + n
    OBVIOUS
  <1> QED
    BY <1>1, <1>3, <1>5, <1>7, <1>9, <1>10, <1>11, Zenon

OfStatus(rows, status) == {i \in DOMAIN rows : rows[i].status = status}

CountsAre(e, rows, k) ==
  /\ \A status \in Statuses : e[k].files[status] = Upto(OfStatus(rows, status), k)
  /\ IsFiniteSet(LinesOf(rows, k)) /\ e[k].lines = Cardinality(LinesOf(rows, k))

\* Totals: as many files of each status as there are, and as many lines as they have.
LEMMA TotalsCount ==
  ASSUME NEW tree, NEW rows \in Seq(NodesThereAre), rows = Files[tree]
  PROVE  /\ \A status \in Statuses : Totals(tree).files[status] = Cardinality(OfStatus(rows, status))
         /\ Totals(tree).lines = Cardinality(LinesOf(rows, Len(rows)))
  <1>1. PICK e : TotalsUpto(e, rows) /\ Totals(tree) = e[Len(rows)]
    BY TotalsUptoExists
  <1>2. PICK n \in Nat : n = Len(rows) /\ DOMAIN rows = 1..n
    OBVIOUS
  <1>3. /\ e \in [0..n -> Tallies] /\ e[0] = NoFiles
        /\ \A k \in 1..n : e[k] = CountedIn(e[k - 1], rows[k])
    BY <1>1, <1>2, Zenon DEF TotalsUpto
  <1>4. \A status : Sided(OfStatus(rows, status), n)
    BY <1>2 DEF Sided, OfStatus
  <1> DEFINE Q == {k \in Nat : k <= n => CountsAre(e, rows, k)}
  <1>5. 0 \in Q
    <2>1. LinesOf(rows, 0) = {}
      BY DEF LinesOf
    <2>2. IsFiniteSet({}) /\ Cardinality({}) = 0
      BY FS_EmptySet
    <2>3. \A status \in Statuses : Upto(OfStatus(rows, status), 0) = 0
      BY <1>4, Counting
    <2>4. NoFiles.lines = 0 /\ \A status \in Statuses : NoFiles.files[status] = 0
      BY DEF NoFiles
    <2>5. CountsAre(e, rows, 0)
      BY <1>3, <2>1, <2>2, <2>3, <2>4, Zenon DEF CountsAre
    <2> QED
      BY <2>5
  <1>6. ASSUME NEW k \in Nat, k \in Q
        PROVE  k + 1 \in Q
    <2>1. SUFFICES ASSUME k + 1 <= n
                   PROVE  CountsAre(e, rows, k + 1)
      OBVIOUS
    <2>2. PICK j \in 1..n : j = k + 1
      BY <2>1
    <2>3. CountsAre(e, rows, k) /\ k \in 0..n /\ j - 1 = k
      BY <1>6, <2>1, <2>2
    <2>4. e[k] \in Tallies /\ rows[j] \in NodesThereAre /\ e[j] = CountedIn(e[k], rows[j])
      <3>1. e[j] = CountedIn(e[j - 1], rows[j])
        BY <1>3, Zenon
      <3> QED
        BY <1>2, <1>3, <2>3, <3>1
    <2>5. /\ \A status \in Statuses :
               e[j].files[status] = e[k].files[status] + (IF rows[j].status = status THEN 1 ELSE 0)
          /\ e[j].lines = e[k].lines + rows[j].lines
      <3>1. PICK totals \in Tallies : totals = e[k]
        BY <2>4
      <3>2. PICK row \in NodesThereAre : row = rows[j]
        BY <2>4
      <3>3. /\ \A status \in Statuses :
                 CountedIn(totals, row).files[status]
                   = totals.files[status] + (IF row.status = status THEN 1 ELSE 0)
            /\ CountedIn(totals, row).lines = totals.lines + row.lines
        BY OneMoreFile
      <3> QED
        BY <2>4, <3>1, <3>2, <3>3, Zenon
    <2>6. ASSUME NEW status \in Statuses
          PROVE  e[j].files[status] = Upto(OfStatus(rows, status), j)
      <3>1. Upto(OfStatus(rows, status), j)
              = Upto(OfStatus(rows, status), j - 1) + (IF j \in OfStatus(rows, status) THEN 1 ELSE 0)
        BY <1>4, Counting
      <3>2. j \in OfStatus(rows, status) <=> rows[j].status = status
        BY <1>2 DEF OfStatus
      <3>3. e[k].files[status] = Upto(OfStatus(rows, status), k)
        BY <2>3, Zenon DEF CountsAre
      <3>4. CASE rows[j].status = status
        BY <2>3, <2>5, <3>1, <3>2, <3>3, <3>4, Zenon
      <3>5. CASE rows[j].status # status
        BY <2>3, <2>5, <3>1, <3>2, <3>3, <3>5, Zenon
      <3> QED
        BY <3>4, <3>5
    <2>7. IsFiniteSet(LinesOf(rows, j)) /\ e[j].lines = Cardinality(LinesOf(rows, j))
      <3>1. IsFiniteSet(LinesOf(rows, j - 1)) /\ e[k].lines = Cardinality(LinesOf(rows, j - 1))
        BY <2>3, Zenon DEF CountsAre
      <3>2. j \in 1..Len(rows)
        BY <1>2
      <3>3. /\ IsFiniteSet(LinesOf(rows, j))
            /\ Cardinality(LinesOf(rows, j)) = Cardinality(LinesOf(rows, j - 1)) + rows[j].lines
        BY <3>1, <3>2, LinesGrow
      <3> QED
        BY <2>5, <3>1, <3>3, Zenon
    <2> QED
      BY <2>2, <2>6, <2>7, Zenon DEF CountsAre
  <1>7. Nat \subseteq Q
    <2> HIDE DEF Q
    <2> QED
      BY <1>5, <1>6, NatInduct
  <1>8. CountsAre(e, rows, n)
    BY <1>7
  <1>9. \A status \in Statuses : Upto(OfStatus(rows, status), n) = Cardinality(OfStatus(rows, status))
    BY <1>4, Counting
  <1> QED
    BY <1>1, <1>2, <1>8, <1>9, Zenon DEF CountsAre

\* A path with nothing after it, name by name: nothing is before every name.
Padded(path) == [i \in 1..AllTheWay |-> IF i <= Len(path) THEN path[i] + 1 ELSE 0]

ShortPaths == {path \in Seq(Nat) : Len(path) <= AllTheWay}

\* A padded path has a number at each place.
LEMMA PaddedIs ==
  ASSUME NEW p \in ShortPaths
  PROVE  /\ Padded(p) \in Seq(Nat) /\ Len(Padded(p)) = AllTheWay
         /\ Len(p) \in Nat /\ Len(p) <= AllTheWay /\ DOMAIN p = 1..Len(p)
         /\ \A i \in 1..Len(p) : i \in 1..AllTheWay /\ Padded(p)[i] = p[i] + 1 /\ p[i] \in Nat
         /\ \A i \in 1..AllTheWay : ~(i <= Len(p)) => Padded(p)[i] = 0
  <1>1. PICK n \in Nat : n = Len(p) /\ n <= AllTheWay /\ DOMAIN p = 1..n
    BY DEF ShortPaths
  <1>2. PICK top \in Nat : top = AllTheWay
    BY DepthsAssumption
  <1>3. \A i \in 1..n : p[i] \in Nat
    BY <1>1 DEF ShortPaths
  <1>4. PICK g : g = Padded(p)
    OBVIOUS
  <1>5. g = [i \in 1..top |-> IF i <= n THEN p[i] + 1 ELSE 0]
    BY <1>1, <1>2, <1>4, Zenon DEF Padded
  <1>6. \A i \in 1..top : (IF i <= n THEN p[i] + 1 ELSE 0) \in Nat
    BY <1>3
  <1>7. g \in [1..top -> Nat]
    BY <1>5, <1>6
  <1>8. g \in Seq(Nat) /\ Len(g) = top
    BY <1>7
  <1>9. \A i \in 1..n : i \in 1..top /\ i <= n
    BY <1>1, <1>2
  <1>10. \A i \in 1..n : i \in 1..top /\ g[i] = p[i] + 1 /\ p[i] \in Nat
    BY <1>3, <1>5, <1>9
  <1>11. \A i \in 1..top : ~(i <= n) => g[i] = 0
    BY <1>5
  <1> QED
    BY <1>1, <1>2, <1>4, <1>8, <1>10, <1>11, Zenon

\* A path comes before another as it does name by name, with nothing before every name.
LEMMA PathBeforeIs ==
  ASSUME NEW p \in ShortPaths, NEW q \in ShortPaths
  PROVE  PathBefore(p, q) <=> \E i \in 1..AllTheWay : TextDiffers(Padded(p), Padded(q), i)
  <1>1. PICK top \in Nat : top = AllTheWay
    BY DepthsAssumption
  <1>2. PICK n \in Nat : n = Len(p) /\ n <= top /\ DOMAIN p = 1..n
    BY <1>1, PaddedIs
  <1>3. PICK m \in Nat : m = Len(q) /\ m <= top /\ DOMAIN q = 1..m
    BY <1>1, PaddedIs
  <1>4. PICK g : g = Padded(p)
    OBVIOUS
  <1>5. PICK h : h = Padded(q)
    OBVIOUS
  <1>6. /\ \A i \in 1..n : i \in 1..top /\ g[i] = p[i] + 1 /\ p[i] \in Nat
        /\ \A i \in 1..top : ~(i <= n) => g[i] = 0
    BY <1>1, <1>2, <1>4, PaddedIs, Zenon
  <1>7. /\ \A i \in 1..m : i \in 1..top /\ h[i] = q[i] + 1 /\ q[i] \in Nat
        /\ \A i \in 1..top : ~(i <= m) => h[i] = 0
    BY <1>1, <1>3, <1>5, PaddedIs, Zenon
  <1>8. IsStrictPrefix(p, q) <=> n < m /\ \A i \in 1..n : p[i] = q[i]
    BY <1>2, <1>3, BeginsWith DEF ShortPaths
  <1>9. ASSUME IsStrictPrefix(p, q)
        PROVE  \E i \in 1..top : TextDiffers(g, h, i)
    <2>1. PICK i \in 1..m : i = n + 1
      BY <1>8, <1>9
    <2>2. i \in 1..top /\ ~(i <= n)
      BY <1>3, <2>1
    <2>3. g[i] = 0 /\ h[i] = q[i] + 1 /\ q[i] \in Nat
      BY <1>6, <1>7, <2>2, Zenon
    <2>4. g[i] < h[i]
      BY <2>3
    <2>5. ASSUME NEW j \in 1..(i - 1)
          PROVE  g[j] = h[j]
      <3>1. j \in 1..n /\ j \in 1..m
        BY <2>1
      <3> QED
        BY <1>6, <1>7, <1>8, <1>9, <3>1, Zenon
    <2> QED
      BY <2>2, <2>4, <2>5, Zenon DEF TextDiffers
  <1>10. ASSUME NEW i \in DOMAIN p \cap DOMAIN q, p[i] < q[i], \A j \in 1..(i - 1) : p[j] = q[j]
         PROVE  \E k \in 1..top : TextDiffers(g, h, k)
    <2>1. i \in 1..n /\ i \in 1..m
      BY <1>2, <1>3
    <2>2. i \in 1..top /\ g[i] = p[i] + 1 /\ p[i] \in Nat /\ h[i] = q[i] + 1 /\ q[i] \in Nat
      BY <1>6, <1>7, <2>1, Zenon
    <2>3. g[i] < h[i]
      BY <1>10, <2>2
    <2>4. ASSUME NEW j \in 1..(i - 1)
          PROVE  g[j] = h[j]
      <3>1. j \in 1..n /\ j \in 1..m
        BY <2>1
      <3> QED
        BY <1>6, <1>7, <1>10, <3>1, Zenon
    <2> QED
      BY <2>2, <2>3, <2>4, Zenon DEF TextDiffers
  <1>11. ASSUME NEW i \in 1..top, TextDiffers(g, h, i)
         PROVE  PathBefore(p, q)
    <2>1. g[i] < h[i] /\ \A j \in 1..(i - 1) : g[j] = h[j]
      BY <1>11 DEF TextDiffers
    <2>a. g[i] \in Nat
      <3>1. CASE i <= n
        <4>1. i \in 1..n
          BY <3>1
        <4> QED
          BY <1>6, <4>1
      <3>2. CASE ~(i <= n)
        BY <1>6, <3>2
      <3> QED
        BY <3>1, <3>2
    <2>2. i \in 1..m
      <3>1. SUFFICES ASSUME ~(i <= m)
                     PROVE  FALSE
        OBVIOUS
      <3>2. h[i] = 0
        BY <1>7, <3>1
      <3> QED
        BY <2>1, <2>a, <3>2
    <2>3. CASE i <= n
      <3>1. i \in 1..n
        BY <2>3
      <3>2. g[i] = p[i] + 1 /\ h[i] = q[i] + 1 /\ p[i] \in Nat /\ q[i] \in Nat
        BY <1>6, <1>7, <2>2, <3>1, Zenon
      <3>3. p[i] < q[i]
        BY <2>1, <3>2
      <3>4. ASSUME NEW j \in 1..(i - 1)
            PROVE  p[j] = q[j]
        <4>1. j \in 1..n /\ j \in 1..m
          BY <2>2, <3>1
        <4>2. g[j] = p[j] + 1 /\ h[j] = q[j] + 1 /\ p[j] \in Nat /\ q[j] \in Nat /\ g[j] = h[j]
          BY <1>6, <1>7, <2>1, <4>1, Zenon
        <4> QED
          BY <4>2
      <3> QED
        BY <1>2, <1>3, <2>2, <3>1, <3>3, <3>4 DEF PathBefore
    <2>4. CASE ~(i <= n)
      <3>1. n < m
        BY <2>2, <2>4
      <3>2. ASSUME NEW j \in 1..n
            PROVE  p[j] = q[j]
        <4>1. j \in 1..m /\ j \in 1..(i - 1)
          BY <2>2, <2>4
        <4>2. g[j] = p[j] + 1 /\ h[j] = q[j] + 1 /\ p[j] \in Nat /\ q[j] \in Nat /\ g[j] = h[j]
          BY <1>6, <1>7, <2>1, <4>1, Zenon
        <4> QED
          BY <4>2
      <3> QED
        BY <1>8, <3>1, <3>2 DEF PathBefore
    <2> QED
      BY <2>3, <2>4
  <1>12. PathBefore(p, q) => \E i \in 1..top : TextDiffers(g, h, i)
    BY <1>9, <1>10 DEF PathBefore
  <1> QED
    BY <1>1, <1>4, <1>5, <1>11, <1>12, Zenon

\* Of different paths one comes before the other, and what is before one of those before
\* another is before it.
LEMMA PathsAreOrdered ==
  /\ \A x \in ShortPaths : ~PathBefore(x, x)
  /\ \A x, y \in ShortPaths : x # y => PathBefore(x, y) \/ PathBefore(y, x)
  /\ \A x, y, z \in ShortPaths : PathBefore(x, y) /\ PathBefore(y, z) => PathBefore(x, z)
  <1>1. PICK top \in Nat : top = AllTheWay
    BY DepthsAssumption
  <1>2. ASSUME NEW x \in ShortPaths
        PROVE  ~PathBefore(x, x)
    <2>1. \A i \in 1..top : Padded(x)[i] \in Nat
      BY <1>1, PaddedIs
    <2>2. \A i \in 1..top : ~TextDiffers(Padded(x), Padded(x), i)
      BY <2>1 DEF TextDiffers
    <2> QED
      BY <1>1, <2>2, PathBeforeIs, Zenon
  <1>3. ASSUME NEW x \in ShortPaths, NEW y \in ShortPaths, x # y
        PROVE  PathBefore(x, y) \/ PathBefore(y, x)
    <2>1. PICK g \in Seq(Nat) : g = Padded(x) /\ Len(g) = top
      BY <1>1, PaddedIs
    <2>2. PICK h \in Seq(Nat) : h = Padded(y) /\ Len(h) = top
      BY <1>1, PaddedIs
    <2>3. g # h
      <3>1. SUFFICES ASSUME g = h
                     PROVE  x = y
        BY <1>3
      <3>2. PICK n \in Nat : n = Len(x) /\ n <= top
        BY <1>1, PaddedIs
      <3>3. PICK m \in Nat : m = Len(y) /\ m <= top
        BY <1>1, PaddedIs
      <3>4. /\ \A i \in 1..n : i \in 1..top /\ g[i] = x[i] + 1 /\ x[i] \in Nat
            /\ \A i \in 1..top : ~(i <= n) => g[i] = 0
        BY <1>1, <2>1, <3>2, PaddedIs, Zenon
      <3>5. /\ \A i \in 1..m : i \in 1..top /\ h[i] = y[i] + 1 /\ y[i] \in Nat
            /\ \A i \in 1..top : ~(i <= m) => h[i] = 0
        BY <1>1, <2>2, <3>3, PaddedIs, Zenon
      <3>6. ~(n < m)
        <4>1. SUFFICES ASSUME n < m
                       PROVE  FALSE
          OBVIOUS
        <4>2. m \in 1..m /\ m \in 1..top /\ ~(m <= n)
          BY <3>3, <4>1
        <4>3. g[m] = 0 /\ h[m] = y[m] + 1 /\ y[m] \in Nat
          BY <3>4, <3>5, <4>2, Zenon
        <4> QED
          BY <3>1, <4>3
      <3>7. ~(m < n)
        <4>1. SUFFICES ASSUME m < n
                       PROVE  FALSE
          OBVIOUS
        <4>2. n \in 1..n /\ n \in 1..top /\ ~(n <= m)
          BY <3>2, <4>1
        <4>3. h[n] = 0 /\ g[n] = x[n] + 1 /\ x[n] \in Nat
          BY <3>4, <3>5, <4>2, Zenon
        <4> QED
          BY <3>1, <4>3
      <3>8. n = m
        BY <3>6, <3>7
      <3>9. ASSUME NEW i \in 1..n
            PROVE  x[i] = y[i]
        <4>1. g[i] = x[i] + 1 /\ g[i] = y[i] + 1 /\ x[i] \in Nat /\ y[i] \in Nat
          BY <3>1, <3>4, <3>5, <3>8, Zenon
        <4>2. PICK a1 \in Nat : a1 = x[i]
          BY <4>1, Zenon
        <4>3. PICK b1 \in Nat : b1 = y[i]
          BY <4>1, Zenon
        <4>4. a1 + 1 = b1 + 1
          BY <4>1, <4>2, <4>3, Zenon
        <4>5. a1 = b1
          BY ONLY a1 \in Nat, b1 \in Nat, <4>4
        <4> QED
          BY <4>2, <4>3, <4>5, Zenon
      <3>10. x \in Seq(Nat) /\ y \in Seq(Nat)
        BY DEF ShortPaths
      <3>11. Len(x) = Len(y) /\ \A i \in 1..Len(x) : x[i] = y[i]
        BY <3>2, <3>3, <3>8, <3>9, Zenon
      <3> QED
        BY ONLY <3>10, <3>11, SeqEqual
    <2>4. PICK i \in 1..top : g[i] # h[i] /\ \A j \in 1..(i - 1) : g[j] = h[j]
      BY <2>1, <2>2, <2>3, FirstDifference, ZenonT(30)
    <2>5. g[i] \in Nat /\ h[i] \in Nat
      BY <2>1, <2>2, <2>4
    <2>6. g[i] < h[i] \/ h[i] < g[i]
      BY <2>4, <2>5
    <2>7. TextDiffers(g, h, i) \/ TextDiffers(h, g, i)
      BY <2>4, <2>6 DEF TextDiffers
    <2> QED
      BY <1>1, <2>1, <2>2, <2>7, PathBeforeIs, Zenon
  <1>4. ASSUME NEW x \in ShortPaths, NEW y \in ShortPaths, NEW z \in ShortPaths,
               PathBefore(x, y), PathBefore(y, z)
        PROVE  PathBefore(x, z)
    <2>1. PICK g \in Seq(Nat) : g = Padded(x) /\ Len(g) = top
      BY <1>1, PaddedIs
    <2>2. PICK h \in Seq(Nat) : h = Padded(y) /\ Len(h) = top
      BY <1>1, PaddedIs
    <2>3. PICK l \in Seq(Nat) : l = Padded(z) /\ Len(l) = top
      BY <1>1, PaddedIs
    <2>4. PICK i \in 1..top : TextDiffers(g, h, i)
      BY <1>1, <1>4, <2>1, <2>2, PathBeforeIs
    <2>5. PICK k \in 1..top : TextDiffers(h, l, k)
      BY <1>1, <1>4, <2>2, <2>3, PathBeforeIs
    <2>6. \A j \in 1..top : g[j] \in Nat /\ h[j] \in Nat /\ l[j] \in Nat
      BY <2>1, <2>2, <2>3
    <2>7. \E m \in 1..top : TextDiffers(g, l, m)
      <3>1. CASE i < k
        <4>1. g[i] < h[i] /\ h[i] = l[i] /\ \A j \in 1..(i - 1) : g[j] = h[j] /\ h[j] = l[j]
          BY <2>4, <2>5, <3>1, SMTT(30) DEF TextDiffers
        <4>2. TextDiffers(g, l, i)
          BY <4>1 DEF TextDiffers
        <4> QED
          BY <4>2
      <3>2. CASE i = k
        <4>1. g[i] < h[i] /\ h[i] < l[i] /\ \A j \in 1..(i - 1) : g[j] = h[j] /\ h[j] = l[j]
          BY <2>4, <2>5, <3>2 DEF TextDiffers
        <4>2. g[i] < l[i]
          BY <2>6, <4>1, SMTT(30)
        <4>3. TextDiffers(g, l, i)
          BY <4>1, <4>2 DEF TextDiffers
        <4> QED
          BY <4>3
      <3>3. CASE k < i
        <4>1. h[k] < l[k] /\ g[k] = h[k] /\ \A j \in 1..(k - 1) : g[j] = h[j] /\ h[j] = l[j]
          BY <2>4, <2>5, <3>3, SMTT(30) DEF TextDiffers
        <4>2. TextDiffers(g, l, k)
          BY <4>1 DEF TextDiffers
        <4> QED
          BY <4>2
      <3> QED
        BY <3>1, <3>2, <3>3
    <2> QED
      BY <1>1, <2>1, <2>3, <2>7, PathBeforeIs, Zenon
  <1> QED
    BY <1>2, <1>3, <1>4

MoreChanged(tree) ==
  {pair \in ChangedFiles(tree) \X ChangedFiles(tree) : ChangedMore(pair[1], pair[2])}

\* Of two files one changed more, or comes first by its path, which is no other file's.
LEMMA ChangesAreOrdered ==
  ASSUME NEW tree \in Entries
  PROVE  /\ IsFiniteSet(ChangedFiles(tree))
         /\ \A x, y \in ChangedFiles(tree) : <<x, y>> \in MoreChanged(tree) <=> ChangedMore(x, y)
         /\ StrictlyOrders(MoreChanged(tree), ChangedFiles(tree))
         /\ \A x \in ChangedFiles(tree) : x.lines \in Nat
  <1>1. PICK S : S = ChangedFiles(tree)
    OBVIOUS
  <1>2. PICK R : R = MoreChanged(tree)
    OBVIOUS
  <1>3. Files[tree] \in Seq(NodesThereAre)
    BY FilesAre
  <1>4. S \subseteq ToSet(Files[tree]) /\ S \subseteq NodesThereAre /\ IsFiniteSet(S)
    <2>1. S \subseteq ToSet(Files[tree])
      BY <1>1 DEF ChangedFiles
    <2>2. ToSet(Files[tree]) \subseteq NodesThereAre /\ IsFiniteSet(ToSet(Files[tree]))
      BY <1>3, ToSetOfSeq
    <2> QED
      BY <2>1, <2>2, FS_Subset
  <1>5. \A x, y \in S : <<x, y>> \in R <=> ChangedMore(x, y)
    BY <1>1, <1>2 DEF MoreChanged
  <1>6. \A x \in S : x.lines \in Nat /\ x.path \in ShortPaths
    BY <1>4 DEF NodesThereAre, ShortPaths
  <1>7. \A x, y \in S : x.path = y.path => x = y
    BY <1>4, OneFileAPath DEF OnePerPath
  <1>8. ASSUME NEW x \in S
        PROVE  <<x, x>> \notin R
    <2>1. ~(x.lines > x.lines)
      BY <1>6
    <2>2. ~PathBefore(x.path, x.path)
      BY <1>6, PathsAreOrdered
    <2> QED
      BY <1>5, <2>1, <2>2, Zenon DEF ChangedMore
  <1>9. ASSUME NEW x \in S, NEW y \in S, NEW z \in S, <<x, y>> \in R, <<y, z>> \in R
        PROVE  <<x, z>> \in R
    <2>1. PICK a1 \in Nat : a1 = x.lines
      BY <1>6
    <2>2. PICK b1 \in Nat : b1 = y.lines
      BY <1>6
    <2>3. PICK c1 \in Nat : c1 = z.lines
      BY <1>6
    <2>4. /\ a1 > b1 \/ (a1 = b1 /\ PathBefore(x.path, y.path))
          /\ b1 > c1 \/ (b1 = c1 /\ PathBefore(y.path, z.path))
      BY <1>5, <1>9, <2>1, <2>2, <2>3, Zenon DEF ChangedMore
    <2>5. PathBefore(x.path, y.path) /\ PathBefore(y.path, z.path) => PathBefore(x.path, z.path)
      BY <1>6, PathsAreOrdered
    <2>6. a1 > c1 \/ (a1 = c1 /\ PathBefore(x.path, z.path))
      BY <2>4, <2>5
    <2> QED
      BY <1>5, <2>1, <2>3, <2>6, Zenon DEF ChangedMore
  <1>10. ASSUME NEW x \in S, NEW y \in S, x # y
         PROVE  <<x, y>> \in R \/ <<y, x>> \in R
    <2>1. PICK a1 \in Nat : a1 = x.lines
      BY <1>6
    <2>2. PICK b1 \in Nat : b1 = y.lines
      BY <1>6
    <2>3. x.path # y.path
      BY <1>7, <1>10
    <2>4. PathBefore(x.path, y.path) \/ PathBefore(y.path, x.path)
      BY <1>6, <2>3, PathsAreOrdered
    <2>5. a1 > b1 \/ b1 > a1 \/ (a1 = b1 /\ b1 = a1)
      OBVIOUS
    <2> QED
      BY <1>5, <2>1, <2>2, <2>4, <2>5, Zenon DEF ChangedMore
  <1>11. StrictlyOrders(R, S)
    BY <1>8, <1>9, <1>10, Zenon DEF StrictlyOrders
  <1> QED
    BY <1>1, <1>2, <1>4, <1>5, <1>6, <1>11, Zenon

\* most_changed: the sample is of the files that changed, most changed first, and no file
\* it leaves out changed more than one in it.
LEMMA SampleIs ==
  ASSUME NEW tree \in Entries, NEW changed, changed = ChangedFiles(tree), NEW sample, sample = Sample(tree)
  PROVE  /\ Len(sample) = Min({MostChanged, Cardinality(changed)})
         /\ ToSet(sample) \subseteq changed
         /\ \A i, j \in 1..Len(sample) : i < j => sample[i].lines >= sample[j].lines
         /\ \A row \in changed \ ToSet(sample), listed \in ToSet(sample) : row.lines <= listed.lines
  <1>1. PICK R : R = MoreChanged(tree)
    OBVIOUS
  <1>2. /\ IsFiniteSet(changed) /\ StrictlyOrders(R, changed)
        /\ \A x, y \in changed : <<x, y>> \in R <=> ChangedMore(x, y)
        /\ \A x \in changed : x.lines \in Nat
    BY <1>1, ChangesAreOrdered, Zenon
  <1>3. PICK size \in Nat : size = Cardinality(changed)
    BY <1>2, FS_CardinalityType
  <1>4. PICK f : f = Arranged(changed, ChangedMore)
    OBVIOUS
  <1>5. f = [k \in 1..Cardinality(changed) |->
               CHOOSE x \in changed : Cardinality({y \in changed : ChangedMore(y, x)}) = k - 1]
    BY <1>4 DEF Arranged
  <1>6. \A x \in changed : {y \in changed : ChangedMore(y, x)} = Below(R, changed, x)
    BY <1>2 DEF Below
  <1>7. InTurn(f, R, changed)
    <2>1. \A k \in 1..Cardinality(changed) :
            f[k] = CHOOSE x \in changed : Cardinality(Below(R, changed, x)) = k - 1
      BY <1>5, <1>6, Zenon
    <2>2. f = [k \in 1..Cardinality(changed) |-> f[k]]
      <3> DEFINE at(k) == CHOOSE x \in changed : Cardinality({y \in changed : ChangedMore(y, x)}) = k - 1
      <3>1. f = [k \in 1..Cardinality(changed) |-> at(k)]
        BY <1>5, Zenon
      <3> HIDE DEF at
      <3> QED
        BY <3>1
    <2> QED
      BY <1>2, <2>1, <2>2, ArrangedIs
  <1>8. /\ f \in [1..size -> changed]
        /\ \A x \in changed : \E k \in 1..size : f[k] = x
        /\ \A j, k \in 1..size : <<f[j], f[k]>> \in R <=> j < k
    BY <1>3, <1>7, Zenon DEF InTurn
  <1>9. f \in Seq(changed) /\ Len(f) = size
    BY <1>8
  <1>10. PICK most \in Nat : most = MostChanged
    BY DepthsAssumption
  <1>11. PICK m \in 0..size : /\ m = Min({Len(f), MostChanged})
                              /\ m = Min({MostChanged, Cardinality(changed)})
    <2>1. Min({size, most}) = IF size <= most THEN size ELSE most
      <3>1. size \in Int /\ most \in Int
        OBVIOUS
      <3> QED
        BY <3>1, LargerOf
    <2>2. Min({size, most}) \in 0..size
      BY <2>1
    <2>3. {size, most} = {most, size}
      OBVIOUS
    <2> QED
      BY <1>3, <1>9, <1>10, <2>2, <2>3, Zenon
  <1>12. sample = SubSeq(f, 1, m)
    BY <1>4, <1>11, Zenon DEF Sample, Foremost
  <1>13. /\ sample \in Seq(changed) /\ Len(sample) = m
         /\ \A i \in 1..m : sample[i] = f[i]
    <2>1. m \in 0..Len(f)
      BY <1>9
    <2> QED
      BY <1>9, <1>12, <2>1, FirstOf
  <1>14. \A i : i \in ToSet(sample) <=> \E p \in 1..m : sample[p] = i
    BY <1>13, ToSetOfSeq
  <1>15. ToSet(sample) \subseteq changed
    BY <1>13, ToSetOfSeq
  <1>16. ASSUME NEW j \in 1..size, NEW k \in 1..size, j < k
         PROVE  f[j].lines >= f[k].lines
    <2>1. f[j] \in changed /\ f[k] \in changed
      BY <1>8
    <2>2. ChangedMore(f[j], f[k])
      BY <1>2, <1>8, <1>16, <2>1, Zenon
    <2>3. PICK a1 \in Nat : a1 = f[j].lines
      BY <1>2, <2>1
    <2>4. PICK b1 \in Nat : b1 = f[k].lines
      BY <1>2, <2>1
    <2>5. a1 > b1 \/ a1 = b1
      BY <2>2, <2>3, <2>4, Zenon DEF ChangedMore
    <2>6. a1 >= b1
      BY <2>5
    <2> QED
      BY <2>3, <2>4, <2>6, Zenon
  <1>17. ASSUME NEW i \in 1..m, NEW j \in 1..m, i < j
         PROVE  sample[i].lines >= sample[j].lines
    <2>1. i \in 1..size /\ j \in 1..size
      OBVIOUS
    <2> QED
      BY <1>13, <1>16, <1>17, <2>1, Zenon
  <1>18. ASSUME NEW row \in changed \ ToSet(sample), NEW listed \in ToSet(sample)
         PROVE  row.lines <= listed.lines
    <2>1. PICK i \in 1..m : sample[i] = listed
      BY <1>14
    <2>2. PICK k \in 1..size : f[k] = row
      BY <1>8
    <2>3. k \notin 1..m
      <3>1. SUFFICES ASSUME k \in 1..m
                     PROVE  FALSE
        OBVIOUS
      <3>2. sample[k] = row
        BY <1>13, <2>2, <3>1
      <3> QED
        BY <1>14, <3>1, <3>2
    <2>4. i < k /\ i \in 1..size
      BY <2>3
    <2>5. f[i] = listed
      BY <1>13, <2>1
    <2>6. listed.lines >= row.lines
      BY <1>16, <2>2, <2>4, <2>5, Zenon
    <2>7. PICK a1 \in Nat : a1 = listed.lines
      BY <1>2, <1>15
    <2>8. PICK b1 \in Nat : b1 = row.lines
      BY <1>2
    <2>9. a1 >= b1
      BY <2>6, <2>7, <2>8, Zenon
    <2>10. b1 <= a1
      BY <2>9
    <2> QED
      BY <2>7, <2>8, <2>10, Zenon
  <1> QED
    BY <1>11, <1>13, <1>15, <1>17, <1>18, Zenon

\* walk: the summary is of the files of the whole answer.
LEMMA SummaryAddsUp ==
  ASSUME NEW tree \in Trees
  PROVE  AddsUp(tree)
  <1>1. tree \in Entries /\ tree.type = "directory"
    BY TreesAssumption
  <1>2. PICK all \in Seq(NodesThereAre) : all = AllNodes(tree)
    BY <1>1, AllIs
  <1>3. PICK rows : rows = FileRows(all)
    OBVIOUS
  <1>4. rows = Having(all, FileNodes)
    <2>1. DOMAIN all = 1..Len(all) /\ \A i \in 1..Len(all) : all[i] \in NodesThereAre
      OBVIOUS
    <2>2. {i \in DOMAIN all : all[i].type = "file"} = {i \in 1..Len(all) : all[i] \in FileNodes}
      BY <2>1 DEF FileNodes
    <2> QED
      BY <1>3, <2>2, Zenon DEF FileRows, Having
  <1>5. rows = Files[tree]
    <2>1. tree.type # "file"
      BY <1>1
    <2> QED
      BY <1>1, <1>2, <1>4, <2>1, FilesAreRows, Zenon DEF FilesAreHad
  <1>6. rows \in Seq(NodesThereAre)
    BY <1>4, HavingTyped
  <1>7. /\ \A status \in Statuses : Totals(tree).files[status] = Cardinality(OfStatus(rows, status))
        /\ Totals(tree).lines = Cardinality(LinesOf(rows, Len(rows)))
    BY <1>5, <1>6, TotalsCount, Zenon
  <1>8. DOMAIN rows = 1..Len(rows)
    BY <1>6
  <1>9. PICK changed : changed = {row \in ToSet(rows) : row.status # "unchanged"}
    OBVIOUS
  <1>10. changed = ChangedFiles(tree)
    BY <1>5, <1>9, Zenon DEF ChangedFiles
  <1>11. PICK sample : sample = Sample(tree)
    OBVIOUS
  <1>12. /\ Len(sample) = Min({MostChanged, Cardinality(changed)})
         /\ ToSet(sample) \subseteq changed
         /\ \A i, j \in 1..Len(sample) : i < j => sample[i].lines >= sample[j].lines
         /\ \A row \in changed \ ToSet(sample), listed \in ToSet(sample) : row.lines <= listed.lines
    BY <1>1, <1>10, <1>11, SampleIs, Zenon
  <1>13. LinesOf(rows, Len(rows)) = UNION {{i} \X (1..rows[i].lines) : i \in DOMAIN rows}
    BY <1>8, Zenon DEF LinesOf
  <1>14. \A status \in Statuses :
           Totals(tree).files[status] = Cardinality({i \in DOMAIN rows : rows[i].status = status})
    BY <1>7, Zenon DEF OfStatus
  <1>15. Totals(tree).lines = Cardinality(UNION {{i} \X (1..rows[i].lines) : i \in DOMAIN rows})
    BY <1>7, <1>13, Zenon
  <1>16. rows = FileRows(AllNodes(tree))
    BY <1>2, <1>3, Zenon
  <1>17. AddsUp(tree)
           <=> /\ \A status \in Statuses :
                    Totals(tree).files[status] = Cardinality({i \in DOMAIN rows : rows[i].status = status})
               /\ Totals(tree).lines = Cardinality(UNION {{i} \X (1..rows[i].lines) : i \in DOMAIN rows})
               /\ Len(sample) = Min({MostChanged, Cardinality(changed)})
               /\ ToSet(sample) \subseteq changed
               /\ \A i, j \in 1..Len(sample) : i < j => sample[i].lines >= sample[j].lines
               /\ \A row \in changed \ ToSet(sample), listed \in ToSet(sample) : row.lines <= listed.lines
    BY <1>9, <1>11, <1>16 DEF AddsUp
  <1> QED
    BY <1>12, <1>14, <1>15, <1>17

------------------------------------------------------------------------------
(***************************************************************************)
(* What a client asks stays what it asked.                                 *)
(***************************************************************************)
LEMMA QuestionStays == ShownSpec => [](question = Walk \/ question \in Questions)
  <1>1. ShownInit => question = Walk \/ question \in Questions
    BY DEF ShownInit
  <1>2. /\ question = Walk \/ question \in Questions
        /\ [Next /\ UNCHANGED question]_<<vars, question>>
        => (question = Walk \/ question \in Questions)'
    OBVIOUS
  <1> QED
    BY <1>1, <1>2, PTL DEF ShownSpec

\* truncate: for whatever patch, context and cap, the answer fits the payload with its
\* quotes and its marker, and one that was given more goes on from it.
THEOREM ExcerptsFit == ShownSpec => []FitsAndGoesOn
  <1>1. question = Walk \/ question \in Questions => FitsAndGoesOn
    <2>1. ASSUME question \in Questions, question.about = "excerpt"
          PROVE  question.patch \in Patches /\ question.context \in Contexts \cup {Full}
      BY <2>1, QuestionsAssumption
    <2> QED
      BY <2>1, AnswersFit, AnswersGoOn DEF FitsAndGoesOn, Asking, Answer
  <1> QED
    BY <1>1, QuestionStays, PTL

\* trim: for whatever patch and context, the hunks are the runs of lines within the context
\* of a change, and what their headers and lines say of the first file makes the second.
THEOREM PatchStaysApplicable == ShownSpec => []PatchApplies
  <1>1. question = Walk \/ question \in Questions => PatchApplies
    <2>1. ASSUME question \in Questions, question.about = "excerpt"
          PROVE  /\ Applies(question.patch, question.context)
                 /\ question.context # Full => AreRuns(question.patch.body, question.context)
      <3>1. question.patch \in Patches /\ question.context \in Contexts \cup {Full}
        BY <2>1, QuestionsAssumption
      <3>2. Len(question.patch.body) \in Nat
        BY <3>1, PatchesAssumption, LenProperties DEF PatchesThereAre
      <3>3. question.context # Full => question.context \in Nat
        BY <3>1, AsksAssumption
      <3> QED
        BY <3>1, <3>2, <3>3, PatchIsApplied, HunksAreRuns
    <2> QED
      BY <2>1 DEF PatchApplies, Asking
  <1> QED
    BY <1>1, QuestionStays, PTL

\* DiffHandle: a handle is read as what it was minted for, and an edited one is taken
\* exactly when it names the same comparison, for every threshold that is not too large to
\* be counted, whatever it is rounded from.
THEOREM HandlesName == ShownSpec => []HandlesNameOneComparison
  <1>1. question = Walk \/ question \in Questions => HandlesNameOneComparison
    BY NamesOne, QuestionsAssumption DEF HandlesNameOneComparison, Asking
  <1> QED
    BY <1>1, QuestionStays, PTL

\* A link that was handed out leads to what it was handed out for: for every path, every
\* alphabet and every way a client encodes, whatever digits a code has.
THEOREM LinksLead == ShownSpec => []LinksLeadToThemselves
  <1>1. question = Walk \/ question \in Questions => LinksLeadToThemselves
    BY LeadsThere, QuestionsAssumption DEF LinksLeadToThemselves, Asking, Handle
  <1> QED
    BY <1>1, QuestionStays, PTL

\* Catalogue::versions: for every document a registry may serve, and for every failure of
\* one or of its pointer, what is listed is what it names, in order, npm's in the order of
\* their texts where no date tells them apart; a list is answered whose pointer could not
\* be read, a pointer with nothing listed, and what is current is what the registry points
\* at.
THEOREM VersionsListed == ShownSpec => []VersionsAreTheRegistrys
  <1>1. question = Walk \/ question \in Questions => VersionsAreTheRegistrys
    <2>1. ASSUME question \in Questions, question.about = "versions"
          PROVE  /\ question.listed.state = "read" =>
                      InOrder(question.registry, Named(question.registry, question.listed.document),
                              ReadVersions(question.registry, question.listed.document).all)
                 /\ IsAnswered(question.registry, question.listed, question.latest)
                 /\ IsCurrent(question.registry, question.listed, question.latest)
      BY <2>1, QuestionsAssumption, VersionsAre
    <2> QED
      BY <2>1 DEF VersionsAreTheRegistrys, Asking
  <1> QED
    BY <1>1, QuestionStays, PTL

\* search_packages: for every registry, every query and every limit a page is asked with,
\* a walk shows the best hits first and passes none over for a worse one; with one limit
\* throughout, an index gives as many as that or all there are.
THEOREM BestFound == ShownSpec => []NothingBetterIsPassedOver
  <1>1. question = Walk \/ question \in Questions => NothingBetterIsPassedOver
    <2>1. ASSUME question \in Questions, question.about = "search", NEW wants \in WantsInTurn
          PROVE  /\ BestFirst(question.source, question.query,
                              WalkOf(question.source, question.query, wants).seen)
                 /\ Cardinality(ToSet(wants)) = 1 =>
                      GivesAll(question.source, question.query,
                               WalkOf(question.source, question.query, wants), wants[1])
      BY <2>1, QuestionsAssumption, WalkIsBest
    <2> QED
      BY <2>1 DEF NothingBetterIsPassedOver, Asking
  <1> QED
    BY <1>1, QuestionStays, PTL

\* get_diff_tree and diff_package_versions: less of a tree is the rows of all of it that
\* were asked for, and the summary counts every file of it once and no directory.
THEOREM LessIsTrue == ShownSpec => []LessIsTrueOfTheWhole
  <1>1. question = Walk \/ question \in Questions => LessIsTrueOfTheWhole
    <2>1. SUFFICES ASSUME question \in Questions, question.about = "tree"
                   PROVE  Narrows(question.tree) /\ AddsUp(question.tree)
      BY DEF LessIsTrueOfTheWhole, Asking
    <2>2. question.tree \in Trees
      BY <2>1, QuestionsAssumption
    <2> QED
      BY <2>2, ListingsNarrow, SummaryAddsUp
  <1> QED
    BY <1>1, QuestionStays, PTL
==============================================================================
