-------------------------------- MODULE Pages --------------------------------
(***************************************************************************)
(* A client walking a list a page at a time: page::paginate and the tools  *)
(* that answer with it, list_package_files, get_diff_tree and              *)
(* list_package_versions.  A cursor is a number of items and the list is   *)
(* made anew for each page, so a registry that publishes or takes back     *)
(* between two pages moves what the cursor points at.                      *)
(***************************************************************************)
EXTENDS Naturals, FiniteSets, Sequences, SequencesExt

CONSTANTS
  Items,         \* what a list can have in it
  Bytes,         \* the encoded size of each item
  Starts,        \* the lists a walk can start on
  Limits,        \* the limits a client asks for
  NoLimit,       \* a client that asks for none
  DefaultLimit,  \* DEFAULT_LIMIT
  MaxLimit,      \* MAX_LIMIT
  Ceiling,       \* PAYLOAD_CEILING
  MaxChanges     \* bound: the changes to the list in one walk

Lists == {l \in Seq(Items) : Cardinality(ToSet(l)) = Len(l)}

ASSUME ItemsAssumption == Bytes \in [Items -> Nat] /\ Starts \subseteq Lists
ASSUME LimitsAssumption ==
  /\ Limits \subseteq Nat
  /\ NoLimit \notin Limits
  /\ DefaultLimit \in 1..MaxLimit
  /\ {MaxLimit, Ceiling, MaxChanges} \subseteq Nat

VARIABLES
  list,     \* what the registry, or the comparison, has
  limit,    \* the limit the client asks with
  cursor,   \* how many items the client is past: the first page asks for none
  ended,    \* whether the last page had no next_cursor
  seen,     \* history: every item the client was given or told was too large
  first,    \* history: the list the walk started on
  added,    \* history: what was published since
  removed   \* history: what was taken back since

vars == <<list, limit, cursor, ended, seen, first, added, removed>>

Init ==
  /\ list \in Starts
  /\ limit \in Limits \cup {NoLimit}
  /\ cursor = 0
  /\ ended = FALSE
  /\ seen = <<>>
  /\ first = list
  /\ added = {}
  /\ removed = {}

------------------------------------------------------------------------------
(***************************************************************************)
(* One page.                                                               *)
(***************************************************************************)
\* Mutant: a limit of nothing is a page of nothing.
WantedAsAsked ==
  IF limit = NoLimit THEN DefaultLimit ELSE IF limit > MaxLimit THEN MaxLimit ELSE limit

\* Limit::items.
Wanted ==
  IF limit = NoLimit THEN DefaultLimit ELSE IF limit = 0 THEN 1
                     ELSE IF limit > MaxLimit THEN MaxLimit ELSE limit

\* An item takes its own bytes and a comma.
Cost(items) == FoldLeft(LAMBDA sum, i : sum + Bytes[i] + 1, 0, items)

\* The page ends at the limit, with the list, or at the first item it has no room for.
Fitting ==
  {n \in 0..Wanted :
     n > 0 => /\ cursor + n <= Len(list)
              /\ Cost(SubSeq(list, cursor + 1, cursor + n)) <= Ceiling}

\* Mutant: an item that does not fit is passed over and the page goes on.
ItemsThatFit(n) ==
  FoldLeft(LAMBDA page, i : IF Len(page) < Wanted /\ Cost(Append(page, i)) <= Ceiling
                            THEN Append(page, i) ELSE page,
           <<>>, SubSeq(list, cursor + 1, Len(list)))

PageItems(n) == SubSeq(list, cursor + 1, cursor + n)

\* Mutant: the cursor counts what was asked for.
ReachedAsAsked(n) == cursor + Wanted

Reached(n) == cursor + Len(PageItems(n))

\* Mutant: the way past an item too large leads back to it.
ResumeAtIt == cursor

\* ItemTooLarge names the position after the item.
Resume == cursor + 1

\* The first item after the cursor would not fit on a page of its own.
NextIsTooLarge == cursor < Len(list) /\ Cost(<<list[cursor + 1]>>) > Ceiling

AnswersAPage ==
  /\ ~ended
  /\ ~NextIsTooLarge
  /\ \E n \in Fitting :
       /\ \A m \in Fitting : m <= n
       /\ seen' = seen \o PageItems(n)
       /\ ended' = (Reached(n) >= Len(list))
       /\ cursor' = IF ended' THEN cursor ELSE Reached(n)
  /\ UNCHANGED <<list, limit, first, added, removed>>

\* The failure says where to go on, and the client goes on there.
AnswersItemTooLarge ==
  /\ ~ended
  /\ NextIsTooLarge
  /\ seen' = Append(seen, list[cursor + 1])
  /\ cursor' = Resume
  /\ UNCHANGED <<list, limit, ended, first, added, removed>>

------------------------------------------------------------------------------
(***************************************************************************)
(* The registry.  What it publishes goes where its date or its number puts *)
(* it, first more often than not; no version is published twice.           *)
(***************************************************************************)
RoomForChange == ~ended /\ Cardinality(added) + Cardinality(removed) < MaxChanges

Publish ==
  /\ RoomForChange
  /\ \E item \in Items \ (ToSet(first) \cup added), at \in 1..(Len(list) + 1) :
       /\ list' = InsertAt(list, at, item)
       /\ added' = added \cup {item}
  /\ UNCHANGED <<limit, cursor, ended, seen, first, removed>>

TakeBack ==
  /\ RoomForChange
  /\ \E at \in 1..Len(list) :
       /\ list' = RemoveAt(list, at)
       /\ removed' = removed \cup {list[at]}
  /\ UNCHANGED <<limit, cursor, ended, seen, first, added>>

AnswersTheClient == AnswersItemTooLarge \/ AnswersAPage

\* A page can be asked for with any limit, the one before it with another.
AsksForMoreOrLess ==
  /\ ~ended
  /\ limit' \in (Limits \cup {NoLimit}) \ {limit}
  /\ UNCHANGED <<list, cursor, ended, seen, first, added, removed>>

Over == ended /\ UNCHANGED vars

Next == AnswersTheClient \/ AsksForMoreOrLess \/ Publish \/ TakeBack \/ Over

Spec == Init /\ [][Next]_vars

FairSpec == Spec /\ WF_vars(AnswersTheClient)

------------------------------------------------------------------------------
(***************************************************************************)
(* Properties.                                                             *)
(***************************************************************************)
\* A walk over a list that does not change has every item once and in order,
\* whatever each page's limit and wherever the ceiling ends it, the items too large
\* for a page told of in their place.
UnchangedListIsReadOnce ==
  ended /\ added = {} /\ removed = {} => seen = first

\* A walk misses no more of what was there all along than was taken back meanwhile.
Throughout == ToSet(first) \ removed
MissesOnlyAfterARemoval ==
  ended => Cardinality(Throughout \ ToSet(seen)) <= Cardinality(removed)

\* A walk has no more items again than were published meanwhile.
RepeatsOnlyAfterAPublication ==
  Len(seen) - Cardinality(ToSet(seen)) <= Cardinality(added)

\* A walk ends, whatever limits the client asks for.
WalkEnds == <>ended

(***************************************************************************)
(* The inductive invariant behind the two properties of what a walk misses *)
(* and of a list that does not change.                                     *)
(***************************************************************************)
TypeOK ==
  /\ list \in Seq(Items) /\ first \in Seq(Items) /\ seen \in Seq(Items)
  /\ limit \in Limits \cup {NoLimit}
  /\ cursor \in Nat
  /\ ended \in BOOLEAN
  /\ IsFiniteSet(added) /\ IsFiniteSet(removed)

\* What the list has is what it had and what was published, but for what was taken back.
ListIsWhatIsLeft ==
  /\ \A p, q \in 1..Len(list) : list[p] = list[q] => p = q
  /\ \A p \in 1..Len(list) : list[p] \in (ToSet(first) \cup added) \ removed
  /\ \A i \in Throughout : \E p \in 1..Len(list) : list[p] = i
  /\ removed \subseteq ToSet(first) \cup added

\* What the cursor is past and the client never saw.
Missed ==
  {i \in Throughout : i \notin ToSet(seen) /\ \E p \in 1..Len(list) : p <= cursor /\ list[p] = i}

UnchangedSoFar ==
  added = {} /\ removed = {} =>
    /\ list = first
    /\ IF ended THEN seen = first
                ELSE cursor <= Len(first) /\ seen = SubSeq(first, 1, cursor)

IInv ==
  /\ TypeOK
  /\ ListIsWhatIsLeft
  /\ Cardinality(Missed) <= Cardinality(removed)
  /\ MissesOnlyAfterARemoval
  /\ UnchangedSoFar

(***************************************************************************)
(* And the one behind what a walk has again.                               *)
(***************************************************************************)
\* What the client was given and will come to again.
Ahead == {i \in ToSet(seen) : \E p \in 1..Len(list) : p > cursor /\ list[p] = i}

\* What it was given again already, and what it will be, a publication each.
RepeatsAreCounted ==
  Len(seen) + (IF ended THEN 0 ELSE Cardinality(Ahead))
    <= Cardinality(ToSet(seen)) + Cardinality(added)
==============================================================================
