-------------------------------- MODULE Orders --------------------------------
(***************************************************************************)
(* Lists that are made of others: in another order, or with less in them.  *)
(***************************************************************************)
EXTENDS Naturals, Sequences, FiniteSets

\* slice::sort_by, where of any two different elements one comes first: each is where
\* as many come before it as do.
Arranged(S, ComesFirst(_, _)) ==
  [k \in 1..Cardinality(S) |->
     CHOOSE x \in S : Cardinality({y \in S : ComesFirst(y, x)}) = k - 1]

\* Numbers from the least up.
Ascending(numbers) ==
  [k \in 1..Cardinality(numbers) |->
     CHOOSE i \in numbers : Cardinality(numbers \cap 1..i) = k]

\* Iterator::filter: what a sequence has at these places, in its order.
Picked(seq, places) == [k \in 1..Cardinality(places) |-> seq[Ascending(places)[k]]]
==============================================================================
