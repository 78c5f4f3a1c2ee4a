--------------------------------- MODULE Hits ---------------------------------
(***************************************************************************)
(* What a search finds: Registry::read_hits, and search_packages, which    *)
(* asks a registry for as many hits as the page it answers may have and    *)
(* pages through those.  A name is a sequence of letters, numbers in their *)
(* order, capitals first.                                                  *)
(***************************************************************************)
EXTENDS Naturals, Sequences, FiniteSets, FiniteSetsExt, SequencesExt, Orders

CONSTANTS
  Capitals,     \* the letters that are capitals
  SmallOf,      \* of each letter, the small one
  Wants,        \* the limits of pages, as Limit::items leaves them
  PageRoom,     \* how many hits the ceiling lets on a page
  AnswersMost   \* how many hits a registry answers at once

ASSUME LettersAssumption == SmallOf \in [Capitals -> Nat]
ASSUME WantsAssumption == Wants \subseteq Nat \ {0} /\ {PageRoom, AnswersMost} \subseteq Nat \ {0}

Lowercase(name) == [i \in DOMAIN name |-> IF name[i] \in Capitals THEN SmallOf[name[i]] ELSE name[i]]

------------------------------------------------------------------------------
(***************************************************************************)
(* PyPI's whole index, in which this server searches itself.               *)
(***************************************************************************)
\* rank: the query's name, one it begins, one it is somewhere in, or none of these.
Rank(name, query) ==
  LET small == Lowercase(name)
  IN  CASE small = query           -> 1
        [] IsStrictPrefix(query, small) -> 2
        [] query \in SubSeqs(small) /\ ~IsPrefix(query, small) -> 3
        [] OTHER                   -> 4

\* The order of names as text.
InText(left, right) ==
  \/ IsStrictPrefix(left, right)
  \/ \E i \in DOMAIN left \cap DOMAIN right :
       left[i] < right[i] /\ \A j \in 1..(i - 1) : left[j] = right[j]

\* Mutant: the shorter name first, however it matches.
ShorterFirst(left, right, query) ==
  \/ Len(left) < Len(right)
  \/ Len(left) = Len(right) /\ InText(left, right)

\* A better match first, then the shorter name, then the text.
IsBefore(left, right, query) ==
  LET ranks == <<Rank(left, query), Rank(right, query)>>
  IN  \/ ranks[1] < ranks[2]
      \/ ranks[1] = ranks[2] /\ \/ Len(left) < Len(right)
                                \/ Len(left) = Len(right) /\ InText(left, right)

\* Sorted: names differ, so that one of any two comes first.
Matched(index, query) ==
  Arranged({name \in index : Rank(name, query) < 4},
           LAMBDA left, right : IsBefore(left, right, query))

------------------------------------------------------------------------------
(***************************************************************************)
(* The others search for themselves, and answer with their best first;     *)
(* Packagist also with names that no package has but some provide.  Go has *)
(* no search: a query is a module's path or finds nothing.                 *)
(***************************************************************************)
Take(hits, n) == SubSeq(hits, 1, Min({n, Len(hits)}))

\* What a registry has for a search: PyPI's names, what another one finds, each package
\* once, or Go's modules.
IsSource(source) ==
  CASE source.kind = "index"   -> IsFiniteSet(source.names) /\ source.names \subseteq Seq(Nat)
    [] source.kind = "ranked"  -> source.hits \in Seq(Seq(Nat)) /\ IsInjective(source.hits)
    [] source.kind = "modules" -> source.names \subseteq Seq(Nat)
    [] OTHER                   -> FALSE

\* Packagist's filter.
Without(hits, provided) == Picked(hits, {i \in 1..Len(hits) : hits[i] \notin provided})

\* Registry::read_hits of what Registry::search asked for.
ReadHits(source, query, limit) ==
  Take(CASE source.kind = "index"  -> Matched(source.names, Lowercase(query))
         [] source.kind = "ranked" ->
              Without(Take(source.hits, Min({limit, AnswersMost})), source.provided)
         [] source.kind = "modules" -> IF query \in source.names THEN <<query>> ELSE <<>>,
       limit)

\* search_packages: nothing is asked for nothing.
HitsFor(source, query, limit) == IF query = <<>> THEN <<>> ELSE ReadHits(source, query, limit)

\* A walk's next page: Pages!PageItems, of hits of one size.
NextPage(source, query, walk, want) ==
  LET hits    == HitsFor(source, query, want)
      reached == Max({walk.cursor, Min({walk.cursor + want, walk.cursor + PageRoom, Len(hits)})})
  IN  IF walk.ended THEN walk
      ELSE [seen   |-> walk.seen \o SubSeq(hits, walk.cursor + 1, reached),
            cursor |-> reached,
            ended  |-> reached >= Len(hits)]

WalkOf(source, query, wants) ==
  FoldLeft(LAMBDA walk, want : NextPage(source, query, walk, want),
           [seen |-> <<>>, cursor |-> 0, ended |-> FALSE], wants)

------------------------------------------------------------------------------
(***************************************************************************)
(* What is promised of a walk.                                             *)
(***************************************************************************)
\* What a name has of a query: all of it and no more, at its start, anywhere.
Merits(name, query) ==
  LET small == Lowercase(name)
      wanted == Lowercase(query)
  IN  {merit \in 1..3 : CASE merit = 1 -> small = wanted
                          [] merit = 2 -> IsPrefix(wanted, small)
                          [] merit = 3 -> wanted \in SubSeqs(small)}

Better(left, right, query) ==
  LET merits == <<Merits(left, query), Merits(right, query)>>
  IN  \/ merits[2] \subseteq merits[1] /\ merits[2] # merits[1]
      \/ merits[1] = merits[2] /\ Len(left) < Len(right)

Matches(source, query) ==
  IF query = <<>> THEN {}
  ELSE CASE source.kind = "index"   -> {name \in source.names : Merits(name, query) # {}}
         [] source.kind = "ranked"  -> ToSet(source.hits) \ source.provided
         [] source.kind = "modules" -> source.names \cap {query}

IsBetter(source, left, right, query) ==
  CASE source.kind = "index"   -> Better(left, right, query)
    [] source.kind = "ranked"  -> \E i, j \in DOMAIN source.hits :
                                    i < j /\ source.hits[i] = left /\ source.hits[j] = right
    [] source.kind = "modules" -> FALSE

\* Each hit once, none before a better one, and none passed over for a worse one.
BestFirst(source, query, seen) ==
  LET matches == Matches(source, query)
  IN  /\ IsInjective(seen) /\ ToSet(seen) \subseteq matches
      /\ \A i, j \in DOMAIN seen : i < j => ~IsBetter(source, seen[j], seen[i], query)
      /\ \A hit \in ToSet(seen), other \in matches \ ToSet(seen) : ~IsBetter(source, other, hit, query)

\* With one limit throughout, an index gives as many hits as were asked for, or all.
GivesAll(source, query, walk, want) ==
  walk.ended /\ source.kind = "index" =>
    Len(walk.seen) = Min({want, Cardinality(Matches(source, query))})
==============================================================================
