------------------------------- MODULE MCShown -------------------------------
(***************************************************************************)
(* What a client is shown, for TLC: a walk over the pages of a list        *)
(* (Pages), or one question: about a file's diff (Excerpts), a             *)
(* comparison's tree (TreeWalk), a package's versions (Listings), a search *)
(* (Hits), a handle (Handles) or a resource's address (Links).             *)
(*                                                                         *)
(* A page has room for two small items or for one and a middling one, and  *)
(* for no large one.  A patch has up to MaxLines lines, each line one of   *)
(* three kinds of character by its place.  A tree is up to three names     *)
(* deep, and a name can be a file's and a directory's, where one of them   *)
(* was in one version and the other in the other.  A document has up to    *)
(* three entries.  A name is up to three of two letters, one of them also  *)
(* a capital, and an index any seven of these.  A threshold is up to two   *)
(* and a bit, in last places; a path up to four characters.                *)
(***************************************************************************)
EXTENDS Shown, TLC

CONSTANTS s1, s2, s3, mid, large, new1, new2, MaxLines

MCBytes == [i \in Items |-> CASE i = large -> 9 [] i = mid -> 4 [] OTHER -> 2]
MCStarts ==
  {<<>>, <<large>>, <<s1, s2, s3, mid>>, <<s1, mid, s2, s3>>, <<mid, s1, large, s2>>,
   <<s1, large, mid, s2, s3>>, <<large, s1, s2, mid>>, <<s1, s2, s3, large>>}

MCChars == {"plain", "newline", "wide", "control"}
MCRaw == [c \in MCChars |-> IF c = "wide" THEN 3 ELSE 1]
MCCost == [c \in MCChars |-> CASE c = "plain" -> 1 [] c = "newline" -> 2
                               [] c = "wide" -> 3 [] c = "control" -> 6]

CharAt(i) == CASE i % 3 = 0 -> "control" [] i % 3 = 1 -> "plain" [] i % 3 = 2 -> "wide"
Body(kinds) == [i \in DOMAIN kinds |-> [kind |-> kinds[i], char |-> CharAt(i)]]

MCPatches ==
  UNION {{[isDiff |-> TRUE, body |-> Body(kinds)] : kinds \in [1..n -> Kinds]} : n \in 0..MaxLines}
    \cup {[isDiff |-> FALSE, body |-> Body([i \in 1..n |-> "context"])] : n \in 0..MaxLines}

------------------------------------------------------------------------------
FileAt(path, status, lines) ==
  [path |-> path, type |-> "file", status |-> status, lines |-> lines, children |-> <<>>]

\* A directory is what its entries are, when they agree.
DirectoryAt(path, children) ==
  LET statuses == {child.status : child \in ToSet(children)}
  IN  [path |-> path, type |-> "directory", children |-> children,
       status |-> IF Cardinality(statuses) = 1 /\ statuses \subseteq {"added", "removed", "unchanged"}
                  THEN CHOOSE status \in statuses : TRUE ELSE "modified",
       lines |-> FoldLeft(LAMBDA sum, child : sum + child.lines, 0, children)]

FilesAt(path) ==
  {FileAt(path, "unchanged", 0), FileAt(path, "renamed", 0), FileAt(path, "added", 2),
   FileAt(path, "removed", 1), FileAt(path, "modified", 2)}

\* What one name may hold: nothing, a file, a directory, or one of each.
HeldAt(files, directories) ==
  LET twins == {<<file, directory>> \in files \X directories :
                  \/ file.status \in {"added", "renamed"} /\ directory.status = "removed"
                  \/ file.status = "removed" /\ directory.status = "added"}
  IN  {<<>>} \cup {<<held>> : held \in files \cup directories}
        \cup twins \cup {<<twin[2], twin[1]>> : twin \in twins}

Shallow(path) ==
  {DirectoryAt(path, <<file>>) : file \in FilesAt(Append(path, 1))}
    \cup {DirectoryAt(path, <<FileAt(Append(path, 1), "added", 2),
                              FileAt(Append(path, 2), "modified", 1)>>)}

Deep(path) ==
  {DirectoryAt(path, one \o two) :
     one \in HeldAt(FilesAt(Append(path, 1)), Shallow(Append(path, 1))) \ {<<>>},
     two \in {<<>>} \cup {<<file>> : file \in FilesAt(Append(path, 2))}}

Roots ==
  {DirectoryAt(<<>>, one \o two) :
     one \in HeldAt(FilesAt(<<1>>), Deep(<<1>>)),
     two \in {<<>>} \cup {<<held>> : held \in FilesAt(<<2>>) \cup Shallow(<<2>>)}}

WithWhatIsIn(entries) == entries \cup UNION {ToSet(entry.children) : entry \in entries}
Built == WithWhatIsIn(WithWhatIsIn(WithWhatIsIn(Roots)))

MCTrees == Roots
MCEntries == Built

------------------------------------------------------------------------------
\* "10", "2", "2-alpha" and "2-beta": a release, another whose text is after the first's
\* though its number is before it, and two previews of that one.
Ten == [text |-> 1, core |-> 10, pre |-> 0]
Two == [text |-> 2, core |-> 2, pre |-> 0]
TwoAlpha == [text |-> 3, core |-> 2, pre |-> 1]
TwoBeta == [text |-> 4, core |-> 2, pre |-> 2]
MCSpellings == {Ten, Two, TwoAlpha, TwoBeta}

Distinct(k) == {spellings \in [1..k -> Spellings] : IsInjective(spellings)}
Dated(k) == {[i \in 1..k |-> Version(spellings[i], dates[i])] :
               spellings \in Distinct(k), dates \in [1..k -> Dates \cup {None}]}

DatedDocuments ==
  [entries : UNION {Dated(k) : k \in 0..3}, pointer : {None, Two}]
GoDocuments ==
  [entries : UNION {{[i \in 1..k |-> Version(spellings[i], None)] : spellings \in Distinct(k)} :
                      k \in 0..4}]

\* An entry leaves out what did not change and unsets what is no longer so.
ComposerEntries == [version : {Two, TwoAlpha, None}, normalized : {Two, None, Unset},
                    time : Dates \cup {None, Unset}]
ComposerDocuments ==
  [entries  : UNION {[1..k -> ComposerEntries] : k \in 0..2}
                \cup [1..3 -> {entry \in ComposerEntries : entry.normalized = None}],
   minified : BOOLEAN]

NothingRead == [state |-> "failed"]
Read(documents) == {NothingRead} \cup [state : {"read"}, document : documents]
LatestReads ==
  {NothingRead} \cup {[state |-> "read", version |-> Version(spelling, 1)] : spelling \in {Ten, TwoBeta}}

------------------------------------------------------------------------------
\* A capital a, a small one and a b, and what they spell.
A == 1
a == 3
b == 4
MCSmallOf == [capital \in {A} |-> a]
MCIndexes == SUBSET {<<A>>, <<a>>, <<b>>, <<a, b>>, <<A, b>>, <<b, a>>, <<a, a, b>>}
MCQueries == {<<>>, <<A>>, <<b>>, <<a, b>>, <<b, b>>}

Ranking == <<<<a, b>>, <<b>>, <<A, b>>, <<a>>>>
MCSources ==
  [kind : {"index", "modules"}, names : MCIndexes]
    \cup {[kind |-> "ranked", hits |-> Take(Ranking, n), provided |-> provided] :
            n \in 0..4, provided \in SUBSET ToSet(Ranking)}

\* Up to three pages, each with a limit of its own.
MCWantsInTurn == UNION {[1..n -> Wants] : n \in 1..3}

\* What has a last place may be read as one with a neighbour of it.
MCReadAs ==
  [t \in Thresholds |->
     {[t EXCEPT !.places = places] :
        places \in IF t.places % Base = 0 THEN {t.places}
                   ELSE ((t.places - 1)..(t.places + 1)) \cap (0..MostPlaces)}]

MCInputs ==
  [registry : Ours, package : {"a name"}, from : {"a name"}, to : {"another"},
   threshold : Thresholds, ignoreWhitespace : {FALSE}]

MCPercentCode ==
  [c \in PathChars \ {"file"} |-> CASE c = "%" -> <<"2", "5">> [] c = "2" -> <<"5", "2">>
                               [] c = "5" -> <<"5", "5">> [] c = "/" -> <<"2", "2">>]
Paths == UNION {[1..n -> PathChars] : n \in 1..4}

------------------------------------------------------------------------------
MCQuestions ==
  [about : {"excerpt"}, patch : Patches, context : Contexts \cup {Full}]
    \cup [about : {"tree"}, tree : Trees]
    \cup [about : {"versions"}, registry : {"npm", "dated"}, listed : Read(DatedDocuments), latest : {NotThere}]
    \cup [about : {"versions"}, registry : {"go"}, listed : Read(GoDocuments), latest : LatestReads]
    \cup [about : {"versions"}, registry : {"composer"}, listed : Read(ComposerDocuments),
          latest : {NotThere}]
    \cup [about : {"search"}, source : MCSources, query : MCQueries]
    \cup [about : {"handle"}, inputs : MCInputs]
    \cup [about : {"link"}, path : Paths]
==============================================================================
