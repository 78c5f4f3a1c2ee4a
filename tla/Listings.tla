------------------------------- MODULE Listings -------------------------------
(***************************************************************************)
(* The versions a package has: Registry::read_versions, which reads them   *)
(* from what a registry serves and orders them, and Catalogue::versions,   *)
(* which puts the registry's current version beside them, for Go from a    *)
(* second document fetched at the same time.                               *)
(*                                                                         *)
(* A version is a record of what its spelling is read for: its text, as    *)
(* its place among all texts, whether it is a preview and, for Go, its     *)
(* numbers (one here) and what follows the dash.                           *)
(***************************************************************************)
EXTENDS Naturals, Sequences, FiniteSets, FiniteSetsExt, SequencesExt, Orders

CONSTANTS
  Spellings,  \* versions as registries spell them: [text, core, pre], pre 0 for a release
  Dates,      \* publish dates, later ones larger
  None,       \* no date, no pointer, no such field
  Unset       \* Packagist's __unset

ASSUME DatesAssumption == Dates \subseteq Nat /\ None # Unset /\ {None, Unset} \cap Dates = {}
ASSUME SpellingsAssumption ==
  /\ \A spelling \in Spellings : {spelling.text, spelling.core, spelling.pre} \subseteq Nat
  /\ \A one, other \in Spellings : one.text = other.text => one = other

\* Registries of one document, whose pointer is in it: npm, where it has a map of them,
\* and crates.io and PyPI, where it has a list; Go, of two documents; and Composer, whose
\* entries may leave out what did not change.
Registries == {"npm", "dated", "go", "composer"}

Version(spelling, date) == [spelling |-> spelling, date |-> date]

IsPrerelease(spelling) == spelling.pre # 0

------------------------------------------------------------------------------
(***************************************************************************)
(* Packagist: an entry is what differs from the one before it.             *)
(***************************************************************************)
CarryForward(carried, listed) ==
  IF listed = Unset THEN None ELSE IF listed = None THEN carried ELSE listed

NoRelease == [version |-> None, normalized |-> None, time |-> None]

Absorb(release, entry) ==
  [field \in DOMAIN NoRelease |-> CarryForward(release[field], entry[field])]

\* as_version, with whether the spelling that says its stability is a preview's.
AsVersion(release) ==
  [version |-> Version(release.version, release.time),
   preview |-> IsPrerelease(IF release.normalized = None THEN release.version
                                                         ELSE release.normalized)]

\* packagist_versions: every entry is absorbed, one without a version is not listed.
ReadEntry(read, entry, minified) ==
  LET release == Absorb(IF minified THEN read.last ELSE NoRelease, entry)
  IN  [last  |-> release,
       found |-> IF release.version = None THEN read.found
                 ELSE Append(read.found, AsVersion(release))]

Releases(entries, minified) ==
  FoldLeft(LAMBDA read, entry : ReadEntry(read, entry, minified),
           [last |-> NoRelease, found |-> <<>>], entries).found

------------------------------------------------------------------------------
(***************************************************************************)
(* The order.                                                              *)
(***************************************************************************)
\* GoVersion: the numbers, then a release above its previews, then the previews' text.
GoNewer(a, b) ==
  \/ a.core > b.core
  \/ /\ a.core = b.core
     /\ \/ a.pre = 0 /\ b.pre # 0
        \/ a.pre # 0 /\ b.pre # 0 /\ a.pre > b.pre

\* Later dates first, no date last, and only Go orders what has none.
ComesBefore(registry, a, b) ==
  \/ a.date # None /\ (b.date = None \/ a.date > b.date)
  \/ a.date = b.date /\ registry = "go" /\ GoNewer(a.spelling, b.spelling)

\* sort_by keeps what is equal in the order it was in.
SortsBefore(registry, versions, i, j) ==
  \/ ComesBefore(registry, versions[i], versions[j])
  \/ ~ComesBefore(registry, versions[j], versions[i]) /\ i < j

Sorted(registry, versions) ==
  LET places == Arranged(1..Len(versions), LAMBDA i, j : SortsBefore(registry, versions, i, j))
  IN  [k \in 1..Len(versions) |-> versions[places[k]]]

------------------------------------------------------------------------------
(***************************************************************************)
(* read_versions.  A document has a shape this server knows, entries, and  *)
(* for one document that has one its pointer.                              *)
(***************************************************************************)
\* A BTreeMap of versions gives them back in the order of their texts.
ByText(entries) == Arranged(ToSet(entries), LAMBDA a, b : a.spelling.text < b.spelling.text)

Listed(registry, document) ==
  CASE registry = "npm" -> ByText(document.entries)
    [] registry = "dated" -> document.entries
    [] registry = "go" -> [i \in 1..Len(document.entries) |->
                             Version(document.entries[i].spelling, None)]
    [] registry = "composer" -> [i \in 1..Len(Releases(document.entries, document.minified)) |->
                                   Releases(document.entries, document.minified)[i].version]

\* The pointer a document carries; Packagist has none but its first stable release.
Pointer(registry, document) ==
  CASE registry \in {"npm", "dated"} -> document.pointer
    [] registry = "go" -> None
    [] registry = "composer" ->
         LET releases == Releases(document.entries, document.minified)
             stable   == {i \in 1..Len(releases) : ~releases[i].preview}
         IN  IF stable = {} THEN None ELSE releases[Min(stable)].version.spelling

\* The documents there are, as far as read_versions reads them: npm's versions are the
\* names of an object, each there once, and their dates are in another under those names.
DatedEntries == Seq([spelling : Spellings, date : Dates \cup {None}])
EachOnce(entries) ==
  \A i, j \in 1..Len(entries) : entries[i].spelling = entries[j].spelling => i = j

Served(registry) ==
  CASE registry = "npm" ->
         [entries : {entries \in DatedEntries : EachOnce(entries)},
          pointer : Spellings \cup {None}]
    [] registry = "dated" -> [entries : DatedEntries, pointer : Spellings \cup {None}]
    [] registry = "go" -> [entries : Seq([spelling : Spellings, date : {None}])]
    [] registry = "composer" ->
         [entries  : Seq([version : Spellings \cup {None, Unset},
                          normalized : Spellings \cup {None, Unset},
                          time : Dates \cup {None, Unset}]),
          minified : BOOLEAN]

ReadVersions(registry, document) ==
  [all     |-> Sorted(registry, Listed(registry, document)),
   current |-> Pointer(registry, document)]

------------------------------------------------------------------------------
(***************************************************************************)
(* Catalogue::versions.  The list and, for Go, @latest come back, fail to  *)
(* come, or cannot be read.                                                *)
(***************************************************************************)
NotThere == [state |-> "none"]
Failed == [answered |-> FALSE]
Answered(versions) == [answered |-> TRUE, all |-> versions.all, current |-> versions.current]

Only(version) == [all |-> <<version>>, current |-> version.spelling]
PointingAt(versions, version) == [versions EXCEPT !.current = version.spelling]

\* Mutant: without its pointer a list is not answered.
JoinedWhole(registry, list, latest) ==
  IF list.state # "read" \/ latest.state = "failed" THEN Failed
  ELSE LET versions == ReadVersions(registry, list.document)
       IN  IF latest.state = "none" THEN Answered(versions)
           ELSE IF versions.all = <<>> THEN Answered(Only(latest.version))
           ELSE Answered(PointingAt(versions, latest.version))

\* What comes of asking for a list, and for Go's @latest.
IsRead(registry, list, latest) ==
  /\ registry \in Registries
  /\ list.state \in {"read", "failed"} /\ latest.state \in {"none", "read", "failed"}
  /\ list.state = "read" => list.document \in Served(registry)

\* The list's failure is the answer's; the pointer's is when there is no list.
Joined(registry, list, latest) ==
  IF list.state # "read" THEN Failed
  ELSE LET versions == ReadVersions(registry, list.document)
       IN  IF versions.all = <<>>
           THEN CASE latest.state = "failed" -> Failed
                  [] latest.state = "none"   -> Answered(versions)
                  [] latest.state = "read"   -> Answered(Only(latest.version))
           ELSE IF latest.state = "read"
                THEN Answered(PointingAt(versions, latest.version))
                ELSE Answered(versions)

------------------------------------------------------------------------------
(***************************************************************************)
(* What is promised of them.                                               *)
(***************************************************************************)
\* A field of a release is the last one listed so far, unless it was unset since.
FieldAt(entries, minified, field, k) ==
  LET said == {j \in (IF minified THEN 1 ELSE k)..k : entries[j][field] # None}
  IN  IF said = {} \/ entries[Max(said)][field] = Unset THEN None ELSE entries[Max(said)][field]

SaidAt(document, field, k) == FieldAt(document.entries, document.minified, field, k)

\* The versions a document names, in its order.
Named(registry, document) ==
  CASE registry \in {"npm", "dated"} -> document.entries
    [] registry = "go" -> Listed(registry, document)
    [] registry = "composer" ->
         LET versions == [k \in 1..Len(document.entries) |->
                            Version(SaidAt(document, "version", k), SaidAt(document, "time", k))]
         IN  Picked(versions, {k \in 1..Len(versions) : versions[k].spelling # None})

\* Every version named is listed as often, later dates first, the undated last, and
\* what no date tells apart in the order of the document or, for Go, of the versions,
\* or, for npm, of their texts, where "10.0.0" is before "2.0.0".
InOrder(registry, named, all) ==
  /\ Len(all) = Len(named)
  /\ \A v \in ToSet(named) \cup ToSet(all) :
       Cardinality({i \in 1..Len(all) : all[i] = v})
         = Cardinality({i \in 1..Len(named) : named[i] = v})
  /\ \A i, j \in 1..Len(all) : i < j =>
       /\ all[j].date # None => all[i].date # None /\ all[i].date >= all[j].date
       /\ all[i].date = all[j].date /\ registry = "go" => ~GoNewer(all[j].spelling, all[i].spelling)
       /\ all[i].date = all[j].date /\ registry = "npm" =>
            all[i].spelling.text < all[j].spelling.text
       /\ all[i].date = all[j].date /\ registry \notin {"npm", "go"} =>
            \E k, m \in 1..Len(named) : k < m /\ named[k] = all[i] /\ named[m] = all[j]

\* A registry with versions or a current one is answered, whatever else of it fails.
IsAnswered(registry, list, latest) ==
  Joined(registry, list, latest).answered <=>
    /\ list.state = "read"
    /\ Named(registry, list.document) # <<>> \/ latest.state # "failed"

\* And the current version is the one the registry points at, listed or not.
IsCurrent(registry, list, latest) ==
  LET answer == Joined(registry, list, latest)
  IN  answer.answered =>
        answer.current = IF latest.state = "read" THEN latest.version.spelling
                                                 ELSE Pointer(registry, list.document)
==============================================================================
