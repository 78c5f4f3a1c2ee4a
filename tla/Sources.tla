-------------------------------- MODULE Sources --------------------------------
(***************************************************************************)
(* One call to a registry: Archive::fetch, Catalogue::versions or          *)
(* Search::hits, through Document::body and fetch::bytes, down to hosts,   *)
(* redirects, statuses, chunks and timeouts.  The registry publishes and   *)
(* takes back meanwhile.  Slots, turns and the memo are Download's; what   *)
(* is read out of a document is Listings'.                                 *)
(*                                                                         *)
(* crates.io is asked as npm is.  The names keep clear of BlobApi's, the   *)
(* other client over a network, beside which an instance puts this one.    *)
(***************************************************************************)
EXTENDS Naturals, FiniteSets, Failures

CONSTANTS
  Asks,             \* the calls: [kind, registry]
  KnownHosts,       \* registry::allowed_hosts
  OtherHosts,       \* every other host there is
  Limit,            \* the seam's SIZE_LIMIT, in the bytes below
  MostBytes,        \* the longest body
  UpstreamTimeout,  \* UPSTREAM_TIMEOUT, in ticks
  MaxReleases       \* bound: how often what the registry has changes meanwhile

Registries == {"npm", "pypi", "go", "composer"}

ASSUME AsksAssumption ==
  Asks \subseteq [kind : {"archive", "versions", "search"}, registry : Registries]
ASSUME HostsAssumption == KnownHosts \cap OtherHosts = {}
ASSUME LimitsAssumption == {Limit, MostBytes, UpstreamTimeout, MaxReleases} \subseteq Nat

Hosts == KnownHosts \cup OtherHosts
Documents == {"archive", "listing", "list", "current", "hits"}

\* What a registry has of what is asked for: no such package, no such version of it, a
\* version without an archive that can be read, or one with it.
Stocks == {"nothing", "package", "listed", "version"}

\* What a body says, once read.
Contents == {"picks", "names", "leavesOut", "versions", "version", "hits", "empty", "good", "strange"}

VARIABLES
  ask,        \* the call
  stock,      \* what the registry has
  been,       \* history: what it had at some time during the call
  releases,   \* how often that changed
  document,   \* of each document: where its request is and what came of it
  reached,    \* history: the hosts a request went to
  spent,      \* the ticks since the call began
  outcome     \* how the call ended, "none" until it has

sourceVars == <<ask, stock, been, releases, document, reached, spent, outcome>>

NotAsked == [at |-> "unasked", age |-> 0, held |-> 0, size |-> 0, says |-> "none",
             result |-> "none", faulty |-> FALSE]

DocumentStates ==
  [at : {"unasked", "sent", "reading", "over"}, age : Nat, held : Nat, size : Nat,
   says : Contents \cup {"none"}, result : Contents \cup FailureKinds \cup {"none"},
   faulty : BOOLEAN]

SourcesTypeOK ==
  /\ ask \in Asks
  /\ stock \in Stocks
  /\ been \subseteq Stocks
  /\ releases \in 0..MaxReleases
  /\ document \in [Documents -> DocumentStates]
  /\ reached \subseteq Hosts
  /\ spent \in Nat
  /\ outcome \in {"none", "contents", "versions", "hits", "noHits"} \cup FailureKinds

NothingAsked ==
  /\ been = {stock}
  /\ releases = 0
  /\ document = [d \in Documents |-> NotAsked]
  /\ reached = {}
  /\ spent = 0
  /\ outcome = "none"

SourcesInit == ask \in Asks /\ stock \in Stocks /\ NothingAsked

------------------------------------------------------------------------------
(***************************************************************************)
(* How registries differ.                                                  *)
(***************************************************************************)
\* Registry::archive: the archive's URL is in a document to be read first.
FromAListing == ask.registry \in {"pypi", "composer"}

\* Registry::unbuildable_archive_url: a name of no package, and only Packagist's have a shape.
Unbuildable == ask.registry = "composer" /\ stock = "nothing"

\* Registry::listing_names_every_version: one document for all of a package.
ListingNamesEveryVersion == ask.registry = "composer"

\* Registry::versions: the current version is in a document of its own.
HasCurrent == ask.registry = "go"

\* Registry::search: no search, but a module's own document.
NamesAPackage == ask.registry = "go"

\* Registry::search: the whole index, which alone comes compressed.
Compressed(d) == d = "hits" /\ ask.registry = "pypi"

\* Whether there is a document, given what the registry has.
IsServed(d) ==
  CASE d = "archive" -> stock = "version"
    [] d = "listing" -> IF ListingNamesEveryVersion THEN stock # "nothing"
                                                    ELSE stock \in {"listed", "version"}
    [] d = "hits"    -> NamesAPackage => stock # "nothing"
    [] OTHER         -> stock # "nothing"

\* And what it can say, or be cut short or in a shape nobody knows.
Sayings(d) ==
  {"strange"} \cup
  (CASE d = "listing" -> (CASE stock = "version" -> {"picks"}
                            [] stock = "listed"  -> {"picks", "names"}
                            [] OTHER             -> {"leavesOut"})
     [] d = "archive" -> {"good"}
     [] d = "list"    -> {"versions", "empty"}
     [] d = "current" -> {"version"}
     [] d = "hits"    -> IF NamesAPackage THEN {"hits"} ELSE {"hits", "empty"})

------------------------------------------------------------------------------
(***************************************************************************)
(* What a seam calls what goes wrong: its About.                           *)
(***************************************************************************)
\* missing: of an archive, unlisted and not_found; of the rest, no_such_package, and
\* unavailable where a search names no package.
MissingAs(d) ==
  CASE d = "archive" -> "no_such_version"
    [] d = "listing" -> IF ListingNamesEveryVersion THEN "no_such_package" ELSE "no_such_version"
    [] d = "hits" /\ ~NamesAPackage -> "unavailable"
    [] OTHER -> "no_such_package"

BlockedAs(d) ==
  CASE d \in {"archive", "listing"} -> "malformed_archive"
    [] d \in {"list", "current"} -> "unreadable_versions"
    [] d = "hits" -> "internal"

TooLargeAs(d) ==
  CASE d \in {"archive", "listing"} -> "too_large"
    [] d \in {"list", "current"} -> "versions_too_large"
    [] d = "hits" -> "search_too_large"

------------------------------------------------------------------------------
(***************************************************************************)
(* The documents of a call.                                                *)
(***************************************************************************)
\* Mutant: a version's current one is asked for after the list has come.
WantedInTurn ==
  CASE ask.kind = "versions" -> {"list"} \cup (IF HasCurrent /\ document["list"].at = "over"
                                               THEN {"current"} ELSE {})
    [] ask.kind = "archive"  -> IF ~FromAListing THEN {"archive"}
                                ELSE {"listing"} \cup (IF document["listing"].result = "picks"
                                                       THEN {"archive"} ELSE {})
    [] ask.kind = "search"   -> {"hits"}

\* A listing picks the archive it is read for; a list and its current version come at once.
Wanted ==
  CASE ask.kind = "versions" -> {"list"} \cup (IF HasCurrent THEN {"current"} ELSE {})
    [] ask.kind = "archive"  -> IF ~FromAListing THEN {"archive"}
                                ELSE {"listing"} \cup (IF document["listing"].result = "picks"
                                                       THEN {"archive"} ELSE {})
    [] ask.kind = "search"   -> {"hits"}

\* A URL this server builds is on a host it knows; one that a listing picked is anywhere.
HostsOf(d) == IF d = "archive" /\ FromAListing THEN Hosts ELSE KnownHosts

Set(d, state) == document' = [document EXCEPT ![d] = state]
Becomes(d, result) == Set(d, [document[d] EXCEPT !.at = "over", !.result = result])
Fails(d, kind) == Set(d, [document[d] EXCEPT !.at = "over", !.result = kind, !.faulty = TRUE])

\* registry::allows.
Allows(host) == host \in KnownHosts

\* Document::body: a host that is not known is not asked; one that is, in its turn.
Request(d) ==
  /\ document[d].at = "unasked"
  /\ \E host \in HostsOf(d) :
       IF Allows(host)
       THEN Set(d, [document[d] EXCEPT !.at = "sent"]) /\ reached' = reached \cup {host}
       ELSE Becomes(d, BlockedAs(d)) /\ UNCHANGED reached

\* No slot, or no turn, came in time.
Refused(d) ==
  /\ document[d].at = "unasked"
  /\ Fails(d, "busy")
  /\ UNCHANGED reached

\* Mutant: a redirect is followed wherever it leads.
FollowsAnywhere(d) ==
  \E host \in Hosts : reached' = reached \cup {host} /\ UNCHANGED document

\* client's policy: followed as often as it is answered with to a host that is known;
\* stopped, the redirect itself is the answer, and no success.
Follows(d) ==
  \E host \in Hosts :
    IF Allows(host) THEN reached' = reached \cup {host} /\ UNCHANGED document
                    ELSE Fails(d, "unavailable") /\ UNCHANGED reached

Redirected(d) == document[d].at = "sent" /\ Follows(d)

\* success: a document that is not there, and a registry that does not serve.
Unsuccessful(d) ==
  /\ document[d].at = "sent"
  /\ \/ ~IsServed(d) /\ Becomes(d, MissingAs(d))
     \/ \E kind \in {"rate_limited", "unavailable"} : Fails(d, kind)
  /\ UNCHANGED reached

IsOver(d, weight) == weight > Limit

\* read_within: the length a body declares is believed when it is too long, unless the
\* body is compressed.
Success(d) ==
  /\ document[d].at = "sent"
  /\ IsServed(d)
  /\ \E size \in 0..MostBytes, declares \in BOOLEAN, says \in Sayings(d) :
       IF declares /\ ~Compressed(d) /\ size > Limit
       THEN Becomes(d, TooLargeAs(d))
       ELSE Set(d, [document[d] EXCEPT !.at = "reading", !.size = size, !.says = says])
  /\ UNCHANGED reached

Chunk(d) ==
  /\ document[d].at = "reading"
  /\ \E n \in 1..(document[d].size - document[d].held) :
       IF IsOver(d, document[d].held + n)
       THEN Becomes(d, TooLargeAs(d))
       ELSE Set(d, [document[d] EXCEPT !.held = @ + n])
  /\ UNCHANGED reached

BodyEnds(d) ==
  /\ document[d].at = "reading"
  /\ document[d].held = document[d].size
  /\ Becomes(d, document[d].says)
  /\ UNCHANGED reached

Underway(d) == document[d].at \in {"sent", "reading"}

\* failed: the connection, or the client's own timeout of the whole request.
Breaks(d) ==
  /\ Underway(d)
  /\ Fails(d, "unreachable")
  /\ UNCHANGED reached

Late(d) == Underway(d) /\ document[d].age = UpstreamTimeout

\* Mutant: only the body is timed, and not the way to it.
BodyTimesOut(d) ==
  /\ Late(d)
  /\ document[d].at = "reading"
  /\ Fails(d, "timed_out")
  /\ UNCHANGED reached

TimesOut(d) ==
  /\ Late(d)
  /\ Fails(d, "timed_out")
  /\ UNCHANGED reached

Fetches(d) ==
  /\ outcome = "none"
  /\ d \in Wanted
  /\ \/ Request(d) \/ Refused(d)
     \/ Redirected(d) \/ Unsuccessful(d) \/ Success(d)
     \/ Chunk(d) \/ BodyEnds(d)
     \/ Breaks(d) \/ TimesOut(d)
  /\ UNCHANGED <<ask, stock, been, releases, spent, outcome>>

------------------------------------------------------------------------------
(***************************************************************************)
(* What the seam makes of them.                                            *)
(***************************************************************************)
Result(d) == document[d].result
Failed(d) == Result(d) \in FailureKinds

\* Mutant: a version without an archive is no version.
UnchosenAlways == "no_such_version"

\* unchosen: no such version where the listing can be read and leaves it out.
Unchosen == IF Result("listing") = "leavesOut" THEN "no_such_version" ELSE "malformed_archive"

OfTheArchive ==
  IF FromAListing /\ Result("listing") # "picks"
  THEN IF Failed("listing") THEN Result("listing") ELSE Unchosen
  ELSE CASE Failed("archive") -> Result("archive")
         [] Result("archive") = "good" -> "contents"
         [] OTHER -> "malformed_archive"

\* Listings!Joined, with the failure it fails with.
OfTheVersions ==
  CASE Failed("list") -> Result("list")
    [] Result("list") = "strange" -> "unreadable_versions"
    [] Result("list") = "empty" /\ HasCurrent /\ Failed("current") -> Result("current")
    [] Result("list") = "empty" /\ HasCurrent /\ Result("current") = "strange" -> "unreadable_versions"
    [] OTHER -> "versions"

\* A package that is not there is a search that finds nothing.
OfTheHits ==
  CASE Result("hits") \in {"no_such_package", "empty"} -> "noHits"
    [] Failed("hits") -> Result("hits")
    [] Result("hits") = "strange" -> "unreadable_search"
    [] OTHER -> "hits"

Concluded ==
  CASE ask.kind = "archive"  -> OfTheArchive
    [] ask.kind = "versions" -> OfTheVersions
    [] ask.kind = "search"   -> OfTheHits

AllCame == \A d \in Wanted : document[d].at = "over"

Conclude ==
  /\ outcome = "none"
  /\ AllCame
  /\ outcome' = Concluded
  /\ UNCHANGED <<ask, stock, been, releases, document, reached, spent>>

Release ==
  /\ outcome = "none"
  /\ releases < MaxReleases
  /\ releases' = releases + 1
  /\ stock' \in Stocks \ {stock}
  /\ been' = been \cup {stock'}
  /\ UNCHANGED <<ask, document, reached, spent, outcome>>

\* Time is counted where a registry is waited for, and no timer is late.
Waits ==
  /\ outcome = "none"
  /\ ~AllCame
  /\ \A d \in Wanted : document[d].at # "unasked" /\ ~Late(d)
  /\ document' = [d \in Documents |->
                    IF Underway(d) THEN [document[d] EXCEPT !.age = @ + 1] ELSE document[d]]
  /\ spent' = spent + 1
  /\ UNCHANGED <<ask, stock, been, releases, reached, outcome>>

\* Registry::archive: no URL can be built for a name that is no package's.
NoPackageLikeIt ==
  /\ outcome = "none"
  /\ ask.kind = "archive" /\ Unbuildable
  /\ document["listing"].at = "unasked"
  /\ outcome' = "no_such_package"
  /\ UNCHANGED <<ask, stock, been, releases, document, reached, spent>>

AnswersOrWaits == NoPackageLikeIt \/ Waits \/ Conclude \/ \E d \in Documents : Fetches(d)

SourcesEnded == outcome # "none" /\ UNCHANGED sourceVars

SourcesNext == AnswersOrWaits \/ Release \/ SourcesEnded

SourcesSpec == SourcesInit /\ [][SourcesNext]_sourceVars

\* Time goes on, and so does what takes none of the network's doing.
OfItself(d) ==
  /\ outcome = "none" /\ d \in Wanted
  /\ Request(d) \/ Refused(d) \/ TimesOut(d)
  /\ UNCHANGED <<ask, stock, been, releases, spent, outcome>>

SourcesFairness ==
  /\ WF_sourceVars(Waits)
  /\ WF_sourceVars(Conclude)
  /\ \A d \in Documents : WF_sourceVars(OfItself(d))

------------------------------------------------------------------------------
(***************************************************************************)
(* Properties.                                                             *)
(***************************************************************************)
\* No request goes to a host this server does not know, whatever a registry's documents
\* name and wherever it redirects to.
OnlyKnownHosts == reached \subseteq KnownHosts

\* What a caller is told a registry has, or does not have, was so at some time during
\* the call: of an archive that it cannot be had, or was.
ToldWhatIs ==
  /\ (outcome = "no_such_package" \/ (outcome = "noHits" /\ NamesAPackage)) => "nothing" \in been
  /\ outcome = "no_such_version" => been # {"version"}
  /\ outcome = "contents" => "version" \in been

\* A model is told to try again, in the sentence and in the code, when a registry or the
\* way to it failed, and told nothing else then.
AdviceFitsTheFault ==
  outcome \in FailureKinds =>
    /\ ForTheModel(outcome)
    /\ (Code(outcome) = "try_again") <=> (Sentence(outcome) = "again")
    /\ Code(outcome) = "try_again" => \E d \in Documents : document[d].faulty
    /\ \A d \in Documents \ {"current"} : document[d].faulty => Code(outcome) = "try_again"

\* A call takes no longer than its documents one after the other, where one needs another,
\* and as long as one of them where none does; and it holds no more of a document than
\* the seam's limit, whatever length a body declares.
StaysWithinItsLimits ==
  /\ spent <= IF ask.kind = "archive" /\ FromAListing THEN 2 * UpstreamTimeout
                                                       ELSE UpstreamTimeout
  /\ \A d \in Documents : document[d].held <= Limit

\* Every call is answered, also when a registry redirects it round and round.
EveryAskConcludes == <>(outcome # "none")
==============================================================================
