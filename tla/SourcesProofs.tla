----------------------------- MODULE SourcesProofs -----------------------------
(***************************************************************************)
(* The safety of one call to a registry, for every set of hosts, limit,    *)
(* timeout and call, however often the registry changes meanwhile.         *)
(*                                                                         *)
(* Each document is sound by itself: what was read in it or became of its  *)
(* request was so at some time, and only a fault of the registry or of the *)
(* way to it is a reason to try again.  Its age bounds the time spent, and *)
(* the outcome is what the seam makes of all of them.                      *)
(***************************************************************************)
EXTENDS Sources, TLAPS

\* What a word about the registry says of what it had.
WasSo(d, word) ==
  /\ word = "no_such_package" => "nothing" \in been
  /\ word \in {"no_such_version", "leavesOut"} => been # {"version"}
  /\ word = "good" => "version" \in been
  /\ word = "empty" /\ d = "hits" => ~NamesAPackage

Sound(d, s) ==
  /\ s \in DocumentStates
  /\ s.at = "unasked" => s = NotAsked
  /\ s.at # "over" => s.result = "none"
  /\ s.held <= Limit /\ s.age <= UpstreamTimeout
  /\ s.faulty <=> s.result \in TransientKinds
  /\ s.result \notin CallersKinds \cup OwnKinds
  /\ WasSo(d, s.says) /\ WasSo(d, s.result)

\* The time a document can have had to wait for, before its own.
Before(d) == IF d = "archive" /\ FromAListing THEN UpstreamTimeout ELSE 0

TimeIsCounted ==
  /\ \A d \in Wanted : document[d].at # "over" => spent <= Before(d) + document[d].age
  /\ spent <= IF ask.kind = "archive" /\ FromAListing THEN 2 * UpstreamTimeout
                                                       ELSE UpstreamTimeout

\* The outcome is what the seam makes of what came, or of a name that is no package's.
OutcomeIsTheirs ==
  \/ outcome = "none"
  \/ outcome = Concluded
  \/ /\ outcome = "no_such_package"
     /\ "nothing" \in been
     /\ \A d \in Documents : document[d] = NotAsked

IInv ==
  /\ SourcesTypeOK
  /\ stock \in been
  /\ OnlyKnownHosts
  /\ \A d \in Documents : Sound(d, document[d])
  /\ \A d \in Documents \ Wanted : document[d] = NotAsked
  /\ TimeIsCounted
  /\ OutcomeIsTheirs

------------------------------------------------------------------------------
(***************************************************************************)
(* One document.                                                           *)
(***************************************************************************)
\* A document that was not asked for is sound.
LEMMA NotAskedIsSound ==
  ASSUME NEW d \in Documents
  PROVE  Sound(d, NotAsked)
BY LimitsAssumption
DEF Sound, NotAsked, DocumentStates, WasSo, TransientKinds, CallersKinds, OwnKinds, Contents

\* A failure that is a registry's fault, or that of the way to it.
LEMMA FailedIsSound ==
  ASSUME NEW d \in Documents, NEW kind \in TransientKinds, Sound(d, document[d])
  PROVE  Sound(d, [document[d] EXCEPT !.at = "over", !.result = kind, !.faulty = TRUE])
<1>1. kind \in FailureKinds /\ kind \notin CallersKinds \cup OwnKinds /\ WasSo(d, kind)
  BY DEF TransientKinds, FailureKinds, CallersKinds, OwnKinds, WasSo
<1> QED
  BY <1>1 DEF Sound, DocumentStates, NotAsked

\* A result that is nobody's fault, and was so.
LEMMA BecomeIsSound ==
  ASSUME NEW d \in Documents, NEW result \in Contents \cup FailureKinds \cup {"none"},
         Sound(d, document[d]), ~document[d].faulty,
         result \notin TransientKinds \cup CallersKinds \cup OwnKinds, WasSo(d, result)
  PROVE  Sound(d, [document[d] EXCEPT !.at = "over", !.result = result])
BY DEF Sound, DocumentStates, NotAsked

\* What is not over is nobody's fault yet.
LEMMA NoFaultYet ==
  ASSUME NEW d \in Documents, Sound(d, document[d]), document[d].at # "over"
  PROVE  ~document[d].faulty
BY DEF Sound, TransientKinds

\* What a document that is served says of the registry is so.
LEMMA SayingsAreSo ==
  ASSUME NEW d \in Documents, NEW says \in Sayings(d), stock \in Stocks, stock \in been, IsServed(d)
  PROVE  says \in Contents /\ WasSo(d, says)
BY DEF Documents, Sayings, IsServed, Stocks, Contents, WasSo, NamesAPackage

\* A document that is not there is missing as what is not there.
LEMMA MissingIsSo ==
  ASSUME NEW d \in Documents, stock \in Stocks, stock \in been, ~IsServed(d)
  PROVE  /\ MissingAs(d) \in MissingKinds
         /\ WasSo(d, MissingAs(d))
BY DEF Documents, IsServed, Stocks, MissingAs, MissingKinds, WasSo, NamesAPackage

\* Each step of a request leaves its document sound, as old as it was, and asks no host
\* that is not known.
LEMMA FetchIsSound ==
  ASSUME IInv, NEW d \in Documents, Fetches(d)
  PROVE  /\ \E s : /\ document' = [document EXCEPT ![d] = s]
                   /\ Sound(d, s)
                   /\ s.age = document[d].age
         /\ document[d].at # "over"
         /\ d \in Wanted
         /\ reached' \subseteq KnownHosts
<1> DEFINE Steps(s) == /\ document' = [document EXCEPT ![d] = s]
                       /\ Sound(d, s)
                       /\ s.age = document[d].age
<1>1. /\ Sound(d, document[d]) /\ document[d] \in DocumentStates
      /\ stock \in Stocks /\ stock \in been /\ reached \subseteq KnownHosts
      /\ document = [document EXCEPT ![d] = document[d]]
  BY DEF IInv, SourcesTypeOK, OnlyKnownHosts, Sound
<1>2. ASSUME NEW kind \in TransientKinds, Fails(d, kind)
      PROVE  \E s : Steps(s)
  <2>1. Steps([document[d] EXCEPT !.at = "over", !.result = kind, !.faulty = TRUE])
    BY <1>1, <1>2, FailedIsSound DEF Fails, Set, DocumentStates
  <2> QED
    BY <2>1
<1>3. ASSUME NEW result \in Contents \cup FailureKinds \cup {"none"}, Becomes(d, result),
             document[d].at # "over",
             result \notin TransientKinds \cup CallersKinds \cup OwnKinds, WasSo(d, result)
      PROVE  \E s : Steps(s)
  <2>1. Steps([document[d] EXCEPT !.at = "over", !.result = result])
    BY <1>1, <1>3, BecomeIsSound, NoFaultYet DEF Becomes, Set, DocumentStates
  <2> QED
    BY <2>1
<1>4. CASE Request(d)
  <2> PICK host \in HostsOf(d) :
        IF Allows(host)
        THEN Set(d, [document[d] EXCEPT !.at = "sent"]) /\ reached' = reached \cup {host}
        ELSE Becomes(d, BlockedAs(d)) /\ UNCHANGED reached
    BY <1>4 DEF Request
  <2>1. document[d].at = "unasked"
    BY <1>4 DEF Request
  <2>2. CASE Allows(host)
    <3>1. Steps([document[d] EXCEPT !.at = "sent"])
      BY <1>1, <2>1, <2>2 DEF Set, Sound, DocumentStates
    <3> QED
      BY <1>1, <2>1, <2>2, <3>1 DEF Allows, Fetches
  <2>3. CASE ~Allows(host)
    <3>1. d \in {"archive", "listing", "list", "current"}
      BY <2>3 DEF HostsOf, Allows, Documents
    <3>2. /\ BlockedAs(d) \in FailureKinds
          /\ BlockedAs(d) \notin TransientKinds \cup CallersKinds \cup OwnKinds
          /\ WasSo(d, BlockedAs(d))
      BY <3>1 DEF BlockedAs, FailureKinds, UnreadableKinds, TransientKinds, CallersKinds, OwnKinds, WasSo
    <3> QED
      BY <1>1, <1>3, <2>1, <2>3, <3>2 DEF Fetches
  <2> QED
    BY <2>2, <2>3
<1>5. CASE Refused(d)
  BY <1>1, <1>2, <1>5 DEF Refused, Fetches, TransientKinds
<1>6. CASE Redirected(d)
  <2> PICK host \in Hosts :
        IF Allows(host) THEN reached' = reached \cup {host} /\ UNCHANGED document
                        ELSE Fails(d, "unavailable") /\ UNCHANGED reached
    BY <1>6 DEF Redirected, Follows
  <2>1. CASE Allows(host)
    <3>1. Steps(document[d])
      BY <1>1, <2>1
    <3> QED
      BY <1>1, <1>6, <2>1, <3>1 DEF Allows, Fetches, Redirected
  <2>2. CASE ~Allows(host)
    BY <1>1, <1>2, <1>6, <2>2 DEF Fetches, Redirected, TransientKinds
  <2> QED
    BY <2>1, <2>2
<1>7. CASE Unsuccessful(d)
  <2>1. CASE ~IsServed(d) /\ Becomes(d, MissingAs(d))
    <3>1. /\ MissingAs(d) \in FailureKinds /\ WasSo(d, MissingAs(d))
          /\ MissingAs(d) \notin TransientKinds \cup CallersKinds \cup OwnKinds
      BY <1>1, <2>1, MissingIsSo DEF MissingKinds, FailureKinds, TransientKinds, CallersKinds, OwnKinds
    <3> QED
      BY <1>1, <1>3, <1>7, <2>1, <3>1 DEF Fetches, Unsuccessful
  <2>2. CASE \E kind \in {"rate_limited", "unavailable"} : Fails(d, kind)
    BY <1>1, <1>2, <1>7, <2>2 DEF Fetches, Unsuccessful, TransientKinds
  <2> QED
    BY <1>7, <2>1, <2>2 DEF Unsuccessful
<1>8. TooLargeAs(d) \in FailureKinds /\ WasSo(d, TooLargeAs(d))
      /\ TooLargeAs(d) \notin TransientKinds \cup CallersKinds \cup OwnKinds
  BY DEF Documents, TooLargeAs, FailureKinds, TooLargeKinds, TransientKinds, CallersKinds, OwnKinds, WasSo
<1>9. CASE Success(d)
  <2> PICK size \in 0..MostBytes, declares \in BOOLEAN, says \in Sayings(d) :
        IF declares /\ ~Compressed(d) /\ size > Limit
        THEN Becomes(d, TooLargeAs(d))
        ELSE Set(d, [document[d] EXCEPT !.at = "reading", !.size = size, !.says = says])
    BY <1>9 DEF Success
  <2>1. CASE Becomes(d, TooLargeAs(d))
    BY <1>1, <1>3, <1>8, <1>9, <2>1 DEF Fetches, Success
  <2>2. CASE Set(d, [document[d] EXCEPT !.at = "reading", !.size = size, !.says = says])
    <3>1. says \in Contents /\ WasSo(d, says) /\ size \in Nat
      BY <1>1, <1>9, SayingsAreSo, LimitsAssumption DEF Success
    <3>2. Steps([document[d] EXCEPT !.at = "reading", !.size = size, !.says = says])
      BY <1>1, <1>9, <2>2, <3>1 DEF Success, Set, Sound, DocumentStates
    <3> QED
      BY <1>1, <1>9, <3>2 DEF Fetches, Success
  <2> QED
    BY <2>1, <2>2
<1>10. CASE Chunk(d)
  <2> PICK n \in 1..(document[d].size - document[d].held) :
        IF IsOver(d, document[d].held + n)
        THEN Becomes(d, TooLargeAs(d))
        ELSE Set(d, [document[d] EXCEPT !.held = @ + n])
    BY <1>10 DEF Chunk
  <2>1. CASE IsOver(d, document[d].held + n)
    BY <1>1, <1>3, <1>8, <1>10, <2>1 DEF Fetches, Chunk
  <2>2. CASE ~IsOver(d, document[d].held + n)
    <3>1. document[d].held \in Nat /\ document[d].size \in Nat /\ Limit \in Nat /\ n \in Nat
      BY <1>1, LimitsAssumption DEF DocumentStates
    <3>2. document[d].held + n \in Nat /\ document[d].held + n <= Limit
      BY <2>2, <3>1 DEF IsOver
    <3>3. Steps([document[d] EXCEPT !.held = @ + n])
      BY <1>1, <1>10, <2>2, <3>2 DEF Chunk, Set, Sound, DocumentStates
    <3> QED
      BY <1>1, <1>10, <3>3 DEF Fetches, Chunk
  <2> QED
    BY <2>1, <2>2
<1>11. CASE BodyEnds(d)
  <2>1. /\ document[d].says \in Contents \cup {"none"}
        /\ document[d].says \notin TransientKinds \cup CallersKinds \cup OwnKinds
        /\ WasSo(d, document[d].says)
    BY <1>1 DEF DocumentStates, Sound, Contents, TransientKinds, CallersKinds, OwnKinds
  <2> QED
    BY <1>1, <1>3, <1>11, <2>1 DEF Fetches, BodyEnds
<1>12. CASE Breaks(d)
  BY <1>1, <1>2, <1>12 DEF Fetches, Breaks, Underway, TransientKinds
<1>13. CASE TimesOut(d)
  BY <1>1, <1>2, <1>13 DEF Fetches, TimesOut, Late, Underway, TransientKinds
<1> QED
  BY <1>4, <1>5, <1>6, <1>7, <1>9, <1>10, <1>11, <1>12, <1>13 DEF Fetches

------------------------------------------------------------------------------
(***************************************************************************)
(* All of them.                                                            *)
(***************************************************************************)
\* The documents that are wanted are documents.
LEMMA WantedAreDocuments ==
  ASSUME ask \in Asks
  PROVE  Wanted \subseteq Documents
BY AsksAssumption DEF Wanted, Documents

\* What is wanted, wanted once, stays wanted while one document changes: only a listing
\* adds to it, the archive it picks.
LEMMA WantedGrows ==
  ASSUME IInv, NEW d \in Wanted, NEW s, document' = [document EXCEPT ![d] = s],
         document[d].at # "over", UNCHANGED ask
  PROVE  /\ Wanted \subseteq Wanted'
         /\ \A e \in Wanted' \ Wanted :
              e = "archive" /\ d = "listing" /\ ask.kind = "archive" /\ FromAListing
<1>1. document \in [Documents -> DocumentStates] /\ ask.kind \in {"archive", "versions", "search"}
  BY AsksAssumption DEF IInv, SourcesTypeOK
<1>2. document[d].result = "none"
  BY <1>1 DEF IInv, Sound, Wanted, Documents
<1> QED
  BY <1>1, <1>2 DEF Wanted, FromAListing, HasCurrent, Documents

\* The invariant holds of every call that begins.
LEMMA InitIInv == SourcesInit => IInv
<1> SUFFICES ASSUME SourcesInit PROVE IInv
  OBVIOUS
<1> USE DEF SourcesInit, NothingAsked
<1>1. NotAsked \in DocumentStates
  BY DEF NotAsked, DocumentStates
<1>2. SourcesTypeOK
  BY <1>1, LimitsAssumption DEF SourcesTypeOK
<1>3. \A d \in Documents : document[d] = NotAsked /\ Sound(d, document[d])
  BY NotAskedIsSound
<1>4. TimeIsCounted
  <2>1. \A d \in Wanted : d \in Documents
    BY WantedAreDocuments
  <2>2. NotAsked.age = 0 /\ UpstreamTimeout \in Nat
    BY LimitsAssumption DEF NotAsked
  <2> QED
    BY <1>3, <2>1, <2>2 DEF TimeIsCounted, Before
<1> QED
  BY <1>2, <1>3, <1>4 DEF IInv, OnlyKnownHosts, OutcomeIsTheirs

\* A document's step preserves the invariant.
LEMMA FetchPreserves ==
  ASSUME IInv, NEW d \in Documents, Fetches(d)
  PROVE  IInv'
<1> PICK s : /\ document' = [document EXCEPT ![d] = s]
             /\ Sound(d, s)
             /\ s.age = document[d].age
  BY FetchIsSound
<1>1. /\ document[d].at # "over" /\ d \in Wanted /\ reached' \subseteq KnownHosts
      /\ outcome = "none" /\ UNCHANGED <<ask, stock, been, releases, spent, outcome>>
  BY FetchIsSound DEF Fetches
<1>2. document \in [Documents -> DocumentStates] /\ s \in DocumentStates
  BY DEF IInv, SourcesTypeOK, Sound
<1>3. SourcesTypeOK' /\ OnlyKnownHosts' /\ (stock \in been)' /\ OutcomeIsTheirs'
  BY <1>1, <1>2 DEF IInv, SourcesTypeOK, Hosts, OnlyKnownHosts, OutcomeIsTheirs
<1>4. \A e \in Documents : Sound(e, document'[e])
  BY <1>2 DEF IInv
<1>5. (\A e \in Documents : Sound(e, document[e]))'
  BY <1>1, <1>4 DEF Sound, WasSo, NamesAPackage
<1>6. /\ Wanted \subseteq Wanted'
      /\ \A e \in Wanted' \ Wanted :
           e = "archive" /\ d = "listing" /\ ask.kind = "archive" /\ FromAListing
  BY <1>1, WantedGrows
<1>7. (\A e \in Documents \ Wanted : document[e] = NotAsked)'
  BY <1>1, <1>2, <1>6 DEF IInv
<1>8. TimeIsCounted'
  <2>1. spent \in Nat /\ UpstreamTimeout \in Nat /\ \A e \in Documents : document[e].age \in Nat
    BY <1>2, LimitsAssumption DEF IInv, SourcesTypeOK, DocumentStates
  <2>2. \A e \in Documents : document'[e].age = document[e].age
    BY <1>2
  <2>3. \A e \in Wanted : document'[e].at # "over" => document[e].at # "over"
    BY <1>1, <1>2 DEF Wanted, Documents
  <2>4. ASSUME NEW e \in Wanted', document'[e].at # "over"
        PROVE  spent <= Before(e) + document'[e].age
    <3>1. e \in Documents
      BY <1>6, WantedAreDocuments DEF IInv, SourcesTypeOK, Documents
    <3>2. CASE e \in Wanted
      BY <2>2, <2>3, <2>4, <3>1, <3>2 DEF IInv, TimeIsCounted
    <3>3. CASE e \notin Wanted
      <4>1. e = "archive" /\ d = "listing" /\ FromAListing
        BY <1>6, <2>4, <3>3
      <4>2. spent <= document[d].age /\ document[d].age <= UpstreamTimeout
        BY <1>1, <2>1, <4>1 DEF IInv, TimeIsCounted, Before, Sound
      <4> QED
        BY <2>1, <2>2, <3>1, <4>1, <4>2 DEF Before
    <3> QED
      BY <3>2, <3>3
  <2> QED
    BY <1>1, <2>4 DEF IInv, TimeIsCounted, Before, FromAListing
<1> QED
  BY <1>3, <1>5, <1>7, <1>8 DEF IInv

\* So does time: no document that is waited for was late, and one was waited for.
LEMMA WaitsPreserves == IInv /\ Waits => IInv'
<1> SUFFICES ASSUME IInv, Waits PROVE IInv'
  OBVIOUS
<1> DEFINE older(d) == IF Underway(d) THEN [document[d] EXCEPT !.age = @ + 1] ELSE document[d]
<1>1. /\ document \in [Documents -> DocumentStates] /\ spent \in Nat /\ UpstreamTimeout \in Nat
      /\ Wanted \subseteq Documents
  BY LimitsAssumption, WantedAreDocuments DEF IInv, SourcesTypeOK
<1>2. /\ outcome = "none" /\ spent' = spent + 1
      /\ \E d \in Wanted : document[d].at # "over"
      /\ \A d \in Wanted : document[d].at # "unasked" /\ ~Late(d)
      /\ document' = [d \in Documents |-> older(d)]
      /\ UNCHANGED <<ask, stock, been, releases, reached, outcome>>
  BY DEF Waits, AllCame
<1> HIDE DEF older
<1>3. ASSUME NEW d \in Documents
      PROVE  /\ older(d) \in DocumentStates
             /\ older(d).at = document[d].at /\ older(d).result = document[d].result
             /\ older(d) = document[d] \/ (Underway(d) /\ older(d).age = document[d].age + 1)
             /\ Underway(d) => older(d).age = document[d].age + 1
             /\ d \notin Wanted => older(d) = document[d]
  <2>1. d \notin Wanted => document[d].at = "unasked"
    BY DEF IInv, NotAsked
  <2>2. document[d] \in DocumentStates
    BY <1>1
  <2> QED
    BY <2>1, <2>2 DEF older, Underway, DocumentStates
<1>4. Wanted' = Wanted
  BY <1>1, <1>2, <1>3 DEF Wanted, FromAListing, HasCurrent, Documents
<1>5. ASSUME NEW d \in Documents
      PROVE  Sound(d, older(d))
  <2>1. CASE Underway(d)
    <3>1. d \in Wanted
      BY <2>1 DEF IInv, NotAsked, Underway
    <3>2. document[d].age \in Nat /\ document[d].age + 1 <= UpstreamTimeout
      BY <1>1, <1>2, <2>1, <3>1 DEF Late, IInv, Sound, DocumentStates
    <3>3. older(d) = [document[d] EXCEPT !.age = @ + 1]
      BY <2>1 DEF older
    <3> QED
      BY <1>1, <2>1, <3>2, <3>3 DEF IInv, Sound, DocumentStates, Underway
  <2>2. CASE ~Underway(d)
    BY <2>2 DEF IInv, older
  <2> QED
    BY <2>1, <2>2
<1>6. (\A d \in Documents : Sound(d, document[d]))'
  BY <1>2, <1>5 DEF Sound, WasSo, NamesAPackage
<1>7. (\A d \in Documents \ Wanted : document[d] = NotAsked)'
  BY <1>2, <1>3, <1>4 DEF IInv
<1>8. ASSUME NEW d \in Wanted, document[d].at # "over"
      PROVE  /\ spent + 1 <= Before(d) + older(d).age
             /\ older(d).age <= UpstreamTimeout
  <2>1. d \in Documents /\ Underway(d)
    BY <1>1, <1>2, <1>8 DEF Underway, DocumentStates
  <2>2. older(d).age = document[d].age + 1 /\ document[d].age \in Nat /\ Before(d) \in Nat
    BY <1>1, <1>3, <2>1 DEF DocumentStates, Before
  <2>3. spent <= Before(d) + document[d].age
    BY <1>8 DEF IInv, TimeIsCounted
  <2>4. older(d).age <= UpstreamTimeout
    BY <1>5, <2>1 DEF Sound
  <2> QED
    BY <1>1, <2>2, <2>3, <2>4
<1>9. TimeIsCounted'
  <2>1. PICK d \in Wanted : document[d].at # "over"
    BY <1>2
  <2>2. older(d).age \in Nat
    BY <1>1, <1>3 DEF DocumentStates
  <2>3. Before(d) = IF ask.kind = "archive" /\ FromAListing THEN Before(d) ELSE 0
    BY <1>1, AsksAssumption DEF Before, Wanted, FromAListing, IInv, SourcesTypeOK
  <2>4. spent + 1 <= IF ask.kind = "archive" /\ FromAListing THEN 2 * UpstreamTimeout
                                                              ELSE UpstreamTimeout
    BY <1>1, <1>8, <2>1, <2>2, <2>3 DEF Before
  <2>5. \A e \in Wanted : document'[e].at # "over" => spent' <= Before(e) + document'[e].age
    BY <1>1, <1>2, <1>3, <1>8
  <2> QED
    BY <1>2, <1>4, <2>4, <2>5 DEF TimeIsCounted, Before, FromAListing
<1>10. SourcesTypeOK' /\ OnlyKnownHosts' /\ (stock \in been)' /\ OutcomeIsTheirs'
  BY <1>1, <1>2, <1>3 DEF IInv, SourcesTypeOK, OnlyKnownHosts, OutcomeIsTheirs
<1> QED
  BY <1>6, <1>7, <1>9, <1>10 DEF IInv

\* Whatever the seam concludes is a kind of failure or an answer.
LEMMA ConcludedIsAnOutcome ==
  ASSUME IInv
  PROVE  Concluded \in {"contents", "versions", "hits", "noHits"} \cup FailureKinds
<1>1. ask.kind \in {"archive", "versions", "search"}
  BY AsksAssumption DEF IInv, SourcesTypeOK
<1>2. OfTheArchive \in {"contents"} \cup FailureKinds
  BY DEF OfTheArchive, Failed, Unchosen, FailureKinds, MissingKinds, UnreadableKinds
<1>3. OfTheVersions \in {"versions"} \cup FailureKinds
  BY DEF OfTheVersions, Failed, FailureKinds, UnreadableKinds
<1>4. OfTheHits \in {"hits", "noHits"} \cup FailureKinds
  BY DEF OfTheHits, Failed, FailureKinds, UnreadableKinds
<1> QED
  BY <1>1, <1>2, <1>3, <1>4 DEF Concluded

\* The steps that leave every document as it is preserve the invariant.
LEMMA OthersPreserve ==
  ASSUME IInv, Conclude \/ Release \/ NoPackageLikeIt \/ UNCHANGED sourceVars
  PROVE  IInv'
<1>1. UNCHANGED <<ask, document, reached, spent>>
  BY DEF Conclude, Release, NoPackageLikeIt, sourceVars
<1>2. /\ been \subseteq been' /\ stock' \in been' /\ been' \subseteq Stocks /\ stock' \in Stocks
      /\ releases' \in 0..MaxReleases
      /\ been' = {"version"} => been = {"version"}
  <2>1. stock \in been /\ stock \in Stocks /\ been \subseteq Stocks /\ releases \in 0..MaxReleases
    BY DEF IInv, SourcesTypeOK
  <2>2. CASE Release
    BY <2>1, <2>2, LimitsAssumption DEF Release
  <2>3. CASE UNCHANGED <<stock, been, releases>>
    BY <2>1, <2>3
  <2> QED
    BY <2>2, <2>3 DEF Conclude, NoPackageLikeIt, sourceVars
<1>3. Wanted' = Wanted /\ Concluded' = Concluded
  BY <1>1 DEF Wanted, FromAListing, HasCurrent, Concluded, OfTheArchive, OfTheVersions, OfTheHits,
              Failed, Result, Unchosen
<1>4. (\A d \in Documents : Sound(d, document[d]))'
  BY <1>1, <1>2 DEF IInv, Sound, WasSo, NamesAPackage
<1>5. (\A d \in Documents \ Wanted : document[d] = NotAsked)'
  BY <1>1, <1>3 DEF IInv
<1>6. TimeIsCounted'
  BY <1>1, <1>3 DEF IInv, TimeIsCounted, Before, FromAListing
<1>7. OutcomeIsTheirs' /\ outcome' \in {"none", "contents", "versions", "hits", "noHits"} \cup FailureKinds
  <2>1. CASE Conclude
    BY <1>3, <2>1, ConcludedIsAnOutcome DEF Conclude, OutcomeIsTheirs
  <2>2. CASE NoPackageLikeIt
    <3>1. ask.kind = "archive" /\ FromAListing /\ document["listing"].at = "unasked" /\ stock = "nothing"
      BY <2>2 DEF NoPackageLikeIt, Unbuildable, FromAListing
    <3>2. document["listing"] = NotAsked /\ document["listing"].result # "picks"
      BY <3>1 DEF IInv, Sound, Documents, NotAsked
    <3>3. Wanted = {"listing"}
      BY <3>1, <3>2 DEF Wanted
    <3>4. \A d \in Documents : document'[d] = NotAsked
      BY <1>1, <3>2, <3>3 DEF IInv
    <3>5. "nothing" \in been'
      BY <1>2, <3>1 DEF IInv
    <3> QED
      BY <2>2, <3>4, <3>5 DEF NoPackageLikeIt, OutcomeIsTheirs, FailureKinds, MissingKinds
  <2>3. CASE UNCHANGED outcome
    BY <1>1, <1>2, <1>3, <2>3 DEF IInv, SourcesTypeOK, OutcomeIsTheirs
  <2> QED
    BY <2>1, <2>2, <2>3 DEF Release, sourceVars
<1>8. SourcesTypeOK' /\ OnlyKnownHosts'
  BY <1>1, <1>2, <1>7 DEF IInv, SourcesTypeOK, OnlyKnownHosts
<1> QED
  BY <1>2, <1>4, <1>5, <1>6, <1>7, <1>8 DEF IInv

------------------------------------------------------------------------------
\* Every reachable state of a call satisfies the inductive invariant: its documents are
\* sound, their ages bound its time, and its outcome is made of them.
THEOREM Invariance == SourcesSpec => []IInv
<1>1. IInv /\ [SourcesNext]_sourceVars => IInv'
  <2> SUFFICES ASSUME IInv, [SourcesNext]_sourceVars PROVE IInv'
    OBVIOUS
  <2>1. CASE \E d \in Documents : Fetches(d)
    BY <2>1, FetchPreserves
  <2>2. CASE Waits
    BY <2>2, WaitsPreserves
  <2>3. CASE Conclude \/ Release \/ NoPackageLikeIt \/ UNCHANGED sourceVars
    BY <2>3, OthersPreserve
  <2> QED
    BY <2>1, <2>2, <2>3 DEF SourcesNext, AnswersOrWaits, SourcesEnded
<1> QED
  BY <1>1, InitIInv, PTL DEF SourcesSpec

\* Every reachable state of a call has its type.
THEOREM TypeCorrect == SourcesSpec => []SourcesTypeOK
<1>1. IInv => SourcesTypeOK
  BY DEF IInv
<1> QED
  BY <1>1, Invariance, PTL

\* No request goes to an unknown host, whatever a listing picks and wherever a registry
\* redirects to.
THEOREM KnownHostsAlone == SourcesSpec => []OnlyKnownHosts
<1>1. IInv => OnlyKnownHosts
  BY DEF IInv
<1> QED
  BY <1>1, Invariance, PTL

\* A call takes no longer than its documents' time limits add up to where one needs the
\* other, and holds no more of a document than the limit.
THEOREM LimitsHold == SourcesSpec => []StaysWithinItsLimits
<1>1. IInv => StaysWithinItsLimits
  BY DEF IInv, TimeIsCounted, Sound, StaysWithinItsLimits
<1> QED
  BY <1>1, Invariance, PTL

\* What a caller is told a registry has, or has not, was so during the call.
THEOREM ToldTheTruth == SourcesSpec => []ToldWhatIs
<1>1. IInv => ToldWhatIs
  <2> SUFFICES ASSUME IInv PROVE ToldWhatIs
    OBVIOUS
  <2>1. CASE outcome = "none"
    BY <2>1 DEF ToldWhatIs
  <2>2. CASE outcome = "no_such_package" /\ "nothing" \in been
    BY <2>2 DEF ToldWhatIs
  <2>3. CASE outcome = Concluded
    <3>1. \A d \in Documents : WasSo(d, Result(d))
      BY DEF IInv, Sound, Result
    <3>2. ask.kind \in {"archive", "versions", "search"}
      BY AsksAssumption DEF IInv, SourcesTypeOK
    <3>3. \A word \in {"contents", "noHits"} : word \notin FailureKinds
      BY DEF FailureKinds, MissingKinds, UnreadableKinds, TooLargeKinds, TransientKinds, CallersKinds,
             OwnKinds
    <3>4. CASE ask.kind = "archive"
      <4>1. outcome = OfTheArchive
        BY <2>3, <3>4 DEF Concluded
      <4> QED
        BY <3>1, <3>3, <4>1 DEF OfTheArchive, Unchosen, Failed, WasSo, ToldWhatIs, Documents
    <3>5. CASE ask.kind = "versions"
      <4>1. outcome = OfTheVersions
        BY <2>3, <3>5 DEF Concluded
      <4> QED
        BY <3>1, <3>3, <4>1 DEF OfTheVersions, Failed, WasSo, ToldWhatIs, Documents
    <3>6. CASE ask.kind = "search"
      <4>1. outcome = OfTheHits
        BY <2>3, <3>6 DEF Concluded
      <4> QED
        BY <3>1, <3>3, <4>1 DEF OfTheHits, Failed, WasSo, ToldWhatIs, Documents, NamesAPackage
    <3> QED
      BY <3>2, <3>4, <3>5, <3>6
  <2> QED
    BY <2>1, <2>2, <2>3 DEF IInv, OutcomeIsTheirs
<1> QED
  BY <1>1, Invariance, PTL

\* A kind of failure is a reason to try again by its code and in its sentence alike, and
\* that is so of the transient ones alone.
LEMMA AdviceIsOne ==
  ASSUME NEW kind \in FailureKinds
  PROVE  /\ (Code(kind) = "try_again") <=> (kind \in TransientKinds)
         /\ (Sentence(kind) = "again") <=> (kind \in TransientKinds)
BY DEF Code, Sentence, FailureKinds, MissingKinds, UnreadableKinds, TooLargeKinds, TransientKinds,
       CallersKinds, OwnKinds

\* A model is told to try again when a registry, or the way to it, failed, and not otherwise.
THEOREM AdviceIsRight == SourcesSpec => []AdviceFitsTheFault
<1>1. ASSUME IInv, outcome = Concluded, outcome \in FailureKinds
      PROVE  /\ outcome \in TransientKinds => \E d \in Documents : document[d].faulty
             /\ \A d \in Documents \ {"current"} : document[d].faulty => outcome \in TransientKinds
             /\ outcome \notin CallersKinds \cup OwnKinds
  <2>1. \A d \in Documents : /\ document[d].faulty <=> Result(d) \in TransientKinds
                             /\ Result(d) \notin CallersKinds \cup OwnKinds
    BY <1>1 DEF IInv, Sound, Result
  <2>2. \A d \in Documents : document[d].faulty => d \in Wanted
    BY <1>1 DEF IInv, NotAsked
  <2>3. TransientKinds \subseteq FailureKinds
    BY DEF FailureKinds
  <2>4. \A word \in {"no_such_version", "malformed_archive", "unreadable_versions",
                     "unreadable_search", "contents", "versions", "hits", "noHits"} :
          word \notin TransientKinds \cup CallersKinds \cup OwnKinds
    BY DEF TransientKinds, CallersKinds, OwnKinds
  <2>5. "picks" \notin FailureKinds /\ "good" \notin FailureKinds /\ "empty" \notin FailureKinds
        /\ "strange" \notin FailureKinds /\ "no_such_package" \notin TransientKinds
    BY DEF FailureKinds, MissingKinds, UnreadableKinds, TooLargeKinds, TransientKinds, CallersKinds,
           OwnKinds
  <2>6. ask.kind \in {"archive", "versions", "search"}
    BY <1>1, AsksAssumption DEF IInv, SourcesTypeOK
  <2>7. CASE ask.kind = "archive"
    <3>1. outcome = OfTheArchive
      BY <1>1, <2>7 DEF Concluded
    <3>2. Wanted = IF ~FromAListing THEN {"archive"}
                   ELSE {"listing"} \cup (IF Result("listing") = "picks" THEN {"archive"} ELSE {})
      BY <2>7 DEF Wanted, Result
    <3>3. CASE FromAListing /\ Result("listing") # "picks"
      <4>1. \A d \in Documents : document[d].faulty => d = "listing"
        BY <2>2, <3>2, <3>3
      <4>2. outcome = IF Failed("listing") THEN Result("listing") ELSE Unchosen
        BY <3>1, <3>3 DEF OfTheArchive
      <4>3. CASE Failed("listing")
        BY <2>1, <4>1, <4>2, <4>3 DEF Documents
      <4>4. CASE ~Failed("listing")
        BY <2>1, <2>3, <2>4, <4>1, <4>2, <4>4 DEF Failed, Unchosen, Documents
      <4> QED
        BY <4>3, <4>4
    <3>4. CASE ~(FromAListing /\ Result("listing") # "picks")
      <4>1. \A d \in Documents : document[d].faulty => d = "archive"
        BY <2>1, <2>2, <2>3, <2>5, <3>2, <3>4 DEF Documents
      <4>2. CASE Failed("archive")
        <5>1. outcome = Result("archive")
          BY <2>5, <3>1, <3>4, <4>2 DEF OfTheArchive, Failed
        <5> QED
          BY <2>1, <4>1, <5>1 DEF Documents
      <4>3. CASE ~Failed("archive")
        <5>1. outcome \in {"contents", "malformed_archive"}
          BY <3>1, <3>4, <4>3 DEF OfTheArchive
        <5> QED
          BY <2>1, <2>3, <2>4, <4>1, <4>3, <5>1 DEF Failed, Documents
      <4> QED
        BY <4>2, <4>3
    <3> QED
      BY <3>3, <3>4
  <2>8. CASE ask.kind = "versions"
    <3>1. outcome = OfTheVersions
      BY <1>1, <2>8 DEF Concluded
    <3>2. \A d \in Documents \ {"current"} : document[d].faulty => d = "list"
      BY <2>2, <2>8 DEF Wanted
    <3>3. CASE Failed("list")
      <4>1. outcome = Result("list")
        BY <2>5, <3>1, <3>3 DEF OfTheVersions, Failed
      <4> QED
        BY <2>1, <3>2, <4>1 DEF Documents
    <3>4. CASE ~Failed("list")
      BY <2>1, <2>3, <2>4, <3>1, <3>2, <3>4 DEF OfTheVersions, Failed, Documents
    <3> QED
      BY <3>3, <3>4
  <2>9. CASE ask.kind = "search"
    <3>1. outcome = OfTheHits
      BY <1>1, <2>9 DEF Concluded
    <3>2. \A d \in Documents : document[d].faulty => d = "hits"
      BY <2>2, <2>9 DEF Wanted
    <3> QED
      BY <2>1, <2>3, <2>4, <2>5, <3>1, <3>2 DEF OfTheHits, Failed, Documents
  <2> QED
    BY <2>6, <2>7, <2>8, <2>9
<1>2. ASSUME IInv, outcome \in FailureKinds
      PROVE  /\ outcome \in TransientKinds => \E d \in Documents : document[d].faulty
             /\ \A d \in Documents \ {"current"} : document[d].faulty => outcome \in TransientKinds
             /\ outcome \notin CallersKinds \cup OwnKinds
  <2>1. "none" \notin FailureKinds
    BY DEF FailureKinds, MissingKinds, UnreadableKinds, TooLargeKinds, TransientKinds, CallersKinds,
           OwnKinds
  <2>2. CASE outcome = "no_such_package" /\ \A d \in Documents : document[d] = NotAsked
    BY <2>2 DEF NotAsked, TransientKinds, CallersKinds, OwnKinds
  <2> QED
    BY <1>1, <1>2, <2>1, <2>2 DEF IInv, OutcomeIsTheirs
<1>3. IInv => AdviceFitsTheFault
  BY <1>2, AdviceIsOne DEF AdviceFitsTheFault, ForTheModel
<1> QED
  BY <1>3, Invariance, PTL
==============================================================================
