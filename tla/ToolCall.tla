------------------------------ MODULE ToolCall ------------------------------
(***************************************************************************)
(* One tool call, resource read or entry request while it runs: its        *)
(* deadline and its line (tools::run), what it tallies on the way (Spent   *)
(* and Lookup), and what the tools do between the two: look the comparison *)
(* up, fetch both versions at once, work on the blocking pool, write to    *)
(* the store, render one file.  Time is counted in ticks.                  *)
(*                                                                         *)
(* Every await has a limit but the work on the pool, which has none.  What *)
(* a tool computes without awaiting takes no time here, and a call that    *)
(* awaits nothing, its arguments refused for one, is left out.             *)
(***************************************************************************)
EXTENDS Integers

CONSTANTS
  Tools,          \* the kinds of call there are
  Versions,       \* the two versions a comparison downloads
  Works,          \* how many ticks rendering one file can need
  LongestLookup,  \* store::LONGEST_LOOKUP
  LongestFetch,   \* fetch::LONGEST_FETCH, and so the longest wait for the turn
  WriteDeadline,  \* store::WRITE_DEADLINE
  AnswerTime,     \* TIME_TO_ANSWER_AFTER_A_WRITE
  Deadline        \* CALL_DEADLINE

\* comparison: the tree or its summary; file: one file's diff; entry: a whole entry
\* by its diff_id; archive: files of one version; document: versions or a search.
AllTools == {"comparison", "file", "entry", "archive", "document"}

\* A lookup, two documents one after the other, and a write.
LongestWait == LongestLookup + 2 * LongestFetch + WriteDeadline

ASSUME CallAssumption ==
  /\ Tools \subseteq AllTools
  /\ Versions # {}
  /\ Works \subseteq Nat
  /\ LongestLookup \in Nat
  /\ LongestFetch \in Nat
  /\ WriteDeadline \in Nat
  /\ AnswerTime \in Nat \ {0}
  /\ Deadline \in Nat
  /\ Deadline > LongestWait

VARIABLES
  tool,    \* what was asked
  ahead,   \* whether a listing, or the turn, comes before the document itself
  stored,  \* whether there is a store at all
  now,     \* since the call began
  phase,   \* what the call awaits
  since,   \* since when
  limit,   \* how long this write, or the work of this rendering, goes on
  ends,    \* how far the fetch of each version is, and since when
  spent,   \* Spent: the window that fetches spanned
  lookup,  \* Lookup: what the store was asked and answered
  line,    \* the line, once the call is answered
  ticks    \* history: the ticks spent fetching, writing, and while work ran

vars == <<tool, ahead, stored, now, phase, since, limit, ends, spent, lookup, line, ticks>>

Absent == -1
NoLine == [result |-> "none", cache |-> "none", fetch |-> Absent, from |-> "none"]

Phases == {"lookup", "fetch", "compute", "write", "render"}
Stages == {"none", "ahead", "body", "extract", "done"}
Results == {"ok", "failed", "panicked", "out_of_time"}

TypeOK ==
  /\ tool \in Tools
  /\ ahead \in BOOLEAN
  /\ stored \in BOOLEAN
  /\ now \in 0..Deadline
  /\ phase \in Phases
  /\ since \in 0..now
  /\ limit \in Nat
  /\ ends \in [Versions -> [at : Stages, since : 0..now]]
  /\ spent \in [fetched : BOOLEAN, first : 0..Deadline, last : 0..Deadline]
  /\ lookup \in [asked : BOOLEAN, found : BOOLEAN, storeless : BOOLEAN]
  /\ line = NoLine \/ line \in [result : Results, cache : {"none", "hit", "miss", "no_store"},
                                fetch : Int, from : {"nowhere", "store", "work"}]
  /\ ticks \in [fetching : Nat, writing : Nat, working : Nat]

Over == line # NoLine

------------------------------------------------------------------------------
(***************************************************************************)
(* The tally.                                                              *)
(***************************************************************************)
\* Spent::fetching, with the window of one fetch that began at first.
Fetching(s, first) ==
  [fetched |-> TRUE,
   first   |-> IF first < s.first THEN first ELSE s.first,
   last    |-> IF now > s.last THEN now ELSE s.last]

FetchOf(s) == IF s.fetched THEN s.last - s.first ELSE Absent

\* Recorded::record, with what the lookup answered the call.
Looked(found) ==
  IF stored THEN [lookup EXCEPT !.asked = TRUE, !.found = @ \/ found]
            ELSE [lookup EXCEPT !.asked = TRUE, !.storeless = TRUE]

CacheOf(l) ==
  CASE ~l.asked  -> "none"
    [] l.found   -> "hit"
    [] OTHER     -> IF l.storeless THEN "no_store" ELSE "miss"

\* What is still being fetched when the call lets go of its futures.
InFlight == {v \in Versions : ends[v].at \in {"ahead", "body", "extract"}}

\* Mutant: a fetch counts when it ends, not when it is dropped.
SpentOnceDone == spent

\* A FetchWindow ends when it is dropped, whatever it was waiting for.
SpentAtTheEnd == IF InFlight # {} THEN Fetching(spent, since) ELSE spent

\* The line is written once the work is done with, dropped, or has panicked.
Answer(result, from, l, s) ==
  /\ line' = [result |-> result, cache |-> CacheOf(l), fetch |-> FetchOf(s), from |-> from]
  /\ lookup' = l
  /\ spent' = s
  /\ UNCHANGED <<tool, ahead, stored, now, phase, since, limit, ends, ticks>>

------------------------------------------------------------------------------
(***************************************************************************)
(* The steps of the work.                                                  *)
(***************************************************************************)
Asks == {"comparison", "file", "entry"}
Fetched(t) == IF t \in {"archive", "document"} THEN {CHOOSE v \in Versions : TRUE} ELSE Versions
EndsFrom(t, when) ==
  [v \in Versions |->
    [at    |-> IF v \notin Fetched(t) THEN "none" ELSE IF ahead THEN "ahead" ELSE "body",
     since |-> when]]

Init ==
  /\ tool \in Tools
  /\ ahead \in BOOLEAN
  /\ stored \in BOOLEAN
  /\ now = 0
  /\ phase = IF tool \in Asks THEN "lookup" ELSE "fetch"
  /\ since = 0
  /\ limit = 0
  /\ ends = IF tool \in Asks THEN [v \in Versions |-> [at |-> "none", since |-> 0]]
                             ELSE EndsFrom(tool, 0)
  /\ spent = [fetched |-> FALSE, first |-> Deadline, last |-> 0]
  /\ lookup = [asked |-> FALSE, found |-> FALSE, storeless |-> FALSE]
  /\ line = NoLine
  /\ ticks = [fetching |-> 0, writing |-> 0, working |-> 0]

Enter(p) == phase' = p /\ since' = now

\* Both versions are asked for at once.
FetchBoth(l) ==
  /\ Enter("fetch")
  /\ ends' = EndsFrom(tool, now)
  /\ lookup' = l
  /\ UNCHANGED <<tool, ahead, stored, now, limit, spent, line, ticks>>

Misses ==
  /\ phase = "lookup"
  /\ tool # "entry"
  /\ FetchBoth(Looked(FALSE))

\* Mutant: what the lookup found is recorded, not what it answered.
EntryAsFound(served) ==
  /\ phase = "lookup"
  /\ tool = "entry"
  /\ stored
  /\ Answer("ok", IF served THEN "store" ELSE "nowhere", Looked(TRUE), spent)

\* A request by diff_id is a hit only when it is answered: a tree over the ceiling is not.
EntryIs(served) ==
  /\ phase = "lookup"
  /\ tool = "entry"
  /\ served => stored
  /\ Answer("ok", IF served THEN "store" ELSE "nowhere", Looked(served), spent)

\* What the entry answers, from its tree or from the patch it holds; a directory has
\* no diff, and an item can be too large for a page.
HitsWhole ==
  /\ phase = "lookup"
  /\ tool \in {"comparison", "file"}
  /\ stored
  /\ \E result \in {"ok", "failed"} : Answer(result, "store", Looked(TRUE), spent)

\* The entry has no patch for this file: both versions are downloaded after all.
HitsWithoutThePatch ==
  /\ phase = "lookup"
  /\ tool = "file"
  /\ stored
  /\ FetchBoth(Looked(TRUE))

\* The listing has arrived, or the turn has come.
Reaches(v) ==
  /\ phase = "fetch"
  /\ ends[v].at = "ahead"
  /\ ends' = [ends EXCEPT ![v] = [at |-> "body", since |-> now]]
  /\ UNCHANGED <<tool, ahead, stored, now, phase, since, limit, spent, lookup, line, ticks>>

Downloads(v) ==
  /\ phase = "fetch"
  /\ tool # "document"
  /\ ends[v].at = "body"
  /\ ends' = [ends EXCEPT ![v] = [at |-> "extract", since |-> now]]
  /\ UNCHANGED <<tool, ahead, stored, now, phase, since, limit, spent, lookup, line, ticks>>

LastStage == IF tool = "document" THEN "body" ELSE "extract"

\* One version is here and the other is not yet.
OneArrives(v) ==
  /\ phase = "fetch"
  /\ ends[v].at = LastStage
  /\ InFlight # {v}
  /\ ends' = [ends EXCEPT ![v] = [at |-> "done", since |-> now]]
  /\ spent' = Fetching(spent, since)
  /\ UNCHANGED <<tool, ahead, stored, now, phase, since, limit, lookup, line, ticks>>

AllArrive(v) ==
  /\ phase = "fetch"
  /\ ends[v].at = LastStage
  /\ InFlight = {v}

\* A version's files, or a document, are the answer.
AnswersFromTheFetch(v) ==
  /\ AllArrive(v)
  /\ tool \in {"archive", "document"}
  /\ \E result \in {"ok", "failed"} : Answer(result, "work", lookup, Fetching(spent, since))

Compares(v) ==
  /\ AllArrive(v)
  /\ tool \in {"comparison", "file"}
  /\ ~lookup.found
  /\ Enter("compute")
  /\ ends' = [ends EXCEPT ![v] = [at |-> "done", since |-> now]]
  /\ spent' = Fetching(spent, since)
  /\ UNCHANGED <<tool, ahead, stored, now, limit, lookup, line, ticks>>

\* What a hit without its patch was downloaded for; a directory is refused first.
RendersFromTheFetch(v) ==
  /\ AllArrive(v)
  /\ lookup.found
  /\ \/ Answer("failed", "work", lookup, Fetching(spent, since))
     \/ /\ Enter("render")
        /\ limit' \in Works
        /\ ends' = [ends EXCEPT ![v] = [at |-> "done", since |-> now]]
        /\ spent' = Fetching(spent, since)
        /\ UNCHANGED <<tool, ahead, stored, now, lookup, line, ticks>>

\* One failure ends both fetches: try_join drops the other.
FetchFails ==
  /\ phase = "fetch"
  /\ \E v \in Versions : ends[v].at \in {"ahead", "body"}
  /\ Answer("failed", "nowhere", lookup, SpentAtTheEnd)

ExtractionFails ==
  /\ phase = "fetch"
  /\ \E v \in Versions : ends[v].at = "extract"
  /\ Answer("failed", "nowhere", lookup, SpentAtTheEnd)

\* Mutant: the write has a deadline of its own and nothing else.
WriteTimeAlone == IF stored THEN WriteDeadline ELSE 0

\* What the write may take: its own deadline, or what is left less the answer's share.
WriteTime ==
  LET left == Deadline - now - AnswerTime
  IN  IF ~stored \/ left <= 0 THEN 0 ELSE IF left < WriteDeadline THEN left ELSE WriteDeadline

\* The store is written before the answer.
Writes ==
  /\ phase = "compute"
  /\ Enter("write")
  /\ limit' = WriteTime
  /\ UNCHANGED <<tool, ahead, stored, now, ends, spent, lookup, line, ticks>>

\* The write ended, or its time has, and the tree is what is answered from.
AnswersTheComparison ==
  /\ phase = "write"
  /\ tool = "comparison"
  /\ \E result \in {"ok", "failed"} : Answer(result, "work", lookup, spent)

\* The file is rendered from the versions the comparison still holds.
RendersTheFile ==
  /\ phase = "write"
  /\ tool = "file"
  /\ \/ Answer("failed", "work", lookup, spent)
     \/ /\ Enter("render")
        /\ limit' \in Works
        /\ UNCHANGED <<tool, ahead, stored, now, ends, spent, lookup, line, ticks>>

AnswersTheFile ==
  /\ phase = "render"
  /\ now - since = limit
  /\ Answer("ok", "work", lookup, spent)

\* In the call itself or on the pool: either way the call ends as panicked.
Panics == Answer("panicked", "nowhere", lookup, SpentAtTheEnd)

------------------------------------------------------------------------------
(***************************************************************************)
(* Time.                                                                   *)
(***************************************************************************)
\* Without a store nothing is waited for.
LookupTime == IF stored THEN LongestLookup ELSE 0

\* Mutant: nobody times a download.
DueWithoutFetches ==
  \/ phase = "lookup" /\ now - since = LookupTime
  \/ phase \in {"write", "render"} /\ now - since = limit

\* No timer is late: what is due ends before time goes on.
Due ==
  \/ phase = "lookup" /\ now - since = LookupTime
  \/ phase = "fetch" /\ \E v \in Versions : /\ ends[v].at \in {"ahead", "body"}
                                            /\ now - ends[v].since = LongestFetch
  \/ phase \in {"write", "render"} /\ now - since = limit

\* Whether a task of this call is on the blocking pool.
Working ==
  \/ phase \in {"compute", "render"}
  \/ phase = "fetch" /\ \E v \in Versions : ends[v].at = "extract"

OneIf(condition) == IF condition THEN 1 ELSE 0

Tick ==
  /\ now < Deadline
  /\ ~Due
  /\ now' = now + 1
  /\ ticks' = [fetching |-> ticks.fetching + OneIf(phase = "fetch"),
               writing  |-> ticks.writing + OneIf(phase = "write"),
               working  |-> ticks.working + OneIf(Working)]
  /\ UNCHANGED <<tool, ahead, stored, phase, since, limit, ends, spent, lookup, line>>

\* Mutant: the work runs where the timeout is polled.
OutOfTimeUnlessWorking ==
  /\ now = Deadline
  /\ ~Working
  /\ Answer("out_of_time", "nowhere", lookup, SpentAtTheEnd)

OutOfTime ==
  /\ now = Deadline
  /\ Answer("out_of_time", "nowhere", lookup, SpentAtTheEnd)

------------------------------------------------------------------------------
\* What ends because somebody answers or a timer fires.
Waited ==
  \/ Misses \/ HitsWhole \/ HitsWithoutThePatch
  \/ \E served \in BOOLEAN : EntryIs(served)
  \/ \E v \in Versions : Reaches(v) \/ Downloads(v)
  \/ FetchFails
  \/ AnswersTheComparison \/ RendersTheFile \/ AnswersTheFile

\* What ends when the blocking pool is done with it, which may be never.
Worked ==
  \/ \E v \in Versions :
       OneArrives(v) \/ AnswersFromTheFetch(v) \/ Compares(v) \/ RendersFromTheFetch(v)
  \/ ExtractionFails
  \/ Writes

Next == ~Over /\ (Waited \/ Worked \/ Panics \/ Tick \/ OutOfTime)

Spec == Init /\ [][Next]_vars

FairSpec ==
  /\ Spec
  /\ WF_vars(~Over /\ Waited)
  /\ WF_vars(~Over /\ Tick)
  /\ WF_vars(~Over /\ OutOfTime)

------------------------------------------------------------------------------
(***************************************************************************)
(* Properties.                                                             *)
(***************************************************************************)
\* A slow registry or a slow store is answered as such: a call runs out of time
\* only if work of its own took what the longest waits would have left it.
SlownessIsNamed ==
  line.result = "out_of_time" => ticks.working >= Deadline - LongestWait

\* Writing never costs the answer: a call that has written to the store is answered in
\* time, except for one file's diff, whose rendering comes after the write and which
\* a slow store leaves no more than AnswerTime for.
WriteCostsNoAnswer ==
  tool # "file" /\ ticks.writing > 0 => line.result # "out_of_time"

\* The fetch phase of the line is the window the fetches spanned, those that were
\* dropped at the deadline or by the failure of the other included.
FetchIsCounted ==
  Over => line.fetch = IF phase = "lookup" THEN Absent
                       ELSE ticks.fetching

\* The line says hit exactly when the answer was read back from the store, except for
\* one file's diff: an entry without its patch is a hit, and the diff is worked out.
HitIsReadBack ==
  tool # "file" /\ line.result = "ok" => (line.cache = "hit" <=> line.from = "store")

\* Every call is answered, even if what it put on the pool never ends.
EveryCallIsAnswered == <>Over

------------------------------------------------------------------------------
(***************************************************************************)
(* The inductive invariant behind them.                                    *)
(***************************************************************************)
\* What is left over of the clock once the work on the pool is taken off.
Idle == now - ticks.working

\* Nothing is downloaded yet, nothing is known.
LookupSoFar ==
  phase = "lookup" =>
    /\ tool \in Asks
    /\ since = 0
    /\ now <= LookupTime
    /\ ticks = [fetching |-> 0, writing |-> 0, working |-> 0]
    /\ ~spent.fetched
    /\ ~Over => ~lookup.found

\* Whatever the other version does, the clock not worked is what this one waited.
FetchSoFar ==
  phase = "fetch" =>
    /\ since <= LongestLookup
    /\ ticks.writing = 0
    /\ ticks.fetching = now - since
    /\ InFlight # {}
    /\ \A v \in Versions :
         /\ ends[v].at = "ahead" => /\ ends[v].since = since
                                    /\ now - since <= LongestFetch
                                    /\ Idle <= LongestLookup + (now - since)
         /\ ends[v].at = "body" =>
              /\ now - ends[v].since <= LongestFetch
              /\ Idle <= LongestLookup + LongestFetch + (now - ends[v].since)
         /\ ends[v].at = "extract" => Idle <= LongestLookup + 2 * LongestFetch
    /\ spent.fetched => spent.first = since /\ spent.last <= now

SpentSoFar ==
  /\ ~spent.fetched => spent.first = Deadline /\ spent.last = 0
  /\ phase \in {"compute", "write", "render"} =>
       spent.fetched /\ spent.last - spent.first = ticks.fetching
  /\ phase # "fetch" => InFlight = {}

WorkSoFar ==
  /\ phase = "compute" => ticks.writing = 0 /\ Idle <= LongestLookup + 2 * LongestFetch
  /\ phase = "write" =>
       /\ ticks.writing = now - since
       /\ now - since <= limit
       /\ limit <= WriteDeadline
       /\ limit > 0 => since + limit <= Deadline - AnswerTime
       /\ Idle <= LongestLookup + 2 * LongestFetch + (now - since)
  /\ phase = "render" => Idle <= LongestWait

\* Only one file's diff is rendered after a lookup that found something.
FoundSoFar ==
  /\ tool # "file" => phase # "render"
  /\ ~Over /\ tool # "file" => ~lookup.found

Verdicts ==
  /\ SlownessIsNamed
  /\ FetchIsCounted
  /\ WriteCostsNoAnswer
  /\ HitIsReadBack

IInv ==
  /\ TypeOK
  /\ LookupSoFar
  /\ FetchSoFar
  /\ SpentSoFar
  /\ WorkSoFar
  /\ FoundSoFar
  /\ Verdicts
==============================================================================
