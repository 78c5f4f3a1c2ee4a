--------------------------- MODULE ToolCallProofs ---------------------------
(***************************************************************************)
(* What TLAPS proves of ToolCall, for every length of the waits and every  *)
(* deadline that is longer than all of them together.                      *)
(***************************************************************************)
EXTENDS ToolCall, TLAPS

USE CallAssumption DEF LongestWait, Absent

\* The types of what a step reads, one by one.
LEMMA Typed ==
  ASSUME TypeOK
  PROVE  /\ now \in Nat /\ now <= Deadline
         /\ since \in Nat /\ since <= now
         /\ limit \in Nat
         /\ ticks.fetching \in Nat /\ ticks.writing \in Nat /\ ticks.working \in Nat
         /\ ticks = [fetching |-> ticks.fetching, writing |-> ticks.writing, working |-> ticks.working]
         /\ spent.fetched \in BOOLEAN /\ spent.first \in 0..Deadline /\ spent.last \in 0..Deadline
         /\ lookup.asked \in BOOLEAN /\ lookup.found \in BOOLEAN /\ lookup.storeless \in BOOLEAN
         /\ \A v \in Versions : /\ ends[v].at \in Stages
                                /\ ends[v].since \in Nat /\ ends[v].since <= now
  BY DEF TypeOK

LEMMA CacheTyped ==
  ASSUME NEW l \in [asked : BOOLEAN, found : BOOLEAN, storeless : BOOLEAN]
  PROVE  /\ CacheOf(l) \in {"none", "hit", "miss", "no_store"}
         /\ ~l.found => CacheOf(l) # "hit"
         /\ l.asked /\ l.found => CacheOf(l) = "hit"
  BY DEF CacheOf

LEMMA LookedTyped ==
  ASSUME TypeOK, NEW found \in BOOLEAN
  PROVE  /\ Looked(found) \in [asked : BOOLEAN, found : BOOLEAN, storeless : BOOLEAN]
         /\ Looked(found).asked
         /\ Looked(found).found <=> lookup.found \/ (stored /\ found)
  BY DEF TypeOK, Looked

\* The window of the fetches, closed now.
LEMMA WindowCloses ==
  ASSUME TypeOK, FetchSoFar, SpentSoFar, phase = "fetch"
  PROVE  /\ Fetching(spent, since) \in [fetched : BOOLEAN, first : 0..Deadline, last : 0..Deadline]
         /\ Fetching(spent, since) = [fetched |-> TRUE, first |-> since, last |-> now]
         /\ SpentAtTheEnd = Fetching(spent, since)
         /\ FetchOf(Fetching(spent, since)) = ticks.fetching
  <1>1. Fetching(spent, since) = [fetched |-> TRUE, first |-> since, last |-> now]
    <2>1. \/ spent.first = since /\ spent.last <= now
          \/ spent.first = Deadline /\ spent.last = 0
      BY DEF FetchSoFar, SpentSoFar
    <2>2. (IF since < spent.first THEN since ELSE spent.first) = since
      BY <2>1, Typed
    <2>3. (IF now > spent.last THEN now ELSE spent.last) = now
      BY <2>1, Typed
    <2> QED
      BY <2>2, <2>3 DEF Fetching
  <1>2. SpentAtTheEnd = Fetching(spent, since)
    BY DEF SpentAtTheEnd, FetchSoFar
  <1> QED
    BY <1>1, <1>2, Typed DEF FetchOf, FetchSoFar

------------------------------------------------------------------------------
\* However a call ends, its line is right if what ends it knew what it did.
LEMMA AnswerKeeps ==
  ASSUME IInv, ~Over,
         NEW result \in Results, NEW from \in {"nowhere", "store", "work"},
         NEW l \in [asked : BOOLEAN, found : BOOLEAN, storeless : BOOLEAN],
         NEW s, Answer(result, from, l, s),
         phase = "fetch" => s = Fetching(spent, since),
         phase # "fetch" => s = spent,
         result = "out_of_time" => now = Deadline,
         tool # "file" /\ result = "ok" => (CacheOf(l) = "hit" <=> from = "store")
  PROVE  IInv'
  <1> USE DEF Answer
  <1>1. TypeOK /\ LookupSoFar /\ FetchSoFar /\ SpentSoFar /\ WorkSoFar /\ FoundSoFar
    BY DEF IInv
  <1>2. /\ s \in [fetched : BOOLEAN, first : 0..Deadline, last : 0..Deadline]
        /\ phase = "fetch" => s = [fetched |-> TRUE, first |-> since, last |-> now]
        /\ FetchOf(s) = IF phase = "lookup" THEN Absent ELSE ticks.fetching
    <2>1. CASE phase = "fetch"
      BY <1>1, <2>1, WindowCloses
    <2>2. CASE phase # "fetch"
      BY <1>1, <2>2 DEF TypeOK, Phases, LookupSoFar, SpentSoFar, FetchOf
    <2> QED
      BY <2>1, <2>2
  <1>3. /\ line'.result = result /\ line'.cache = CacheOf(l)
        /\ line'.fetch = FetchOf(s) /\ line'.from = from
    OBVIOUS
  <1>4. Over'
    BY <1>3 DEF Over, NoLine, Results
  <1>5. TypeOK'
    <2>1. line' \in [result : Results, cache : {"none", "hit", "miss", "no_store"},
                     fetch : Int, from : {"nowhere", "store", "work"}]
      BY <1>1, <1>2, CacheTyped, Typed
    <2> QED
      BY <1>1, <1>2, <2>1 DEF TypeOK
  <1>6. LookupSoFar' /\ WorkSoFar'
    BY <1>1, <1>2, <1>4 DEF LookupSoFar, LookupTime, WorkSoFar, Idle
  <1>7. FetchSoFar' /\ SpentSoFar'
    BY <1>1, <1>2, Typed DEF FetchSoFar, SpentSoFar, InFlight, Idle
  <1>8. FoundSoFar'
    BY <1>1, <1>4 DEF FoundSoFar
  <1>9. SlownessIsNamed'
    <2> SUFFICES ASSUME result = "out_of_time"
                 PROVE  ticks.working >= Deadline - LongestWait
      BY <1>3 DEF SlownessIsNamed
    <2>1. Idle <= LongestWait
      <3>1. CASE phase = "lookup"
        BY <1>1, <3>1, Typed DEF LookupSoFar, LookupTime, Idle
      <3>2. CASE phase = "fetch"
        <4>1. PICK v \in Versions : ends[v].at \in {"ahead", "body", "extract"}
          BY <1>1, <3>2 DEF FetchSoFar, InFlight
        <4> QED
          BY <1>1, <3>2, <4>1, Typed DEF FetchSoFar, Idle
      <3>3. CASE phase = "compute"
        BY <1>1, <3>3, Typed DEF WorkSoFar, Idle
      <3>4. CASE phase = "write"
        BY <1>1, <3>4, Typed DEF WorkSoFar, Idle
      <3>5. CASE phase = "render"
        BY <1>1, <3>5 DEF WorkSoFar
      <3> QED
        BY <1>1, <3>1, <3>2, <3>3, <3>4, <3>5 DEF TypeOK, Phases
    <2> QED
      BY <1>1, <2>1, Typed DEF Idle
  <1>10. FetchIsCounted'
    BY <1>2, <1>3 DEF FetchIsCounted
  <1>11. HitIsReadBack'
    BY <1>1, <1>2, <1>3 DEF HitIsReadBack
  <1>12. WriteCostsNoAnswer'
    <2> SUFFICES ASSUME tool # "file", ticks.writing > 0, result = "out_of_time"
                 PROVE  FALSE
      BY <1>2, <1>3 DEF WriteCostsNoAnswer
    <2>1. phase = "write"
      BY <1>1, Typed DEF TypeOK, Phases, LookupSoFar, FetchSoFar, WorkSoFar, FoundSoFar
    <2> QED
      BY <1>1, <2>1, Typed DEF WorkSoFar
  <1> QED
    BY <1>5, <1>6, <1>7, <1>8, <1>9, <1>10, <1>11, <1>12 DEF IInv, Verdicts

\* Nothing is said of a call that is not over.
LEMMA StillRuns ==
  ASSUME ~Over, UNCHANGED line
  PROVE  ~Over' /\ Verdicts'
  BY DEF Over, NoLine, Verdicts, SlownessIsNamed, FetchIsCounted, WriteCostsNoAnswer, HitIsReadBack

------------------------------------------------------------------------------
\* A fetch of both versions begins: nothing has been waited for but the lookup.
LEMMA FetchBothKeeps ==
  ASSUME IInv, ~Over, phase = "lookup", tool \in {"comparison", "file"},
         NEW found \in BOOLEAN, found => tool = "file", FetchBoth(Looked(found))
  PROVE  IInv'
  <1> USE DEF FetchBoth, Enter
  <1>1. TypeOK /\ LookupSoFar /\ SpentSoFar /\ FoundSoFar
    BY DEF IInv
  <1>2. ends' = [v \in Versions |-> [at |-> IF ahead THEN "ahead" ELSE "body", since |-> now]]
    BY DEF EndsFrom, Fetched
  <1>3. TypeOK'
    BY <1>1, <1>2, LookedTyped, Typed DEF TypeOK, Phases, Stages
  <1>4. LookupSoFar' /\ WorkSoFar'
    BY DEF LookupSoFar, WorkSoFar
  <1>5. FetchSoFar'
    BY <1>1, <1>2, Typed DEF LookupSoFar, LookupTime, FetchSoFar, InFlight, Idle
  <1>6. SpentSoFar'
    BY <1>1 DEF SpentSoFar
  <1>7. FoundSoFar'
    BY <1>1, LookedTyped DEF FoundSoFar, LookupSoFar
  <1> QED
    BY <1>3, <1>4, <1>5, <1>6, <1>7, StillRuns DEF IInv

\* A version gets on with its fetch, and the other is where it was.
LEMMA StageKeeps ==
  ASSUME IInv, ~Over, phase = "fetch", NEW v \in Versions,
         NEW stage \in {"body", "extract"},
         ends[v].at = IF stage = "body" THEN "ahead" ELSE "body",
         ends' = [ends EXCEPT ![v] = [at |-> stage, since |-> now]],
         UNCHANGED <<tool, ahead, stored, now, phase, since, limit, spent, lookup, line, ticks>>
  PROVE  IInv'
  <1>1. TypeOK /\ LookupSoFar /\ FetchSoFar /\ SpentSoFar /\ WorkSoFar /\ FoundSoFar
    BY DEF IInv
  <1>3. ends' \in [Versions -> [at : Stages, since : 0..now]]
    BY <1>1, Typed DEF TypeOK, Stages
  <1>4. TypeOK'
    BY <1>1, <1>3 DEF TypeOK
  <1>5. LookupSoFar' /\ WorkSoFar' /\ SpentSoFar' /\ FoundSoFar'
    BY <1>1 DEF LookupSoFar, LookupTime, WorkSoFar, SpentSoFar, FoundSoFar, Over
  <1>6. FetchSoFar'
    <2>1. ends'[v] = [at |-> stage, since |-> now] /\ \A w \in Versions : w # v => ends'[w] = ends[w]
      BY <1>1 DEF TypeOK
    <2>2. InFlight' # {}
      BY <2>1 DEF InFlight
    <2>3. stage = "body" => Idle <= LongestLookup + LongestFetch
      BY <1>1, Typed DEF FetchSoFar, Idle
    <2>4. stage = "extract" => Idle <= LongestLookup + 2 * LongestFetch
      BY <1>1, Typed DEF FetchSoFar, Idle
    <2>5. ASSUME NEW w \in Versions
          PROVE  /\ ends'[w].at = "ahead" => /\ ends'[w].since = since
                                             /\ now - since <= LongestFetch
                                             /\ Idle <= LongestLookup + (now - since)
                 /\ ends'[w].at = "body" =>
                      /\ now - ends'[w].since <= LongestFetch
                      /\ Idle <= LongestLookup + LongestFetch + (now - ends'[w].since)
                 /\ ends'[w].at = "extract" => Idle <= LongestLookup + 2 * LongestFetch
      <3>1. CASE w # v
        BY <1>1, <2>1, <3>1 DEF FetchSoFar
      <3>2. CASE w = v
        BY <2>1, <2>3, <2>4, <3>2, Typed, <1>1 DEF Idle
      <3> QED
        BY <3>1, <3>2
    <2> QED
      BY <1>1, <2>2, <2>5 DEF FetchSoFar, Idle
  <1> QED
    BY <1>4, <1>5, <1>6, StillRuns DEF IInv

\* One version is here; the window stays open for the other.
LEMMA OneArrivesKeeps ==
  ASSUME IInv, ~Over, NEW v \in Versions, OneArrives(v)
  PROVE  IInv'
  <1> USE DEF OneArrives
  <1>1. TypeOK /\ LookupSoFar /\ FetchSoFar /\ SpentSoFar /\ WorkSoFar /\ FoundSoFar
    BY DEF IInv
  <1>2. spent' = [fetched |-> TRUE, first |-> since, last |-> now]
    BY <1>1, WindowCloses
  <1>3. ends'[v].at = "done" /\ \A w \in Versions : w # v => ends'[w] = ends[w]
    BY <1>1 DEF TypeOK
  <1>4. TypeOK'
    BY <1>1, <1>2, Typed DEF TypeOK, Stages
  <1>5. LookupSoFar' /\ WorkSoFar' /\ FoundSoFar'
    BY <1>1 DEF LookupSoFar, LookupTime, WorkSoFar, FoundSoFar, Over
  <1>6. SpentSoFar'
    BY <1>2 DEF SpentSoFar
  <1>7. FetchSoFar'
    <2>1. InFlight' # {}
      <3>1. v \in InFlight
        BY DEF InFlight, LastStage
      <3>2. PICK w \in InFlight : w # v
        BY <3>1
      <3> QED
        BY <1>3, <3>2 DEF InFlight
    <2>2. \A w \in Versions : ends'[w].at \in {"ahead", "body", "extract"} => ends'[w] = ends[w]
      BY <1>3
    <2> QED
      BY <1>1, <1>2, <2>1, <2>2, Typed DEF FetchSoFar, Idle
  <1> QED
    BY <1>4, <1>5, <1>6, <1>7, StillRuns DEF IInv

\* Both versions are here: what was waited for is known, and the window is closed.
LEMMA AllArriveKeeps ==
  ASSUME IInv, ~Over, NEW v \in Versions, AllArrive(v), tool \in {"comparison", "file"},
         NEW p \in {"compute", "render"}, p = "render" => tool = "file",
         Enter(p), ends' = [ends EXCEPT ![v] = [at |-> "done", since |-> now]],
         spent' = Fetching(spent, since), limit' \in Nat,
         UNCHANGED <<tool, ahead, stored, now, lookup, line, ticks>>
  PROVE  IInv'
  <1> USE DEF AllArrive, Enter
  <1>1. TypeOK /\ LookupSoFar /\ FetchSoFar /\ SpentSoFar /\ WorkSoFar /\ FoundSoFar
    BY DEF IInv
  <1>2. /\ spent' = [fetched |-> TRUE, first |-> since, last |-> now]
        /\ ticks.fetching = now - since
    BY <1>1, WindowCloses DEF FetchSoFar
  <1>3. Idle <= LongestLookup + 2 * LongestFetch
    BY <1>1 DEF FetchSoFar, LastStage
  <1>4. TypeOK'
    BY <1>1, <1>2, Typed DEF TypeOK, Stages, Phases
  <1>5. LookupSoFar' /\ FetchSoFar'
    BY DEF LookupSoFar, FetchSoFar
  <1>6. SpentSoFar'
    <2>1. InFlight' = {}
      BY <1>1 DEF InFlight, TypeOK
    <2> QED
      BY <1>2, <2>1 DEF SpentSoFar
  <1>7. WorkSoFar'
    BY <1>1, <1>3, Typed DEF WorkSoFar, FetchSoFar, Idle
  <1>8. FoundSoFar'
    BY <1>1 DEF FoundSoFar, Over
  <1> QED
    BY <1>4, <1>5, <1>6, <1>7, <1>8, StillRuns DEF IInv

\* What the write may take leaves the answer its share.
LEMMA WritesKeeps ==
  ASSUME IInv, ~Over, Writes
  PROVE  IInv'
  <1> USE DEF Writes, Enter
  <1>1. TypeOK /\ LookupSoFar /\ SpentSoFar /\ WorkSoFar /\ FoundSoFar
    BY DEF IInv
  <1>2. /\ WriteTime \in Nat /\ WriteTime <= WriteDeadline
        /\ WriteTime > 0 => now + WriteTime <= Deadline - AnswerTime
    BY <1>1, Typed DEF WriteTime
  <1>3. TypeOK'
    BY <1>1, <1>2, Typed DEF TypeOK, Phases
  <1>4. LookupSoFar' /\ FetchSoFar'
    BY DEF LookupSoFar, FetchSoFar
  <1>5. SpentSoFar'
    BY <1>1 DEF SpentSoFar, InFlight
  <1>6. WorkSoFar'
    BY <1>1, <1>2, Typed DEF WorkSoFar, Idle
  <1>7. FoundSoFar'
    BY <1>1 DEF FoundSoFar, Over
  <1> QED
    BY <1>3, <1>4, <1>5, <1>6, <1>7, StillRuns DEF IInv

LEMMA RenderKeeps ==
  ASSUME IInv, ~Over, phase = "write", tool = "file", Enter("render"), limit' \in Works,
         UNCHANGED <<tool, ahead, stored, now, ends, spent, lookup, line, ticks>>
  PROVE  IInv'
  <1> USE DEF Enter
  <1>1. TypeOK /\ SpentSoFar /\ WorkSoFar /\ FoundSoFar
    BY DEF IInv
  <1>2. TypeOK'
    BY <1>1, Typed DEF TypeOK, Phases
  <1>3. LookupSoFar' /\ FetchSoFar' /\ FoundSoFar'
    BY <1>1 DEF LookupSoFar, FetchSoFar, FoundSoFar
  <1>4. SpentSoFar'
    BY <1>1 DEF SpentSoFar, InFlight
  <1>5. WorkSoFar'
    BY <1>1, Typed DEF WorkSoFar, Idle
  <1> QED
    BY <1>2, <1>3, <1>4, <1>5, StillRuns DEF IInv

\* A tick counts towards what is awaited, and towards the work if there is any.
LEMMA TickKeeps ==
  ASSUME IInv, ~Over, Tick
  PROVE  IInv'
  <1> USE DEF Tick
  <1>1. TypeOK /\ LookupSoFar /\ FetchSoFar /\ SpentSoFar /\ WorkSoFar /\ FoundSoFar
    BY DEF IInv
  <1>2. now \in Nat /\ now + 1 <= Deadline /\ now' = now + 1
    BY <1>1, Typed
  <1>3. /\ ticks'.fetching = ticks.fetching + OneIf(phase = "fetch")
        /\ ticks'.writing = ticks.writing + OneIf(phase = "write")
        /\ ticks'.working = ticks.working + OneIf(Working)
    OBVIOUS
  <1>4. Idle' = IF Working THEN Idle ELSE Idle + 1
    BY <1>1, <1>2, <1>3, Typed DEF Idle, OneIf
  <1>5. TypeOK'
    <2>1. since \in 0..(now + 1) /\ ends \in [Versions -> [at : Stages, since : 0..(now + 1)]]
      BY <1>1, <1>2 DEF TypeOK
    <2>2. ticks' \in [fetching : Nat, writing : Nat, working : Nat]
      BY <1>1, Typed DEF OneIf
    <2> QED
      BY <1>1, <1>2, <2>1, <2>2 DEF TypeOK
  <1>6. LookupSoFar'
    <2> SUFFICES ASSUME phase = "lookup"
                 PROVE  LookupSoFar'
      BY DEF LookupSoFar
    <2>1. now' <= LookupTime'
      BY <1>1, <1>2, Typed DEF LookupSoFar, Due, LookupTime
    <2>2. ticks' = [fetching |-> 0, writing |-> 0, working |-> 0]
      BY <1>1, Typed DEF LookupSoFar, Working, OneIf
    <2> QED
      BY <1>1, <2>1, <2>2 DEF LookupSoFar, Over
  <1>7. FetchSoFar'
    <2> SUFFICES ASSUME phase = "fetch"
                 PROVE  FetchSoFar'
      BY DEF FetchSoFar
    <2>1. /\ since <= LongestLookup
          /\ ticks'.writing = 0
          /\ ticks'.fetching = now' - since
          /\ InFlight' # {}
          /\ spent.fetched => spent.first = since /\ spent.last <= now'
      BY <1>1, <1>2, <1>3, Typed DEF FetchSoFar, OneIf, InFlight
    <2>2. ASSUME NEW v \in Versions
          PROVE  /\ ends[v].at = "ahead" => /\ ends[v].since = since
                                            /\ now' - since <= LongestFetch
                                            /\ Idle' <= LongestLookup + (now' - since)
                 /\ ends[v].at = "body" =>
                      /\ now' - ends[v].since <= LongestFetch
                      /\ Idle' <= LongestLookup + LongestFetch + (now' - ends[v].since)
                 /\ ends[v].at = "extract" => Idle' <= LongestLookup + 2 * LongestFetch
      <3>1. Idle \in Int /\ Idle' \in Int /\ Idle' <= Idle + 1
        BY <1>1, <1>4, Typed DEF Idle
      <3>2. CASE ends[v].at = "ahead"
        <4>1. now - since < LongestFetch
          BY <1>1, <3>2, Typed DEF Due, FetchSoFar
        <4> QED
          BY <1>1, <1>2, <3>1, <3>2, <4>1, Typed DEF FetchSoFar
      <3>3. CASE ends[v].at = "body"
        <4>1. now - ends[v].since < LongestFetch
          BY <1>1, <3>3, Typed DEF Due, FetchSoFar
        <4> QED
          BY <1>1, <1>2, <3>1, <3>3, <4>1, Typed DEF FetchSoFar
      <3>4. CASE ends[v].at = "extract"
        BY <1>1, <1>4, <3>4 DEF FetchSoFar, Working
      <3> QED
        BY <3>2, <3>3, <3>4
    <2> QED
      BY <2>1, <2>2 DEF FetchSoFar
  <1>8. SpentSoFar'
    BY <1>1, <1>3, Typed DEF SpentSoFar, InFlight, OneIf
  <1>9. WorkSoFar'
    <2>1. CASE phase = "compute"
      BY <1>1, <1>3, <1>4, <2>1, Typed DEF WorkSoFar, Working, OneIf
    <2>2. CASE phase = "write"
      <3>1. now - since < limit
        BY <1>1, <2>2, Typed DEF WorkSoFar, Due
      <3>2. Idle \in Int /\ Idle' \in Int /\ Idle' <= Idle + 1
        BY <1>1, <1>4, Typed DEF Idle
      <3> QED
        BY <1>1, <1>2, <1>3, <2>2, <3>1, <3>2, Typed DEF WorkSoFar, OneIf
    <2>3. CASE phase = "render"
      BY <1>1, <1>4, <2>3 DEF WorkSoFar, Working
    <2> QED
      BY <2>1, <2>2, <2>3 DEF WorkSoFar
  <1>10. FoundSoFar'
    BY <1>1 DEF FoundSoFar, Over
  <1> QED
    BY <1>5, <1>6, <1>7, <1>8, <1>9, <1>10, StillRuns DEF IInv

LEMMA InitKeeps == Init => IInv
  <1> SUFFICES ASSUME Init
               PROVE  IInv
    OBVIOUS
  <1> USE DEF Init
  <1>1. /\ ends \in [Versions -> [at : {"none", "ahead", "body"}, since : {0}]]
        /\ tool \in Asks => \A v \in Versions : ends[v].at = "none"
    BY DEF EndsFrom
  <1>2. TypeOK
    BY <1>1 DEF TypeOK, Phases, Stages
  <1>3. LookupSoFar /\ WorkSoFar /\ FoundSoFar
    BY DEF LookupSoFar, LookupTime, WorkSoFar, FoundSoFar
  <1>4. FetchSoFar
    <2> SUFFICES ASSUME phase = "fetch"
                 PROVE  FetchSoFar
      BY DEF FetchSoFar
    <2>1. tool \in {"archive", "document"}
      BY DEF AllTools, Asks
    <2>2. InFlight # {}
      <3>1. PICK v \in Versions : v \in Fetched(tool)
        BY <2>1 DEF Fetched
      <3>2. ends[v].at \in {"ahead", "body"}
        BY <2>1, <3>1 DEF EndsFrom, Asks
      <3> QED
        BY <3>2 DEF InFlight
    <2> QED
      BY <1>1, <2>2 DEF FetchSoFar, Idle
  <1>5. SpentSoFar
    BY <1>1 DEF SpentSoFar, InFlight
  <1>6. Verdicts
    BY DEF Verdicts, SlownessIsNamed, FetchIsCounted, WriteCostsNoAnswer, HitIsReadBack, Over, NoLine
  <1> QED
    BY <1>2, <1>3, <1>4, <1>5, <1>6 DEF IInv

------------------------------------------------------------------------------
\* Every reachable state satisfies the inductive invariant: the clock less the work
\* on the pool never outgrows the waits the call has been through.
THEOREM Invariance == Spec => []IInv
  <1>1. IInv /\ [Next]_vars => IInv'
    <2> SUFFICES ASSUME IInv, [Next]_vars
                 PROVE  IInv'
      OBVIOUS
    <2>1. TypeOK /\ LookupSoFar /\ FetchSoFar /\ SpentSoFar /\ FoundSoFar /\ WorkSoFar
      BY DEF IInv
    <2>2. CASE UNCHANGED vars
      BY <2>2 DEF vars, IInv, TypeOK, LookupSoFar, FetchSoFar, SpentSoFar, WorkSoFar, FoundSoFar, Verdicts, LookupTime,
                  SlownessIsNamed, FetchIsCounted, WriteCostsNoAnswer, HitIsReadBack, Idle, InFlight, Over
    <2>3. ASSUME Next
          PROVE  IInv'
      <3> ~Over
        BY <2>3 DEF Next
      <3>1. CASE Misses
        <4>1. tool \in {"comparison", "file"}
          BY <2>1, <3>1 DEF Misses, LookupSoFar, Asks
        <4> QED
          BY <3>1, <4>1, FetchBothKeeps DEF Misses
      <3>2. CASE HitsWithoutThePatch
        BY <3>2, FetchBothKeeps DEF HitsWithoutThePatch
      <3>3. CASE HitsWhole
        <4>1. CacheOf(Looked(TRUE)) = "hit"
          BY <2>1, <3>3, LookedTyped, CacheTyped DEF HitsWhole
        <4> QED
          <5>1. PICK result \in {"ok", "failed"} : Answer(result, "store", Looked(TRUE), spent)
            BY <3>3 DEF HitsWhole
          <5>2. Looked(TRUE) \in [asked : BOOLEAN, found : BOOLEAN, storeless : BOOLEAN]
            BY <2>1, LookedTyped
          <5> QED
            BY <2>1, <3>3, <4>1, <5>1, <5>2, AnswerKeeps DEF HitsWhole, Results
      <3>4. ASSUME NEW served \in BOOLEAN, EntryIs(served)
            PROVE  IInv'
        <4>1. tool # "file" /\ phase = "lookup" /\ ~lookup.found /\ (served => stored)
          BY <2>1, <3>4 DEF EntryIs, FoundSoFar
        <4>2. CacheOf(Looked(served)) = "hit" <=> served
          BY <2>1, <4>1, LookedTyped, CacheTyped
        <4> QED
          BY <2>1, <3>4, <4>1, <4>2, LookedTyped, AnswerKeeps DEF EntryIs, Results
      <3>5. ASSUME NEW v \in Versions, Reaches(v) \/ Downloads(v)
            PROVE  IInv'
        <4>1. CASE Reaches(v)
          BY <4>1, StageKeeps DEF Reaches
        <4>2. CASE Downloads(v)
          BY <4>2, StageKeeps DEF Downloads
        <4> QED
          BY <3>5, <4>1, <4>2
      <3>6. CASE FetchFails \/ ExtractionFails
        BY <2>1, <3>6, WindowCloses, AnswerKeeps DEF FetchFails, ExtractionFails, Results, TypeOK
      <3>7. CASE AnswersTheComparison
        <4>1. CacheOf(lookup) # "hit"
          BY <2>1, <3>7, CacheTyped DEF AnswersTheComparison, FoundSoFar, TypeOK
        <4> QED
          BY <2>1, <3>7, <4>1, AnswerKeeps DEF AnswersTheComparison, Results, TypeOK
      <3>8. CASE RendersTheFile
        BY <2>1, <3>8, AnswerKeeps, RenderKeeps DEF RendersTheFile, Results, TypeOK
      <3>9. CASE AnswersTheFile
        BY <2>1, <3>9, AnswerKeeps DEF AnswersTheFile, Results, TypeOK, FoundSoFar
      <3>10. ASSUME NEW v \in Versions, OneArrives(v)
             PROVE  IInv'
        BY <3>10, OneArrivesKeeps
      <3>11. ASSUME NEW v \in Versions, AnswersFromTheFetch(v)
             PROVE  IInv'
        <4>1. CacheOf(lookup) # "hit"
          BY <2>1, <3>11, CacheTyped DEF AnswersFromTheFetch, FoundSoFar, TypeOK
        <4> QED
          BY <2>1, <3>11, <4>1, WindowCloses, AnswerKeeps DEF AnswersFromTheFetch, AllArrive, Results, TypeOK
      <3>12. ASSUME NEW v \in Versions, Compares(v)
             PROVE  IInv'
        BY <2>1, <3>12, AllArriveKeeps DEF Compares, TypeOK
      <3>13. ASSUME NEW v \in Versions, RendersFromTheFetch(v)
             PROVE  IInv'
        <4>1. tool = "file" /\ phase = "fetch"
          BY <2>1, <3>13 DEF RendersFromTheFetch, AllArrive, FoundSoFar
        <4>2. CASE Answer("failed", "work", lookup, Fetching(spent, since))
          BY <2>1, <4>1, <4>2, AnswerKeeps DEF Results, TypeOK
        <4>3. CASE ~Answer("failed", "work", lookup, Fetching(spent, since))
          BY <3>13, <4>1, <4>3, AllArriveKeeps DEF RendersFromTheFetch
        <4> QED
          BY <4>2, <4>3
      <3>14. CASE Writes
        BY <3>14, WritesKeeps
      <3>15. CASE Panics \/ OutOfTime
        <4>1. phase = "fetch" => SpentAtTheEnd = Fetching(spent, since)
          BY <2>1, WindowCloses
        <4>2. phase # "fetch" => SpentAtTheEnd = spent
          BY <2>1 DEF SpentSoFar, SpentAtTheEnd
        <4> QED
          BY <2>1, <3>15, <4>1, <4>2, AnswerKeeps DEF Panics, OutOfTime, Results, TypeOK
      <3>16. CASE Tick
        BY <3>16, TickKeeps
      <3> QED
        BY <2>3, <3>1, <3>2, <3>3, <3>4, <3>5, <3>6, <3>7, <3>8, <3>9, <3>10, <3>11, <3>12, <3>13,
           <3>14, <3>15, <3>16 DEF Next, Waited, Worked
    <2> QED
      BY <2>2, <2>3
  <1> QED
    BY InitKeeps, <1>1, PTL DEF Spec

\* The types of ToolCall, for every length of the waits.
THEOREM TypeCorrect == Spec => []TypeOK
  <1>1. IInv => TypeOK
    BY DEF IInv
  <1> QED
    BY Invariance, <1>1, PTL

\* A call that only waits, however long, is never answered as out of time.
THEOREM SlownessNamed == Spec => []SlownessIsNamed
  <1>1. IInv => SlownessIsNamed
    BY DEF IInv, Verdicts
  <1> QED
    BY Invariance, <1>1, PTL

\* The fetch phase of a line is the window its fetches spanned.
THEOREM FetchCounted == Spec => []FetchIsCounted
  <1>1. IInv => FetchIsCounted
    BY DEF IInv, Verdicts
  <1> QED
    BY Invariance, <1>1, PTL

\* A write costs no answer, but to one file's diff, which is rendered after it.
THEOREM WriteIsFree == Spec => []WriteCostsNoAnswer
  <1>1. IInv => WriteCostsNoAnswer
    BY DEF IInv, Verdicts
  <1> QED
    BY Invariance, <1>1, PTL

\* The line of a comparison or of an entry says hit when the store answered it.
THEOREM HitRight == Spec => []HitIsReadBack
  <1>1. IInv => HitIsReadBack
    BY DEF IInv, Verdicts
  <1> QED
    BY Invariance, <1>1, PTL
=============================================================================
