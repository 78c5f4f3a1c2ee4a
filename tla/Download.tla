------------------------------ MODULE Download ------------------------------
(***************************************************************************)
(* How one process downloads from the registries: src/fetch.rs, where a    *)
(* body is read inside one of a few slots, and src/document/live.rs, where *)
(* a document worth remembering is fetched behind a turn and kept in a     *)
(* memo that holds one.  Archives and version lists take a slot and no     *)
(* turn.  An action is what a task does between two awaits; the timeouts   *)
(* are counted in ticks.                                                   *)
(***************************************************************************)
EXTENDS Naturals, FiniteSets

CONSTANTS
  Searches,         \* the tasks that ask for a document that is remembered
  Archives,         \* the tasks that ask for one that is not
  Urls,             \* the documents that are remembered
  Slots,            \* DOWNLOADS_AT_ONCE
  SlotWait,         \* SLOT_WAIT, in ticks
  UpstreamTimeout,  \* UPSTREAM_TIMEOUT: the request and its body, in ticks
  FreshFor,         \* remember_for, in ticks
  NoTask, NoUrl     \* nobody, nothing

Tasks == Searches \cup Archives

ASSUME TasksAssumption ==
  /\ IsFiniteSet(Tasks)
  /\ Searches \cap Archives = {}
  /\ NoTask \notin Tasks
ASSUME UrlsAssumption == NoUrl \notin Urls
ASSUME TimesAssumption ==
  /\ Slots \in Nat
  /\ SlotWait \in Nat \ {0}
  /\ UpstreamTimeout \in Nat \ {0}
  /\ FreshFor \in Nat \ {0}

\* The longest one bytes() can take, and how long a task waits for the turn.
LongestFetch == SlotWait + UpstreamTimeout
OneTurn == LongestFetch

VARIABLES
  pc,       \* where each task waits: for the turn, for a slot, for the registry
  asks,     \* the document each task asks for, NoUrl for an archive
  age,      \* how long it has waited there
  waited,   \* how long it has waited since it asked
  passed,   \* history: whether another task took the turn while it waited for it
  permits,  \* what is left of the semaphore
  turn,     \* who holds the mutex
  memo      \* the document remembered and its age, no older than FreshFor matters

vars == <<pc, asks, age, waited, passed, permits, turn, memo>>

TypeOK ==
  /\ pc \in [Tasks -> {"idle", "turn", "slot", "fetch"}]
  /\ asks \in [Tasks -> Urls \cup {NoUrl}]
  /\ age \in [Tasks -> Nat]
  /\ waited \in [Tasks -> Nat]
  /\ passed \in [Tasks -> BOOLEAN]
  /\ permits \in Nat
  /\ turn \in Tasks \cup {NoTask}
  /\ memo \in [url : Urls \cup {NoUrl}, age : 0..FreshFor]

Init ==
  /\ pc = [t \in Tasks |-> "idle"]
  /\ asks = [t \in Tasks |-> NoUrl]
  /\ age = [t \in Tasks |-> 0]
  /\ waited = [t \in Tasks |-> 0]
  /\ passed = [t \in Tasks |-> FALSE]
  /\ permits = Slots
  /\ turn = NoTask
  /\ memo = [url |-> NoUrl, age |-> FreshFor]

Remembered(url) == memo.url = url /\ memo.age < FreshFor

MoveTo(t, step) == pc' = [pc EXCEPT ![t] = step] /\ age' = [age EXCEPT ![t] = 0]

\* Mutant: a permit is not given back.
LeaveWithItsSlot(t) ==
  /\ MoveTo(t, "idle")
  /\ asks' = [asks EXCEPT ![t] = NoUrl]
  /\ waited' = [waited EXCEPT ![t] = 0]
  /\ passed' = [passed EXCEPT ![t] = FALSE]
  /\ turn' = IF turn = t THEN NoTask ELSE turn
  /\ UNCHANGED permits

\* A task that returns, or is dropped, lets go of its slot and of its turn.
Leave(t) ==
  /\ MoveTo(t, "idle")
  /\ asks' = [asks EXCEPT ![t] = NoUrl]
  /\ waited' = [waited EXCEPT ![t] = 0]
  /\ passed' = [passed EXCEPT ![t] = FALSE]
  /\ permits' = IF pc[t] = "fetch" THEN permits + 1 ELSE permits
  /\ turn' = IF turn = t THEN NoTask ELSE turn

------------------------------------------------------------------------------
\* What is remembered is answered without waiting, and leaves no trace here.
AskForIndex(t) ==
  /\ t \in Searches
  /\ pc[t] = "idle"
  /\ \E url \in Urls : ~Remembered(url) /\ asks' = [asks EXCEPT ![t] = url]
  /\ MoveTo(t, "turn")
  /\ UNCHANGED <<waited, passed, permits, turn, memo>>

AskForArchive(t) ==
  /\ t \in Archives
  /\ pc[t] = "idle"
  /\ MoveTo(t, "slot")
  /\ UNCHANGED <<asks, waited, passed, permits, turn, memo>>

\* Mutant: nobody looks again behind the turn.
TakeTurnBlindly(t) ==
  /\ pc[t] = "turn"
  /\ turn = NoTask
  /\ turn' = t
  /\ MoveTo(t, "slot")
  /\ passed' = [s \in Tasks |-> passed[s] \/ (s # t /\ pc[s] = "turn")]
  /\ UNCHANGED <<asks, waited, permits, memo>>

\* The turn is here: look again, and go on to fetch only what is still not held.
TakeTurn(t) ==
  /\ pc[t] = "turn"
  /\ turn = NoTask
  /\ ~Remembered(asks[t])
  /\ turn' = t
  /\ MoveTo(t, "slot")
  /\ passed' = [s \in Tasks |-> passed[s] \/ (s # t /\ pc[s] = "turn")]
  /\ UNCHANGED <<asks, waited, permits, memo>>

FindsItRemembered(t) ==
  /\ pc[t] = "turn"
  /\ turn = NoTask
  /\ Remembered(asks[t])
  /\ Leave(t)
  /\ UNCHANGED memo

\* Mutant: the wait for the turn ends a moment after its timer.
RefusedATurnLater(t) ==
  /\ pc[t] = "turn"
  /\ age[t] > OneTurn
  /\ turn # NoTask
  /\ Leave(t)
  /\ UNCHANGED memo

\* timeout() polls the lock before its timer, so only a turn still taken is a refusal.
RefusedATurn(t) ==
  /\ pc[t] = "turn"
  /\ age[t] = OneTurn
  /\ turn # NoTask
  /\ Leave(t)
  /\ UNCHANGED memo

TakeSlot(t) ==
  /\ pc[t] = "slot"
  /\ permits > 0
  /\ permits' = permits - 1
  /\ MoveTo(t, "fetch")
  /\ UNCHANGED <<asks, waited, passed, turn, memo>>

RefusedASlot(t) ==
  /\ pc[t] = "slot"
  /\ age[t] = SlotWait
  /\ permits = 0
  /\ Leave(t)
  /\ UNCHANGED memo

BodyArrives(t) ==
  /\ pc[t] = "fetch"
  /\ memo' = IF t \in Searches THEN [url |-> asks[t], age |-> 0] ELSE memo
  /\ Leave(t)

\* Mutant: a fetch that fails is tried again inside the turn.
FetchFailsAndRetries(t) ==
  /\ pc[t] = "fetch"
  /\ MoveTo(t, "slot")
  /\ permits' = permits + 1
  /\ UNCHANGED <<asks, waited, passed, turn, memo>>

\* A status, a body over the limit, a connection that breaks, or UPSTREAM_TIMEOUT.
FetchFails(t) ==
  /\ pc[t] = "fetch"
  /\ Leave(t)
  /\ UNCHANGED memo

\* The call it belongs to is past its deadline, has lost its caller, or has seen
\* the other archive of its comparison fail.
Dropped(t) ==
  /\ pc[t] # "idle"
  /\ Leave(t)
  /\ UNCHANGED memo

\* Mutant: nobody times the wait for the turn.
DueInASlot(t) ==
  \/ pc[t] = "slot" /\ age[t] = SlotWait
  \/ pc[t] = "fetch" /\ age[t] = UpstreamTimeout

\* No timer is late: what is due happens before time goes on.
Due(t) ==
  \/ pc[t] = "turn" /\ age[t] = OneTurn
  \/ pc[t] = "slot" /\ age[t] = SlotWait
  \/ pc[t] = "fetch" /\ age[t] = UpstreamTimeout

Tick ==
  /\ \A t \in Tasks : ~Due(t)
  /\ age' = [t \in Tasks |-> IF pc[t] = "idle" THEN 0 ELSE age[t] + 1]
  /\ waited' = [t \in Tasks |-> IF pc[t] = "idle" THEN 0 ELSE waited[t] + 1]
  /\ memo' = [memo EXCEPT !.age = IF @ < FreshFor THEN @ + 1 ELSE @]
  /\ UNCHANGED <<pc, asks, passed, permits, turn>>

Step(t) ==
  \/ TakeTurn(t) \/ FindsItRemembered(t) \/ RefusedATurn(t)
  \/ TakeSlot(t) \/ RefusedASlot(t)
  \/ BodyArrives(t) \/ FetchFails(t)

Next ==
  \/ \E t \in Tasks : AskForIndex(t) \/ AskForArchive(t) \/ Step(t) \/ Dropped(t)
  \/ Tick

Spec == Init /\ [][Next]_vars

FairSpec == Spec /\ WF_vars(Tick) /\ \A t \in Tasks : WF_vars(Step(t))

------------------------------------------------------------------------------
(***************************************************************************)
(* Properties.                                                             *)
(***************************************************************************)
Fetching == {t \in Tasks : pc[t] = "fetch"}

\* A permit is given back once for each time it is taken, on every way out of a
\* download: a body, a refusal, a timeout, and a task dropped at any await.
NoSlotLeaks == permits + Cardinality(Fetching) = Slots

\* The turn is held by exactly the search that waits for a slot or fetches, so no
\* way out leaves it taken and a burst of searches holds one slot at a time.
TurnIsTheFetchers ==
  \A t \in Searches : turn = t <=> pc[t] \in {"slot", "fetch"}

\* A document is never fetched while it is held: what the look behind the turn
\* found stays true until the body arrives, however long the slot takes.
FetchesOnlyWhatIsNotHeld ==
  \A t \in Searches : pc[t] \in {"slot", "fetch"} => ~Remembered(asks[t])

\* No task waits longer than one turn and its own fetch, however long the line.
WaitsATurnAndAFetch == \A t \in Tasks : waited[t] <= OneTurn + LongestFetch

\* A search that nobody overtook has not waited longer than the turn it waits for
\* has been held, so it is refused only behind a line.
RefusedOnlyBehindALine ==
  \A t, h \in Searches :
    pc[t] = "turn" /\ ~passed[t] /\ turn = h =>
      age[t] <= (IF pc[h] = "slot" THEN age[h] ELSE SlotWait + age[h])

\* Every download ends.
EveryDownloadEnds == \A t \in Tasks : pc[t] # "idle" ~> pc[t] = "idle"

(***************************************************************************)
(* The inductive invariant behind them.                                    *)
(***************************************************************************)
\* Who can be where: an archive has no business with the turn.
ArchivesTakeNoTurn == turn \notin Archives /\ \A t \in Archives : pc[t] # "turn"

\* Where a task waits, how long it has waited there, and since it asked.
WaitsInTime ==
  \A t \in Tasks :
    /\ pc[t] = "idle"  => age[t] = 0 /\ waited[t] = 0
    /\ pc[t] = "turn"  => waited[t] = age[t] /\ age[t] <= OneTurn
    /\ pc[t] = "slot"  => waited[t] <= OneTurn + age[t] /\ age[t] <= SlotWait
    /\ pc[t] = "fetch" => /\ waited[t] <= OneTurn + SlotWait + age[t]
                          /\ age[t] <= UpstreamTimeout

IInv ==
  /\ TypeOK
  /\ ArchivesTakeNoTurn
  /\ TurnIsTheFetchers
  /\ NoSlotLeaks
  /\ FetchesOnlyWhatIsNotHeld
  /\ WaitsInTime
  /\ RefusedOnlyBehindALine
==============================================================================
