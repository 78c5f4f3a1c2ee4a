--------------------------- MODULE DownloadProofs ---------------------------
(***************************************************************************)
(* What TLAPS proves of Download for every set of tasks, slots and times.  *)
(***************************************************************************)
EXTENDS Download, FiniteSetTheorems, TLAPS

LEMMA TimesTyped ==
  /\ LongestFetch \in Nat
  /\ OneTurn \in Nat
  /\ OneTurn = SlotWait + UpstreamTimeout
  BY TimesAssumption DEF LongestFetch, OneTurn

LEMMA TasksTyped ==
  /\ IsFiniteSet(Tasks)
  /\ \A t \in Searches : t \in Tasks /\ t \notin Archives /\ t # NoTask
  /\ \A t \in Archives : t \in Tasks /\ t \notin Searches /\ t # NoTask
  /\ \A t \in Tasks : t \in Searches \/ t \in Archives
  BY TasksAssumption DEF Tasks

LEMMA FetchingIsFinite == IsFiniteSet(Fetching) /\ Cardinality(Fetching) \in Nat
  <1>1. IsFiniteSet(Fetching)
    BY TasksTyped, FS_Subset DEF Fetching
  <1> QED
    BY <1>1, FS_CardinalityType

------------------------------------------------------------------------------
\* A task moves and the others stand still: who is fetching, and how many.
LEMMA FetchingMoves ==
  ASSUME TypeOK, NEW t \in Tasks, NEW step, MoveTo(t, step)
  PROVE  /\ step = "fetch" /\ pc[t] # "fetch" =>
              Cardinality(Fetching') = Cardinality(Fetching) + 1
         /\ step # "fetch" /\ pc[t] = "fetch" =>
              Cardinality(Fetching') = Cardinality(Fetching) - 1
         /\ step # "fetch" /\ pc[t] # "fetch" => Fetching' = Fetching
  <1>1. pc' = [pc EXCEPT ![t] = step] /\ pc \in [Tasks -> {"idle", "turn", "slot", "fetch"}]
    BY DEF MoveTo, TypeOK
  <1>2. ASSUME step = "fetch", pc[t] # "fetch"
        PROVE  Cardinality(Fetching') = Cardinality(Fetching) + 1
    <2>1. Fetching' = Fetching \cup {t} /\ t \notin Fetching
      BY <1>1, <1>2 DEF Fetching
    <2> QED
      BY <2>1, FetchingIsFinite, FS_AddElement
  <1>3. ASSUME step # "fetch", pc[t] = "fetch"
        PROVE  Cardinality(Fetching') = Cardinality(Fetching) - 1
    <2>1. Fetching' = Fetching \ {t} /\ t \in Fetching
      BY <1>1, <1>3 DEF Fetching
    <2> QED
      BY <2>1, FetchingIsFinite, FS_RemoveElement
  <1>4. ASSUME step # "fetch", pc[t] # "fetch"
        PROVE  Fetching' = Fetching
    BY <1>1, <1>4 DEF Fetching
  <1> QED
    BY <1>2, <1>3, <1>4

\* A slot and the turn go back on every way out of a download.
LEMMA LeaveKeeps ==
  ASSUME IInv, NEW t \in Tasks, pc[t] # "idle", Leave(t),
         \/ UNCHANGED memo
         \/ pc[t] = "fetch" /\ t \in Searches /\ memo' = [url |-> asks[t], age |-> 0]
  PROVE  IInv'
  <1>0. /\ pc[t] # "fetch" => Fetching' = Fetching
        /\ pc[t] = "fetch" => Cardinality(Fetching') = Cardinality(Fetching) - 1
    <2>1. MoveTo(t, "idle") /\ TypeOK
      BY DEF Leave, IInv
    <2> QED
      BY <2>1, FetchingMoves
  <1> USE DEF MoveTo, Leave
  <1>1. TypeOK /\ TypeOK'
    BY TimesAssumption DEF IInv, TypeOK
  <1>2. ArchivesTakeNoTurn'
    BY <1>1, TasksTyped DEF IInv, ArchivesTakeNoTurn, TypeOK
  <1>3. TurnIsTheFetchers'
    BY <1>1, TasksTyped DEF IInv, TurnIsTheFetchers, TypeOK
  <1>4. NoSlotLeaks'
    BY <1>0, <1>1, FetchingIsFinite, TimesAssumption DEF IInv, NoSlotLeaks, TypeOK
  <1>5. FetchesOnlyWhatIsNotHeld'
    <2> SUFFICES ASSUME NEW s \in Searches, pc'[s] \in {"slot", "fetch"}
                 PROVE  ~Remembered(asks[s])'
      BY DEF FetchesOnlyWhatIsNotHeld
    <2>1. s # t /\ pc[s] = pc'[s] /\ asks'[s] = asks[s]
      BY <1>1, TasksTyped DEF TypeOK
    <2>2. ~Remembered(asks[s])
      BY <2>1 DEF IInv, FetchesOnlyWhatIsNotHeld
    <2>3. UNCHANGED memo
      BY <2>1 DEF IInv, TurnIsTheFetchers
    <2> QED
      BY <2>1, <2>2, <2>3 DEF Remembered
  <1>6. WaitsInTime'
    BY <1>1 DEF IInv, WaitsInTime, TypeOK
  <1>7. RefusedOnlyBehindALine'
    BY <1>1, TasksTyped DEF IInv, RefusedOnlyBehindALine, TypeOK
  <1> QED
    BY <1>1, <1>2, <1>3, <1>4, <1>5, <1>6, <1>7 DEF IInv

LEMMA AskForIndexKeeps ==
  ASSUME IInv, NEW t \in Tasks, AskForIndex(t)
  PROVE  IInv'
  <1>0. /\ pc[t] # "fetch" => Fetching' = Fetching
        /\ pc[t] = "fetch" => Cardinality(Fetching') = Cardinality(Fetching) - 1
    <2>1. MoveTo(t, "turn") /\ TypeOK
      BY DEF AskForIndex, IInv
    <2> QED
      BY <2>1, FetchingMoves
  <1> USE DEF MoveTo, AskForIndex
  <1>1. TypeOK /\ TypeOK'
    BY DEF IInv, TypeOK
  <1>2. ArchivesTakeNoTurn' /\ TurnIsTheFetchers'
    BY <1>1, TasksTyped DEF IInv, ArchivesTakeNoTurn, TurnIsTheFetchers, TypeOK
  <1>3. NoSlotLeaks'
    BY <1>0, <1>1, FetchingIsFinite, TimesAssumption DEF IInv, NoSlotLeaks, TypeOK
  <1>4. FetchesOnlyWhatIsNotHeld'
    BY <1>1, TasksTyped DEF IInv, FetchesOnlyWhatIsNotHeld, Remembered, TypeOK
  <1>5. WaitsInTime'
    BY <1>1, TimesTyped DEF IInv, WaitsInTime, TypeOK
  <1>6. RefusedOnlyBehindALine'
    <2> SUFFICES ASSUME NEW s \in Searches, NEW h \in Searches,
                        pc'[s] = "turn", ~passed[s], turn = h
                 PROVE  age'[s] <= (IF pc'[h] = "slot" THEN age'[h] ELSE SlotWait + age'[h])
      BY DEF RefusedOnlyBehindALine
    <2>1. pc[h] \in {"slot", "fetch"} /\ h # t /\ h \in Tasks /\ s \in Tasks
      BY TasksTyped DEF IInv, TurnIsTheFetchers
    <2>2. pc'[h] = pc[h] /\ age'[h] = age[h] /\ age[h] \in Nat
      BY <1>1, <2>1 DEF TypeOK
    <2>3. CASE s = t
      BY <1>1, <2>1, <2>2, <2>3, TimesAssumption DEF TypeOK
    <2>4. CASE s # t
      BY <1>1, <2>1, <2>2, <2>4 DEF IInv, RefusedOnlyBehindALine, TypeOK
    <2> QED
      BY <2>3, <2>4
  <1> QED
    BY <1>1, <1>2, <1>3, <1>4, <1>5, <1>6 DEF IInv

LEMMA AskForArchiveKeeps ==
  ASSUME IInv, NEW t \in Tasks, AskForArchive(t)
  PROVE  IInv'
  <1>0. /\ pc[t] # "fetch" => Fetching' = Fetching
        /\ pc[t] = "fetch" => Cardinality(Fetching') = Cardinality(Fetching) - 1
    <2>1. MoveTo(t, "slot") /\ TypeOK
      BY DEF AskForArchive, IInv
    <2> QED
      BY <2>1, FetchingMoves
  <1> USE DEF MoveTo, AskForArchive
  <1>1. TypeOK /\ TypeOK'
    BY DEF IInv, TypeOK
  <1>2. ArchivesTakeNoTurn' /\ TurnIsTheFetchers'
    BY <1>1, TasksTyped DEF IInv, ArchivesTakeNoTurn, TurnIsTheFetchers, TypeOK
  <1>3. NoSlotLeaks'
    BY <1>0, <1>1, FetchingIsFinite, TimesAssumption DEF IInv, NoSlotLeaks, TypeOK
  <1>4. FetchesOnlyWhatIsNotHeld'
    BY <1>1, TasksTyped DEF IInv, FetchesOnlyWhatIsNotHeld, Remembered, TypeOK
  <1>5. WaitsInTime'
    BY <1>1, TimesTyped, TimesAssumption DEF IInv, WaitsInTime, TypeOK
  <1>6. RefusedOnlyBehindALine'
    BY <1>1, TasksTyped DEF IInv, RefusedOnlyBehindALine, TypeOK
  <1> QED
    BY <1>1, <1>2, <1>3, <1>4, <1>5, <1>6 DEF IInv

\* The look behind the turn is what keeps a held document from being fetched.
LEMMA TakeTurnKeeps ==
  ASSUME IInv, NEW t \in Tasks, TakeTurn(t)
  PROVE  IInv'
  <1>0. /\ pc[t] # "fetch" => Fetching' = Fetching
        /\ pc[t] = "fetch" => Cardinality(Fetching') = Cardinality(Fetching) - 1
    <2>1. MoveTo(t, "slot") /\ TypeOK
      BY DEF TakeTurn, IInv
    <2> QED
      BY <2>1, FetchingMoves
  <1> USE DEF MoveTo, TakeTurn
  <1>1. TypeOK /\ TypeOK'
    BY DEF IInv, TypeOK
  <1>2. t \in Searches
    BY TasksTyped DEF IInv, ArchivesTakeNoTurn
  <1>3. ArchivesTakeNoTurn' /\ TurnIsTheFetchers'
    BY <1>1, <1>2, TasksTyped DEF IInv, ArchivesTakeNoTurn, TurnIsTheFetchers, TypeOK
  <1>4. NoSlotLeaks'
    BY <1>0, <1>1, FetchingIsFinite, TimesAssumption DEF IInv, NoSlotLeaks, TypeOK
  <1>5. FetchesOnlyWhatIsNotHeld'
    BY <1>1, TasksTyped DEF IInv, FetchesOnlyWhatIsNotHeld, Remembered, TypeOK
  <1>6. WaitsInTime'
    BY <1>1, TimesTyped, TimesAssumption DEF IInv, WaitsInTime, TypeOK
  <1>7. RefusedOnlyBehindALine'
    BY <1>1, TasksTyped DEF IInv, RefusedOnlyBehindALine, TypeOK
  <1> QED
    BY <1>1, <1>3, <1>4, <1>5, <1>6, <1>7 DEF IInv

LEMMA TakeSlotKeeps ==
  ASSUME IInv, NEW t \in Tasks, TakeSlot(t)
  PROVE  IInv'
  <1>0. /\ pc[t] # "fetch" => Cardinality(Fetching') = Cardinality(Fetching) + 1
    <2>1. MoveTo(t, "fetch") /\ TypeOK
      BY DEF TakeSlot, IInv
    <2> QED
      BY <2>1, FetchingMoves
  <1> USE DEF MoveTo, TakeSlot
  <1>1. TypeOK /\ TypeOK'
    BY DEF IInv, TypeOK
  <1>2. ArchivesTakeNoTurn' /\ TurnIsTheFetchers'
    BY <1>1, TasksTyped DEF IInv, ArchivesTakeNoTurn, TurnIsTheFetchers, TypeOK
  <1>3. NoSlotLeaks'
    BY <1>0, <1>1, FetchingIsFinite, TimesAssumption DEF IInv, NoSlotLeaks, TypeOK
  <1>4. FetchesOnlyWhatIsNotHeld'
    BY <1>1, TasksTyped DEF IInv, FetchesOnlyWhatIsNotHeld, Remembered, TypeOK
  <1>5. WaitsInTime'
    BY <1>1, TimesTyped, TimesAssumption DEF IInv, WaitsInTime, TypeOK
  <1>6. RefusedOnlyBehindALine'
    BY <1>1, TasksTyped, TimesAssumption DEF IInv, RefusedOnlyBehindALine, WaitsInTime, TypeOK
  <1> QED
    BY <1>1, <1>2, <1>3, <1>4, <1>5, <1>6 DEF IInv

\* Time only goes on while nothing is due, so nobody's wait outgrows its limit.
LEMMA TickKeeps ==
  ASSUME IInv, Tick
  PROVE  IInv'
  <1> USE DEF Tick
  <1>1. TypeOK /\ TypeOK'
    BY TimesAssumption DEF IInv, TypeOK
  <1>2. ArchivesTakeNoTurn' /\ TurnIsTheFetchers'
    BY DEF IInv, ArchivesTakeNoTurn, TurnIsTheFetchers
  <1>3. NoSlotLeaks'
    BY DEF IInv, NoSlotLeaks, Fetching
  <1>4. FetchesOnlyWhatIsNotHeld'
    BY <1>1, TimesAssumption DEF IInv, FetchesOnlyWhatIsNotHeld, Remembered, TypeOK
  <1>5. WaitsInTime'
    <2> SUFFICES ASSUME NEW t \in Tasks
                 PROVE  /\ pc[t] = "idle"  => age'[t] = 0 /\ waited'[t] = 0
                        /\ pc[t] = "turn"  => waited'[t] = age'[t] /\ age'[t] <= OneTurn
                        /\ pc[t] = "slot"  => waited'[t] <= OneTurn + age'[t] /\ age'[t] <= SlotWait
                        /\ pc[t] = "fetch" => /\ waited'[t] <= OneTurn + SlotWait + age'[t]
                                              /\ age'[t] <= UpstreamTimeout
      BY DEF WaitsInTime
    <2>1. age[t] \in Nat /\ waited[t] \in Nat /\ ~Due(t)
      BY <1>1 DEF TypeOK
    <2>2. CASE pc[t] = "idle"
      BY <2>2
    <2>3. CASE pc[t] # "idle"
      <3>1. age'[t] = age[t] + 1 /\ waited'[t] = waited[t] + 1
        BY <2>3
      <3> QED
        BY <2>1, <2>3, <3>1, TimesTyped, TimesAssumption DEF IInv, WaitsInTime, Due
    <2> QED
      BY <2>2, <2>3
  <1>6. RefusedOnlyBehindALine'
    <2> SUFFICES ASSUME NEW t \in Searches, NEW h \in Searches,
                        pc[t] = "turn", ~passed[t], turn = h
                 PROVE  age'[t] <= (IF pc[h] = "slot" THEN age'[h] ELSE SlotWait + age'[h])
      BY DEF RefusedOnlyBehindALine
    <2>1. age[t] <= (IF pc[h] = "slot" THEN age[h] ELSE SlotWait + age[h])
      BY DEF IInv, RefusedOnlyBehindALine
    <2>2. pc[h] # "idle" /\ h \in Tasks /\ t \in Tasks
      BY TasksTyped DEF IInv, TurnIsTheFetchers
    <2>3. age'[t] = age[t] + 1 /\ age'[h] = age[h] + 1 /\ age[t] \in Nat /\ age[h] \in Nat
      BY <1>1, <2>2 DEF TypeOK
    <2> QED
      BY <2>1, <2>3, TimesAssumption
  <1> QED
    BY <1>1, <1>2, <1>3, <1>4, <1>5, <1>6 DEF IInv

LEMMA InitKeeps == Init => IInv
  <1> SUFFICES ASSUME Init
               PROVE  IInv
    OBVIOUS
  <1> USE DEF Init
  <1>1. TypeOK
    BY TimesAssumption DEF TypeOK
  <1>2. ArchivesTakeNoTurn /\ TurnIsTheFetchers /\ FetchesOnlyWhatIsNotHeld
    BY TasksTyped DEF ArchivesTakeNoTurn, TurnIsTheFetchers, FetchesOnlyWhatIsNotHeld
  <1>3. NoSlotLeaks
    <2>1. Fetching = {}
      BY DEF Fetching
    <2> QED
      BY <2>1, FS_EmptySet, TimesAssumption DEF NoSlotLeaks
  <1>4. WaitsInTime
    BY DEF WaitsInTime
  <1>5. RefusedOnlyBehindALine
    BY TasksTyped DEF RefusedOnlyBehindALine
  <1> QED
    BY <1>1, <1>2, <1>3, <1>4, <1>5 DEF IInv

------------------------------------------------------------------------------
\* Every reachable state satisfies the inductive invariant: slots and the turn
\* are where the tasks that hold them are, and every wait is within its limit.
THEOREM Invariance == Spec => []IInv
  <1>1. IInv /\ [Next]_vars => IInv'
    <2> SUFFICES ASSUME IInv, [Next]_vars
                 PROVE  IInv'
      OBVIOUS
    <2>1. CASE UNCHANGED vars
      BY <2>1 DEF vars, IInv, TypeOK, ArchivesTakeNoTurn, TurnIsTheFetchers, NoSlotLeaks, Fetching,
                  FetchesOnlyWhatIsNotHeld, Remembered, WaitsInTime, RefusedOnlyBehindALine
    <2>2. ASSUME NEW t \in Tasks, AskForIndex(t) \/ AskForArchive(t) \/ TakeTurn(t) \/ TakeSlot(t)
          PROVE  IInv'
      BY <2>2, AskForIndexKeeps, AskForArchiveKeeps, TakeTurnKeeps, TakeSlotKeeps
    <2>3. ASSUME NEW t \in Tasks,
                 FindsItRemembered(t) \/ RefusedATurn(t) \/ RefusedASlot(t) \/ FetchFails(t) \/ Dropped(t)
          PROVE  IInv'
      BY <2>3, LeaveKeeps DEF FindsItRemembered, RefusedATurn, RefusedASlot, FetchFails, Dropped
    <2>4. ASSUME NEW t \in Tasks, BodyArrives(t)
          PROVE  IInv'
      BY <2>4, LeaveKeeps DEF BodyArrives
    <2>5. CASE Tick
      BY <2>5, TickKeeps
    <2> QED
      BY <2>1, <2>2, <2>3, <2>4, <2>5 DEF Next, Step
  <1> QED
    BY InitKeeps, <1>1, PTL DEF Spec

\* The types of Download, for every set of tasks and every limit.
THEOREM TypeCorrect == Spec => []TypeOK
  <1>1. IInv => TypeOK
    BY DEF IInv
  <1> QED
    BY Invariance, <1>1, PTL

\* No way out of a download keeps its slot, and no more are taken than there are.
THEOREM SlotsComeBack == Spec => []NoSlotLeaks
  <1>1. IInv => NoSlotLeaks
    BY DEF IInv
  <1> QED
    BY Invariance, <1>1, PTL

\* The turn is held by the search that is fetching behind it, and by nobody else.
THEOREM TurnComesBack == Spec => []TurnIsTheFetchers
  <1>1. IInv => TurnIsTheFetchers
    BY DEF IInv
  <1> QED
    BY Invariance, <1>1, PTL

\* A document that is held is not fetched, however many searches ask at once.
THEOREM FetchesOnce == Spec => []FetchesOnlyWhatIsNotHeld
  <1>1. IInv => FetchesOnlyWhatIsNotHeld
    BY DEF IInv
  <1> QED
    BY Invariance, <1>1, PTL

\* However many tasks there are, none waits longer than one turn and one fetch.
THEOREM WaitIsBounded == Spec => []WaitsATurnAndAFetch
  <1>1. IInv => WaitsATurnAndAFetch
    <2> SUFFICES ASSUME IInv, NEW t \in Tasks
                 PROVE  waited[t] <= OneTurn + LongestFetch
      BY DEF WaitsATurnAndAFetch
    <2>1. age[t] \in Nat /\ waited[t] \in Nat /\ pc[t] \in {"idle", "turn", "slot", "fetch"}
      BY DEF IInv, TypeOK
    <2> QED
      BY <2>1, TimesTyped, TimesAssumption DEF IInv, WaitsInTime, LongestFetch
  <1> QED
    BY Invariance, <1>1, PTL

\* A search is only ever refused a turn that others have taken before it.
THEOREM RefusedBehindALine == Spec => []RefusedOnlyBehindALine
  <1>1. IInv => RefusedOnlyBehindALine
    BY DEF IInv
  <1> QED
    BY Invariance, <1>1, PTL
=============================================================================
