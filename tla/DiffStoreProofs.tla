--------------------------- MODULE DiffStoreProofs ---------------------------
(***************************************************************************)
(* What TLAPS proves of DiffStore for every set of calls, keys and faults. *)
(***************************************************************************)
EXTENDS DiffStore, FiniteSetTheorems, TLAPS

LEMMA IdleTyped == Idle \in CallState
  <1>1. (CHOOSE k \in Keys : TRUE) \in Keys
    BY KeysAssumption
  <1> QED
    BY <1>1 DEF Idle, CallState, Steps, NoAnswer, Answer, Kinds, Empty

\* The answers a call can end with.
LEMMA AnswersTyped ==
  /\ NoAnswer \in Answer
  /\ \A kind \in Empty : Nothing(kind) \in Answer
  /\ \A k \in Keys : FreshOf(k) \in Answer
  /\ \A t, p \in SUBSET Keys : CachedOf(t, p) \in Answer
  BY DEF NoAnswer, Nothing, FreshOf, CachedOf, Answer, Kinds, Empty

\* A call that has its answer keeps its question and nothing else.
LEMMA FinishTyped ==
  ASSUME call \in [Calls -> CallState], NEW c \in Calls, NEW a \in Answer, Finish(c, a)
  PROVE  /\ call' \in [Calls -> CallState]
         /\ \A d \in Calls \ {c} : call'[d] = call[d]
         /\ call'[c].pc = "done"
         /\ call'[c].mode = call[c].mode
         /\ call'[c].key = call[c].key
         /\ call'[c].answer = a
  BY IdleTyped DEF Finish, Become, CallState, Steps

LEMMA BecomeTyped ==
  ASSUME call \in [Calls -> CallState], NEW c \in Calls, NEW r \in CallState, Become(c, r)
  PROVE  /\ call' \in [Calls -> CallState]
         /\ \A d \in Calls \ {c} : call'[d] = call[d]
         /\ call'[c] = r
  BY DEF Become

------------------------------------------------------------------------------
(***************************************************************************)
(* Types.                                                                  *)
(***************************************************************************)
StoreTyped ==
  /\ blobs \subseteq Blob
  /\ uploads \in Nat
  /\ latePuts \subseteq PutRequest
  /\ lateDeletes \subseteq DeleteRequest

LEMMA StoresTyped ==
  ASSUME StoreTyped, NEW p \in PutRequest, Stores(p)
  PROVE  blobs' \subseteq Blob /\ uploads' \in Nat
  BY DEF StoreTyped, Stores, At, Blob, PutRequest

LEMMA DeletesTyped ==
  ASSUME StoreTyped, NEW d \in DeleteRequest, Deletes(d)
  PROVE  blobs' \subseteq blobs /\ uploads' \in Nat
  BY DEF StoreTyped, Deletes

LEMMA UnsurePutTyped ==
  ASSUME StoreTyped, NEW p \in PutRequest, UnsurePut(p)
  PROVE  StoreTyped'
  BY StoresTyped DEF UnsurePut, LingerPut, StoreTyped

LEMMA UnsureDeleteTyped ==
  ASSUME StoreTyped, NEW d \in DeleteRequest, UnsureDelete(d)
  PROVE  StoreTyped'
  BY DeletesTyped DEF UnsureDelete, LingerDelete, StoreTyped

\* A request that was answered is one that was served.
LEMMA ServedIsUnsure ==
  /\ \A p : ServedPut(p) => UnsurePut(p)
  /\ \A d : ServedDelete(d) => UnsureDelete(d)
  BY DEF ServedPut, UnsurePut, ServedDelete, UnsureDelete

LEMMA RequestsTyped ==
  ASSUME TypeOK, NEW c \in Calls
  PROVE  /\ IdOf(c) \in Ids
         /\ PutOf(c) \in PutRequest
         /\ \A id \in Oldest(c) : id \in Ids /\ DeleteOf(c, id) \in DeleteRequest
  <1>1. call[c] \in CallState
    BY DEF TypeOK
  <1>2. IdOf(c) \in Ids
    BY <1>1, DiffIdAssumption DEF CallState, IdOf
  <1>3. PutOf(c) \in PutRequest
    BY <1>1, <1>2 DEF PutOf, PutRequest, NextHalf, Halves, CallState
  <1>4. ASSUME NEW id \in Oldest(c)
        PROVE  id \in Ids /\ DeleteOf(c, id) \in DeleteRequest
    <2>1. call[c].listing \subseteq Blob
      BY <1>1 DEF CallState
    <2>2. id \in Ids
      BY <1>4, <2>1 DEF Oldest, Untried, Listed, Blob
    <2>3. {b.half : b \in {d \in call[c].listing : d.id = id}} \subseteq Halves
      BY <2>1 DEF Blob
    <2> QED
      BY <2>2, <2>3 DEF DeleteOf, DeleteRequest
  <1> QED
    BY <1>2, <1>3, <1>4

LEMMA LeavesBehindTyped ==
  ASSUME TypeOK, NEW c \in Calls, LeavesBehind(c)
  PROVE  StoreTyped'
  <1>1. StoreTyped
    BY DEF TypeOK, StoreTyped
  <1>2. CASE UNCHANGED storeVars
    BY <1>1, <1>2 DEF StoreTyped, storeVars
  <1>3. CASE UnsurePut(PutOf(c))
    BY <1>1, <1>3, RequestsTyped, UnsurePutTyped
  <1>4. CASE \E id \in Oldest(c) : UnsureDelete(DeleteOf(c, id))
    BY <1>1, <1>4, RequestsTyped, UnsureDeleteTyped
  <1> QED
    BY <1>2, <1>3, <1>4 DEF LeavesBehind

\* What the steps that end a call, or miss, or write a half do to its state.
LEMMA StepsTyped ==
  ASSUME TypeOK, NEW c \in Calls
  PROVE  /\ GiveUp(c) => call' \in [Calls -> CallState]
         /\ Miss(c) => call' \in [Calls -> CallState]
         /\ Written(c) => call' \in [Calls -> CallState]
         /\ \A missing \in SUBSET Halves : Asked(c, missing) => call' \in [Calls -> CallState]
  <1>1. call \in [Calls -> CallState] /\ call[c] \in CallState
    BY DEF TypeOK
  <1>2. FreshOf(call[c].key) \in Answer /\ Nothing("miss") \in Answer
    BY <1>1, AnswersTyped DEF CallState, Empty
  <1>3. GiveUp(c) => call' \in [Calls -> CallState]
    BY <1>1, <1>2, FinishTyped DEF GiveUp
  <1>4. Miss(c) => call' \in [Calls -> CallState]
    <2>1. [call[c] EXCEPT !.pc = "compute", !.seen = {}] \in CallState
      BY <1>1 DEF CallState, Steps
    <2> QED
      BY <1>1, <1>2, <2>1, FinishTyped, BecomeTyped DEF Miss
  <1>5. Written(c) => call' \in [Calls -> CallState]
    <2> DEFINE rest == call[c].missing \ {NextHalf(call[c].missing)}
    <2>1. [call[c] EXCEPT !.pc = "recheck", !.missing = rest] \in CallState
      BY <1>1 DEF CallState, Steps, Writing
    <2> QED
      BY <1>1, <1>3, <2>1, BecomeTyped DEF Written
  <1>6. ASSUME NEW missing \in SUBSET Halves, Asked(c, missing)
        PROVE  call' \in [Calls -> CallState]
    <2>1. [call[c] EXCEPT !.pc = "list", !.missing = missing] \in CallState
      BY <1>1 DEF CallState, Steps, Writing
    <2> QED
      BY <1>1, <1>3, <1>6, <2>1, BecomeTyped DEF Asked
  <1> QED
    BY <1>3, <1>4, <1>5, <1>6

LEMMA TypeInit == Init => TypeOK
  BY IdleTyped DEF Init, TypeOK, Blob, PutRequest, DeleteRequest

LEMMA TypeNext == TypeOK /\ [Next]_vars => TypeOK'
  <1> SUFFICES ASSUME TypeOK, [Next]_vars
               PROVE  TypeOK'
    OBVIOUS
  <1> USE DEF TypeOK
  <1>1. ASSUME NEW c \in Calls, Start(c)
        PROVE  TypeOK'
    <2>1. PICK k \in Keys, mode \in Modes :
            Become(c, [Idle EXCEPT !.mode = mode, !.key = k,
                                   !.pc = IF mode = "uncached" THEN "compute" ELSE "readMeta"])
      BY <1>1 DEF Start
    <2>2. [Idle EXCEPT !.mode = mode, !.key = k,
                       !.pc = IF mode = "uncached" THEN "compute" ELSE "readMeta"] \in CallState
      BY IdleTyped, ModesAssumption DEF CallState, Steps
    <2> QED
      BY <1>1, <2>1, <2>2, BecomeTyped DEF Start
  <1>2. ASSUME NEW c \in Calls, ReadMeta(c)
        PROVE  TypeOK'
    <2>1. ASSUME NEW m \in blobs
          PROVE  [call[c] EXCEPT !.pc = "readPatches", !.seen = {m.of}] \in CallState
      BY DEF CallState, Steps, Blob
    <2> QED
      BY <1>2, <2>1, BecomeTyped, StepsTyped DEF ReadMeta, At
  <1>3. ASSUME NEW c \in Calls, ReadPatches(c)
        PROVE  TypeOK'
    <2>1. ASSUME NEW p \in blobs
          PROVE  CachedOf(call[c].seen, {p.of}) \in Answer
      BY AnswersTyped DEF CallState, Blob
    <2>2. CachedOf(call[c].seen, {}) \in Answer
      BY AnswersTyped DEF CallState
    <2> QED
      BY <1>3, <2>1, <2>2, FinishTyped, StepsTyped DEF ReadPatches, At
  <1>4. ASSUME NEW c \in Calls, Compute(c)
        PROVE  TypeOK'
    <2>1. [call[c] EXCEPT !.pc = "headMeta"] \in CallState
      BY DEF CallState, Steps, Writing
    <2>2. call[c].key \in Keys /\ FreshOf(call[c].key) \in Answer /\ Nothing("failed") \in Answer
      BY AnswersTyped DEF CallState, Empty
    <2> QED
      BY <1>4, <2>1, <2>2, FinishTyped, BecomeTyped DEF Compute
  <1>5. ASSUME NEW c \in Calls, Head(c)
        PROVE  TypeOK'
    <2>1. ASSUME NEW missing \in SUBSET Halves
          PROVE  [call[c] EXCEPT !.pc = "headPatches", !.missing = missing] \in CallState
      BY DEF CallState, Steps, Writing
    <2>2. /\ call[c].missing \in SUBSET Halves
          /\ call[c].missing \cup {"meta"} \in SUBSET Halves
          /\ call[c].missing \cup {"patches"} \in SUBSET Halves
      BY DEF CallState, Halves
    <2> QED
      BY <1>5, <2>1, <2>2, BecomeTyped, StepsTyped DEF Head
  <1>6. ASSUME NEW c \in Calls, List(c)
        PROVE  TypeOK'
    <2>1. /\ [call[c] EXCEPT !.pc = "recheck"] \in CallState
          /\ [call[c] EXCEPT !.pc = "sweep", !.listing = blobs] \in CallState
      BY DEF CallState, Steps, Writing
    <2> QED
      BY <1>6, <2>1, BecomeTyped, StepsTyped DEF List
  <1>7. ASSUME NEW c \in Calls, Evict(c)
        PROVE  TypeOK'
    <2>1. PICK id \in Oldest(c) :
            /\ UnsureDelete(DeleteOf(c, id))
            /\ \/ Become(c, [call[c] EXCEPT !.listing = {b \in @ : b.id # id}])
               \/ Become(c, [call[c] EXCEPT !.tried = @ \cup {id}])
      BY <1>7, ServedIsUnsure DEF Evict
    <2>2. id \in Ids /\ DeleteOf(c, id) \in DeleteRequest
      BY RequestsTyped
    <2>3. [call[c] EXCEPT !.listing = {b \in @ : b.id # id}] \in CallState
      BY DEF CallState
    <2>4. [call[c] EXCEPT !.tried = @ \cup {id}] \in CallState
      BY <2>2 DEF CallState
    <2> QED
      BY <1>7, <2>1, <2>2, <2>3, <2>4, BecomeTyped, UnsureDeleteTyped DEF Evict, StoreTyped
  <1>8. ASSUME NEW c \in Calls, EndSweep(c)
        PROVE  TypeOK'
    <2>1. [call[c] EXCEPT !.pc = "recheck", !.listing = {}, !.tried = {}] \in CallState
      BY DEF CallState, Steps, Writing
    <2> QED
      BY <1>8, <2>1, BecomeTyped, StepsTyped DEF EndSweep
  <1>9. ASSUME NEW c \in Calls, Recheck(c)
        PROVE  TypeOK'
    <2>1. [call[c] EXCEPT !.pc = "put"] \in CallState
      BY DEF CallState, Steps, Writing
    <2> QED
      BY <1>9, <2>1, BecomeTyped, StepsTyped DEF Recheck
  <1>10. ASSUME NEW c \in Calls, Put(c)
         PROVE  TypeOK'
    BY <1>10, RequestsTyped, ServedIsUnsure, UnsurePutTyped, StepsTyped DEF Put, StoreTyped
  <1>11. ASSUME NEW c \in Calls, DropWrite(c)
         PROVE  TypeOK'
    BY <1>11, LeavesBehindTyped, StepsTyped DEF DropWrite, StoreTyped
  <1>12. ASSUME NEW c \in Calls, OutOfTime(c)
         PROVE  TypeOK'
    <2>1. Nothing("outOfTime") \in Answer
      BY AnswersTyped DEF Empty
    <2> QED
      BY <1>12, <2>1, FinishTyped DEF OutOfTime
  <1>13. ASSUME NEW c \in Calls, Abandon(c)
         PROVE  TypeOK'
    <2>1. Nothing("gone") \in Answer
      BY AnswersTyped DEF Empty
    <2> QED
      BY <1>13, <2>1, LeavesBehindTyped, FinishTyped DEF Abandon, StoreTyped
  <1>14. ASSUME NEW c \in Calls, Return(c)
         PROVE  TypeOK'
    BY <1>14, IdleTyped, BecomeTyped DEF Return
  <1>15. CASE LandPut
    BY <1>15, StoresTyped DEF LandPut, StoreTyped
  <1>16. CASE LandDelete
    BY <1>16, DeletesTyped DEF LandDelete, StoreTyped
  <1>17. CASE LoseRequest
    BY <1>17 DEF LoseRequest
  <1>18. CASE UNCHANGED vars
    BY <1>18 DEF vars
  <1> QED
    BY <1>1, <1>2, <1>3, <1>4, <1>5, <1>6, <1>7, <1>8, <1>9, <1>10, <1>11, <1>12, <1>13,
       <1>14, <1>15, <1>16, <1>17, <1>18 DEF Next, Progress, Quiet

\* Every state the calls, the sweeps, the deadlines and the late requests can
\* reach is well typed, whatever the keys and their sizes.
THEOREM TypeCorrect == Spec => []TypeOK
  BY TypeInit, TypeNext, PTL DEF Spec

------------------------------------------------------------------------------
(***************************************************************************)
(* The inductive invariant.  A store step keeps every blob under the       *)
(* diff_id of the key it was computed for; a call step keeps what it knows *)
(* of its own question; and a call that does not move keeps both, since    *)
(* computed only grows.                                                    *)
(***************************************************************************)
BlobsKept == OnePerPathname /\ KeptWasComputed

LEMMA StoresKeeps ==
  ASSUME StoreTyped, BlobsKept, NEW p \in PutRequest,
         p.of \in computed, p.id = DiffId[p.of],
         Stores(p), latePuts' \subseteq latePuts \cup {p}, computed' = computed
  PROVE  BlobsKept'
  BY DEF StoreTyped, BlobsKept, OnePerPathname, KeptWasComputed, Stores, At, Blob, PutRequest

LEMMA DeletesKeeps ==
  ASSUME BlobsKept, NEW d, Deletes(d), UNCHANGED <<latePuts, computed>>
  PROVE  BlobsKept'
  BY DEF BlobsKept, OnePerPathname, KeptWasComputed, Deletes

LEMMA UnsurePutKeeps ==
  ASSUME StoreTyped, BlobsKept, NEW p \in PutRequest,
         p.of \in computed, p.id = DiffId[p.of],
         UnsurePut(p), computed' = computed
  PROVE  BlobsKept'
  <1>1. latePuts' \subseteq latePuts \cup {p}
    BY DEF UnsurePut, LingerPut
  <1>2. CASE Stores(p)
    BY <1>1, <1>2, StoresKeeps
  <1>3. CASE UNCHANGED <<blobs, uploads>>
    BY <1>1, <1>3 DEF BlobsKept, OnePerPathname, KeptWasComputed
  <1> QED
    BY <1>2, <1>3 DEF UnsurePut

LEMMA UnsureDeleteKeeps ==
  ASSUME BlobsKept, NEW d, UnsureDelete(d), computed' = computed
  PROVE  BlobsKept'
  <1>1. UNCHANGED latePuts
    BY DEF UnsureDelete, LingerDelete
  <1>2. CASE UNCHANGED blobs
    BY <1>1, <1>2 DEF BlobsKept, OnePerPathname, KeptWasComputed
  <1> QED
    BY <1>1, <1>2, DeletesKeeps DEF UnsureDelete

LEMMA LeavesBehindKeeps ==
  ASSUME IInv, NEW c \in Calls, LeavesBehind(c), computed' = computed
  PROVE  BlobsKept'
  <1>1. BlobsKept /\ StoreTyped /\ TypeOK /\ CallInv(c)
    BY DEF IInv, BlobsKept, TypeOK, StoreTyped
  <1>2. CASE UNCHANGED storeVars
    BY <1>1, <1>2 DEF BlobsKept, OnePerPathname, KeptWasComputed, storeVars
  <1>3. CASE call[c].pc = "put" /\ UnsurePut(PutOf(c))
    <2>1. PutOf(c).of \in computed /\ PutOf(c).id = DiffId[PutOf(c).of]
      BY <1>1, <1>3 DEF CallInv, Writing, PutOf, IdOf
    <2> QED
      BY <1>1, <1>3, <2>1, RequestsTyped, UnsurePutKeeps
  <1>4. CASE \E id \in Oldest(c) : UnsureDelete(DeleteOf(c, id))
    BY <1>1, <1>4, UnsureDeleteKeeps
  <1> QED
    BY <1>2, <1>3, <1>4 DEF LeavesBehind

LEMMA StandsStill ==
  ASSUME NEW c \in Calls, CallInv(c), call'[c] = call[c], computed \subseteq computed'
  PROVE  CallInv(c)'
  BY DEF CallInv, Settled, Question, IdOf

LEMMA FinishKeeps ==
  ASSUME TypeOK, NEW c \in Calls, NEW a \in Answer, Finish(c, a), Settled(c, a, computed')
  PROVE  CallInv(c)'
  <1>1. /\ call'[c].pc = "done" /\ call'[c].answer = a
        /\ call'[c].mode = call[c].mode /\ call'[c].key = call[c].key
    BY FinishTyped DEF TypeOK
  <1>2. Settled(c, a, computed)'
    BY <1>1 DEF Settled, Question, IdOf
  <1> QED
    BY <1>1, <1>2 DEF CallInv, Writing

\* A step from one point of a put to the next.
LEMMA StaysWriting ==
  ASSUME IInv, NEW c \in Calls, NEW r \in CallState, Become(c, r), computed' = computed,
         call[c].pc \in Writing, r.pc \in Writing,
         r.key = call[c].key, r.answer = call[c].answer
  PROVE  CallInv(c)'
  <1>1. TypeOK /\ CallInv(c) /\ call'[c] = r
    BY BecomeTyped DEF IInv, TypeOK
  <1> QED
    BY <1>1 DEF CallInv, Writing

\* A put ends in the fresh answer, a miss in an empty one or in a computation.
LEMMA StepsKeep ==
  ASSUME IInv, NEW c \in Calls, computed' = computed
  PROVE  /\ call[c].pc \in Writing /\ GiveUp(c) => CallInv(c)'
         /\ call[c].pc \in Writing /\ Written(c) => CallInv(c)'
         /\ \A missing \in SUBSET Halves :
               call[c].pc \in Writing /\ Asked(c, missing) => CallInv(c)'
         /\ call[c].pc \notin Writing \cup {"done"} /\ Miss(c) => CallInv(c)'
  <1>1. TypeOK /\ CallInv(c) /\ call[c] \in CallState
    BY DEF IInv, TypeOK
  <1>2. ASSUME call[c].pc \in Writing, GiveUp(c)
        PROVE  CallInv(c)'
    <2>1. FreshOf(call[c].key) \in Answer
      BY <1>1, AnswersTyped DEF CallState
    <2>2. Settled(c, FreshOf(call[c].key), computed')
      BY <1>1, <1>2 DEF CallInv, Settled
    <2> QED
      BY <1>1, <1>2, <2>1, <2>2, FinishKeeps DEF GiveUp
  <1>4. ASSUME call[c].pc \in Writing, Written(c)
        PROVE  CallInv(c)'
    <2> DEFINE rest == call[c].missing \ {NextHalf(call[c].missing)}
               r == [call[c] EXCEPT !.pc = "recheck", !.missing = rest]
    <2>1. r \in CallState /\ r.pc \in Writing /\ r.key = call[c].key /\ r.answer = call[c].answer
      BY <1>1 DEF CallState, Steps, Writing
    <2>2. GiveUp(c) \/ Become(c, r)
      BY <1>4 DEF Written
    <2> QED
      BY <1>2, <1>4, <2>1, <2>2, StaysWriting
  <1>5. ASSUME NEW missing \in SUBSET Halves, call[c].pc \in Writing, Asked(c, missing)
        PROVE  CallInv(c)'
    <2> DEFINE r == [call[c] EXCEPT !.pc = "list", !.missing = missing]
    <2>1. r \in CallState /\ r.pc \in Writing /\ r.key = call[c].key /\ r.answer = call[c].answer
      BY <1>1 DEF CallState, Steps, Writing
    <2>2. GiveUp(c) \/ Become(c, r)
      BY <1>5 DEF Asked
    <2> QED
      BY <1>2, <1>5, <2>1, <2>2, StaysWriting
  <1>6. ASSUME call[c].pc \notin Writing \cup {"done"}, Miss(c)
        PROVE  CallInv(c)'
    <2> DEFINE r == [call[c] EXCEPT !.pc = "compute", !.seen = {}]
    <2>1. CASE Finish(c, Nothing("miss"))
      BY <1>1, <2>1, FinishKeeps, AnswersTyped DEF Settled, Empty
    <2>2. CASE Become(c, r)
      <3>1. r \in CallState /\ r.pc = "compute" /\ r.answer = call[c].answer
        BY <1>1 DEF CallState, Steps
      <3>2. call'[c] = r
        BY <1>1, <2>2, <3>1, BecomeTyped DEF TypeOK
      <3> QED
        BY <1>1, <1>6, <3>1, <3>2 DEF CallInv, Writing
    <2> QED
      BY <1>6, <2>1, <2>2 DEF Miss
  <1> QED
    BY <1>2, <1>4, <1>5, <1>6

\* A step of call c that keeps the blobs and what is known of c keeps the invariant.
LEMMA CallStepKeeps ==
  ASSUME IInv, TypeOK', BlobsKept', NEW c \in Calls, CallInv(c)',
         \A d \in Calls \ {c} : call'[d] = call[d], computed \subseteq computed'
  PROVE  IInv'
  <1>1. ASSUME NEW d \in Calls
        PROVE  CallInv(d)'
    BY <1>1, StandsStill DEF IInv
  <1> QED
    BY <1>1 DEF IInv, BlobsKept

LEMMA Unmoved ==
  ASSUME TypeOK, NEW c \in Calls, NEW r, Become(c, r)
  PROVE  \A d \in Calls \ {c} : call'[d] = call[d]
  BY DEF TypeOK, Become

LEMMA StepsMoveOnlyTheirCall ==
  ASSUME TypeOK, NEW c \in Calls
  PROVE  /\ \A a : Finish(c, a) => \A d \in Calls \ {c} : call'[d] = call[d]
         /\ GiveUp(c) => \A d \in Calls \ {c} : call'[d] = call[d]
         /\ Miss(c) => \A d \in Calls \ {c} : call'[d] = call[d]
         /\ Written(c) => \A d \in Calls \ {c} : call'[d] = call[d]
         /\ \A missing : Asked(c, missing) => \A d \in Calls \ {c} : call'[d] = call[d]
  BY Unmoved DEF Finish, GiveUp, Miss, Written, Asked

LEMMA InvInit == Init => IInv
  BY TypeInit DEF Init, IInv, OnePerPathname, KeptWasComputed, CallInv, Idle, Writing

LEMMA InvNext == IInv /\ [Next]_vars => IInv'
  <1> SUFFICES ASSUME IInv, [Next]_vars
               PROVE  IInv'
    OBVIOUS
  <1>a. TypeOK /\ TypeOK' /\ StoreTyped /\ BlobsKept
    BY TypeNext DEF IInv, BlobsKept, StoreTyped, TypeOK
  <1>b. ASSUME NEW c \in Calls
        PROVE  call[c] \in CallState /\ CallInv(c)
    BY <1>a DEF IInv, TypeOK
  \* The steps that leave the store as it is.
  <1>c. UNCHANGED <<blobs, latePuts>> /\ computed \subseteq computed' => BlobsKept'
    BY <1>a DEF BlobsKept, OnePerPathname, KeptWasComputed
  <1>1. ASSUME NEW c \in Calls, Start(c)
        PROVE  IInv'
    <2>1. PICK k \in Keys, mode \in Modes :
            Become(c, [Idle EXCEPT !.mode = mode, !.key = k,
                                   !.pc = IF mode = "uncached" THEN "compute" ELSE "readMeta"])
      BY <1>1 DEF Start
    <2> DEFINE r == [Idle EXCEPT !.mode = mode, !.key = k,
                                 !.pc = IF mode = "uncached" THEN "compute" ELSE "readMeta"]
    <2>2. r \in CallState /\ r.pc \in {"compute", "readMeta"} /\ r.answer = NoAnswer
      BY IdleTyped, ModesAssumption DEF CallState, Steps, Idle
    <2>3. call'[c] = r
      BY <1>a, <2>1, <2>2, BecomeTyped DEF TypeOK
    <2>4. CallInv(c)'
      BY <2>2, <2>3 DEF CallInv, Writing
    <2> QED
      BY <1>a, <1>c, <1>1, <2>1, <2>4, Unmoved, CallStepKeeps DEF Start
  <1>2. ASSUME NEW c \in Calls, ReadMeta(c)
        PROVE  IInv'
    <2>1. CASE Miss(c)
      <3>1. CallInv(c)'
        BY <1>2, <2>1, StepsKeep DEF ReadMeta, Writing
      <3> QED
        BY <1>a, <1>c, <1>2, <2>1, <3>1, StepsMoveOnlyTheirCall, CallStepKeeps DEF ReadMeta
    <2>2. CASE \E m \in {m \in At(blobs, IdOf(c), "meta") : Matches(c, m)} :
                  Become(c, [call[c] EXCEPT !.pc = "readPatches", !.seen = {m.of}])
      <3>1. PICK m \in blobs :
              /\ m.id = IdOf(c) /\ Matches(c, m)
              /\ Become(c, [call[c] EXCEPT !.pc = "readPatches", !.seen = {m.of}])
        BY <2>2 DEF At
      <3> DEFINE r == [call[c] EXCEPT !.pc = "readPatches", !.seen = {m.of}]
      <3>2. m.of \in Keys /\ m.of \in computed
        BY <1>a DEF BlobsKept, KeptWasComputed, TypeOK, Blob
      <3>3. m.of \in Question(c)
        BY <1>b, <3>1, <3>2 DEF Matches, Question
      <3>4. /\ r \in CallState /\ r.pc = "readPatches" /\ r.seen = {m.of}
            /\ r.answer = call[c].answer /\ r.key = call[c].key /\ r.mode = call[c].mode
        BY <1>b, <3>2 DEF CallState, Steps
      <3>5. call'[c] = r
        BY <1>a, <3>1, <3>4, BecomeTyped DEF TypeOK
      <3>6. Question(c)' = Question(c)
        BY <3>4, <3>5 DEF Question, IdOf
      <3>7. computed' = computed /\ call[c].answer = NoAnswer
        BY <1>b, <1>2 DEF ReadMeta, CallInv
      <3>8. CallInv(c)'
        BY <3>2, <3>3, <3>4, <3>5, <3>6, <3>7 DEF CallInv, Writing
      <3> QED
        BY <1>a, <1>c, <1>2, <3>1, <3>8, Unmoved, CallStepKeeps DEF ReadMeta
    <2> QED
      BY <1>2, <2>1, <2>2 DEF ReadMeta
  <1>3. ASSUME NEW c \in Calls, ReadPatches(c)
        PROVE  IInv'
    <2>1. PICK k \in Question(c) \cap computed : call[c].seen = {k}
      BY <1>b, <1>3 DEF CallInv, ReadPatches
    <2>2. k \in Keys /\ DiffId[k] = IdOf(c)
      BY <1>b, <2>1 DEF Question, IdOf, CallState
    <2>3. CASE Miss(c)
      <3>1. CallInv(c)'
        BY <1>3, <2>3, StepsKeep DEF ReadPatches, Writing
      <3> QED
        BY <1>a, <1>c, <1>3, <2>3, <3>1, StepsMoveOnlyTheirCall, CallStepKeeps DEF ReadPatches
    <2>4. ASSUME NEW a \in Answer, Finish(c, a), a.kind = "cached", a.tree = {k}, Coherent(a),
                 a.patches \subseteq computed
          PROVE  IInv'
      <3>1. Settled(c, a, computed')
        BY <1>3, <2>1, <2>4 DEF Settled, ReadPatches
      <3>2. CallInv(c)'
        BY <1>a, <2>4, <3>1, FinishKeeps
      <3> QED
        BY <1>a, <1>c, <1>3, <2>4, <3>2, StepsMoveOnlyTheirCall, CallStepKeeps DEF ReadPatches
    <2>5. ASSUME NEW p \in At(blobs, IdOf(c), "patches"), Finish(c, CachedOf({k}, {p.of}))
          PROVE  IInv'
      <3>1. p.of \in Keys /\ p.of \in computed /\ DiffId[p.of] = IdOf(c)
        BY <1>a DEF At, BlobsKept, KeptWasComputed, TypeOK, Blob
      <3>2. Coherent(CachedOf({k}, {p.of})) /\ CachedOf({k}, {p.of}) \in Answer
        BY <2>2, <3>1, AnswersTyped DEF Coherent, CachedOf
      <3> QED
        BY <2>4, <2>5, <3>1, <3>2 DEF CachedOf
    <2>6. ASSUME {k} \subseteq Omitting, Finish(c, CachedOf({k}, {}))
          PROVE  IInv'
      <3>1. Coherent(CachedOf({k}, {})) /\ CachedOf({k}, {}) \in Answer
        BY <2>2, <2>6, AnswersTyped DEF Coherent, CachedOf
      <3> QED
        BY <2>4, <2>6, <3>1 DEF CachedOf
    <2> QED
      BY <1>3, <2>1, <2>3, <2>5, <2>6 DEF ReadPatches
  <1>4. ASSUME NEW c \in Calls, Compute(c)
        PROVE  IInv'
    <2>1. computed \subseteq computed'
      BY <1>4 DEF Compute
    <2>2. call[c].key \in Keys /\ call[c].answer = NoAnswer
      BY <1>b, <1>4 DEF CallState, CallInv, Compute
    <2>3. CASE Finish(c, Nothing("failed"))
      <3>1. CallInv(c)'
        BY <1>a, <2>3, FinishKeeps, AnswersTyped DEF Settled, Empty
      <3> QED
        BY <1>a, <1>c, <1>4, <2>1, <2>3, <3>1, StepsMoveOnlyTheirCall, CallStepKeeps DEF Compute
    <2>4. CASE computed' = computed \cup {call[c].key} /\ Finish(c, FreshOf(call[c].key))
      <3>1. CallInv(c)'
        BY <1>a, <2>2, <2>4, FinishKeeps, AnswersTyped DEF Settled
      <3> QED
        BY <1>a, <1>c, <1>4, <2>1, <2>4, <3>1, StepsMoveOnlyTheirCall, CallStepKeeps DEF Compute
    <2>5. CASE /\ computed' = computed \cup {call[c].key}
               /\ Become(c, [call[c] EXCEPT !.pc = "headMeta"])
      <3> DEFINE r == [call[c] EXCEPT !.pc = "headMeta"]
      <3>1. r \in CallState /\ r.pc = "headMeta" /\ r.key = call[c].key /\ r.answer = NoAnswer
        BY <1>b, <2>2 DEF CallState, Steps, Writing
      <3>2. call'[c] = r
        BY <1>a, <2>5, <3>1, BecomeTyped DEF TypeOK
      <3>3. CallInv(c)'
        BY <2>5, <3>1, <3>2 DEF CallInv, Writing
      <3> QED
        BY <1>a, <1>c, <1>4, <2>1, <2>5, <3>3, Unmoved, CallStepKeeps DEF Compute
    <2> QED
      BY <1>4, <2>3, <2>4, <2>5 DEF Compute
  <1>5. ASSUME NEW c \in Calls, Head(c)
        PROVE  IInv'
    <2>1. call[c].pc \in Writing /\ computed' = computed /\ UNCHANGED <<blobs, latePuts>>
      BY <1>5 DEF Head, Writing
    <2>2. PICK missing \in SUBSET Halves :
            \/ Become(c, [call[c] EXCEPT !.pc = "headPatches", !.missing = missing])
            \/ Asked(c, missing)
            \/ GiveUp(c)
      <3>1. /\ call[c].missing \in SUBSET Halves
            /\ call[c].missing \cup {"meta"} \in SUBSET Halves
            /\ call[c].missing \cup {"patches"} \in SUBSET Halves
        BY <1>b DEF CallState, Halves
      <3> QED
        BY <1>5, <3>1 DEF Head
    <2> DEFINE r == [call[c] EXCEPT !.pc = "headPatches", !.missing = missing]
    <2>3. r \in CallState /\ r.pc \in Writing /\ r.key = call[c].key /\ r.answer = call[c].answer
      BY <1>b DEF CallState, Steps, Writing
    <2>4. CallInv(c)'
      BY <2>1, <2>2, <2>3, StaysWriting, StepsKeep
    <2>5. \A d \in Calls \ {c} : call'[d] = call[d]
      BY <1>a, <2>2, Unmoved, StepsMoveOnlyTheirCall
    <2> QED
      BY <1>a, <1>c, <2>1, <2>4, <2>5, CallStepKeeps
  <1>6. ASSUME NEW c \in Calls, List(c)
        PROVE  IInv'
    <2>1. call[c].pc \in Writing /\ computed' = computed /\ UNCHANGED <<blobs, latePuts>>
      BY <1>6 DEF List, Writing
    <2> DEFINE r == [call[c] EXCEPT !.pc = "recheck"]
               s == [call[c] EXCEPT !.pc = "sweep", !.listing = blobs]
    <2>2. Become(c, r) \/ Become(c, s) \/ GiveUp(c)
      BY <1>6 DEF List
    <2>3. r \in CallState /\ r.pc \in Writing /\ r.key = call[c].key /\ r.answer = call[c].answer
      BY <1>b DEF CallState, Steps, Writing
    <2>4. s \in CallState /\ s.pc \in Writing /\ s.key = call[c].key /\ s.answer = call[c].answer
      BY <1>a, <1>b DEF CallState, Steps, Writing, TypeOK
    <2>5. CallInv(c)'
      BY <2>1, <2>2, <2>3, <2>4, StaysWriting, StepsKeep
    <2>6. \A d \in Calls \ {c} : call'[d] = call[d]
      BY <1>a, <2>2, Unmoved, StepsMoveOnlyTheirCall
    <2> QED
      BY <1>a, <1>c, <2>1, <2>5, <2>6, CallStepKeeps
  <1>7. ASSUME NEW c \in Calls, Evict(c)
        PROVE  IInv'
    <2>1. call[c].pc \in Writing /\ computed' = computed
      BY <1>7 DEF Evict, Writing
    <2>2. PICK id \in Oldest(c) :
            /\ UnsureDelete(DeleteOf(c, id))
            /\ \/ Become(c, [call[c] EXCEPT !.listing = {b \in @ : b.id # id}])
               \/ Become(c, [call[c] EXCEPT !.tried = @ \cup {id}])
      BY <1>7, ServedIsUnsure DEF Evict
    <2> DEFINE r == [call[c] EXCEPT !.listing = {b \in @ : b.id # id}]
               s == [call[c] EXCEPT !.tried = @ \cup {id}]
    <2>3. r \in CallState /\ r.pc = call[c].pc /\ r.key = call[c].key /\ r.answer = call[c].answer
      BY <1>b DEF CallState
    <2>4. s \in CallState /\ s.pc = call[c].pc /\ s.key = call[c].key /\ s.answer = call[c].answer
      BY <1>a, <1>b, RequestsTyped DEF CallState
    <2>5. CallInv(c)'
      BY <2>1, <2>2, <2>3, <2>4, StaysWriting
    <2>6. \A d \in Calls \ {c} : call'[d] = call[d]
      BY <1>a, <2>2, Unmoved
    <2>7. BlobsKept'
      BY <1>a, <2>1, <2>2, UnsureDeleteKeeps
    <2> QED
      BY <1>a, <2>1, <2>5, <2>6, <2>7, CallStepKeeps
  <1>8. ASSUME NEW c \in Calls, EndSweep(c)
        PROVE  IInv'
    <2>1. call[c].pc \in Writing /\ computed' = computed /\ UNCHANGED <<blobs, latePuts>>
      BY <1>8 DEF EndSweep, Writing
    <2> DEFINE r == [call[c] EXCEPT !.pc = "recheck", !.listing = {}, !.tried = {}]
    <2>2. Become(c, r) \/ GiveUp(c)
      BY <1>8 DEF EndSweep
    <2>3. r \in CallState /\ r.pc \in Writing /\ r.key = call[c].key /\ r.answer = call[c].answer
      BY <1>b DEF CallState, Steps, Writing
    <2>4. CallInv(c)'
      BY <2>1, <2>2, <2>3, StaysWriting, StepsKeep
    <2>5. \A d \in Calls \ {c} : call'[d] = call[d]
      BY <1>a, <2>2, Unmoved, StepsMoveOnlyTheirCall
    <2> QED
      BY <1>a, <1>c, <2>1, <2>4, <2>5, CallStepKeeps
  <1>9. ASSUME NEW c \in Calls, Recheck(c)
        PROVE  IInv'
    <2>1. call[c].pc \in Writing /\ computed' = computed /\ UNCHANGED <<blobs, latePuts>>
      BY <1>9 DEF Recheck, Writing
    <2> DEFINE r == [call[c] EXCEPT !.pc = "put"]
    <2>2. Become(c, r) \/ Written(c)
      BY <1>9 DEF Recheck
    <2>3. r \in CallState /\ r.pc \in Writing /\ r.key = call[c].key /\ r.answer = call[c].answer
      BY <1>b DEF CallState, Steps, Writing
    <2>4. CallInv(c)'
      BY <2>1, <2>2, <2>3, StaysWriting, StepsKeep
    <2>5. \A d \in Calls \ {c} : call'[d] = call[d]
      BY <1>a, <2>2, Unmoved, StepsMoveOnlyTheirCall
    <2> QED
      BY <1>a, <1>c, <2>1, <2>4, <2>5, CallStepKeeps
  <1>10. ASSUME NEW c \in Calls, Put(c)
         PROVE  IInv'
    <2>1. call[c].pc = "put" /\ call[c].pc \in Writing /\ computed' = computed /\ Written(c)
      BY <1>10 DEF Put, Writing
    <2>2. LeavesBehind(c)
      BY <1>10, ServedIsUnsure DEF Put, LeavesBehind
    <2>3. BlobsKept'
      BY <1>a, <2>1, <2>2, LeavesBehindKeeps
    <2> QED
      BY <1>a, <2>1, <2>3, StepsKeep, StepsMoveOnlyTheirCall, CallStepKeeps
  <1>11. ASSUME NEW c \in Calls, DropWrite(c)
         PROVE  IInv'
    <2>1. call[c].pc \in Writing /\ computed' = computed /\ LeavesBehind(c) /\ GiveUp(c)
      BY <1>11 DEF DropWrite
    <2> QED
      BY <1>a, <2>1, LeavesBehindKeeps, StepsKeep, StepsMoveOnlyTheirCall, CallStepKeeps
  <1>12. ASSUME NEW c \in Calls, NEW kind \in Empty, Finish(c, Nothing(kind)),
                LeavesBehind(c), computed' = computed
         PROVE  IInv'
    <2>1. CallInv(c)'
      BY <1>a, <1>12, FinishKeeps, AnswersTyped DEF Settled
    <2> QED
      BY <1>a, <1>12, <2>1, LeavesBehindKeeps, StepsMoveOnlyTheirCall, CallStepKeeps
  <1>13. ASSUME NEW c \in Calls, OutOfTime(c) \/ Abandon(c)
         PROVE  IInv'
    BY <1>12, <1>13 DEF OutOfTime, Abandon, LeavesBehind, storeVars, Empty
  <1>14. ASSUME NEW c \in Calls, Return(c)
         PROVE  IInv'
    <2>1. call'[c] = Idle
      BY <1>a, <1>14, IdleTyped, BecomeTyped DEF TypeOK, Return
    <2>2. CallInv(c)'
      BY <2>1 DEF CallInv, Idle, Writing
    <2> QED
      BY <1>a, <1>c, <1>14, <2>2, Unmoved, CallStepKeeps DEF Return
  <1>15. ASSUME BlobsKept', UNCHANGED <<call, computed>>
         PROVE  IInv'
    BY <1>a, <1>15, StandsStill DEF IInv, BlobsKept
  <1>16. CASE LandPut
    <2>1. PICK p \in latePuts : Stores(p) /\ latePuts' = latePuts \ {p}
      BY <1>16 DEF LandPut
    <2>2. p \in PutRequest /\ p.of \in computed /\ p.id = DiffId[p.of]
      BY <1>a DEF BlobsKept, KeptWasComputed, StoreTyped
    <2>3. BlobsKept'
      BY <1>a, <1>16, <2>1, <2>2, StoresKeeps DEF LandPut
    <2> QED
      BY <1>15, <1>16, <2>3 DEF LandPut
  <1>17. CASE LandDelete
    BY <1>a, <1>15, <1>17, DeletesKeeps DEF LandDelete
  <1>18. CASE LoseRequest
    <2>1. BlobsKept'
      BY <1>a, <1>18 DEF LoseRequest, BlobsKept, OnePerPathname, KeptWasComputed
    <2> QED
      BY <1>15, <1>18, <2>1 DEF LoseRequest
  <1>19. CASE UNCHANGED vars
    BY <1>c, <1>15, <1>19 DEF vars
  <1> QED
    BY <1>1, <1>2, <1>3, <1>4, <1>5, <1>6, <1>7, <1>8, <1>9, <1>10, <1>11, <1>13,
       <1>14, <1>16, <1>17, <1>18, <1>19 DEF Next, Progress, Quiet

\* What the store holds was computed for a key of the diff_id it is kept under, and
\* what each call has read or is about to answer belongs to its own question.
THEOREM Invariance == Spec => []IInv
  <1>1. IInv /\ [Next]_vars => IInv'
    BY InvNext
  <1> QED
    BY <1>1, InvInit, PTL DEF Spec

\* No lookup serves what is put together from two diff_ids, or has the tree of
\* another question, or is half an entry that does not say so: for any number of
\* calls, keys and late requests, and whichever keys share a diff_id.
THEOREM ServesCoherently == Spec => []ServesWhatWasAsked
  <1>1. IInv => ServesWhatWasAsked
    <2> SUFFICES ASSUME IInv, NEW c \in Calls, call[c].answer.kind = "cached"
                 PROVE  /\ Coherent(call[c].answer)
                        /\ call[c].answer.tree \subseteq Question(c)
                        /\ call[c].answer.tree \cup call[c].answer.patches \subseteq computed
      BY DEF ServesWhatWasAsked
    <2>1. call[c].pc = "done"
      BY DEF IInv, CallInv, NoAnswer
    <2>2. Settled(c, call[c].answer, computed)
      BY <2>1 DEF IInv, CallInv
    <2> QED
      BY <2>2 DEF Settled, FreshOf, Nothing, Empty
  <1>2. Spec => []IInv
    BY Invariance
  <1> QED
    BY <1>1, <1>2, PTL

\* The tree and the patches a lookup serves are of one comparison where no two keys
\* share a diff_id: keys that do are all that StoreMixes rests on.
THEOREM ServesOneAlone == DistinctIds => (Spec => []ServesOneComparison)
  <1> SUFFICES ASSUME DistinctIds
               PROVE  Spec => []ServesOneComparison
    OBVIOUS
  <1>1. ServesWhatWasAsked => ServesOneComparison
    BY DEF ServesWhatWasAsked, ServesOneComparison, Coherent, DistinctIds
  <1>2. Spec => []ServesWhatWasAsked
    BY ServesCoherently
  <1> QED
    BY <1>1, <1>2, PTL

\* The upload time eviction runs in is never renewed: a blob stays the one first
\* written at its pathname, for any number of calls that write it at once, over a
\* store that refuses to overwrite.
THEOREM UploadsStay == ~Replaces => (Spec => UploadsAreNotRenewed)
  <1> SUFFICES ASSUME ~Replaces
               PROVE  Spec => UploadsAreNotRenewed
    OBVIOUS
  <1> DEFINE Stay == \A b \in blobs, d \in blobs' : b.id = d.id /\ b.half = d.half => b = d
  <1>1. ASSUME NEW p, OnePerPathname, Stores(p)
        PROVE  Stay
    BY <1>1 DEF Stores, At, OnePerPathname
  <1>2. ASSUME OnePerPathname, blobs' \subseteq blobs
        PROVE  Stay
    BY <1>2 DEF OnePerPathname
  <1>3. IInv /\ [Next]_vars => [Stay]_vars
    <2> SUFFICES ASSUME IInv, [Next]_vars
                 PROVE  Stay
      OBVIOUS
    <2>1. OnePerPathname
      BY DEF IInv
    <2>2. ASSUME NEW p, UnsurePut(p)
          PROVE  Stay
      BY <1>1, <1>2, <2>1, <2>2 DEF UnsurePut
    <2>3. ASSUME NEW d, UnsureDelete(d)
          PROVE  Stay
      BY <1>2, <2>1, <2>3 DEF UnsureDelete, Deletes
    <2>4. ASSUME NEW c \in Calls, LeavesBehind(c)
          PROVE  Stay
      BY <1>2, <2>1, <2>2, <2>3, <2>4 DEF LeavesBehind, storeVars
    <2>5. ASSUME NEW c \in Calls, Evict(c)
          PROVE  Stay
      BY <2>3, <2>5, ServedIsUnsure DEF Evict
    <2>6. ASSUME NEW c \in Calls, Put(c)
          PROVE  Stay
      BY <2>2, <2>6, ServedIsUnsure DEF Put
    <2>7. ASSUME NEW c \in Calls, DropWrite(c) \/ Abandon(c)
          PROVE  Stay
      BY <2>4, <2>7 DEF DropWrite, Abandon
    <2>8. CASE LandPut \/ LandDelete \/ LoseRequest
      BY <1>1, <1>2, <2>1, <2>8 DEF LandPut, LandDelete, Deletes, LoseRequest
    <2>9. ASSUME NEW c \in Calls,
                 \/ Start(c) \/ ReadMeta(c) \/ ReadPatches(c) \/ Compute(c) \/ Head(c)
                 \/ List(c) \/ EndSweep(c) \/ Recheck(c) \/ OutOfTime(c) \/ Return(c)
          PROVE  Stay
      <3>1. UNCHANGED blobs
        BY <2>9 DEF Start, ReadMeta, ReadPatches, Compute, Head, List, EndSweep, Recheck,
                    OutOfTime, Return
      <3> QED
        BY <1>2, <2>1, <3>1
    <2>10. CASE UNCHANGED vars
      BY <1>2, <2>1, <2>10 DEF vars
    <2> QED
      BY <2>5, <2>6, <2>7, <2>8, <2>9, <2>10 DEF Next, Progress, Quiet
  <1>4. Spec => []IInv
    BY Invariance
  <1> QED
    BY <1>3, <1>4, PTL DEF Spec, UploadsAreNotRenewed

------------------------------------------------------------------------------
(***************************************************************************)
(* One call at a time, with nothing late on the wire.  What a sweep has    *)
(* left of its listing is then the store, but for the entries whose delete *)
(* it has seen fail; and between a miss and the work it leads to nothing   *)
(* is written.                                                             *)
(***************************************************************************)
OneAtATime == (\A c, d \in Calls : c = d) /\ MaxLate = 0

NothingLate == latePuts = {} /\ lateDeletes = {}

ListingIsTheStore(c) ==
  call[c].pc = "sweep" =>
    /\ blobs \subseteq call[c].listing
    /\ \A b \in call[c].listing : b.id \notin call[c].tried => b \in blobs

AloneInv ==
  /\ TypeOK
  /\ NothingLate
  /\ \A c \in Calls : ListingIsTheStore(c)

\* The steps that leave the store as it is.
Looks(c) ==
  \/ Start(c) \/ ReadMeta(c) \/ ReadPatches(c) \/ Compute(c) \/ Head(c)
  \/ List(c) \/ EndSweep(c) \/ Recheck(c) \/ OutOfTime(c) \/ Return(c)

\* The steps that may delete the oldest entry of a listing, and those that may put.
Drops(c) ==
  /\ call[c].pc = "sweep"
  /\ \E id \in Oldest(c) :
       blobs' \in {blobs, {b \in blobs : ~(b.id = id /\ b.half \in DeleteOf(c, id).halves)}}
Adds(c) ==
  call[c].pc = "put" /\ (Stores(PutOf(c)) \/ UNCHANGED blobs)

LEMMA NoRoom ==
  ASSUME OneAtATime, NothingLate
  PROVE  ~RoomForLate
  BY FS_EmptySet DEF OneAtATime, NothingLate, RoomForLate

LEMMA RequestsAlone ==
  ASSUME OneAtATime, NothingLate
  PROVE  /\ \A p : UnsurePut(p) => NothingLate' /\ (Stores(p) \/ UNCHANGED blobs)
         /\ \A d : UnsureDelete(d) => NothingLate' /\ (Deletes(d) \/ UNCHANGED blobs)
  BY NoRoom DEF UnsurePut, UnsureDelete, LingerPut, LingerDelete, NothingLate

LEMMA LeavesBehindAlone ==
  ASSUME OneAtATime, NothingLate, NEW c \in Calls, LeavesBehind(c)
  PROVE  NothingLate' /\ (Drops(c) \/ Adds(c) \/ UNCHANGED blobs)
  <1>1. CASE UNCHANGED storeVars
    BY <1>1 DEF NothingLate, storeVars
  <1>2. CASE call[c].pc = "put" /\ UnsurePut(PutOf(c))
    BY <1>2, RequestsAlone DEF Adds
  <1>3. CASE call[c].pc = "sweep" /\ \E id \in Oldest(c) : UnsureDelete(DeleteOf(c, id))
    BY <1>3, RequestsAlone DEF Drops, Deletes, DeleteOf
  <1> QED
    BY <1>1, <1>2, <1>3 DEF LeavesBehind

\* Every step looks, drops an entry, puts a blob, or lands what is not there to land.
LEMMA StepsAlone ==
  ASSUME OneAtATime, NothingLate, [Next]_vars
  PROVE  /\ NothingLate'
         /\ \/ UNCHANGED <<blobs, call>>
            \/ \E c \in Calls : (Looks(c) /\ UNCHANGED blobs) \/ Drops(c) \/ Adds(c)
                                 \/ (UNCHANGED blobs /\ (DropWrite(c) \/ Abandon(c)))
  <1>1. ASSUME NEW c \in Calls, Looks(c)
        PROVE  UNCHANGED <<blobs, latePuts, lateDeletes>>
    BY <1>1 DEF Looks, Start, ReadMeta, ReadPatches, Compute, Head, List, EndSweep, Recheck,
                OutOfTime, Return
  <1>2. ASSUME NEW c \in Calls, Evict(c)
        PROVE  NothingLate' /\ Drops(c)
    <2>1. PICK id \in Oldest(c) : UnsureDelete(DeleteOf(c, id))
      BY <1>2, ServedIsUnsure DEF Evict
    <2> QED
      BY <1>2, <2>1, RequestsAlone DEF Evict, Drops, Deletes, DeleteOf
  <1>3. ASSUME NEW c \in Calls, Put(c)
        PROVE  NothingLate' /\ Adds(c)
    BY <1>3, ServedIsUnsure, RequestsAlone DEF Put, Adds
  <1>4. ASSUME NEW c \in Calls, DropWrite(c) \/ Abandon(c)
        PROVE  NothingLate' /\ (Drops(c) \/ Adds(c) \/ UNCHANGED blobs)
    BY <1>4, LeavesBehindAlone DEF DropWrite, Abandon
  <1>5. ~LandPut /\ ~LandDelete /\ ~LoseRequest
    BY DEF NothingLate, LandPut, LandDelete, LoseRequest
  <1>6. CASE UNCHANGED vars
    BY <1>6 DEF NothingLate, vars
  <1>7. CASE \E c \in Calls : Start(c) \/ Progress(c) \/ DropWrite(c) \/ OutOfTime(c) \/ Abandon(c)
    <2>1. PICK c \in Calls : Looks(c) \/ Evict(c) \/ Put(c) \/ DropWrite(c) \/ Abandon(c)
      BY <1>7 DEF Progress, Looks
    <2> QED
      BY <1>1, <1>2, <1>3, <1>4, <2>1 DEF NothingLate
  <1> QED
    BY <1>5, <1>6, <1>7 DEF Next, Quiet

\* What has its answer does nothing else.
LEMMA FinishIsDone ==
  ASSUME TypeOK, NEW c \in Calls, NEW a, Finish(c, a)
  PROVE  call'[c].pc = "done"
  BY DEF TypeOK, Finish, Become, Idle

\* A step out of a sweep, or into one.
LEMMA SweepsAlone ==
  ASSUME TypeOK, NEW c \in Calls, [Next]_vars, \A d \in Calls : d = c, call'[c].pc = "sweep"
  PROVE  \/ UNCHANGED <<blobs, call>>
         \/ LandPut \/ LandDelete \/ LoseRequest
         \/ call'[c].listing = blobs /\ UNCHANGED blobs
         \/ Evict(c)
  <1>1. ASSUME NEW r, Become(c, r)
        PROVE  call'[c] = r
    BY <1>1 DEF Become, TypeOK
  <1>2. \A a : ~Finish(c, a)
    BY FinishIsDone
  <1>3. \A d \in Calls : d = c
    OBVIOUS
  <1>a. call[c] \in CallState
    BY DEF TypeOK
  <1>4. ~Miss(c) /\ ~Written(c) /\ ~GiveUp(c) /\ (\A missing : ~Asked(c, missing))
    BY <1>1, <1>2, <1>a DEF Miss, Written, GiveUp, Asked, CallState
  <1>5. ~Start(c)
    BY <1>1 DEF Start, Idle
  <1>6. ~ReadMeta(c) /\ ~ReadPatches(c)
    BY <1>1, <1>2, <1>4, <1>a DEF ReadMeta, ReadPatches, CallState
  <1>7. ~Compute(c) /\ ~Head(c)
    BY <1>1, <1>2, <1>4, <1>a DEF Compute, Head, CallState
  <1>8. ~EndSweep(c) /\ ~Recheck(c) /\ ~Put(c)
    BY <1>1, <1>2, <1>4, <1>a DEF EndSweep, Recheck, Put, CallState
  <1>9. ~DropWrite(c) /\ ~OutOfTime(c) /\ ~Abandon(c) /\ ~Return(c)
    BY <1>1, <1>2, <1>4 DEF DropWrite, OutOfTime, Abandon, Return, Idle
  <1>10. List(c) => call'[c].listing = blobs /\ UNCHANGED blobs
    BY <1>1, <1>4, <1>a DEF List, CallState
  <1> QED
    BY <1>3, <1>5, <1>6, <1>7, <1>8, <1>9, <1>10 DEF Next, Progress, Quiet, vars

LEMMA AloneNext ==
  ASSUME OneAtATime, AloneInv, [Next]_vars
  PROVE  AloneInv'
  <1>1. TypeOK' /\ NothingLate'
    BY TypeNext, StepsAlone DEF AloneInv
  <1>2. ASSUME NEW c \in Calls, call'[c].pc = "sweep"
        PROVE  /\ blobs' \subseteq call'[c].listing
               /\ \A b \in call'[c].listing : b.id \notin call'[c].tried => b \in blobs'
    <2>1. \A d \in Calls : d = c
      BY DEF OneAtATime
    <2>2. ~LandPut /\ ~LandDelete /\ ~LoseRequest
      BY DEF AloneInv, NothingLate, LandPut, LandDelete, LoseRequest
    <2>3. CASE UNCHANGED <<blobs, call>>
      BY <1>2, <2>3 DEF AloneInv, ListingIsTheStore
    <2>4. CASE call'[c].listing = blobs /\ UNCHANGED blobs
      BY <2>4
    <2>5. CASE Evict(c)
      <3>1. /\ blobs \subseteq call[c].listing
            /\ \A b \in call[c].listing : b.id \notin call[c].tried => b \in blobs
        BY <2>5 DEF Evict, AloneInv, ListingIsTheStore
      <3>2. PICK id \in Oldest(c) :
              \/ /\ ServedDelete(DeleteOf(c, id))
                 /\ Become(c, [call[c] EXCEPT !.listing = {b \in @ : b.id # id}])
              \/ /\ UnsureDelete(DeleteOf(c, id))
                 /\ Become(c, [call[c] EXCEPT !.tried = @ \cup {id}])
        BY <2>5 DEF Evict
      <3>a. call[c] \in CallState /\ call \in [Calls -> CallState]
        BY DEF AloneInv, TypeOK
      <3>3. CASE /\ Deletes(DeleteOf(c, id))
                 /\ Become(c, [call[c] EXCEPT !.listing = {b \in @ : b.id # id}])
        <4>1. call'[c].listing = {b \in call[c].listing : b.id # id} /\ call'[c].tried = call[c].tried
          BY <3>a, <3>3 DEF Become, CallState
        <4>2. blobs' = {b \in blobs : b.id # id}
          BY <3>1, <3>3 DEF Deletes, DeleteOf
        <4> QED
          BY <3>1, <4>1, <4>2
      <3>4. CASE /\ Deletes(DeleteOf(c, id)) \/ UNCHANGED blobs
                 /\ Become(c, [call[c] EXCEPT !.tried = @ \cup {id}])
        <4>1. call'[c].listing = call[c].listing /\ call'[c].tried = call[c].tried \cup {id}
          BY <3>a, <3>4 DEF Become, CallState
        <4>2. blobs' \subseteq blobs /\ \A b \in blobs : b.id # id => b \in blobs'
          BY <3>4 DEF Deletes, DeleteOf
        <4> QED
          BY <3>1, <4>1, <4>2
      <3> QED
        BY <3>2, <3>3, <3>4 DEF ServedDelete, UnsureDelete
    <2> QED
      BY <1>2, <2>1, <2>2, <2>3, <2>4, <2>5, SweepsAlone DEF AloneInv
  <1> QED
    BY <1>1, <1>2 DEF AloneInv, ListingIsTheStore

LEMMA AloneInit == Init => AloneInv
  BY TypeInit DEF Init, AloneInv, NothingLate, ListingIsTheStore, Idle

\* What leaves the store is one whole entry, and no entry that stays is older:
\* for every set of keys and sizes and every failed delete, one call at a time
\* over a store that refuses to overwrite.
THEOREM SweepTakesTheOldest == OneAtATime /\ ~Replaces => (Spec => EvictsOldestWhole)
  <1> SUFFICES ASSUME OneAtATime, ~Replaces
               PROVE  Spec => EvictsOldestWhole
    OBVIOUS
  <1> DEFINE Oldest1st ==
        \A b \in blobs \ blobs', d \in blobs \cap blobs' :
          /\ b.id # d.id
          /\ Older(blobs, b.id, d.id) \/ \E c \in Calls : d.id \in call[c].tried
  <1>1. ASSUME AloneInv, [Next]_vars
        PROVE  [Oldest1st]_vars
    <2>1. CASE blobs \subseteq blobs'
      BY <2>1
    <2>2. ASSUME NEW c \in Calls, Drops(c), NEW b \in blobs \ blobs', NEW d \in blobs \cap blobs'
          PROVE  /\ b.id # d.id
                 /\ Older(blobs, b.id, d.id) \/ d.id \in call[c].tried
      <3>1. PICK id \in Oldest(c) :
              blobs' = {x \in blobs : ~(x.id = id /\ x.half \in DeleteOf(c, id).halves)}
        BY <2>2 DEF Drops
      <3>2. /\ blobs \subseteq call[c].listing
            /\ \A x \in call[c].listing : x.id \notin call[c].tried => x \in blobs
        BY <1>1, <2>2 DEF Drops, AloneInv, ListingIsTheStore
      <3>3. b.id = id /\ d.id # id
        BY <3>1, <3>2 DEF DeleteOf
      <3>4. ASSUME d.id \notin call[c].tried
            PROVE  Older(blobs, id, d.id)
        <4>1. d.id \in Untried(c) \ {id}
          BY <3>2, <3>3, <3>4 DEF Untried, Listed
        <4>2. id \notin call[c].tried /\ Older(call[c].listing, id, d.id)
          BY <4>1 DEF Oldest, Untried
        <4> QED
          BY <3>2, <4>2 DEF Older
      <3> QED
        BY <3>3, <3>4
    <2>3. ASSUME NEW c \in Calls, Adds(c)
          PROVE  blobs \subseteq blobs'
      BY <2>3 DEF Adds, Stores
    <2> QED
      BY <1>1, <2>1, <2>2, <2>3, StepsAlone DEF AloneInv
  <1>2. AloneInv /\ [Next]_vars => AloneInv'
    BY AloneNext
  <1> QED
    BY <1>1, <1>2, AloneInit, PTL DEF Spec, EvictsOldestWhole

------------------------------------------------------------------------------
\* A call that is to work a comparison out has missed it, or is where it was.
LEMMA ComputesAfterAMiss ==
  ASSUME TypeOK, NEW c \in Calls, [Next]_vars, \A d \in Calls : d = c,
         call'[c].pc = "compute", call'[c].mode = "compare"
  PROVE  \/ UNCHANGED <<blobs, call>>
         \/ LandPut \/ LandDelete \/ LoseRequest
         \/ /\ ReadMeta(c) \/ ReadPatches(c)
            /\ UNCHANGED blobs
            /\ call'[c].key = call[c].key
            /\ call[c].mode = "compare"
  <1>1. ASSUME NEW r, Become(c, r)
        PROVE  call'[c] = r
    BY <1>1 DEF Become, TypeOK
  <1>2. \A a : ~Finish(c, a)
    BY FinishIsDone
  <1>3. \A d \in Calls : d = c
    OBVIOUS
  <1>a. call[c] \in CallState
    BY DEF TypeOK
  <1>4. ~Written(c) /\ ~GiveUp(c) /\ (\A missing : ~Asked(c, missing))
    BY <1>1, <1>2, <1>a DEF Written, GiveUp, Asked, CallState
  <1>5. ~Start(c)
    BY <1>1 DEF Start, Idle
  <1>6. ~Compute(c) /\ ~Head(c) /\ ~List(c)
    BY <1>1, <1>2, <1>4, <1>a DEF Compute, Head, List, CallState
  <1>7. ~Evict(c)
    BY <1>1, <1>a DEF Evict, CallState
  <1>8. ~EndSweep(c) /\ ~Recheck(c) /\ ~Put(c)
    BY <1>1, <1>2, <1>4, <1>a DEF EndSweep, Recheck, Put, CallState
  <1>9. ~DropWrite(c) /\ ~OutOfTime(c) /\ ~Abandon(c) /\ ~Return(c)
    BY <1>1, <1>2, <1>4 DEF DropWrite, OutOfTime, Abandon, Return, Idle
  <1>10. ReadMeta(c) \/ ReadPatches(c) =>
           UNCHANGED blobs /\ call'[c].key = call[c].key /\ call[c].mode = "compare"
    <2>1. Miss(c) => call'[c].key = call[c].key /\ call'[c].mode = call[c].mode
      BY <1>1, <1>2, <1>a DEF Miss, CallState
    <2>2. \A m : ~Become(c, [call[c] EXCEPT !.pc = "readPatches", !.seen = m])
      BY <1>1, <1>a DEF CallState
    <2>3. ReadMeta(c) \/ ReadPatches(c) => Miss(c) /\ UNCHANGED blobs
      BY <1>2, <2>2 DEF ReadMeta, ReadPatches
    <2> QED
      BY <2>1, <2>3
  <1> QED
    BY <1>3, <1>5, <1>6, <1>7, <1>8, <1>9, <1>10 DEF Next, Progress, Quiet, vars

\* What was missed, with every read answered, is not all there.
LEMMA MissedIsNotHeld ==
  ASSUME DistinctIds, {"read", "decode"} \cap Faults = {}, IInv, NEW c \in Calls,
         call[c].mode = "compare", ReadMeta(c) \/ ReadPatches(c), call'[c].pc = "compute"
  PROVE  ~Whole(blobs, call[c].key)
  <1> DEFINE key == call[c].key
  <1>a. TypeOK /\ CallInv(c) /\ KeptWasComputed /\ call[c] \in CallState /\ key \in Keys
    BY DEF IInv, TypeOK, CallState
  <1>b. Question(c) = {key} /\ IdOf(c) = DiffId[key]
    BY DEF Question, IdOf
  <1>c. \A r : Become(c, r) => call'[c] = r
    BY <1>a DEF Become, TypeOK
  <1>d. \A a : ~Finish(c, a)
    BY <1>a, FinishIsDone
  <1>1. CASE ReadMeta(c)
    <2>1. {m \in At(blobs, IdOf(c), "meta") : Matches(c, m)} = {}
      <3>1. \A m : ~Become(c, [call[c] EXCEPT !.pc = "readPatches", !.seen = m])
        BY <1>a, <1>c DEF CallState
      <3> QED
        BY <1>1, <3>1 DEF ReadMeta
    <2>2. \A m \in blobs : m.id = DiffId[key] => m.of = key
      BY <1>a DEF KeptWasComputed, DistinctIds, TypeOK, Blob
    <2>3. At(blobs, DiffId[key], "meta") = {}
      BY <1>b, <2>1, <2>2 DEF At, Matches
    <2> QED
      BY <2>3 DEF Whole, HalvesOf, Halves
  <1>2. CASE ReadPatches(c)
    <2>1. At(blobs, IdOf(c), "patches") = {} /\ ~(call[c].seen \subseteq Omitting)
      BY <1>2, <1>d DEF ReadPatches
    <2>2. call[c].seen = {key}
      BY <1>2, <1>a, <1>b DEF ReadPatches, CallInv
    <2>3. Fits(key)
      BY <1>a, <2>1, <2>2, OmittingIsPatchesOmitted
    <2> QED
      BY <1>b, <2>1, <2>3 DEF Whole, HalvesOf, Halves
  <1> QED
    BY <1>1, <1>2

\* A comparison is worked out again only when the store does not hold it, for
\* every key, size and budget: one call at a time, when no two keys share a
\* diff_id and every read is answered.
THEOREM RecomputesAlone ==
  OneAtATime /\ DistinctIds /\ {"read", "decode"} \cap Faults = {}
    => (Spec => []RecomputesOnlyWhatIsNotHeld)
  <1> SUFFICES ASSUME OneAtATime, DistinctIds, {"read", "decode"} \cap Faults = {}
               PROVE  Spec => []RecomputesOnlyWhatIsNotHeld
    OBVIOUS
  <1> DEFINE I == NothingLate /\ RecomputesOnlyWhatIsNotHeld
  <1>1. Init => I
    BY DEF Init, NothingLate, RecomputesOnlyWhatIsNotHeld, Idle
  <1>2. IInv /\ I /\ [Next]_vars => I'
    <2> SUFFICES ASSUME IInv, I, [Next]_vars
                 PROVE  I'
      OBVIOUS
    <2>1. TypeOK
      BY DEF IInv
    <2>2. NothingLate'
      BY StepsAlone
    <2>3. ASSUME NEW c \in Calls, call'[c].pc = "compute", call'[c].mode = "compare"
          PROVE  ~Whole(blobs', call'[c].key)
      <3>1. \A d \in Calls : d = c
        BY DEF OneAtATime
      <3>2. ~LandPut /\ ~LandDelete /\ ~LoseRequest
        BY DEF NothingLate, LandPut, LandDelete, LoseRequest
      <3>3. CASE UNCHANGED <<blobs, call>>
        BY <2>3, <3>3 DEF RecomputesOnlyWhatIsNotHeld
      <3>4. CASE /\ ReadMeta(c) \/ ReadPatches(c)
                 /\ UNCHANGED blobs
                 /\ call'[c].key = call[c].key
                 /\ call[c].mode = "compare"
        BY <2>3, <3>4, MissedIsNotHeld
      <3> QED
        BY <2>1, <2>3, <3>1, <3>2, <3>3, <3>4, ComputesAfterAMiss
    <2>4. RecomputesOnlyWhatIsNotHeld'
      BY <2>3 DEF RecomputesOnlyWhatIsNotHeld, Whole, At
    <2> QED
      BY <2>2, <2>4
  <1>3. Spec => []IInv
    BY Invariance
  <1>4. I => RecomputesOnlyWhatIsNotHeld
    OBVIOUS
  <1> HIDE DEF I
  <1> QED
    BY <1>1, <1>2, <1>3, <1>4, PTL DEF Spec

------------------------------------------------------------------------------
(***************************************************************************)
(* DiffStore implements DiffCache.  Between its start and its end a call   *)
(* keeps its question; CallInv says what its answer may be, so a step that *)
(* answers maps to Give and every other step but the computation to a      *)
(* stutter.                                                                *)
(***************************************************************************)
\* The refinement mapping's value for one call.
Open(c) == IF call[c].pc = "idle" THEN {} ELSE Question(c)

\* What a call's own steps do not touch: its question, and every other call.
KeepsQuestion(c) ==
  /\ call' \in [Calls -> CallState]
  /\ \A d \in Calls \ {c} : call'[d] = call[d]
  /\ call[c].pc \notin {"idle", "done"} /\ call'[c].pc # "idle"
  /\ call'[c].key = call[c].key /\ call'[c].mode = call[c].mode

LEMMA OpenStays ==
  ASSUME NEW c \in Calls, KeepsQuestion(c)
  PROVE  /\ [d \in Calls |-> Open(d)]' = [d \in Calls |-> Open(d)]
         /\ Question(c)' = Question(c)
  BY DEF KeepsQuestion, Open, Question, IdOf

LEMMA FinishKeepsQuestion ==
  ASSUME TypeOK, NEW c \in Calls, NEW a \in Answer, Finish(c, a), Busy(c)
  PROVE  KeepsQuestion(c)
  BY FinishTyped DEF TypeOK, KeepsQuestion, Busy

LEMMA BecomeKeepsQuestion ==
  ASSUME TypeOK, NEW c \in Calls, NEW r \in CallState, Become(c, r), Busy(c),
         r.key = call[c].key, r.mode = call[c].mode, r.pc # "idle"
  PROVE  KeepsQuestion(c)
  BY BecomeTyped DEF TypeOK, KeepsQuestion, Busy

LEMMA StepsKeepQuestion ==
  ASSUME TypeOK, NEW c \in Calls, Busy(c)
  PROVE  /\ GiveUp(c) => KeepsQuestion(c)
         /\ Miss(c) => KeepsQuestion(c)
         /\ Written(c) => KeepsQuestion(c)
         /\ \A missing \in SUBSET Halves : Asked(c, missing) => KeepsQuestion(c)
  <1>1. call[c] \in CallState
    BY DEF TypeOK
  <1>2. FreshOf(call[c].key) \in Answer /\ Nothing("miss") \in Answer
    BY <1>1, AnswersTyped DEF CallState, Empty
  <1>3. GiveUp(c) => KeepsQuestion(c)
    BY <1>2, FinishKeepsQuestion DEF GiveUp
  <1>4. Miss(c) => KeepsQuestion(c)
    <2> DEFINE r == [call[c] EXCEPT !.pc = "compute", !.seen = {}]
    <2>1. r \in CallState /\ r.key = call[c].key /\ r.mode = call[c].mode /\ r.pc # "idle"
      BY <1>1 DEF CallState, Steps
    <2> QED
      BY <1>2, <2>1, FinishKeepsQuestion, BecomeKeepsQuestion DEF Miss
  <1>5. Written(c) => KeepsQuestion(c)
    <2> DEFINE rest == call[c].missing \ {NextHalf(call[c].missing)}
               r == [call[c] EXCEPT !.pc = "recheck", !.missing = rest]
    <2>1. r \in CallState /\ r.key = call[c].key /\ r.mode = call[c].mode /\ r.pc # "idle"
      BY <1>1 DEF CallState, Steps, Writing
    <2>2. Written(c) => GiveUp(c) \/ Become(c, r)
      BY DEF Written
    <2> QED
      BY <1>3, <2>1, <2>2, BecomeKeepsQuestion
  <1>6. ASSUME NEW missing \in SUBSET Halves, Asked(c, missing)
        PROVE  KeepsQuestion(c)
    <2> DEFINE r == [call[c] EXCEPT !.pc = "list", !.missing = missing]
    <2>1. r \in CallState /\ r.key = call[c].key /\ r.mode = call[c].mode /\ r.pc # "idle"
      BY <1>1 DEF CallState, Steps, Writing
    <2>2. GiveUp(c) \/ Become(c, r)
      BY <1>6 DEF Asked
    <2> QED
      BY <1>3, <2>1, <2>2, BecomeKeepsQuestion
  <1> QED
    BY <1>3, <1>4, <1>5, <1>6

\* A call whose answer is new has one that DiffCache allows.
LEMMA SettledIsAllowed ==
  ASSUME IInv', NEW c \in Calls, KeepsQuestion(c), computed' = computed,
         call'[c].answer # NoAnswer
  PROVE  /\ call'[c].answer \in Answer
         /\ \/ /\ call'[c].answer.kind = "cached"
               /\ Coherent(call'[c].answer)
               /\ call'[c].answer.tree \subseteq Question(c) \cap computed
               /\ call'[c].answer.patches \subseteq computed
            \/ \E k \in Question(c) \cap computed : call'[c].answer = FreshOf(k)
            \/ \E kind \in Empty : call'[c].answer = Nothing(kind)
  <1>1. call'[c] \in CallState /\ call'[c].answer \in Answer
    BY DEF KeepsQuestion, CallState
  <1>2. CallInv(c)' /\ Question(c)' = Question(c)
    BY OpenStays DEF IInv
  <1>3. Settled(c, call[c].answer, computed)'
    BY <1>2 DEF CallInv
  <1>4. call'[c].key \in Question(c)
    BY <1>1, <1>2 DEF Question, IdOf, CallState
  <1> QED
    BY <1>1, <1>2, <1>3, <1>4 DEF Settled

\* What Settled says of a cached answer makes it one of the cache's entries.
LEMMA CoherentIsAnEntry ==
  ASSUME NEW a \in Answer, a.kind = "cached", Coherent(a), NEW Q, a.tree \subseteq Q \cap computed,
         a.patches \subseteq computed
  PROVE  \E k \in Q \cap computed : a \in Cache!EntriesOf(k)
  <1>1. PICK k \in Keys :
          /\ a.tree = {k}
          /\ \/ \E p \in Keys : DiffId[p] = DiffId[k] /\ a.patches = {p}
             \/ a.patches = {} /\ k \in Omitting
    BY DEF Coherent
  <1>2. a = Cache!CachedOf({k}, a.patches)
    BY <1>1 DEF Answer, Cache!CachedOf
  <1>3. k \in Q \cap computed
    BY <1>1
  <1>4. CASE \E p \in Keys : DiffId[p] = DiffId[k] /\ a.patches = {p}
    <2>1. PICK p \in computed : DiffId[p] = DiffId[k] /\ a.patches = {p}
      BY <1>4
    <2> QED
      BY <1>2, <1>3, <2>1 DEF Cache!EntriesOf
  <1>5. CASE a.patches = {} /\ k \in Omitting
    BY <1>2, <1>3, <1>5 DEF Cache!EntriesOf
  <1> QED
    BY <1>1, <1>4, <1>5

LEMMA CallStepMaps ==
  ASSUME IInv, IInv', NEW c \in Calls, KeepsQuestion(c), computed' = computed
  PROVE  Cache!Next \/ UNCHANGED Cache!vars
  <1>1. call \in [Calls -> CallState] /\ call[c].answer = NoAnswer
    BY DEF IInv, TypeOK, CallInv, KeepsQuestion
  <1>2. [d \in Calls |-> Open(d)]' = [d \in Calls |-> Open(d)]
    BY OpenStays
  <1>3. CASE call'[c].answer = NoAnswer
    <2>1. [d \in Calls |-> call[d].answer]' = [d \in Calls |-> call[d].answer]
      BY <1>1, <1>3 DEF KeepsQuestion
    <2> QED
      BY <1>2, <2>1 DEF Cache!vars, Open
  <1>4. CASE call'[c].answer # NoAnswer
    <2> DEFINE a == call'[c].answer
    <2>1. [d \in Calls |-> call[d].answer]' = [[d \in Calls |-> call[d].answer] EXCEPT ![c] = a]
      BY <1>1 DEF KeepsQuestion
    <2>2. Open(c) = Question(c) /\ Question(c) # {}
      BY <1>1 DEF KeepsQuestion, Open, Question, IdOf, CallState
    <2>3. Cache!Waiting(c)
      BY <1>1, <2>2 DEF Cache!Waiting, Open, Cache!NoAnswer, NoAnswer
    <2>4. a \in Cache!Allowed(c)
      <3>1. \/ \E k \in Question(c) \cap computed : a \in Cache!EntriesOf(k)
            \/ \E k \in Question(c) \cap computed : a = FreshOf(k)
            \/ \E kind \in Empty : a = Nothing(kind)
        BY <1>4, SettledIsAllowed, CoherentIsAnEntry
      <3> QED
        BY <2>2, <3>1
           DEF Cache!Allowed, Cache!FreshOf, FreshOf, Cache!Empty, Empty, Cache!Nothing, Nothing, Open
    <2>5. Cache!Give(c)
      BY <1>2, <2>1, <2>3, <2>4 DEF Cache!Give, Open
    <2> QED
      BY <2>5 DEF Cache!Next
  <1> QED
    BY <1>3, <1>4

\* The steps between the start of a call and its return that compute nothing.
LEMMA WorkKeepsQuestion ==
  ASSUME TypeOK, NEW c \in Calls,
         \/ ReadMeta(c) \/ ReadPatches(c) \/ Head(c) \/ List(c) \/ Evict(c) \/ EndSweep(c)
         \/ Recheck(c) \/ Put(c) \/ DropWrite(c) \/ OutOfTime(c) \/ Abandon(c)
  PROVE  KeepsQuestion(c) /\ computed' = computed
  <1>1. call[c] \in CallState
    BY DEF TypeOK
  <1>2. Busy(c) /\ computed' = computed
    BY DEF Busy, ReadMeta, ReadPatches, Head, List, Evict, EndSweep, Recheck, Put, DropWrite,
           OutOfTime, Abandon, Writing
  <1>3. CASE ReadMeta(c)
    <2>1. ASSUME NEW m \in At(blobs, IdOf(c), "meta"),
                 Become(c, [call[c] EXCEPT !.pc = "readPatches", !.seen = {m.of}])
          PROVE  KeepsQuestion(c)
      <3> DEFINE r == [call[c] EXCEPT !.pc = "readPatches", !.seen = {m.of}]
      <3>1. r \in CallState /\ r.key = call[c].key /\ r.mode = call[c].mode /\ r.pc # "idle"
        BY <1>1 DEF CallState, Steps, At, TypeOK, Blob
      <3> QED
        BY <1>2, <2>1, <3>1, BecomeKeepsQuestion
    <2> QED
      BY <1>2, <1>3, <2>1, StepsKeepQuestion DEF ReadMeta
  <1>4. CASE ReadPatches(c)
    <2>1. CachedOf(call[c].seen, {}) \in Answer
      BY <1>1, AnswersTyped DEF CallState
    <2>2. \A p \in At(blobs, IdOf(c), "patches") : CachedOf(call[c].seen, {p.of}) \in Answer
      BY <1>1, AnswersTyped DEF CallState, At, TypeOK, Blob
    <2> QED
      BY <1>2, <1>4, <2>1, <2>2, FinishKeepsQuestion, StepsKeepQuestion DEF ReadPatches
  <1>5. CASE Head(c)
    <2>1. /\ call[c].missing \in SUBSET Halves
          /\ call[c].missing \cup {"meta"} \in SUBSET Halves
          /\ call[c].missing \cup {"patches"} \in SUBSET Halves
      BY <1>1 DEF CallState, Halves
    <2>2. ASSUME NEW missing \in SUBSET Halves,
                 Become(c, [call[c] EXCEPT !.pc = "headPatches", !.missing = missing])
          PROVE  KeepsQuestion(c)
      <3> DEFINE r == [call[c] EXCEPT !.pc = "headPatches", !.missing = missing]
      <3>1. r \in CallState /\ r.key = call[c].key /\ r.mode = call[c].mode /\ r.pc # "idle"
        BY <1>1 DEF CallState, Steps, Writing
      <3> QED
        BY <1>2, <2>2, <3>1, BecomeKeepsQuestion
    <2> QED
      BY <1>2, <1>5, <2>1, <2>2, StepsKeepQuestion DEF Head
  <1>6. CASE List(c)
    <2> DEFINE r == [call[c] EXCEPT !.pc = "recheck"]
               s == [call[c] EXCEPT !.pc = "sweep", !.listing = blobs]
    <2>1. r \in CallState /\ r.key = call[c].key /\ r.mode = call[c].mode /\ r.pc # "idle"
      BY <1>1 DEF CallState, Steps, Writing
    <2>2. s \in CallState /\ s.key = call[c].key /\ s.mode = call[c].mode /\ s.pc # "idle"
      BY <1>1 DEF CallState, Steps, Writing, TypeOK
    <2>3. Become(c, r) \/ Become(c, s) \/ GiveUp(c)
      BY <1>6 DEF List
    <2> QED
      BY <1>2, <2>1, <2>2, <2>3, BecomeKeepsQuestion, StepsKeepQuestion
  <1>7. CASE Evict(c)
    <2>1. PICK id \in Oldest(c) :
            \/ Become(c, [call[c] EXCEPT !.listing = {b \in @ : b.id # id}])
            \/ Become(c, [call[c] EXCEPT !.tried = @ \cup {id}])
      BY <1>7 DEF Evict
    <2> DEFINE r == [call[c] EXCEPT !.listing = {b \in @ : b.id # id}]
               s == [call[c] EXCEPT !.tried = @ \cup {id}]
    <2>2. r \in CallState /\ r.key = call[c].key /\ r.mode = call[c].mode /\ r.pc # "idle"
      BY <1>1, <1>2 DEF CallState, Busy
    <2>3. s \in CallState /\ s.key = call[c].key /\ s.mode = call[c].mode /\ s.pc # "idle"
      BY <1>1, <1>2, RequestsTyped DEF CallState, Busy
    <2> QED
      BY <1>2, <2>1, <2>2, <2>3, BecomeKeepsQuestion
  <1>8. CASE EndSweep(c)
    <2> DEFINE r == [call[c] EXCEPT !.pc = "recheck", !.listing = {}, !.tried = {}]
    <2>1. r \in CallState /\ r.key = call[c].key /\ r.mode = call[c].mode /\ r.pc # "idle"
      BY <1>1 DEF CallState, Steps, Writing
    <2>2. Become(c, r) \/ GiveUp(c)
      BY <1>8 DEF EndSweep
    <2> QED
      BY <1>2, <2>1, <2>2, BecomeKeepsQuestion, StepsKeepQuestion
  <1>9. CASE Recheck(c)
    <2> DEFINE r == [call[c] EXCEPT !.pc = "put"]
    <2>1. r \in CallState /\ r.key = call[c].key /\ r.mode = call[c].mode /\ r.pc # "idle"
      BY <1>1 DEF CallState, Steps, Writing
    <2>2. Become(c, r) \/ Written(c)
      BY <1>9 DEF Recheck
    <2> QED
      BY <1>2, <2>1, <2>2, BecomeKeepsQuestion, StepsKeepQuestion
  <1>10. CASE Put(c) \/ DropWrite(c)
    BY <1>2, <1>10, StepsKeepQuestion DEF Put, DropWrite
  <1>11. CASE OutOfTime(c) \/ Abandon(c)
    <2>1. Nothing("outOfTime") \in Answer /\ Nothing("gone") \in Answer
      BY AnswersTyped DEF Empty
    <2> QED
      BY <1>2, <1>11, <2>1, FinishKeepsQuestion DEF OutOfTime, Abandon
  <1> QED
    BY <1>2, <1>3, <1>4, <1>5, <1>6, <1>7, <1>8, <1>9, <1>10, <1>11

LEMMA StartAsks ==
  ASSUME IInv, NEW c \in Calls, Start(c)
  PROVE  Cache!Ask(c)
  <1>1. PICK k \in Keys, mode \in Modes :
          Become(c, [Idle EXCEPT !.mode = mode, !.key = k,
                                 !.pc = IF mode = "uncached" THEN "compute" ELSE "readMeta"])
    BY DEF Start
  <1> DEFINE r == [Idle EXCEPT !.mode = mode, !.key = k,
                               !.pc = IF mode = "uncached" THEN "compute" ELSE "readMeta"]
  <1>2. /\ r \in CallState /\ r.key = k /\ r.mode = mode /\ r.pc # "idle"
        /\ r.answer = NoAnswer
    BY IdleTyped, ModesAssumption DEF CallState, Steps, Idle
  <1>3. call \in [Calls -> CallState] /\ call[c].answer = NoAnswer /\ call[c].pc = "idle"
    BY DEF IInv, TypeOK, CallInv, Start
  <1>4. call' = [call EXCEPT ![c] = r]
    BY <1>1 DEF Become
  <1>5. [d \in Calls |-> call[d].answer]' = [d \in Calls |-> call[d].answer]
    BY <1>2, <1>3, <1>4
  <1>6. Question(c)' \in AllQuestions
    BY <1>2, <1>3, <1>4 DEF Question, IdOf, AllQuestions
  <1>7. [d \in Calls |-> Open(d)]' = [[d \in Calls |-> Open(d)] EXCEPT ![c] = Question(c)']
    BY <1>2, <1>3, <1>4 DEF Open, Question, IdOf
  <1> QED
    BY <1>3, <1>5, <1>6, <1>7 DEF Cache!Ask, Open, Start

LEMMA ReturnCloses ==
  ASSUME IInv, NEW c \in Calls, Return(c)
  PROVE  Cache!Close(c)
  <1>1. call \in [Calls -> CallState] /\ call[c].pc = "done" /\ call' = [call EXCEPT ![c] = Idle]
    BY DEF IInv, TypeOK, Return, Become
  <1>2. call[c].answer # NoAnswer
    <2>1. Settled(c, call[c].answer, computed)
      BY <1>1 DEF IInv, CallInv
    <2>2. call[c].answer.kind # "none"
      BY <2>1 DEF Settled, FreshOf, Nothing, Empty
    <2> QED
      BY <2>2 DEF NoAnswer
  <1>3. Idle.pc = "idle" /\ Idle.answer = NoAnswer
    BY DEF Idle
  <1>4. [d \in Calls |-> call[d].answer]'
          = [[d \in Calls |-> call[d].answer] EXCEPT ![c] = NoAnswer]
    BY <1>1, <1>3
  <1>5. [d \in Calls |-> Open(d)]' = [[d \in Calls |-> Open(d)] EXCEPT ![c] = {}]
    BY <1>1, <1>3 DEF Open, Question, IdOf
  <1> QED
    BY <1>2, <1>4, <1>5 DEF Cache!Close, Cache!NoAnswer, NoAnswer, Open, Return

LEMMA ComputeMaps ==
  ASSUME IInv, IInv', NEW c \in Calls, Compute(c)
  PROVE  Cache!Next \/ UNCHANGED Cache!vars
  <1>1. call[c] \in CallState /\ TypeOK /\ Busy(c) /\ call[c].answer = NoAnswer
    BY DEF IInv, TypeOK, CallInv, Compute, Busy
  <1>2. call[c].key \in Open(c) /\ Open(c) # {}
    BY <1>1 DEF Open, Question, IdOf, CallState, Busy
  <1>3. Cache!Waiting(c)
    BY <1>1, <1>2 DEF Cache!Waiting, Open, Cache!NoAnswer, NoAnswer
  <1>4. CASE Finish(c, Nothing("failed")) /\ UNCHANGED computed
    <2>1. Nothing("failed") \in Answer
      BY AnswersTyped DEF Empty
    <2> QED
      BY <1>1, <1>4, <2>1, FinishKeepsQuestion, CallStepMaps
  <1>5. CASE computed' = computed \cup {call[c].key} /\ Finish(c, FreshOf(call[c].key))
    <2> DEFINE a == FreshOf(call[c].key)
    <2>1. a \in Answer
      BY <1>1, AnswersTyped DEF CallState
    <2>2. KeepsQuestion(c) /\ call'[c].answer = a
      BY <1>1, <1>5, <2>1, FinishKeepsQuestion, FinishTyped DEF TypeOK
    <2>3. [d \in Calls |-> call[d].answer]' = [[d \in Calls |-> call[d].answer] EXCEPT ![c] = a]
      BY <1>1, <2>2 DEF KeepsQuestion, TypeOK
    <2>4. [d \in Calls |-> Open(d)]' = [d \in Calls |-> Open(d)]
      BY <2>2, OpenStays
    <2>5. Cache!ComputeAndGive(c)
      BY <1>2, <1>3, <1>5, <2>3, <2>4
         DEF Cache!ComputeAndGive, Cache!FreshOf, FreshOf, Open
    <2> QED
      BY <2>5 DEF Cache!Next
  <1>6. CASE /\ computed' = computed \cup {call[c].key}
             /\ Become(c, [call[c] EXCEPT !.pc = "headMeta"])
    <2> DEFINE r == [call[c] EXCEPT !.pc = "headMeta"]
    <2>1. /\ r \in CallState /\ r.key = call[c].key /\ r.mode = call[c].mode /\ r.pc # "idle"
          /\ r.answer = NoAnswer
      BY <1>1 DEF CallState, Steps, Writing
    <2>2. KeepsQuestion(c) /\ call'[c] = r
      BY <1>1, <1>6, <2>1, BecomeKeepsQuestion, BecomeTyped DEF TypeOK
    <2>3. [d \in Calls |-> call[d].answer]' = [d \in Calls |-> call[d].answer]
      BY <1>1, <2>1, <2>2 DEF KeepsQuestion
    <2>4. [d \in Calls |-> Open(d)]' = [d \in Calls |-> Open(d)]
      BY <2>2, OpenStays
    <2>5. Cache!Compute(c)
      BY <1>2, <1>3, <1>6, <2>3, <2>4 DEF Cache!Compute, Open
    <2> QED
      BY <2>5 DEF Cache!Next
  <1> QED
    BY <1>4, <1>5, <1>6 DEF Compute

LEMMA RefinesInit == Init => Cache!Init
  BY DEF Init, Cache!Init, Idle, Cache!NoAnswer, NoAnswer

LEMMA RefinesNext == IInv /\ IInv' /\ [Next]_vars => [Cache!Next]_Cache!vars
  <1> SUFFICES ASSUME IInv, IInv', [Next]_vars
               PROVE  Cache!Next \/ UNCHANGED Cache!vars
    OBVIOUS
  <1>1. TypeOK
    BY DEF IInv
  <1>2. ASSUME NEW c \in Calls, Start(c)
        PROVE  Cache!Next
    BY <1>2, StartAsks DEF Cache!Next
  <1>3. ASSUME NEW c \in Calls, Return(c)
        PROVE  Cache!Next
    BY <1>3, ReturnCloses DEF Cache!Next
  <1>4. ASSUME NEW c \in Calls,
               \/ ReadMeta(c) \/ ReadPatches(c) \/ Head(c) \/ List(c) \/ Evict(c) \/ EndSweep(c)
               \/ Recheck(c) \/ Put(c) \/ DropWrite(c) \/ OutOfTime(c) \/ Abandon(c)
        PROVE  Cache!Next \/ UNCHANGED Cache!vars
    BY <1>1, <1>4, WorkKeepsQuestion, CallStepMaps
  <1>5. ASSUME UNCHANGED <<call, computed>>
        PROVE  UNCHANGED Cache!vars
    BY <1>5 DEF Cache!vars, Question, IdOf
  <1>6. CASE LandPut \/ LandDelete \/ LoseRequest \/ UNCHANGED vars
    BY <1>5, <1>6 DEF LandPut, LandDelete, LoseRequest, vars
  <1> QED
    BY <1>2, <1>3, <1>4, <1>6, ComputeMaps DEF Next, Progress, Quiet

\* The two blobs, the budget, the deadlines and the late requests amount to a cache
\* that answers the question it is asked and calls cached only what was computed
\* under its diff_id, whichever keys share one.
THEOREM Refinement == Spec => IsACache
  <1>1. Spec => []IInv
    BY Invariance
  <1> QED
    BY <1>1, RefinesInit, RefinesNext, PTL DEF Spec, IsACache, Cache!Spec

------------------------------------------------------------------------------
(***************************************************************************)
(* The budget of DiffStore, for every number of calls, keys and sizes:     *)
(* what admissions made at once can add to it is an entry for each call    *)
(* but one, and a blob for each write that lands late.                     *)
(*                                                                         *)
(* The invariant puts the calls that sweep in the order they listed in     *)
(* (rank), and remembers which of the listings an admission has overtaken  *)
(* (outdated). A sweep that was overtaken may yet add its entry to what    *)
(* was admitted since, so the largest entry is set aside for it.  A sweep  *)
(* that was not has counted every blob but those that came after its       *)
(* listing, and these are bounded without the budget: they are late, or of *)
(* the calls that were admitted or listed before it.                       *)
(***************************************************************************)

------------------------------------------------------------------------------
(***************************************************************************)
(* Induction, and sums over finite sets. The smallest counterexample of a  *)
(* well-founded order takes the place of the induction theorems that have  *)
(* an operator for a parameter.                                            *)
(***************************************************************************)
\* What holds of a set as soon as it holds of that set with any one element
\* taken out, holds of every subset of a finite set.
LEMMA SubsetInduction ==
  ASSUME NEW S, IsFiniteSet(S), NEW Q,
         \A T \in SUBSET S : (\A x \in T : T \ {x} \in Q) => T \in Q
  PROVE  SUBSET S \subseteq Q
  <1> DEFINE Bad == (SUBSET S) \ Q
  <1>1. SUFFICES ASSUME Bad # {}
                 PROVE  FALSE
    OBVIOUS
  <1>2. Bad \subseteq FiniteSubsetsOf(S)
    BY FS_FiniteSubsetsOfFinite
  <1>3. PICK T \in Bad : \A U \in Bad : <<U, T>> \notin StrictSubsetOrdering(S)
    <2> HIDE DEF Bad
    <2> QED
      BY <1>1, <1>2, FS_StrictSubsetOrderingWellFounded, WFMin
  <1>4. ASSUME NEW x \in T
        PROVE  T \ {x} \in Q
    <2>1. T \ {x} \in SUBSET S /\ T \ {x} \subseteq T /\ T \ {x} # T
      OBVIOUS
    <2>2. <<T \ {x}, T>> \in StrictSubsetOrdering(S)
      BY <2>1 DEF StrictSubsetOrdering
    <2> QED
      BY <1>3, <2>1, <2>2
  <1> QED
    BY <1>4

\* The sum of f over S, as the library's operator computes it.
Sum(f, S) == MapThenSumSet(LAMBDA x : f[x], S)

Pick(s) == CHOOSE x \in s : TRUE

\* The equation of a fold over the subsets of S.
FoldsOver(g, f, S) == g = [s \in SUBSET S |-> IF s = {} THEN 0 ELSE f[Pick(s)] + g[s \ {Pick(s)}]]

\* What Pick takes of a set is in it.
LEMMA PickIn == \A s : s # {} => Pick(s) \in s
  BY DEF Pick

\* A sum is the value of the fold it is.
LEMMA SumIs ==
  ASSUME NEW f, NEW S
  PROVE Sum(f, S) = (CHOOSE g : FoldsOver(g, f, S))[S]
  BY DEF Sum, MapThenSumSet, MapThenFoldSet, FoldsOver, Pick

\* What holds of zero, and of a number's successor as soon as of it, holds of each.
LEMMA NatInduct ==
  ASSUME NEW Q, 0 \in Q, \A n \in Nat : n \in Q => n + 1 \in Q
  PROVE  Nat \subseteq Q
  <1> DEFINE Bad == Nat \ Q
             R == OpToRel(<, Nat)
  <1>1. SUFFICES ASSUME Bad # {}
                 PROVE  FALSE
    OBVIOUS
  <1>2. IsWellFoundedOn(R, Nat)
    BY NatLessThanWellFounded, Zenon DEF R
  <1>3. PICK n \in Bad : \A m \in Bad : <<m, n>> \notin R
    <2> HIDE DEF R, Bad
    <2>1. Bad \subseteq Nat
      BY DEF Bad
    <2> QED
      BY <1>1, <1>2, <2>1, WFMin
  <1>4. n - 1 \in Bad
    <2> HIDE DEF R
    <2> QED
      BY <1>3
  <1>5. <<n - 1, n>> \in R
    <2>1. n - 1 \in Nat /\ n \in Nat /\ n - 1 < n
      <3> HIDE DEF R
      <3> QED
        BY <1>4
    <2> QED
      BY <2>1 DEF OpToRel
  <1> QED
    BY <1>3, <1>4, <1>5

\* There is a fold: by induction on the size of the sets it is right about.
LEMMA FoldExists ==
  ASSUME NEW S, IsFiniteSet(S), NEW f, \A x \in S : f[x] \in Nat
  PROVE  \E g \in [SUBSET S -> Nat] : FoldsOver(g, f, S)
  <1> DEFINE Step(g, s) == IF s = {} THEN 0 ELSE f[Pick(s)] + g[s \ {Pick(s)}]
             Upto(n, g) == \A s \in SUBSET S : Cardinality(s) <= n => g[s] = Step(g, s)
             Q == {n \in Nat : \E g \in [SUBSET S -> Nat] : Upto(n, g)}
  <1>a. \A s \in SUBSET S : IsFiniteSet(s) /\ Cardinality(s) \in Nat
    BY FS_Subset, FS_CardinalityType
  <1>1. 0 \in Q
    <2> DEFINE g == [s \in SUBSET S |-> 0]
    <2>1. \A s \in SUBSET S : Cardinality(s) <= 0 => s = {}
      BY <1>a, FS_EmptySet
    <2>2. g \in [SUBSET S -> Nat] /\ Upto(0, g)
      BY <2>1
    <2> QED
      BY <2>2
  <1>2. ASSUME NEW n \in Nat, n \in Q
        PROVE  n + 1 \in Q
    <2>1. PICK g \in [SUBSET S -> Nat] : Upto(n, g)
      BY <1>2
    <2> DEFINE h == [s \in SUBSET S |-> Step(g, s)]
    <2>2. h \in [SUBSET S -> Nat]
      BY PickIn
    <2>3. ASSUME NEW s \in SUBSET S, Cardinality(s) <= n + 1
          PROVE  h[s] = Step(h, s)
      <3>1. CASE s = {}
        BY <3>1
      <3>2. CASE s # {}
        <4> DEFINE r == s \ {Pick(s)}
        <4>1. r \in SUBSET S /\ Cardinality(r) <= n
          BY <1>a, <2>3, <3>2, PickIn, FS_RemoveElement
        <4>2. h[r] = g[r]
          BY <2>1, <4>1
        <4> QED
          BY <3>2, <4>1, <4>2
      <3> QED
        BY <3>1, <3>2
    <2>4. Upto(n + 1, h)
      <3> HIDE DEF h
      <3> QED
        BY <2>3
    <2> HIDE DEF h, Upto
    <2> QED
      BY <2>2, <2>4
  <1>3. Cardinality(S) \in Q
    <2> HIDE DEF Q
    <2> QED
      BY <1>a, <1>1, <1>2, NatInduct
  <1>4. PICK g \in [SUBSET S -> Nat] : Upto(Cardinality(S), g)
    BY <1>3
  <1>5. g = [s \in SUBSET S |-> Step(g, s)]
    <2>1. \A s \in SUBSET S : g[s] = Step(g, s)
      BY <1>4, FS_Subset
    <2> QED
      BY <2>1
  <1> QED
    BY <1>5 DEF FoldsOver

\* The fold of a sum, which the operators of the library choose.
Adder(f, S) == CHOOSE g : FoldsOver(g, f, S)

\* The chosen fold exists, and adds what Pick takes, one element at a time.
LEMMA AdderFolds ==
  ASSUME NEW S, IsFiniteSet(S), NEW f, \A x \in S : f[x] \in Nat
  PROVE  /\ Adder(f, S)[{}] = 0
         /\ \A s \in SUBSET S : Adder(f, S)[s] \in Nat
         /\ \A s \in SUBSET S :
              s # {} => Adder(f, S)[s] = f[Pick(s)] + Adder(f, S)[s \ {Pick(s)}]
  <1> DEFINE g == Adder(f, S)
  <1>1. FoldsOver(g, f, S)
    BY FoldExists DEF Adder
  <1> HIDE DEF g
  <1>2. /\ g[{}] = 0
        /\ \A s \in SUBSET S : s # {} => g[s] = f[Pick(s)] + g[s \ {Pick(s)}]
    BY <1>1 DEF FoldsOver
  <1>3. SUBSET S \subseteq {s \in SUBSET S : g[s] \in Nat}
    <2> DEFINE Q == {s \in SUBSET S : g[s] \in Nat}
    <2>1. ASSUME NEW T \in SUBSET S, \A x \in T : T \ {x} \in Q
          PROVE  T \in Q
      <3>1. CASE T # {}
        <4>1. f[Pick(T)] \in Nat /\ g[T \ {Pick(T)}] \in Nat
          BY <2>1, <3>1, PickIn
        <4>2. g[T] = f[Pick(T)] + g[T \ {Pick(T)}]
          BY <1>2, <3>1
        <4> QED
          BY <4>1, <4>2
      <3>2. CASE T = {}
        <4>1. g[T] = 0
          BY <1>2, <3>2
        <4> QED
          BY <4>1
      <3> QED
        BY <3>1, <3>2
    <2> HIDE DEF Q
    <2>2. SUBSET S \subseteq Q
      BY <2>1, SubsetInduction
    <2> QED
      BY <2>2 DEF Q
  <1> QED
    BY <1>2, <1>3 DEF g

\* A sum is the chosen fold's value at the whole set.
LEMMA SumAdder ==
  ASSUME NEW f, NEW S
  PROVE  Sum(f, S) = Adder(f, S)[S]
  BY SumIs DEF Adder

\* The order of the elements does not matter.
LEMMA AdderTakes ==
  ASSUME NEW S, IsFiniteSet(S), NEW f, \A x \in S : f[x] \in Nat
  PROVE  \A s \in SUBSET S : \A x \in s : Adder(f, S)[s] = f[x] + Adder(f, S)[s \ {x}]
  <1> DEFINE g == Adder(f, S)
             Q == {s \in SUBSET S : \A x \in s : g[s] = f[x] + g[s \ {x}]}
  <1>1. /\ \A s \in SUBSET S : g[s] \in Nat
        /\ \A s \in SUBSET S : s # {} => g[s] = f[Pick(s)] + g[s \ {Pick(s)}]
    BY AdderFolds
  <1> HIDE DEF g
  <1>2. ASSUME NEW T \in SUBSET S, \A x \in T : T \ {x} \in Q
        PROVE  T \in Q
    <2>1. ASSUME NEW x \in T
          PROVE  g[T] = f[x] + g[T \ {x}]
      <3> DEFINE p == Pick(T)
      <3>1. p \in T /\ g[T] = f[p] + g[T \ {p}]
        BY <1>1, PickIn
      <3> HIDE DEF p
      <3>2. CASE x # p
        <4> DEFINE r == (T \ {p}) \ {x}
        <4>1. r = (T \ {x}) \ {p} /\ r \in SUBSET S
          OBVIOUS
        <4>2. g[T \ {p}] = f[x] + g[r]
          BY <1>2, <3>1, <3>2
        <4>3. g[T \ {x}] = f[p] + g[r]
          BY <1>2, <3>1, <3>2, <4>1
        <4>4. f[x] \in Nat /\ f[p] \in Nat /\ g[r] \in Nat
          BY <1>1, <3>1, <4>1
        <4> HIDE DEF r
        <4> QED
          BY <3>1, <4>2, <4>3, <4>4
      <3> QED
        BY <3>1, <3>2
    <2> QED
      BY <2>1
  <1>3. SUBSET S \subseteq Q
    <2> HIDE DEF Q
    <2> QED
      BY <1>2, SubsetInduction
  <1> QED
    BY <1>3 DEF g

\* A sum over some of the elements, of a function that is the same on them.
LEMMA AdderIsSum ==
  ASSUME NEW S, IsFiniteSet(S), NEW f, \A x \in S : f[x] \in Nat,
         NEW T \in SUBSET S, NEW h, \A x \in T : h[x] = f[x]
  PROVE  Adder(f, S)[T] = Sum(h, T)
  <1> DEFINE a == Adder(f, S)
             b == Adder(h, T)
             Q == {s \in SUBSET T : a[s] = b[s]}
  <1>1. IsFiniteSet(T)
    BY FS_Subset
  <1>2. /\ a[{}] = 0
        /\ \A s \in SUBSET S : s # {} => a[s] = f[Pick(s)] + a[s \ {Pick(s)}]
    BY AdderFolds
  <1>3. /\ b[{}] = 0
        /\ \A s \in SUBSET T : s # {} => b[s] = h[Pick(s)] + b[s \ {Pick(s)}]
    BY <1>1, AdderFolds
  <1> HIDE DEF a, b
  <1>4. ASSUME NEW s \in SUBSET T, \A x \in s : s \ {x} \in Q
        PROVE  s \in Q
    <2>1. CASE s # {}
      <3>1. h[Pick(s)] = f[Pick(s)] /\ a[s \ {Pick(s)}] = b[s \ {Pick(s)}]
        BY <1>4, <2>1, PickIn
      <3>2. s \in SUBSET S
        OBVIOUS
      <3> QED
        BY <1>2, <1>3, <2>1, <3>1, <3>2
    <2> QED
      BY <1>2, <1>3, <2>1
  <1>5. SUBSET T \subseteq Q
    <2> HIDE DEF Q
    <2> QED
      BY <1>1, <1>4, SubsetInduction
  <1>6. a[T] = b[T]
    BY <1>5
  <1> QED
    BY <1>6, SumAdder DEF a, b

\* A sum of numbers is a number.
LEMMA SumNat ==
  ASSUME NEW S, IsFiniteSet(S), NEW f, \A x \in S : f[x] \in Nat
  PROVE  Sum(f, S) \in Nat
  BY AdderFolds, SumAdder

\* Nothing adds up to nothing.
LEMMA SumEmpty == \A f : Sum(f, {}) = 0
  BY AdderFolds, SumAdder, FS_EmptySet

\* One term at a time, whichever it is.
LEMMA SumTakes ==
  ASSUME NEW S, IsFiniteSet(S), NEW f, \A x \in S : f[x] \in Nat, NEW x \in S
  PROVE  Sum(f, S) = f[x] + Sum(f, S \ {x})
  <1>1. Adder(f, S)[S] = f[x] + Adder(f, S)[S \ {x}]
    BY AdderTakes
  <1>2. Adder(f, S)[S \ {x}] = Sum(f, S \ {x})
    BY AdderIsSum
  <1> QED
    BY <1>1, <1>2, SumAdder

\* Equal terms have equal sums.
LEMMA SumSame ==
  ASSUME NEW S, IsFiniteSet(S), NEW f, \A x \in S : f[x] \in Nat,
         NEW h, \A x \in S : h[x] = f[x]
  PROVE  Sum(h, S) = Sum(f, S)
  BY AdderIsSum, SumAdder

\* A sum is the sum of its parts.
LEMMA SumPart ==
  ASSUME NEW S, IsFiniteSet(S), NEW f, \A x \in S : f[x] \in Nat, NEW T \in SUBSET S
  PROVE  Sum(f, S) = Sum(f, T) + Sum(f, S \ T)
  <1> DEFINE Q == {s \in SUBSET T : Sum(f, S) = Sum(f, s) + Sum(f, S \ s)}
  <1>1. ASSUME NEW s \in SUBSET T, \A x \in s : s \ {x} \in Q
        PROVE  s \in Q
    <2>1. CASE s = {}
      <3>1. Sum(f, s) = 0 /\ S \ s = S /\ Sum(f, S) \in Nat
        BY <2>1, SumEmpty, SumNat
      <3> QED
        BY <3>1
    <2>2. CASE s # {}
      <3>1. PICK x \in s : TRUE
        BY <2>2
      <3> DEFINE r == s \ {x}
      <3>2. Sum(f, S) = Sum(f, r) + Sum(f, S \ r)
        BY <1>1
      <3>3. IsFiniteSet(s) /\ IsFiniteSet(r) /\ IsFiniteSet(S \ s) /\ IsFiniteSet(S \ r)
        BY FS_Subset
      <3>4. Sum(f, s) = f[x] + Sum(f, r)
        BY <3>3, SumTakes
      <3>5. (S \ r) \ {x} = S \ s /\ x \in S \ r
        OBVIOUS
      <3>6. Sum(f, S \ r) = f[x] + Sum(f, S \ s)
        <4> HIDE DEF r
        <4> QED
          BY <3>3, <3>5, SumTakes
      <3>7. Sum(f, r) \in Nat /\ Sum(f, S \ s) \in Nat /\ f[x] \in Nat
        BY <3>3, SumNat
      <3> HIDE DEF r
      <3>8. Sum(f, S) = Sum(f, s) + Sum(f, S \ s)
        BY <3>2, <3>4, <3>6, <3>7
      <3> QED
        BY <3>8
    <2> QED
      BY <2>1, <2>2
  <1>2. SUBSET T \subseteq Q
    <2> HIDE DEF Q
    <2> QED
      BY <1>1, SubsetInduction, FS_Subset
  <1> QED
    BY <1>2

\* A sum of larger terms is larger.
LEMMA SumGrows ==
  ASSUME NEW S, IsFiniteSet(S), NEW f, \A x \in S : f[x] \in Nat,
         NEW h, \A x \in S : h[x] \in Nat /\ h[x] <= f[x]
  PROVE  Sum(h, S) <= Sum(f, S)
  <1> DEFINE Q == {s \in SUBSET S : Sum(h, s) <= Sum(f, s)}
  <1>1. ASSUME NEW s \in SUBSET S, \A x \in s : s \ {x} \in Q
        PROVE  s \in Q
    <2>1. CASE s = {}
      BY <2>1, SumEmpty
    <2>2. CASE s # {}
      <3>1. PICK x \in s : TRUE
        BY <2>2
      <3> DEFINE r == s \ {x}
      <3>2. Sum(h, r) <= Sum(f, r)
        BY <1>1
      <3>3. IsFiniteSet(s) /\ IsFiniteSet(r)
        BY FS_Subset
      <3>4. Sum(f, s) = f[x] + Sum(f, r) /\ Sum(h, s) = h[x] + Sum(h, r)
        BY <3>3, SumTakes
      <3>5. Sum(f, r) \in Nat /\ Sum(h, r) \in Nat
        BY <3>3, SumNat
      <3> HIDE DEF r
      <3>6. Sum(h, s) <= Sum(f, s)
        BY <3>2, <3>4, <3>5
      <3> QED
        BY <3>6
    <2> QED
      BY <2>1, <2>2
  <1>2. SUBSET S \subseteq Q
    <2> HIDE DEF Q
    <2> QED
      BY <1>1, SubsetInduction
  <1> QED
    BY <1>2

\* No term is larger than most.
LEMMA SumBound ==
  ASSUME NEW S, IsFiniteSet(S), NEW most \in Nat,
         NEW f, \A x \in S : f[x] \in Nat /\ f[x] <= most
  PROVE  Sum(f, S) <= Cardinality(S) * most
  <1> DEFINE Q == {s \in SUBSET S : Sum(f, s) <= Cardinality(s) * most}
  <1>1. ASSUME NEW s \in SUBSET S, \A x \in s : s \ {x} \in Q
        PROVE  s \in Q
    <2>1. CASE s = {}
      BY <2>1, SumEmpty, FS_EmptySet
    <2>2. CASE s # {}
      <3>1. PICK x \in s : TRUE
        BY <2>2
      <3> DEFINE r == s \ {x}
      <3>2. Sum(f, r) <= Cardinality(r) * most
        BY <1>1
      <3>3. IsFiniteSet(s) /\ IsFiniteSet(r)
        BY FS_Subset
      <3>4. Sum(f, s) = f[x] + Sum(f, r) /\ f[x] \in Nat /\ f[x] <= most
        BY <3>3, SumTakes
      <3>5. Sum(f, r) \in Nat
        BY <3>3, SumNat
      <3>6. Cardinality(s) = Cardinality(r) + 1 /\ Cardinality(r) \in Nat
        BY <3>3, FS_RemoveElement, FS_CardinalityType
      <3> HIDE DEF r
      <3>7. Cardinality(s) * most = Cardinality(r) * most + most
        BY <3>6
      <3>8. Sum(f, s) <= Cardinality(s) * most
        <4> DEFINE m == Cardinality(r) * most
                   n == Cardinality(s) * most
        <4>1. m \in Nat /\ n = m + most
          BY <3>6, <3>7
        <4> HIDE DEF m, n
        <4>2. Sum(f, s) <= n
          BY <3>2, <3>4, <3>5, <4>1 DEF m
        <4> QED
          BY <4>2 DEF n
      <3> QED
        BY <3>8
    <2> QED
      BY <2>1, <2>2
  <1>2. SUBSET S \subseteq Q
    <2> HIDE DEF Q
    <2> QED
      BY <1>1, SubsetInduction
  <1> QED
    BY <1>2

\* One term changes and no other grows.
LEMMA SumChanges ==
  ASSUME NEW S, IsFiniteSet(S), NEW f, \A x \in S : f[x] \in Nat,
         NEW c \in S, NEW h, h[c] \in Nat, \A x \in S \ {c} : h[x] \in Nat /\ h[x] <= f[x]
  PROVE  Sum(h, S) + f[c] <= Sum(f, S) + h[c]
  <1>1. Sum(f, S) = f[c] + Sum(f, S \ {c}) /\ Sum(h, S) = h[c] + Sum(h, S \ {c})
    BY SumTakes
  <1>2. IsFiniteSet(S \ {c})
    BY FS_RemoveElement
  <1>3. Sum(h, S \ {c}) <= Sum(f, S \ {c})
    BY <1>2, SumGrows
  <1>4. Sum(h, S \ {c}) \in Nat /\ Sum(f, S \ {c}) \in Nat
    BY <1>2, SumNat
  <1> QED
    BY <1>1, <1>3, <1>4

\* A sum over some of what is in one of two sets.
LEMMA SumUnion ==
  ASSUME NEW S, IsFiniteSet(S), NEW T, IsFiniteSet(T),
         NEW f, \A x \in S \cup T : f[x] \in Nat, NEW R \in SUBSET (S \cup T)
  PROVE  IsFiniteSet(R) /\ Sum(f, R) <= Sum(f, S) + Sum(f, T)
  <1> DEFINE U == S \cup T
  <1>1. IsFiniteSet(U)
    BY FS_Union
  <1>2. IsFiniteSet(R) /\ IsFiniteSet(U \ R) /\ IsFiniteSet(U \ S) /\ IsFiniteSet(T \ (U \ S))
    BY <1>1, FS_Subset, FS_Difference
  <1>3. Sum(f, U) = Sum(f, R) + Sum(f, U \ R) /\ Sum(f, U) = Sum(f, S) + Sum(f, U \ S)
    BY <1>1, SumPart
  <1>4. Sum(f, T) = Sum(f, U \ S) + Sum(f, T \ (U \ S))
    BY SumPart
  <1>5. /\ Sum(f, R) \in Nat /\ Sum(f, U \ R) \in Nat /\ Sum(f, S) \in Nat
        /\ Sum(f, U \ S) \in Nat /\ Sum(f, T \ (U \ S)) \in Nat
    BY <1>2, SumNat
  <1> QED
    BY <1>2, <1>3, <1>4, <1>5

\* A sum over some of a set.
LEMMA SumSome ==
  ASSUME NEW S, IsFiniteSet(S), NEW f, \A x \in S : f[x] \in Nat, NEW T \in SUBSET S
  PROVE  IsFiniteSet(T) /\ Sum(f, T) <= Sum(f, S)
  <1>1. IsFiniteSet(T) /\ IsFiniteSet(S \ T)
    BY FS_Subset
  <1>2. Sum(f, S) = Sum(f, T) + Sum(f, S \ T)
    BY SumPart
  <1>3. Sum(f, T) \in Nat /\ Sum(f, S \ T) \in Nat
    BY <1>1, SumNat
  <1> QED
    BY <1>1, <1>2, <1>3

\* A sum over some of a set and one more.
LEMMA SumAdds ==
  ASSUME NEW S, IsFiniteSet(S), NEW p, NEW f, \A x \in S \cup {p} : f[x] \in Nat,
         NEW T \in SUBSET (S \cup {p})
  PROVE  IsFiniteSet(T) /\ Sum(f, T) <= Sum(f, S) + f[p]
  <1>1. IsFiniteSet({p}) /\ p \in {p} /\ {p} \ {p} = {} /\ f[p] \in Nat
    BY FS_Singleton
  <1>2. Sum(f, {p}) = f[p]
    BY <1>1, SumTakes, SumEmpty
  <1> QED
    BY <1>1, <1>2, SumUnion

\* A sum over an image counts once what several elements have in common.
LEMMA SumImage ==
  ASSUME NEW S, IsFiniteSet(S), NEW e, NEW f, \A x \in S : f[e[x]] \in Nat,
         NEW h, \A x \in S : h[x] = f[e[x]]
  PROVE  LET T == {e[x] : x \in S}
         IN  /\ IsFiniteSet(T)
             /\ Sum(f, T) <= Sum(h, S)
             /\ (\A x, y \in S : e[x] = e[y] => x = y) => Sum(f, T) = Sum(h, S)
  <1> DEFINE T(s) == {e[x] : x \in s}
             Apart(s) == \A x, y \in s : e[x] = e[y] => x = y
             Good(s) == /\ IsFiniteSet(T(s))
                        /\ Sum(f, T(s)) <= Sum(h, s)
                        /\ Apart(s) => Sum(f, T(s)) = Sum(h, s)
             Q == {s \in SUBSET S : Good(s)}
  <1>1. ASSUME NEW s \in SUBSET S, \A x \in s : s \ {x} \in Q
        PROVE  s \in Q
    <2>1. CASE s = {}
      <3>1. T(s) = {} /\ Sum(f, {}) = 0 /\ Sum(h, s) = 0
        BY <2>1, SumEmpty
      <3> QED
        BY <3>1, FS_EmptySet
    <2>2. CASE s # {}
      <3>1. PICK x \in s : TRUE
        BY <2>2
      <3> DEFINE r == s \ {x}
      <3>2. Good(r)
        BY <1>1
      <3>3. IsFiniteSet(s) /\ IsFiniteSet(r) /\ r \in SUBSET S
        BY FS_Subset
      <3>4. Sum(h, s) = h[x] + Sum(h, r) /\ h[x] = f[e[x]] /\ f[e[x]] \in Nat
        BY <3>3, SumTakes
      <3>5. T(s) = T(r) \cup {e[x]}
        OBVIOUS
      <3>6. IsFiniteSet(T(s))
        <4> HIDE DEF T, r
        <4> QED
          BY <3>2, <3>5, FS_AddElement DEF Good
      <3>7. \A y \in T(s) : f[y] \in Nat
        OBVIOUS
      <3>8. Sum(h, r) \in Nat /\ Sum(f, T(r)) \in Nat
        <4>1. Sum(h, r) \in Nat
          BY <3>3, SumNat
        <4>2. \A y \in T(r) : f[y] \in Nat
          OBVIOUS
        <4> HIDE DEF T, r
        <4> QED
          BY <3>2, <4>1, <4>2, SumNat DEF Good
      <3>9. CASE e[x] \in T(r)
        <4>1. T(s) = T(r)
          BY <3>5, <3>9
        <4>2. ~Apart(s)
          BY <3>9
        <4> HIDE DEF T, r, Apart
        <4> QED
          BY <3>2, <3>4, <3>6, <3>8, <4>1, <4>2
      <3>10. CASE e[x] \notin T(r)
        <4>1. T(s) \ {e[x]} = T(r)
          BY <3>5, <3>10
        <4>2. Sum(f, T(s)) = f[e[x]] + Sum(f, T(r))
          <5>1. e[x] \in T(s)
            OBVIOUS
          <5> HIDE DEF T
          <5> QED
            BY <3>6, <3>7, <4>1, <5>1, SumTakes
        <4>3. Apart(s) => Apart(r)
          OBVIOUS
        <4> HIDE DEF T, r, Apart
        <4> QED
          BY <3>2, <3>4, <3>6, <3>8, <4>2, <4>3
      <3> QED
        BY <3>9, <3>10
    <2> QED
      BY <2>1, <2>2
  <1>2. SUBSET S \subseteq Q
    <2> HIDE DEF Q
    <2> QED
      BY <1>1, SubsetInduction
  <1> QED
    BY <1>2

\* All the terms but one are bounded, and that one is what it is.
LEMMA SumBoundBut ==
  ASSUME NEW S, IsFiniteSet(S), NEW most \in Nat, NEW c \in S,
         NEW f, f[c] \in Nat, \A x \in S \ {c} : f[x] \in Nat /\ f[x] <= most
  PROVE  Sum(f, S) <= f[c] + (Cardinality(S) - 1) * most
  <1>1. Sum(f, S) = f[c] + Sum(f, S \ {c})
    BY SumTakes
  <1>2. IsFiniteSet(S \ {c}) /\ Cardinality(S \ {c}) = Cardinality(S) - 1
    BY FS_RemoveElement
  <1>3. Sum(f, S \ {c}) <= Cardinality(S \ {c}) * most
    BY <1>2, SumBound
  <1>4. Sum(f, S \ {c}) \in Nat
    BY <1>2, SumNat
  <1>5. Cardinality(S \ {c}) \in Nat
    BY <1>2, FS_CardinalityType
  <1> DEFINE n == Cardinality(S \ {c}) * most
  <1>6. n \in Nat
    BY <1>5
  <1>7. (Cardinality(S) - 1) * most = n
    BY <1>2
  <1> HIDE DEF n
  <1> QED
    BY <1>1, <1>3, <1>4, <1>6, <1>7 DEF n

\* What is bounded has a largest.
LEMMA MaxIs ==
  ASSUME NEW S \in SUBSET Nat, S # {}, NEW most \in Nat, \A x \in S : x <= most
  PROVE  Max(S) \in S /\ \A x \in S : x <= Max(S)
  <1> DEFINE Q == {n \in Nat : (\A x \in S : x <= n) => \E m \in S : \A x \in S : x <= m}
  <1>1. 0 \in Q
    <2>1. PICK x \in S : TRUE
      OBVIOUS
    <2>2. (\A y \in S : y <= 0) => \A y \in S : y <= x
      BY <2>1
    <2> QED
      BY <2>2
  <1>2. ASSUME NEW n \in Nat, n \in Q
        PROVE  n + 1 \in Q
    <2>1. CASE n + 1 \in S
      BY <2>1
    <2>2. CASE n + 1 \notin S
      <3>1. (\A x \in S : x <= n + 1) => \A x \in S : x <= n
        BY <2>2
      <3> QED
        BY <1>2, <3>1
    <2> QED
      BY <2>1, <2>2
  <1>3. most \in Q
    <2> HIDE DEF Q
    <2> QED
      BY <1>1, <1>2, NatInduct
  <1>4. PICK m \in S : \A x \in S : x <= m
    BY <1>3
  <1>5. \A x \in S : m >= x
    BY <1>4
  <1>6. Max(S) \in S /\ \A x \in S : Max(S) >= x
    BY <1>5, Zenon DEF Max
  <1> QED
    BY <1>6
------------------------------------------------------------------------------
(***************************************************************************)
(* Sizes, and what the store is to hold: what it holds and the writes      *)
(* still on their way.                                                     *)
(***************************************************************************)
\* A size is a usize: whatever the keys are, there is a largest.
SizesBounded == \E most \in Nat : \A k \in Keys : MetaBytes[k] <= most /\ PatchesBytes[k] <= most

\* Fewer halves are no more bytes, and a half and the rest are the whole.
LEMMA BytesAre ==
  ASSUME NEW k \in Keys, NEW halves \in SUBSET Halves
  PROVE  /\ BytesOf(k, halves) \in Nat
         /\ \A some \in SUBSET halves : BytesOf(k, some) <= BytesOf(k, halves)
         /\ \A half \in halves : 
              BytesOf(k, halves) = BytesOf(k, {half}) + BytesOf(k, halves \ {half})
  <1>1. MetaBytes[k] \in Nat /\ PatchesBytes[k] \in Nat
    BY BytesAssumption
  <1> QED
    BY <1>1 DEF BytesOf, Halves

\* Largest bounds an entry and what is left of it to write, LargestBlob a blob.
LEMMA LargestIs ==
  ASSUME SizesBounded
  PROVE  /\ Largest \in Nat /\ LargestBlob \in Nat
         /\ \A k \in Keys : \A halves \in SUBSET HalvesOf(k) : BytesOf(k, halves) <= Largest
         /\ \A k \in Keys : \A half \in Halves : BytesOf(k, {half}) <= LargestBlob
  <1>1. PICK most \in Nat : \A k \in Keys : MetaBytes[k] <= most /\ PatchesBytes[k] <= most
    BY DEF SizesBounded
  <1>2. ASSUME NEW k \in Keys, NEW halves \in SUBSET Halves
        PROVE  BytesOf(k, halves) \in Nat /\ BytesOf(k, halves) <= most + most
    <2>1. MetaBytes[k] \in Nat /\ PatchesBytes[k] \in Nat
      BY BytesAssumption
    <2> QED
      BY <1>1, <2>1 DEF BytesOf
  <1>3. \A k \in Keys : HalvesOf(k) \in SUBSET Halves
    BY DEF HalvesOf, Halves
  <1>4. PICK key \in Keys : TRUE
    BY KeysAssumption
  <1> DEFINE E == {BytesOf(k, HalvesOf(k)) : k \in Keys}
             B == {BytesOf(k, {half}) : k \in Keys, half \in Halves}
  <1>5. E \in SUBSET Nat /\ E # {} /\ \A x \in E : x <= most + most
    BY <1>2, <1>3, <1>4
  <1>a. \A x : x \in B <=> \E k \in Keys, half \in Halves : x = BytesOf(k, {half})
    BY SMT
  <1>6. B \in SUBSET Nat /\ B # {} /\ \A x \in B : x <= most + most
    <2>1. \A half \in Halves : {half} \in SUBSET Halves
      OBVIOUS
    <2>2. "meta" \in Halves
      BY DEF Halves
    <2> HIDE DEF B
    <2>3. ASSUME NEW x \in B
          PROVE  x \in Nat /\ x <= most + most
      <3>1. PICK k \in Keys, half \in Halves : x = BytesOf(k, {half})
        BY <1>a
      <3> QED
        BY <1>2, <2>1, <3>1
    <2>4. BytesOf(key, {"meta"}) \in B
      BY <1>a, <2>2
    <2> QED
      BY <2>3, <2>4
  <1>7. Largest = Max(E) /\ LargestBlob = Max(B)
    BY DEF Largest, LargestBlob
  <1>8. /\ Largest \in E /\ \A x \in E : x <= Largest
        /\ LargestBlob \in B /\ \A x \in B : x <= LargestBlob
    <2> HIDE DEF E, B
    <2> QED
      BY <1>5, <1>6, <1>7, MaxIs
  <1>9. ASSUME NEW k \in Keys, NEW halves \in SUBSET HalvesOf(k)
        PROVE  BytesOf(k, halves) <= Largest
    <2>1. BytesOf(k, halves) <= BytesOf(k, HalvesOf(k)) /\ BytesOf(k, HalvesOf(k)) <= Largest
      BY <1>3, <1>8, BytesAre
    <2> QED
      BY <1>2, <1>3, <1>5, <1>8, <2>1
  <1>10. \A k \in Keys : \A half \in Halves : BytesOf(k, {half}) <= LargestBlob
    <2> HIDE DEF B
    <2> QED
      BY <1>8, <1>a
  <1> HIDE DEF E, B
  <1>11. Largest \in Nat /\ LargestBlob \in Nat
    BY <1>5, <1>6, <1>8
  <1> QED
    BY <1>9, <1>10, <1>11

ByteSize == [b \in Blob |-> BytesOf(b.of, {b.half})]

\* Total adds up with the operators above.
LEMMA TotalIsSum ==
  ASSUME NEW S \in SUBSET Blob
  PROVE  Total(S) = Sum(ByteSize, S)
  <1> DEFINE A(g) == g = [s \in SUBSET S |-> IF s = {} THEN 0
                            ELSE BytesOf(Pick(s).of, {Pick(s).half}) + g[s \ {Pick(s)}]]
  <1>1. ASSUME NEW g
        PROVE  A(g) <=> FoldsOver(g, ByteSize, S)
    <2>1. \A s \in SUBSET S : s # {} => ByteSize[Pick(s)] = BytesOf(Pick(s).of, {Pick(s).half})
      BY PickIn DEF ByteSize
    <2> QED
      BY <2>1 DEF FoldsOver
  <1>2. Total(S) = (CHOOSE g : A(g))[S]
    BY DEF Total, MapThenSumSet, MapThenFoldSet, Pick
  <1>3. (CHOOSE g : A(g)) = (CHOOSE g : FoldsOver(g, ByteSize, S))
    <2> HIDE DEF A
    <2> QED
      BY <1>1, Zenon
  <1> QED
    BY <1>2, <1>3, SumIs

------------------------------------------------------------------------------
\* What the store is to hold: what it holds, and the writes still on their way.
RequestOf(b) == [id |-> b.id, half |-> b.half, of |-> b.of]
BytesFor == [p \in PutRequest |-> BytesOf(p.of, {p.half})]
Due(S, late) == {RequestOf(b) : b \in S} \cup late
DueBytes(S, late) == Sum(BytesFor, Due(S, late))

\* A write is as many bytes as the half it writes.
LEMMA BytesForAre ==
  \A p \in PutRequest : BytesFor[p] \in Nat /\ BytesFor[p] = BytesOf(p.of, {p.half})
  BY BytesAre DEF BytesFor, PutRequest, Halves

\* The requests that made some blobs: as many bytes, unless a pathname has two blobs.
LEMMA RequestsBytes ==
  ASSUME NEW S \in SUBSET Blob, IsFiniteSet(S)
  PROVE  LET T == {RequestOf(b) : b \in S}
         IN  /\ T \subseteq PutRequest
             /\ IsFiniteSet(T)
             /\ Sum(BytesFor, T) <= Total(S)
             /\ (\A b, d \in S : b.id = d.id /\ b.half = d.half => b = d)
                  => Sum(BytesFor, T) = Total(S)
  <1> DEFINE e == [b \in Blob |-> RequestOf(b)]
             T == {RequestOf(b) : b \in S}
  <1>1. T = {e[b] : b \in S} /\ T \subseteq PutRequest
    <2>1. \A b \in S : e[b] = RequestOf(b)
      OBVIOUS
    <2>2. \A b \in S : RequestOf(b) \in PutRequest
      BY DEF RequestOf, Blob, PutRequest
    <2> HIDE DEF e
    <2> QED
      BY <2>1, <2>2
  <1>2. \A b \in S : BytesFor[e[b]] \in Nat /\ ByteSize[b] = BytesFor[e[b]]
    <2>1. \A b \in S : e[b] \in PutRequest /\ e[b].of = b.of /\ e[b].half = b.half
      BY DEF RequestOf, Blob, PutRequest
    <2> QED
      BY <2>1, BytesForAre DEF ByteSize
  <1>3. (\A b, d \in S : b.id = d.id /\ b.half = d.half => b = d)
          => \A b, d \in S : e[b] = e[d] => b = d
    BY DEF RequestOf
  <1> HIDE DEF e
  <1>4. /\ IsFiniteSet({e[b] : b \in S})
        /\ Sum(BytesFor, {e[b] : b \in S}) <= Sum(ByteSize, S)
        /\ (\A b, d \in S : e[b] = e[d] => b = d)
             => Sum(BytesFor, {e[b] : b \in S}) = Sum(ByteSize, S)
    BY <1>2, SumImage
  <1> HIDE DEF T
  <1>5. /\ T \subseteq PutRequest
        /\ IsFiniteSet(T)
        /\ Sum(BytesFor, T) <= Total(S)
        /\ (\A b, d \in S : b.id = d.id /\ b.half = d.half => b = d)
             => Sum(BytesFor, T) = Total(S)
    BY <1>1, <1>3, <1>4, TotalIsSum
  <1> QED
    BY <1>5 DEF T

\* The writes on the wire are few.
LEMMA LateBytes ==
  ASSUME SizesBounded, NEW late \in SUBSET PutRequest, IsFiniteSet(late),
         Cardinality(late) <= MaxLate
  PROVE  /\ Sum(BytesFor, late) \in Nat
         /\ Sum(BytesFor, late) <= MaxLate * LargestBlob
         /\ MaxLate * LargestBlob \in Nat
  <1> DEFINE n == Cardinality(late)
  <1>1. n \in Nat
    BY FS_CardinalityType
  <1>2. MaxLate \in Nat /\ n <= MaxLate /\ LargestBlob \in Nat
    BY BytesAssumption, LargestIs
  <1>3. \A p \in late : BytesFor[p] \in Nat /\ BytesFor[p] <= LargestBlob
    <2>1. \A p \in PutRequest : p.of \in Keys /\ p.half \in Halves
      BY DEF PutRequest
    <2> QED
      BY <2>1, BytesForAre, LargestIs
  <1>4. Sum(BytesFor, late) \in Nat /\ Sum(BytesFor, late) <= n * LargestBlob
    BY <1>2, <1>3, SumNat, SumBound
  <1>5. n * LargestBlob <= MaxLate * LargestBlob /\ MaxLate * LargestBlob \in Nat
        /\ n * LargestBlob \in Nat
    <2> HIDE DEF n
    <2> QED
      BY <1>1, <1>2
  <1> HIDE DEF n
  <1> QED
    BY <1>4, <1>5

\* What is due is at least what is held, and at most that and what is late.
LEMMA DueIs ==
  ASSUME NEW S \in SUBSET Blob, IsFiniteSet(S), NEW late \in SUBSET PutRequest, IsFiniteSet(late)
  PROVE  /\ Due(S, late) \subseteq PutRequest /\ IsFiniteSet(Due(S, late))
         /\ DueBytes(S, late) \in Nat
         /\ DueBytes(S, late) <= Total(S) + Sum(BytesFor, late)
         /\ (\A b, d \in S : b.id = d.id /\ b.half = d.half => b = d)
              => Total(S) <= DueBytes(S, late)
         /\ Total(S) \in Nat
  <1> DEFINE T == {RequestOf(b) : b \in S}
  <1>1. Due(S, late) = T \cup late
    BY DEF Due
  <1>2. /\ T \subseteq PutRequest
        /\ IsFiniteSet(T)
        /\ Sum(BytesFor, T) <= Total(S)
        /\ (\A b, d \in S : b.id = d.id /\ b.half = d.half => b = d)
             => Sum(BytesFor, T) = Total(S)
    BY RequestsBytes
  <1>3. Total(S) \in Nat
    <2>1. \A b \in S : ByteSize[b] \in Nat
      <3>1. \A b \in Blob : b.of \in Keys /\ {b.half} \in SUBSET Halves
        BY DEF Blob
      <3> QED
        BY <3>1, BytesAre DEF ByteSize
    <2> QED
      BY <2>1, SumNat, TotalIsSum
  <1> HIDE DEF T
  <1>4. \A p \in PutRequest : BytesFor[p] \in Nat
    BY BytesForAre
  <1>5. IsFiniteSet(Due(S, late)) /\ Due(S, late) \subseteq PutRequest
    BY <1>1, <1>2, FS_Union
  <1>6. DueBytes(S, late) \in Nat /\ Sum(BytesFor, T) \in Nat /\ Sum(BytesFor, late) \in Nat
    BY <1>2, <1>4, <1>5, SumNat DEF DueBytes
  <1>7. DueBytes(S, late) <= Sum(BytesFor, T) + Sum(BytesFor, late)
    BY <1>1, <1>2, <1>4, SumUnion DEF DueBytes
  <1>8. Sum(BytesFor, T) <= DueBytes(S, late)
    <2>1. T \in SUBSET (Due(S, late) \cup {}) /\ IsFiniteSet({}) /\ Sum(BytesFor, {}) = 0
      BY <1>1, SumEmpty, FS_EmptySet
    <2>2. \A p \in Due(S, late) \cup {} : BytesFor[p] \in Nat
      BY <1>4, <1>5
    <2>3. Sum(BytesFor, T) <= DueBytes(S, late) + Sum(BytesFor, {})
      BY <1>5, <2>1, <2>2, SumUnion DEF DueBytes
    <2> QED
      BY <1>6, <2>1, <2>3
  <1> QED
    BY <1>2, <1>3, <1>5, <1>6, <1>7, <1>8

\* What a listing still counts, and what has come since.
LEMMA DueSince ==
  ASSUME NEW S \in SUBSET Blob, IsFiniteSet(S), NEW L \in SUBSET Blob, IsFiniteSet(L),
         NEW late \in SUBSET PutRequest, IsFiniteSet(late)
  PROVE  DueBytes(S, late) <= Total(L) + DueBytes(S \ L, late)
  <1> DEFINE T == {RequestOf(b) : b \in L}
  <1>1. T \subseteq PutRequest /\ IsFiniteSet(T) /\ Sum(BytesFor, T) <= Total(L)
    BY RequestsBytes
  <1>2. Due(S, late) \subseteq T \cup Due(S \ L, late)
    BY DEF Due
  <1> HIDE DEF T
  <1>3. IsFiniteSet(S \ L) /\ S \ L \in SUBSET Blob
    BY FS_Difference
  <1>4. /\ IsFiniteSet(Due(S \ L, late)) /\ Due(S \ L, late) \subseteq PutRequest
        /\ DueBytes(S \ L, late) \in Nat
    BY <1>3, DueIs
  <1>5. \A p \in T \cup Due(S \ L, late) : BytesFor[p] \in Nat
    BY <1>1, <1>4, BytesForAre
  <1>6. DueBytes(S, late) <= Sum(BytesFor, T) + DueBytes(S \ L, late)
    BY <1>1, <1>2, <1>4, <1>5, SumUnion DEF DueBytes
  <1>7. Sum(BytesFor, T) \in Nat /\ DueBytes(S, late) \in Nat /\ Total(L) \in Nat
    BY <1>1, <1>5, SumNat, DueIs
  <1> QED
    BY <1>1, <1>4, <1>6, <1>7
------------------------------------------------------------------------------
(***************************************************************************)
(* What the calls claim: a call that was admitted, the bytes it has left   *)
(* to write; a sweep that is counted, the largest entry.                   *)
(***************************************************************************)
\* What holds of a call's locals at each step of a write: it never asks for a
\* half its entry is not written as, and never lists for nothing.
Asks(r) ==
  /\ r.missing \subseteq HalvesOf(r.key)
  /\ r.pc = "headPatches" => Fits(r.key)
  /\ r.pc \in {"list", "sweep", "recheck", "put"} => r.missing # {}
  /\ IsFiniteSet(r.listing)

Asking == {K \in [Calls -> CallState] : \A c \in Calls : Asks(K[c])}

\* The bytes call c may still write without another listing, in calls K where X
\* are the sweeps that are counted as if they were to be admitted.
Claim(K, c, X) ==
  IF K[c].pc \in {"recheck", "put"} THEN BytesOf(K[c].key, K[c].missing)
  ELSE IF c \in X THEN Largest ELSE 0
Claims(K, X) == Sum([c \in Calls |-> Claim(K, c, X)], Calls)

\* A claim is no more than the largest entry, and no less for a call that was overtaken.
LEMMA ClaimIs ==
  ASSUME SizesBounded, NEW K \in Asking, NEW c \in Calls, NEW X
  PROVE  /\ Claim(K, c, X) \in Nat /\ Claim(K, c, X) <= Largest
         /\ \A Y : c \in Y \/ c \notin X => Claim(K, c, X) <= Claim(K, c, Y)
  <1>1. /\ K[c].key \in Keys /\ K[c].missing \in SUBSET Halves
        /\ K[c].missing \in SUBSET HalvesOf(K[c].key)
    BY DEF Asking, Asks, CallState
  <1>2. Largest \in Nat
    BY LargestIs
  <1>3. BytesOf(K[c].key, K[c].missing) \in Nat /\ BytesOf(K[c].key, K[c].missing) <= Largest
    BY <1>1, BytesAre, LargestIs
  <1> QED
    BY <1>2, <1>3 DEF Claim

\* The claims of all calls are a number of bytes.
LEMMA ClaimsNat ==
  ASSUME SizesBounded, IsFiniteSet(Calls), NEW K \in Asking, NEW X
  PROVE  Claims(K, X) \in Nat
  <1> DEFINE f == [c \in Calls |-> Claim(K, c, X)]
  <1>1. \A c \in Calls : f[c] \in Nat
    BY ClaimIs
  <1> HIDE DEF f
  <1> QED
    BY <1>1, SumNat DEF Claims, f

\* One call moves: what the others claim has not grown if they are counted as before.
LEMMA ClaimsMove ==
  ASSUME SizesBounded, IsFiniteSet(Calls), NEW K \in Asking, NEW J \in Asking, NEW c \in Calls,
         \A d \in Calls \ {c} : J[d] = K[d], NEW X, NEW Y, Y \ {c} \subseteq X
  PROVE  Claims(J, Y) + Claim(K, c, X) <= Claims(K, X) + Claim(J, c, Y)
  <1> DEFINE f == [d \in Calls |-> Claim(K, d, X)]
             h == [d \in Calls |-> Claim(J, d, Y)]
  <1>1. \A d \in Calls : f[d] \in Nat
    BY ClaimIs
  <1>2. ASSUME NEW d \in Calls \ {c}
        PROVE  h[d] \in Nat /\ h[d] <= f[d]
    <2>1. h[d] = Claim(K, d, Y) /\ f[d] = Claim(K, d, X)
      BY DEF Claim
    <2>2. Claim(K, d, Y) <= Claim(K, d, X) /\ Claim(K, d, Y) \in Nat
      BY ClaimIs
    <2> HIDE DEF f, h
    <2> QED
      BY <2>1, <2>2
  <1>3. f[c] = Claim(K, c, X) /\ h[c] = Claim(J, c, Y) /\ h[c] \in Nat
    BY ClaimIs
  <1> HIDE DEF f, h
  <1>4. Sum(h, Calls) + f[c] <= Sum(f, Calls) + h[c]
    BY <1>1, <1>2, <1>3, SumChanges
  <1> QED
    BY <1>3, <1>4 DEF Claims, f, h

\* All but one call claim the largest entry at most.
LEMMA ClaimsBound ==
  ASSUME SizesBounded, IsFiniteSet(Calls), NEW K \in Asking, NEW c \in Calls, NEW X
  PROVE  Claims(K, X) <= Claim(K, c, X) + (Cardinality(Calls) - 1) * Largest
  <1> DEFINE f == [d \in Calls |-> Claim(K, d, X)]
  <1>1. \A d \in Calls : f[d] \in Nat /\ f[d] <= Largest
    BY ClaimIs
  <1>2. f[c] = Claim(K, c, X) /\ Largest \in Nat
    BY LargestIs
  <1> HIDE DEF f
  <1>3. Sum(f, Calls) <= f[c] + (Cardinality(Calls) - 1) * Largest
    BY <1>1, <1>2, SumBoundBut
  <1> QED
    BY <1>2, <1>3 DEF Claims, f
------------------------------------------------------------------------------
(***************************************************************************)
(* The order of the listings, and the four kinds of step: a call moves     *)
(* bytes from its claim to the store, admits, lists, or ends a sweep that  *)
(* made room.                                                              *)
(***************************************************************************)
\* What goes over the budget.
Extra == (Cardinality(Calls) - 1) * Largest + MaxLate * LargestBlob

Sweepers(K) == {c \in Calls : K[c].pc = "sweep"}
Before(K, rank, n) == {c \in Sweepers(K) : rank[c] < n}

\* Sweeps are in one order.  What is due and what the overtaken sweeps may add is
\* within the budget and what goes over it; and what came after a listing that
\* was not overtaken, and what the sweeps before it may add, is within what goes
\* over it alone.
Ordered(B, late, K, rank, outdated) ==
  /\ \A c, d \in Sweepers(K) : rank[c] = rank[d] => c = d
  /\ DueBytes(B, late) + Claims(K, Before(K, rank, outdated)) <= MaxBytes + Extra
  /\ \A c \in Sweepers(K) :
       rank[c] >= outdated =>
         DueBytes(B \ K[c].listing, late) + Claims(K, Before(K, rank, rank[c])) <= Extra

\* What a store and its wire may hold.
Held(B, late) ==
  /\ B \in SUBSET Blob /\ IsFiniteSet(B)
  /\ late \in SUBSET PutRequest /\ IsFiniteSet(late)
  /\ Cardinality(late) <= MaxLate

\* Sizes are bounded, and some calls are served at once.
Setting == SizesBounded /\ IsFiniteSet(Calls) /\ Calls # {}

\* What goes over the budget is a number of bytes.
LEMMA ExtraIs ==
  ASSUME Setting
  PROVE  /\ Largest \in Nat /\ LargestBlob \in Nat
         /\ (Cardinality(Calls) - 1) * Largest \in Nat
         /\ MaxLate * LargestBlob \in Nat
         /\ Extra \in Nat
  <1>1. Cardinality(Calls) \in Nat /\ Cardinality(Calls) # 0
    BY FS_CardinalityType, FS_EmptySet DEF Setting
  <1>2. Cardinality(Calls) - 1 \in Nat
    BY <1>1
  <1>3. Largest \in Nat /\ LargestBlob \in Nat /\ MaxLate \in Nat
    BY LargestIs, BytesAssumption DEF Setting
  <1>4. \A m, n \in Nat : m * n \in Nat
    OBVIOUS
  <1>5. (Cardinality(Calls) - 1) * Largest \in Nat /\ MaxLate * LargestBlob \in Nat
    BY <1>2, <1>3, <1>4
  <1> QED
    BY <1>3, <1>5 DEF Extra

\* What is due is a number of bytes.
LEMMA DueNat ==
  ASSUME NEW B, NEW late, Held(B, late), NEW S \in SUBSET B
  PROVE  DueBytes(S, late) \in Nat
  BY FS_Subset, DueIs DEF Held

\* A step that moves n bytes from a call's claim to the store, or fewer.
Moves(B, late, K, A, wire, J, c, n) ==
  /\ \A d \in Calls \ {c} : J[d] = K[d]
  /\ \A X \in SUBSET Sweepers(K) : \A Y \in SUBSET (Sweepers(J) \cap X) :
       Claim(J, c, Y) + n <= Claim(K, c, X)
  /\ DueBytes(A, wire) <= DueBytes(B, late) + n
  /\ \A d \in Sweepers(J) :
       /\ d \in Sweepers(K)
       /\ DueBytes(A \ J[d].listing, wire) <= DueBytes(B \ K[d].listing, late) + n

\* The order outlives a step that moves bytes from a claim to the store.
LEMMA MovingKeeps ==
  ASSUME Setting, NEW K \in Asking, NEW J \in Asking, NEW c \in Calls, NEW n \in Nat,
         NEW B, NEW late, Held(B, late), NEW A, NEW wire, Held(A, wire),
         Moves(B, late, K, A, wire, J, c, n),
         NEW rank \in [Calls -> Nat], NEW outdated \in Nat, Ordered(B, late, K, rank, outdated)
  PROVE  Ordered(A, wire, J, rank, outdated)
  <1>1. Sweepers(J) \subseteq Sweepers(K)
    BY DEF Moves
  <1>2. ASSUME NEW m
        PROVE  /\ Claims(J, Before(J, rank, m)) + n <= Claims(K, Before(K, rank, m))
               /\ Claims(J, Before(J, rank, m)) \in Nat
               /\ Claims(K, Before(K, rank, m)) \in Nat
    <2> DEFINE X == Before(K, rank, m)
               Y == Before(J, rank, m)
    <2>1. X \subseteq Sweepers(K) /\ Y \subseteq Sweepers(J) \cap X
      BY <1>1 DEF Before
    <2> HIDE DEF X, Y
    <2>2. Claims(J, Y) + Claim(K, c, X) <= Claims(K, X) + Claim(J, c, Y)
      BY <2>1, ClaimsMove DEF Moves, Setting
    <2>3. Claim(J, c, Y) + n <= Claim(K, c, X)
      BY <2>1 DEF Moves
    <2>4. /\ Claims(J, Y) \in Nat /\ Claims(K, X) \in Nat
          /\ Claim(J, c, Y) \in Nat /\ Claim(K, c, X) \in Nat
      BY ClaimIs, ClaimsNat DEF Setting
    <2>5. Claims(J, Y) + n <= Claims(K, X)
      BY <2>2, <2>3, <2>4
    <2> QED
      BY <2>4, <2>5 DEF X, Y
  <1>3. Extra \in Nat /\ MaxBytes \in Nat
    BY ExtraIs, BytesAssumption
  <1>4. DueBytes(A, wire) + Claims(J, Before(J, rank, outdated)) <= MaxBytes + Extra
    <2>1. DueBytes(A, wire) \in Nat /\ DueBytes(B, late) \in Nat
      BY DueNat
    <2>2. DueBytes(A, wire) <= DueBytes(B, late) + n
      BY DEF Moves
    <2>3. DueBytes(B, late) + Claims(K, Before(K, rank, outdated)) <= MaxBytes + Extra
      BY DEF Ordered
    <2> QED
      BY <1>2, <1>3, <2>1, <2>2, <2>3
  <1>5. ASSUME NEW d \in Sweepers(J), rank[d] >= outdated
        PROVE  DueBytes(A \ J[d].listing, wire) + Claims(J, Before(J, rank, rank[d])) <= Extra
    <2>1. DueBytes(A \ J[d].listing, wire) \in Nat /\ DueBytes(B \ K[d].listing, late) \in Nat
      BY DueNat
    <2>2. d \in Sweepers(K)
          /\ DueBytes(A \ J[d].listing, wire) <= DueBytes(B \ K[d].listing, late) + n
      BY DEF Moves
    <2>3. DueBytes(B \ K[d].listing, late) + Claims(K, Before(K, rank, rank[d])) <= Extra
      BY <1>5, <2>2 DEF Ordered
    <2> QED
      BY <1>2, <1>3, <2>1, <2>2, <2>3
  <1>6. \A d, e \in Sweepers(J) : rank[d] = rank[e] => d = e
    BY <1>1 DEF Ordered
  <1> QED
    BY <1>4, <1>5, <1>6 DEF Ordered

\* A listing that admits: every listing taken before it is out of date.
LEMMA AdmittingKeeps ==
  ASSUME Setting, NEW K \in Asking, NEW J \in Asking, NEW c \in Calls,
         \A d \in Calls \ {c} : J[d] = K[d],
         K[c].pc = "list", J[c].pc = "recheck",
         J[c].key = K[c].key, J[c].missing = K[c].missing,
         NEW B, NEW late, Held(B, late),
         Total(B) + BytesOf(K[c].key, K[c].missing) <= MaxBytes,
         NEW rank \in [Calls -> Nat], NEW outdated \in Nat, Ordered(B, late, K, rank, outdated),
         NEW next \in Nat, \A d \in Calls : rank[d] < next
  PROVE  Ordered(B, late, J, rank, next)
  <1>1. Sweepers(J) \subseteq Sweepers(K)
    BY DEF Sweepers
  <1>2. \A d \in Sweepers(J) : ~(rank[d] >= next)
    BY DEF Sweepers
  <1> DEFINE X == Before(J, rank, next)
             b == BytesOf(K[c].key, K[c].missing)
  <1>3. Claims(J, X) <= Claim(J, c, X) + (Cardinality(Calls) - 1) * Largest
    BY ClaimsBound DEF Setting
  <1>4. Claim(J, c, X) = b
    BY DEF Claim
  <1>5. /\ Total(B) \in Nat /\ DueBytes(B, late) \in Nat
        /\ DueBytes(B, late) <= Total(B) + Sum(BytesFor, late)
        /\ Sum(BytesFor, late) \in Nat /\ Sum(BytesFor, late) <= MaxLate * LargestBlob
    BY DueIs, LateBytes DEF Held, Setting
  <1>6. Claims(J, X) \in Nat /\ b \in Nat
    BY <1>4, ClaimIs, ClaimsNat DEF Setting
  <1> HIDE DEF X, b
  <1>7. DueBytes(B, late) + Claims(J, X) <= MaxBytes + Extra
    <2>1. Total(B) + b <= MaxBytes /\ MaxBytes \in Nat
      BY BytesAssumption DEF b
    <2> QED
      BY <1>3, <1>4, <1>5, <1>6, <2>1, ExtraIs DEF Extra
  <1> QED
    BY <1>1, <1>2, <1>7 DEF Ordered, X

\* A listing that has to sweep: it is the newest, and what came since is what is late.
LEMMA ListingKeeps ==
  ASSUME Setting, NEW K \in Asking, NEW J \in Asking, NEW c \in Calls,
         \A d \in Calls \ {c} : J[d] = K[d],
         K[c].pc = "list", J[c].pc = "sweep",
         NEW B, NEW late, Held(B, late), J[c].listing = B,
         NEW rank \in [Calls -> Nat], NEW outdated \in Nat, Ordered(B, late, K, rank, outdated),
         NEW next \in Nat, outdated <= next, \A d \in Calls : rank[d] < next
  PROVE  Ordered(B, late, J, [rank EXCEPT ![c] = next], outdated)
  <1> DEFINE r == [rank EXCEPT ![c] = next]
  <1>1. r[c] = next /\ (\A d \in Calls \ {c} : r[d] = rank[d]) /\ r \in [Calls -> Nat]
    OBVIOUS
  <1> HIDE DEF r
  <1>2. Sweepers(J) = Sweepers(K) \cup {c} /\ c \notin Sweepers(K)
    BY DEF Sweepers
  <1>3. ASSUME NEW m \in Nat, m <= next
        PROVE  /\ Before(J, r, m) = Before(K, rank, m)
               /\ Claims(J, Before(J, r, m)) <= Claims(K, Before(K, rank, m))
    <2> DEFINE X == Before(K, rank, m)
    <2>1. Before(J, r, m) = X /\ c \notin X
      BY <1>1, <1>2, <1>3 DEF Before, Sweepers
    <2> HIDE DEF X
    <2>2. Claims(J, X) + Claim(K, c, X) <= Claims(K, X) + Claim(J, c, X)
      BY ClaimsMove DEF Setting
    <2>3. Claim(K, c, X) = 0 /\ Claim(J, c, X) = 0
      BY <2>1 DEF Claim
    <2>4. Claims(J, X) \in Nat /\ Claims(K, X) \in Nat
      BY ClaimsNat DEF Setting
    <2> QED
      BY <2>1, <2>2, <2>3, <2>4 DEF X
  <1>4. \A m \in Nat : Claims(K, Before(K, rank, m)) \in Nat /\ Claims(J, Before(J, r, m)) \in Nat
    BY ClaimsNat DEF Setting
  <1>5. Extra \in Nat /\ MaxBytes \in Nat /\ DueBytes(B, late) \in Nat
    BY ExtraIs, BytesAssumption, DueNat
  <1>6. DueBytes(B, late) + Claims(J, Before(J, r, outdated)) <= MaxBytes + Extra
    <2>1. DueBytes(B, late) + Claims(K, Before(K, rank, outdated)) <= MaxBytes + Extra
      BY DEF Ordered
    <2> QED
      BY <1>3, <1>4, <1>5, <2>1
  <1>7. ASSUME NEW d \in Sweepers(J), r[d] >= outdated
        PROVE  DueBytes(B \ J[d].listing, late) + Claims(J, Before(J, r, r[d])) <= Extra
    <2>1. CASE d = c
      <3>1. B \ J[d].listing = {} /\ r[d] = next
        BY <1>1, <2>1
      <3> DEFINE X == Before(J, r, next)
      <3>2. c \notin X
        BY <1>1 DEF Before
      <3>3. Claims(J, X) <= (Cardinality(Calls) - 1) * Largest
        <4>1. Claims(J, X) <= Claim(J, c, X) + (Cardinality(Calls) - 1) * Largest
          BY ClaimsBound DEF Setting
        <4>2. Claim(J, c, X) = 0
          BY <3>2 DEF Claim
        <4> HIDE DEF X
        <4> QED
          BY <4>1, <4>2, ExtraIs
      <3>4. DueBytes({}, late) = Sum(BytesFor, late)
        BY DEF DueBytes, Due
      <3>5. Sum(BytesFor, late) \in Nat /\ Sum(BytesFor, late) <= MaxLate * LargestBlob
        BY LateBytes DEF Held, Setting
      <3>6. Claims(J, X) \in Nat
        BY <1>4
      <3> HIDE DEF X
      <3>7. DueBytes({}, late) + Claims(J, X) <= Extra
        BY <3>3, <3>4, <3>5, <3>6, ExtraIs DEF Extra
      <3> QED
        BY <3>1, <3>7 DEF X
    <2>2. CASE d # c
      <3>1. d \in Sweepers(K) /\ d \in Calls /\ r[d] = rank[d] /\ J[d] = K[d]
        BY <1>1, <1>2, <2>2 DEF Sweepers
      <3>2. rank[d] \in Nat /\ rank[d] <= next
        BY <3>1
      <3>3. DueBytes(B \ K[d].listing, late) + Claims(K, Before(K, rank, rank[d])) <= Extra
        BY <1>7, <3>1 DEF Ordered
      <3>4. DueBytes(B \ K[d].listing, late) \in Nat
        BY DueNat
      <3> QED
        BY <1>3, <1>4, <1>5, <3>1, <3>2, <3>3, <3>4
    <2> QED
      BY <2>1, <2>2
  <1>8. \A d, e \in Sweepers(J) : r[d] = r[e] => d = e
    <2>1. ASSUME NEW d \in Sweepers(J), NEW e \in Sweepers(J), r[d] = r[e]
          PROVE  d = e
      <3>1. \A f \in Sweepers(K) : r[f] = rank[f] /\ rank[f] < next /\ rank[f] \in Nat
        BY <1>1, <1>2 DEF Sweepers
      <3>2. \A f \in Sweepers(K) : r[f] # r[c]
        BY <1>1, <3>1
      <3> QED
        BY <1>2, <2>1, <3>1, <3>2 DEF Ordered
    <2> QED
      BY <2>1
  <1> QED
    BY <1>6, <1>7, <1>8 DEF Ordered, r

\* A sweep that made room: what it counted and what has come since fit, and
\* what was counted before it is out of date.
LEMMA SweptKeeps ==
  ASSUME Setting, NEW K \in Asking, NEW J \in Asking, NEW c \in Calls,
         \A d \in Calls \ {c} : J[d] = K[d],
         K[c].pc = "sweep", J[c].pc = "recheck",
         J[c].key = K[c].key, J[c].missing = K[c].missing,
         NEW B, NEW late, Held(B, late),
         Total(K[c].listing) + BytesOf(K[c].key, K[c].missing) <= MaxBytes,
         NEW rank \in [Calls -> Nat], NEW outdated \in Nat, Ordered(B, late, K, rank, outdated),
         NEW next \in Nat, outdated <= next, \A d \in Calls : rank[d] < next
  PROVE  \E n \in Nat : n <= next /\ Ordered(B, late, J, rank, n)
  <1> DEFINE b == BytesOf(K[c].key, K[c].missing)
             L == K[c].listing
  <1>1. Sweepers(J) = Sweepers(K) \ {c} /\ c \in Sweepers(K)
    BY DEF Sweepers
  <1>2. b \in Nat /\ b <= Largest
    <2>1. Claim(K, c, {}) \in Nat /\ Claim(J, c, {}) \in Nat /\ Claim(J, c, {}) <= Largest
      BY ClaimIs DEF Setting
    <2>2. Claim(J, c, {}) = b
      BY DEF Claim
    <2> QED
      BY <2>1, <2>2
  <1>3. ASSUME NEW m \in Nat
        PROVE  /\ Claims(J, Before(J, rank, m)) \in Nat /\ Claims(K, Before(K, rank, m)) \in Nat
               /\ Claims(J, Before(J, rank, m)) <= Claims(K, Before(K, rank, m)) + b
               /\ rank[c] < m =>
                    Claims(J, Before(J, rank, m)) <= Claims(K, Before(K, rank, m))
    <2> DEFINE X == Before(K, rank, m)
               Y == Before(J, rank, m)
    <2>1. Y = X \ {c} /\ (c \in X <=> rank[c] < m)
      BY <1>1 DEF Before
    <2> HIDE DEF X, Y
    <2>2. Claims(J, Y) + Claim(K, c, X) <= Claims(K, X) + Claim(J, c, Y)
      BY <2>1, ClaimsMove DEF Setting
    <2>3. Claim(J, c, Y) = b /\ Claim(K, c, X) = IF c \in X THEN Largest ELSE 0
      BY DEF Claim
    <2>4. Claims(J, Y) \in Nat /\ Claims(K, X) \in Nat
      BY ClaimsNat DEF Setting
    <2> HIDE DEF b
    <2>5. Claims(J, Y) <= Claims(K, X) + b
      BY <1>2, <2>2, <2>3, <2>4, ExtraIs
    <2>6. c \in X => Claims(J, Y) <= Claims(K, X)
      BY <1>2, <2>2, <2>3, <2>4, ExtraIs
    <2> QED
      BY <2>1, <2>4, <2>5, <2>6 DEF X, Y
  <1>4. \A d, e \in Sweepers(J) : rank[d] = rank[e] => d = e
    BY <1>1 DEF Ordered
  <1>5. Extra \in Nat /\ MaxBytes \in Nat /\ DueBytes(B, late) \in Nat
    BY ExtraIs, BytesAssumption, DueNat
  <1>6. rank[c] \in Nat /\ rank[c] <= next
    OBVIOUS
  <1>7. ASSUME NEW d \in Sweepers(J), rank[d] >= outdated, rank[c] < rank[d]
        PROVE  DueBytes(B \ J[d].listing, late) + Claims(J, Before(J, rank, rank[d])) <= Extra
    <2>1. d \in Sweepers(K) /\ J[d] = K[d] /\ rank[d] \in Nat
      BY <1>1 DEF Sweepers
    <2>2. DueBytes(B \ K[d].listing, late) + Claims(K, Before(K, rank, rank[d])) <= Extra
      BY <1>7, <2>1 DEF Ordered
    <2>3. DueBytes(B \ K[d].listing, late) \in Nat
      BY DueNat
    <2>4. /\ Claims(J, Before(J, rank, rank[d])) <= Claims(K, Before(K, rank, rank[d]))
          /\ Claims(J, Before(J, rank, rank[d])) \in Nat
          /\ Claims(K, Before(K, rank, rank[d])) \in Nat
      BY <1>3, <1>7, <2>1
    <2> QED
      BY <1>5, <2>1, <2>2, <2>3, <2>4
  <1>8. CASE rank[c] < outdated
    <2>1. DueBytes(B, late) + Claims(K, Before(K, rank, outdated)) <= MaxBytes + Extra
      BY DEF Ordered
    <2>2. DueBytes(B, late) + Claims(J, Before(J, rank, outdated)) <= MaxBytes + Extra
      BY <1>3, <1>5, <1>8, <2>1
    <2>3. ASSUME NEW d \in Sweepers(J), rank[d] >= outdated
          PROVE  DueBytes(B \ J[d].listing, late) + Claims(J, Before(J, rank, rank[d])) <= Extra
      <3>1. rank[d] \in Nat
        BY DEF Sweepers
      <3> QED
        BY <1>6, <1>7, <1>8, <2>3, <3>1
    <2> QED
      BY <1>4, <2>2, <2>3 DEF Ordered
  <1>9. CASE ~(rank[c] < outdated)
    <2> DEFINE g == Claims(K, Before(K, rank, rank[c]))
               h == Claims(J, Before(J, rank, rank[c]))
    <2>1. DueBytes(B \ L, late) + g <= Extra
      BY <1>1, <1>6, <1>9 DEF Ordered
    <2>2. g \in Nat /\ h \in Nat /\ h <= g + b
      BY <1>3, <1>6
    <2>3. L \in SUBSET Blob /\ IsFiniteSet(L)
      BY DEF Asking, Asks, CallState
    <2>4. /\ DueBytes(B, late) <= Total(L) + DueBytes(B \ L, late)
          /\ Total(L) \in Nat
      BY <2>3, DueSince, DueIs DEF Held
    <2>5. DueBytes(B \ L, late) \in Nat
      BY DueNat
    <2>6. Total(L) + b <= MaxBytes
      OBVIOUS
    <2> HIDE DEF g, h, b, L
    <2>7. DueBytes(B, late) + h <= MaxBytes + Extra
      BY <1>2, <1>5, <2>1, <2>2, <2>4, <2>5, <2>6
    <2>8. ASSUME NEW d \in Sweepers(J), rank[d] >= rank[c]
          PROVE  DueBytes(B \ J[d].listing, late) + Claims(J, Before(J, rank, rank[d])) <= Extra
      <3>1. d \in Sweepers(K) /\ d # c /\ rank[d] \in Nat
        BY <1>1 DEF Sweepers
      <3>2. rank[d] # rank[c]
        BY <1>1, <3>1 DEF Ordered
      <3> QED
        BY <1>6, <1>7, <1>9, <2>8, <3>1, <3>2
    <2>9. Ordered(B, late, J, rank, rank[c])
      BY <1>4, <2>7, <2>8 DEF Ordered, h
    <2> QED
      BY <1>6, <2>9
  <1> QED
    BY <1>8, <1>9
------------------------------------------------------------------------------
(***************************************************************************)
(* The inductive invariant, and what a step of the store does to it.       *)
(***************************************************************************)
FewOnTheWire ==
  /\ IsFiniteSet(latePuts) /\ IsFiniteSet(lateDeletes)
  /\ Cardinality(latePuts) + Cardinality(lateDeletes) <= MaxLate

StoreIsFinite == IsFiniteSet(blobs) /\ FewOnTheWire

BudgetInv ==
  /\ TypeOK
  /\ StoreIsFinite
  /\ OnePerPathname
  /\ \A c \in Calls : Asks(call[c])
  /\ \E rank \in [Calls -> Nat], outdated \in Nat, next \in Nat :
       /\ outdated <= next
       /\ \A c \in Calls : rank[c] < next
       /\ Ordered(blobs, latePuts, call, rank, outdated)

\* The invariant types the store and the calls for the lemmas on orders.
LEMMA InvHolds ==
  ASSUME BudgetInv
  PROVE  Held(blobs, latePuts) /\ call \in Asking
  <1>1. Cardinality(latePuts) \in Nat /\ Cardinality(lateDeletes) \in Nat /\ MaxLate \in Nat
    BY FS_CardinalityType, BytesAssumption DEF BudgetInv, StoreIsFinite, FewOnTheWire
  <1>2. Cardinality(latePuts) <= MaxLate
    BY <1>1 DEF BudgetInv, StoreIsFinite, FewOnTheWire
  <1> QED
    BY <1>2 DEF BudgetInv, TypeOK, StoreIsFinite, FewOnTheWire, Held, Asking

\* As does the next state of one that is finite and typed.
LEMMA HeldNext ==
  ASSUME TypeOK', StoreIsFinite', \A c \in Calls : Asks(call'[c])
  PROVE  Held(blobs', latePuts') /\ call' \in Asking
  <1>1. Cardinality(latePuts') \in Nat /\ Cardinality(lateDeletes') \in Nat /\ MaxLate \in Nat
    BY FS_CardinalityType, BytesAssumption DEF StoreIsFinite, FewOnTheWire
  <1>2. Cardinality(latePuts') <= MaxLate
    BY <1>1 DEF StoreIsFinite, FewOnTheWire
  <1> QED
    BY <1>2 DEF TypeOK, StoreIsFinite, FewOnTheWire, Held, Asking

\* A step of call c, to which the three lemmas above apply.
LEMMA StepKeeps ==
  ASSUME Setting, BudgetInv, TypeOK', StoreIsFinite', OnePerPathname',
         NEW c \in Calls, \A d \in Calls \ {c} : call'[d] = call[d], Asks(call'[c]),
         NEW n \in Nat, Moves(blobs, latePuts, call, blobs', latePuts', call', c, n)
  PROVE  BudgetInv'
  <1>1. \A d \in Calls : Asks(call'[d])
    BY DEF BudgetInv
  <1>2. /\ Held(blobs, latePuts) /\ call \in Asking
        /\ Held(blobs', latePuts') /\ call' \in Asking
    BY <1>1, InvHolds, HeldNext
  <1>3. PICK rank \in [Calls -> Nat], outdated \in Nat, next \in Nat :
          /\ outdated <= next
          /\ \A d \in Calls : rank[d] < next
          /\ Ordered(blobs, latePuts, call, rank, outdated)
    BY DEF BudgetInv
  <1>4. Ordered(blobs', latePuts', call', rank, outdated)
    BY <1>2, <1>3, MovingKeeps
  <1> QED
    BY <1>1, <1>3, <1>4 DEF BudgetInv

StoreBudget == StoreIsFinite /\ OnePerPathname

\* A write that is served adds its own request to those the blobs are of, and no other.
LEMMA StoresOne ==
  ASSUME TypeOK, StoreBudget, NEW p \in PutRequest, Stores(p)
  PROVE  /\ IsFiniteSet(blobs') /\ OnePerPathname'
         /\ \A S : {RequestOf(b) : b \in blobs' \ S}
                     \subseteq {RequestOf(b) : b \in blobs \ S} \cup {p}
  <1> DEFINE new == [id |-> p.id, half |-> p.half, of |-> p.of, at |-> uploads]
  <1>1. \/ blobs' = blobs
        \/ blobs' = (blobs \ At(blobs, p.id, p.half)) \cup {new}
    BY DEF Stores
  <1>2. blobs' \subseteq blobs \cup {new}
    BY <1>1
  <1>3. RequestOf(new) = p
    BY DEF RequestOf, PutRequest
  <1>4. IsFiniteSet(blobs \cup {new})
    BY FS_AddElement DEF StoreBudget, StoreIsFinite
  <1>5. OnePerPathname'
    BY <1>1 DEF StoreBudget, OnePerPathname, At
  <1> HIDE DEF new
  <1>6. IsFiniteSet(blobs')
    BY <1>2, <1>4, FS_Subset
  <1>7. \A S : {RequestOf(b) : b \in blobs' \ S} \subseteq {RequestOf(b) : b \in blobs \ S} \cup {p}
    BY <1>2, <1>3
  <1> QED
    BY <1>5, <1>6, <1>7

\* The requests on the wire can be counted, and are no more than MaxLate.
LEMMA CountsAre ==
  ASSUME StoreIsFinite
  PROVE  /\ Cardinality(latePuts) \in Nat /\ Cardinality(lateDeletes) \in Nat /\ MaxLate \in Nat
         /\ Cardinality(latePuts) + Cardinality(lateDeletes) <= MaxLate
  BY FS_CardinalityType, BytesAssumption DEF StoreIsFinite, FewOnTheWire

\* A write that stays on the wire stays within its room, and is all that comes to it.
LEMMA LingerPutFew ==
  ASSUME StoreIsFinite, NEW p, LingerPut(p)
  PROVE  FewOnTheWire' /\ latePuts' \subseteq latePuts \cup {p}
  <1>1. IsFiniteSet(latePuts) /\ IsFiniteSet(lateDeletes) /\ lateDeletes' = lateDeletes
    BY DEF StoreIsFinite, FewOnTheWire, LingerPut
  <1>2. CASE UNCHANGED latePuts
    BY <1>1, <1>2 DEF StoreIsFinite, FewOnTheWire
  <1>3. CASE RoomForLate /\ latePuts' = latePuts \cup {p}
    <2>1. IsFiniteSet(latePuts') /\ Cardinality(latePuts') <= Cardinality(latePuts) + 1
          /\ Cardinality(latePuts') \in Nat
      <3>1. IsFiniteSet(latePuts')
        BY <1>1, <1>3, FS_AddElement
      <3>2. Cardinality(latePuts') \in {Cardinality(latePuts), Cardinality(latePuts) + 1}
        BY <1>1, <1>3, FS_AddElement
      <3> QED
        BY <3>1, <3>2, CountsAre
    <2> QED
      BY <1>1, <1>3, <2>1, CountsAre DEF FewOnTheWire, RoomForLate
  <1> QED
    BY <1>2, <1>3 DEF LingerPut

\* So does a delete, which adds no write.
LEMMA LingerDeleteFew ==
  ASSUME StoreIsFinite, NEW d, LingerDelete(d)
  PROVE  FewOnTheWire' /\ UNCHANGED latePuts
  <1>1. IsFiniteSet(latePuts) /\ IsFiniteSet(lateDeletes) /\ latePuts' = latePuts
    BY DEF StoreIsFinite, FewOnTheWire, LingerDelete
  <1>2. CASE UNCHANGED lateDeletes
    BY <1>1, <1>2 DEF StoreIsFinite, FewOnTheWire
  <1>3. CASE RoomForLate /\ lateDeletes' = lateDeletes \cup {d}
    <2>1. IsFiniteSet(lateDeletes')
      BY <1>1, <1>3, FS_AddElement
    <2>2. Cardinality(lateDeletes') \in {Cardinality(lateDeletes), Cardinality(lateDeletes) + 1}
      BY <1>1, <1>3, FS_AddElement
    <2> QED
      BY <1>1, <1>3, <2>1, <2>2, CountsAre DEF FewOnTheWire, RoomForLate
  <1> QED
    BY <1>1, <1>2, <1>3 DEF LingerDelete

\* A write whose answer is not known makes nothing due but itself, once.
LEMMA UnsurePutBudget ==
  ASSUME TypeOK, StoreBudget, NEW p \in PutRequest, UnsurePut(p)
  PROVE  /\ StoreBudget'
         /\ \A S : Due(blobs' \ S, latePuts') \subseteq Due(blobs \ S, latePuts) \cup {p}
  <1>1. FewOnTheWire' /\ latePuts' \subseteq latePuts \cup {p}
    BY LingerPutFew DEF UnsurePut, StoreBudget
  <1>2. /\ IsFiniteSet(blobs') /\ OnePerPathname'
        /\ \A S : {RequestOf(b) : b \in blobs' \ S}
                    \subseteq {RequestOf(b) : b \in blobs \ S} \cup {p}
    <2>1. CASE Stores(p)
      BY <2>1, StoresOne
    <2>2. CASE UNCHANGED blobs
      BY <2>2 DEF StoreBudget, StoreIsFinite, OnePerPathname
    <2> QED
      BY <2>1, <2>2 DEF UnsurePut
  <1>3. StoreBudget'
    BY <1>1, <1>2 DEF StoreBudget, StoreIsFinite
  <1> QED
    BY <1>1, <1>2, <1>3 DEF Due

\* A delete whose answer is not known makes nothing due.
LEMMA UnsureDeleteBudget ==
  ASSUME TypeOK, StoreBudget, NEW d, UnsureDelete(d)
  PROVE  StoreBudget' /\ blobs' \subseteq blobs /\ UNCHANGED latePuts
  <1>1. FewOnTheWire' /\ UNCHANGED latePuts
    BY LingerDeleteFew DEF UnsureDelete, StoreBudget
  <1>2. blobs' \subseteq blobs
    BY DEF UnsureDelete, Deletes
  <1>3. IsFiniteSet(blobs') /\ OnePerPathname'
    BY <1>2, FS_Subset DEF StoreBudget, StoreIsFinite, OnePerPathname
  <1> QED
    BY <1>1, <1>2, <1>3 DEF StoreBudget, StoreIsFinite

\* A step that leaves no more to be held, and claims no more.
Sheds(c) ==
  /\ \A S : Due(blobs' \ S, latePuts') \subseteq Due(blobs \ S, latePuts)
  /\ \/ call'[c] = call[c]
     \/ /\ call[c].pc \in {"recheck", "put"} /\ call'[c].pc \in {"recheck", "put"}
        /\ call'[c].key = call[c].key /\ call'[c].missing \subseteq call[c].missing
     \/ /\ call'[c].pc \notin {"recheck", "put"}
        /\ call'[c].pc = "sweep" =>
             /\ call[c].pc = "sweep"
             /\ blobs' \ call'[c].listing \subseteq blobs \ call[c].listing
             /\ UNCHANGED latePuts

\* The invariant outlives a step that only takes blobs away or gives a claim up.
LEMMA SheddingKeeps ==
  ASSUME Setting, BudgetInv, TypeOK', StoreBudget', NEW c \in Calls,
         \A d \in Calls \ {c} : call'[d] = call[d], Asks(call'[c]), Sheds(c)
  PROVE  BudgetInv'
  <1>1. /\ Held(blobs, latePuts) /\ call \in Asking
        /\ Held(blobs', latePuts') /\ call' \in Asking
    <2>1. \A d \in Calls : Asks(call'[d])
      BY DEF BudgetInv
    <2> QED
      BY <2>1, InvHolds, HeldNext DEF StoreBudget
  <1>2. ASSUME NEW Q \in SUBSET blobs, NEW R \in SUBSET (blobs'),
               Due(R, latePuts') \subseteq Due(Q, latePuts)
        PROVE  DueBytes(R, latePuts') <= DueBytes(Q, latePuts)
    <2>1. Q \in SUBSET Blob /\ IsFiniteSet(Q)
      BY <1>1, FS_Subset DEF Held
    <2>2. Due(Q, latePuts) \subseteq PutRequest /\ IsFiniteSet(Due(Q, latePuts))
      BY <1>1, <2>1, DueIs DEF Held
    <2>3. \A x \in Due(Q, latePuts) : BytesFor[x] \in Nat
      BY <2>2, BytesForAre
    <2> QED
      BY <1>2, <2>2, <2>3, SumSome DEF DueBytes
  <1>3. DueBytes(blobs', latePuts') <= DueBytes(blobs, latePuts) + 0
    <2>1. blobs' \ {} = blobs' /\ blobs \ {} = blobs
      OBVIOUS
    <2>2. Due(blobs', latePuts') \subseteq Due(blobs, latePuts)
      BY <2>1 DEF Sheds
    <2>3. DueBytes(blobs, latePuts) \in Nat
      BY <1>1, DueNat
    <2> QED
      BY <1>2, <2>2, <2>3
  <1>4. ASSUME NEW X \in SUBSET Sweepers(call), NEW Y \in SUBSET (Sweepers(call') \cap X)
        PROVE  Claim(call', c, Y) + 0 <= Claim(call, c, X)
    <2>1. Claim(call, c, X) \in Nat /\ Claim(call', c, Y) \in Nat
      BY <1>1, ClaimIs DEF Setting
    <2>2. CASE call'[c] = call[c]
      <3>1. Claim(call', c, Y) = Claim(call, c, Y)
        BY <2>2 DEF Claim
      <3>2. Claim(call, c, Y) <= Claim(call, c, X)
        BY <1>1, ClaimIs DEF Setting
      <3> QED
        BY <2>1, <3>1, <3>2
    <2>3. CASE /\ call[c].pc \in {"recheck", "put"} /\ call'[c].pc \in {"recheck", "put"}
               /\ call'[c].key = call[c].key /\ call'[c].missing \subseteq call[c].missing
      <3>1. /\ Claim(call', c, Y) = BytesOf(call[c].key, call'[c].missing)
            /\ Claim(call, c, X) = BytesOf(call[c].key, call[c].missing)
        BY <2>3 DEF Claim
      <3>2. call[c].key \in Keys /\ call[c].missing \in SUBSET Halves
        BY <1>1 DEF Asking, CallState
      <3> QED
        BY <2>1, <2>3, <3>1, <3>2, BytesAre
    <2>4. CASE /\ call'[c].pc \notin {"recheck", "put"}
               /\ call'[c].pc = "sweep" => call[c].pc = "sweep"
      <3>1. CASE c \in Y
        <4>1. c \in Sweepers(call) /\ c \in X
          BY <3>1
        <4>2. Claim(call', c, Y) = Largest /\ Claim(call, c, X) = Largest
          BY <2>4, <3>1, <4>1 DEF Claim, Sweepers
        <4> QED
          BY <2>1, <4>2
      <3>2. CASE c \notin Y
        <4>1. Claim(call', c, Y) = 0
          BY <2>4, <3>2 DEF Claim
        <4> QED
          BY <2>1, <4>1
      <3> QED
        BY <3>1, <3>2
    <2> QED
      BY <2>2, <2>3, <2>4 DEF Sheds
  <1>5. ASSUME NEW d \in Sweepers(call')
        PROVE  /\ d \in Sweepers(call)
               /\ DueBytes(blobs' \ call'[d].listing, latePuts')
                    <= DueBytes(blobs \ call[d].listing, latePuts) + 0
    <2>1. d \in Sweepers(call) /\
          Due(blobs' \ call'[d].listing, latePuts') \subseteq Due(blobs \ call[d].listing, latePuts)
      <3>1. CASE call'[d] = call[d]
        BY <3>1 DEF Sweepers, Sheds
      <3>2. CASE call'[d] # call[d]
        <4>1. d = c
          BY <3>2 DEF Sweepers
        <4>2. /\ call[c].pc = "sweep"
              /\ blobs' \ call'[c].listing \subseteq blobs \ call[c].listing
              /\ UNCHANGED latePuts
          BY <3>2, <4>1 DEF Sheds, Sweepers
        <4> QED
          BY <4>1, <4>2 DEF Due, Sweepers
      <3> QED
        BY <3>1, <3>2
    <2>2. DueBytes(blobs \ call[d].listing, latePuts) \in Nat
      BY <1>1, DueNat
    <2>3. DueBytes(blobs' \ call'[d].listing, latePuts')
            <= DueBytes(blobs \ call[d].listing, latePuts)
      BY <1>2, <2>1
    <2>4. DueBytes(blobs' \ call'[d].listing, latePuts') \in Nat
      BY <1>1, DueNat
    <2> QED
      BY <2>1, <2>2, <2>3, <2>4
  <1>6. Moves(blobs, latePuts, call, blobs', latePuts', call', c, 0)
    BY <1>3, <1>4, <1>5 DEF Moves
  <1> QED
    BY <1>6, StepKeeps DEF StoreBudget

\* A write that is sent takes its bytes out of what its call claims.
LEMMA PuttingKeeps ==
  ASSUME Setting, BudgetInv, TypeOK', NEW c \in Calls,
         \A d \in Calls \ {c} : call'[d] = call[d], Asks(call'[c]),
         call[c].pc = "put", UnsurePut(PutOf(c)),
         \/ call'[c].pc \notin {"recheck", "put", "sweep"}
         \/ /\ call'[c].pc = "recheck" /\ call'[c].key = call[c].key
            /\ call'[c].missing = call[c].missing \ {NextHalf(call[c].missing)}
  PROVE  BudgetInv'
  <1> DEFINE p == PutOf(c)
             half == NextHalf(call[c].missing)
  <1>1. TypeOK /\ StoreBudget /\ p \in PutRequest
    BY RequestsTyped DEF BudgetInv, StoreBudget
  <1>2. /\ StoreBudget'
        /\ \A S : Due(blobs' \ S, latePuts') \subseteq Due(blobs \ S, latePuts) \cup {p}
    BY <1>1, UnsurePutBudget
  <1>3. /\ Held(blobs, latePuts) /\ call \in Asking
        /\ Held(blobs', latePuts') /\ call' \in Asking
    <2>1. \A d \in Calls : Asks(call'[d])
      BY DEF BudgetInv
    <2> QED
      BY <1>2, <2>1, InvHolds, HeldNext DEF StoreBudget
  <1>4. BytesFor[p] \in Nat
    BY <1>1, BytesForAre
  <1>5. ASSUME NEW Q \in SUBSET blobs, NEW R \in SUBSET (blobs'),
               Due(R, latePuts') \subseteq Due(Q, latePuts) \cup {p}
        PROVE  DueBytes(R, latePuts') <= DueBytes(Q, latePuts) + BytesFor[p]
    <2>1. Q \in SUBSET Blob /\ IsFiniteSet(Q)
      BY <1>3, FS_Subset DEF Held
    <2>2. Due(Q, latePuts) \subseteq PutRequest /\ IsFiniteSet(Due(Q, latePuts))
      BY <1>3, <2>1, DueIs DEF Held
    <2>3. \A x \in Due(Q, latePuts) \cup {p} : BytesFor[x] \in Nat
      BY <1>1, <2>2, BytesForAre
    <2> HIDE DEF p
    <2> QED
      BY <1>5, <2>2, <2>3, SumAdds DEF DueBytes
  <1>6. DueBytes(blobs', latePuts') <= DueBytes(blobs, latePuts) + BytesFor[p]
    <2>1. blobs' \ {} = blobs' /\ blobs \ {} = blobs
      OBVIOUS
    <2>2. Due(blobs', latePuts') \subseteq Due(blobs, latePuts) \cup {p}
      BY <1>2, <2>1
    <2> QED
      BY <1>5, <2>2
  <1>7. ASSUME NEW X \in SUBSET Sweepers(call), NEW Y \in SUBSET (Sweepers(call') \cap X)
        PROVE  Claim(call', c, Y) + BytesFor[p] <= Claim(call, c, X)
    <2>1. call[c].key \in Keys /\ call[c].missing \in SUBSET Halves /\ half \in call[c].missing
      <3>1. call[c].key \in Keys /\ call[c].missing \in SUBSET Halves /\ call[c].missing # {}
        BY <1>3 DEF Asking, CallState, Asks
      <3> QED
        BY <3>1 DEF NextHalf, Halves
    <2>2. BytesFor[p] = BytesOf(call[c].key, {half})
      BY <1>1, BytesForAre DEF PutOf
    <2>3. /\ Claim(call, c, X) = BytesOf(call[c].key, call[c].missing)
          /\ BytesOf(call[c].key, call[c].missing)
               = BytesOf(call[c].key, {half}) + BytesOf(call[c].key, call[c].missing \ {half})
          /\ BytesOf(call[c].key, call[c].missing \ {half}) \in Nat
      <3>1. Claim(call, c, X) = BytesOf(call[c].key, call[c].missing)
        BY DEF Claim
      <3>2. call[c].missing \ {half} \in SUBSET Halves
        BY <2>1
      <3> HIDE DEF half
      <3> QED
        BY <2>1, <3>1, <3>2, BytesAre
    <2>4. \/ Claim(call', c, Y) = 0
          \/ Claim(call', c, Y) = BytesOf(call[c].key, call[c].missing \ {half})
      BY DEF Claim, Sweepers
    <2> HIDE DEF p, half
    <2> QED
      BY <1>4, <2>2, <2>3, <2>4
  <1>8. ASSUME NEW d \in Sweepers(call')
        PROVE  /\ d \in Sweepers(call)
               /\ DueBytes(blobs' \ call'[d].listing, latePuts')
                    <= DueBytes(blobs \ call[d].listing, latePuts) + BytesFor[p]
    <2>1. d \in Sweepers(call) /\ call'[d] = call[d]
      BY DEF Sweepers
    <2>2. Due(blobs' \ call[d].listing, latePuts')
            \subseteq Due(blobs \ call[d].listing, latePuts) \cup {p}
      BY <1>2
    <2> HIDE DEF p
    <2> QED
      BY <1>5, <2>1, <2>2
  <1>9. Moves(blobs, latePuts, call, blobs', latePuts', call', c, BytesFor[p])
    BY <1>6, <1>7, <1>8 DEF Moves
  <1> QED
    BY <1>2, <1>4, <1>9, StepKeeps DEF StoreBudget
------------------------------------------------------------------------------
(***************************************************************************)
(* The steps of a call.                                                    *)
(***************************************************************************)
LEMMA LooksBudget ==
  ASSUME BudgetInv, UNCHANGED <<blobs, latePuts, lateDeletes>>
  PROVE  /\ StoreBudget'
         /\ \A S : Due(blobs' \ S, latePuts') \subseteq Due(blobs \ S, latePuts)
  BY DEF BudgetInv, StoreBudget, StoreIsFinite, FewOnTheWire, OnePerPathname, Due

\* A call that ends has nothing left to write.
LEMMA FinishAsks ==
  ASSUME TypeOK, NEW c \in Calls, NEW a, Finish(c, a)
  PROVE  /\ call'[c].pc = "done" /\ Asks(call'[c])
         /\ \A d \in Calls \ {c} : call'[d] = call[d]
  <1>1. /\ call'[c].pc = "done" /\ call'[c].missing = {} /\ call'[c].listing = {}
        /\ \A d \in Calls \ {c} : call'[d] = call[d]
    BY DEF TypeOK, Finish, Become, Idle
  <1> QED
    BY <1>1, FS_EmptySet DEF Asks

\* A call that is answered, or only looks.
LEMMA AnsweringKeeps ==
  ASSUME Setting, BudgetInv, TypeOK', UNCHANGED <<blobs, latePuts, lateDeletes>>,
         NEW c \in Calls, NEW a, Finish(c, a)
  PROVE  BudgetInv'
  <1>1. TypeOK
    BY DEF BudgetInv
  <1> QED
    BY <1>1, LooksBudget, FinishAsks, SheddingKeeps DEF Sheds

\* The invariant outlives a step of one call that moves no blob and claims no more.
LEMMA LookingKeeps ==
  ASSUME Setting, BudgetInv, TypeOK', UNCHANGED <<blobs, latePuts, lateDeletes>>,
         NEW c \in Calls, NEW r, Become(c, r), Asks(r),
         \/ r.pc \notin {"recheck", "put", "sweep"}
         \/ /\ call[c].pc \in {"recheck", "put"} /\ r.pc \in {"recheck", "put"}
            /\ r.key = call[c].key /\ r.missing \subseteq call[c].missing
  PROVE  BudgetInv'
  <1>1. TypeOK
    BY DEF BudgetInv
  <1>2. call'[c] = r /\ \A d \in Calls \ {c} : call'[d] = call[d]
    BY <1>1 DEF TypeOK, Become
  <1> QED
    BY <1>2, LooksBudget, SheddingKeeps DEF Sheds

\* What is done with the answer to a miss, and with the last half that was asked about.
LEMMA BranchesKeep ==
  ASSUME Setting, BudgetInv, TypeOK', UNCHANGED <<blobs, latePuts, lateDeletes>>, NEW c \in Calls
  PROVE  /\ Miss(c) => BudgetInv'
         /\ GiveUp(c) => BudgetInv'
         /\ \A missing \in SUBSET HalvesOf(call[c].key) : Asked(c, missing) => BudgetInv'
         /\ call[c].pc = "recheck" /\ Written(c) => BudgetInv'
  <1>1. call[c] \in CallState /\ Asks(call[c])
    BY DEF BudgetInv, TypeOK
  <1>2. GiveUp(c) => BudgetInv'
    BY AnsweringKeeps DEF GiveUp
  <1>3. Miss(c) => BudgetInv'
    <2> DEFINE r == [call[c] EXCEPT !.pc = "compute", !.seen = {}]
    <2>1. Asks(r) /\ r.pc = "compute"
      BY <1>1 DEF Asks, CallState
    <2>2. Become(c, r) => BudgetInv'
      <3> HIDE DEF r
      <3> QED
        BY <2>1, LookingKeeps
    <2> QED
      BY <2>2, AnsweringKeeps DEF Miss
  <1>4. ASSUME NEW missing \in SUBSET HalvesOf(call[c].key), Asked(c, missing)
        PROVE  BudgetInv'
    <2> DEFINE r == [call[c] EXCEPT !.pc = "list", !.missing = missing]
    <2>1. missing # {} => Asks(r) /\ r.pc = "list"
      BY <1>1 DEF Asks, CallState
    <2>2. missing # {} /\ Become(c, r) => BudgetInv'
      <3> HIDE DEF r
      <3> QED
        BY <2>1, LookingKeeps
    <2> QED
      BY <1>2, <1>4, <2>2 DEF Asked
  <1>5. ASSUME call[c].pc = "recheck", Written(c)
        PROVE  BudgetInv'
    <2> DEFINE rest == call[c].missing \ {NextHalf(call[c].missing)}
               r == [call[c] EXCEPT !.pc = "recheck", !.missing = rest]
    <2>1. rest # {} => /\ Asks(r) /\ r.pc = "recheck"
                       /\ r.key = call[c].key /\ r.missing \subseteq call[c].missing
      BY <1>1, <1>5 DEF Asks, CallState
    <2>2. rest # {} /\ Become(c, r) => BudgetInv'
      <3> HIDE DEF r
      <3> QED
        BY <1>5, <2>1, LookingKeeps
    <2> QED
      BY <1>2, <1>5, <2>2 DEF Written
  <1> QED
    BY <1>2, <1>3, <1>4, <1>5

\* A call that ends while a request of its is on the wire.
LEMMA LeavingKeeps ==
  ASSUME Setting, BudgetInv, TypeOK', NEW c \in Calls, LeavesBehind(c), NEW a, Finish(c, a)
  PROVE  BudgetInv'
  <1>1. TypeOK /\ StoreBudget
    BY DEF BudgetInv, StoreBudget
  <1>2. /\ call'[c].pc = "done" /\ Asks(call'[c])
        /\ \A d \in Calls \ {c} : call'[d] = call[d]
    BY <1>1, FinishAsks
  <1>3. CASE UNCHANGED storeVars
    BY <1>3, AnsweringKeeps DEF storeVars
  <1>4. CASE call[c].pc = "put" /\ UnsurePut(PutOf(c))
    BY <1>2, <1>4, PuttingKeeps
  <1>5. CASE \E id \in Oldest(c) : UnsureDelete(DeleteOf(c, id))
    <2>1. StoreBudget' /\ blobs' \subseteq blobs /\ UNCHANGED latePuts
      BY <1>1, <1>5, UnsureDeleteBudget
    <2>2. Sheds(c)
      BY <1>2, <2>1 DEF Sheds, Due
    <2> QED
      BY <1>2, <2>1, <2>2, SheddingKeeps
  <1> QED
    BY <1>3, <1>4, <1>5 DEF LeavesBehind

\* The invariant outlives a delete of a sweep, however it is answered.
LEMMA EvictingKeeps ==
  ASSUME Setting, BudgetInv, TypeOK', NEW c \in Calls, Evict(c)
  PROVE  BudgetInv'
  <1>1. TypeOK /\ StoreBudget /\ call[c] \in CallState /\ Asks(call[c]) /\ call[c].pc = "sweep"
    BY DEF BudgetInv, StoreBudget, TypeOK, Evict
  <1>2. PICK id \in Oldest(c) :
          \/ /\ ServedDelete(DeleteOf(c, id))
             /\ Become(c, [call[c] EXCEPT !.listing = {b \in @ : b.id # id}])
          \/ /\ UnsureDelete(DeleteOf(c, id))
             /\ Become(c, [call[c] EXCEPT !.tried = @ \cup {id}])
    BY DEF Evict
  <1>3. StoreBudget' /\ blobs' \subseteq blobs /\ UNCHANGED latePuts
    BY <1>1, <1>2, ServedIsUnsure, UnsureDeleteBudget
  <1>4. \A S : Due(blobs' \ S, latePuts') \subseteq Due(blobs \ S, latePuts)
    BY <1>3 DEF Due
  <1>5. CASE /\ ServedDelete(DeleteOf(c, id))
             /\ Become(c, [call[c] EXCEPT !.listing = {b \in @ : b.id # id}])
    <2>1. /\ call'[c] = [call[c] EXCEPT !.listing = {b \in @ : b.id # id}]
          /\ \A d \in Calls \ {c} : call'[d] = call[d]
      BY <1>1, <1>5 DEF Become, TypeOK
    <2>2. /\ call'[c].pc = "sweep" /\ call'[c].listing = {b \in call[c].listing : b.id # id}
          /\ call'[c].missing = call[c].missing /\ call'[c].key = call[c].key
      BY <1>1, <2>1 DEF CallState
    <2>3. IsFiniteSet(call'[c].listing)
      BY <1>1, <2>2, FS_Subset DEF Asks
    <2>4. Asks(call'[c])
      BY <1>1, <2>2, <2>3 DEF Asks
    <2>5. blobs' \ call'[c].listing \subseteq blobs \ call[c].listing
      BY <1>5, <2>2 DEF ServedDelete, Deletes, DeleteOf
    <2>6. Sheds(c)
      BY <1>1, <1>3, <1>4, <2>2, <2>5 DEF Sheds
    <2> QED
      BY <1>3, <2>1, <2>4, <2>6, SheddingKeeps
  <1>6. CASE Become(c, [call[c] EXCEPT !.tried = @ \cup {id}])
    <2>1. /\ call'[c] = [call[c] EXCEPT !.tried = @ \cup {id}]
          /\ \A d \in Calls \ {c} : call'[d] = call[d]
      BY <1>1, <1>6 DEF Become, TypeOK
    <2>2. /\ call'[c].pc = "sweep" /\ call'[c].listing = call[c].listing
          /\ call'[c].missing = call[c].missing /\ call'[c].key = call[c].key
      BY <1>1, <2>1 DEF CallState
    <2>3. Asks(call'[c])
      BY <1>1, <2>2 DEF Asks
    <2>4. Sheds(c)
      BY <1>1, <1>3, <1>4, <2>2 DEF Sheds
    <2> QED
      BY <1>3, <2>1, <2>3, <2>4, SheddingKeeps
  <1> QED
    BY <1>2, <1>5, <1>6

\* The invariant outlives a write: its bytes go from the call's claim to what is due.
LEMMA WritingKeeps ==
  ASSUME Setting, BudgetInv, TypeOK', NEW c \in Calls, Put(c)
  PROVE  BudgetInv'
  <1>1. TypeOK /\ call[c] \in CallState /\ Asks(call[c]) /\ call[c].pc = "put"
    BY DEF BudgetInv, TypeOK, Put
  <1>2. UnsurePut(PutOf(c)) /\ Written(c)
    BY ServedIsUnsure DEF Put
  <1> DEFINE rest == call[c].missing \ {NextHalf(call[c].missing)}
  <1>3. CASE GiveUp(c)
    <2>1. /\ call'[c].pc = "done" /\ Asks(call'[c])
          /\ \A d \in Calls \ {c} : call'[d] = call[d]
      BY <1>1, <1>3, FinishAsks DEF GiveUp
    <2> QED
      BY <1>1, <1>2, <2>1, PuttingKeeps
  <1>4. CASE rest # {} /\ Become(c, [call[c] EXCEPT !.pc = "recheck", !.missing = rest])
    <2>1. /\ call'[c] = [call[c] EXCEPT !.pc = "recheck", !.missing = rest]
          /\ \A d \in Calls \ {c} : call'[d] = call[d]
      BY <1>1, <1>4 DEF Become, TypeOK
    <2>2. /\ call'[c].pc = "recheck" /\ call'[c].listing = call[c].listing
          /\ call'[c].missing = rest /\ call'[c].key = call[c].key
      BY <1>1, <2>1 DEF CallState
    <2>3. Asks(call'[c])
      BY <1>1, <1>4, <2>2 DEF Asks
    <2> QED
      BY <1>1, <1>2, <2>1, <2>2, <2>3, PuttingKeeps
  <1> QED
    BY <1>2, <1>3, <1>4 DEF Written

\* The invariant outlives a listing, that admits or that has to sweep.
LEMMA AdmissionKeeps ==
  ASSUME Setting, BudgetInv, TypeOK', NEW c \in Calls, List(c)
  PROVE  BudgetInv'
  <1>1. /\ TypeOK /\ call[c] \in CallState /\ Asks(call[c]) /\ call[c].pc = "list"
        /\ UNCHANGED <<blobs, latePuts, lateDeletes>>
    BY DEF BudgetInv, TypeOK, List
  <1>2. Held(blobs, latePuts) /\ call \in Asking
    BY InvHolds
  <1>3. PICK rank \in [Calls -> Nat], outdated \in Nat, next \in Nat :
          /\ outdated <= next
          /\ \A d \in Calls : rank[d] < next
          /\ Ordered(blobs, latePuts, call, rank, outdated)
    BY DEF BudgetInv
  <1>4. StoreBudget'
    BY <1>1, LooksBudget
  <1>5. CASE /\ Total(blobs) + Incoming(c) <= MaxBytes
             /\ Become(c, [call[c] EXCEPT !.pc = "recheck"])
    <2>1. /\ call'[c] = [call[c] EXCEPT !.pc = "recheck"]
          /\ \A d \in Calls \ {c} : call'[d] = call[d]
      BY <1>1, <1>5 DEF Become, TypeOK
    <2>2. /\ call'[c].pc = "recheck" /\ call'[c].listing = call[c].listing
          /\ call'[c].missing = call[c].missing /\ call'[c].key = call[c].key
      BY <1>1, <2>1 DEF CallState
    <2>3. \A d \in Calls : Asks(call'[d])
      BY <1>1, <2>1, <2>2 DEF Asks, BudgetInv
    <2>4. call' \in Asking
      BY <2>3 DEF Asking, TypeOK
    <2>5. Ordered(blobs, latePuts, call', rank, next)
      BY <1>1, <1>2, <1>3, <1>5, <2>1, <2>2, <2>4, AdmittingKeeps DEF Incoming
    <2>6. Ordered(blobs', latePuts', call', rank, next)
      BY <1>1, <2>5
    <2> QED
      BY <1>3, <1>4, <2>3, <2>6 DEF BudgetInv, StoreBudget
  <1>6. CASE Become(c, [call[c] EXCEPT !.pc = "sweep", !.listing = blobs])
    <2>1. /\ call'[c] = [call[c] EXCEPT !.pc = "sweep", !.listing = blobs]
          /\ \A d \in Calls \ {c} : call'[d] = call[d]
      BY <1>1, <1>6 DEF Become, TypeOK
    <2>2. /\ call'[c].pc = "sweep" /\ call'[c].listing = blobs
          /\ call'[c].missing = call[c].missing /\ call'[c].key = call[c].key
      BY <1>1, <2>1 DEF CallState
    <2>3. \A d \in Calls : Asks(call'[d])
      BY <1>1, <1>2, <2>1, <2>2 DEF Asks, BudgetInv, Held
    <2>4. call' \in Asking
      BY <2>3 DEF Asking, TypeOK
    <2> DEFINE r == [rank EXCEPT ![c] = next]
    <2>5. Ordered(blobs, latePuts, call', r, outdated)
      BY <1>1, <1>2, <1>3, <2>1, <2>2, <2>4, ListingKeeps
    <2>6. r \in [Calls -> Nat] /\ (\A d \in Calls : r[d] < next + 1)
      BY <1>3
    <2> HIDE DEF r
    <2>7. Ordered(blobs', latePuts', call', r, outdated)
      BY <1>1, <2>5
    <2>8. next + 1 \in Nat /\ outdated <= next + 1
      BY <1>3
    <2> QED
      BY <1>4, <2>3, <2>6, <2>7, <2>8 DEF BudgetInv, StoreBudget
  <1>7. CASE GiveUp(c)
    BY <1>1, <1>7, BranchesKeep
  <1> QED
    BY <1>5, <1>6, <1>7 DEF List

\* The invariant outlives the end of a sweep, whether it made room or not.
LEMMA EndingKeeps ==
  ASSUME Setting, BudgetInv, TypeOK', NEW c \in Calls, EndSweep(c)
  PROVE  BudgetInv'
  <1>1. /\ TypeOK /\ call[c] \in CallState /\ Asks(call[c]) /\ call[c].pc = "sweep"
        /\ UNCHANGED <<blobs, latePuts, lateDeletes>>
    BY DEF BudgetInv, TypeOK, EndSweep
  <1>2. Held(blobs, latePuts) /\ call \in Asking
    BY InvHolds
  <1>3. PICK rank \in [Calls -> Nat], outdated \in Nat, next \in Nat :
          /\ outdated <= next
          /\ \A d \in Calls : rank[d] < next
          /\ Ordered(blobs, latePuts, call, rank, outdated)
    BY DEF BudgetInv
  <1>4. StoreBudget'
    BY <1>1, LooksBudget
  <1>5. CASE /\ Total(call[c].listing) + Incoming(c) <= MaxBytes
             /\ Become(c, [call[c] EXCEPT !.pc = "recheck", !.listing = {}, !.tried = {}])
    <2>1. /\ call'[c] = [call[c] EXCEPT !.pc = "recheck", !.listing = {}, !.tried = {}]
          /\ \A d \in Calls \ {c} : call'[d] = call[d]
      BY <1>1, <1>5 DEF Become, TypeOK
    <2>2. /\ call'[c].pc = "recheck" /\ call'[c].listing = {}
          /\ call'[c].missing = call[c].missing /\ call'[c].key = call[c].key
      BY <1>1, <2>1 DEF CallState
    <2>3. \A d \in Calls : Asks(call'[d])
      BY <1>1, <2>1, <2>2, FS_EmptySet DEF Asks, BudgetInv
    <2>4. call' \in Asking
      BY <2>3 DEF Asking, TypeOK
    <2>5. PICK n \in Nat : n <= next /\ Ordered(blobs, latePuts, call', rank, n)
      BY <1>1, <1>2, <1>3, <1>5, <2>1, <2>2, <2>4, SweptKeeps DEF Incoming
    <2>6. Ordered(blobs', latePuts', call', rank, n)
      BY <1>1, <2>5
    <2> QED
      BY <1>3, <1>4, <2>3, <2>5, <2>6 DEF BudgetInv, StoreBudget
  <1>6. CASE GiveUp(c)
    BY <1>1, <1>6, BranchesKeep
  <1> QED
    BY <1>5, <1>6 DEF EndSweep

\* A request that lands, or is lost, was counted while it was on the wire.
LEMMA WireKeeps ==
  ASSUME Setting, BudgetInv, TypeOK', LandPut \/ LandDelete \/ LoseRequest
  PROVE  BudgetInv'
  <1>1. TypeOK /\ StoreBudget
    BY DEF BudgetInv, StoreBudget
  <1>2. PICK c \in Calls : TRUE
    BY DEF Setting
  <1>3. call' = call /\ Asks(call'[c])
    BY DEF LandPut, LandDelete, LoseRequest, BudgetInv
  <1>4. ASSUME NEW S, IsFiniteSet(S), NEW T \in SUBSET S
        PROVE  IsFiniteSet(T) /\ Cardinality(T) \in Nat /\ Cardinality(T) <= Cardinality(S)
    BY <1>4, FS_Subset, FS_CardinalityType
  <1>a. /\ IsFiniteSet(latePuts) /\ IsFiniteSet(lateDeletes) /\ IsFiniteSet(blobs) /\ OnePerPathname
    BY <1>1 DEF StoreBudget, StoreIsFinite, FewOnTheWire
  <1>b. latePuts' \in SUBSET latePuts /\ lateDeletes' \in SUBSET lateDeletes
    BY DEF LandPut, LandDelete, LoseRequest
  <1>5. FewOnTheWire'
    <2>1. /\ Cardinality(latePuts) \in Nat /\ Cardinality(lateDeletes) \in Nat /\ MaxLate \in Nat
          /\ Cardinality(latePuts) + Cardinality(lateDeletes) <= MaxLate
      BY <1>1, CountsAre DEF StoreBudget
    <2>2. /\ IsFiniteSet(latePuts') /\ Cardinality(latePuts') \in Nat
          /\ IsFiniteSet(lateDeletes') /\ Cardinality(lateDeletes') \in Nat
          /\ Cardinality(latePuts') <= Cardinality(latePuts)
          /\ Cardinality(lateDeletes') <= Cardinality(lateDeletes)
      BY <1>4, <1>a, <1>b
    <2> QED
      BY <2>1, <2>2 DEF FewOnTheWire
  <1>6. /\ IsFiniteSet(blobs') /\ OnePerPathname'
        /\ \A S : Due(blobs' \ S, latePuts') \subseteq Due(blobs \ S, latePuts)
    <2>1. CASE LandPut
      <3>1. PICK p \in latePuts : Stores(p) /\ latePuts' = latePuts \ {p}
        BY <2>1 DEF LandPut
      <3>2. p \in PutRequest
        BY <1>1 DEF TypeOK
      <3>3. /\ IsFiniteSet(blobs') /\ OnePerPathname'
            /\ \A S : {RequestOf(b) : b \in blobs' \ S}
                        \subseteq {RequestOf(b) : b \in blobs \ S} \cup {p}
        BY <1>1, <3>1, <3>2, StoresOne
      <3> QED
        BY <3>1, <3>3 DEF Due
    <2>2. CASE LandDelete \/ LoseRequest
      <3>1. blobs' \subseteq blobs /\ latePuts' \subseteq latePuts
        BY <2>2 DEF LandDelete, LoseRequest, Deletes
      <3> QED
        BY <1>a, <3>1, FS_Subset DEF OnePerPathname, Due
    <2> QED
      BY <2>1, <2>2
  <1>7. StoreBudget' /\ Sheds(c)
    BY <1>3, <1>5, <1>6 DEF StoreBudget, StoreIsFinite, Sheds
  <1> QED
    BY <1>3, <1>7, SheddingKeeps

\* The invariant holds of the empty store.
LEMMA BudgetInit == Setting /\ Init => BudgetInv
  <1> SUFFICES ASSUME Setting, Init
               PROVE  BudgetInv
    OBVIOUS
  <1>1. TypeOK
    BY TypeInit
  <1>2. StoreIsFinite /\ OnePerPathname
    <2>1. IsFiniteSet({}) /\ Cardinality({}) = 0 /\ 0 + 0 <= MaxLate
      BY FS_EmptySet, BytesAssumption
    <2> QED
      BY <2>1 DEF Init, StoreIsFinite, FewOnTheWire, OnePerPathname
  <1>3. \A c \in Calls : call[c].pc = "idle" /\ Asks(call[c])
    BY FS_EmptySet DEF Init, Idle, Asks
  <1>4. call \in Asking
    BY <1>1, <1>3 DEF Asking, TypeOK
  <1> DEFINE rank == [c \in Calls |-> 0]
             X == Before(call, rank, 0)
  <1>5. Sweepers(call) = {}
    BY <1>3 DEF Sweepers
  <1>6. Claims(call, X) <= MaxBytes + Extra /\ Claims(call, X) \in Nat
    <2>1. PICK c \in Calls : TRUE
      BY DEF Setting
    <2>2. X = {}
      BY <1>5 DEF Before
    <2>3. Claim(call, c, X) = 0
      BY <1>3, <2>2 DEF Claim
    <2> HIDE DEF X
    <2>4. Claims(call, X) <= Claim(call, c, X) + (Cardinality(Calls) - 1) * Largest
      BY <1>4, ClaimsBound DEF Setting
    <2>5. Claims(call, X) \in Nat
      BY <1>4, ClaimsNat DEF Setting
    <2> QED
      BY <2>3, <2>4, <2>5, ExtraIs, BytesAssumption DEF Extra
  <1>7. DueBytes(blobs, latePuts) = 0
    <2>1. Due(blobs, latePuts) = {}
      BY DEF Init, Due
    <2> QED
      BY <2>1, SumEmpty DEF DueBytes
  <1>8. Ordered(blobs, latePuts, call, rank, 0)
    <2> HIDE DEF rank
    <2> QED
      BY <1>5, <1>6, <1>7 DEF Ordered
  <1>9. rank \in [Calls -> Nat] /\ \A c \in Calls : rank[c] < 1
    OBVIOUS
  <1> HIDE DEF rank
  <1>10. \E r \in [Calls -> Nat], outdated \in Nat, next \in Nat :
           /\ outdated <= next
           /\ \A c \in Calls : r[c] < next
           /\ Ordered(blobs, latePuts, call, r, outdated)
    <2>1. 0 \in Nat /\ 1 \in Nat /\ 0 <= 1
      OBVIOUS
    <2> QED
      BY <1>8, <1>9, <2>1
  <1> QED
    BY <1>1, <1>2, <1>3, <1>10 DEF BudgetInv

\* One step of the store for each of its actions.
LEMMA BudgetNext == Setting /\ BudgetInv /\ [Next]_vars => BudgetInv'
  <1> SUFFICES ASSUME Setting, BudgetInv, [Next]_vars
               PROVE  BudgetInv'
    OBVIOUS
  <1>a. TypeOK /\ TypeOK'
    BY TypeNext DEF BudgetInv
  <1>b. ASSUME NEW c \in Calls
        PROVE  call[c] \in CallState /\ Asks(call[c])
    BY <1>a DEF BudgetInv, TypeOK
  <1>1. ASSUME NEW c \in Calls, Start(c)
        PROVE  BudgetInv'
    <2>1. PICK k \in Keys, mode \in Modes :
            Become(c, [Idle EXCEPT !.mode = mode, !.key = k,
                                   !.pc = IF mode = "uncached" THEN "compute" ELSE "readMeta"])
      BY <1>1 DEF Start
    <2> DEFINE r == [Idle EXCEPT !.mode = mode, !.key = k,
                                 !.pc = IF mode = "uncached" THEN "compute" ELSE "readMeta"]
    <2>2. r.pc \in {"compute", "readMeta"} /\ Asks(r)
      BY FS_EmptySet DEF Idle, Asks
    <2>3. UNCHANGED <<blobs, latePuts, lateDeletes>>
      BY <1>1 DEF Start
    <2> HIDE DEF r
    <2> QED
      BY <1>a, <2>1, <2>2, <2>3, LookingKeeps DEF r
  <1>2. ASSUME NEW c \in Calls, ReadMeta(c)
        PROVE  BudgetInv'
    <2>1. UNCHANGED <<blobs, latePuts, lateDeletes>>
      BY <1>2 DEF ReadMeta
    <2>2. ASSUME NEW S, Become(c, [call[c] EXCEPT !.pc = "readPatches", !.seen = S])
          PROVE  BudgetInv'
      <3> DEFINE r == [call[c] EXCEPT !.pc = "readPatches", !.seen = S]
      <3>1. r.pc = "readPatches" /\ Asks(r)
        BY <1>b DEF Asks, CallState
      <3> HIDE DEF r
      <3> QED
        BY <1>a, <2>1, <2>2, <3>1, LookingKeeps DEF r
    <2> QED
      BY <1>2, <1>a, <2>1, <2>2, BranchesKeep DEF ReadMeta
  <1>3. ASSUME NEW c \in Calls, ReadPatches(c)
        PROVE  BudgetInv'
    <2>1. UNCHANGED <<blobs, latePuts, lateDeletes>>
      BY <1>3 DEF ReadPatches
    <2> QED
      BY <1>3, <1>a, <2>1, AnsweringKeeps, BranchesKeep DEF ReadPatches
  <1>4. ASSUME NEW c \in Calls, Compute(c)
        PROVE  BudgetInv'
    <2>1. UNCHANGED <<blobs, latePuts, lateDeletes>>
      BY <1>4 DEF Compute
    <2>2. ASSUME Become(c, [call[c] EXCEPT !.pc = "headMeta"])
          PROVE  BudgetInv'
      <3> DEFINE r == [call[c] EXCEPT !.pc = "headMeta"]
      <3>1. r.pc = "headMeta" /\ Asks(r)
        BY <1>b DEF Asks, CallState
      <3> HIDE DEF r
      <3> QED
        BY <1>a, <2>1, <2>2, <3>1, LookingKeeps DEF r
    <2> QED
      BY <1>4, <1>a, <2>1, <2>2, AnsweringKeeps DEF Compute
  <1>5. ASSUME NEW c \in Calls, Head(c)
        PROVE  BudgetInv'
    <2>1. UNCHANGED <<blobs, latePuts, lateDeletes>>
      BY <1>5 DEF Head
    <2> DEFINE half == IF call[c].pc = "headMeta" THEN "meta" ELSE "patches"
    <2>2. PICK missing \in SUBSET HalvesOf(call[c].key) :
            \/ /\ Fits(call[c].key)
               /\ Become(c, [call[c] EXCEPT !.pc = "headPatches", !.missing = missing])
            \/ Asked(c, missing)
            \/ GiveUp(c)
      <3>1. half \in HalvesOf(call[c].key) /\ call[c].missing \subseteq HalvesOf(call[c].key)
        BY <1>5, <1>b DEF Head, HalvesOf, Halves, Asks
      <3>2. /\ call[c].missing \in SUBSET HalvesOf(call[c].key)
            /\ call[c].missing \cup {half} \in SUBSET HalvesOf(call[c].key)
        BY <3>1
      <3> QED
        BY <1>5, <3>2 DEF Head
    <2>3. ASSUME Fits(call[c].key),
                 Become(c, [call[c] EXCEPT !.pc = "headPatches", !.missing = missing])
          PROVE  BudgetInv'
      <3> DEFINE r == [call[c] EXCEPT !.pc = "headPatches", !.missing = missing]
      <3>1. r.pc = "headPatches" /\ Asks(r)
        BY <1>b, <2>3 DEF Asks, CallState
      <3> HIDE DEF r
      <3> QED
        BY <1>a, <2>1, <2>3, <3>1, LookingKeeps DEF r
    <2> QED
      BY <1>a, <2>1, <2>2, <2>3, BranchesKeep
  <1>6. ASSUME NEW c \in Calls, List(c)
        PROVE  BudgetInv'
    BY <1>6, <1>a, AdmissionKeeps
  <1>7. ASSUME NEW c \in Calls, Evict(c)
        PROVE  BudgetInv'
    BY <1>7, <1>a, EvictingKeeps
  <1>8. ASSUME NEW c \in Calls, EndSweep(c)
        PROVE  BudgetInv'
    BY <1>8, <1>a, EndingKeeps
  <1>9. ASSUME NEW c \in Calls, Recheck(c)
        PROVE  BudgetInv'
    <2>1. UNCHANGED <<blobs, latePuts, lateDeletes>> /\ call[c].pc = "recheck"
      BY <1>9 DEF Recheck
    <2>2. ASSUME Become(c, [call[c] EXCEPT !.pc = "put"])
          PROVE  BudgetInv'
      <3> DEFINE r == [call[c] EXCEPT !.pc = "put"]
      <3>1. /\ r.pc = "put" /\ r.key = call[c].key /\ r.missing = call[c].missing /\ Asks(r)
        BY <1>b, <2>1 DEF Asks, CallState
      <3> HIDE DEF r
      <3> QED
        BY <1>a, <2>1, <2>2, <3>1, LookingKeeps DEF r
    <2> QED
      BY <1>9, <1>a, <2>1, <2>2, BranchesKeep DEF Recheck
  <1>10. ASSUME NEW c \in Calls, Put(c)
         PROVE  BudgetInv'
    BY <1>10, <1>a, WritingKeeps
  <1>11. ASSUME NEW c \in Calls, DropWrite(c) \/ Abandon(c)
         PROVE  BudgetInv'
    BY <1>11, <1>a, LeavingKeeps DEF DropWrite, GiveUp, Abandon
  <1>12. ASSUME NEW c \in Calls, OutOfTime(c)
         PROVE  BudgetInv'
    BY <1>12, <1>a, AnsweringKeeps DEF OutOfTime
  <1>13. ASSUME NEW c \in Calls, Return(c)
         PROVE  BudgetInv'
    <2>1. Idle.pc = "idle" /\ Asks(Idle)
      BY FS_EmptySet DEF Idle, Asks
    <2>2. UNCHANGED <<blobs, latePuts, lateDeletes>> /\ Become(c, Idle)
      BY <1>13 DEF Return
    <2> QED
      BY <1>a, <2>1, <2>2, LookingKeeps
  <1>14. CASE LandPut \/ LandDelete \/ LoseRequest
    BY <1>14, <1>a, WireKeeps
  <1>15. CASE UNCHANGED vars
    <2>1. UNCHANGED <<blobs, latePuts, lateDeletes, call>>
      BY <1>15 DEF vars
    <2> QED
      BY <1>a, <2>1 DEF BudgetInv, StoreIsFinite, FewOnTheWire, OnePerPathname
  <1> QED
    BY <1>1, <1>2, <1>3, <1>4, <1>5, <1>6, <1>7, <1>8, <1>9, <1>10, <1>11, <1>12, <1>13,
       <1>14, <1>15 DEF Next, Progress, Quiet

\* The inductive invariant of the budget: what the store holds, what is on its
\* way and what the calls may still write are accounted for, in the order the
\* calls listed in.
THEOREM BudgetInvariance == Setting => (Spec => []BudgetInv)
  <1> SUFFICES ASSUME Setting
               PROVE  Spec => []BudgetInv
    OBVIOUS
  <1>1. BudgetInv /\ [Next]_vars => BudgetInv'
    BY BudgetNext
  <1>2. Init => BudgetInv
    BY BudgetInit
  <1> QED
    BY <1>1, <1>2, PTL DEF Spec

\* However many calls write at once, and whatever is late, lost or fails, the
\* store never holds more than its budget, an entry for each call but one, and a
\* blob for each write that may be late: for every set of keys whose sizes have a
\* bound, keys of one diff_id included, over a store that replaces or refuses.
THEOREM OvershootIsBounded == Setting => (Spec => []OvershootBounded)
  <1> SUFFICES ASSUME Setting
               PROVE  Spec => []OvershootBounded
    OBVIOUS
  <1>1. ASSUME BudgetInv
        PROVE  OvershootBounded
    <2>1. Held(blobs, latePuts) /\ call \in Asking
      BY <1>1, InvHolds
    <2>2. PICK rank \in [Calls -> Nat], outdated \in Nat :
            Ordered(blobs, latePuts, call, rank, outdated)
      BY <1>1 DEF BudgetInv
    <2> DEFINE X == Before(call, rank, outdated)
    <2>3. DueBytes(blobs, latePuts) + Claims(call, X) <= MaxBytes + Extra
      BY <2>2 DEF Ordered
    <2>4. /\ Total(blobs) <= DueBytes(blobs, latePuts)
          /\ DueBytes(blobs, latePuts) \in Nat /\ Total(blobs) \in Nat
      BY <1>1, <2>1, DueIs DEF BudgetInv, OnePerPathname, Held
    <2> HIDE DEF X
    <2>5. Claims(call, X) \in Nat
      BY <2>1, ClaimsNat DEF Setting
    <2>6. Total(blobs) <= MaxBytes + Extra
      BY <2>3, <2>4, <2>5, ExtraIs, BytesAssumption
    <2>7. MaxBytes + Extra
            = MaxBytes + (Cardinality(Calls) - 1) * Largest + MaxLate * LargestBlob
      BY ExtraIs, BytesAssumption DEF Extra
    <2> QED
      BY <2>6, <2>7 DEF OvershootBounded
  <1>2. Spec => []BudgetInv
    BY BudgetInvariance
  <1> QED
    BY <1>1, <1>2, PTL

\* One call at a time, with nothing late on the wire, keeps the budget.
THEOREM BudgetKept == OneAtATime /\ Calls # {} /\ SizesBounded => (Spec => []WithinBudget)
  <1> SUFFICES ASSUME OneAtATime, Calls # {}, SizesBounded
               PROVE  Spec => []WithinBudget
    OBVIOUS
  <1>1. IsFiniteSet(Calls) /\ Cardinality(Calls) = 1
    <2>1. PICK c \in Calls : Calls = {c}
      BY DEF OneAtATime
    <2> QED
      BY <2>1, FS_Singleton
  <1>2. Setting
    BY <1>1 DEF Setting
  <1>3. OvershootBounded => WithinBudget
    <2>1. (Cardinality(Calls) - 1) * Largest = 0 /\ MaxLate * LargestBlob = 0
      BY <1>1, <1>2, ExtraIs DEF OneAtATime
    <2> QED
      BY <2>1, BytesAssumption DEF OvershootBounded, WithinBudget
  <1>4. Spec => []OvershootBounded
    BY <1>2, OvershootIsBounded
  <1> QED
    BY <1>3, <1>4, PTL
==============================================================================
