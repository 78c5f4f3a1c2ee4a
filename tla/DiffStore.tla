------------------------------ MODULE DiffStore ------------------------------
(***************************************************************************)
(* The DiffStore: entries of two blobs (meta.json, patches.json) in a blob *)
(* store that every invocation shares, the lookup and the write of         *)
(* src/store/mod.rs as the calls of many invocations interleave them, and  *)
(* the budget's sweep.  Each await of a call is one action; between two    *)
(* awaits nothing is shared, so nothing else needs to be split.            *)
(*                                                                         *)
(* An entry's bytes are abstracted to the DiffKey they were computed for,  *)
(* its size to the constants below, an upload time to a stamp.             *)
(***************************************************************************)
EXTENDS Naturals, FiniteSets, FiniteSetsExt, Answers

CONSTANTS
  Calls,         \* calls in flight at once, over every invocation
  MetaBytes,     \* the size of each key's meta.json
  PatchesBytes,  \* the size of each key's patches.json, its large patches left out
  OverPatchCap,  \* the keys with a patch larger than patch_cap
  EntryCap,      \* entry_cap: the largest entry written with its patches
  MaxBytes,      \* max_bytes: what the store may hold
  TargetBytes,   \* target_bytes: what a sweep brings it down to
  Modes,         \* who calls: see CallState
  Replaces,      \* whether a write replaces a blob: the memory adapter's does
  Faults,        \* what can go wrong: operations of the store, "decode", "compute", "time"
  MaxStarts,     \* bound: the calls that ever start
  MaxLate        \* bound: the requests still on the wire after their call gave up on them

ASSUME ModesAssumption == Modes \subseteq {"compare", "uncached", "byId"}
ASSUME BytesAssumption ==
  /\ MetaBytes \in [Keys -> Nat \ {0}]
  /\ PatchesBytes \in [Keys -> Nat \ {0}]
  /\ {EntryCap, MaxBytes, TargetBytes, MaxStarts, MaxLate} \subseteq Nat
  /\ TargetBytes <= MaxBytes

Halves == {"meta", "patches"}

\* bytes.len() + patches.len() <= entry_cap: patches.json is written at all.
Fits(k) == MetaBytes[k] + PatchesBytes[k] <= EntryCap

\* The halves an entry is written as, and the bytes of some of them.
HalvesOf(k) == IF Fits(k) THEN Halves ELSE {"meta"}
BytesOf(k, halves) ==
  (IF "meta" \in halves THEN MetaBytes[k] ELSE 0)
    + (IF "patches" \in halves THEN PatchesBytes[k] ELSE 0)

ASSUME OmittingIsPatchesOmitted == Omitting = {k \in Keys : k \in OverPatchCap \/ ~Fits(k)}

Blob == [id : Ids, half : Halves, of : Keys, at : Nat]

\* A request to write a blob, and one to delete the blobs listed for an entry.
PutRequest    == [id : Ids, half : Halves, of : Keys]
DeleteRequest == [id : Ids, halves : SUBSET Halves]

At(S, id, half) == {b \in S : b.id = id /\ b.half = half}
Total(S) == MapThenSumSet(LAMBDA b : BytesOf(b.of, {b.half}), S)

VARIABLES
  blobs,        \* what the store holds
  uploads,      \* the stamp of the next upload
  latePuts,     \* writes on the wire whose call no longer waits for them
  lateDeletes,  \* deletes likewise
  call,         \* what each call is doing
  computed,     \* history: the keys whose comparison some call has worked out
  started       \* history: how many calls have started

storeVars == <<blobs, uploads, latePuts, lateDeletes>>
vars == <<blobs, uploads, latePuts, lateDeletes, call, computed, started>>

(***************************************************************************)
(* A call and its locals.  "compare" is compare() over a store, "uncached" *)
(* compare() over none, "byId" the entries route, which knows the diff_id  *)
(* of key and not key itself.  missing is the blobs that write will make,  *)
(* listing what the sweep still counts of the listing it took, and tried   *)
(* the entries of it whose delete did not succeed.                         *)
(***************************************************************************)
Writing == {"headMeta", "headPatches", "list", "sweep", "recheck", "put"}
Steps == {"idle", "readMeta", "readPatches", "compute", "done"} \cup Writing
CallState ==
  [pc : Steps, mode : {"compare", "uncached", "byId"}, key : Keys,
   seen : SUBSET Keys, missing : SUBSET Halves, listing : SUBSET Blob,
   tried : SUBSET Ids, answer : Answer]

Idle ==
  [pc |-> "idle", mode |-> "compare", key |-> CHOOSE k \in Keys : TRUE,
   seen |-> {}, missing |-> {}, listing |-> {}, tried |-> {}, answer |-> NoAnswer]

TypeOK ==
  /\ blobs \subseteq Blob
  /\ uploads \in Nat
  /\ latePuts \subseteq PutRequest
  /\ lateDeletes \subseteq DeleteRequest
  /\ call \in [Calls -> CallState]
  /\ computed \subseteq Keys
  /\ started \in Nat

Init ==
  /\ blobs = {}
  /\ uploads = 0
  /\ latePuts = {}
  /\ lateDeletes = {}
  /\ call = [c \in Calls |-> Idle]
  /\ computed = {}
  /\ started = 0

Busy(c) == call[c].pc \notin {"idle", "done"}
IdOf(c) == DiffId[call[c].key]

\* The call goes on as r; its locals are out of scope once it has its answer.
Become(c, r) == call' = [call EXCEPT ![c] = r]
Finish(c, a) ==
  Become(c, [Idle EXCEPT !.pc = "done", !.mode = call[c].mode, !.key = call[c].key, !.answer = a])

------------------------------------------------------------------------------
(***************************************************************************)
(* The blob store.  A write the store already has a blob for is refused    *)
(* (x-allow-overwrite: 0), except by the memory adapter; a delete of what  *)
(* is not there succeeds.                                                  *)
(***************************************************************************)
Stores(p) ==
  LET there == At(blobs, p.id, p.half)
  IN  /\ blobs' = IF there = {} \/ Replaces
                  THEN (blobs \ there)
                         \cup {[id |-> p.id, half |-> p.half, of |-> p.of, at |-> uploads]}
                  ELSE blobs
      /\ uploads' = uploads + 1

Deletes(d) ==
  /\ blobs' = {b \in blobs : ~(b.id = d.id /\ b.half \in d.halves)}
  /\ UNCHANGED uploads

RoomForLate == Cardinality(latePuts) + Cardinality(lateDeletes) < MaxLate

(***************************************************************************)
(* send() makes up to three attempts, and one that timed out may still be  *)
(* on its way when another is answered, or when the call gives up.         *)
(***************************************************************************)
LingerPut(p) ==
  /\ \/ UNCHANGED latePuts
     \/ RoomForLate /\ latePuts' = latePuts \cup {p}
  /\ UNCHANGED lateDeletes
LingerDelete(d) ==
  /\ \/ UNCHANGED lateDeletes
     \/ RoomForLate /\ lateDeletes' = lateDeletes \cup {d}
  /\ UNCHANGED latePuts

\* A request that was answered, and one that was served or not without an answer.
ServedPut(p)    == Stores(p) /\ LingerPut(p)
UnsurePut(p)    == (Stores(p) \/ UNCHANGED <<blobs, uploads>>) /\ LingerPut(p)
ServedDelete(d) == Deletes(d) /\ LingerDelete(d)
UnsureDelete(d) == (Deletes(d) \/ UNCHANGED <<blobs, uploads>>) /\ LingerDelete(d)

LandPut ==
  /\ \E p \in latePuts : Stores(p) /\ latePuts' = latePuts \ {p}
  /\ UNCHANGED <<lateDeletes, call, computed, started>>
LandDelete ==
  /\ \E d \in lateDeletes : Deletes(d) /\ lateDeletes' = lateDeletes \ {d}
  /\ UNCHANGED <<latePuts, call, computed, started>>
LoseRequest ==
  /\ \/ \E p \in latePuts : latePuts' = latePuts \ {p} /\ UNCHANGED lateDeletes
     \/ \E d \in lateDeletes : lateDeletes' = lateDeletes \ {d} /\ UNCHANGED latePuts
  /\ UNCHANGED <<blobs, uploads, call, computed, started>>

------------------------------------------------------------------------------
(***************************************************************************)
(* Looking up: DiffStore::get and get_by_id.                               *)
(***************************************************************************)
Start(c) ==
  /\ call[c].pc = "idle"
  /\ started < MaxStarts
  /\ \E k \in Keys, mode \in Modes :
       Become(c, [Idle EXCEPT !.mode = mode, !.key = k,
                              !.pc = IF mode = "uncached" THEN "compute" ELSE "readMeta"])
  /\ started' = started + 1
  /\ UNCHANGED <<blobs, uploads, latePuts, lateDeletes, computed>>

\* A miss is a 404 to the route that reads by diff_id, and work for compare().
Miss(c) ==
  \/ call[c].mode = "byId" /\ Finish(c, Nothing("miss"))
  \/ call[c].mode # "byId" /\ Become(c, [call[c] EXCEPT !.pc = "compute", !.seen = {}])

\* get compares the whole key, get_by_id the diff_id its meta.json names.
Matches(c, m) ==
  IF call[c].mode = "byId" THEN DiffId[m.of] = IdOf(c) ELSE m.of = call[c].key

ReadMeta(c) ==
  /\ call[c].pc = "readMeta"
  /\ LET metas == {m \in At(blobs, IdOf(c), "meta") : Matches(c, m)}
     IN  \/ \E m \in metas : Become(c, [call[c] EXCEPT !.pc = "readPatches", !.seen = {m.of}])
         \/ (metas = {} \/ {"read", "decode"} \cap Faults # {}) /\ Miss(c)
  /\ UNCHANGED <<blobs, uploads, latePuts, lateDeletes, computed, started>>

\* Mutant: an entry without its patches is served whatever its meta.json says.
ReadPatchesOrNone(c) ==
  /\ call[c].pc = "readPatches"
  /\ LET patches == At(blobs, IdOf(c), "patches")
     IN  \/ \E p \in patches : Finish(c, CachedOf(call[c].seen, {p.of}))
         \/ (patches = {} \/ "read" \in Faults) /\ Finish(c, CachedOf(call[c].seen, {}))
  /\ UNCHANGED <<blobs, uploads, latePuts, lateDeletes, computed, started>>

\* Mutant: an entry without its patches is a miss even when its meta.json omits them.
ReadPatchesOrMiss(c) ==
  /\ call[c].pc = "readPatches"
  /\ LET patches == At(blobs, IdOf(c), "patches")
     IN  \/ \E p \in patches : Finish(c, CachedOf(call[c].seen, {p.of}))
         \/ patches = {} /\ Miss(c)
  /\ UNCHANGED <<blobs, uploads, latePuts, lateDeletes, computed, started>>

ReadPatches(c) ==
  /\ call[c].pc = "readPatches"
  /\ LET patches == At(blobs, IdOf(c), "patches")
         unread  == patches = {} \/ "read" \in Faults
         omitted == call[c].seen \subseteq Omitting
     IN  \/ \E p \in patches : Finish(c, CachedOf(call[c].seen, {p.of}))
         \/ unread /\ omitted /\ Finish(c, CachedOf(call[c].seen, {}))
         \/ unread /\ ~omitted /\ Miss(c)
         \/ patches # {} /\ "decode" \in Faults /\ Miss(c)
  /\ UNCHANGED <<blobs, uploads, latePuts, lateDeletes, computed, started>>

(***************************************************************************)
(* The miss: two downloads and the engine, neither of which can touch the  *)
(* store.  Only a comparison that was worked out is ever put.              *)
(***************************************************************************)
Compute(c) ==
  /\ call[c].pc = "compute"
  /\ \/ /\ computed' = computed \cup {call[c].key}
        /\ IF call[c].mode = "uncached"
           THEN Finish(c, FreshOf(call[c].key))
           ELSE Become(c, [call[c] EXCEPT !.pc = "headMeta"])
     \/ /\ "compute" \in Faults
        /\ Finish(c, Nothing("failed"))
        /\ UNCHANGED computed
  /\ UNCHANGED <<blobs, uploads, latePuts, lateDeletes, started>>

------------------------------------------------------------------------------
(***************************************************************************)
(* Writing: DiffStore::put.  Whatever stops it, the answer is the          *)
(* comparison.                                                             *)
(***************************************************************************)
GiveUp(c) == Finish(c, FreshOf(call[c].key))

Incoming(c) == BytesOf(call[c].key, call[c].missing)

\* Every half was asked about and these are not there.
Asked(c, missing) ==
  \/ missing = {} /\ GiveUp(c)
  \/ BytesOf(call[c].key, missing) > MaxBytes /\ GiveUp(c)
  \/ /\ missing # {}
     /\ BytesOf(call[c].key, missing) <= MaxBytes
     /\ Become(c, [call[c] EXCEPT !.pc = "list", !.missing = missing])

Head(c) ==
  /\ call[c].pc \in {"headMeta", "headPatches"}
  /\ LET half    == IF call[c].pc = "headMeta" THEN "meta" ELSE "patches"
         missing == IF At(blobs, IdOf(c), half) = {}
                    THEN call[c].missing \cup {half} ELSE call[c].missing
     IN  \/ IF half = "meta" /\ Fits(call[c].key)
            THEN Become(c, [call[c] EXCEPT !.pc = "headPatches", !.missing = missing])
            ELSE Asked(c, missing)
         \/ "head" \in Faults /\ GiveUp(c)
  /\ UNCHANGED <<blobs, uploads, latePuts, lateDeletes, computed, started>>

\* Mutant: what is admitted is left out of what is compared with the budget.
ListWithoutIncoming(c) ==
  /\ call[c].pc = "list"
  /\ \/ /\ Total(blobs) <= MaxBytes
        /\ Become(c, [call[c] EXCEPT !.pc = "recheck"])
     \/ /\ Total(blobs) > MaxBytes
        /\ Become(c, [call[c] EXCEPT !.pc = "sweep", !.listing = blobs])
  /\ UNCHANGED <<blobs, uploads, latePuts, lateDeletes, computed, started>>

List(c) ==
  /\ call[c].pc = "list"
  /\ \/ /\ Total(blobs) + Incoming(c) <= MaxBytes
        /\ Become(c, [call[c] EXCEPT !.pc = "recheck"])
     \/ /\ Total(blobs) + Incoming(c) > MaxBytes
        /\ Become(c, [call[c] EXCEPT !.pc = "sweep", !.listing = blobs])
     \/ "list" \in Faults /\ GiveUp(c)
  /\ UNCHANGED <<blobs, uploads, latePuts, lateDeletes, computed, started>>

\* The entries of the listing, and whether one is older than another: by its older half.
Listed(S) == {b.id : b \in S}
Older(S, id, other) ==
  \E b \in S : b.id = id /\ \A d \in S : d.id = other => b.at < d.at

Untried(c) == Listed(call[c].listing) \ call[c].tried
Oldest(c) == {id \in Untried(c) :
                \A other \in Untried(c) \ {id} : Older(call[c].listing, id, other)}

Swept(c) == Total(call[c].listing) + Incoming(c) <= TargetBytes \/ Untried(c) = {}

\* Mutant: a sweep deletes one blob of an entry.
DeleteOfMeta(c, id) == [id |-> id, halves |-> {"meta"}]

DeleteOf(c, id) ==
  [id |-> id, halves |-> {b.half : b \in {d \in call[c].listing : d.id = id}}]

Evict(c) ==
  /\ call[c].pc = "sweep"
  /\ ~Swept(c)
  /\ \E id \in Oldest(c) :
       \/ /\ ServedDelete(DeleteOf(c, id))
          /\ Become(c, [call[c] EXCEPT !.listing = {b \in @ : b.id # id}])
       \/ /\ "delete" \in Faults
          /\ UnsureDelete(DeleteOf(c, id))
          /\ Become(c, [call[c] EXCEPT !.tried = @ \cup {id}])
  /\ UNCHANGED <<computed, started>>

\* Mutant: a sweep that freed too little admits all the same.
EndSweepAdmitting(c) ==
  /\ call[c].pc = "sweep"
  /\ Swept(c)
  /\ Become(c, [call[c] EXCEPT !.pc = "recheck", !.listing = {}, !.tried = {}])
  /\ UNCHANGED <<blobs, uploads, latePuts, lateDeletes, computed, started>>

\* Mutant: a sweep goes on until it has reached its target.
EndSweepAtTarget(c) ==
  /\ call[c].pc = "sweep"
  /\ Total(call[c].listing) + Incoming(c) <= TargetBytes
  /\ Become(c, [call[c] EXCEPT !.pc = "recheck", !.listing = {}, !.tried = {}])
  /\ UNCHANGED <<blobs, uploads, latePuts, lateDeletes, computed, started>>

EndSweep(c) ==
  /\ call[c].pc = "sweep"
  /\ Swept(c)
  /\ IF Total(call[c].listing) + Incoming(c) <= MaxBytes
     THEN Become(c, [call[c] EXCEPT !.pc = "recheck", !.listing = {}, !.tried = {}])
     ELSE GiveUp(c)
  /\ UNCHANGED <<blobs, uploads, latePuts, lateDeletes, computed, started>>

\* meta.json is written before patches.json.
NextHalf(missing) == IF "meta" \in missing THEN "meta" ELSE "patches"
PutOf(c) == [id |-> IdOf(c), half |-> NextHalf(call[c].missing), of |-> call[c].key]

\* On to the next missing half, if there is one.
Written(c) ==
  LET rest == call[c].missing \ {NextHalf(call[c].missing)}
  IN  IF rest = {} THEN GiveUp(c)
      ELSE Become(c, [call[c] EXCEPT !.pc = "recheck", !.missing = rest])

Recheck(c) ==
  /\ call[c].pc = "recheck"
  /\ LET there == At(blobs, IdOf(c), NextHalf(call[c].missing))
     IN  \/ there = {} /\ Become(c, [call[c] EXCEPT !.pc = "put"])
         \/ (there # {} \/ "head" \in Faults) /\ Written(c)
  /\ UNCHANGED <<blobs, uploads, latePuts, lateDeletes, computed, started>>

Put(c) ==
  /\ call[c].pc = "put"
  /\ \/ ServedPut(PutOf(c))
     \/ "put" \in Faults /\ UnsurePut(PutOf(c))
  /\ Written(c)
  /\ UNCHANGED <<computed, started>>

------------------------------------------------------------------------------
(***************************************************************************)
(* Deadlines and lost callers.  A call that stops waiting leaves the       *)
(* request it had sent on the wire.                                        *)
(***************************************************************************)
LeavesBehind(c) ==
  \/ UNCHANGED storeVars
  \/ call[c].pc = "put" /\ UnsurePut(PutOf(c))
  \/ call[c].pc = "sweep" /\ ~Swept(c) /\ \E id \in Oldest(c) : UnsureDelete(DeleteOf(c, id))

\* WRITE_DEADLINE, or the little the call has left, ends the write and not the call.
DropWrite(c) ==
  /\ "time" \in Faults
  /\ call[c].pc \in Writing
  /\ LeavesBehind(c)
  /\ GiveUp(c)
  /\ UNCHANGED <<computed, started>>

\* Mutant: the deadline also takes an answer that is already there.
OutOfTimeOnceDone(c) ==
  /\ "time" \in Faults
  /\ call[c].pc # "idle"
  /\ call[c].pc \notin Writing
  /\ Finish(c, Nothing("outOfTime"))
  /\ UNCHANGED <<blobs, uploads, latePuts, lateDeletes, computed, started>>

\* CALL_DEADLINE: a write ends a second before it, so it finds the call before its write.
OutOfTime(c) ==
  /\ "time" \in Faults
  /\ Busy(c)
  /\ call[c].pc \notin Writing
  /\ Finish(c, Nothing("outOfTime"))
  /\ UNCHANGED <<blobs, uploads, latePuts, lateDeletes, computed, started>>

\* The caller hangs up or the instance stops.
Abandon(c) ==
  /\ "time" \in Faults
  /\ Busy(c)
  /\ LeavesBehind(c)
  /\ Finish(c, Nothing("gone"))
  /\ UNCHANGED <<computed, started>>

\* The answer is sent; nothing of a call outlives it.
Return(c) ==
  /\ call[c].pc = "done"
  /\ Become(c, Idle)
  /\ UNCHANGED <<blobs, uploads, latePuts, lateDeletes, computed, started>>

\* No further call arrives.
Quiet ==
  /\ started = MaxStarts
  /\ \A c \in Calls : call[c].pc = "idle"
  /\ UNCHANGED vars

\* What the runtime drives once a call has started.
Progress(c) ==
  \/ ReadMeta(c) \/ ReadPatches(c) \/ Compute(c)
  \/ Head(c) \/ List(c) \/ Evict(c) \/ EndSweep(c) \/ Recheck(c) \/ Put(c)
  \/ Return(c)

Next ==
  \/ \E c \in Calls : Start(c) \/ Progress(c) \/ DropWrite(c) \/ OutOfTime(c) \/ Abandon(c)
  \/ LandPut \/ LandDelete \/ LoseRequest
  \/ Quiet

Spec == Init /\ [][Next]_vars

FairSpec == Spec /\ \A c \in Calls : WF_vars(Progress(c))

------------------------------------------------------------------------------
(***************************************************************************)
(* Properties.                                                             *)
(***************************************************************************)
Question(c) ==
  IF call[c].mode = "byId" THEN {k \in Keys : DiffId[k] = IdOf(c)} ELSE {call[c].key}

\* Nothing a lookup serves is put together from comparisons under two diff_ids,
\* or has the tree of inputs the call did not ask about, or is half an entry that
\* does not say so, or was never worked out, whatever writes, sweeps, faults and
\* late requests run between the read of meta.json and the read of patches.json,
\* and whichever thresholds share a diff_id.
ServesWhatWasAsked ==
  \A c \in Calls :
    call[c].answer.kind = "cached" =>
      /\ Coherent(call[c].answer)
      /\ call[c].answer.tree \subseteq Question(c)
      /\ call[c].answer.tree \cup call[c].answer.patches \subseteq computed

\* The tree and the patches a lookup serves are of one comparison: of one key,
\* threshold included, and not of two that share a diff_id.
ServesOneComparison ==
  \A c \in Calls :
    call[c].answer.kind = "cached" => call[c].answer.patches \subseteq call[c].answer.tree

\* A pathname holds one blob and it keeps its upload time, the order eviction
\* runs in, for as long as it is held: two calls that write one entry at once,
\* and writes that land late, never renew it.
UploadsAreNotRenewed ==
  [][\A b \in blobs, d \in blobs' : b.id = d.id /\ b.half = d.half => b = d]_vars

\* The store never holds more than the budget.
WithinBudget == Total(blobs) <= MaxBytes

\* What admissions made at once can add to the budget: an entry for each call
\* but the one that listed last, and each write that lands late.
Largest     == Max({BytesOf(k, HalvesOf(k)) : k \in Keys})
LargestBlob == Max({BytesOf(k, {half}) : k \in Keys, half \in Halves})
OvershootBounded ==
  Total(blobs) <= MaxBytes + (Cardinality(Calls) - 1) * Largest + MaxLate * LargestBlob

\* Blobs leave the store an entry at a time, and no entry that stays was there
\* before one that leaves, but one whose delete the sweep has seen fail: what
\* oldest_first sorts is the store and not only the listing, for one call at a time.
EvictsOldestWhole ==
  [][\A b \in blobs \ blobs', d \in blobs \cap blobs' :
        /\ b.id # d.id
        /\ Older(blobs, b.id, d.id) \/ \E c \in Calls : d.id \in call[c].tried]_vars

\* The whole entry of a key is in the store.
Whole(S, k) == \A half \in HalvesOf(k) : At(S, DiffId[k], half) # {}

\* A comparison is worked out again only when the store does not hold it.
RecomputesOnlyWhatIsNotHeld ==
  \A c \in Calls :
    call[c].pc = "compute" /\ call[c].mode = "compare" => ~Whole(blobs, call[c].key)

\* A put that lands the last blob its entry is missing leaves a whole entry: the
\* half it did not write is still there, however many calls write at once.
PutLeavesWhole ==
  [][\A c \in Calls :
        /\ call[c].pc = "put"
        /\ Cardinality(call[c].missing) = 1
        /\ blobs' # blobs
        /\ call'[c] # call[c]
        => Whole(blobs', call[c].key)]_vars

\* Every call that starts is answered, whatever the store does.
EveryCallAnswered == \A c \in Calls : Busy(c) ~> call[c].pc = "done"

(***************************************************************************)
(* The inductive invariant behind ServesWhatWasAsked, UploadsAreNotRenewed *)
(* and IsACache.                                                           *)
(***************************************************************************)
\* No two keys are one entry: true of keys whose thresholds differ to four decimals.
DistinctIds == \A j, k \in Keys : DiffId[j] = DiffId[k] => j = k

\* A pathname holds one blob.
OnePerPathname == \A b, d \in blobs : b.id = d.id /\ b.half = d.half => b = d

\* What is kept, or may yet be, was computed for the key whose diff_id it is under.
KeptWasComputed ==
  /\ \A b \in blobs : b.of \in computed /\ b.id = DiffId[b.of]
  /\ \A p \in latePuts : p.of \in computed /\ p.id = DiffId[p.of]

\* An answer that a cache which knows these keys may give to what was asked.
Settled(c, a, known) ==
  \/ /\ a.kind = "cached"
     /\ Coherent(a)
     /\ a.tree \subseteq Question(c) \cap known
     /\ a.patches \subseteq known
  \/ call[c].key \in known /\ a = FreshOf(call[c].key)
  \/ \E kind \in Empty : a = Nothing(kind)

CallInv(c) ==
  /\ call[c].pc \in Writing => call[c].key \in computed
  /\ call[c].pc = "readPatches" => \E k \in Question(c) \cap computed : call[c].seen = {k}
  /\ call[c].pc # "done" => call[c].answer = NoAnswer
  /\ call[c].pc = "done" => Settled(c, call[c].answer, computed)

\* Whatever the store holds belongs where it is, and each call holds what it was asked for.
IInv ==
  /\ TypeOK
  /\ OnePerPathname
  /\ KeptWasComputed
  /\ \A c \in Calls : CallInv(c)

(***************************************************************************)
(* The store implements the cache it is to the tools.                      *)
(***************************************************************************)
AllQuestions == {{k} : k \in Keys} \cup {{k \in Keys : DiffId[k] = DiffId[j]} : j \in Keys}

Cache == INSTANCE DiffCache WITH
  Questions <- AllQuestions,
  asked <- [c \in Calls |-> IF call[c].pc = "idle" THEN {} ELSE Question(c)],
  given <- [c \in Calls |-> call[c].answer]

\* Every behaviour of the two blobs, the budget and the deadlines is one of a
\* cache that answers a question with the comparison it asks for, and marks as
\* cached only what earlier calls worked out under its diff_id.
IsACache == Cache!Spec
==============================================================================
