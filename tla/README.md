# diffpack-server in TLA+

A verification project for `diffpack-server`, an MCP server that diffs two
published versions of a package and remembers the comparisons in a blob store
that every invocation of a serverless function shares.  Paths are relative to
the repository, and Rust files are named below `src/src/` (`store/mod.rs` is
`src/src/store/mod.rs`).  `PROJECT.json` holds the index: which lines each
definition translates, what each run checks, a mutant of the code that breaks
each property, the hazards and the theorems.

1. [Inventory](#1-inventory) - 2. [Plan](#2-plan) - 3. [Modules](#3-modules-and-code) -
4. [Runs](#4-runs) - 5. [Fairness](#5-fairness) - 6. [Proofs](#6-proofs) -
7. [Disagreements](#7-disagreements-with-the-documents) - 8. [Limits](#8-what-is-left-out)

## 1. Inventory

| Part | State it keeps | Operations | Talks to |
|---|---|---|---|
| **Diff store** `store/mod.rs` | none of its own: two blobs an entry in the shared store | `get`, `get_by_id`, `put` (head, list, sweep, head, write) | blob API or the memory adapter |
| **Blob API** `store/blob.rs` | none: HTTP requests, three attempts each | `put head read list delete` | the blob service, over a network that loses answers |
| **Calls** `tools/mod.rs`, `log.rs`, `compute.rs` | deadline, lookup outcome, fetch window, one log line | `run`, `Recorded::get/put`, `Timed::fetch`, the blocking pool | every seam below |
| **Comparisons** `tools/diff_package_versions.rs`, `get_file_diff.rs`, `resources/file_diff.rs` | the `Comparison` a call holds | `compare`, `file_patch`, `refuse_directory`, `walk` | diff store, archive, engine |
| **Downloads** `fetch.rs`, `document/` | process wide: four slots, one turn, one remembered document | `bytes`, `body`, `fetched_once` | registries |
| **Documents** `document/mod.rs` | a limit, and live or fixtures | `body` behind a host list | downloads |
| **Archive, catalogue, search** | none | `fetch`, `versions`, `hits` | documents, registry |
| **Registry** `registry.rs` | none | what five registries' documents, names and URLs mean | - |
| **Diff tree** `tools/get_diff_tree.rs` | none | `node_at`, `flatten` | comparisons, pages |
| **Pages and excerpts** `page.rs` | none: the cursor is the client's | `paginate`, `truncate` | - |
| **Other tools, resources, prompts** | none | one function each | comparisons, archive, catalogue, search |
| **Cache key, handle, addresses** `cache_key.rs`, `handle.rs`, `resources/mod.rs` | none | `diff_id`, `encode`, `decode`, `Address::of` | - |
| **Failures** `error.rs` | none | `kind`, `channel`, `message`, `respond`, `refuse` | every part |
| **Protocol, routes, entries** `mcp.rs`, `router.rs`, `entries.rs` | none | the protocol, the HTTP routes | calls, diff store |
| **Engine** (a crate outside the repository) | none | `build_diff_tree`, `build_patch` | - |

How they interact.  A request becomes one call, with one deadline.  A call that
compares looks the comparison up (two reads), and when it is not there downloads
both versions at once, works on the blocking pool, writes the entry and answers.
Everything it awaits may fail, may be slow and may be dropped, by the deadline or
because the caller went away.  Calls share nothing but the slots, the turn and
the memo of their process, and the blobs, with every other process.

What is hard in each part, and what makes it correct:

- *Diff store.*  No lock over the blobs, so every interleaving of the steps of two
  writes, a sweep and a lookup happens; an entry is two blobs written one after the
  other under a deadline; a write whose sender gave up may land later.  Thresholds are
  rounded in an entry's name and not in its key, so two comparisons can have one name.
  Correct when a lookup serves the whole of one comparison, the one asked for (where
  names are shared it does not, section 7); when what is there is not worked out again;
  when the budget holds as far as it can, and a sweep takes the oldest entries, whole.
- *Blob API.*  A request is sent up to three times, and a try that was given up
  may have been served.  Correct when its time is bounded, what it reports was
  true, nothing is replaced, and a listing that is read in pages misses nothing
  that stayed.
- *Calls.*  Several clocks: waits of known length add up to less than the
  deadline, and the work on the pool has no length.  Correct when every call is
  answered, a late one is blamed on the computation only when that is the cause,
  and its line says what happened.
- *Comparisons.*  One question has three ways to its answer: the files, the whole
  entry, an entry that lacks the patch.  Correct when all three agree.
- *Downloads.*  Permits, a mutex held across a whole download, a memo that goes
  stale, callers dropped at any await.  Correct when nothing leaks, nothing held
  is fetched, waits are bounded and everything ends.
- *Archive, catalogue, search.*  A call is one document, two at once, or one that
  names the next; each may be missing, slow, cut off, too large or strange, on a host
  nobody knows, or behind redirects; and the registry publishes and takes back
  meanwhile.  Correct when no unknown host is asked, time and memory are bounded,
  every call ends, and what a caller is told of a package was so at some time.
- *Failures.*  One enum has its code and its sentence in two places.  Correct when both
  say try again exactly when it was not the question's fault.
- *Catalogue and registry.*  Two documents fetched at once, either of which may
  fail; entries that say only what changed.  Correct when the versions listed are
  the ones the registry names, in order, and a list outlives its pointer.
- *Diff tree, pages, excerpts.*  A cursor into a list made anew each time; a path
  that is two nodes; two caps and a marker.  Correct when a walk ends and has
  every item once, less is the rows of the whole that were asked for, and a cut
  patch still applies and goes on where a smaller cut ended.
- *Search.*  A list ranked anew for each page, and limited before it is paged.  Correct
  when a walk shows the best first, once each, and passes none over.
- *Handle and addresses.*  Names that go out to a client and come back, edited or
  encoded as the client likes.  Correct when each is read as what it was minted for,
  or refused.

`PROJECT.json` lists the hazards at the line where each one bites, with the
properties that would catch it, or why none does.

## 2. Plan

Done, in this order, most important first:

1. `Answers`, `DiffCache` (what a cache promises), `DiffStore` (the store), their
   proofs and the refinement from the one to the other;
2. `Download` and `ToolCall`, the two parts with clocks, and their proofs;
3. `Comparing`: one question, cold and warm, and its proof;
4. `BlobApi`: the requests that `DiffStore` takes as single steps, and its proof;
5. the pure parts: `Pages`, `Excerpts`, `TreeWalk`, `Listings`;
6. `Failures` and `Sources`, the calls to registries, and their proof;
7. the names that come back from a client, `Handles` and `Links`, and `Hits`, what a
   search finds;
8. the theorems that take induction: the budget under any number of calls, and what
   `Excerpts`, `Handles`, `Links`, `Listings`, `Hits` and `TreeWalk` make of any patch,
   threshold, path, document, index and tree.

The project holds itself to twelve runs and forty properties: a stateful part has its
own run, the two clients over a network share `Requests`, a call and the answers it
gives share `Calls`, and the pure parts share `Shown`, whose initial states are the
questions they are asked.

Left, in this order:

9. `entries::body_for` (which patches an answer leaves out) with the status and
   cache headers of `serve`, and `mcp::Guarded`, which turns a panic into an error.
10. `Credentials::resolve` of `store/blob.rs`: a token and a store id from one source, a
   table without state.

## 3. Modules and code

An action is what a call does between two awaits: the Rust code is async and
shares its state only at awaits, so nothing smaller can be told apart.

| Module | Models | State | Actions |
|---|---|---|---|
| `Answers` | `Entry`, `Comparison`: what a lookup or a computation gives | - | (operators) |
| `DiffCache` | the abstract cache: a question is answered afresh, or with what some call worked out | `asked given computed` | `Ask Compute Give ComputeAndGive Close` |
| `DiffStore` | `store/mod.rs` under concurrent calls, the blobs, and a service that may serve a request late | `blobs uploads latePuts lateDeletes call` | lookup `Start ReadMeta ReadPatches Miss`, work `Compute`, write `Head List Evict EndSweep Recheck Put`, faults `DropWrite OutOfTime Abandon LandPut LandDelete LoseRequest`, `Return` |
| `Download` | `fetch.rs`, `document/live.rs` | `pc asks age waited permits turn memo` | `AskForIndex AskForArchive TakeTurn FindsItRemembered RefusedATurn TakeSlot RefusedASlot BodyArrives FetchFails Dropped Tick` |
| `ToolCall` | `tools::run`, `Spent`, `Lookup`, `compare`'s awaits, the pool | `tool phase now since limit ends spent lookup ...` | lookup hits and misses, `Downloads OneArrives AllArrive FetchFails`, `Compares`, `Writes`, `Renders...`, `Panics`, `Tick`, `OutOfTime` |
| `Comparing` | `compare`, `file_patch`, `refuse_directory`, the file's resource | the two versions, the pairing of renames, the entry, the question, the answers | `AsksCold AsksWarm Evict` |
| `BlobApi` | one request of `store/blob.rs` | the service's blobs, the attempt, the wait, what is on the wire, the page | `Serve TurnAway OtherPuts OtherDeletes`, the client's `Answered Unanswered TryAgain ...` |
| `Failures` | `error.rs`: the kinds, their channel and code, what their sentence advises | - | (operators) |
| `Sources` | a call to a registry: `Archive::fetch`, `Catalogue::versions`, `Search::hits` through `Document::body` and `fetch::bytes` | `ask stock been document reached spent outcome` | of each document `Request Refused Redirected Unsuccessful Success Chunk BodyEnds Breaks TimesOut`, of the call `Conclude NoPackageLikeIt Waits`, of the registry `Release` |
| `Pages` | `paginate` and a client's walk over a list that changes | `list cursor limit seen added removed` | `AnswersAPage AnswersItemTooLarge AsksForMoreOrLess Publish TakeBack` |
| `Excerpts` | `get_file_diff`'s trim and `truncate` | - | (operators) |
| `TreeWalk` | `get_diff_tree`'s `node_at` and `flatten`; `walk`, the totals and the sample of the summary | - | (operators) |
| `Orders` | lists made of others: sorted, or with less in them | - | (operators) |
| `Listings` | `read_versions`, Packagist's entries, the order of versions, `Catalogue::versions` | - | (operators) |
| `Hits` | `read_hits`, `rank`, and `search_packages` walked a page at a time | - | (operators) |
| `Handles` | `format_threshold`, `diff_id`, `encode`, `decode` | - | (operators) |
| `Links` | the addresses of resources, as handed out, encoded by a client, read and decoded | - | (operators) |
| `Shown` | what a client asks of the pure parts, as initial states: a walk, or one question | `question`, and `Pages`' | `Pages`' |

Composition.  `DiffStore` extends `Answers` and instantiates `DiffCache` under a
refinement mapping.  `DiffStore` takes a request to the service as one step; `BlobApi`
looks inside that step, and what it promises (time, truth, no replacement, a listing
that misses nothing that stayed) is what that step assumes.  `ToolCall` takes lookup,
fetch and write as waits of bounded length: the bounds are `LongestRequest` of `BlobApi`
and `WaitsATurnAndAFetch` of `Download`.  `Comparing` takes an entry as there, partly
there or gone: the answers `DiffStore` can give.  `Sources` extends `Failures`; it
begins where `Download` ends, at a slot, and the longest fetch that `Download` and
`ToolCall` count on is what its `StaysWithinItsLimits` gives; its list of versions is
put together by `Listings`.  `MCRequests` puts `BlobApi` and `Sources` side by side, one
at rest while the other goes on, and `MCToolCall` does so with `ToolCall` and
`Comparing`; `Shown` extends the pure modules, and `MCShown` gives it its lists,
patches, trees, documents, indexes, handles and paths.

In each module an operator whose comment starts with "Mutant" is a plausible bug,
defined just before the definition it would replace.  No specification uses it.

## 4. Runs

Times are with two workers.

| Run | Instance | Shows |
|---|---|---|
| `StoreServes` (3 min) | 2 calls, by key or by `diff_id`, 3 keys of which two share a `diff_id` and one of these has too large a patch, budget 3, target 2, reads and writes that fail, deadlines, 3 starts, 1 late request | `ServesWhatWasAsked`, `IsACache` |
| `StoreBudget` (45 s) | 1 call at a time, 4 keys, one too big to be written with its patches, budget of three entries, all faults but reads, 5 starts | `WithinBudget`, `RecomputesOnlyWhatIsNotHeld`, `EvictsOldestWhole`, `EveryCallAnswered` |
| `StoreOvershoot` (40 s) | 2 calls, 3 keys, budget of one entry, target 0, deletes that fail, 1 late request | `OvershootBounded`: the store passes its budget by no more than the calls and late requests bring |
| `Downloads` (30 s) | 3 searches of one index, 1 archive, 1 slot, callers dropped anywhere | `NoSlotLeaks`, `FetchesOnlyWhatIsNotHeld`, `WaitsATurnAndAFetch`, `RefusedOnlyBehindALine`, `EveryDownloadEnds` |
| `Calls` (50 s) | every kind of call, two versions, waits of 2, 2 and 3 ticks, a deadline of 11, work of 0, 3 or 20 ticks; every pair of versions over `a`, `a/x`, `b` and two texts, every pairing, every entry | `SlownessIsNamed`, `WriteCostsNoAnswer`, `FetchIsCounted`, `HitIsReadBack`, `EveryCallIsAnswered`; `SameAnswer`, `AnswersWhatIsThere`, `WarmDownloadsNothing` |
| `Requests` (2 min) | each of the five requests over 3 names, 3 attempts, 2 moves of other invocations, cursors that go on from the page, name anything handed out or are new each time; every call to a registry that one of them is asked otherwise than another, one known host and one other, bodies of up to twice the limit, a timeout of 2 ticks, 1 release or removal meanwhile | `EndsInTime`, `AnswersAreTrue`, `ListsWhatStayed`, `EveryRequestEnds` (each does but a listing that is handed a new cursor for ever); `OnlyKnownHosts`, `ToldWhatIs`, `AdviceFitsTheFault`, `StaysWithinItsLimits`, `EveryAskConcludes` |
| `Shown` (80 s) | walks over 8 lists that change twice; every patch of 5 lines; every tree 3 names deep; every document of 3 versions, in its own order or that of its names; every index of 7 names and every walk of 3 pages over it; every handle over 282 thresholds, edited in each place, its threshold read back as it is or as a neighbour; every path of 4 characters | `UnchangedListIsReadOnce`, `MissesOnlyAfterARemoval`, `RepeatsOnlyAfterAPublication`, `WalkEnds`; `PatchApplies`, `FitsAndGoesOn`; `LessIsTrueOfTheWhole`; `VersionsAreTheRegistrys`; `NothingBetterIsPassedOver`; `HandlesNameOneComparison`; `LinksLeadToThemselves` |
| `StoreAtOnce`, `StoreRounded`, `StoreMixes`, `StoreOwnHalf`, `CompareRefusesAFile` | small instances of the above | one disagreement each (section 7) |

Bounds, and why they are enough.

- *Bytes.*  A byte is 4 MiB, so a blob is 1 or 2 and `EntryCap`, `MaxBytes` and
  `TargetBytes` keep the order and the gaps they have in `store/mod.rs` where a run
  is about the budget; where it is about other things they are made small, so that
  three blobs are enough to make a sweep.
- *Calls, keys and starts.*  A race over the blobs is between two calls, each of which
  makes every one of its steps; a third start lets a lookup come after both.  A shared
  `diff_id` needs two keys, and a third tells it from every other.  A sweep that must
  choose needs three entries held and a fourth to come.
- *Late requests.*  One is enough for a write to land after its entry was swept
  (or a delete after it was written anew); `MaxLate` only bounds how many at once.
- *Downloads.*  A line of three shows that the second in it is served and the third
  refused; one slot makes every archive compete with every search; only PyPI's
  index is remembered by the code, hence one URL.  `FreshFor` is as long as a fetch,
  so that what is remembered grows old while others wait.
- *Calls.*  `Deadline` is 11, just above `LongestWait` = 9, the relation that
  `tests/errors.rs:455` asserts of the code's constants.  Work of 3 ends inside the
  deadline or outside it, depending on what went before, and work of 20 never does.
- *Comparing.*  A path, a path under it and one beside them make every case of
  file, directory, both and renamed; two texts make modified and unchanged.
- *Trees.*  `Entries` is what the engine may build: every child is one name below its
  directory, and no name is there twice but as a file and as a directory, where one
  version had the one and the other the other.  A tree is an entry at the empty path, and
  none is deeper than `AllTheWay` (`u32::MAX`).
- *Shown.*  A page holds two small items, or one and a middling one, and no large
  one; limits are nothing, fewer and more than the most.  Two changes at one line's
  context need five lines to be two hunks.  Trees are deep enough for a file and a
  directory of one path with a directory inside; documents long enough for a field
  to be set, left out and unset.
- *Searches, handles, addresses.*  A name is up to three of two letters, one also a
  capital, so that a match is whole, at the start, inside, or in other letters; three
  pages with limits of their own on either side of what a page has room for.  A
  threshold has three places of base 4 of which two are kept, which makes every digit,
  every carry through two nines and one into the whole part, on both sides of where
  the whole part wraps (2 instead of 2^128).  A path of four of the five characters has
  the separator, a percent code, and a percent code of a percent.
- *Texts that come back as others.*  Versions are named so that the order of the names
  is not that of the numbers ("10" before "2"), as npm's are read in it.  `ReadAs` lets a
  threshold that has a digit in its last place be read back as the one next to it, on
  either side of every boundary of the rounding.
- *Requests.*  A listing of three names has three pages, the most that differ; two
  moves let a blob come and go, or two go.  Of a registry's body one unit is the limit
  and two are over it, declared or not, in one chunk or two; a timeout of two ticks
  tells waiting once from waiting twice; one change of the registry's is the fewest
  that makes two of a call's documents disagree.

## 5. Fairness

None is asked of anything outside the process, except that a wait with a limit
ends, which is what a timer gives.

- `DiffStore`: weak fairness of each call's `Progress`.  Every await in it is a
  request with a deadline (`store/blob.rs` `TIMEOUT`, `ATTEMPTS`), or is dropped at
  `WRITE_DEADLINE` or the call's own deadline.
- `Download`: weak fairness of `Tick`, and of each task's step once it is enabled:
  the runtime polls what was woken.  The order of waiters is left open; tokio's is
  first come first served, which is stronger than what is assumed.
- `ToolCall`: weak fairness of the awaits that have a limit, of `Tick` and of
  `OutOfTime`, and none of the pool's work, which may go on for ever.
- `BlobApi`: weak fairness of the client, since each attempt is answered or times
  out.  None of the service, which may hand out new cursors for ever: nothing in
  `store/blob.rs:226` counts pages, and only the put's `WRITE_DEADLINE` ends such a
  listing.
- `Sources`: weak fairness of the clock, of each document's first request (or its
  refusal, when no slot came), of its timeout, and of the call's conclusion once all of
  its documents are over: a timer, the runtime's polling, and nothing of a registry,
  which may redirect for as long as the client's timeout allows.
- `Pages`: weak fairness of the client's next request: a walk ends if the client
  goes on with it.

## 6. Proofs

`tlapm` proves these for every value of the constants that satisfies the `ASSUME`s
of their module.  A part with state has an inductive invariant `IInv`; the shape is
`Init => IInv`, `IInv /\ [Next]_vars => IInv'` (one step for each action), `IInv =>` the
property.  A question to a pure part stays what it is (`QuestionStays`), so its property
is that of the operators, proved as lemmas on their folds and recursive functions:
`TextProofs` has those on `Excerpts`, `Handles` and `Links`, and those on lists and
induction that the others need too.

| Module | Theorem | What it says |
|---|---|---|
| `DiffStoreProofs` | `TypeCorrect`, `Invariance` | the type, and `IInv` |
| | `ServesCoherently` | `[]ServesWhatWasAsked`, whichever keys share a `diff_id` |
| | `ServesOneAlone` | `[]ServesOneComparison`, for keys of distinct `diff_id`s |
| | `UploadsStay` | `UploadsAreNotRenewed`: no blob is renewed while it is held |
| | `SweepTakesTheOldest` | `EvictsOldestWhole`, one call at a time |
| | `RecomputesAlone` | `[]RecomputesOnlyWhatIsNotHeld`, one call at a time |
| | `Refinement` | `Spec => Cache!Spec`: the store is a cache, whichever keys share a `diff_id` |
| | `BudgetInvariance` | its inductive invariant, `BudgetInv` |
| | `OvershootIsBounded` | `[]OvershootBounded`, for any finite number of calls |
| | `BudgetKept` | `[]WithinBudget`, one call at a time |
| `DownloadProofs` | `Invariance`, `TypeCorrect` | `IInv` and the type |
| | `SlotsComeBack`, `TurnComesBack`, `FetchesOnce`, `WaitIsBounded`, `RefusedBehindALine` | the safety properties of `Downloads`, and that the turn is the fetcher's |
| `ToolCallProofs` | `Invariance`, `TypeCorrect`, `SlownessNamed`, `FetchCounted`, `WriteIsFree`, `HitRight` | the type, and the safety properties of `Calls` |
| `ComparingProofs` | `WarmIsCold`, `ServesTheRightFile`, `RefusesDirectories`, `AnswersRightly`, `WholeEntryDownloadsNothing` | `SameAnswer`; `RightFile` and `DirectoriesAreRefused`, together `AnswersWhatIsThere`; `WarmDownloadsNothing` |
| `ShownProofs`, with `TextProofs` | `Invariance`, `UnchangedReadOnce`, `MissesBounded`, `RepeatsBounded` | `IInv` of a walk, and its safety properties, for every list, size of item, ceiling and sequence of limits |
| | `ExcerptsFit` | `[]FitsAndGoesOn`, for every patch, context and cap, whatever a character takes |
| | `PatchStaysApplicable` | `[]PatchApplies`, for every patch and context |
| | `HandlesName` | `[]HandlesNameOneComparison`, for every base, number of places and threshold, and however JSON reads a threshold back |
| | `LinksLead` | `[]LinksLeadToThemselves`, for every path and alphabet, however a client encodes |
| | `VersionsListed` | `[]VersionsAreTheRegistrys`, for every document of every registry, npm's in the order of its names, whatever else of it fails |
| | `BestFound` | `[]NothingBetterIsPassedOver`, for every index, ranking, query and sequence of limits |
| | `LessIsTrue` | `[]LessIsTrueOfTheWhole`, for every tree, path, depth and choice of statuses |
| `BlobApiProofs` | `Invariance`, `TimeIsBounded`, `NothingIsReplaced`, `AnswersHold`, `ListingIsComplete` | the safety properties of a request to the blob service, and that nothing is replaced |
| `SourcesProofs` | `Invariance`, `TypeCorrect`, `KnownHostsAlone`, `LimitsHold`, `ToldTheTruth`, `AdviceIsRight` | the type, and the safety properties of a call to a registry |

Assumptions beyond types and finiteness: `DistinctIds` for `ServesOneAlone` and
`RecomputesAlone` of the store (each key has a `diff_id` of its own; `StoreMixes` and
`StoreRounded` show that neither holds of shared ones), `~Replaces` for `UploadsStay`
(the service refuses to overwrite; the memory adapter does not); `OneAtATime` for
`SweepTakesTheOldest` and `RecomputesAlone` (one call, and no request of an earlier one
still on the wire: with two, either may delete or write between the other's listing or
miss and its next step), `RecomputesAlone` with reads that are answered too; for
`BudgetInvariance`, `Setting`: a finite number of calls, one at least, and sizes that
have a bound, as a `usize` has, but neither distinct `diff_id`s nor a store that refuses
to overwrite; for `BudgetKept`, one call, `OneAtATime` and sizes that have a bound;
`Deadline > LongestWait` and `AnswerTime > 0` for calls (the first is what
`tests/errors.rs:455` asserts of the constants, the second a constant of
`tools/mod.rs:353`).  What the pure parts assume of their constants is named in the
module that declares them, for instance that a character takes no fewer bytes in a JSON
string than raw (`CharsAssumption`), and that `MARKER_RESERVE` is room enough for the
marker (`CeilingAssumption`); `QuestionsAssumption` says that what is asked is a patch,
a context, a threshold or a path that there is, of a document as `read_versions` reads
it (`Served`) or of a registry that finds a package once (`IsSource`), and
`SpellingsAssumption` that a Go version has numbers and that a document's versions have
texts that differ.  `ReadAsAssumption` says only that JSON reads a threshold as one or
another, which may be one that was not written.

Why the properties are not inductive alone, and what is added:

- *DiffStore.*  That a lookup serves what was asked says nothing of the blobs it
  will read.  `OnePerPathname`: the service holds one blob to a pathname;
  `KeptWasComputed`: every blob, and every write still on the wire, is of a key
  whose comparison was worked out; `CallInv`: what a call read, or is about to
  write, is of a key its question allows.  None of this needs a `diff_id` to be of one
  key; what a lookup reads is then the tree of a key that was asked for and the patches
  of one that shares its `diff_id`.
- *DiffStore, one call.*  `ListingIsTheStore`: a sweep's listing has every blob the
  store has, and every blob of it is still there but of an entry whose delete failed;
  so the oldest of the listing is the oldest of the store.  For the recomputation,
  a blob under a `diff_id` is of the one key that has it, so a `meta.json` that did not
  match is not there, and nothing is written between a miss and its work.
- *DiffStore, the budget.*  What the store holds says nothing of what the calls will
  still add.  `BudgetInv` counts what is due (held, or late on the wire) and what each
  call claims: what it may write once it was admitted, and while it sweeps nothing or the
  largest entry.  The calls that sweep stand in the order they listed in (`rank`), and an
  admission puts every listing before it out of date (`outdated`).  A sweep that was
  overtaken may add its entry to what was admitted since, so the largest is set aside for
  it; one that was not has seen every blob but those that came after its listing, which
  the claims of the calls before it bound without the budget.  Three kinds of step keep
  that: bytes move from a claim to what is due, a call lists, a sweep ends.
- *Refinement.*  A step of the store maps to asking, computing, answering or
  nothing; that an answer marked cached is one the cache allows is `KeptWasComputed`
  again, at the moment of the second read.  The cache, too, promises one comparison's
  patches only where one key has the `diff_id`.
- *Download.*  An archive never holds the turn; a task in a slot has waited no
  longer than its place in the sequence turn, slot, fetch allows, with the turn's
  holder counted from when it took it.
- *ToolCall.*  The time passed so far is at most the sum of the limits of the waits
  made, plus the work done.  So the deadline, which is longer than all the waits,
  is reached only in work or after it.
- *Comparing.*  A tree has one file node for a path, whatever the pairing; the
  patches an entry holds are among those that were rendered; each answer given is
  the reference answer.  For the downloads (`WInv`): an entry that omits nothing has
  the patch of every file that changed, and the tree leads to each of these files,
  since a directory that a rename emptied has nothing under it.
- *Pages.*  The list has no item twice and is what is left of the first list and of
  what was published; what a walk has missed so far is no more than what was taken
  back; while nothing changed, `seen` is a prefix of the list.  For what a walk has
  again, `RepeatsAreCounted`: what it has had again and what it has had and will come
  to again are no more than what was published, since a publication moves one item at
  most from behind the cursor to ahead of it, or is itself that item.
- *Excerpts.*  No invariant but induction over a text, a patch and its rows.  What fits
  both caps is a first part of the text, because the sums of its first characters only
  grow, and a larger cap keeps a longer one.  After each line the hunks are apart
  (`Apart`), have the context of the changes so far and no other line (`Cover`), and the
  last neither begins nor ends later than the context of a line to come (`LastIsBehind`),
  which is why a hunk that is prolonged need not look at those before it.  A reader of the
  rows is, after each, exactly as far as one line of the patch (`AsFarAs`): it has read
  the first file and made the second up to there, so a header finds what it says, with a
  side that has no line in the hunk or none before it too.
- *Handles.*  The digits that are written are those of the nearest number of as many
  places: a carry goes into a place exactly when the digits behind it, rounded, are one
  more unit of it.  So two thresholds are written alike exactly when they are rounded to
  one number, and a handle is edited into no other comparison's.  A text that is read
  with another threshold is an edited one (`EditedSays`), and is taken exactly when the
  threshold that was read is written as its `diff_id` says (`ReadNames`).
- *Links.*  A path's encoding is read back one character at a time, from the end: what
  stands at a place decodes to one character and what the rest decodes to, whether it is
  kept or spelt in three; and neither separator nor prefix is in a handle.
- *Listings.*  Of two versions at most one comes before the other, and one that neither
  comes before nor after two others sets nothing between these (`BeforeWeakly`); so with
  places to tell apart what is alike, the order is strict and total
  (`PlacesAreOrdered`), and as many places come before a place of the sorted list as it
  says (`ArrangedIs`).  What is carried forward from entry to entry is what was last said
  of each field (`FieldMovesOn`), so the releases found after each entry are those picked
  from what is said at all of them (`ReleasesArePicked`).  npm's document is put in the
  order of its names first, which is a list with the same versions, each once
  (`ByTextIs`); an arrangement keeps the order of whatever list it is given (`KeepsOrder`).
- *Hits.*  `rank` and the length and text behind it order an index so that no name comes
  before one that has more of the query, or as much and is shorter (`BetterIsBefore`).
  What a page asks for is the first of one list whatever its limit (`HitsAreFirst`),
  also where Packagist's filter comes after the limit, so a walk has always shown the
  first hits of that list up to its cursor (`WalksOver`).
- *TreeWalk.*  Induction over the depth of an entry and over its children
  (`EntryInduct`, `OverEntries`).  What a lesser depth or fewer statuses list below an
  entry are the rows of its whole listing that were asked for (`Narrower`), since it is so
  of each child's and what is picked from lists in a row is picked from each.  One child
  at most leads to a path as a directory, and whatever the whole listing has under the
  path is in that child's (`Rooted`), so `node_at` need not go back when it has chosen.
  The files of a directory are the file rows of its whole listing (`FilesAreRows`), one
  for a path (`OneFileAPath`): so what changed is strictly ordered, by its lines and then
  by its path, and the sample is the first of one order; and what is counted after each
  file are the rows so far (`TotalsCount`).
- *BlobApi.*  The time passed is accounted for attempt by attempt; a reply on the
  wire was true when it was made, and only this client's own writes can have made it
  false; a listing has every blob up to its cursor that stayed.
- *Sources.*  That the truth was told says nothing of what is still on its way.  Each
  document is sound: it has waited no longer than the timeout, holds no more than the
  limit, says what the registry had at some time during the call, and failed by the
  registry's fault or not as its kind says; what is not wanted was not asked for; the
  call has waited no longer than its documents have, the one before it counted in; an
  outcome is made of the documents, which no longer change.

Induction.  The library's theorems on induction take an operator for a parameter, which
the backends cannot instantiate.  So `NatInduct` and `SubsetInduction` prove, from a
well-founded order and its smallest counterexample, that a set that has zero and the
successor of each of its numbers has every number, and the same of the subsets of a
finite set.  `FoldExists` gives by them the recursive function that a fold chooses
(`FoldLeft`, `MapThenSumSet`), and what such a function is after each element is stated
as a property of a sequence of values (`HunksUpto`, `RowsUpto`, `AfterUpto`, `SumUpto`,
`ReadUpto`), or as a set of values that no element leads out of (`WalkStays`).  A tree is
walked by recursive functions over `Entries`: each is what its definition says of an
entry once it is so of what is below it, whose path is longer.  The
provers do not see into `SortSeq` and `SelectSeq` either: `Orders` says of a sorted list
which element stands at each place, and of a filtered one which place each element had.

Model-checked only:

- liveness (six properties) and `ENABLED`, which are beyond the prover.

Every other property of a passing run is a theorem.

## 7. Disagreements with the documents

Each is a run that TLC finds violated.

- `StoreAtOnce`: `CONTEXT.md:395` says of the budget's two numbers that the first is
  never exceeded.  Two calls that list the same total are both admitted up to it
  without a sweep, and the store ends above it (`store/mod.rs:331`).
- `StoreRounded`: `docs/cache-key.md:111` says thresholds that agree to four decimals
  are the same cache entry.  `meta.json` is compared with the threshold as it is
  (`store/mod.rs:202`), so the second of two such questions is worked out each time
  and its write finds the blobs there.
- `StoreMixes`: `docs/architecture.md:830` says that a blob already at a pathname holds
  those bytes already, and `CONTEXT.md:363` that an entry is one cached diff result.
  Thresholds that agree to four decimals have one pathname.  While the put of the
  first is between its two blobs, or was dropped there, a call at the second misses its
  `meta.json`, works its own out, and writes the `patches.json` that is not there
  (`store/mod.rs:376`); from then on the first is served its own tree with the second's
  patches.  The two differ when the similarity of two files lies between the
  thresholds: one calls them a rename.
- `StoreOwnHalf`: `CONTEXT.md:363` says the halves of an entry are written together
  and evicted together.  A put that finds one half there can sweep that very half
  and write the other alone (`store/mod.rs:335`).
- `CompareRefusesAFile`: `docs/architecture.md:203` says a path is refused as a
  directory only when no version has a file at it.  A file that moved away leaves
  no node at its old path, so when the second version has a directory there, the
  path is refused although the first has a file at it
  (`tools/diff_package_versions.rs:392`).

Seen while modelling, not a disagreement with any text: one file's diff is rendered
after the write, so a slow store can use up the time its rendering needed; a lookup
whose entry lacks the patch is logged as a hit though the patch is worked out.  A
version over the limit is answered with the advice to ask for a single file
(`error.rs:366`), though every tool that answers of one file downloads the whole archive
under the same limit.  A redirect to an unknown host, which no second try will change,
is answered as a registry that is unavailable and with the advice to try again.  A path
that was not encoded and has a percent code in it is decoded all the same, though the
refusal of a malformed one says that a path may be encoded or not.  A search is limited
to one page's items before it is paged (`tools/search_packages.rs:100`), so that `total`
and the end of a walk are of that many hits, and a smaller limit on a later page ends
the walk.  A threshold of 16 or 17 digits at a boundary of the rounding may come back
from its handle as its neighbour, since `serde_json` is built without `float_roundtrip`
(`Cargo.toml:26`), and the handle is then refused as edited though nobody edited it; one
of fewer digits and no more than 22 places is read as it was.  A listing that is handed
a new cursor with each page goes on until the deadline of the put that asked for it.

## 8. What is left out

- *Other services' work.*  The engine is taken as deterministic: it pairs files in
  any way, and renders a patch as a function of two texts.  The blob service's
  delay in propagating a delete (`docs/architecture.md:861`) is not modelled, nor are
  two uploads with one timestamp.
- *Store.*  Other schema versions' prefixes, blobs that cannot be decoded, and the
  round trip through JSON of the threshold in `meta.json`, which may have an entry missed
  where `Handles` has a handle refused.  A listing is one step here and pages in
  `BlobApi`; a lookup's blob is one request here and two there; a late request
  lands once.  The memory adapter, which replaces what is there, is in the proofs
  (`Replaces`) and in no run.
- *Time.*  What a call does without awaiting takes none.  A timeout of the HTTP
  client covers request and body.  Calls that await nothing are left out, and a call
  whose caller goes away writes no line.
- *Blob service.*  Its cursors are the last name of a page, or, where it is not `honest`,
  any name or one never seen before; two that were never seen are not told apart.
- *Registries.*  A registry's moves are between four stocks; crates.io is asked as npm
  is.  What a body says is one word for what is read out of it; which artifact of a
  release is picked is the registry's listing saying that it picks one.  A listing that
  is too strange to be read is told from one that leaves the version out.
- *Names.*  sha256 keeps apart what is apart.  JSON and base64 can be read or not, but
  for the threshold, which is read as `ReadAs` says; and a handle is edited in one place
  at a time.  Percent codes are pairs of digits, one for a character.
- *Texts.*  An excerpt has four kinds of character, by how many bytes they take raw and
  encoded; a hunk's header and the marker have constant widths.  A tree's entry has one
  number of lines for the added and the removed.  A Go version has one number for its
  three, and the text of a preview a number, in the order of the text.  How a spelling
  is known for a preview's is a field of it.
- *Not modelled, being parsing, formatting or forwarding:* URLs, package names, the
  canonical text of a key, fixtures, schemas, the wording of failures and the redaction
  of secrets in them, prompts, the texts of resources, HTTP headers, routes, the choice
  of the blob store's credentials.  `PROJECT.json` gives the reason for each.
