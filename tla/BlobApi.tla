------------------------------- MODULE BlobApi -------------------------------
(***************************************************************************)
(* One request of store/blob.rs to the blob service: put, head, read, list *)
(* or delete, with the three attempts of send, their timeouts and the      *)
(* waits between them.  An attempt the client gave up on may still be      *)
(* served; other invocations write and delete meanwhile.  DiffStore takes  *)
(* each of these requests as one step.                                     *)
(***************************************************************************)
EXTENDS Naturals

CONSTANTS
  LastName,  \* pathnames are 1..LastName, in the order they are listed in
  Requests,  \* what the client asks for
  Timeout,   \* TIMEOUT
  Backoff,   \* BACKOFF
  MaxMoves   \* bound: what other invocations write and delete meanwhile

ATTEMPTS == 3

\* LONGEST_REQUEST: every attempt times out, and the waits between them double.
LongestRequest == Timeout * ATTEMPTS + Backoff * (2^(ATTEMPTS - 1) - 1)

\* LONGEST_READ: where it is, then the download.
LongestRead == LongestRequest * 2

Names == 1..LastName

\* A page's cursor: none, a name, or one that was never handed out before, of which
\* there is always another.
NoCursor == 0
Unseen == LastName + 1
Cursors == {NoCursor, Unseen} \cup Names
Kinds == {"put", "head", "read", "list", "delete"}

ASSUME RequestsAssumption ==
  /\ Requests \subseteq [kind : Kinds, names : SUBSET Names]
  /\ \A r \in Requests : r.kind \in {"put", "head", "read"} => \E n \in Names : r.names = {n}
ASSUME TimesAssumption == {LastName, Timeout, Backoff, MaxMoves} \subseteq Nat

\* A blob is known by the attempt that wrote it, or 0 for another invocation.
Others == 0
Blobs == [name : Names, by : {Others} \cup 1..ATTEMPTS]

Statuses == {"ok", "notFound", "refused", "busy"}
NoReply == [status |-> "none", blobs |-> {}, cursor |-> NoCursor]
Replies == [status : Statuses, blobs : SUBSET Blobs, cursor : Cursors]

VARIABLES
  held,        \* the blobs of the service
  honest,      \* whether its cursors say where the listing goes on
  request,     \* what the client asked for
  step,        \* "where", "contents" or "page" of it, or "whole"
  pc,          \* "sent", "waits" or "done"
  attempt,     \* of this step
  wait,        \* before the next one
  sent,        \* attempts the service has not served yet, abandoned or not
  reply,       \* to the attempt the client waits for
  cursor,      \* of the page asked for
  followed,    \* the cursors that were, those once Unseen left out: none comes again
  listed,      \* the pages so far
  answer,      \* "none" until there is one
  elapsed,     \* since the client asked or, listing, since it asked for the page
  moves,       \* what the other invocations did
  throughout,  \* history: blobs held all the while
  ever,        \* history: blobs held at some time
  absent       \* history: names not held at some time

client == <<request, step, pc, attempt, wait, cursor, followed, listed, answer, elapsed>>
vars == <<held, honest, client, sent, reply, moves, throughout, ever, absent>>

NamesOf(blobs) == {b.name : b \in blobs}

Init ==
  /\ \E names \in SUBSET Names : held = [name : names, by : {Others}]
  /\ request \in Requests
  /\ honest \in IF request.kind = "list" THEN BOOLEAN ELSE {TRUE}
  /\ step = CASE request.kind = "read" -> "where" [] request.kind = "list" -> "page"
              [] OTHER -> "whole"
  /\ pc = "sent" /\ attempt = 1 /\ wait = Backoff
  /\ sent = {1}
  /\ reply = NoReply
  /\ cursor = NoCursor /\ followed = {} /\ listed = {}
  /\ answer = "none"
  /\ elapsed = 0 /\ moves = 0
  /\ throughout = held /\ ever = held /\ absent = Names \ NamesOf(held)

\* What the client's answer is held against: the store from the asking to the answer.
Recalls ==
  IF answer = "none"
  THEN /\ throughout' = throughout \cap held'
       /\ ever' = ever \cup held'
       /\ absent' = absent \cup (Names \ NamesOf(held'))
  ELSE UNCHANGED <<throughout, ever, absent>>

------------------------------------------------------------------------------
(***************************************************************************)
(* The service and the other invocations.                                  *)
(***************************************************************************)
\* x-allow-overwrite is 0.
AllowOverwrite == FALSE

Status(status) == [NoReply EXCEPT !.status = status]
Asked(blob) == blob.name \in request.names

\* A page of the listing: the blobs after the cursor, or some of them and the last
\* one's name.
Page(upTo, next) ==
  [status |-> "ok", cursor |-> next,
   blobs  |-> {b \in held : b.name > cursor /\ b.name \in upTo}]

Pages == {Page(Names, NoCursor)}
           \cup {Page(1..b.name, b.name) : b \in {d \in held : d.name > cursor}}

There == {b \in held : Asked(b)}

Written(n) ==
  IF There # {} /\ ~AllowOverwrite
  THEN [held |-> held, reply |-> Status("refused")]
  ELSE [held  |-> (held \ There) \cup {[name |-> m, by |-> n] : m \in request.names},
        reply |-> Status("ok")]

Deleted ==
  [held |-> held \ There, reply |-> Status(IF There = {} THEN "notFound" ELSE "ok")]

Found == [held |-> held, reply |-> Status(IF There = {} THEN "notFound" ELSE "ok")]

Listed(page) == [held |-> held, reply |-> page]

\* What the service does for an attempt: its blobs and its reply.
Served(n) ==
  CASE request.kind = "put"    -> {Written(n)}
    [] request.kind = "delete" -> {Deleted}
    [] request.kind = "list"   ->
         {Listed(page) : page \in IF honest THEN Pages
                                  ELSE {[p EXCEPT !.cursor = c] : p \in Pages, c \in Cursors}}
    [] OTHER -> {Found}

Awaited(n) == pc = "sent" /\ n = attempt /\ reply = NoReply

\* An attempt is served, whether or not anyone still waits for it.
Serve(n) ==
  /\ n \in sent
  /\ sent' = sent \ {n}
  /\ \E s \in Served(n) :
       /\ held' = s.held
       /\ reply' = IF Awaited(n) THEN s.reply ELSE reply
  /\ Recalls
  /\ UNCHANGED <<honest, client, moves>>

\* Or it is turned away.
TurnAway(n) ==
  /\ n \in sent
  /\ Awaited(n)
  /\ sent' = sent \ {n}
  /\ \E status \in {"refused", "busy"} : reply' = Status(status)
  /\ UNCHANGED <<held, honest, client, moves, throughout, ever, absent>>

OtherPuts ==
  /\ moves < MaxMoves
  /\ \E name \in Names \ NamesOf(held) : held' = held \cup {[name |-> name, by |-> Others]}
  /\ moves' = moves + 1
  /\ Recalls
  /\ UNCHANGED <<honest, client, sent, reply>>

OtherDeletes ==
  /\ moves < MaxMoves
  /\ \E b \in held : held' = held \ {b}
  /\ moves' = moves + 1
  /\ Recalls
  /\ UNCHANGED <<honest, client, sent, reply>>

------------------------------------------------------------------------------
(***************************************************************************)
(* The client.  An attempt is answered, or given up on, within Timeout.    *)
(***************************************************************************)
Took(time) == elapsed' = elapsed + time

Concludes(with) ==
  /\ pc' = "done"
  /\ answer' = with
  /\ UNCHANGED <<step, attempt, wait, sent, reply, cursor, followed>>

\* The next request of a read or a list, with attempts of its own.
GoesOn(to) ==
  /\ step' = to
  /\ pc' = "sent" /\ attempt' = 1 /\ wait' = Backoff
  /\ sent' = {1}
  /\ reply' = NoReply
  /\ UNCHANGED answer

OutOfAttempts == attempt = ATTEMPTS

\* send's other half: another attempt, or the last one's failure.
TriesAgainOrFails ==
  /\ IF OutOfAttempts
     THEN Concludes("failed")
     ELSE pc' = "waits" /\ UNCHANGED <<step, attempt, wait, sent, reply, cursor, followed, answer>>
  /\ UNCHANGED listed

AgainMightWork(status) == status = "busy"

\* Nothing came in time, or the connection was lost: the service may have served it.
Unanswered ==
  /\ pc = "sent"
  /\ \E time \in 0..Timeout : Took(time)
  /\ TriesAgainOrFails
  /\ UNCHANGED <<held, honest, request, moves, throughout, ever, absent>>

\* Mutant: the waits grow faster than LONGEST_REQUEST knows.
Tripled(time) == time * 3

Doubled(time) == time * 2

\* An attempt given up on, and served later, matters only if it changes something.
ChangesTheStore == request.kind \in {"put", "delete"}

TryAgain ==
  /\ pc = "waits"
  /\ Took(wait)
  /\ wait' = Doubled(wait)
  /\ attempt' = attempt + 1
  /\ pc' = "sent"
  /\ sent' = {attempt + 1} \cup (IF ChangesTheStore THEN sent ELSE {})
  /\ reply' = NoReply
  /\ UNCHANGED <<held, honest, request, step, cursor, followed, listed, answer,
                 moves, throughout, ever, absent>>

\* Mutant: whatever is no success is a miss.
NoSuccess(status) == status # "ok"

NotFound(status) == status = "notFound"

\* What put, head, read and delete make of a status: a blob that is gone by the second
\* half of a read is a failure, and one that is gone before its delete is none.
Verdict(status) ==
  IF status = "ok" THEN "done"
  ELSE IF NotFound(status) /\ request.kind = "delete" THEN "done"
  ELSE IF NotFound(status) /\ request.kind \in {"head", "read"} /\ step # "contents" THEN "missing"
  ELSE "failed"

AnsweredWhole ==
  /\ request.kind # "list"
  /\ IF step = "where" /\ Verdict(reply.status) = "done"
     THEN GoesOn("contents") /\ UNCHANGED <<cursor, followed>>
     ELSE Concludes(Verdict(reply.status))
  /\ UNCHANGED listed
  /\ \E time \in 0..Timeout : Took(time)

\* Mutant: the cursors that were followed are not remembered.
AnyCursor(next) == next # NoCursor

\* Mutant: a listing has two pages at most.
OnlyOnce(next) == next # NoCursor /\ followed = {}

NewCursor(next) == next # NoCursor /\ next \notin followed

\* list: a page, and the next where there is a cursor that was not followed before.
AnsweredAPage ==
  /\ request.kind = "list"
  /\ listed' = IF reply.status = "ok" THEN listed \cup reply.blobs ELSE listed
  /\ IF reply.status = "ok" /\ NewCursor(reply.cursor)
     THEN /\ GoesOn("page")
          /\ cursor' = reply.cursor
          /\ followed' = followed \cup ({reply.cursor} \ {Unseen})
          /\ elapsed' = 0
     ELSE /\ Concludes(Verdict(reply.status))
          /\ \E time \in 0..Timeout : Took(time)

Answered ==
  /\ pc = "sent"
  /\ reply # NoReply
  /\ IF AgainMightWork(reply.status)
     THEN TriesAgainOrFails /\ \E time \in 0..Timeout : Took(time)
     ELSE AnsweredWhole \/ AnsweredAPage
  /\ UNCHANGED <<held, honest, request, moves, throughout, ever, absent>>

\* The rest of the answer does not come, or is not what it should be.
AnswerIsBroken ==
  /\ pc = "sent"
  /\ reply.status = "ok"
  /\ request.kind \in {"head", "read", "list"}
  /\ Concludes("failed")
  /\ \E time \in 0..Timeout : Took(time)
  /\ UNCHANGED <<held, honest, request, listed, moves, throughout, ever, absent>>

Client == Unanswered \/ TryAgain \/ Answered \/ AnswerIsBroken

Over == pc = "done" /\ UNCHANGED vars

Next ==
  \/ Client
  \/ \E n \in 1..ATTEMPTS : Serve(n) \/ TurnAway(n)
  \/ OtherPuts
  \/ OtherDeletes
  \/ Over

Spec == Init /\ [][Next]_vars

FairSpec == Spec /\ WF_vars(Client)

------------------------------------------------------------------------------
(***************************************************************************)
(* Properties.                                                             *)
(***************************************************************************)
\* LONGEST_REQUEST and LONGEST_READ, which the store's waits are counted from, are what
\* send's loop can take: a read twice, a listing once for each page.
EndsInTime == elapsed <= IF request.kind = "read" THEN LongestRead ELSE LongestRequest

\* No attempt of a put replaces a blob that is held, its own first attempt's included,
\* even served after the client is gone.
NeverReplaced == [][\A b \in held, d \in held' : b.name = d.name => b = d]_vars

\* An answer says what was so at some time between the asking and the answering,
\* however many attempts were lost: a put that is done wrote the blob, though one that
\* failed may have; what is missing was missing, what is served was held, and what is
\* deleted was gone.
AnswersAreTrue ==
  /\ answer = "done" /\ request.kind = "put" => \E b \in ever : Asked(b) /\ b.by # Others
  /\ answer = "done" /\ request.kind \in {"head", "read"} => \E b \in ever : Asked(b)
  /\ answer = "missing" => request.names \subseteq absent
  /\ answer = "done" /\ request.kind = "delete" => request.names \subseteq absent

\* A listing has every blob that was held while its pages were read, though no two of
\* them at the same time, and none that never was.
ListsWhatStayed ==
  answer = "done" /\ request.kind = "list" =>
    /\ honest => throughout \subseteq listed
    /\ listed \subseteq ever

\* Every request ends, whatever cursors the service hands out, but a listing that it
\* hands one it never handed out before again and again: that no cursor is followed
\* twice is all that bounds the pages, and the pages of a put's listing end with its
\* WRITE_DEADLINE.
HandedNewCursorsForEver ==
  request.kind = "list" /\ []<>(reply.cursor = Unseen) /\ []<>(reply.cursor # Unseen)
EveryRequestEnds == <>(pc = "done") \/ HandedNewCursorsForEver

(***************************************************************************)
(* The inductive invariant behind the first four.                          *)
(***************************************************************************)
TypeOK ==
  /\ held \subseteq Blobs
  /\ request \in Requests
  /\ pc \in {"sent", "waits", "done"}
  /\ attempt \in 1..ATTEMPTS
  /\ sent \subseteq 1..ATTEMPTS
  /\ cursor \in Nat
  /\ elapsed \in Nat

OnePerName == \A b, d \in held : b.name = d.name => b = d

StepIsOfItsKind ==
  /\ request.kind = "read" => step \in {"where", "contents"}
  /\ request.kind = "list" => step = "page"
  /\ request.kind \notin {"read", "list"} => step = "whole"

AnswerIsLast == answer = "none" <=> pc # "done"

\* The waits so far, and what the attempts so far can have taken with them.
WaitIsDoubled == wait = IF attempt = 1 THEN Backoff
                        ELSE IF attempt = 2 THEN Backoff * 2 ELSE Backoff * 4
Waited == IF attempt = 1 THEN 0 ELSE IF attempt = 2 THEN Backoff ELSE Backoff * 3
Tried == IF pc = "sent" THEN attempt - 1 ELSE attempt
StepBefore == IF step = "contents" THEN LongestRequest ELSE 0
ElapsedIsCounted ==
  /\ pc = "waits" => attempt < ATTEMPTS
  /\ elapsed <= StepBefore + Waited + Timeout * Tried

HistoryIsTrue ==
  answer = "none" =>
    /\ throughout \subseteq held /\ held \subseteq ever
    /\ Names \ NamesOf(held) \subseteq absent

\* A reply that waits for its client was true when the service made it.
ReplyIsTrue ==
  /\ reply.status = "ok" /\ request.kind = "put" =>
       \E b \in ever : Asked(b) /\ b.by # Others
  /\ reply.status = "ok" /\ request.kind \in {"head", "read"} =>
       \E b \in ever : Asked(b)
  /\ reply.status = "notFound" /\ request.kind \in {"head", "read"} => request.names \subseteq absent
  /\ reply.status \in {"ok", "notFound"} /\ request.kind = "delete" => request.names \subseteq absent

\* What was held all along is listed as far as the cursor, and as far as the next one,
\* or the end, with the reply.
UpTo(next, blobs) == \A b \in throughout : b.name <= next => b \in blobs
ListingGrows ==
  request.kind = "list" =>
    /\ listed \subseteq ever /\ reply.blobs \subseteq ever
    /\ followed \subseteq Nat /\ reply.cursor \in Nat
    /\ answer = "none" /\ honest =>
         /\ UpTo(cursor, listed)
         /\ \A n \in followed : n <= cursor
         /\ reply.status = "ok" =>
              IF reply.cursor = NoCursor
              THEN throughout \subseteq listed \cup reply.blobs
              ELSE reply.cursor > cursor /\ UpTo(reply.cursor, listed \cup reply.blobs)

IInv ==
  /\ TypeOK /\ OnePerName /\ StepIsOfItsKind /\ AnswerIsLast
  /\ WaitIsDoubled /\ ElapsedIsCounted
  /\ HistoryIsTrue /\ ReplyIsTrue /\ ListingGrows
  /\ AnswersAreTrue /\ ListsWhatStayed
==============================================================================
