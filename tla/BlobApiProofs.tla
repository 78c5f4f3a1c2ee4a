----------------------------- MODULE BlobApiProofs -----------------------------
(***************************************************************************)
(* The safety of one request to the blob service, for every store, request,*)
(* timeout and first wait.                                                 *)
(***************************************************************************)
EXTENDS BlobApi, TLAPS

\* The one length of time the model's constants make, in linear form.
LEMMA Longest == LongestRequest = Timeout * 3 + Backoff * 3 /\ LongestRequest \in Nat
  BY TimesAssumption, SMT DEF LongestRequest, ATTEMPTS

LEMMA InitIInv == Init => IInv
<1> SUFFICES ASSUME Init PROVE IInv
  OBVIOUS
<1>1. held \subseteq Blobs /\ OnePerName
  BY DEF Init, Blobs, OnePerName, Others
<1>2. TypeOK
  BY <1>1 DEF Init, TypeOK, ATTEMPTS, NoCursor
<1>3. StepIsOfItsKind
  BY DEF Init, StepIsOfItsKind
<1>4. AnswerIsLast /\ WaitIsDoubled /\ HistoryIsTrue
  BY DEF Init, AnswerIsLast, WaitIsDoubled, HistoryIsTrue
<1>5. ElapsedIsCounted
  BY <1>3, Longest, TimesAssumption
  DEF Init, ElapsedIsCounted, Waited, Tried, StepBefore, ATTEMPTS
<1>6. ReplyIsTrue
  BY DEF Init, ReplyIsTrue, NoReply
<1>7. ListingGrows
  BY <1>1 DEF Init, ListingGrows, NoReply, UpTo, NoCursor, Blobs, Names
<1>8. AnswersAreTrue /\ ListsWhatStayed
  BY DEF Init, AnswersAreTrue, ListsWhatStayed
<1> QED
  BY <1>1, <1>2, <1>3, <1>4, <1>5, <1>6, <1>7, <1>8 DEF IInv

------------------------------------------------------------------------------
(***************************************************************************)
(* The service's steps leave the client's state alone.                     *)
(***************************************************************************)
\* What a step of the service, or of another invocation, keeps of the invariant
\* whatever it does to the blobs: the client's times and what was answered.
LEMMA ClientKept ==
  ASSUME IInv, Recalls, UNCHANGED <<honest, client>>, held' \subseteq Blobs,
         sent' \subseteq 1..ATTEMPTS
  PROVE  /\ TypeOK' /\ StepIsOfItsKind' /\ AnswerIsLast' /\ WaitIsDoubled' /\ ElapsedIsCounted'
         /\ HistoryIsTrue' /\ AnswersAreTrue' /\ ListsWhatStayed'
         /\ ever \subseteq ever' /\ absent \subseteq absent' /\ throughout' \subseteq throughout
<1> USE DEF IInv, client
<1>1. TypeOK' /\ StepIsOfItsKind' /\ AnswerIsLast' /\ WaitIsDoubled'
  BY DEF TypeOK, StepIsOfItsKind, AnswerIsLast, WaitIsDoubled
<1>2. ElapsedIsCounted'
  BY DEF ElapsedIsCounted, Waited, Tried, StepBefore
<1>3. ever \subseteq ever' /\ absent \subseteq absent' /\ throughout' \subseteq throughout
  BY DEF Recalls
<1>4. HistoryIsTrue'
  BY DEF HistoryIsTrue, Recalls, NamesOf
<1>5. answer # "none" => UNCHANGED <<throughout, ever, absent>>
  BY DEF Recalls
<1>6. AnswersAreTrue'
  BY <1>5 DEF AnswersAreTrue, Asked
<1>7. ListsWhatStayed'
  BY <1>5 DEF ListsWhatStayed
<1> QED
  BY <1>1, <1>2, <1>3, <1>4, <1>6, <1>7

\* A reply, once made, stays true.
LEMMA ReplyKept ==
  ASSUME IInv, UNCHANGED <<honest, client, reply>>,
         ever \subseteq ever', absent \subseteq absent', throughout' \subseteq throughout
  PROVE  ReplyIsTrue' /\ ListingGrows'
<1> USE DEF IInv, client
<1>1. ReplyIsTrue'
  BY DEF ReplyIsTrue, Asked
<1>2. ListingGrows'
  BY DEF ListingGrows, UpTo
<1> QED
  BY <1>1, <1>2

LEMMA OthersStep ==
  ASSUME IInv, OtherPuts \/ OtherDeletes
  PROVE  IInv'
<1>1. held' \subseteq Blobs /\ OnePerName'
  <2>1. CASE OtherPuts
    BY <2>1 DEF OtherPuts, IInv, TypeOK, OnePerName, Blobs, Others, NamesOf
  <2>2. CASE OtherDeletes
    BY <2>2 DEF OtherDeletes, IInv, TypeOK, OnePerName
  <2> QED
    BY <2>1, <2>2
<1>2. Recalls /\ UNCHANGED <<honest, client, sent, reply>>
  BY DEF OtherPuts, OtherDeletes
<1>3. sent' \subseteq 1..ATTEMPTS
  BY <1>2 DEF IInv, TypeOK
<1>4. /\ TypeOK' /\ StepIsOfItsKind' /\ AnswerIsLast' /\ WaitIsDoubled' /\ ElapsedIsCounted'
      /\ HistoryIsTrue' /\ AnswersAreTrue' /\ ListsWhatStayed'
      /\ ever \subseteq ever' /\ absent \subseteq absent' /\ throughout' \subseteq throughout
  BY <1>1, <1>2, <1>3, ClientKept
<1>5. ReplyIsTrue' /\ ListingGrows'
  BY <1>2, <1>4, ReplyKept
<1> QED
  BY <1>1, <1>4, <1>5 DEF IInv

LEMMA TurnAwayStep ==
  ASSUME IInv, NEW n \in 1..ATTEMPTS, TurnAway(n)
  PROVE  IInv'
<1>1. /\ UNCHANGED <<held, honest, client, throughout, ever, absent>>
      /\ sent' \subseteq sent
      /\ reply'.status \in {"refused", "busy"} /\ reply'.blobs = {}
      /\ reply'.cursor = NoCursor
  BY DEF TurnAway, Status, NoReply
<1>2. TypeOK' /\ OnePerName' /\ StepIsOfItsKind' /\ AnswerIsLast' /\ WaitIsDoubled'
  BY <1>1 DEF IInv, client, TypeOK, OnePerName, StepIsOfItsKind, AnswerIsLast, WaitIsDoubled
<1>3. ElapsedIsCounted'
  BY <1>1 DEF IInv, client, ElapsedIsCounted, Waited, Tried, StepBefore
<1>4. HistoryIsTrue' /\ AnswersAreTrue' /\ ListsWhatStayed'
  BY <1>1 DEF IInv, client, HistoryIsTrue, AnswersAreTrue, ListsWhatStayed, NamesOf, Asked
<1>5. ReplyIsTrue'
  BY <1>1 DEF ReplyIsTrue
<1>6. ListingGrows'
  BY <1>1 DEF IInv, client, ListingGrows, UpTo, NoCursor
<1> QED
  BY <1>2, <1>3, <1>4, <1>5, <1>6 DEF IInv

\* What the service makes of an attempt: its blobs are blobs, one to a name, and its
\* reply tells of them or of those before.
LEMMA ServedIsTrue ==
  ASSUME IInv, NEW n \in 1..ATTEMPTS, NEW s \in Served(n)
  PROVE  /\ s.held \subseteq Blobs
         /\ \A b, d \in s.held : b.name = d.name => b = d
         /\ \A b \in held, d \in s.held : b.name = d.name => b = d
         /\ s.reply.status = "ok" /\ request.kind = "put" =>
              \E b \in s.held : Asked(b) /\ b.by # Others
         /\ s.reply.status = "ok" /\ request.kind \in {"head", "read"} => \E b \in held : Asked(b)
         /\ s.reply.status = "notFound" /\ request.kind \in {"head", "read"} =>
              request.names \cap NamesOf(held) = {}
         /\ request.kind = "delete" => request.names \cap NamesOf(s.held) = {}
         /\ request.kind # "list" => s.reply.blobs = {}
         /\ request.kind \in {"head", "read", "list"} => s.held = held
<1> USE DEF IInv, TypeOK, OnePerName, Asked, NamesOf, There
<1>0. request.kind \in Kinds
  BY RequestsAssumption
<1>1. CASE request.kind = "put"
  <2>1. PICK name \in Names : request.names = {name}
    BY <1>1, RequestsAssumption
  <2>2. s = Written(n)
    BY <1>1 DEF Served
  <2>3. CASE There # {}
    BY <1>1, <2>2, <2>3 DEF Written, AllowOverwrite, Status, NoReply
  <2>4. CASE There = {}
    <3>1. s.held = held \cup {[name |-> name, by |-> n]} /\ s.reply.blobs = {}
      BY <2>1, <2>2, <2>4 DEF Written, Status, NoReply
    <3>2. \A b \in held : b.name # name
      BY <2>1, <2>4
    <3>3. [name |-> name, by |-> n] \in Blobs /\ n # Others
      BY DEF Blobs, Others, ATTEMPTS
    <3> QED
      BY <1>1, <2>1, <3>1, <3>2, <3>3
  <2> QED
    BY <2>3, <2>4
<1>2. CASE request.kind = "delete"
  <2>1. s = Deleted
    BY <1>2 DEF Served
  <2> QED
    BY <1>2, <2>1 DEF Deleted, Status, NoReply
<1>3. CASE request.kind \in {"head", "read"}
  <2>1. s = Found
    BY <1>3 DEF Served
  <2> QED
    BY <1>3, <2>1 DEF Found, Status, NoReply
<1>4. CASE request.kind = "list"
  <2>1. s.held = held
    BY <1>4 DEF Served, Listed
  <2> QED
    BY <1>4, <2>1
<1> QED
  BY <1>0, <1>1, <1>2, <1>3, <1>4 DEF Kinds

\* A page that an honest service serves has what is held up to the next cursor.
LEMMA ServedPage ==
  ASSUME IInv, request.kind = "list", NEW n \in 1..ATTEMPTS, NEW s \in Served(n)
  PROVE  /\ s.reply.blobs \subseteq held
         /\ s.reply.cursor \in Cursors
         /\ honest =>
              \A b \in held : b.name > cursor =>
                IF s.reply.cursor = NoCursor THEN b \in s.reply.blobs
                ELSE b.name <= s.reply.cursor => b \in s.reply.blobs
         /\ honest => s.reply.cursor = NoCursor \/ s.reply.cursor > cursor
<1> USE DEF Page, NoCursor, Names, Cursors
<1>1. \A b \in held : b.name \in Names
  BY DEF IInv, TypeOK, Blobs
<1>2. \A p \in Pages : p.blobs \subseteq held /\ p.cursor \in Cursors
  BY <1>1 DEF Pages
<1>3. PICK p \in Pages, c \in Cursors :
        s.reply = (IF honest THEN p ELSE [p EXCEPT !.cursor = c])
  BY <1>2 DEF Served, Listed
<1>4. \A q \in Pages : [q EXCEPT !.cursor = c].blobs = q.blobs /\ [q EXCEPT !.cursor = c].cursor = c
  BY DEF Pages
<1>5. s.reply.blobs \subseteq held /\ s.reply.cursor \in Cursors
  BY <1>2, <1>3, <1>4
<1>6. ASSUME honest, NEW b \in held, b.name > cursor
      PROVE  IF p.cursor = NoCursor THEN b \in p.blobs ELSE b.name <= p.cursor => b \in p.blobs
  <2>1. CASE p = Page(Names, NoCursor)
    BY <1>1, <1>6, <2>1
  <2>2. ASSUME NEW d \in held, d.name > cursor, p = Page(1..d.name, d.name)
        PROVE  IF p.cursor = NoCursor THEN b \in p.blobs ELSE b.name <= p.cursor => b \in p.blobs
    BY <1>1, <1>6, <2>2
  <2> QED
    BY <2>1, <2>2 DEF Pages
<1>7. honest => p.cursor = NoCursor \/ p.cursor > cursor
  BY DEF Pages
<1> QED
  BY <1>3, <1>5, <1>6, <1>7

LEMMA ServeStep ==
  ASSUME IInv, NEW n \in 1..ATTEMPTS, Serve(n)
  PROVE  IInv' /\ \A b \in held, d \in held' : b.name = d.name => b = d
<1>1. PICK s \in Served(n) : /\ held' = s.held
                             /\ reply' = IF Awaited(n) THEN s.reply ELSE reply
  BY DEF Serve
<1>2. /\ Recalls
      /\ UNCHANGED <<honest, client, moves>>
      /\ sent' \subseteq 1..ATTEMPTS
  BY DEF Serve, IInv, TypeOK
<1>3. held' \subseteq Blobs /\ OnePerName' /\ \A b \in held, d \in held' : b.name = d.name => b = d
  BY <1>1, ServedIsTrue DEF OnePerName
<1>4. /\ TypeOK' /\ StepIsOfItsKind' /\ AnswerIsLast' /\ WaitIsDoubled' /\ ElapsedIsCounted'
      /\ HistoryIsTrue' /\ AnswersAreTrue' /\ ListsWhatStayed'
      /\ ever \subseteq ever' /\ absent \subseteq absent' /\ throughout' \subseteq throughout
  BY <1>2, <1>3, ClientKept
<1>5. CASE ~Awaited(n)
  <2>1. UNCHANGED <<honest, client, reply>>
    BY <1>1, <1>2, <1>5
  <2> QED
    BY <1>3, <1>4, <2>1, ReplyKept DEF IInv
<1>6. CASE Awaited(n)
  <2>1. reply' = s.reply /\ answer = "none" /\ answer' = "none"
    BY <1>1, <1>2, <1>6 DEF Awaited, IInv, AnswerIsLast, client
  <2>2. /\ held \subseteq ever /\ held' \subseteq ever' /\ throughout \subseteq held
        /\ Names \ NamesOf(held) \subseteq absent /\ Names \ NamesOf(held') \subseteq absent'
    BY <2>1, <1>4 DEF IInv, HistoryIsTrue, NamesOf
  <2>3. request.names \subseteq Names /\ request' = request
    BY <1>2, RequestsAssumption DEF IInv, TypeOK, client
  <2>4. ReplyIsTrue'
    <3>1. reply'.status = "ok" /\ request.kind = "put" => \E b \in ever' : Asked(b) /\ b.by # Others
      BY <1>1, <2>1, <2>2, ServedIsTrue
    <3>2. reply'.status = "ok" /\ request.kind \in {"head", "read"} => \E b \in ever' : Asked(b)
      BY <1>4, <2>1, <2>2, ServedIsTrue
    <3>3. reply'.status = "notFound" /\ request.kind \in {"head", "read"} =>
            request.names \subseteq absent'
      BY <1>4, <2>1, <2>2, <2>3, ServedIsTrue
    <3>4. request.kind = "delete" => request.names \subseteq absent'
      <4>1. request.kind = "delete" => request.names \cap NamesOf(held') = {}
        BY <1>1, ServedIsTrue
      <4> QED
        BY <4>1, <2>2, <2>3
    <3> QED
      BY <2>3, <3>1, <3>2, <3>3, <3>4 DEF ReplyIsTrue, Asked
  <2>5. ListingGrows'
    <3> SUFFICES ASSUME request.kind = "list" PROVE ListingGrows'
      BY <2>3 DEF ListingGrows
    <3>1. /\ reply'.blobs \subseteq ever' /\ listed' \subseteq ever'
          /\ followed' \subseteq Nat /\ reply'.cursor \in Nat
      BY <1>2, <1>4, <2>1, <2>2, ServedPage, TimesAssumption
      DEF IInv, ListingGrows, client, NoCursor, Names, Cursors, Unseen
    <3>2. ASSUME honest
          PROVE  /\ UpTo(cursor, listed)' /\ \A m \in followed' : m <= cursor'
                 /\ reply'.status = "ok" =>
                      IF reply'.cursor = NoCursor
                      THEN throughout' \subseteq listed' \cup reply'.blobs
                      ELSE reply'.cursor > cursor' /\ UpTo(reply.cursor, listed \cup reply.blobs)'
      <4>1. UpTo(cursor, listed) /\ \A m \in followed : m <= cursor
        BY <2>1, <3>2 DEF IInv, ListingGrows
      <4>2. \A b \in held : b.name \in Nat
        BY DEF IInv, TypeOK, Blobs, Names
      <4>3. cursor \in Nat
        BY DEF IInv, TypeOK
      <4>4. cursor' = cursor /\ listed' = listed /\ followed' = followed
        BY <1>2 DEF client
      <4>5. ASSUME NEW b \in throughout', reply'.cursor # NoCursor => b.name <= reply'.cursor
            PROVE  b \in listed' \cup reply'.blobs
        <5>1. b \in throughout /\ b \in held
          BY <1>4, <2>2
        <5>2. CASE b.name <= cursor
          BY <4>1, <4>4, <5>1, <5>2 DEF UpTo
        <5>3. CASE b.name > cursor
          BY <2>1, <3>2, <4>4, <4>5, <5>1, <5>3, ServedPage
        <5> QED
          BY <4>2, <4>3, <5>1, <5>2, <5>3
      <4>6. reply'.cursor = NoCursor \/ reply'.cursor > cursor'
        BY <2>1, <3>2, <4>4, ServedPage
      <4> QED
        BY <1>4, <4>1, <4>4, <4>5, <4>6 DEF UpTo
    <3> QED
      BY <1>2, <3>1, <3>2 DEF ListingGrows
  <2> QED
    BY <1>3, <1>4, <2>4, <2>5 DEF IInv
<1> QED
  BY <1>3, <1>5, <1>6

------------------------------------------------------------------------------
(***************************************************************************)
(* The client's steps.                                                     *)
(***************************************************************************)
\* An attempt takes no longer than its timeout.
LEMMA Counted ==
  ASSUME IInv, pc = "sent", NEW time \in 0..Timeout
  PROVE  elapsed + time \in Nat /\ elapsed + time <= StepBefore + Waited + Timeout * attempt
<1>1. elapsed \in Nat /\ attempt \in {1, 2, 3} /\ Backoff \in Nat /\ Timeout \in Nat
  BY TimesAssumption DEF IInv, TypeOK, ATTEMPTS
<1>2. StepBefore \in Nat
  BY Longest DEF StepBefore
<1>3. elapsed <= StepBefore + Waited + Timeout * (attempt - 1)
  BY DEF IInv, ElapsedIsCounted, Tried
<1>4. Timeout * (1 - 1) = 0 /\ Timeout * (2 - 1) = Timeout /\ Timeout * (3 - 1) = Timeout + Timeout
      /\ Timeout * 1 = Timeout /\ Timeout * 2 = Timeout + Timeout
      /\ Timeout * 3 = Timeout + Timeout + Timeout
  BY <1>1
<1>5. Waited \in Nat
  BY <1>1 DEF Waited
<1> QED
  BY <1>1, <1>2, <1>3, <1>4, <1>5

LEMMA CountedLater ==
  ASSUME IInv, UNCHANGED <<step, attempt>>, pc' \in {"waits", "done"},
         pc' = "waits" => attempt < ATTEMPTS,
         elapsed' <= StepBefore + Waited + Timeout * attempt
  PROVE  ElapsedIsCounted'
  BY DEF ElapsedIsCounted, StepBefore, Waited, Tried

LEMMA ConcludedIInv ==
  ASSUME IInv, UNCHANGED <<held, honest, request, throughout, ever, absent>>,
         NEW v \in {"done", "missing", "failed"}, Concludes(v),
         elapsed' \in Nat, elapsed' <= StepBefore + Waited + Timeout * attempt,
         request.kind = "list" => listed' \subseteq ever, AnswersAreTrue', ListsWhatStayed'
  PROVE  IInv'
<1>1. TypeOK' /\ OnePerName' /\ StepIsOfItsKind' /\ AnswerIsLast' /\ WaitIsDoubled'
  BY DEF IInv, Concludes, TypeOK, OnePerName, StepIsOfItsKind, AnswerIsLast, WaitIsDoubled
<1>2. ElapsedIsCounted'
  BY CountedLater DEF Concludes
<1>3. HistoryIsTrue'
  BY DEF Concludes, HistoryIsTrue
<1>4. ReplyIsTrue'
  BY DEF IInv, Concludes, ReplyIsTrue, Asked
<1>5. ListingGrows'
  BY DEF IInv, Concludes, ListingGrows
<1> QED
  BY <1>1, <1>2, <1>3, <1>4, <1>5 DEF IInv

LEMMA FailsTruly ==
  ASSUME Concludes("failed")
  PROVE  AnswersAreTrue' /\ ListsWhatStayed'
  BY DEF Concludes, AnswersAreTrue, ListsWhatStayed

\* Another attempt, or none.
LEMMA TriesAgainStep ==
  ASSUME IInv, pc = "sent", UNCHANGED <<held, honest, request, throughout, ever, absent>>,
         TriesAgainOrFails, \E time \in 0..Timeout : Took(time)
  PROVE  IInv'
<1>1. elapsed' \in Nat /\ elapsed' <= StepBefore + Waited + Timeout * attempt
  BY Counted DEF Took
<1>2. listed' = listed /\ (request.kind = "list" => listed \subseteq ever)
  BY DEF TriesAgainOrFails, IInv, ListingGrows
<1>3. CASE OutOfAttempts
  <2>1. Concludes("failed")
    BY <1>3 DEF TriesAgainOrFails
  <2> QED
    BY <1>1, <1>2, <2>1, ConcludedIInv, FailsTruly
<1>4. CASE ~OutOfAttempts
  <2>1. pc' = "waits" /\ UNCHANGED <<step, attempt, wait, sent, reply, cursor, followed, answer>>
    BY <1>4 DEF TriesAgainOrFails
  <2>2. attempt < ATTEMPTS
    BY <1>4 DEF OutOfAttempts, IInv, TypeOK, ATTEMPTS
  <2>3. TypeOK' /\ OnePerName' /\ StepIsOfItsKind' /\ AnswerIsLast' /\ WaitIsDoubled'
    BY <1>1, <2>1 DEF IInv, TypeOK, OnePerName, StepIsOfItsKind, AnswerIsLast, WaitIsDoubled
  <2>4. ElapsedIsCounted'
    BY <1>1, <2>1, <2>2, CountedLater
  <2>5. HistoryIsTrue' /\ AnswersAreTrue' /\ ListsWhatStayed'
    BY <1>2, <2>1 DEF IInv, HistoryIsTrue, AnswersAreTrue, ListsWhatStayed, NamesOf, Asked
  <2>6. ReplyIsTrue'
    BY <2>1 DEF IInv, ReplyIsTrue, Asked
  <2>7. ListingGrows'
    BY <1>2, <2>1 DEF IInv, ListingGrows, UpTo
  <2> QED
    BY <2>3, <2>4, <2>5, <2>6, <2>7 DEF IInv
<1> QED
  BY <1>3, <1>4

LEMMA TryAgainStep ==
  ASSUME IInv, TryAgain
  PROVE  IInv'
<1>1. /\ pc = "waits" /\ pc' = "sent"
      /\ attempt' = attempt + 1 /\ wait' = wait * 2 /\ elapsed' = elapsed + wait
      /\ reply' = NoReply
      /\ UNCHANGED <<held, honest, request, step, cursor, followed, listed, answer,
                     moves, throughout, ever, absent>>
  BY DEF TryAgain, Took, Doubled
<1>2. attempt \in {1, 2} /\ elapsed \in Nat /\ Backoff \in Nat /\ Timeout \in Nat
  BY <1>1, TimesAssumption DEF IInv, TypeOK, ElapsedIsCounted, ATTEMPTS
<1>3. wait = (IF attempt = 1 THEN Backoff ELSE Backoff * 2) /\ wait \in Nat
  BY <1>2 DEF IInv, WaitIsDoubled
<1>4. TypeOK'
  <2>1. sent' \subseteq 1..ATTEMPTS
    BY <1>2 DEF TryAgain, IInv, TypeOK, ATTEMPTS
  <2> QED
    BY <1>1, <1>2, <1>3, <2>1 DEF IInv, TypeOK, ATTEMPTS
<1>5. OnePerName' /\ StepIsOfItsKind' /\ AnswerIsLast'
  BY <1>1 DEF IInv, OnePerName, StepIsOfItsKind, AnswerIsLast
<1>6. WaitIsDoubled'
  BY <1>1, <1>2, <1>3 DEF WaitIsDoubled
<1>7. ElapsedIsCounted'
  <2>1. elapsed <= StepBefore + Waited + Timeout * attempt
    BY <1>1 DEF IInv, ElapsedIsCounted, Tried
  <2>2. StepBefore' = StepBefore /\ StepBefore \in Nat
    BY <1>1, Longest DEF StepBefore, LongestRequest, ATTEMPTS
  <2>3. Waited' = Waited + wait /\ Waited \in Nat
    BY <1>1, <1>2, <1>3 DEF Waited
  <2>4. Tried' = attempt
    BY <1>1, <1>2 DEF Tried
  <2>5. Timeout * attempt \in Nat
    BY <1>2
  <2>6. elapsed + wait <= StepBefore + (Waited + wait) + Timeout * attempt
    BY <1>2, <1>3, <2>1, <2>2, <2>3, <2>5
  <2> QED
    BY <1>1, <2>2, <2>3, <2>4, <2>6 DEF ElapsedIsCounted
<1>8. HistoryIsTrue' /\ AnswersAreTrue' /\ ListsWhatStayed'
  BY <1>1 DEF IInv, HistoryIsTrue, AnswersAreTrue, ListsWhatStayed, NamesOf, Asked
<1>9. ReplyIsTrue'
  BY <1>1 DEF ReplyIsTrue, NoReply
<1>10. ListingGrows'
  BY <1>1 DEF IInv, ListingGrows, UpTo, NoReply, NoCursor
<1> QED
  BY <1>4, <1>5, <1>6, <1>7, <1>8, <1>9, <1>10 DEF IInv

\* The next request of a read or of a listing.
LEMMA GoesOnStep ==
  ASSUME IInv, pc = "sent", UNCHANGED <<held, honest, request, throughout, ever, absent>>,
         NEW to, GoesOn(to), cursor' \in Nat, elapsed' \in Nat, ListingGrows',
         \/ step = "where" /\ to = "contents" /\ elapsed' <= LongestRequest
         \/ request.kind = "list" /\ to = "page" /\ elapsed' = 0
  PROVE  IInv'
<1>1. /\ pc' = "sent" /\ attempt' = 1 /\ wait' = Backoff /\ sent' = {1} /\ step' = to
      /\ reply' = NoReply /\ answer' = answer /\ answer = "none"
  BY DEF GoesOn, IInv, AnswerIsLast
<1>2. TypeOK' /\ OnePerName' /\ AnswerIsLast' /\ WaitIsDoubled'
  BY <1>1 DEF IInv, TypeOK, OnePerName, AnswerIsLast, WaitIsDoubled, ATTEMPTS
<1>3. StepIsOfItsKind'
  BY <1>1, RequestsAssumption DEF IInv, TypeOK, StepIsOfItsKind
<1>4. ElapsedIsCounted'
  <2>1. Waited' = 0 /\ Tried' = 0 /\ Timeout * 0 = 0
    BY <1>1, TimesAssumption DEF Waited, Tried
  <2>2. elapsed' <= StepBefore'
    BY <1>1 DEF StepBefore
  <2>3. StepBefore' \in Nat
    BY <1>1, Longest DEF StepBefore
  <2> QED
    BY <1>1, <2>1, <2>2, <2>3 DEF ElapsedIsCounted
<1>5. HistoryIsTrue'
  BY <1>1 DEF IInv, HistoryIsTrue, NamesOf
<1>6. ReplyIsTrue'
  BY <1>1 DEF ReplyIsTrue, NoReply
<1>7. AnswersAreTrue' /\ ListsWhatStayed'
  BY <1>1 DEF AnswersAreTrue, ListsWhatStayed
<1> QED
  BY <1>2, <1>3, <1>4, <1>5, <1>6, <1>7 DEF IInv

LEMMA AnsweredWholeStep ==
  ASSUME IInv, pc = "sent", UNCHANGED <<held, honest, request, throughout, ever, absent>>,
         AnsweredWhole
  PROVE  IInv'
<1>1. elapsed' \in Nat /\ elapsed' <= StepBefore + Waited + Timeout * attempt
  BY Counted DEF AnsweredWhole, Took
<1>2. request.kind # "list" /\ listed' = listed
  BY DEF AnsweredWhole
<1>3. CASE step = "where" /\ Verdict(reply.status) = "done"
  <2>1. GoesOn("contents") /\ cursor' = cursor
    BY <1>3 DEF AnsweredWhole
  <2>2. elapsed' <= LongestRequest
    <3>1. attempt \in {1, 2, 3} /\ Backoff \in Nat /\ Timeout \in Nat /\ StepBefore = 0
      BY <1>3, TimesAssumption DEF IInv, TypeOK, ATTEMPTS, StepBefore
    <3>2. Waited <= Backoff * 3 /\ Waited \in Nat
      BY <3>1 DEF Waited
    <3>3. Timeout * attempt <= Timeout * 3 /\ Timeout * attempt \in Nat
      BY <3>1
    <3> QED
      BY <1>1, <3>1, <3>2, <3>3, Longest
  <2>3. ListingGrows' /\ cursor' \in Nat
    BY <1>2, <2>1 DEF ListingGrows, IInv, TypeOK
  <2> QED
    BY <1>1, <1>3, <2>1, <2>2, <2>3, GoesOnStep
<1>4. CASE ~(step = "where" /\ Verdict(reply.status) = "done")
  <2>1. Concludes(Verdict(reply.status))
    BY <1>4 DEF AnsweredWhole
  <2>2. Verdict(reply.status) \in {"done", "missing", "failed"}
    BY DEF Verdict
  <2>3. AnswersAreTrue'
    <3>1. answer' = Verdict(reply.status)
      BY <2>1 DEF Concludes
    <3>2. Verdict(reply.status) = "done" =>
            \/ reply.status = "ok"
            \/ reply.status = "notFound" /\ request.kind = "delete"
      BY DEF Verdict, NotFound
    <3>3. Verdict(reply.status) = "missing" =>
            reply.status = "notFound" /\ request.kind \in {"head", "read"}
      BY DEF Verdict, NotFound
    <3> QED
      BY <3>1, <3>2, <3>3 DEF IInv, ReplyIsTrue, AnswersAreTrue, Asked
  <2>4. ListsWhatStayed'
    BY <1>2 DEF ListsWhatStayed
  <2> QED
    BY <1>1, <1>2, <2>1, <2>2, <2>3, <2>4, ConcludedIInv
<1> QED
  BY <1>3, <1>4

LEMMA AnsweredAPageStep ==
  ASSUME IInv, pc = "sent", reply # NoReply,
         UNCHANGED <<held, honest, request, throughout, ever, absent>>, AnsweredAPage
  PROVE  IInv'
<1>1. /\ request.kind = "list" /\ answer = "none" /\ cursor \in Nat
      /\ reply.cursor \in Nat /\ followed \subseteq Nat
      /\ listed \subseteq ever /\ reply.blobs \subseteq ever
  BY DEF AnsweredAPage, IInv, AnswerIsLast, TypeOK, ListingGrows
<1>2. listed' = IF reply.status = "ok" THEN listed \cup reply.blobs ELSE listed
  BY DEF AnsweredAPage
<1>3. CASE reply.status = "ok" /\ NewCursor(reply.cursor)
  <2>1. /\ GoesOn("page") /\ cursor' = reply.cursor /\ elapsed' = 0
        /\ followed' \subseteq followed \cup {reply.cursor}
    BY <1>3 DEF AnsweredAPage
  <2>2. ListingGrows'
    <3>1. listed' \subseteq ever' /\ reply' = NoReply /\ followed' \subseteq Nat
      BY <1>1, <1>2, <2>1 DEF GoesOn
    <3>2. ASSUME honest
          PROVE  UpTo(cursor, listed)' /\ \A n \in followed' : n <= cursor'
      <4>1. reply.cursor > cursor /\ UpTo(reply.cursor, listed \cup reply.blobs)
        BY <1>1, <1>3, <3>2 DEF IInv, ListingGrows, NewCursor
      <4>2. \A n \in followed : n <= cursor
        BY <1>1, <3>2 DEF IInv, ListingGrows
      <4> QED
        BY <1>1, <1>2, <1>3, <2>1, <4>1, <4>2 DEF UpTo
    <3> QED
      BY <1>1, <3>1, <3>2 DEF ListingGrows, NoReply, NoCursor
  <2> QED
    BY <1>1, <2>1, <2>2, GoesOnStep
<1>4. CASE ~(reply.status = "ok" /\ NewCursor(reply.cursor))
  <2>1. Concludes(Verdict(reply.status))
    BY <1>4 DEF AnsweredAPage
  <2>2. elapsed' \in Nat /\ elapsed' <= StepBefore + Waited + Timeout * attempt
    BY <1>4, Counted DEF AnsweredAPage, Took
  <2>3. /\ Verdict(reply.status) \in {"done", "failed"}
        /\ Verdict(reply.status) = "done" => reply.status = "ok"
    BY <1>1 DEF Verdict
  <2>4. AnswersAreTrue'
    BY <1>1, <2>1, <2>3 DEF Concludes, AnswersAreTrue
  <2>5. listed' \subseteq ever
    BY <1>1, <1>2
  <2>6. ListsWhatStayed'
    <3>1. ASSUME reply.status = "ok", honest PROVE throughout \subseteq listed'
      <4>1. reply.cursor = NoCursor \/ reply.cursor \in followed
        BY <1>4, <3>1 DEF NewCursor
      <4>2. \A n \in followed : n <= cursor
        BY <1>1, <3>1 DEF IInv, ListingGrows
      <4>3. reply.cursor # NoCursor => reply.cursor > cursor
        BY <1>1, <3>1 DEF IInv, ListingGrows
      <4>4. reply.cursor = NoCursor
        BY <1>1, <4>1, <4>2, <4>3
      <4> QED
        BY <1>1, <1>2, <3>1, <4>4 DEF IInv, ListingGrows
    <3> QED
      BY <2>1, <2>3, <2>5, <3>1 DEF Concludes, ListsWhatStayed
  <2> QED
    BY <2>1, <2>2, <2>3, <2>4, <2>5, <2>6, ConcludedIInv
<1> QED
  BY <1>3, <1>4

LEMMA AnswerIsBrokenStep ==
  ASSUME IInv, AnswerIsBroken
  PROVE  IInv'
<1>1. elapsed' \in Nat /\ elapsed' <= StepBefore + Waited + Timeout * attempt
  BY Counted DEF AnswerIsBroken, Took
<1>2. request.kind = "list" => listed' \subseteq ever
  BY DEF AnswerIsBroken, IInv, ListingGrows
<1>3. /\ Concludes("failed")
      /\ UNCHANGED <<held, honest, request, throughout, ever, absent>>
  BY DEF AnswerIsBroken
<1> QED
  BY <1>1, <1>2, <1>3, ConcludedIInv, FailsTruly

------------------------------------------------------------------------------
LEMMA ClientStep ==
  ASSUME IInv, Client
  PROVE  IInv'
<1>1. CASE Unanswered
  BY <1>1, TriesAgainStep DEF Unanswered
<1>2. CASE TryAgain
  BY <1>2, TryAgainStep
<1>3. CASE Answered
  <2>1. /\ pc = "sent" /\ reply # NoReply
        /\ UNCHANGED <<held, honest, request, throughout, ever, absent>>
    BY <1>3 DEF Answered
  <2>2. \/ TriesAgainOrFails /\ \E time \in 0..Timeout : Took(time)
        \/ AnsweredWhole
        \/ AnsweredAPage
    BY <1>3 DEF Answered
  <2> QED
    BY <2>1, <2>2, TriesAgainStep, AnsweredWholeStep, AnsweredAPageStep
<1>4. CASE AnswerIsBroken
  BY <1>4, AnswerIsBrokenStep
<1> QED
  BY <1>1, <1>2, <1>3, <1>4 DEF Client

LEMMA StutterStep ==
  ASSUME IInv, UNCHANGED vars
  PROVE  IInv'
<1>1. TypeOK' /\ OnePerName' /\ StepIsOfItsKind' /\ AnswerIsLast' /\ WaitIsDoubled'
  BY DEF IInv, vars, client, TypeOK, OnePerName, StepIsOfItsKind, AnswerIsLast, WaitIsDoubled
<1>2. ElapsedIsCounted' /\ HistoryIsTrue'
  BY DEF IInv, vars, client, ElapsedIsCounted, Waited, Tried, StepBefore, HistoryIsTrue, NamesOf
<1>3. ReplyIsTrue' /\ ListingGrows' /\ AnswersAreTrue' /\ ListsWhatStayed'
  BY DEF IInv, vars, client, ReplyIsTrue, ListingGrows, UpTo, AnswersAreTrue, ListsWhatStayed, Asked
<1> QED
  BY <1>1, <1>2, <1>3 DEF IInv

LEMMA NextIInv == IInv /\ [Next]_vars => IInv'
<1> SUFFICES ASSUME IInv, [Next]_vars PROVE IInv'
  OBVIOUS
<1>1. CASE Client
  BY <1>1, ClientStep
<1>2. ASSUME NEW n \in 1..ATTEMPTS, Serve(n) PROVE IInv'
  BY <1>2, ServeStep
<1>3. ASSUME NEW n \in 1..ATTEMPTS, TurnAway(n) PROVE IInv'
  BY <1>3, TurnAwayStep
<1>4. CASE OtherPuts \/ OtherDeletes
  BY <1>4, OthersStep
<1>5. CASE UNCHANGED vars
  BY <1>5, StutterStep
<1> QED
  BY <1>1, <1>2, <1>3, <1>4, <1>5 DEF Next, Over

\* The inductive invariant of a request: the times its attempts have taken, and that the
\* reply it waits for, and the pages it has, were true when the service made them.
THEOREM Invariance == Spec => []IInv
  BY InitIInv, NextIInv, PTL DEF Spec

\* LONGEST_REQUEST and LONGEST_READ bound send's loop for every timeout and first wait.
THEOREM TimeIsBounded == Spec => []EndsInTime
<1>1. IInv => EndsInTime
  <2> SUFFICES ASSUME IInv PROVE EndsInTime
    OBVIOUS
  <2>1. attempt \in {1, 2, 3} /\ Backoff \in Nat /\ Timeout \in Nat /\ elapsed \in Nat
    BY TimesAssumption DEF IInv, TypeOK, ATTEMPTS
  <2>2. Waited <= Backoff * 3 /\ Waited \in Nat
    BY <2>1 DEF Waited
  <2>3. Tried \in {0, 1, 2, 3}
    BY <2>1 DEF Tried
  <2>4. Timeout * Tried <= Timeout * 3 /\ Timeout * Tried \in Nat
    BY <2>1, <2>3
  <2>5. elapsed <= StepBefore + LongestRequest
    <3>1. StepBefore \in Nat
      BY Longest DEF StepBefore
    <3> QED
      BY <2>1, <2>2, <2>4, <3>1, Longest DEF IInv, ElapsedIsCounted
  <2>6. step = "contents" => request.kind = "read"
    BY DEF IInv, StepIsOfItsKind
  <2> QED
    BY <2>1, <2>5, <2>6, Longest DEF EndsInTime, StepBefore, LongestRead
<1> QED
  BY <1>1, Invariance, PTL

\* No attempt, awaited or abandoned, replaces a blob, whoever wrote it.
THEOREM NothingIsReplaced == Spec => NeverReplaced
<1>1. IInv /\ [Next]_vars => [\A b \in held, d \in held' : b.name = d.name => b = d]_vars
  <2> SUFFICES ASSUME IInv, Next
               PROVE  \A b \in held, d \in held' : b.name = d.name => b = d
    OBVIOUS
  <2>1. CASE held' \subseteq held
    BY <2>1 DEF IInv, OnePerName
  <2>2. ASSUME NEW n \in 1..ATTEMPTS, Serve(n)
        PROVE  \A b \in held, d \in held' : b.name = d.name => b = d
    BY <2>2, ServeStep
  <2>3. CASE OtherPuts
    BY <2>3 DEF OtherPuts, IInv, OnePerName, NamesOf
  <2>4. Client \/ OtherDeletes \/ Over \/ (\E n \in 1..ATTEMPTS : TurnAway(n)) => held' \subseteq held
    BY DEF Client, Unanswered, TryAgain, Answered, AnswerIsBroken, OtherDeletes, Over, vars, TurnAway
  <2> QED
    BY <2>1, <2>2, <2>3, <2>4 DEF Next
<1> QED
  BY <1>1, Invariance, PTL DEF Spec, NeverReplaced

\* Whatever attempts are lost, late or served twice, an answer was true of the store at
\* some time since the client asked.
THEOREM AnswersHold == Spec => []AnswersAreTrue
<1>1. IInv => AnswersAreTrue
  BY DEF IInv
<1> QED
  BY <1>1, Invariance, PTL

\* A listing read over any number of pages, while others write and delete, has all that
\* was held meanwhile.
THEOREM ListingIsComplete == Spec => []ListsWhatStayed
<1>1. IInv => ListsWhatStayed
  BY DEF IInv
<1> QED
  BY <1>1, Invariance, PTL
==============================================================================
