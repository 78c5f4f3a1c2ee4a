------------------------------- MODULE Excerpts -------------------------------
(***************************************************************************)
(* One file's diff as a client is shown it: get_file_diff::presented,      *)
(* which drops the unchanged lines far from any change (trim, hunks) and   *)
(* cuts what is left to the caps (page::truncate).  A line is its number   *)
(* in the rendered patch, a row of the answer a line or an @@ header, and  *)
(* a text the sequence of its characters, of as many kinds as the two      *)
(* caps tell apart.                                                        *)
(***************************************************************************)
EXTENDS Integers, FiniteSets, Sequences, FiniteSetsExt, SequencesExt, Orders

CONSTANTS
  Chars,          \* kinds of characters
  Raw,            \* the bytes of each, char::len_utf8
  EncodedCost,    \* its bytes in a JSON string
  Patches,        \* what build_patch renders
  Contexts,       \* ContextLines::Around
  Full,           \* ContextLines::Full
  MaxBytes,       \* what clients ask for
  TextCeiling,    \* PAYLOAD_CEILING
  MarkerReserve,  \* MARKER_RESERVE
  MarkerCost      \* what the marker takes, encoded

Kinds == {"context", "removed", "added"}
PatchesThereAre == [isDiff : BOOLEAN, body : Seq([kind : Kinds, char : Chars])]

ASSUME CharsAssumption ==
  /\ {"plain", "newline"} \subseteq Chars
  /\ Raw \in [Chars -> Nat \ {0}]
  /\ EncodedCost \in [Chars -> Nat \ {0}]
  /\ \A c \in Chars : EncodedCost[c] >= Raw[c]
ASSUME PatchesAssumption ==
  /\ Patches \subseteq PatchesThereAre
  /\ \A p \in Patches : p.isDiff \/ \A i \in 1..Len(p.body) : p.body[i].kind = "context"
ASSUME AsksAssumption == Contexts \subseteq Nat /\ Full \notin Contexts /\ MaxBytes \subseteq Nat
ASSUME CeilingAssumption ==
  {TextCeiling, MarkerReserve, MarkerCost} \subseteq Nat /\ MarkerCost <= MarkerReserve
                                                     /\ MarkerReserve + 2 <= TextCeiling

Asks == [context : Contexts \cup {Full}, max : MaxBytes]

------------------------------------------------------------------------------
(***************************************************************************)
(* trim: the hunks, and where each sits in either file.                    *)
(***************************************************************************)
Changed(body, i) == body[i].kind # "context"
InFirst(body) == {i \in 1..Len(body) : body[i].kind # "added"}
InSecond(body) == {i \in 1..Len(body) : body[i].kind # "removed"}

Joins(hunk, start) == hunk.end + 1 >= start

\* hunks, line by line: each change with its context, one hunk with the last one's where
\* they meet.
WithLine(hunks, body, context, at) ==
  LET start == Max({1, at - context})
      end   == Min({at + context, Len(body)})
  IN  IF ~Changed(body, at) THEN hunks
      ELSE IF hunks # <<>> /\ Joins(Last(hunks), start)
      THEN [hunks EXCEPT ![Len(hunks)].end = Max({@, end})]
      ELSE Append(hunks, [start |-> start, end |-> end])

Hunks(body, context) ==
  FoldLeft(LAMBDA hunks, at : WithLine(hunks, body, context, at),
           <<>>, [i \in 1..Len(body) |-> i])

\* The lines a side has before the hunk, and in it.
Before(side, hunk) == Cardinality(side \cap 1..(hunk.start - 1))
Count(side, hunk) == Cardinality(side \cap hunk.start..hunk.end)

\* Mutant: a side without a line of the hunk starts at the line after.
StartAfter(side, hunk) == Before(side, hunk) + 1

\* A side's first line in the hunk or, when it has none there, the line before.
Start(side, hunk) == Before(side, hunk) + (IF Count(side, hunk) = 0 THEN 0 ELSE 1)

Side(side, hunk) == [at |-> Start(side, hunk), count |-> Count(side, hunk)]

Header(body, hunk) ==
  [first |-> Side(InFirst(body), hunk), second |-> Side(InSecond(body), hunk)]

Lines(start, end) == [n \in 1..(end - start + 1) |-> [line |-> start + n - 1]]

HunkRows(body, hunk) == <<[header |-> Header(body, hunk)]>> \o Lines(hunk.start, hunk.end)

\* trim, for a diff that was not asked for whole.
Rows(p, context) ==
  IF p.isDiff /\ context # Full
  THEN FoldLeft(LAMBDA rows, hunk : rows \o HunkRows(p.body, hunk), <<>>, Hunks(p.body, context))
  ELSE Lines(1, Len(p.body))

------------------------------------------------------------------------------
(***************************************************************************)
(* truncate.                                                               *)
(***************************************************************************)
IsHeader(row) == "header" \in DOMAIN row

\* A diff's text begins with the names of its two files.
TextOf(p, rows) ==
  (IF p.isDiff THEN <<"plain", "newline", "plain">> ELSE <<>>)
    \o [c \in 1..(2 * Len(rows)) |->
          LET row == rows[(c + 1) \div 2]
          IN  IF c % 2 = 1 THEN "newline"
              ELSE IF IsHeader(row) THEN "plain" ELSE p.body[row.line].char]

SumOf(weight, text) == FoldLeft(LAMBDA sum, c : sum + weight[c], 0, text)

\* MaxBytes::bytes.
Cap(max) == Max({max, 1})

\* Mutant: room for the quotes alone.
RoomWithoutMarker == TextCeiling - 2

Room == TextCeiling - (MarkerReserve + 2)

\* What fits in both caps, character by character.
FittingText(text, max) ==
  {n \in 0..Len(text) : LET kept == SubSeq(text, 1, n)
                        IN  SumOf(Raw, kept) <= Cap(max) /\ SumOf(EncodedCost, kept) <= Room}

BytesOf(text) == SumOf(Raw, text)

Truncated(text, max) ==
  LET kept == Max(FittingText(text, max))
  IN  [text |-> SubSeq(text, 1, kept), truncated |-> kept # Len(text), bytes |-> BytesOf(text)]

\* presented.
Presented(p, ask) == Truncated(TextOf(p, Rows(p, ask.context)), ask.max)

------------------------------------------------------------------------------
(***************************************************************************)
(* What a client relies on.                                                *)
(***************************************************************************)
\* A side of the patch as a file: its lines, in order.
File(side) == Ascending(side)

\* What a reader of unified diffs makes of a file and the rows: each header says how
\* many lines of either file come before its hunk, and its lines follow.
LinesBefore(side) == IF side.count = 0 THEN side.at ELSE side.at - 1

AfterHeader(file, done, header) ==
  LET to  == LinesBefore(header.first)
      out == done.out \o SubSeq(file, done.read + 1, Min({to, Len(file)}))
  IN  [read |-> to, out |-> out,
       ok |-> /\ done.ok /\ done.read <= to /\ to <= Len(file)
              /\ Len(out) = LinesBefore(header.second)]

AfterLine(body, file, done, line) ==
  LET here == line \in InFirst(body)
  IN  [read |-> IF here THEN done.read + 1 ELSE done.read,
       out  |-> IF line \in InSecond(body) THEN Append(done.out, line) ELSE done.out,
       ok   |-> /\ done.ok
                /\ here => done.read < Len(file) /\ file[done.read + 1] = line]

AfterRow(body, file, done, row) ==
  IF IsHeader(row) THEN AfterHeader(file, done, row.header) ELSE AfterLine(body, file, done, row.line)

Unread == [read |-> 0, out |-> <<>>, ok |-> TRUE]

AfterRows(body, file, rows) ==
  FoldLeft(LAMBDA done, row : AfterRow(body, file, done, row), Unread, rows)

\* No line is 0: it stands for rows that do not fit the file.
Applied(body, file, rows) ==
  LET end == AfterRows(body, file, rows)
  IN  IF end.ok THEN end.out \o SubSeq(file, end.read + 1, Len(file)) ELSE <<0>>

\* The patch before the cut turns the first file into the second: its headers place each
\* hunk in both files, at the ends of a file and where a side has no line too.
Applies(p, context) ==
  Applied(p.body, File(InFirst(p.body)), Rows(p, context)) = File(InSecond(p.body))

\* The hunks' lines are those within the context of a change, no others, and between
\* two hunks there is a line left out.
AreRuns(body, context) ==
  LET hunks == Hunks(body, context)
      lines == 1..Len(body)
  IN  /\ UNION {hunks[h].start..hunks[h].end : h \in DOMAIN hunks}
           = {i \in lines : \E c \in lines : Changed(body, c) /\ i - c \in -context..context}
      /\ \A h \in 1..(Len(hunks) - 1) : hunks[h].end + 1 < hunks[h + 1].start

\* An answer fits the payload, with its quotes and the marker of a cut.
Fits(shown) ==
  SumOf(EncodedCost, shown.text) + (IF shown.truncated THEN MarkerCost ELSE 0) + 2 <= TextCeiling

\* One answer goes on from another, which said how much there was to read.
GoesOn(more, shown) ==
  /\ IsPrefix(shown.text, more.text)
  /\ more.truncated => shown.truncated
  /\ ~more.truncated => shown.bytes = SumOf(Raw, more.text)
==============================================================================
