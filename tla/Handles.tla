-------------------------------- MODULE Handles --------------------------------
(***************************************************************************)
(* What names a comparison: cache_key.rs, whose diff_id rounds a           *)
(* threshold, and handle.rs, whose handle carries the inputs beside it.    *)
(*                                                                         *)
(* A threshold is a sign and a number of the last places of its decimal    *)
(* expansion, and a diff_id the fields that its hash is of: sha256 is      *)
(* taken to keep apart what is apart.  A handle writes its threshold as    *)
(* JSON, and one of many digits may be read as a neighbour of itself:      *)
(* serde_json parses exactly only with its feature float_roundtrip, which  *)
(* this build does not ask for.                                            *)
(***************************************************************************)
EXTENDS Naturals

CONSTANTS
  Names,        \* packages and versions
  Builds,       \* what a build of this server says of itself: its engine and its schema
  ThisBuild,
  Ours,         \* the ids of the registries
  Unknown,      \* an id that is no registry's
  Base,         \* ten
  Kept,         \* the places a diff_id keeps: four
  Places,       \* EXPANSION_DIGITS
  Whole,        \* 2^128: what a u128 counts to
  MostPlaces,   \* the largest threshold, in last places
  ReadAs        \* the thresholds that what JSON writes of one may be read as

ASSUME BuildsAssumption == ThisBuild \in Builds /\ Unknown \notin Ours
ASSUME PlacesAssumption ==
  /\ {Base, Kept, Places, Whole, MostPlaces} \subseteq Nat
  /\ Base > 0 /\ Base % 2 = 0 /\ Kept < Places /\ Whole > 0

Thresholds == [negative : BOOLEAN, places : 0..MostPlaces]

ASSUME ReadAsAssumption == ReadAs \in [Thresholds -> SUBSET Thresholds]

\* Inputs.
Inputs ==
  [registry : Ours, package : Names, from : Names, to : Names,
   threshold : Thresholds, ignoreWhitespace : BOOLEAN]

------------------------------------------------------------------------------
(***************************************************************************)
(* cache_key.rs.                                                           *)
(***************************************************************************)
Power[n \in Nat] == IF n = 0 THEN 1 ELSE Base * Power[n - 1]

\* The k-th place after the point.
Digit(t, k) == (t.places \div Power[Places - k]) % Base

\* The first place that is not kept.
RoundsUp(t) == Digit(t, Kept + 1) >= Base \div 2

\* Mutant: a nine stays one when one is carried into it.
CarryOnce(t) ==
  LET last == Digit(t, Kept)
  IN  [carry |-> FALSE,
       digits |-> [k \in 1..Kept |->
                     IF k = Kept /\ RoundsUp(t) /\ last < Base - 1 THEN last + 1 ELSE Digit(t, k)]]

\* One is carried from the last place kept for as long as the places are full.
IsCarriedInto(t, k) == RoundsUp(t) /\ \A j \in (k + 1)..Kept : Digit(t, j) = Base - 1

Carry(t) ==
  [carry  |-> IsCarriedInto(t, 0),
   digits |-> [k \in 1..Kept |->
                 LET digit == Digit(t, k)
                 IN  IF ~IsCarriedInto(t, k) THEN digit
                     ELSE IF digit = Base - 1 THEN 0 ELSE digit + 1]]

\* format_threshold: the whole part is counted in a u128, which wraps in a release build.
FormatThreshold(t) ==
  LET carried == Carry(t)
  IN  [negative |-> t.negative,
       whole |-> (t.places \div Power[Places] + (IF carried.carry THEN 1 ELSE 0)) % Whole,
       digits |-> carried.digits]

\* DiffKey::canonical, and with it diff_id.
DiffId(build, inputs) ==
  [build |-> build, registry |-> inputs.registry, package |-> inputs.package,
   from |-> inputs.from, to |-> inputs.to, ignoreWhitespace |-> inputs.ignoreWhitespace,
   threshold |-> FormatThreshold(inputs.threshold)]

------------------------------------------------------------------------------
(***************************************************************************)
(* handle.rs.  A text is its version, whether what follows can be read as  *)
(* a payload at all, and the payload.                                      *)
(***************************************************************************)
\* DiffHandle::encode.
Encode(inputs) ==
  [version |-> "d1", readable |-> TRUE,
   payload |-> [diffId |-> DiffId(ThisBuild, inputs), build |-> ThisBuild, inputs |-> inputs]]

Malformed == [refused |-> "malformed"]
Taken(inputs) == [refused |-> "no", inputs |-> inputs]

\* What serde_json::from_slice may make of a text: its threshold may be a neighbour's.
Readings(text) ==
  {[text EXCEPT !.payload.inputs.threshold = t] : t \in ReadAs[text.payload.inputs.threshold]}

\* DiffHandle::decode, of what was read.
Decode(read) ==
  IF read.version # "d1" \/ ~read.readable THEN Malformed
  ELSE IF read.payload.build # ThisBuild THEN [refused |-> "otherBuild"]
  ELSE IF read.payload.inputs.registry \notin Ours THEN Malformed
  ELSE IF read.payload.diffId # DiffId(ThisBuild, read.payload.inputs) THEN [refused |-> "edited"]
  ELSE Taken(read.payload.inputs)

------------------------------------------------------------------------------
(***************************************************************************)
(* What is promised of them.                                               *)
(***************************************************************************)
\* Half up, and with its sign.
Rounded(t) ==
  LET unit == Power[Places - Kept]
  IN  <<t.negative, (2 * t.places + unit) \div (2 * unit)>>

Counted(t) == Rounded(t)[2] < Whole * Power[Kept]

\* What is compared, and how, but for what rounding hides.
SameComparison(inputs, others) ==
  /\ others = [inputs EXCEPT !.threshold = others.threshold]
  /\ Rounded(others.threshold) = Rounded(inputs.threshold)

\* A handle that somebody edited in one place.
Edited(text) ==
  LET With(others) == {[text EXCEPT !.payload.inputs = other] : other \in others}
      inputs == text.payload.inputs
  IN  {[text EXCEPT !.version = "d0"], [text EXCEPT !.readable = FALSE]}
        \cup {[text EXCEPT !.payload.build = build] : build \in Builds \ {ThisBuild}}
        \cup With({[inputs EXCEPT !.registry = id] : id \in (Ours \cup {Unknown}) \ {inputs.registry}})
        \cup With({[inputs EXCEPT !.package = name] : name \in Names \ {inputs.package}})
        \cup With({[inputs EXCEPT !.from = name] : name \in Names \ {inputs.from}})
        \cup With({[inputs EXCEPT !.to = name] : name \in Names \ {inputs.to}})
        \cup With({[inputs EXCEPT !.threshold = t] : t \in {u \in Thresholds : Counted(u)}})
        \cup With({[inputs EXCEPT !.ignoreWhitespace = ~@]})

\* Whether what was read still names what the handle did that it is of.
StillNames(read, inputs) ==
  /\ read.version = "d1" /\ read.readable
  /\ read.payload.build = ThisBuild
  /\ SameComparison(inputs, read.payload.inputs)

\* A handle that is read as it was written is taken for what it was minted for; however
\* its threshold is read, and whoever edited it, it is taken exactly when it still names
\* the same comparison.
NamesOneComparison(inputs) ==
  /\ Decode(Encode(inputs)) = Taken(inputs)
  /\ Counted(inputs.threshold) =>
       \A text \in {Encode(inputs)} \cup Edited(Encode(inputs)) :
         \A read \in Readings(text) :
           Counted(read.payload.inputs.threshold) =>
             (Decode(read).refused = "no" <=> StillNames(read, inputs))
==============================================================================
