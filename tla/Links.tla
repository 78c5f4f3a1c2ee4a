--------------------------------- MODULE Links ---------------------------------
(***************************************************************************)
(* The addresses of resources: what a comparison's link says, what a       *)
(* client makes of the template for one file's diff, and what              *)
(* resources/mod.rs reads in either.                                       *)
(*                                                                         *)
(* A URI is what follows the scheme, a sequence of characters, the word    *)
(* "file" and a whole handle each being one.  Percent codes are pairs of   *)
(* hexadecimal digits.  In an address that was handed out every % begins   *)
(* such a pair, so that "file" never follows one, and its letters need not *)
(* be told apart.                                                          *)
(***************************************************************************)
EXTENDS Naturals, Sequences, FiniteSetsExt, SequencesExt

CONSTANTS
  PathChars,  \* what a path is made of, with "/", "%" and "file"
  Hex,    \* the hexadecimal digits among them
  PercentCode  \* of each character that is encoded, its two digits

ASSUME PathCharsAssumption ==
  /\ {"/", "%", "file"} \subseteq PathChars
  /\ Hex \subseteq PathChars
  /\ PercentCode \in [PathChars \ {"file"} -> Hex \X Hex]
  /\ \A c, d \in PathChars \ {"file"} : PercentCode[c] = PercentCode[d] => c = d

RegistriesUri == <<"registries">>
Prefix == <<"diff", "/">>
Separator == <<"/", "file", "/">>

------------------------------------------------------------------------------
(***************************************************************************)
(* What is handed out.                                                     *)
(***************************************************************************)
\* resources::diff::uri_of.
DiffUri(handle) == Prefix \o handle

\* The template of file_diff, filled in; read names its answer so.
FileUri(handle, path) == DiffUri(handle) \o Separator \o path

\* A client encodes every % and what else it likes.
Encoded(path, kept) ==
  FoldLeft(LAMBDA text, c : text \o (IF c \in kept THEN <<c>> ELSE <<"%">> \o PercentCode[c]),
           <<>>, path)

Keeps == {PathChars \ {"%"}, PathChars \ {"%", "/"}, {"file"}}

------------------------------------------------------------------------------
(***************************************************************************)
(* What is read.                                                           *)
(***************************************************************************)
PlacesOf(part, text) ==
  {i \in 1..(Len(text) - Len(part) + 1) : SubSeq(text, i, i + Len(part) - 1) = part}

After(text, i, part) == SubSeq(text, i + Len(part), Len(text))

\* diff::handle_in.
HandleIn(uri) ==
  LET handle == After(uri, 1, Prefix)
  IN  IF IsPrefix(Prefix, uri) /\ handle # <<>> /\ ~Contains(handle, "/") THEN {handle} ELSE {}

\* Mutant: the handle ends where the path can begin last.
CutLast(places) == Max(places)

\* split_once.
Cut(places) == Min(places)

\* file_diff::parts_in: a handle has no / of its own, and a path is something.
PartsIn(uri) ==
  LET rest == After(uri, 1, Prefix)
      places == PlacesOf(Separator, rest)
      parts == [handle |-> SubSeq(rest, 1, Cut(places) - 1), path |-> After(rest, Cut(places), Separator)]
  IN  IF IsPrefix(Prefix, uri) /\ places # {}
         /\ parts.handle # <<>> /\ ~Contains(parts.handle, "/") /\ parts.path # <<>>
      THEN {parts} ELSE {}

Catalogue == [to |-> "registries"]
Nowhere == [to |-> "nowhere"]

\* Address::of.
AddressOf(uri) ==
  CASE uri = RegistriesUri -> Catalogue
    [] PartsIn(uri) # {}   -> LET parts == CHOOSE p \in PartsIn(uri) : TRUE
                              IN  [to |-> "file", handle |-> parts.handle, path |-> parts.path]
    [] HandleIn(uri) # {}  -> [to |-> "diff", handle |-> CHOOSE h \in HandleIn(uri) : TRUE]
    [] OTHER               -> Nowhere

\* The character that the two digits after the i-th one spell, if they spell any.
Spelled(segment, i) ==
  {c \in DOMAIN PercentCode : i + 2 <= Len(segment) /\ PercentCode[c] = <<segment[i + 1], segment[i + 2]>>}

\* decoded, as a set with no text in it where it refuses: what two digits spell is not read
\* again.
Decoded(segment) ==
  LET from[i \in 1..(Len(segment) + 1)] ==
        IF i > Len(segment) THEN {<<>>}
        ELSE IF segment[i] # "%" THEN {<<segment[i]>> \o rest : rest \in from[i + 1]}
        ELSE UNION {{<<c>> \o rest : rest \in from[i + 3]} : c \in Spelled(segment, i)}
  IN  from[1]

------------------------------------------------------------------------------
\* Every address handed out is read as what it was handed out for, however a client
\* encodes the path, also a path that has a separator of its own.
LeadsToItself(handle, path) ==
  /\ AddressOf(RegistriesUri) = Catalogue
  /\ AddressOf(DiffUri(handle)) = [to |-> "diff", handle |-> handle]
  /\ \A kept \in Keeps :
       LET address == AddressOf(FileUri(handle, Encoded(path, kept)))
       IN  /\ address.to = "file" /\ address.handle = handle
           /\ Decoded(address.path) = {path}
==============================================================================
