------------------------------ MODULE Comparing ------------------------------
(***************************************************************************)
(* One question about one file of one comparison, asked again and again    *)
(* while the entry of the comparison comes and goes: get_file_diff and the *)
(* file-diff resource over Comparison::file_patch.  The comparison is      *)
(* worked out from both versions' files, or read back as a tree and        *)
(* whatever patches its entry holds.                                       *)
(*                                                                         *)
(* The engine is outside src/: its tree is modelled from what the tools,   *)
(* their schemas and their tests say of it, with any pairing of a file     *)
(* that is gone with one that came as a rename.  A text is a model value,  *)
(* and a patch the two texts it was rendered from.                         *)
(***************************************************************************)
EXTENDS FiniteSets, Naturals

CONSTANTS
  Paths,   \* the paths either version can have
  Above,   \* the directories a path is in
  Texts,   \* the texts a file can have
  NoText,
  NoPath

ASSUME PathsAssumption ==
  /\ Above \in [Paths -> SUBSET Paths]
  /\ NoPath \notin Paths
  /\ NoText \notin Texts

VARIABLES
  fromFiles,  \* FileMap of the first version
  toFiles,    \* FileMap of the second version
  renames,    \* what the engine pairs: where a file was, and where it is
  question,   \* the file asked about, and how
  entry,      \* the entry of this comparison
  answer,     \* the answer given last
  first,      \* the answer given first
  over,       \* history: the entry the last answer was given over
  downloads   \* how often both versions were downloaded for it

comparingVars == <<fromFiles, toFiles, renames, question, entry, answer, first, over, downloads>>

------------------------------------------------------------------------------
(***************************************************************************)
(* What is at a path of one version.                                       *)
(***************************************************************************)
Nothing   == [type |-> "nothing", text |-> NoText]
Directory == [type |-> "directory", text |-> NoText]
File(t)   == [type |-> "file", text |-> t]
Things == {Nothing, Directory} \cup {File(t) : t \in Texts}

FileMaps ==
  {files \in [Paths -> Things] :
     \A p \in Paths : files[p] # Nothing => \A d \in Above[p] : files[d] = Directory}

IsFile(files, p) == files[p].type = "file"

------------------------------------------------------------------------------
(***************************************************************************)
(* The engine's tree.                                                      *)
(***************************************************************************)
Gone == {p \in Paths : IsFile(fromFiles, p) /\ ~IsFile(toFiles, p)}
Came == {p \in Paths : IsFile(toFiles, p) /\ ~IsFile(fromFiles, p)}

\* A file moves to one place, and one file moves there.
Pairings ==
  {moves \in SUBSET (Gone \X Came) :
     \A m, n \in moves : (m[1] = n[1] \/ m[2] = n[2]) => m = n}

Node(p, type, status, old) == [path |-> p, type |-> type, status |-> status, old |-> old]

FileNodes ==
  {Node(p, "file", IF fromFiles[p] = toFiles[p] THEN "unchanged" ELSE "modified", NoPath) :
     p \in {q \in Paths : IsFile(fromFiles, q) /\ IsFile(toFiles, q)}}
  \cup {Node(p, "file", "added", NoPath) : p \in {q \in Came : \A m \in renames : m[2] # q}}
  \cup {Node(p, "file", "removed", NoPath) : p \in {q \in Gone : \A m \in renames : m[1] # q}}
  \cup {Node(m[2], "file", "renamed", m[1]) : m \in renames}

Under(d) == {n \in FileNodes : d \in Above[n.path]}

\* A directory a rename left empty is not in the tree at all.
Emptied(d) ==
  /\ \E m \in renames : d \in Above[m[1]]
  /\ Under(d) = {}

DirectoryNodes ==
  LET was == {d \in Paths : fromFiles[d] = Directory}
      is  == {d \in Paths : toFiles[d] = Directory}
  IN  {Node(d, "directory", "added", NoPath) : d \in is \ was}
      \cup {Node(d, "directory", "removed", NoPath) : d \in {e \in was \ is : ~Emptied(e)}}
      \cup {Node(d, "directory",
                 IF \E n \in Under(d) : n.status # "unchanged" THEN "modified" ELSE "unchanged",
                 NoPath) : d \in is \cap was}

Tree == FileNodes \cup DirectoryNodes

------------------------------------------------------------------------------
(***************************************************************************)
(* Lookups in the tree, and in the files.                                  *)
(***************************************************************************)
\* get_diff_tree::node_at: down from the root through directories.
NodesAt(p, type) ==
  {n \in Tree : /\ n.path = p
                /\ n.type = type
                /\ \A d \in Above[p] : \E a \in Tree : a.path = d /\ a.type = "directory"}

AbsentAt(end) == IF end = "from" THEN {"added", "renamed"} ELSE {"removed"}

KindInTree(end, p) ==
  LET Has(type) == \E n \in NodesAt(p, type) : n.status \notin AbsentAt(end)
  IN  IF Has("file") THEN "file" ELSE IF Has("directory") THEN "directory" ELSE "nothing"

KindAt(end, p) == IF end = "from" THEN fromFiles[p].type ELSE toFiles[p].type

\* Mutant: a directory in either version is refused.
AnyDirectory(kinds) == "directory" \in kinds

\* A directory and no file.
IsDirectory(kinds) == "directory" \in kinds /\ "file" \notin kinds

\* Mutant: the resource does not look up where a file was.
MovedFromNowhere(p) == NoPath

\* The old_path of the question: the one asked with, or the one the tree has.
MovedFrom(p) ==
  IF \E n \in NodesAt(p, "file") : n.old # NoPath
  THEN (CHOOSE n \in NodesAt(p, "file") : n.old # NoPath).old
  ELSE NoPath

OldPath == IF question.resource THEN MovedFrom(question.path) ELSE question.old
FromPath == IF OldPath = NoPath THEN question.path ELSE OldPath

\* The texts build_patch is given.
PatchOf(p, was) == [from |-> fromFiles[was].text, to |-> toFiles[p].text]

\* What collect renders for the entry: each file that changed, from where it was.
Changed == {n \in FileNodes : n.status # "unchanged"}
Rendered ==
  [p \in {n.path : n \in Changed} |->
    LET n == CHOOSE m \in Changed : m.path = p
    IN  PatchOf(p, IF n.old = NoPath THEN p ELSE n.old)]

------------------------------------------------------------------------------
(***************************************************************************)
(* The entry.                                                              *)
(***************************************************************************)
NoEntry == [there |-> FALSE, held |-> {}, omitted |-> FALSE]

\* The patches over the cap are left out; a pair of blobs over the entry cap is
\* written as a meta.json alone.
Written ==
  {[there |-> TRUE, held |-> kept, omitted |-> kept # DOMAIN Rendered] :
     kept \in SUBSET DOMAIN Rendered}
  \cup {[there |-> TRUE, held |-> {}, omitted |-> TRUE]}

\* patches.json has gone and meta.json has not.
WithoutItsPatches ==
  IF entry.omitted THEN [entry EXCEPT !.held = {}] ELSE NoEntry

\* The patch the comparison holds for this file, from where the tree says it was.
Stored ==
  {Rendered[p] : p \in {q \in entry.held : /\ entry.there
                                           /\ q = question.path
                                           /\ \E n \in NodesAt(q, "file") : n.old = OldPath}}

------------------------------------------------------------------------------
(***************************************************************************)
(* The answers.                                                            *)
(***************************************************************************)
NoAnswer == [refused |-> FALSE, patches |-> {}]
Refusal  == [refused |-> TRUE, patches |-> {}]
Served(patches) == [refused |-> FALSE, patches |-> patches]

Ends == {<<"to", question.path>>, <<"from", FromPath>>}
TreeRefuses  == IsDirectory({KindInTree(e[1], e[2]) : e \in Ends})
FilesRefuse == IsDirectory({KindAt(e[1], e[2]) : e \in Ends})

\* Mutant: only the tree is asked about directories.
FromTheFilesAnyway == Served({PatchOf(question.path, FromPath)})

\* What neither the tree nor the entry settles is rendered from the files.
FromTheFiles ==
  IF FilesRefuse THEN Refusal ELSE Served({PatchOf(question.path, FromPath)})

FilePatch ==
  IF TreeRefuses THEN Refusal
  ELSE IF Stored # {} THEN Served(Stored)
  ELSE FromTheFiles

Questions ==
  [path : Paths, old : Paths \cup {NoPath}, resource : {FALSE}]
  \cup [path : Paths, old : {NoPath}, resource : {TRUE}]

ComparingInit ==
  /\ fromFiles \in FileMaps
  /\ toFiles \in FileMaps
  /\ renames \in Pairings
  /\ question \in Questions
  /\ entry = NoEntry
  /\ answer = NoAnswer
  /\ first = NoAnswer
  /\ over = NoEntry
  /\ downloads = 0

Answers ==
  /\ answer' = FilePatch
  /\ first' = IF first = NoAnswer THEN FilePatch ELSE first
  /\ over' = entry
  /\ UNCHANGED <<fromFiles, toFiles, renames, question>>

\* Both versions are downloaded, compared and written, or the write is dropped.
AsksCold ==
  /\ ~entry.there
  /\ Answers
  /\ downloads' = 1
  /\ entry' \in Written \cup {NoEntry}

\* Nothing is downloaded but for a file the entry has no patch for.
AsksWarm ==
  /\ entry.there
  /\ Answers
  /\ downloads' = IF TreeRefuses \/ Stored # {} THEN 0 ELSE 1
  /\ UNCHANGED entry

\* The sweep takes the entry, or one blob of it before the other.
Evict ==
  /\ entry.there
  /\ entry' \in {NoEntry, WithoutItsPatches}
  /\ UNCHANGED <<fromFiles, toFiles, renames, question, answer, first, over, downloads>>

ComparingNext == AsksCold \/ AsksWarm \/ Evict

ComparingSpec == ComparingInit /\ [][ComparingNext]_comparingVars

------------------------------------------------------------------------------
(***************************************************************************)
(* Properties.                                                             *)
(***************************************************************************)
Answered == answer # NoAnswer

\* A warm call and a cold one give the same answer, whatever the entry holds.
SameAnswer == answer = first

\* What is served is one patch, of the file asked about, from where it was asked about.
RightFile ==
  Answered /\ ~answer.refused => answer.patches = {PatchOf(question.path, FromPath)}

\* A directory with no file beside it is refused, in whichever version it is.
DirectoriesAreRefused ==
  Answered /\ IsDirectory({KindAt(e[1], e[2]) : e \in Ends}) => answer.refused

\* The right file's patch, and no patch for a directory.
AnswersWhatIsThere == RightFile /\ DirectoriesAreRefused

\* What a tree lists as changed is served from a whole entry without a download.
WarmDownloadsNothing ==
  /\ over.there
  /\ ~over.omitted
  /\ \E n \in Changed : n.path = question.path /\ (question.resource \/ n.old = question.old)
  => downloads = 0

\* A path is refused only when no file is at it in either version (architecture.md).
FilesAreServed ==
  answer.refused /\ FromPath = question.path =>
    ~IsFile(toFiles, question.path) /\ ~IsFile(fromFiles, question.path)
==============================================================================
