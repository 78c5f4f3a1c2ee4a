--------------------------- MODULE ComparingProofs ---------------------------
(***************************************************************************)
(* Whatever the entry of a comparison holds, one file's diff is the same   *)
(* answer: for every pair of versions, every pairing of renames, every     *)
(* question and every entry.                                               *)
(*                                                                         *)
(* The step from an entry to the files rests on the engine's tree having   *)
(* one file node to a path: the patch that is held was rendered from the   *)
(* very paths that are asked about, and one of the two is a file.          *)
(***************************************************************************)
EXTENDS Comparing, TLAPS

\* The answer without an entry.
Reference == IF TreeRefuses THEN Refusal ELSE FromTheFiles

EntryType == [there : BOOLEAN, held : SUBSET Paths, omitted : BOOLEAN]

IInv ==
  /\ fromFiles \in [Paths -> Things]
  /\ toFiles \in [Paths -> Things]
  /\ renames \in Pairings
  /\ question \in Questions
  /\ entry \in EntryType
  /\ entry.held \subseteq DOMAIN Rendered
  /\ answer \in {NoAnswer, Reference}
  /\ first = answer

\* One comparison is one pair of versions, one pairing and one question.
Same == UNCHANGED <<fromFiles, toFiles, renames, question>>

------------------------------------------------------------------------------
LEMMA SameFiles ==
  ASSUME Same
  PROVE  /\ Gone' = Gone
         /\ Came' = Came
         /\ Pairings' = Pairings
         /\ FileNodes' = FileNodes
         /\ DirectoryNodes' = DirectoryNodes
  <1>1. Gone' = Gone /\ Came' = Came
    BY DEF Same, Gone, Came, IsFile
  <1>2. Pairings' = Pairings
    BY <1>1 DEF Pairings
  <1>3. FileNodes' = FileNodes
    BY <1>1 DEF Same, FileNodes, IsFile, Node
  <1>4. DirectoryNodes' = DirectoryNodes
    BY <1>3 DEF Same, DirectoryNodes, Emptied, Under, Node, Directory
  <1> QED
    BY <1>1, <1>2, <1>3, <1>4

LEMMA SameAnswers ==
  ASSUME Same
  PROVE  Reference' = Reference /\ Rendered' = Rendered
  <1>1. Tree' = Tree
    BY SameFiles DEF Tree
  <1>2. \A p, type : NodesAt(p, type)' = NodesAt(p, type)
    BY <1>1 DEF NodesAt
  <1>3. OldPath' = OldPath /\ FromPath' = FromPath
    BY <1>2 DEF Same, OldPath, FromPath, MovedFrom
  <1>4. TreeRefuses' = TreeRefuses
    BY <1>2, <1>3 DEF Same, TreeRefuses, IsDirectory, KindInTree, AbsentAt, Ends
  <1>5. FromTheFiles' = FromTheFiles
    BY <1>3 DEF Same, FromTheFiles, FilesRefuse, IsDirectory, KindAt, Ends, PatchOf, Served, Refusal
  <1>6. Rendered' = Rendered
    BY SameFiles DEF Same, Rendered, Changed, PatchOf
  <1> QED
    BY <1>4, <1>5, <1>6 DEF Reference, Refusal

------------------------------------------------------------------------------
\* The tree has one file node to a path.
LEMMA OneFileNode ==
  ASSUME renames \in Pairings, NEW m \in FileNodes, NEW n \in FileNodes, m.path = n.path
  PROVE  m = n
  <1>1. \A x, y \in renames : (x[1] = y[1] \/ x[2] = y[2]) => x = y
    BY DEF Pairings
  <1>2. \A x \in renames : x \in Gone \X Came
    BY DEF Pairings
  <1>3. Gone \cap Came = {}
    BY DEF Gone, Came
  <1> QED
    BY <1>1, <1>2, <1>3 DEF FileNodes, Node, Gone, Came

\* A file that changed is a file where it is, or where it was: it is never refused.
LEMMA ChangedIsAFile ==
  ASSUME renames \in Pairings, NEW n \in FileNodes
  PROVE  /\ n.type = "file"
         /\ n.path \in Paths
         /\ IsFile(toFiles, n.path) \/ (IsFile(fromFiles, n.path) /\ n.old = NoPath)
  <1>1. \A x \in renames : x \in Gone \X Came
    BY DEF Pairings
  <1> QED
    BY <1>1 DEF FileNodes, Node, Gone, Came

\* The patch an entry holds for the file asked about is the one its files render.
LEMMA HeldIsRight ==
  ASSUME IInv, Stored # {}
  PROVE  Served(Stored) = FromTheFiles
  <1> DEFINE q == question.path
  <1>1. PICK n \in NodesAt(q, "file") : n.old = OldPath /\ q \in entry.held
    BY DEF Stored
  <1>2. n \in FileNodes /\ n.path = q
    BY <1>1 DEF NodesAt, Tree, DirectoryNodes, Node
  <1>3. renames \in Pairings /\ q \in DOMAIN Rendered
    BY <1>1 DEF IInv
  <1>4. Rendered[q] = PatchOf(q, FromPath)
    <2>1. q \in {m.path : m \in Changed}
      BY <1>3 DEF Rendered
    <2>2. (CHOOSE m \in Changed : m.path = q) = n
      <3>1. \E m \in Changed : m.path = q
        BY <2>1
      <3>2. \A m \in Changed : m.path = q => m = n
        BY <1>2, <1>3, OneFileNode DEF Changed
      <3> QED
        BY <3>1, <3>2
    <2>3. Rendered[q] = PatchOf(q, IF n.old = NoPath THEN q ELSE n.old)
      BY <2>1, <2>2 DEF Rendered
    <2> QED
      BY <1>1, <2>3 DEF FromPath
  <1>5. Stored = {PatchOf(q, FromPath)}
    BY <1>1, <1>4 DEF Stored
  <1>6. ~FilesRefuse
    <2>1. IsFile(toFiles, q) \/ (IsFile(fromFiles, q) /\ FromPath = q)
      BY <1>1, <1>2, <1>3, ChangedIsAFile DEF FromPath
    <2> QED
      BY <2>1 DEF FilesRefuse, IsDirectory, Ends, KindAt, IsFile
  <1> QED
    BY <1>5, <1>6 DEF FromTheFiles

\* Whatever is stored, the answer is the answer without it.
LEMMA AlwaysTheReference ==
  ASSUME IInv
  PROVE  FilePatch = Reference
  BY HeldIsRight DEF FilePatch, Reference

LEMMA Preserved == IInv /\ [ComparingNext]_comparingVars => IInv'
  <1> SUFFICES ASSUME IInv, [ComparingNext]_comparingVars
               PROVE  IInv'
    OBVIOUS
  <1>1. Same
    BY DEF ComparingNext, AsksCold, AsksWarm, Evict, Answers, Same, comparingVars
  <1>2. Reference' = Reference /\ DOMAIN Rendered' = DOMAIN Rendered /\ Pairings' = Pairings
    BY <1>1, SameAnswers, SameFiles
  <1>3. /\ fromFiles' \in [Paths -> Things]
        /\ toFiles' \in [Paths -> Things]
        /\ renames' \in Pairings'
        /\ question' \in Questions
    BY <1>1, <1>2 DEF IInv, Same
  <1>4. entry' \in EntryType /\ entry'.held \subseteq DOMAIN Rendered
    <2>1. DOMAIN Rendered \subseteq Paths
      BY ChangedIsAFile DEF IInv, Rendered, Changed
    <2>2. \A e \in Written \cup {NoEntry} : e \in EntryType /\ e.held \subseteq DOMAIN Rendered
      <3> DEFINE D == DOMAIN Rendered
      <3>1. \A kept \in SUBSET D : (kept # D) \in BOOLEAN /\ kept \in SUBSET Paths
        BY <2>1, Zenon
      <3> HIDE DEF D
      <3> DEFINE Kept(kept, omitted) == [there |-> TRUE, held |-> kept, omitted |-> omitted]
      <3>1a. \A kept \in SUBSET D, omitted \in BOOLEAN :
              Kept(kept, omitted) \in EntryType /\ Kept(kept, omitted).held \subseteq D
        BY <3>1 DEF EntryType
      <3>2. \A kept \in SUBSET D :
              Kept(kept, kept # D) \in EntryType /\ Kept(kept, kept # D).held \subseteq D
        <4> SUFFICES ASSUME NEW kept \in SUBSET D
                     PROVE  Kept(kept, kept # D) \in EntryType /\ Kept(kept, kept # D).held \subseteq D
          OBVIOUS
        <4> DEFINE omitted == kept # D
        <4>1. omitted \in BOOLEAN
          BY <3>1, Zenon
        <4> HIDE DEF Kept, omitted
        <4>2. Kept(kept, omitted) \in EntryType /\ Kept(kept, omitted).held \subseteq D
          BY <4>1, <3>1a
        <4> QED
          BY <4>2 DEF omitted
      <3>3. /\ [there |-> TRUE, held |-> {}, omitted |-> TRUE] \in EntryType
            /\ NoEntry \in EntryType
            /\ [there |-> TRUE, held |-> {}, omitted |-> TRUE].held \subseteq D
            /\ NoEntry.held \subseteq D
        BY DEF NoEntry, EntryType
      <3>4. Written = {Kept(kept, kept # D) : kept \in SUBSET D}
                      \cup {[there |-> TRUE, held |-> {}, omitted |-> TRUE]}
        BY Zenon DEF Written, D
      <3>5. \A e \in Written \cup {NoEntry} : e \in EntryType /\ e.held \subseteq D
        <4> HIDE DEF Kept
        <4> QED
          BY <3>2, <3>3, <3>4, Zenon
      <3> QED
        BY <3>5 DEF D
    <2>3. WithoutItsPatches \in EntryType /\ WithoutItsPatches.held \subseteq DOMAIN Rendered
      BY DEF IInv, WithoutItsPatches, NoEntry, EntryType
    <2>4. CASE entry' = entry
      BY <2>4 DEF IInv
    <2>5. CASE entry' \in Written \cup {NoEntry}
      BY <2>2, <2>5
    <2>6. CASE entry' \in {NoEntry, WithoutItsPatches}
      BY <2>2, <2>3, <2>6
    <2> QED
      BY <2>4, <2>5, <2>6 DEF ComparingNext, AsksCold, AsksWarm, Evict, comparingVars
  <1>5. answer' \in {NoAnswer, Reference} /\ first' = answer'
    <2>1. CASE Answers
      BY <2>1, AlwaysTheReference DEF IInv, Answers
    <2>2. CASE UNCHANGED <<answer, first>>
      BY <2>2 DEF IInv
    <2> QED
      BY <2>1, <2>2 DEF ComparingNext, AsksCold, AsksWarm, Evict, comparingVars
  <1> QED
    BY <1>2, <1>3, <1>4, <1>5 DEF IInv

------------------------------------------------------------------------------
\* Every reachable state satisfies the inductive invariant: what is held was
\* rendered from these versions, and what was answered is the answer without it.
THEOREM Invariance == ComparingSpec => []IInv
  <1>1. ComparingInit => IInv
    BY DEF ComparingInit, IInv, FileMaps, NoEntry, EntryType
  <1> QED
    BY <1>1, Preserved, PTL DEF ComparingSpec

\* A warm call and a cold one give the same answer, for every entry there can be.
THEOREM WarmIsCold == ComparingSpec => []SameAnswer
  <1>1. IInv => SameAnswer
    BY DEF IInv, SameAnswer
  <1> QED
    BY <1>1, Invariance, PTL

\* What is served is the patch of the file asked about, from where it was asked about.
THEOREM ServesTheRightFile == ComparingSpec => []RightFile
  <1>1. IInv => RightFile
    BY DEF IInv, RightFile, Answered, Reference, FromTheFiles, Served, Refusal
  <1> QED
    BY <1>1, Invariance, PTL

\* A directory with no file beside it is refused, whatever the tree says of it.
THEOREM RefusesDirectories == ComparingSpec => []DirectoriesAreRefused
  <1>1. IInv => DirectoriesAreRefused
    BY DEF IInv, DirectoriesAreRefused, Answered, Reference, FromTheFiles, Refusal, FilesRefuse
  <1> QED
    BY <1>1, Invariance, PTL

\* Both: the right file's patch, and no patch for a directory.
THEOREM AnswersRightly == ComparingSpec => []AnswersWhatIsThere
  BY ServesTheRightFile, RefusesDirectories, PTL DEF AnswersWhatIsThere

------------------------------------------------------------------------------
(***************************************************************************)
(* A whole entry has the patch of every file that changed, and the tree    *)
(* leads to each of them.                                                  *)
(***************************************************************************)
Whole(e) == e.there /\ ~e.omitted => e.held = DOMAIN Rendered

WInv ==
  /\ renames \in Pairings
  /\ fromFiles \in FileMaps
  /\ toFiles \in FileMaps
  /\ Whole(entry)
  /\ WarmDownloadsNothing

\* Every directory above a file of either version is in the tree: one that a
\* rename left empty has nothing under it.
LEMMA FilesAreReached ==
  ASSUME renames \in Pairings, fromFiles \in FileMaps, toFiles \in FileMaps, NEW n \in FileNodes
  PROVE  n \in NodesAt(n.path, "file")
  <1>1. n.type = "file" /\ n.path \in Paths /\ (IsFile(toFiles, n.path) \/ IsFile(fromFiles, n.path))
    BY ChangedIsAFile
  <1>2. ASSUME NEW d \in Above[n.path]
        PROVE  \E a \in Tree : a.path = d /\ a.type = "directory"
    <2>1. d \in Paths
      BY <1>1, PathsAssumption
    <2>2. toFiles[d] = Directory \/ fromFiles[d] = Directory
      BY <1>1 DEF FileMaps, IsFile, Nothing
    <2>3. ~Emptied(d)
      BY DEF Emptied, Under
    <2>4. \E a \in DirectoryNodes : a.path = d /\ a.type = "directory"
      <3>1. CASE toFiles[d] = Directory /\ fromFiles[d] # Directory
        <4>1. Node(d, "directory", "added", NoPath) \in DirectoryNodes
          BY <2>1, <3>1 DEF DirectoryNodes
        <4> QED
          BY <4>1 DEF Node
      <3>2. CASE toFiles[d] # Directory /\ fromFiles[d] = Directory
        <4>1. Node(d, "directory", "removed", NoPath) \in DirectoryNodes
          BY <2>1, <2>3, <3>2 DEF DirectoryNodes
        <4> QED
          BY <4>1 DEF Node
      <3>3. CASE toFiles[d] = Directory /\ fromFiles[d] = Directory
        <4> DEFINE status == IF \E m \in Under(d) : m.status # "unchanged"
                             THEN "modified" ELSE "unchanged"
        <4>1. Node(d, "directory", status, NoPath) \in DirectoryNodes
          BY <2>1, <3>3 DEF DirectoryNodes
        <4> QED
          BY <4>1 DEF Node
      <3> QED
        BY <2>2, <3>1, <3>2, <3>3
    <2> QED
      BY <2>4 DEF Tree
  <1> QED
    BY <1>1, <1>2 DEF NodesAt, Tree

\* The resource asks for a file from where the tree says it was.
LEMMA AskedFromWhereItWas ==
  ASSUME renames \in Pairings, NEW n \in FileNodes, n \in NodesAt(n.path, "file"),
         n.path = question.path, question.resource \/ n.old = question.old
  PROVE  n.old = OldPath
  <1>1. \A m \in NodesAt(n.path, "file") : m = n
    <2>1. \A m \in NodesAt(n.path, "file") : m \in FileNodes /\ m.path = n.path
      BY DEF NodesAt, Tree, DirectoryNodes, Node
    <2> QED
      BY <2>1, OneFileNode
  <1>2. MovedFrom(n.path) = n.old
    BY <1>1 DEF MovedFrom
  <1> QED
    BY <1>2 DEF OldPath

\* A whole entry answers for every file that its tree lists as changed.
LEMMA WholeAnswers ==
  ASSUME WInv, entry.there, ~entry.omitted, NEW n \in Changed,
         n.path = question.path, question.resource \/ n.old = question.old
  PROVE  Stored # {}
  <1>1. n \in FileNodes /\ n \in NodesAt(question.path, "file")
    BY FilesAreReached DEF WInv, Changed
  <1>2. n.old = OldPath
    BY <1>1, AskedFromWhereItWas DEF WInv
  <1>3. question.path \in entry.held
    <2>1. question.path \in {m.path : m \in Changed}
      OBVIOUS
    <2> QED
      BY <2>1 DEF WInv, Whole, Rendered
  <1>4. Rendered[question.path] \in Stored
    BY <1>1, <1>2, <1>3 DEF Stored
  <1> QED
    BY <1>4

LEMMA WholePreserved == WInv /\ [ComparingNext]_comparingVars => WInv'
  <1> SUFFICES ASSUME WInv, [ComparingNext]_comparingVars
               PROVE  WInv'
    OBVIOUS
  <1>1. Same
    BY DEF ComparingNext, AsksCold, AsksWarm, Evict, Answers, Same, comparingVars
  <1>2. Rendered' = Rendered /\ Pairings' = Pairings /\ Changed' = Changed
    BY <1>1, SameAnswers, SameFiles DEF Changed
  <1>3. renames' \in Pairings' /\ fromFiles' \in FileMaps' /\ toFiles' \in FileMaps'
    BY <1>1, <1>2 DEF WInv, Same, FileMaps
  <1>4. Whole(entry')
    <2>1. \A e \in Written \cup {NoEntry} : Whole(e)
      <3> DEFINE D == DOMAIN Rendered
      <3>1. ASSUME NEW e \in Written
            PROVE  ~e.omitted => e.held = D
        <4>1. CASE e = [there |-> TRUE, held |-> {}, omitted |-> TRUE]
          BY <4>1
        <4>2. ASSUME NEW kept \in SUBSET D,
                     e = [there |-> TRUE, held |-> kept, omitted |-> kept # D]
              PROVE  ~e.omitted => e.held = D
          <5> HIDE DEF D
          <5>1. e.omitted = (kept # D) /\ e.held = kept
            BY <4>2, Zenon
          <5> QED
            BY <5>1, Zenon
        <4> QED
          BY <4>1, <4>2, Zenon DEF Written, D
      <3> QED
        BY <3>1 DEF Whole, NoEntry
    <2>2. Whole(WithoutItsPatches)
      BY DEF Whole, WithoutItsPatches, NoEntry
    <2>3. CASE entry' = entry
      BY <2>3 DEF WInv
    <2>4. CASE entry' \in Written \cup {NoEntry}
      BY <2>1, <2>4
    <2>5. CASE entry' \in {NoEntry, WithoutItsPatches}
      BY <2>1, <2>2, <2>5
    <2> QED
      BY <2>3, <2>4, <2>5 DEF ComparingNext, AsksCold, AsksWarm, Evict, comparingVars
  <1>5. WarmDownloadsNothing'
    <2>1. CASE AsksCold
      BY <2>1 DEF AsksCold, Answers, WarmDownloadsNothing
    <2>2. CASE AsksWarm
      <3> SUFFICES ASSUME over'.there, ~over'.omitted,
                          NEW n \in Changed, n.path = question.path,
                          question.resource \/ n.old = question.old
                   PROVE  downloads' = 0
        BY <1>1, <1>2 DEF WarmDownloadsNothing, Same
      <3>1. over' = entry
        BY <2>2 DEF AsksWarm, Answers
      <3>2. Stored # {}
        BY <3>1, WholeAnswers
      <3> QED
        BY <2>2, <3>2 DEF AsksWarm
    <2>3. CASE UNCHANGED <<over, downloads>>
      BY <1>1, <1>2, <2>3 DEF WInv, WarmDownloadsNothing, Same
    <2> QED
      BY <2>1, <2>2, <2>3 DEF ComparingNext, Evict, comparingVars
  <1>6. Whole(entry)'
    BY <1>2, <1>4 DEF Whole
  <1> QED
    BY <1>3, <1>5, <1>6 DEF WInv

\* What a tree lists as changed is served from a whole entry without a download,
\* for every pair of versions and every pairing of renames.
THEOREM WholeEntryDownloadsNothing == ComparingSpec => []WarmDownloadsNothing
  <1>1. ComparingInit => WInv
    BY DEF ComparingInit, WInv, Whole, NoEntry, WarmDownloadsNothing
  <1>2. WInv => WarmDownloadsNothing
    BY DEF WInv
  <1> QED
    BY <1>1, <1>2, WholePreserved, PTL DEF ComparingSpec
==============================================================================
