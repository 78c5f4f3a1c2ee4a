-------------------------------- MODULE Shown --------------------------------
(***************************************************************************)
(* What a client is shown: the pages of a list it walks (Pages), or the    *)
(* answer to one question: about a file's diff (Excerpts), a comparison's  *)
(* tree (TreeWalk), a package's versions (Listings), a search (Hits), a    *)
(* handle (Handles) or a resource's address (Links).                       *)
(***************************************************************************)
EXTENDS Pages, Excerpts, TreeWalk, Listings, Hits, Handles, Links

CONSTANTS
  Walk,         \* a client that walks a list, and asks nothing else
  Questions,    \* what a client asks that is no list
  WantsInTurn   \* the limits of a walk through a search's hits, page by page

ASSUME QuestionsAssumption ==
  /\ \A asked \in Questions :
       /\ asked.about = "excerpt" =>
            asked.patch \in Patches /\ asked.context \in Contexts \cup {Full}
       /\ asked.about = "tree" => asked.tree \in Trees
       /\ asked.about = "versions" => IsRead(asked.registry, asked.listed, asked.latest)
       /\ asked.about = "search" => IsSource(asked.source) /\ asked.query \in Seq(Nat)
       /\ asked.about = "handle" => asked.inputs \in Inputs
       /\ asked.about = "link" => asked.path \in Seq(PathChars) \ {<<>>}
  /\ WantsInTurn \subseteq Seq(Wants)

VARIABLE question  \* Walk, or what a client asks that is no list

\* No walk: nothing to list, and the last page answered.
AtRest ==
  /\ list = <<>> /\ first = <<>> /\ seen = <<>>
  /\ limit = NoLimit
  /\ cursor = 0
  /\ ended = TRUE
  /\ added = {} /\ removed = {}

ShownInit == \/ question = Walk /\ Init
             \/ question \in Questions /\ AtRest

ShownSpec == /\ ShownInit
             /\ [][Next /\ UNCHANGED question]_<<vars, question>>
             /\ WF_vars(AnswersTheClient)

Asking(about) == question # Walk /\ question.about = about
Answer(max) == Presented(question.patch, [context |-> question.context, max |-> max])

\* get_file_diff's trim: a patch with less context still turns one file into the other,
\* in as few hunks as there are runs of changes with their context.
PatchApplies ==
  Asking("excerpt") =>
    /\ Applies(question.patch, question.context)
    /\ question.context # Full => AreRuns(question.patch.body, question.context)

\* truncate: whatever the client asks for, the answer fits one payload, and a client that
\* asks for more reads on from what it has and is never shown less or something else; what
\* it was told there is, is what there is.
FitsAndGoesOn ==
  Asking("excerpt") =>
    \A max \in MaxBytes :
      /\ Fits(Answer(max))
      /\ \A larger \in MaxBytes : max <= larger => GoesOn(Answer(larger), Answer(max))

\* get_diff_tree: less of a tree is the rows of all of it that were asked for, in the
\* same order, also where a path is a file and a directory; diff_package_versions: the
\* summary counts every file of the tree once and no directory, and no file it leaves out
\* of its sample changed more than one in it.
LessIsTrueOfTheWhole == Asking("tree") => Narrows(question.tree) /\ AddsUp(question.tree)

\* Catalogue::versions: every version the registry names is listed, in order, and a list
\* is answered though its pointer could not be read, and a pointer though nothing is listed.
VersionsAreTheRegistrys ==
  Asking("versions") =>
    /\ question.listed.state = "read" =>
         InOrder(question.registry, Named(question.registry, question.listed.document),
                 ReadVersions(question.registry, question.listed.document).all)
    /\ IsAnswered(question.registry, question.listed, question.latest)
    /\ IsCurrent(question.registry, question.listed, question.latest)

\* search_packages: whatever limit each page is asked with, a walk shows the best hits first
\* and passes none over; with one limit, it shows as many as that, or all there are.
NothingBetterIsPassedOver ==
  Asking("search") =>
    \A wants \in WantsInTurn :
      LET walk == WalkOf(question.source, question.query, wants)
      IN  /\ BestFirst(question.source, question.query, walk.seen)
          /\ Cardinality(ToSet(wants)) = 1 => GivesAll(question.source, question.query, walk, wants[1])

\* DiffHandle: a handle names the comparison it was minted for and no other, whoever edits
\* it and however its threshold comes back from JSON; where that is rounded otherwise than
\* the one it was minted for, it is refused.
HandlesNameOneComparison == Asking("handle") => NamesOneComparison(question.inputs)

\* Address: a link that was handed out leads to what it was handed out for.
LinksLeadToThemselves == Asking("link") => LeadsToItself(<<"handle">>, question.path)
==============================================================================
