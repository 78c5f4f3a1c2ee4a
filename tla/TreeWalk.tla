------------------------------- MODULE TreeWalk -------------------------------
(***************************************************************************)
(* A comparison's tree as the tools read it: get_diff_tree, which lists a  *)
(* directory of it (node_at, flatten), and diff_package_versions, which    *)
(* sums it up (walk, totals, most_changed).  A path is the sequence of its *)
(* names, the root's is empty, and names are numbers in their order.       *)
(***************************************************************************)
EXTENDS Naturals, Sequences, FiniteSets, FiniteSetsExt, SequencesExt, Orders

CONSTANTS
  Entries,     \* what build_diff_tree builds, and all there is in it
  Trees,       \* the roots of these
  Depths,      \* the depths a client asks for
  AllTheWay,   \* no depth asked for: deeper than any tree
  MostChanged  \* MOST_CHANGED

Statuses == {"added", "removed", "modified", "renamed", "unchanged"}

ASSUME DepthsAssumption ==
  /\ AllTheWay \in Nat \ {0} /\ Depths \subseteq 0..AllTheWay
  /\ MostChanged \in Nat

\* DiffFileEntry: what is in a directory is one name below it, and no name is there twice,
\* but as a file and as a directory.
IsEntry(entry) ==
  /\ entry.path \in Seq(Nat) /\ Len(entry.path) <= AllTheWay
  /\ entry.type \in {"file", "directory"} /\ entry.status \in Statuses /\ entry.lines \in Nat
  /\ entry.children \in Seq(Entries)
  /\ entry.type = "file" => entry.children = <<>>
  /\ \A i \in DOMAIN entry.children :
       /\ Len(entry.children[i].path) = Len(entry.path) + 1
       /\ IsPrefix(entry.path, entry.children[i].path)
  /\ \A i, j \in DOMAIN entry.children :
       entry.children[i].path = entry.children[j].path /\ entry.children[i].type = entry.children[j].type
         => i = j

ASSUME EntriesAssumption == \A entry \in Entries : IsEntry(entry)
ASSUME TreesAssumption ==
  \A tree \in Trees : tree \in Entries /\ tree.path = <<>> /\ tree.type = "directory"

\* Node::of: what a listing says of an entry of the tree.
NodeOf(entry) ==
  [path |-> entry.path, type |-> entry.type, status |-> entry.status, lines |-> entry.lines]

------------------------------------------------------------------------------
(***************************************************************************)
(* get_diff_tree.                                                          *)
(***************************************************************************)
NodeIfWanted(entry, wanted) ==
  IF wanted = {} \/ entry.status \in wanted THEN <<NodeOf(entry)>> ELSE <<>>

Flatten(parent, left, wanted) ==
  LET nodes[n \in Nat] ==
        [entry \in Entries |->
           IF n = 0 THEN <<>>
           ELSE FlattenSeq([i \in DOMAIN entry.children |->
                  NodeIfWanted(entry.children[i], wanted) \o nodes[n - 1][entry.children[i]]])]
  IN  nodes[left][parent]

\* Mutant: a path is looked for without asking what is at it.
LeadsToAny(child, path, kind) ==
  child.path = path \/ (child.type = "directory" /\ IsStrictPrefix(child.path, path))

\* leads_to: a path can be two nodes, and only a directory has others inside.
LeadsTo(child, path, kind) ==
  IF child.path = path THEN child.type = kind
  ELSE child.type = "directory" /\ IsStrictPrefix(child.path, path)

Leading(entry, path, kind) == {i \in DOMAIN entry.children : LeadsTo(entry.children[i], path, kind)}

\* node_at: the entry of this kind at this path, if there is one.
NodeAt(root, path, kind) ==
  LET at[entry \in Entries] ==
        IF entry.path = path THEN {found \in {entry} : found.type = kind}
        ELSE IF Leading(entry, path, kind) = {} THEN {}
        ELSE at[entry.children[Min(Leading(entry, path, kind))]]
  IN  at[root]

\* GetDiffTree::call, before its answer is cut into pages.
Listing(tree, path, depth, wanted) ==
  LET rooted == NodeAt(tree, path, "directory")
  IN  IF rooted = {} THEN <<>>
      ELSE Flatten(CHOOSE entry \in rooted : TRUE, Max({depth, 1}), wanted)

------------------------------------------------------------------------------
(***************************************************************************)
(* diff_package_versions.                                                  *)
(***************************************************************************)
\* walk: every file, once, and nothing of a directory but what is in it.
Files[node \in Entries] ==
  IF node.type = "file" THEN <<NodeOf(node)>>
  ELSE FlattenSeq([i \in DOMAIN node.children |-> Files[node.children[i]]])

\* Totals::count, file by file.
CountedIn(totals, file) ==
  [files |-> [totals.files EXCEPT ![file.status] = @ + 1], lines |-> totals.lines + file.lines]

Totals(tree) ==
  FoldLeft(CountedIn, [files |-> [status \in Statuses |-> 0], lines |-> 0], Files[tree])

\* churn, most first, then the path (here name by name).
PathBefore(p, q) ==
  \/ IsStrictPrefix(p, q)
  \/ \E i \in DOMAIN p \cap DOMAIN q : p[i] < q[i] /\ \A j \in 1..(i - 1) : p[j] = q[j]
ChangedMore(file, other) ==
  file.lines > other.lines \/ (file.lines = other.lines /\ PathBefore(file.path, other.path))

ChangedFiles(tree) == {file \in ToSet(Files[tree]) : file.status # "unchanged"}

Foremost(files) == SubSeq(files, 1, Min({Len(files), MostChanged}))

Sample(tree) == Foremost(Arranged(ChangedFiles(tree), ChangedMore))

------------------------------------------------------------------------------
(***************************************************************************)
(* What is promised of both.                                               *)
(***************************************************************************)
AllNodes(tree) == Flatten(tree, AllTheWay, {})

PathsIn(tree) == {<<>>} \cup {node.path : node \in ToSet(AllNodes(tree))}

\* The paths a client may ask for: with something at them, and with nothing.
AskedPaths(tree) == PathsIn(tree) \cup {Append(path, 1) : path \in PathsIn(tree)}

\* What a client asks for less of: the rows of the whole answer that it asks for.
AskedFor(node, path, depth, wanted) ==
  /\ IsStrictPrefix(path, node.path)
  /\ Len(node.path) <= Len(path) + depth
  /\ wanted = {} \/ node.status \in wanted

RowsOf(all, path, depth, wanted) ==
  Picked(all, {i \in DOMAIN all : AskedFor(all[i], path, depth, wanted)})

Narrows(tree) ==
  \A path \in AskedPaths(tree), depth \in Depths \cup {AllTheWay} :
    \A wanted \in {{}, {"unchanged"}, {"added", "removed"}, Statuses \ {"unchanged"}} :
      Listing(tree, path, depth, wanted) = RowsOf(AllNodes(tree), path, Max({depth, 1}), wanted)

\* The files of the whole answer.
FileRows(all) == Picked(all, {i \in DOMAIN all : all[i].type = "file"})

AddsUp(tree) ==
  LET rows    == FileRows(AllNodes(tree))
      sample  == Sample(tree)
      changed == {row \in ToSet(rows) : row.status # "unchanged"}
  IN  /\ \A status \in Statuses :
           Totals(tree).files[status] = Cardinality({i \in DOMAIN rows : rows[i].status = status})
      /\ Totals(tree).lines = Cardinality(UNION {{i} \X (1..rows[i].lines) : i \in DOMAIN rows})
      /\ Len(sample) = Min({MostChanged, Cardinality(changed)})
      /\ ToSet(sample) \subseteq changed
      /\ \A i, j \in 1..Len(sample) : i < j => sample[i].lines >= sample[j].lines
      /\ \A row \in changed \ ToSet(sample), listed \in ToSet(sample) : row.lines <= listed.lines
==============================================================================
