------------------------------- MODULE Answers -------------------------------
(***************************************************************************)
(* What a call that wanted a comparison ends with.  A comparison is        *)
(* abstracted to the DiffKey it was worked out from: a tree, or a set of   *)
(* patches, "of k" is the one the engine builds for the inputs k names.    *)
(***************************************************************************)

CONSTANTS
  Keys,      \* DiffKeys: registry, package, versions, threshold, whitespace
  Ids,       \* diff_ids, the second segment of a blob's pathname
  DiffId,    \* the diff_id of each key: keys equal to four decimals share one
  Omitting   \* the keys whose entry says that a patch of it was left out

ASSUME KeysAssumption == Keys # {}
ASSUME DiffIdAssumption == DiffId \in [Keys -> Ids]
ASSUME OmittingAssumption == Omitting \subseteq Keys

(***************************************************************************)
(* "cached" and "fresh" are the two Comparisons compare() returns, "miss"  *)
(* is the 404 of the route that reads an entry by its diff_id, "failed"    *)
(* the Failure of a download or of the computation, "outOfTime" the        *)
(* Failure of a call past its deadline, and "gone" a call whose future was *)
(* dropped before it answered.                                             *)
(***************************************************************************)
Empty == {"miss", "failed", "outOfTime", "gone"}
Kinds == {"none", "cached", "fresh"} \cup Empty

Answer == [kind : Kinds, tree : SUBSET Keys, patches : SUBSET Keys]

NoAnswer        == [kind |-> "none", tree |-> {}, patches |-> {}]
Nothing(kind)   == [kind |-> kind, tree |-> {}, patches |-> {}]
FreshOf(k)      == [kind |-> "fresh", tree |-> {k}, patches |-> {}]
CachedOf(t, p)  == [kind |-> "cached", tree |-> t, patches |-> p]

(***************************************************************************)
(* A cached answer made of one entry: a tree with the patches of its       *)
(* diff_id, or the tree alone when its entry says patches are left out of  *)
(* it.  A diff_id is of one comparison to four decimals of the threshold,  *)
(* and the two blobs under it may have been worked out at two.             *)
(***************************************************************************)
Coherent(a) ==
  \E k \in Keys :
    /\ a.tree = {k}
    /\ \/ \E p \in Keys : DiffId[p] = DiffId[k] /\ a.patches = {p}
       \/ a.patches = {} /\ k \in Omitting
==============================================================================
