----------------------------- MODULE MCDiffStore -----------------------------
(***************************************************************************)
(* Instances of DiffStore.  A byte is 4 MiB: the entry cap is 2, and where *)
(* the budget matters the gap between its two numbers is two entries, as   *)
(* CACHE_MAX_BYTES and CACHE_TARGET_BYTES leave it.                        *)
(***************************************************************************)
EXTENDS DiffStore, TLC

CONSTANTS c1, c2, k1, k2, k3, k4, i1, i2, i3, i4

\* One diff_id per key; two keys that differ past the fourth decimal; and
\* two such keys beside one of another diff_id.
OwnIds    == (k1 :> i1) @@ (k2 :> i2) @@ (k3 :> i3) @@ (k4 :> i4)
MCDiffId  == [k \in Keys |-> OwnIds[k]]
SharedId  == [k \in Keys |-> i1]
TwoShare  == [k \in Keys |-> IF k = k3 THEN i2 ELSE i1]

\* Entries of two blobs that fit under the cap; and k1's too big for it, so
\* that it is written as a meta.json alone.
Ones      == [k \in Keys |-> 1]
BigFirst  == [k \in Keys |-> IF k = k1 THEN 2 ELSE 1]
FirstOnly == {k1}
Nobody    == {}

CallSymmetry == Permutations(Calls)
==============================================================================
