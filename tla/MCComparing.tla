----------------------------- MODULE MCComparing -----------------------------
(***************************************************************************)
(* Comparing for TLC: a path that can be a file or a directory with one    *)
(* file in it, and another beside it.                                      *)
(***************************************************************************)
EXTENDS Comparing, TLC

CONSTANTS a, inA, b, t, u

MCAbove == (a :> {}) @@ (inA :> {a}) @@ (b :> {})
==============================================================================
