----------------------------- MODULE MCDownload -----------------------------
(***************************************************************************)
(* Instances of Download: searches for documents that are remembered, and  *)
(* archives, over a few slots.                                             *)
(***************************************************************************)
EXTENDS Download, TLC

CONSTANTS s1, s2, s3, a1, a2, pypi, other

TaskSymmetry == Permutations(Searches) \cup Permutations(Archives)
==============================================================================
