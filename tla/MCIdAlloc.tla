------------------------------- MODULE MCIdAlloc -------------------------------
(***************************************************************************)
(* An instance of IdAlloc for TLC: three overlapping calls on the middle   *)
(* one of three ranges, on a small, a matching and a too large graph.      *)
(***************************************************************************)
EXTENDS IdAlloc, TLC

CallerSymmetry == Permutations(Callers)

=============================================================================
