----------------------------- MODULE MCHarness -----------------------------
(* Model values for Harness. *)
EXTENDS Harness, TLC

(* the tasks and inputs of a kind are interchangeable *)
Symmetry ==
  Permutations(Callers) \cup Permutations(Closers)
    \cup Permutations(FollowUps) \cup Permutations(Inputs)
=============================================================================
