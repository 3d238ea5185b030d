---------------------------- MODULE MCJsonlStore ----------------------------
(* Instances of JsonlStore: a few processes and run ids.  The run ids bound
   the file, for no id is recorded twice. *)
EXTENDS JsonlStore, TLC

Symmetry == Permutations(Writers) \cup Permutations(RunIds) \cup Permutations(Seeds)
=============================================================================
