---------------------------- MODULE MCTrajectory ----------------------------
(* Environments for Trajectory. *)
EXTENDS Trajectory

CONSTANTS r1, r2, r3, e1, e2, e3

Found(met, constraint, refs) ==
  [met |-> met, constraint |-> constraint, refs |-> refs, complete |-> TRUE]

Unreadable == [met |-> {}, constraint |-> "unknown", refs |-> {}, complete |-> FALSE]

(* progress, everything at the price of the constraint, success, and an
   evaluation without evidence *)
MixedStates ==
  {Found({r1}, "pass", {e1}), Found({r1, r2}, "fail", {e1, e2}),
   Found({r1, r2}, "pass", {e2, e3}), Unreadable}

(* none, one and all of three requirements *)
ThirdsStates ==
  {Found({}, "pass", {e1}), Found({r1}, "pass", {e2}), Found({r1, r2, r3}, "pass", {e3})}

Batch(path, attributed) == [path |-> path, attributed |-> attributed]

OneAction == {Batch(<<"a">>, TRUE)}
TwoActions == {Batch(<<"a">>, TRUE), Batch(<<"b">>, TRUE), Batch(<<"a">>, FALSE)}
=============================================================================
