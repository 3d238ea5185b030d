---------------------------- MODULE MCEvaluation ----------------------------
(* Plans for Evaluation. *)
EXTENDS Evaluation, TLC

CONSTANTS a, b, rule, guarded

(* a rule over two sources, and a guarded question to the judge about the
   final text and one of the sources, asked at completion only *)
MixedPlan == (rule :> {a, b}) @@ (guarded :> {a, Completion})

(* one rule over two files *)
FilesPlan == rule :> {a, b}

Symmetric == Permutations({a, b})
=============================================================================
