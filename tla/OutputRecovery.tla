--------------------------- MODULE OutputRecovery ---------------------------
(* OutputRecovery (_structured_output.py), which the planner and the judge use
   to read one JSON object out of a model's text.  What crosses a decision is
   one bit, format_reminder; its diagnostic goes with the text it is about.    *)

(* what a text can be: the bare object, the object in a Markdown fence, or
   something that is no JSON or does not match the schema *)
Texts == {"object", "fenced", "malformed"}

(* the outcome parse() records for each; "invalid" for invalid_json and for
   the invalid_schema that a caller's own reject() records too *)
ParseOutcome ==
  [object |-> "valid", fenced |-> "recovered_markdown", malformed |-> "invalid"]

Accepted == {"valid", "recovered_markdown"}

(* format_reminder after an outcome: only a bare object clears it *)
Reminds(outcome) == outcome # "valid"
=============================================================================
