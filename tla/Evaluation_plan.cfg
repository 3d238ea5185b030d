\* A file and another source, a rule over both, a guarded judge at completion.
SPECIFICATION Spec
CONSTANTS
  a = a
  b = b
  rule = rule
  guarded = guarded
  Sources = {a, b}
  Files = {a}
  Completion = Completion
  Criteria = {rule, guarded}
  Needs <- MixedPlan
  CompletionOnly = {guarded}
  Semantic = {guarded}
  Guarded = {guarded}
  Present = Present
  Absent = Absent
  None = None
  MaxVersion = 1
  MaxEvaluations = 2
INVARIANTS
  VerifiersSeeOneMoment
  VerdictsAreCurrent
  VerdictsFollowTheRules
  FactsAreRetracted
CHECK_DEADLOCK FALSE
