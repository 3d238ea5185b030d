\* Two files that are created and deleted while they are looked at.
SPECIFICATION Spec
CONSTANTS
  a = a
  b = b
  rule = rule
  guarded = guarded
  Sources = {a, b}
  Files = {a, b}
  Completion = Completion
  Criteria = {rule}
  Needs <- FilesPlan
  CompletionOnly = {}
  Semantic = {}
  Guarded = {}
  Present = Present
  Absent = Absent
  None = None
  MaxVersion = 4
  MaxEvaluations = 1
INVARIANTS
  ReportsShowOneMoment
SYMMETRY Symmetric
CHECK_DEADLOCK FALSE
