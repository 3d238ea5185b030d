\* Runs of two turns with two different calls, and of three turns under a token
\* limit, with one retry of a rejected claim.
SPECIFICATION MCSpec
CONSTANTS
  None = None
  Signatures = {a, b}
  Same = a
  Turns = 2
  MaxBatch = 2
  MaxUsage = 2
  MaxTurns = 3
  MaxRepeated = 3
  MaxRetries = 1
  TokenLimits = {None, 2}
INVARIANTS
  CompletedIsApproved
  DeltaIsWellFormed
  NoToolOutlivesTheRun
  RepeatedCallsDoNotExecute
  BudgetIsRespected
PROPERTIES
  CancelStopsWork
  RunEnds
CHECK_DEADLOCK FALSE
