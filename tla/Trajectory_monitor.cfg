\* A Run of four turns: five Checkpoints and those of terminal claims.
SPECIFICATION Spec
CONSTANTS
  r1 = r1
  r2 = r2
  r3 = r3
  e1 = e1
  e2 = e2
  e3 = e3
  Requirements = {r1, r2}
  MaxPeriod = 2
  Precision = 13
  States <- MixedStates
  Batches <- TwoActions
  None = None
  MaxTurns = 4
  MaxCheckpoints = 5
INVARIANTS
  CyclesAreExact
  SuspectedFirst
  FeedbackIsCurrent
  RefusalIsExplained
  SignalsAreAccepted
CHECK_DEADLOCK FALSE
