\* Three requirements, a cycle of three states, six turns.
SPECIFICATION Spec
CONSTANTS
  r1 = r1
  r2 = r2
  r3 = r3
  e1 = e1
  e2 = e2
  e3 = e3
  Requirements = {r1, r2, r3}
  MaxPeriod = 3
  Precision = 13
  States <- ThirdsStates
  Batches <- OneAction
  None = None
  MaxTurns = 6
  MaxCheckpoints = 7
INVARIANTS
  CyclesAreFound
CHECK_DEADLOCK FALSE
