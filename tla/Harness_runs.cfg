\* Two callers of run(), two of shutdown(), follow-ups and steering at their limits.
SPECIFICATION Spec
CONSTANTS
  Callers = {r1, r2}
  Closers = {s1, s2}
  Worker = worker
  FollowUps = {f1}
  Inputs = {i1, i2}
  Impatient = {r1, r2, s1, s2}
  None = None
  Resources = 2
  SteeringCapacity = 1
  FollowUpCapacity = 1
INVARIANTS
  ResourcesOutliveTheirUsers
  RunsAreSerial
  SteeringBelongsToItsRun
SYMMETRY Symmetry
CHECK_DEADLOCK FALSE
