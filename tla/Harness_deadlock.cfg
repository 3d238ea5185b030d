SPECIFICATION FairSpec
CONSTANTS
  Callers = {r1, r2}
  Closers = {s1}
  Worker = worker
  FollowUps = {f1}
  Inputs = {}
  Impatient = {}
  None = None
  Resources = 1
  SteeringCapacity = 1
  FollowUpCapacity = 2
PROPERTY CallsEnd
CHECK_DEADLOCK FALSE
