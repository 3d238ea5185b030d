\* One more follow-up than the queue holds; everything that is called ends.
SPECIFICATION FairSpec
CONSTANTS
  Callers = {r1}
  Closers = {s1}
  Worker = worker
  FollowUps = {f1, f2, f3}
  Inputs = {}
  Impatient = {}
  None = None
  Resources = 1
  SteeringCapacity = 1
  FollowUpCapacity = 2
INVARIANTS
  OutstandingIsExact
  FollowUpsInOrder
PROPERTIES
  CallsEnd
  FollowUpsSettle
CHECK_DEADLOCK FALSE
