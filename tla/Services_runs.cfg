\* Each service a Run uses, one per behaviour.
SPECIFICATION MCSpec
CONSTANTS
  r1 = r1
  r2 = r2
  q1 = q1
  q2 = q2
  q3 = q3
  JudgeRuns = {r1, r2}
  Questions = {q1, q2, q3}
  RunOf <- Asked
  Nobody = Nobody
  MaxRequests = 2
  MaxTokens = 1
  MaxFormatRetries = 1
  MaxConcurrency = 1
  MaxReply = 2
  Capabilities = {c1, c2}
  Required = {c1}
  Constraints = {c1}
  Stranger = Stranger
  Undefined = Undefined
  PlannerRetries = 1
  PlannerTokens = 2
  MaxPlannerReply = 2
  MaxRevision = 3
  MaxCaptures = 3
  MaxCalls = 2
  Indexes = {0, 1}
  NoIndex = NoIndex
  Fragments <- SomeFragments
  MaxPlace = 1
  MaxPieces = 4
  MaxSegments = 3
  MaxAnswers = 2
  p1 = p1
  p2 = p2
  Paths <- TwoPaths
  Missing = Missing
  Unseen = Unseen
  MaxChanges = 2
  MaxInvalidations = 1
  MaxReads = 2
  s1 = s1
  s2 = s2
  Services <- TwoServices
  NoClient = NoClient
  MaxStarts = 3
  k1 = k1
  k2 = k2
  SkillOrder <- TwoSkills
  Absent = Absent
  MinimumMessages = 3
  MaxTexts = 1
  MaxRuns = 2
  MaxViews = 2
  MaxInputs = 1
  MaxPlans = 2
INVARIANTS
  OneRequestPerRun
  SpendingIsKnown
  PlansAreGrounded
  StreamsAreClosed
  AnswersAreWhole
  ResultsFollowTheirCalls
  ReadsAreConsistent
  ToolsMatchConnections
  ViewsTellTheRun
  SkillsAreStable
PROPERTIES
  QuestionsEnd
CHECK_DEADLOCK FALSE
