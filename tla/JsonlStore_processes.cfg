\* Two processes with their own initial messages, kills, partial writes,
\* failing syncs, cancelled callers.
SPECIFICATION Spec
CONSTANTS
  Seeds = {s1, s2}
  RunIds = {r1, r2}
  None = None
  Writers = {w1, w2}
  NoWriter = NoWriter
  LockTimeout = TRUE
  MaxPowerLosses = 0
SYMMETRY Symmetry
INVARIANTS
  AckedIsRecorded
  ViewsDoNotFork
PROPERTIES
  ImplementsPromise
