\* A retry that is answered from a line nobody synced, then a power loss.
SPECIFICATION Spec
CONSTANTS
  Seeds = {s1}
  RunIds = {r1, r2}
  None = None
  Writers = {w1}
  NoWriter = NoWriter
  LockTimeout = TRUE
  MaxPowerLosses = 1
INVARIANTS
  ReplayedIsRecorded
