\* Two processes contend for the lock of one file; one power loss.
SPECIFICATION FairSpec
CONSTANTS
  Seeds = {s1}
  RunIds = {r1}
  None = None
  Writers = {w1, w2}
  NoWriter = NoWriter
  LockTimeout = TRUE
  MaxPowerLosses = 1
INVARIANTS
  AlwaysReadable
  WrittenIsRecorded
PROPERTIES
  CallsReturn
