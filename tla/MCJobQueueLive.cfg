SPECIFICATION FairSpec
CONSTANTS
  Job = {a, b}
  ApiJob = {}
  NoJob = NoJob
  Client = {c1}
  Slot = {s1}
  MaxAttempts = 2
  MaxSubmits = 1
  MaxRetries = 0
  MaxCrashes = 1
CHECK_DEADLOCK FALSE
PROPERTY Settles
