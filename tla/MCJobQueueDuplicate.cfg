SPECIFICATION Spec
CONSTANTS
  Job = {a}
  ApiJob = {a}
  NoJob = NoJob
  Client = {c1, c2}
  Slot = {s1}
  MaxAttempts = 2
  MaxSubmits = 2
  MaxRetries = 0
  MaxCrashes = 0
CHECK_DEADLOCK FALSE
INVARIANT OneFilePerJob
