SPECIFICATION Spec
CONSTANTS
  Job = {a}
  ApiJob = {a}
  NoJob = NoJob
  Client = {c1, c2}
  Slot = {s1, s2}
  MaxAttempts = 2
  MaxSubmits = 2
  MaxRetries = 0
  MaxCrashes = 1
CHECK_DEADLOCK FALSE
SYMMETRY Symmetry
INVARIANT AuditedBeforeVisible
INVARIANT CompletedHasReceipt
