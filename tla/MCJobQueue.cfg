SPECIFICATION Spec
CONSTANTS
  Job = {a}
  ApiJob = {a}
  NoJob = NoJob
  Client = {c1}
  Slot = {s1, s2}
  MaxAttempts = 2
  MaxSubmits = 1
  MaxRetries = 1
  MaxCrashes = 2
CHECK_DEADLOCK FALSE
SYMMETRY Symmetry
INVARIANT TypeOK
INVARIANT OneFilePerJob
INVARIANT UploadsBounded
INVARIANT ReceiptIsFinal
 
