SPECIFICATION Spec
CONSTANTS
  MaxPasswords = 2
  MaxRetries = 1
  MaxCrashes = 1
  MaxLeaves = 2
CHECK_DEADLOCK FALSE
INVARIANTS
  RequestsEmitTheirOwn
