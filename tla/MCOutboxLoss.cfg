SPECIFICATION Spec
CONSTANTS
  report = report
  email = email
  Events = {1, 2, 3}
  Consumers = {report, email}
  Registry <- MCRegistry
  Relays = {r1, r2}
  BatchSize = 2
  MaxAttempts = 3
  Backoff <- MCBackoff
  MaxCrashes = 2
CHECK_DEADLOCK FALSE
INVARIANT NoSideEffectLost
