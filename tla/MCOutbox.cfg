SPECIFICATION FairSpec
CONSTANTS
  report = report
  email = email
  Events = {1, 2, 3}
  Consumers = {report, email}
  Registry <- MCRegistry
  Relays = {r1, r2}
  BatchSize = 2
  MaxAttempts = 2
  Backoff <- MCBackoff
  MaxCrashes = 1
CHECK_DEADLOCK FALSE
INVARIANTS
  AppliedOnce
PROPERTIES KeepsPromise EventsSettle
