SPECIFICATION FairSpec
CONSTANTS
  w1 = w1
  w2 = w2
  Payments = {1, 2}
  Workers = {w1, w2}
  MaxRetries = 1
  FirstAnswers = {"pending", "succeeded", "failed"}
  MaxErrors = 1
  MaxCrashes = 1
CHECK_DEADLOCK FALSE
INVARIANTS
  NeverRefundedTwice
  SucceededIsComplete
PROPERTIES
  SucceededIsFinal
  RefundsSettle
