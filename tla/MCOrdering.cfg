SPECIFICATION Spec
CONSTANTS
  o1 = o1
  o2 = o2
  i1 = i1
  i2 = i2
  w1 = w1
  w2 = w2
  e1 = e1
  c1 = c1
  c2 = c2
  NoDate = NoDate
  NoOrder = NoOrder
  Orders = {o1, o2}
  Intents = {i1, i2}
  Workers = {w1, w2}
  Events = {e1}
  Categories = {c1, c2}
  EventOf <- MCEventOf
  Quota <- MCQuota
  Capacity <- MCCapacity
  Baskets <- MCBaskets
  InitialEvent <- MCInitialEvent
  Schedules <- MCSchedules
  HoldTTL = 2
  MaxLockWait = 1
  MaxTime = 3
SYMMETRY Symmetry
CHECK_DEADLOCK FALSE
INVARIANTS
  TypeOK
  NoOversell
  StockLedger
  PaidAtomically
  ChargedOnce
  LatePaymentIssuesNothing
  HoldsBackedByStock
