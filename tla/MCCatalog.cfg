SPECIFICATION Spec
CONSTANTS
  c1 = c1
  c2 = c2
  p1 = p1
  p2 = p2
  NoDate = NoDate
  NoCapacity = NoCapacity
  NoImage = NoImage
  Schedules <- MCSchedules
  Categories = {c1, c2}
  Quotas = {1, 2}
  Capacities = {2}
  Puts = {p1, p2}
  MaxVersion = 6
  MaxQuotaVersion = 2
  MaxTime = 2
  MaxLosses = 1
SYMMETRY Symmetry
CHECK_DEADLOCK FALSE
INVARIANTS
  OnSaleIsComplete
  OldDateIsKept
  ImageIsStored
PROPERTIES
  FrozenOncePublished
