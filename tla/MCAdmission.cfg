SPECIFICATION FairSpec
CONSTANTS
  t1 = t1
  alice = alice
  bob = bob
  s1 = s1
  s2 = s2
  NoDate = NoDate
  Nothing = Nothing
  Tickets = {t1}
  Fans = {alice, bob}
  Scanners = {s1, s2}
  OwnerAtFirst <- MCOwner
  InitialEvent <- MCInitialEvent
  Schedules <- MCSchedules
  QrTTL = 1
  MaxVersion = 2
  MaxTime = 3
CHECK_DEADLOCK FALSE
INVARIANTS
  UsedMeansAdmitted
  ReportStaysTrue
PROPERTY CompletedEventsClose
