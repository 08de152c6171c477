SPECIFICATION Spec
CONSTANTS
  a1 = a1
  a2 = a2
  Admins = {a1, a2}
  Rates = {1, 2}
  DefaultRate = 1
  Publishers = {p1}
  p1 = p1
  MaxVersion = 5
  MaxRequests = 2
  MaxGeneration = 2
  MaxScannerVersion = 4
  MaxAttempts = 2
  MaxCodes = 2
CHECK_DEADLOCK FALSE
INVARIANTS
  VersionCoversNegotiation
  OldAccessEnds
  CodesAreSpentOnce
  VersionCoversLeave
PROPERTIES
  AgreementIsMutual
  DecisionsAreLawful
  SuspensionStopsPublishing
  LifecycleKept
  ScannersBecomeActive
