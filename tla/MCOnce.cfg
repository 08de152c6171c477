SPECIFICATION OnceSpec
\* Four requests with the key; no request outlives the guard.
CONSTANTS
  sent = sent
  resent = resent
  edited = edited
  elsewhere = elsewhere
  Nobody = Nobody
  Requests = {sent, resent, edited, elsewhere}
  EndpointOf <- MCEndpointOf
  HashOf <- MCHashOf
  Guard = 1
  Retention = 2
  MaxRun = 1
  MaxTime = 5
  MaxCrashes = 1
\* Two requests at a time, two sessions, one rotation, two codes.
CONSTANTS
  Workers = {w1, w2}
  Logins <- MCLogins
  Invited = FALSE
  MaxSessions = 2
  MaxTokens = 3
  MaxPasswords = 2
  Purposes = {"STEP_UP", "DEVICE_RESET", "PASSWORD_RESET", "PHONE_CHANGE"}
  Phones = {1, 2}
  FirstPhone = 1
  MaxChallenges = 2
  MaxAttempts = 1
SYMMETRY Symmetry
CHECK_DEADLOCK FALSE
INVARIANTS
  OneAnsweredEffect
  ReplayAnswersItsRequest
  TokenExchangedOnce
  LoginsExclude
  CodeAcceptedOnce
PROPERTIES
  RevocationIsFinal
