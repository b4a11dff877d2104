CHECK_DEADLOCK FALSE
SPECIFICATION Spec
CONSTANTS
  N = 3
  T = 2
  KeyHolder = {1, 2, 3}
  Fault <- LateDropout
  CoreMayFail = TRUE
  MaxSessions = 2
  MaxStrikes = 2
  ToMint = 2
  CounterMod = 16
  MaxSerial = 2
  CoordMayFail = TRUE
  ReplaceTbs = {TRUE, FALSE}
  Roster <- Roster12
  MaxArrivals = 3
  Crashers = {1}
  PromptSigners = FALSE
INVARIANTS
  TypeOK
  CertificatesFresh
  ShareCountExact
  SharesOfTheirSession
  RefusesReplacedTbs
