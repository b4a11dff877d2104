CHECK_DEADLOCK FALSE
SPECIFICATION Spec
CONSTANTS
  N = 4
  T = 2
  KeyHolder = {1, 2, 3, 4}
  Fault <- NoFault
  CoreMayFail = FALSE
  MaxSessions = 8
  MaxStrikes = 2
  ToMint = 2
  CounterMod = 16
  MaxSerial = 3
  CoordMayFail = FALSE
  ReplaceTbs = {FALSE}
  Roster <- Roster1234
  MaxArrivals = 4
  Crashers = {}
  PromptSigners = TRUE
INVARIANTS
  DistinctSerials
  AtMostToMint
PROPERTIES
  SignsCurrentTbs
