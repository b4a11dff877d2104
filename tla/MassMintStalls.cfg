CHECK_DEADLOCK FALSE
SPECIFICATION FairSpec
CONSTANTS
  N = 3
  T = 2
  KeyHolder = {1, 2, 3}
  Fault <- NoFault
  CoreMayFail = FALSE
  MaxSessions = 8
  MaxStrikes = 2
  ToMint = 3
  CounterMod = 16
  MaxSerial = 4
  CoordMayFail = FALSE
  ReplaceTbs = {FALSE}
  Roster <- Roster123
  MaxArrivals = 3
  Crashers = {}
  PromptSigners = TRUE
PROPERTIES
  Issues
