SPECIFICATION FairSpec
CONSTANTS
  N = 5
  T = 2
  KeyHolder = {1, 2, 4, 5}
  Fault <- ThreeFaults
  CoreMayFail = FALSE
  MaxSessions = 8
  MaxStrikes = 2
  ToMint = 1
  CounterMod = 16
  MaxSerial = 3
  CoordMayFail = FALSE
  ReplaceTbs = {FALSE}
  Roster <- Roster12345
  MaxArrivals = 5
  Crashers = {}
  PromptSigners = TRUE
INVARIANTS
  DisjointSessions
  HonestNeverPenalised
  SessionBound
PROPERTIES
  Issues
  Ends
