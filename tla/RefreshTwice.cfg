SPECIFICATION Spec
CONSTANTS
  N = 2
  T = 2
  MayCrash = {}
  MayFail = {}
  MaxRuns = 2
  MaxFaults = 1
  Roster <- Roster12
  Modes = {"R"}
  MayKill = TRUE
  CoordMayFail = FALSE
  MaxArrivals = 3
INVARIANT
  ConfirmedCanSign
CHECK_DEADLOCK FALSE
