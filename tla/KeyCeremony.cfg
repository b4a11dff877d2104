SPECIFICATION Spec
CONSTANTS
  N = 3
  T = 2
  MayCrash = {1}
  MayFail = {2}
  MaxRuns = 2
  MaxFaults = 1
  Roster <- Roster312
  Modes = {"D", "R"}
  MayKill = TRUE
  CoordMayFail = TRUE
  MaxArrivals = 4
INVARIANTS
  TypeOK
  SameSharing
  AnnouncedMeansSaved
  NoWayBack
PROPERTIES
  Completes
CHECK_DEADLOCK FALSE
