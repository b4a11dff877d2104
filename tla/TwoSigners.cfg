SPECIFICATION Spec
CONSTANTS
  N = 2
  T = 2
  KeyHolder = {1, 2}
  Fault <- BothHonest
  CoreMayFail = FALSE
  AckModes = {"S"}
  Ceremony = {}
  Thresholds = {}
  Messages <- TwoMessages
  MaxDraws <- TwoDraws
INVARIANTS
  PackageAuthentic
