SPECIFICATION Spec
CONSTANTS
  N = 2
  T = 2
  KeyHolder = {1, 2}
  Fault <- OneHonest
  CoreMayFail = TRUE
  AckModes = {"S", "D", "R"}
  Ceremony = {"COLLECTING", "COMPLETE"}
  Thresholds = {1}
  Messages <- TwoMessages
  MaxDraws <- ThreeDraws
INVARIANTS
  TypeOK
  NonceSingleUse
  CommitmentOfferedOnce
  SignsLatestRequest
  Coherent
