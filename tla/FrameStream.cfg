SPECIFICATION Spec
CONSTANTS
  Radix = 8
  SigSize = 2
  MaxPayload = 20
  MaxSigners = 3
  EntryMax = 2
  MaxRecord = 12
  Capacity = 4
  Outgoing <- MCOutgoing
  MaxFrames = 2
INVARIANTS
  NothingHeldBack
  TypeOK
  BundlesSurvive
PROPERTIES
  FramesToSigner
  FramesToCoord
