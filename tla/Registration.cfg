SPECIFICATION Spec
CONSTANTS
  Client <- MCClient
  Cert <- MCCert
  Hello <- MCHello
  Greets = {"a", "b", "again", "mixed", "third"}
  Options <- MCOptions
  HeldCerts = {1, 2}
  MaxSigners = 64
  MaxCrashes = 1
INVARIANTS
  TypeOK
PROPERTIES
  ImplementsRoll
  Settles
  Forms
