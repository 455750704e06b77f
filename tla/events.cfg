CONSTANTS
  Creator = creator
  Claimant = {ann, bob}
  Relay = {r1, r2}
  None = None
  MaxTime = 1
  MaxEvents = 4
SPECIFICATION Spec
SYMMETRY Symmetry
INVARIANTS
  TypeOK
  NewestIsEnough
  NoSecondOffer
PROPERTIES
  ChangeReplaces
CHECK_DEADLOCK FALSE
