CONSTANTS
  Own = {b1}
  Trusted = {}
  Stranger = {b2}
  Claimant = {me, them}
  Me = me
  Cmd = {k1, k2}
  Load = {l1, l2}
  None = None
  MaxEdit = 2
  MaxMoves = 2
SPECIFICATION Spec
SYMMETRY Symmetry
INVARIANTS
  TypeOK
  ApprovedMeansPaid
  GuardNeverLeaks
  QuietMapIsFresh
CHECK_DEADLOCK FALSE
