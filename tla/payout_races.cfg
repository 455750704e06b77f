CONSTANTS
  Device = {d1}
  Attempt = {a1, a2}
  Wallet = {w1}
  Relay = {r1, r2}
  None = None
  MaxInFlight = 2
  MaxRank = 3
  Features = {"sweep", "prune", "skew"}
SPECIFICATION Spec
SYMMETRY Symmetry
INVARIANTS
  AskedUnderLock
  ReceiptsAreTrue
PROPERTIES
  HoldIsKept
