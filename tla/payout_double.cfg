CONSTANTS
  Device = {d1, d2}
  Attempt = {a1, a2}
  Wallet = {w1}
  Relay = {r1}
  None = None
  MaxInFlight = 2
  MaxRank = 6
  Features = {}
SPECIFICATION Spec
SYMMETRY Symmetry
INVARIANTS
  AtMostOnePayment
