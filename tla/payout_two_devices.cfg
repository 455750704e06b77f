CONSTANTS
  Device = {d1, d2}
  Attempt = {a1, a2, a3}
  Wallet = {w1}
  Relay = {r1}
  None = None
  MaxInFlight = 1
  MaxRank = 7
  Features = {}
SPECIFICATION Spec
SYMMETRY Symmetry
INVARIANTS
  AtMostOnePayment
PROPERTIES
  PaidIsFinal
