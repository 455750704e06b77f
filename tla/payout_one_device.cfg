CONSTANTS
  Device = {d1}
  Attempt = {a1, a2}
  Wallet = {w1, w2}
  Relay = {r1}
  None = None
  MaxInFlight = 1
  MaxRank = 5
  Features = {"sweep", "remove"}
SPECIFICATION FairSpec
INVARIANTS
  TypeOK
  JournalCoversPayment
PROPERTIES
  PaysOnce
  AskedHoldSettles
  ReceiptComesOut
