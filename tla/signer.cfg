CONSTANTS
  a = a
  b = b
  None = None
  Account <- Accounts
  Stored <- FirstAccount
  Pairing <- Pairings
  Request <- Requests
  Old = 0
SPECIFICATION FairSpec
INVARIANTS TypeOK IdentityIsWhole LensKnowsIdentity
PROPERTIES OneRepairForAll EveryCallEnds
CHECK_DEADLOCK FALSE
