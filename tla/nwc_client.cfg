CONSTANTS
  Payment = pay
  Lookup = {l1}
  Relay = {r1, r2}
  None = None
  Features = {}
SPECIFICATION FairSpec
INVARIANTS TypeOK FailedMeansUnpaid LookupIsTrue
PROPERTIES  KeepsPromise
CHECK_DEADLOCK FALSE
