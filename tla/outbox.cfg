CONSTANTS
  Event = {e1, e2, e3}
  Limit = 2
  MaxCrashes = 2
SPECIFICATION FairSpec
INVARIANTS TypeOK LostOnlyAtRisk
PROPERTIES EventuallyPublished
