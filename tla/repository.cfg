CONSTANTS
  Clone = {mine, theirs}
  Creator = mine
  Claimant = {x, y}
  Detailed = 1
  None = None
  MaxCommits = 3
SPECIFICATION Spec
SYMMETRY Symmetry
INVARIANTS TypeOK OneScope EvidenceHolds
CHECK_DEADLOCK FALSE
