SPECIFICATION FairSpec
CONSTANTS
  p1 = p1
  p2 = p2
  p3 = p3
  Rank <- Processes
  MaxFailures = 2
INVARIANTS
  NobodyStranded
PROPERTIES
  Recovers
