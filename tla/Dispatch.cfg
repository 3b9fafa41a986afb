CONSTANTS
  Sizes = {1, 2, 3, 4, 5, 6, 7}
  MaxCalls <- MCMaxCalls
  Patterns <- MCPatterns
  Count <- MCCount
  Thresholds = {2, 5}
SPECIFICATION FairSpec
INVARIANTS IsAlltoallv CollectivesMatch GridMadeOnce
PROPERTY AllReturn
CHECK_DEADLOCK FALSE
