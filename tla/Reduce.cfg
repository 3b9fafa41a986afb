CONSTANTS
  Rank = {0, 1, 2}
  Layouts <- SmallAndReal
  MaxRounds = 2
  Completion = {TRUE, FALSE}
  NoRank = NoRank
SPECIFICATION FairSpec
INVARIANTS AssertionsHold Drained
PROPERTIES Reproducible Terminates
CHECK_DEADLOCK FALSE
