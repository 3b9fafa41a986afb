SPECIFICATION Spec
CONSTANTS
  Rank <- MCRank
  Scripts <- MCScripts
INVARIANTS
  WholeMessage
PROPERTIES
  EveryCallReturns
