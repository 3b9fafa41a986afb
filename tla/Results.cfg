SPECIFICATION Spec
CONSTANTS
  MaxParameters = 3
INVARIANTS
  Delivered
  ReadsAreFresh
  CallerKeepsItsData
