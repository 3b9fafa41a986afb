SPECIFICATION Spec
CONSTANTS
  P = 3
  Key <- Three
  Default = 2
  Factor = 2
  MaxElements = 5
INVARIANTS SortsGlobally
