SPECIFICATION Spec
CONSTANTS
  a = a
  b = b
  P = 2
  Root = 1
  Keys <- TwoKeys
  Aggregations <- DefaultOrTwo
  MaxCalls <- FewerIfDiverging
  Levels = {"heavy_communication"}
  MaxBarriers = 1
SYMMETRY KeySymmetry
INVARIANTS MeasuresNested AggregatesSameTimers OnlyLongerWalksWait
CHECK_DEADLOCK FALSE
