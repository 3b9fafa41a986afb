CONSTANTS
  a = a
  b = b
  Rank = {a, b}
  SendBufs <- Bufs2
  MaxCalls = 3
SPECIFICATION FairSpec
INVARIANTS Quiescence CallIsolation Complete IInv
PROPERTIES Implements CallReturns
CHECK_DEADLOCK FALSE
