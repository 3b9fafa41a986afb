SPECIFICATION Spec
SYMMETRY Symmetric
CONSTANTS
  Op = {o1, o2, o3}
  Buffers = {"reference", "container", "single"}
  Homes = {"result", "user", "pool"}
  EarlyExtract = {"reference", "container"}
  KeepsReferences = FALSE
INVARIANTS BuffersOutlive ReceivedAfterCompletion
PROPERTIES AllOrNone AnyReportsRetired
