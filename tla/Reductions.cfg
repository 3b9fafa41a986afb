SPECIFICATION Spec
CONSTANTS
  P = 3
  Ops <- AllOps
  Operations = {"builtin", "MPI_Op"}
  Sizes = {0, 2}
  Roots = {0, 2, 3}
  RecvBuffers <- SomePolicies
  OnRank0 <- OmittedOrSome
  Misuse = {"size", "count", "root"}
  Rounds = 2
INVARIANTS ReducesWithGivenOperation LegalReturns MisuseRejected
