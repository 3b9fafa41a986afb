SPECIFICATION Spec
CONSTANTS
  P = 2
  Ops <- AllOps
  Amounts = {0, 2}
  Roots = {0, 1}
  RecvBuffers <- EveryPolicy
  SendDispls <- GivenOrNot
  Slack = {0}
  Misuses <- Disagreements
  LightCommunication = {TRUE, FALSE}
INVARIANTS ReturnsPromise CollectivesMatch CountsMatch LegalReturns MisuseRejected
