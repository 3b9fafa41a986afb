CONSTANTS
  Comms = {c1, c2, c3}
  Groups = {g1, g2}
  Operations = {o1, o2}
  CommHandle = {k1, k2, k3}
  GroupHandle = {h1, h2}
  OpHandle = {p1, p2}
  World = World
  Null = Null
  MovesBorrowed = FALSE
  Env = {e1, e2}
  Modes = {"InitFinalize", "NoInitFinalize", "InitFinalizeIfNecessary"}
  Type = {t1, t2}
SPECIFICATION Spec
CONSTRAINT OneClass
SYMMETRY Symmetric
INVARIANTS OwnershipInv MPIAllows
PROPERTY Implements
CHECK_DEADLOCK FALSE
