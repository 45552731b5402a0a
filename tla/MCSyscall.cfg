SPECIFICATION Spec
CONSTANTS
  c1 = c1
  c2 = c2
  Clients = {c1, c2}
  Key <- SameKey
  NoKey = NoKey
  MaxInits = 3
  MaxOps = 1
SYMMETRY ClientSymmetry
CHECK_DEADLOCK FALSE
INVARIANTS
  StartSound
  InitMeansUsable
  NothingHeld
  HandlesClosed
