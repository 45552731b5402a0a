SPECIFICATION FairSpec
CONSTANTS
  c1 = c1
  c2 = c2
  Cpus = {c1, c2}
  Shapes <- SmallShapes
  MaxHooks = 2
  MaxCalls = 1
CHECK_DEADLOCK FALSE
INVARIANTS
  PatchAlone
  NoTorn
  Transparent
  HooksRun
  PoolExact
PROPERTIES
  AllReleased
