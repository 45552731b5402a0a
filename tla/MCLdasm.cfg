SPECIFICATION Spec
CONSTANTS
  Prefixes <- SmallPrefixes
  ModRMs <- SmallModRMs
  Sibs <- SmallSibs
CHECK_DEADLOCK FALSE
INVARIANTS
  LengthMatches
  Relocatable
