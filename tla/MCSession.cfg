SPECIFICATION FairSpec
CONSTANTS
  D = D
  Q = Q
  d1 = d1
  d2 = d2
  q1 = q1
  w1 = w1
  i1 = i1
  NoItem = NoItem
  NoProc = NoProc
  Procs = {D, Q}
  Threads = {d1, d2, q1}
  Workers = {w1}
  Items = {i1}
  Home <- TwoAndOne
  Attachers = {d1}
  Victims = {D, Q}
  Aliases = {Q}
  MaxTerms = 1
  MaxDepth = 3
CHECK_DEADLOCK FALSE
INVARIANTS
  TypeOK
  RefsExact
  NoDanglingItem
  ChannelPresent
PROPERTIES
  SessionEnds
