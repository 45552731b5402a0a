SPECIFICATION FairSpec
CONSTANTS
  NoThread = NoThread
  s1 = s1
  s2 = s2
  d1 = d1
  d2 = d2
  Senders = {s1, s2}
  Debuggers = {d1, d2}
  Killable = {}
  MaxCalls = 1
  MayRelease = FALSE
  Disciplined = TRUE
CHECK_DEADLOCK FALSE
INVARIANTS
  OneOwner
PROPERTIES
  EventAnswered
