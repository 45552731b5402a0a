SPECIFICATION Spec
CONSTANTS
  NoThread = NoThread
  s1 = s1
  s2 = s2
  d1 = d1
  Senders = {s1, s2}
  Debuggers = {d1}
  Killable = {}
  MaxCalls = 1
  MayRelease = FALSE
  Disciplined = TRUE
CHECK_DEADLOCK FALSE
INVARIANTS
  EventDelivered
