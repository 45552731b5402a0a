SPECIFICATION Spec
CONSTANTS
  NoThread = NoThread
  s1 = s1
  s2 = s2
  d1 = d1
  Senders = {s1, s2}
  Debuggers = {d1}
  Killable = {s1, s2, d1}
  MaxCalls = 2
  MayRelease = TRUE
  Disciplined = FALSE
SYMMETRY SenderSymmetry
CHECK_DEADLOCK FALSE
INVARIANTS
  OneTransaction
  NoUseAfterFree
