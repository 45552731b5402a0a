SPECIFICATION FairSpec
CONSTANTS
  t1 = t1
  t2 = t2
  run = run
  None = None
  MaxSes = 2
  MaxStops = 2
  MaxEdits = 1
  Tids = {t1, t2}
  First = t1
  Modes = {run}
CHECK_DEADLOCK FALSE
INVARIANTS
  ViewsShowStop
  ResumedByCommand
  NoCrashWhileOpen
PROPERTIES
  StopLeft
