SPECIFICATION Spec
CONSTANTS
  g1 = g1
  g2 = g2
  cpuPane = cpuPane
  logPane = logPane
  Missing = Missing
  Guis = {g1}
  Me = g1
  Panes = {cpuPane, logPane}
  Usable = {cpuPane}
  Places = {0, 1}
  Widths = {0, 1}
  Default = 0
  Offscreen = 32000
  MaxStarts = 2
  MaxChanges = 0
  InstrDecode <- Lengths
  HasSpace <- Spaced
  Eips = {16, 272}
  TIDs = {4, 260}
  Size = 4
  Slack = 3
  Digits = 4
  MaxSessions = 2
  MaxStops = 2
  MaxClicks = 2
CHECK_DEADLOCK FALSE
INVARIANTS
  RowsAreCode
  RequestedRow
  BpRowsCurrent
