SPECIFICATION Spec
CONSTANTS
  g1 = g1
  g2 = g2
  cpuPane = cpuPane
  logPane = logPane
  Missing = Missing
  Guis = {g1, g2}
  Me = g1
  Panes = {cpuPane, logPane}
  Usable = {cpuPane}
  Places = {0, 1}
  Widths = {0, 1}
  Default = 0
  Offscreen = 32000
  MaxStarts = 4
  MaxChanges = 2
  InstrDecode <- Lengths
  HasSpace <- Spaced
  Eips = {16}
  TIDs = {4}
  Size = 4
  Slack = 3
  Digits = 4
  MaxSessions = 1
  MaxStops = 1
  MaxClicks = 1
CHECK_DEADLOCK FALSE
PROPERTIES
  LayoutRestored
