SPECIFICATION Spec
CONSTANTS
  FontW = 8
  FontH = 16
  Size = 48
  Bases = {0}
  Heights = {20, 42, 58}
  Width = 640
  MaxInputs = 4
  MouseX <- Xs
  MouseY = {10, 30}
  Stray <- StrayReads
CHECK_DEADLOCK FALSE
INVARIANTS
  ColumnsAlign
  SelectionsAgree
PROPERTIES
  DataKept
  AnchorKept
