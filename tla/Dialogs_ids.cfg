\* Questions of one millisecond.
SPECIFICATION Spec
CONSTANTS
  None = None
  Question = {y1, y2}
  Later = {0, 1}
  MaxTime = 2
  MaxPanels = 1
INVARIANT AnsweredAsAsked
CHECK_DEADLOCK FALSE
