\* Both peers offer at once.
SPECIFICATION Spec
CONSTANTS
  a = a
  b = b
  Peer = {a, b}
  Hash <- HashOf
  Initiators = {a, b}
  MaxCandidates = 0
  MaxRenegotiations = 0
  MayClose = {}
  MayFail = FALSE
PROPERTY WinnerProceeds
CHECK_DEADLOCK FALSE
