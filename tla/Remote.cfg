\* Two attempts that may overlap, and one share at a time.
SPECIFICATION FairSpec
CONSTANTS
  Attempt = {k1, k2}
  Share = {j1}
  None = None
  MaxToSharer = 1
  MaxToGetter = 1
  Metadata = FALSE
INVARIANTS EndsInOrder
PROPERTIES BrokenIsRetried ShareEnds ImplementsAccess
CHECK_DEADLOCK FALSE
