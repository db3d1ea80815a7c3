CONSTANTS
  Invite = {i1, i2, c1}
  CloudInvite = {c1}
  None = None
  MaxLogins = 2
  MaxRemovals = 1
SPECIFICATION Spec
INVARIANT NetworksAreShown
CHECK_DEADLOCK FALSE
