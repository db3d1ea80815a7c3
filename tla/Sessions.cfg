\* Two clients, the second served with a new channel or that of the first.
SPECIFICATION FairSpec
CONSTANTS
  MaxClients = 2
  Label = {l1}
  None = None
  SESSION_LIMIT = 2
  MaxOthers = 1
  MaxPackets = 3
  MaxAnswers = 1
INVARIANTS SessionsInOrder
PROPERTIES AllDelivered EndsTogether
CHECK_DEADLOCK FALSE
