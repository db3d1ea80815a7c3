\* Connections made both ways, or through a proxy that comes and goes; or two peers that
\* connect while the network between them does not fail.
SPECIFICATION MCSpec
CONSTANTS
  Kind = {"endpoint", "existingSocketId"}
  MayThrow = FALSE
  MaxSends = 3
  MaxData = 2
  Session = {s1, s2}
  Enabled = {TRUE, FALSE}
  AllowNonUnicast = {FALSE}
  MaxOutages = 2
  a = a
  b = b
INVARIANTS SocketTended OneReply
PROPERTIES NeverBack ClosedIsTold ErrorIsLifted CloseIsNoticed NegotiationEnds
CHECK_DEADLOCK FALSE
