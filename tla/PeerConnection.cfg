\* Both peers may negotiate; the network fails at any moment; b may close, and
\* the browser may ask for another negotiation.
SPECIFICATION Spec
CONSTANTS
  a = a
  b = b
  Peer = {a, b}
  Hash <- HashOf
  Initiators = {a, b}
  MaxCandidates = 1
  MaxRenegotiations = 1
  MayClose = {b}
  MayFail = TRUE
CONSTRAINT Few
INVARIANTS NegotiationInOrder
PROPERTY CandidatesWait
CHECK_DEADLOCK FALSE
