\* Handler bodies that add events, stop the handling and clear the queue; two
\* instances that verify their keys, each in up to two sessions; the codecs.
SPECIFICATION MCSpec
CONSTANTS
  Event = {e1, e2, e3}
  Promise = {p1, p2}
  None = None
  BodyCalls = {"handle", "stop", "clear"}
  MaxSets = 4
  MaxDepth = 8
  a = a
  b = b
  a1 = a1
  a2 = a2
  b1 = b1
  b2 = b2
  Peer = {a, b}
  Sessions <- TwoEach
  MaxNet = 2
  NameLengths = {1, 2, 255}
  Ports = {0, 80, 256, 65535}
  Texts = {0, 1, 255}
  Cuts = {0, 1, 2}
  Packet = {k1, k2}
  Lengths = {0, 20, 60, 90}
  maxLength_ = 100
  IdBytes = 4
  MaxSent = 1
  Models <- AtStart
  MaxFragments = 2
  MaxLosses = 1
  Client = {c1, c2}
  Script <- Scripts
  MaxChunk = 4
  ByteBits = 2
  Frequencies <- Tables
  MaxLength = 5
SYMMETRY Symmetry
INVARIANTS QueueCounted NoIdleHandler BothApproved CodecsAgree
PROPERTY PromisesKept
CHECK_DEADLOCK FALSE
