\* The modules of the network and of the user interface, one at a time.
SPECIFICATION Spec
CONSTANTS
  None = None
  MaxSignals = 2
  c1 = c1
  Client = {c1, c2}
  Interface = {i1, i2}
  Port = {q1, q2}
  Remote = {r1}
  MaxFailures = 1
  Channel = {d1, d2, d3}
  Label = {l1, l2}
  Control = control
  LabelsOnce = FALSE
  Maxima = {1, 2}
  MaxSdp = 2
  TargetDelay = 1
  BaseInterval = 3
  Tracing = 2
  MaxTime = 8
  MaxSends = 6
  MaxTraced = 2
  MaxLevel = 3
  t1 = t1
  t2 = t2
  Tag = {t1, t2}
  Buffered = buffered
  Destination = {console, buffered}
  MAX_BUFFERED_LOG = 1
  Trimmed = 1
  Used = {0, 2}
  MaxChanges = 2
  MaxLogs = 2
  Conn = {s1, s2, s3}
  maxConnections_ = 2
  Candidate = {a1, a2}
  SkipPublicEndpoint = FALSE
  MaxCloses = 1
  Question = {y1, y2, y3}
  Later = {0, 1}
  Latest = 4
  MaxPanels = 2
  Instance = {u1, u2}
  MaxToUi = 2
  MaxToCore = 2
  Slow = TRUE
  Hasty = FALSE
  Invite = {w1, w2, w3}
  CloudInvite = {w3}
  MaxLogins = 2
  MaxRemovals = 1
INVARIANTS PathAgrees ShutDown OneDropAnInterval TableIsTrue LevelIsTold UserAgreed ShowsWhatIs
CHECK_DEADLOCK FALSE
