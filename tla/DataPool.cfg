\* Two channels and their pool, one channel over three sessions with data, or the
\* sending of strings and buffers, of which only the bytes of buffers are counted.
SPECIFICATION MCSpec
CONSTANTS
  MaxChannels = 2
  MaxSessions = 2
  MaxData = 0
  MaxFailures = 1
  Kind = {"str", "buffer"}
  Limit = 1
  MaxChunks = 2
  MaxWaiting = 4
INVARIANTS SessionsKept PoolIsFree QueueTended
PROPERTIES ClosedIsReturned PollingGoesOn BuffersSentFirst
CHECK_DEADLOCK FALSE
