SPECIFICATION Spec
CONSTANTS
  MaxRetries = 1
  SessionInits = {FALSE}
  Threads <- PlaybackThreads
  MaxQueue = 1
  MaxFailures = 0
INVARIANT ErrorsReported
