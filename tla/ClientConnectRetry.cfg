SPECIFICATION Spec
CONSTANTS
  MaxRetries = 3
  SessionInits = {FALSE}
  Threads <- PlaybackThreads
  MaxQueue = 1
  MaxFailures = 0
PROPERTIES ConnectUntilExhausted
