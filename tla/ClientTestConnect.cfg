SPECIFICATION Spec
CONSTANTS
  MaxRetries = 1
  SessionInits = {FALSE}
  Threads <- TestThreads
  MaxQueue = 1
  MaxFailures = 0
INVARIANTS TestConnectConnects
