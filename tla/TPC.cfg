SPECIFICATION Spec
CONSTANTS
  c1 = c1
  c2 = c2
  c3 = c3
  ThreadIds = {c1, c2, c3}
  QuitIds = {c1}
  Workers = {c1, c2, c3}
  Logs <- MCLogs
  MaxLog = 4
  QueueDepth = 2
  MaxRunning = 1
INVARIANTS IInv NumRunningExact PushReachesThread ReferenceValid NothingLeftRunning
PROPERTIES ImplementsReplay JoinedForGood Termination StuckOtherwise
