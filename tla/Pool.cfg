SPECIFICATION Spec
CONSTANTS
  c1 = c1
  c2 = c2
  c3 = c3
  ThreadIds = {c1, c2, c3}
  QuitIds = {c1}
  threads_count = 2
  Workers <- MCWorkers
  WorkerOf <- MCWorkerOf
  Logs <- MCLogs
  MaxLog = 4
  QueueDepth = 1
INVARIANTS IInv NothingBehindFinish WorkerInLogOrder NothingLeftRunning
PROPERTIES ImplementsReplay Termination
