SPECIFICATION Spec
CONSTANTS
  MaxRetries = 2
  SessionInits = {TRUE, FALSE}
  Threads <- AllThreads
  MaxQueue = 3
  MaxFailures = 5
INVARIANTS IInv OneHandle SentInInitialisedSession
PROPERTIES ReportedAsApplied ImplementsDBThread Termination
