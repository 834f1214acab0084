SPECIFICATION Spec
CONSTANTS
  c1 = c1
  c2 = c2
  ThreadIds = {c1, c2}
  Logs <- MCLogs
  CommandLines <- MCCommandLines
  Builds <- MCBuilds
  MaxGiven = 2
INVARIANTS IInv OneOfEach OptionsUsed ReportsComplete
