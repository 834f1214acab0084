SPECIFICATION Spec
CONSTANTS
  t1 = t1
  Threads = {t1, t2}
  Work <- MCWork
  Configs <- MCConfigs
  UsecondsRange = 2
  MaxNow = 3
INVARIANTS IInv NeverEarly DelayCovered ReportsAgree
PROPERTIES DelayIsMaximum QueryTimePreserved Termination
