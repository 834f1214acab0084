SPECIFICATION Spec
CONSTANTS
  Texts <- MCTexts
  MaxParts = 4
INVARIANTS IInv EntriesExact StartTimesAdjusted ConnectionOrderKept SortedAsAsked LinesSentOnce
