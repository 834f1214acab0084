SPECIFICATION Spec
CONSTANTS
  Texts <- MCTexts
  MaxLines = 4
INVARIANTS IInv HandsOverQueries
