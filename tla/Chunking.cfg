SPECIFICATION Spec
CONSTANTS
  Letters <- MCLetters
  NewLine = 0
  OtherWhite = {99}
  Libraries <- MCLibraries
  Settings <- MCSettings
  MaxParts = 24
CHECK_DEADLOCK FALSE
INVARIANTS
  TypeOK
  PassagesStayWhole
  CuttingEndsAsSet
