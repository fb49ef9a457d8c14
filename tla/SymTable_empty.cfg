CONSTANTS
  Name <- MCName
  Offset <- MCOffset
  MaxSymbols <- MCMaxSymbols
SPECIFICATION Spec
INVARIANTS
  UndefinedIsReported
CHECK_DEADLOCK FALSE
