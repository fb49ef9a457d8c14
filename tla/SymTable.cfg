CONSTANTS
  Name <- MCName
  Offset <- MCOffset
  MaxSymbols <- MCMaxSymbols
SPECIFICATION FairSpec
INVARIANTS
  TypeOK
  ProbesInBounds
  WindowHoldsKey
  AnswerRight
PROPERTIES
  WindowShrinks
  LookupReturns
  ImplementsMap
\* A search in an empty table ends in a crash, where nothing can follow.
CHECK_DEADLOCK FALSE
