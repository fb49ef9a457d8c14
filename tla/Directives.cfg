CONSTANTS
  Directive <- MCDirective
  Item <- MCItem
  OwnItem <- MCOwnItem
  Garbage <- MCGarbage
  Overrun <- MCOverrun
  MaxItems = 2
  MaxStatements = 2
SPECIFICATION Spec
INVARIANTS
  TypeOK
  DataIsFresh
  SizeIsBytes
\* The source ends after its last statement.
CHECK_DEADLOCK FALSE
