CONSTANTS
  Mnemonic <- MCMnemonic
  InitTable <- MCInitTable
  RET <- MCRET
  Operand <- MCOperand
  Garbage <- MCGarbage
  MAX_OPERANDS = 2
  MaxStatements = 2
SPECIFICATION Spec
INVARIANTS
  TypeOK
  OpcodeFound
  CodeIsFresh
  SizeIsBytes
\* The source ends after its last statement.
CHECK_DEADLOCK FALSE
