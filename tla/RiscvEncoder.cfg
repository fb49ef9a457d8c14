CONSTANTS
  Mnemonic <- MCMnemonic
  InitTable <- MCInitTable
  Operand <- MCOperand
  Garbage <- MCGarbage
  GarbageInt <- MCGarbageInt
  Offset <- MCOffset
SPECIFICATION Spec
INVARIANTS
  TypeOK
  InstructionKept
  FieldsRecovered
  LabelResolved
\* One statement is translated.
CHECK_DEADLOCK FALSE
