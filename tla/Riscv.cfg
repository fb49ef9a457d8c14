CONSTANTS
  Name <- MCName
  ISA = "riscv"
  Text <- MCText
  Translation <- MCTranslation
  Clip <- MCClip
  Mangle <- MCMangle
  Line <- AllLines
  MaxLines = 4
SPECIFICATION FairSpec
INVARIANTS
  TypeOK
  RefsHitLabels
  UndefinedExactly
  ErrorLineRight
  ImageIsRight
  WellFormedIsAccepted
PROPERTIES
  Terminates
  ImplementsAssembly
\* The program ends, or crashes.
CHECK_DEADLOCK FALSE
