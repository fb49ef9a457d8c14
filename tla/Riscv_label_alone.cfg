CONSTANTS
  Name <- MCName
  ISA = "riscv"
  Text <- MCText
  Translation <- MCTranslation
  Clip <- MCClip
  Mangle <- MCMangle
  Line <- LabelAloneLines
  MaxLines = 4
SPECIFICATION Spec
INVARIANTS
  RefsHitLabels
\* The program ends, or crashes.
CHECK_DEADLOCK FALSE
