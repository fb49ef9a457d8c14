CONSTANTS
  Name <- MCName
  ISA = "riscv"
  Text <- MCText
  Translation <- MCTranslation
  Clip <- MCClip
  Mangle <- MCMangle
  Line <- AllLines
  MaxLines = 3
SPECIFICATION Spec
INVARIANTS
  BranchesHitLabels
\* The program ends, or crashes.
CHECK_DEADLOCK FALSE
