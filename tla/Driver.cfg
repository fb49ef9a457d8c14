CONSTANTS
  Proc = {p1, p2}
  Source <- MCSource
  Text <- MCText
  Directory <- MCOldDirectory
  MaxRuns = 2
  MaxEdits = 1
SPECIFICATION FairSpec
INVARIANTS TypeOK RowsAreOwn ImageIsPrefix ImageIsWhole
PROPERTY RunEnds
CHECK_DEADLOCK FALSE
