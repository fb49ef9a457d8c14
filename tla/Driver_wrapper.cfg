CONSTANTS
  Proc = {p1, p2}
  Source <- MCSource
  Text <- MCText
  Directory <- MCNewDirectory
  MaxRuns = 2
  MaxEdits = 1
SPECIFICATION FairSpec
INVARIANT ScriptFindsImage
CHECK_DEADLOCK FALSE
