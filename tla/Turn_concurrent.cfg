SPECIFICATION FairSpec
CONSTANTS
  Absent = Absent
  Turns = {t1, t2}
  MaxIterations = 1
  MaxAttempts = 2
  MaxCalls = 1
  ToolsWrite = TRUE
  Compacting = TRUE
  KeepRecent = 1
  Sequential = FALSE
  CancelAtYield = TRUE
INVARIANTS
  TypeOK
  CopiesLevelOrStale
PROPERTIES
  OverwritesOnlyWhatItSaw
  AttributesKept
  TurnsEnd
