SPECIFICATION Spec
CONSTANTS
  Absent = Absent
  Turns = {t1, t2}
  MaxIterations = 2
  MaxAttempts = 1
  MaxCalls = 2
  ToolsWrite = TRUE
  Compacting = FALSE
  KeepRecent = 1
  Sequential = TRUE
  CancelAtYield = FALSE
SYMMETRY Symmetry
INVARIANTS
  HistoriesPaired
  EffectsRecorded
  CompletedTurnsAreStored
  AbortedTurnsAreStoredOrToolSaved
PROPERTIES
  MessagesKept
