SPECIFICATION Spec
CONSTANTS
  Absent = Absent
  Turns = {t1, t2}
  MaxIterations = 1
  MaxAttempts = 1
  MaxCalls = 1
  ToolsWrite = FALSE
  Compacting = FALSE
  KeepRecent = 1
  Sequential = FALSE
  CancelAtYield = FALSE
SYMMETRY Symmetry
INVARIANTS
  CompletedTurnsAreStored
