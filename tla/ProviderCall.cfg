CONSTANTS
  Vendors = {"anthropic", "deepseek"}
  MaxAttempts = 2
  KeepRecent = 2
  Compacting = TRUE
  MaxPieces = 3
  MaxBlocks = 2
  MaxMessages = 5
SPECIFICATION Spec
INVARIANTS
  TypeOK
  ReplayedAsSaid
  OnlySignedThoughts
  CallsPaired
  SilentOnlyIfNothingSaid
CHECK_DEADLOCK FALSE
