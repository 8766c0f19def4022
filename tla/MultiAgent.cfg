CONSTANTS
  Callers = {k1, k2}
  Children = {c1, c2}
  None = None
  MaxCalls = 2
SPECIFICATION FairSpec
INVARIANTS
  TypeOK
  ChildrenCancelledForCause
  CallersCancelledForCause
PROPERTIES
  ChildrenKeepPromise
  JoinsTell
  TimedCallsReturn
