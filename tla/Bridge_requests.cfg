SPECIFICATION Spec

CONSTANTS
  Turns = {t1, t2}
  Cancels = {c1}
  Shutdowns = {}
  Plain = {}
  Tools = {a}
  t1 = t1
  t2 = t2
  c1 = c1
  a = a
  Nobody = Nobody
  MaxTalk = 1
  MaxInbox = 1
  MaxStops = 1

SYMMETRY Symmetry

INVARIANTS
  TypeOK
  WriterQueue
  ToolsRunOnlyAllowed
  CancelledTurnsStop

PROPERTIES
  CancelRequestsReach
  KeepsPromise

CHECK_DEADLOCK FALSE
