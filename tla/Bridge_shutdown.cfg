SPECIFICATION FairSpec

CONSTANTS
  Turns = {t1}
  Cancels = {}
  Shutdowns = {s1}
  Plain = {p1}
  Tools = {a}
  t1 = t1
  s1 = s1
  p1 = p1
  a = a
  Nobody = Nobody
  MaxTalk = 1
  MaxInbox = 1
  MaxStops = 1

INVARIANTS
  LateRequestsRefused

PROPERTIES
  RequestsEnd
  ServeReturns

CHECK_DEADLOCK FALSE
