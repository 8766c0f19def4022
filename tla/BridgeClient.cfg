SPECIFICATION Spec

CONSTANTS
  Requests = {r1, r2}
  Slow = {r1}
  r1 = r1
  r2 = r2
  Nobody = Nobody
  MaxTalk = 1
  MaxPipe = 1

INVARIANTS
  TypeOK
  TurnsHearTheirOwn
  QuestionsFindATurn

PROPERTIES
  RequestsSettle

CHECK_DEADLOCK FALSE
