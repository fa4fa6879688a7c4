SPECIFICATION Spec
CONSTANTS
  c1 = c1
  c2 = c2
  c3 = c3
  SN = SN
  Nobody = Nobody
  Client = {c1, c2, c3}
  Message <- Messages
  Ampersand <- Names
  Terminal = {c1, c3, SN}
  MaxFail = 1
CHECK_DEADLOCK FALSE
INVARIANTS
  TypeOK
  DoneAsSent
  DoneOnce
  OkMeansDone
PROPERTIES
  Reaped
  Answered
