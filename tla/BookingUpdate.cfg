SPECIFICATION Spec
CONSTANTS
  Id = {b1, b2}
  AutoName = {n1, n2}
  Mine = Mine
  Other = Other
  NoDate = NoDate
  None = None
  MaxTime = 1
  Queries = {q1, q2}
INVARIANTS OneBookingPerId
CHECK_DEADLOCK FALSE
