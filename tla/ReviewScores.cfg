SPECIFICATION Spec
CONSTANTS
  Mine = Mine
  Other = Other
  Salon = {Mine, Other}
  AutoName = {n1}
  Loads = {q1, q2}
  Stars <- MCStars
  Partial = Partial
  MaxComments = 2
  Nil = Nil
INVARIANTS TypeOK
PROPERTIES RatesOwnComments TrapsOnlyWithoutComments KeepsComments
CHECK_DEADLOCK FALSE
