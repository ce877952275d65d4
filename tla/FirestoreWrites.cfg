SPECIFICATION FairSpec
CONSTANTS
  User = {u1, u2}
  Observed = u1
  MaxPending = 3
  MaxWrites = 4
  MaxFaults = 2
INVARIANTS TypeOK Correlated CallbacksWait AnswersTrue InOrder AnsweredIsFinal
PROPERTIES Drains KeepsWriteQueue
CHECK_DEADLOCK FALSE
