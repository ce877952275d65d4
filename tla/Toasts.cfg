SPECIFICATION FairSpec
CONSTANTS
  Toast = {t1, t2, t3}
  Timed = {t1, t2}
  Swiped = {t1}
  Tapped = {t3}
  Pressed = {t2}
  Alone = {t3}
  MaxTouches = 2
INVARIANTS TypeOK ClosedOnceUnlessDisturbed
PROPERTIES StallsOnlyOnSingle NextOnlyAfterClose Leaves
CHECK_DEADLOCK FALSE
