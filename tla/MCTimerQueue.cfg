SPECIFICATION Spec
CONSTANTS
  Ids = {t1, t2}
  Intervals = {0, 2, 5}
  Delays = {0, 1}
  Circles = {0, 1, 2, 3}
  FullCircle = 3
  Horizon = 4
  Starts = {0, 1}
  MaxClock = 6
  None = None
INVARIANT TypeOK
INVARIANT NotMissed
\* The clock stops at its bound.
CHECK_DEADLOCK FALSE
