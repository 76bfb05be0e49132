SPECIFICATION Spec
CONSTANTS
  NearSlots = 2
  LevelSlots = 2
  Levels = 3
  Width <- Widths
  Ids = {t1, t2}
  Intervals = {18}
  Delays = {0}
  Circles = {0, 2}
  FullCircle = 3
  Starts = {1}
  MaxClock = 16
  None = None
SYMMETRY Symmetry
INVARIANT TypeOK
INVARIANT CascadedInTime
PROPERTY IsTimerQueue
PROPERTY NeverEarly
\* The clock stops at its bound.
CHECK_DEADLOCK FALSE
