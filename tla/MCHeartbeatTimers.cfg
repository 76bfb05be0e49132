SPECIFICATION Spec
CONSTANTS
  NearSlots = 2
  LevelSlots = 4
  Fns <- Tasks
  Waits = {1, 3}
  FullCircle = 9
  MaxIds = 4
  MaxClock = 2
  Clients = {c1, c2}
  BeatWait = 3
  CloseWait = 1
  Events = {"short", "close"}
INVARIANT CloseTimersRun
\* Once the lock is lost both threads wait for it; the program may also end.
CHECK_DEADLOCK FALSE
