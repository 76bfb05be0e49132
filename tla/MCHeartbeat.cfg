SPECIFICATION Spec
CONSTANTS
  NearSlots = 2
  LevelSlots = 4
  Fns <- Tasks
  Waits = {2, 3}
  FullCircle = 9
  MaxIds = 3
  MaxClock = 3
  Clients = {c1}
  BeatWait = 2
  CloseWait = 3
  Events <- AllEvents
INVARIANT TypeOK
INVARIANT OneInside
INVARIANT MapExact
INVARIANT EraseFindsBeat
INVARIANT LostByTimeout
INVARIANT OrphanWasFreed
INVARIANT PingOfClient
PROPERTY UsesWheel
PROPERTY AtMostATurnEarly
PROPERTY ErasedStaysErased
\* Once the lock is lost both threads wait for it; the program may also end.
CHECK_DEADLOCK FALSE
