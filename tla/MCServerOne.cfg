SPECIFICATION Spec
CONSTANTS
  Conns = {c1}
  Listener = listener
  Kinds <- AllKinds
  Faults <- AllFaults
  MaxUnits = 4
INVARIANT TypeOK
INVARIANT InputNotLost
INVARIANT InOrderOnce
INVARIANT EventsHaveCause
INVARIANT ErasesFiledTask
PROPERTY HeadersDecide
PROPERTY IsSessions
\* Peers may all stop: the loop then sleeps in epoll_wait.
CHECK_DEADLOCK FALSE
