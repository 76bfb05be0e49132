SPECIFICATION Spec
CONSTANTS
  Conns = {c1}
  Listener = listener
  Kinds = {"hs"}
  Faults = {"full"}
  MaxUnits = 1
INVARIANT FullBufferWaits
\* Peers may all stop: the loop then sleeps in epoll_wait.
CHECK_DEADLOCK FALSE
