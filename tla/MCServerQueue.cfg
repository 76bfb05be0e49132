SPECIFICATION Spec
CONSTANTS
  Conns = {c1}
  Listener = listener
  Kinds = {"hs", "pong"}
  Faults = {}
  MaxUnits = 2
PROPERTY QueueIsSent
\* Peers may all stop: the loop then sleeps in epoll_wait.
CHECK_DEADLOCK FALSE
