SPECIFICATION Spec
CONSTANTS
  Conns = {c1, c2}
  Listener = listener
  Kinds = {"hs", "close"}
  Faults = {"fin", "rst", "accept"}
  MaxUnits = 2
INVARIANT PendingIsArmed
INVARIANT EventsFindClients
INVARIANT EventsHaveCause
INVARIANT RegistryExact
INVARIANT ShakeFirst
PROPERTY HangupCloses
PROPERTY IsSessions
\* Peers may all stop: the loop then sleeps in epoll_wait.
CHECK_DEADLOCK FALSE
