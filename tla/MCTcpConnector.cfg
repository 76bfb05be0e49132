SPECIFICATION Spec
CONSTANTS
  Processes = {p1, p2}
  This = p1
  Connectors = {k1, k2}
INVARIANT TypeOK
INVARIANT OneInstance
INVARIANT RegistryIsOpen
PROPERTY ActivationShows
PROPERTY CloseEnds
