CONSTANTS
  Clients = {c1, c2}
  Server = server
  ChannelKinds <- KindsUsed
  MaxTick = 3
  MaxEvents = 2
  MaxConnects = 2
SPECIFICATION Spec
SYMMETRY Symmetry
ACTION_CONSTRAINT Explored
CHECK_DEADLOCK FALSE
INVARIANTS TypeOK ReadyIsCurrent NoOldEvents WaitsOnlyIfInherited
PROPERTY ImplementsStream
