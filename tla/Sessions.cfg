CONSTANTS
  Entities = {e1}
  Clients = {k1, k2}
  Nobody = nobody
  MaxTick = 2
  MaxSessions = 2
SPECIFICATION Spec
SYMMETRY Symmetry
INVARIANTS TypeOK AckersAreReplicated KnowsTheWorld ReachesUpdateTick MapsToOwnEntities
