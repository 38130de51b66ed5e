CONSTANTS
  Entities = {e1}
  Components = {c1, c2}
  PoliciesUsed <- VisibleToAll
  IndexRange = 16
  MaxTick = 3
  MaxOps = 3
SPECIFICATION FairSpec
CHECK_DEADLOCK FALSE
PROPERTY AlwaysEventuallyConsistent
