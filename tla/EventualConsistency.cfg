CONSTANTS
  Entities = {e1}
  Components = {c1, c2}
  PoliciesUsed <- Selective
  IndexRange = 16
  MaxTick = 3
  MaxOps = 5
SPECIFICATION FairSpec
CHECK_DEADLOCK FALSE
PROPERTY EventuallyConsistent
