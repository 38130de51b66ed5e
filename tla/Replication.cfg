CONSTANTS
  Entities = {e1, e2}
  Components = {c1, c2}
  PoliciesUsed <- AllPolicies
  IndexRange = 16
  MaxTick = 3
  MaxOps = 4
SPECIFICATION Spec
SYMMETRY Symmetry
CHECK_DEADLOCK FALSE
INVARIANTS TypeOK ConfirmsInOrder AwaitedUpdateIsComing MutationsNeverInsert AckedIsDelivered EntityIsAsConfirmed
PROPERTIES NeverBackwards
