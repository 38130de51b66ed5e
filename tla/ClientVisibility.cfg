CONSTANTS
  Entities = {e1, e2}
  PoliciesUsed <- AllPolicies
  MaxCalls = 3
SPECIFICATION Spec
SYMMETRY Symmetry
INVARIANTS TypeOK TrackedIsKnown
PROPERTY MirrorsWanted
