CONSTANTS
  Entities = {e1}
  PoliciesUsed <- OnlyBlacklist
  MaxCalls = 1
SPECIFICATION Spec
PROPERTY DespawnedIsForgotten
