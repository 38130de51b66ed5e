CONSTANTS
  c1 = c1
  c2 = c2
  Components = {c1, c2}
  Groups <- AllGroups
  RulePriorities = {1, 2, 3}
  Markers = {m1, m2, m3}
  MarkerPriorities = {0, 1, 2}
  NoFns = nofns
  MaxRegistered = 3
SPECIFICATION Spec
SYMMETRY Symmetry
INVARIANTS TypeOK FnsIdsAgree HighestRuleWins RemovalsUndoReplication HighestMarkerWrites
