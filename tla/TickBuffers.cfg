CONSTANTS
  Entities = {e1}
  Components = {c1, c2}
  Marker = marker
  Values = {1, 2}
  Absent = 0
  RuleLists <- AllRuleLists
SPECIFICATION Spec
INVARIANT TypeOK
PROPERTY MirrorsWorld
