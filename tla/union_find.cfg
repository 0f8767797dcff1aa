CONSTANTS
  Items = {0, 1, 2, 3, 4}
SPECIFICATION Spec
INVARIANTS
  RankBound
  RanksClimb
PROPERTIES
  ImplementsLabels
