SPECIFICATION Spec
CONSTANTS
  Stops = {a, b, c}
  Lines = {1, 2, 3}
  Costs = {1}
  MaxCost = 3
  Null = null
  Undefined = undefined
INVARIANTS TypeOK CountsExact SameNetwork PathsJoin
SYMMETRY Symmetry
CHECK_DEADLOCK FALSE
