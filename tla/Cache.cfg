SPECIFICATION Spec
CONSTANTS
  DramBlocks = 4
  Words <- OneWord
  Values <- Bits
  Zero = 0
  DramTime <- SlowDram
  Hierarchies <- SmallHierarchies
INVARIANTS
  Inclusion
PROPERTIES
  Coherent
  ResetLosesOnlyDirty
CHECK_DEADLOCK FALSE
