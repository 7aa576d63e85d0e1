SPECIFICATION Spec

CONSTANTS
  Refs <- FourNodes
  Disjoint <- OneTwoDisjoint
  Droppable = {2}
  MaxRequest = 1
  MixedBatches = TRUE

INVARIANTS NeverContradictory
CHECK_DEADLOCK FALSE
