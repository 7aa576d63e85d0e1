SPECIFICATION Spec

CONSTANTS
  Refs <- FourNodes
  Disjoint <- OneTwoDisjoint
  Droppable = {2}
  MaxRequest = 2
  MixedBatches = FALSE

INVARIANTS TablesAreCurrent RefusesContradictionsOnly
PROPERTIES ImplementsLedger
CHECK_DEADLOCK FALSE
