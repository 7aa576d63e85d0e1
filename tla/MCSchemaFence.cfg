SPECIFICATION FairSpec

CONSTANTS
  Kinds = {k1}
  Writers = {w1, w2}
  Careless = {w2}
  Committers = {c1, c2}
  Free = Free
  None = None
  MaxVersion = 3
  MaxStarts = 4
  MaxWrites = 2

INVARIANTS TypeOK StagedUnderActive PrudentNeverInCycle
PROPERTIES MovesFromItsBase GuardedDropStrandsNothing ImplementsHistory SchemaWritesEnd
CHECK_DEADLOCK FALSE
