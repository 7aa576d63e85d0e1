SPECIFICATION Spec

CONSTANTS
  Writers = {w1}
  Mergers = {m1, m2}
  Ids = {1, 2, 3}
  Initially = {3}
  BranchIds = {2, 3}
  CreatedIds = {1}
  Twins = {1}
  Targets = {"revision", "history"}
  Original = Original
  None = None
  Nobody = Nobody
  MaxAttempts = 2
  MaxWrites = 1
  MaxFaults = 1

SYMMETRY MergerSymmetry
INVARIANTS TypeOK
PROPERTIES ImplementsTarget AdditionsResolve
CHECK_DEADLOCK FALSE
