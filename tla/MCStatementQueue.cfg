\* Three branches, two units each; liveness is checked, so no symmetry.
SPECIFICATION Spec

CONSTANTS
  b1 = b1  b2 = b2  b3 = b3  ef40 = ef40  ef100 = ef100  ef200 = ef200
  Branches = {b1, b2, b3}
  Settings = {ef40, ef100, ef200}
  Default = ef40
  Plain = Plain
  NotSaved = NotSaved
  Units = {Plain, ef100, ef200}
  MaxUnits = 2

INVARIANTS TypeOK OneInFlight RunsUnderOwnSetting
PROPERTIES UnitsSettle TransactionEnds
CHECK_DEADLOCK FALSE
