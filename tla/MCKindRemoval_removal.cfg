SPECIFICATION FairSpec

CONSTANTS
  Kinds = {person, code}
  CodeKinds = {code}
  Admins = {a1, a2}
  Cleaners = {c1}
  MaxRows = 1
  MaxVersion = 3
  MaxChanges = 3
  MaxFaults = 1

INVARIANTS TypeOK NothingForgotten
PROPERTIES ImplementsHistory DroppedKindsReclaimed
CHECK_DEADLOCK FALSE
