SPECIFICATION Spec

CONSTANTS
  w1 = w1  w2 = w2  n1 = n1  n2 = n2  n3 = n3
  Writers = {w1, w2}
  Nodes = {n1, n2, n3}
  Addresses <- OneWriterPerKeyedNode
  Offered <- KeylessThird
  Constraints = {1, 2}
  CrossKind = {1}
  Keys = {k1, k2}
  Unset = Unset
  Keep = Keep
  Absent = Absent
  Nobody = Nobody
  Untouched = Untouched
  Free = Free
  NoOp = NoOp
  Ops = {"create", "update", "revive", "import", "delete", "purge"}
  Tracked = FALSE
  MaxOps = 2

SYMMETRY PairSymmetry
INVARIANTS TypeOK ClaimsMirrorRows
PROPERTIES RefusalLeavesNoTrace
CHECK_DEADLOCK FALSE
