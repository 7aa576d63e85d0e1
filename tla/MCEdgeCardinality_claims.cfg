SPECIFICATION FairSpec

CONSTANTS
  Writers = {w1, w2}
  Edges = {e1, e2}
  Keys = {k1}
  Ends = {t1}
  Open = Open
  Keep = Keep
  NoRow = NoRow
  NoClaim = NoClaim
  Untouched = Untouched
  Free = Free
  NoOp = NoOp
  Declared = "one"
  Ops = {"create", "import", "update", "softDelete"}
  CaptureEnabled = FALSE
  SingleWriter = FALSE
  UserTransactions = FALSE
  MaxOps = 4

INVARIANTS CountedHoldsClaim
PROPERTIES OperationsEnd
