SPECIFICATION Spec

CONSTANTS
  Writers = {w1, w2}
  Edges = {e1, e2}
  Keys = {k1}
  Ends = {t1}
  Open = Open
  Keep = Keep
  NoRow = NoRow
  NoClaim = NoClaim
  Untouched = Untouched
  Free = Free
  NoOp = NoOp
  Declared = "oneActive"
  Ops = {"create", "resurrect", "update", "softDelete", "hardDelete", "import"}
  CaptureEnabled = FALSE
  SingleWriter = TRUE
  UserTransactions = TRUE
  MaxOps = 4

SYMMETRY WriterSymmetry
INVARIANTS CountedHoldsClaim
PROPERTIES PurgeDropsOnlyTakeableClaims
