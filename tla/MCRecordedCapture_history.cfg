\* Two transactions of one branch each, every operation, three prior graphs.
CONSTANTS
    t1 = t1  t2 = t2  b1 = b1  b2 = b2  b3 = b3  n1 = n1  n2 = n2  e1 = e1
    v1 = v1  v2 = v2
    Txns = {t1, t2}
    Branches = {b1, b2}
    Scope <- OneEach
    Nodes = {n1}
    Edges = {e1}
    Endpoint <- Hangs
    Values = {v1, v2}
    Tombstone = Tombstone
    Absent = Absent
    Untouched = Untouched
    Reread = Reread
    Flusher = Flusher
    Free = Free
    Ops = {"create", "update", "revive", "resurrect", "retire", "retract", "purge"}
    Seeds <- SeveralSeeds
    JoinsBranches = TRUE
    MaxOps = 2
    MaxRevision = 4
SPECIFICATION Spec
INVARIANTS OneVersion HistoryIsLive NoEdgeOutlivesItsNode
PROPERTIES PastIsFixed ImplementsLedger
