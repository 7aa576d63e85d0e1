\* Callbacks that may leave a branch behind race a second transaction, up to the last revision.
CONSTANTS
    t1 = t1  t2 = t2  b1 = b1  b2 = b2  b3 = b3  n1 = n1  n2 = n2  e1 = e1
    v1 = v1  v2 = v2
    Txns = {t1, t2}
    Branches = {b1, b2, b3}
    Scope <- TwoAndOne
    Nodes = {n1}
    Edges = {e1}
    Endpoint <- Hangs
    Values = {v1}
    Tombstone = Tombstone
    Absent = Absent
    Untouched = Untouched
    Reread = Reread
    Flusher = Flusher
    Free = Free
    Ops = {"create", "retire", "purge"}
    Seeds <- NodesSeed
    JoinsBranches = FALSE
    MaxOps = 1
    MaxRevision = 3
SPECIFICATION FairSpec
INVARIANTS TypeOK
PROPERTIES SettledEnds
