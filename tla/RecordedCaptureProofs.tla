------------------------ MODULE RecordedCaptureProofs ------------------------
(***************************************************************************)
(* What recorded-time capture guarantees for any transactions, branches,   *)
(* entities and bounds.                                                    *)
(***************************************************************************)
EXTENDS RecordedCapture, FiniteSetTheorems, TLAPS

RecordedRows == [id : Entities, row : Rows, from : 1..MaxRevision, to : 1..MaxRevision]
Phases == FlushStatements \cup {"open", "drain", "ended"}
Line == Seq(Branches \cup {Flusher})

\* The recorded rows of an entity that are open: no revision closed them yet.
OpenOf(e) == {r \in recorded : r.id = e /\ r.to = MaxRevision}

\* What a transaction has in line and in its flush has its shape.
Shapes ==
    /\ line \in [Txns -> Line]
    /\ opening \in [Txns -> SUBSET RecordedRows]

\* A transaction that allocated a revision holds the clock, and the revision is
\* the next one until it ends.
ClockHeld ==
    \A t \in Txns :
        /\ phase[t] \in {"open", "clock", "read"} => revision[t] = 0
        /\ phase[t] = "read" => clockLock = t
        /\ phase[t] \in FlushStatements \ {"clock", "read"} => revision[t] # 0
        /\ phase[t] # "ended" /\ revision[t] # 0 =>
              clockLock = t /\ revision[t] = clock + 1
        /\ phase[t] = "ended" \/ revision[t] = 0 => closing[t] = {} /\ opening[t] = {}

\* A flush closes open rows of what it touched, all those of an entity before
\* it opens another.
Closes ==
    \A t \in Txns :
        /\ \A r \in closing[t] : r.to = MaxRevision /\ touched[t][r.id] # Untouched
        /\ \A r \in opening[t] : OpenOf(r.id) \subseteq closing[t]
        /\ phase[t] \in {"readNodes", "insertNodes"} => OpenRows(t, Nodes) \subseteq closing[t]
        /\ phase[t] \in {"readEdges", "insertEdges"} => OpenRows(t, Edges) \subseteq closing[t]

\* A flush opens one row of an entity, from an after-image.
Opens ==
    \A t \in Txns :
        /\ phase[t] \in {"advance", "closeNodes", "readNodes", "insertNodes"} => opening[t] = {}
        /\ phase[t] \in {"closeEdges", "readEdges", "insertEdges"} =>
              \A r \in opening[t] : r.id \in Nodes
        /\ phase[t] = "insertNodes" => \A e \in Nodes : touched[t][e] # Reread
        /\ phase[t] = "insertEdges" => \A e \in Edges : touched[t][e] # Reread
        /\ \A r, s \in opening[t] : r.id = s.id => r = s

\* Recorded rows begin in the past, end in the past or not at all, and those of
\* an entity do not overlap.
Intervals ==
    /\ \A x \in recorded : x.from <= clock /\ x.from < x.to /\ (x.to = MaxRevision \/ x.to <= clock)
    /\ \A x, y \in recorded : x.id = y.id /\ x.from < y.to /\ y.from < x.to => x = y

FlushInv == ClockHeld /\ Closes /\ Opens /\ Intervals
IntervalInv == TypeOK /\ Shapes /\ FlushInv

USE DEF Entities, Rows, Graphs, RecordedRows, Line

-----------------------------------------------------------------------------
(* The constants. *)

\* A set of three has no fourth element.
LEMMA ThreeAtMost ==
    ASSUME NEW a, NEW b, NEW c
    PROVE  Cardinality({a, b, c}) # 4
<1>1. IsFiniteSet({a}) /\ Cardinality({a}) = 1
  BY FS_Singleton
<1>2. IsFiniteSet({a} \cup {b}) /\ Cardinality({a} \cup {b}) \in 1..2
  BY <1>1, FS_AddElement
<1>3. Cardinality(({a} \cup {b}) \cup {c}) \in 1..3
  BY <1>2, FS_AddElement
<1>4. ({a} \cup {b}) \cup {c} = {a, b, c}
  OBVIOUS
<1> QED
  BY <1>3, <1>4

\* The markers differ from each other and from every content.
LEMMA Markers ==
    /\ Tombstone # Absent /\ Tombstone # Untouched /\ Tombstone # Reread
    /\ Absent # Untouched /\ Absent # Reread /\ Untouched # Reread
    /\ {Absent, Untouched, Reread} \cap Rows = {}
<1> DEFINE four == {Tombstone, Absent, Untouched, Reread}
<1>1. Cardinality(four) = 4
  BY DistinctAssumption
<1>2. \A a, b, c : four # {a, b, c}
  BY <1>1, ThreeAtMost
<1>3. /\ Tombstone # Absent /\ Tombstone # Untouched /\ Tombstone # Reread
      /\ Absent # Untouched /\ Absent # Reread /\ Untouched # Reread
  <2>1. Tombstone = Absent => four = {Absent, Untouched, Reread}
    OBVIOUS
  <2>2. Tombstone = Untouched => four = {Absent, Untouched, Reread}
    OBVIOUS
  <2>3. Tombstone = Reread => four = {Absent, Untouched, Reread}
    OBVIOUS
  <2>4. Absent = Untouched => four = {Tombstone, Untouched, Reread}
    OBVIOUS
  <2>5. Absent = Reread => four = {Tombstone, Untouched, Reread}
    OBVIOUS
  <2>6. Untouched = Reread => four = {Tombstone, Absent, Reread}
    OBVIOUS
  <2> HIDE DEF four
  <2> QED
    BY <1>2, <2>1, <2>2, <2>3, <2>4, <2>5, <2>6
<1> QED
  BY <1>3, DistinctAssumption

-----------------------------------------------------------------------------
(* The line of a transaction. *)

\* Leaving the head of a line, and queueing again at its end.
LEMMA LineMoves ==
    ASSUME NEW s \in Line, s # <<>>, NEW who \in Branches \cup {Flusher}
    PROVE  Tail(s) \in Line /\ Append(Tail(s), who) \in Line
OBVIOUS

\* What a transaction sees is a graph.
LEMMA ViewIsGraph ==
    ASSUME TypeOK, NEW t \in Txns
    PROVE  View(t) \in Graphs
BY Markers DEF TypeOK, View

\* The statement a branch goes on to.
LEMMA AfterType ==
    ASSUME NEW j, NEW s \in BranchStatements, NEW edges
    PROVE  After(j, s, edges) \in BranchStatements \cup {"idle"}
BY DEF After, First, BranchStatements

Queued ==
    /\ at \in [Branches -> BranchStatements \cup {"idle"}]
    /\ line \in [Txns -> Line]
    /\ found \in [Branches -> SUBSET Edges]

LEMMA ContinueType ==
    ASSUME TypeOK, Shapes, NEW b \in Branches, NEW s \in BranchStatements,
           NEW edges \in SUBSET Edges,
           Turn(Scope[b], b), Continue(b, s, edges)
    PROVE  Queued'
<1> DEFINE next == After(job[b], s, edges)
<1>1. next \in BranchStatements \cup {"idle"}
  BY AfterType
<1>2. Scope[b] \in Txns /\ line[Scope[b]] \in Line /\ line[Scope[b]] # <<>>
  BY ScopeAssumption DEF Shapes, Turn
<1>3. Tail(line[Scope[b]]) \in Line /\ Append(Tail(line[Scope[b]]), b) \in Line
  BY <1>2, LineMoves
<1> HIDE DEF next
<1> QED
  BY <1>1, <1>2, <1>3 DEF Continue, next, TypeOK, Shapes, Queued

LEMMA ThrowType ==
    ASSUME TypeOK, Shapes, NEW b \in Branches, Turn(Scope[b], b), Throw(b)
    PROVE  Queued'
<1>1. Scope[b] \in Txns /\ line[Scope[b]] \in Line /\ line[Scope[b]] # <<>>
  BY ScopeAssumption DEF Shapes, Turn
<1>2. Tail(line[Scope[b]]) \in Line
  BY <1>1, LineMoves
<1> QED
  BY <1>1, <1>2 DEF Throw, TypeOK, Shapes, Queued

-----------------------------------------------------------------------------
(* The statements of the branches. *)

\* They leave the committed store, the flushes and what a settled transaction
\* touched as they are.
LEMMA BranchFrame ==
    ASSUME TypeOK, NEW b \in Branches, Call(b) \/ Statement(b)
    PROVE  /\ UNCHANGED <<store, flush, phase>>
           /\ \A t \in Txns : Sealed(t) => touched'[t] = touched[t]
<1>1. Scope[b] \in Txns
  BY ScopeAssumption
<1>2. CASE UNCHANGED <<store, flush, phase, touched>>
  BY <1>2
<1>3. CASE Cut(b)
  BY <1>1, <1>3 DEF Cut, Apply, Touch, TypeOK
<1>4. CASE Sweep(b)
  BY <1>1, <1>4 DEF Sweep, Apply, Touch, TypeOK
<1>5. CASE WriteRow(b)
  BY <1>1, <1>5 DEF WriteRow, Apply, Touch, TypeOK
<1>6. CASE Remove(b)
  BY <1>1, <1>6 DEF Remove, Apply, Touch, TypeOK
<1>7. CASE Call(b) \/ LockGraph(b) \/ Probe(b) \/ List(b)
  BY <1>2, <1>7 DEF Call, LockGraph, Probe, List
<1> QED
  BY <1>3, <1>4, <1>5, <1>6, <1>7 DEF Statement

LEMMA FlushInvKept ==
    ASSUME FlushInv, UNCHANGED <<store, flush, phase>>,
           \A t \in Txns : Sealed(t) => touched'[t] = touched[t]
    PROVE  FlushInv'
<1> USE DEF FlushInv, store, flush
<1>1. ClockHeld' /\ Intervals'
  BY DEF ClockHeld, Intervals
<1>2. ASSUME NEW t \in Txns, Sealed(t), NEW table
      PROVE  OpenRows(t, table)' = OpenRows(t, table)
  BY <1>2 DEF OpenRows, Touches
<1>3. \A t \in Txns : closing[t] # {} \/ opening[t] # {} => Sealed(t)
  BY DEF ClockHeld, Sealed
<1>4. Closes'
  BY <1>2, <1>3 DEF Closes, OpenOf, Sealed
<1>5. Opens'
  BY <1>3 DEF Opens, Sealed
<1> QED
  BY <1>1, <1>4, <1>5

\* What a statement writes and touches has its shape.
Written ==
    /\ mine \in [Txns -> [Entities -> Rows \cup {Absent, Untouched}]]
    /\ touched \in [Txns -> [Entities -> Rows \cup {Absent, Untouched, Reread}]]

LEMMA ApplyType ==
    ASSUME TypeOK, NEW b \in Branches, NEW rows, NEW touches, Apply(b, rows, touches),
           \A e \in Entities \cap DOMAIN rows : rows[e] \in Rows \cup {Absent},
           \A e \in Entities \cap DOMAIN touches : touches[e] \in Rows \cup {Reread}
    PROVE  Written' /\ UNCHANGED <<graphLock, fenced, calls>>
<1>1. Scope[b] \in Txns
  BY ScopeAssumption
<1>2. /\ mine \in [Txns -> [Entities -> Rows \cup {Absent, Untouched}]]
      /\ touched \in [Txns -> [Entities -> Rows \cup {Absent, Untouched, Reread}]]
  BY DEF TypeOK
<1> HIDE DEF Entities, Rows
<1>3. mine' \in [Txns -> [Entities -> Rows \cup {Absent, Untouched}]]
  BY <1>1, <1>2 DEF Apply
<1>4. touched' \in [Txns -> [Entities -> Rows \cup {Absent, Untouched, Reread}]]
  BY <1>1, <1>2 DEF Apply, Touch
<1> QED
  BY <1>3, <1>4 DEF Written, Apply

LEMMA BranchTypes ==
    ASSUME TypeOK, Shapes, NEW b \in Branches, Call(b) \/ Statement(b)
    PROVE  TypeOK' /\ Shapes'
<1> DEFINE t == Scope[b]
<1>1. t \in Txns /\ View(t) \in Graphs
  BY ScopeAssumption, ViewIsGraph
<1>2. UNCHANGED <<live, recorded, clock, clockLock, revision, closing, opening, phase>>
  BY BranchFrame DEF store, flush
<1>3. ASSUME Written', Queued', graphLock' \in Txns \cup {Free},
             fenced' \in [Txns -> {"none", "pending", "held"}],
             calls' \in [Branches -> 0..MaxOps]
      PROVE  TypeOK' /\ Shapes'
  <2>1. line' \in [Txns -> Line]
    BY <1>3 DEF Queued
  <2>2. \A u \in Txns : \A i \in DOMAIN line'[u] : line'[u][i] \in Branches \cup {Flusher}
    BY <2>1
  <2> QED
    BY <1>2, <1>3, <2>1, <2>2 DEF TypeOK, Shapes, Written, Queued
<1>4. Written /\ Queued
  BY DEF TypeOK, Shapes, Written, Queued
<1>5. CASE Call(b)
  <2>1. First(job'[b]) \in BranchStatements
    BY DEF First, BranchStatements
  <2>2. at' \in [Branches -> BranchStatements \cup {"idle"}]
    BY <1>5, <2>1 DEF Call, TypeOK, BranchStatements
  <2>3. line' \in [Txns -> Line]
    BY <1>1, <1>5 DEF Call, Shapes
  <2>4. calls' \in [Branches -> 0..MaxOps]
    BY <1>5, BoundsAssumption DEF Call, TypeOK
  <2>5. Written' /\ Queued'
    BY <1>4, <1>5, <2>2, <2>3 DEF Call, Written, Queued
  <2> QED
    BY <1>1, <1>3, <1>5, <2>4, <2>5 DEF Call, TypeOK
<1>6. CASE LockGraph(b)
  <2>1. Queued'
    BY <1>6, ContinueType DEF LockGraph, BranchStatements
  <2> QED
    BY <1>1, <1>3, <1>4, <1>6, <2>1 DEF LockGraph, TypeOK, Written
<1>7. CASE Probe(b)
  <2>1. Queued'
    <3>1. CASE Continue(b, "probe", {})
      BY <1>7, <3>1, ContinueType DEF Probe, BranchStatements
    <3>2. CASE Continue(b, "probe", {x \in EdgesOf(job[b].on) : View(t)[x] \in Values})
      <4>1. {x \in EdgesOf(job[b].on) : View(t)[x] \in Values} \in SUBSET Edges
        BY DEF EdgesOf
      <4> QED
        BY <1>7, <3>2, <4>1, ContinueType DEF Probe, BranchStatements
    <3>3. CASE Throw(b)
      BY <1>7, <3>3, ThrowType DEF Probe
    <3> QED
      BY <1>7, <3>1, <3>2, <3>3 DEF Probe
  <2> QED
    BY <1>3, <1>4, <1>7, <2>1 DEF Probe, TypeOK, Written
<1>8. CASE List(b)
  <2>1. {x \in EdgesOf(job[b].on) : View(t)[x] # Absent} \in SUBSET Edges
    BY DEF EdgesOf
  <2>2. Queued'
    BY <1>8, <2>1, ContinueType DEF List, BranchStatements
  <2> QED
    BY <1>3, <1>4, <1>8, <2>2 DEF List, TypeOK, Written
<1>9. CASE Cut(b)
  <2> DEFINE rows == IF job[b].op = "purge" THEN [e \in found[b] |-> Absent]
                     ELSE [e \in {x \in found[b] : View(t)[x] \in Values} |-> Tombstone]
             touches == [e \in found[b] |-> Reread]
  <2>1. \A e \in Entities \cap DOMAIN rows : rows[e] \in Rows \cup {Absent}
    OBVIOUS
  <2>2. \A e \in Entities \cap DOMAIN touches : touches[e] \in Rows \cup {Reread}
    OBVIOUS
  <2>3. Apply(b, rows, touches) /\ Turn(t, b) /\ Continue(b, "cut", {})
    BY <1>9 DEF Cut
  <2> HIDE DEF rows, touches
  <2>4. Written' /\ UNCHANGED <<graphLock, fenced, calls>>
    BY <2>1, <2>2, <2>3, ApplyType
  <2>5. Queued'
    BY <2>3, ContinueType DEF BranchStatements
  <2> QED
    BY <1>3, <2>4, <2>5 DEF TypeOK
<1>10. CASE Sweep(b)
  <2> DEFINE rows == [e \in EdgesOf(job[b].on) |-> Absent]
             touches == [e \in {} |-> Reread]
  <2>1. \A e \in Entities \cap DOMAIN rows : rows[e] \in Rows \cup {Absent}
    OBVIOUS
  <2>2. \A e \in Entities \cap DOMAIN touches : touches[e] \in Rows \cup {Reread}
    OBVIOUS
  <2>3. Apply(b, rows, touches) /\ Turn(t, b) /\ Continue(b, "sweep", found[b])
    BY <1>10 DEF Sweep
  <2> HIDE DEF rows, touches
  <2>4. Written' /\ UNCHANGED <<graphLock, fenced, calls>>
    BY <2>1, <2>2, <2>3, ApplyType
  <2>5. found[b] \in SUBSET Edges
    BY DEF TypeOK
  <2>6. Queued'
    BY <2>3, <2>5, ContinueType DEF BranchStatements
  <2> QED
    BY <1>3, <2>4, <2>6 DEF TypeOK
<1>11. CASE WriteRow(b)
  <2>1. CASE Throw(b) /\ UNCHANGED <<graphLock, mine, touched, fenced, calls>>
    BY <1>3, <1>4, <1>11, <2>1, ThrowType DEF WriteRow, TypeOK, Written
  <2>2. ASSUME NEW v \in Values, NEW returns \in BOOLEAN, Continue(b, "write", {}),
               Apply(b, [x \in {job[b].on} |-> v],
                     [x \in {job[b].on} |-> IF returns THEN v ELSE Reread])
        PROVE  TypeOK' /\ Shapes'
    <3> DEFINE rows == [x \in {job[b].on} |-> v]
               touches == [x \in {job[b].on} |-> IF returns THEN v ELSE Reread]
    <3>1. \A e \in Entities \cap DOMAIN rows : rows[e] \in Rows \cup {Absent}
      OBVIOUS
    <3>2. \A e \in Entities \cap DOMAIN touches : touches[e] \in Rows \cup {Reread}
      OBVIOUS
    <3>3. Apply(b, rows, touches)
      BY <2>2
    <3> HIDE DEF rows, touches
    <3>4. Written' /\ UNCHANGED <<graphLock, fenced, calls>>
      BY <3>1, <3>2, <3>3, ApplyType
    <3>5. Queued'
      BY <1>11, <2>2, ContinueType DEF WriteRow, BranchStatements
    <3> QED
      BY <1>3, <3>4, <3>5 DEF TypeOK
  <2> QED
    BY <1>11, <2>1, <2>2 DEF WriteRow
<1>12. CASE Remove(b)
  <2> DEFINE e == job[b].on
             rows == IF job[b].op = "purge" THEN [x \in {e} |-> Absent]
                     ELSE [x \in {y \in {e} : View(t)[y] \in Values} |-> Tombstone]
             touches == [x \in Removed(b) |-> Reread]
  <2>1. \A x \in Entities \cap DOMAIN rows : rows[x] \in Rows \cup {Absent}
    OBVIOUS
  <2>2. \A x \in Entities \cap DOMAIN touches : touches[x] \in Rows \cup {Reread}
    OBVIOUS
  <2>3. Apply(b, rows, touches) /\ Turn(t, b) /\ Continue(b, "write", {})
    BY <1>12 DEF Remove
  <2> HIDE DEF rows, touches
  <2>4. Written' /\ UNCHANGED <<graphLock, fenced, calls>>
    BY <2>1, <2>2, <2>3, ApplyType
  <2>5. Queued'
    BY <2>3, ContinueType DEF BranchStatements
  <2> QED
    BY <1>3, <2>4, <2>5 DEF TypeOK
<1> QED
  BY <1>5, <1>6, <1>7, <1>8, <1>9, <1>10, <1>11, <1>12 DEF Statement

-----------------------------------------------------------------------------
(* The statements of a flush. *)

\* The order of its statements.
LEMMA FlushOrder ==
    ASSUME NEW t \in Txns
    PROVE  /\ phase[t] = "clock" => FlushAfter(t) = "read"
           /\ phase[t] = "read" => FlushAfter(t) = "advance"
           /\ phase[t] = "advance" => FlushAfter(t) \in {"closeNodes", "closeEdges", "drain"}
           /\ phase[t] = "closeNodes" => FlushAfter(t) = "readNodes"
           /\ phase[t] = "readNodes" => FlushAfter(t) = "insertNodes"
           /\ phase[t] = "insertNodes" => FlushAfter(t) \in {"closeEdges", "drain"}
           /\ phase[t] = "closeEdges" => FlushAfter(t) = "readEdges"
           /\ phase[t] = "readEdges" => FlushAfter(t) = "insertEdges"
           /\ phase[t] = "insertEdges" => FlushAfter(t) = "drain"
<1> DEFINE edges == IF Touches(t, Edges) = {} THEN "drain" ELSE "closeEdges"
<1>1. edges \in {"drain", "closeEdges"}
  OBVIOUS
<1> HIDE DEF edges
<1> QED
  BY <1>1 DEF FlushAfter, edges

\* A statement of a flush advances its transaction alone.
LEMMA FlushOnStep ==
    ASSUME TypeOK, Shapes, NEW t \in Txns, NEW statement \in FlushStatements,
           FlushOn(t, statement)
    PROVE  /\ phase[t] = statement /\ phase'[t] = FlushAfter(t)
           /\ \A u \in Txns \ {t} : phase'[u] = phase[u]
           /\ phase' \in [Txns -> Phases] /\ line' \in [Txns -> Line]
           /\ UNCHANGED <<live, recorded, clock, graphLock, mine, fenced, job, at, found, calls>>
<1>1. phase[t] = statement
  BY DEF FlushOn
<1>2. FlushAfter(t) \in Phases
  BY <1>1, FlushOrder DEF FlushStatements, Phases
<1>3. line[t] \in Line /\ line[t] # <<>>
  BY DEF FlushOn, Turn, Shapes
<1>4. Tail(line[t]) \in Line /\ Append(Tail(line[t]), Flusher) \in Line
  BY <1>3, LineMoves
<1> QED
  BY <1>1, <1>2, <1>4 DEF FlushOn, TypeOK, Shapes, Phases, store, branch

LEMMA FlushTypes ==
    ASSUME IntervalInv, NEW t \in Txns, NEW statement \in FlushStatements,
           FlushOn(t, statement),
           clockLock' \in Txns \cup {Free},
           touched' \in [Txns -> [Entities -> Rows \cup {Absent, Untouched, Reread}]],
           revision' \in [Txns -> 0..(MaxRevision - 1)],
           closing' \in [Txns -> SUBSET recorded],
           opening' \in [Txns -> SUBSET RecordedRows],
           \A u \in Txns : \A r \in opening'[u] : r.from = revision'[u] /\ r.to = MaxRevision
    PROVE  TypeOK' /\ Shapes'
<1> TypeOK /\ Shapes
  BY DEF IntervalInv
<1>1. /\ phase' \in [Txns -> Phases] /\ line' \in [Txns -> Line]
      /\ UNCHANGED <<live, recorded, clock, graphLock, mine, fenced, job, at, found, calls>>
  BY FlushOnStep
<1>2. \A u \in Txns : \A i \in DOMAIN line'[u] : line'[u][i] \in Branches \cup {Flusher}
  BY <1>1
<1> QED
  BY <1>1, <1>2 DEF TypeOK, Shapes, Phases

LEMMA LockClockStep ==
    ASSUME IntervalInv, NEW t \in Txns, LockClock(t)
    PROVE  IntervalInv'
<1> TypeOK /\ Shapes /\ ClockHeld /\ Closes /\ Opens /\ Intervals
  BY DEF IntervalInv, FlushInv
<1>1. FlushOn(t, "clock") /\ clockLock = Free /\ clockLock' = t
      /\ UNCHANGED <<touched, revision, closing, opening>>
  BY DEF LockClock
<1>2. phase[t] = "clock" /\ phase'[t] = "read" /\ (\A u \in Txns \ {t} : phase'[u] = phase[u])
      /\ UNCHANGED <<recorded, clock>>
  BY <1>1, FlushOnStep, FlushOrder DEF FlushStatements
<1>3. TypeOK' /\ Shapes'
  <2>1. /\ clockLock' \in Txns \cup {Free} /\ "clock" \in FlushStatements
        /\ touched' \in [Txns -> [Entities -> Rows \cup {Absent, Untouched, Reread}]]
        /\ revision' \in [Txns -> 0..(MaxRevision - 1)]
        /\ closing' \in [Txns -> SUBSET recorded] /\ opening' \in [Txns -> SUBSET RecordedRows]
    BY <1>1 DEF TypeOK, Shapes, FlushStatements
  <2>2. \A u \in Txns : \A r \in opening'[u] : r.from = revision'[u] /\ r.to = MaxRevision
    BY <1>1 DEF TypeOK
  <2> QED
    BY <1>1, <2>1, <2>2, FlushTypes
<1>4. ClockHeld' /\ Intervals'
  BY <1>1, <1>2, DistinctAssumption DEF ClockHeld, Intervals, FlushStatements
<1>5. Closes' /\ Opens'
  BY <1>1, <1>2 DEF Closes, Opens, OpenOf, OpenRows, Touches
<1> QED
  BY <1>3, <1>4, <1>5 DEF IntervalInv, FlushInv

LEMMA ReadClockStep ==
    ASSUME IntervalInv, NEW t \in Txns, ReadClock(t)
    PROVE  IntervalInv'
<1> TypeOK /\ Shapes /\ ClockHeld /\ Closes /\ Opens /\ Intervals
  BY DEF IntervalInv, FlushInv
<1>1. FlushOn(t, "read") /\ clock + 1 < MaxRevision
      /\ revision' = [revision EXCEPT ![t] = clock + 1]
      /\ UNCHANGED <<touched, clockLock, closing, opening>>
  BY DEF ReadClock, Usable
<1>2. phase[t] = "read" /\ phase'[t] = "advance" /\ (\A u \in Txns \ {t} : phase'[u] = phase[u])
      /\ UNCHANGED <<recorded, clock>>
  BY <1>1, FlushOnStep, FlushOrder DEF FlushStatements
<1>3. opening[t] = {} /\ closing[t] = {}
  BY <1>2 DEF ClockHeld
<1>4. revision' \in [Txns -> 0..(MaxRevision - 1)]
  BY <1>1, BoundsAssumption DEF TypeOK
<1>5. TypeOK' /\ Shapes'
  <2>1. /\ clockLock' \in Txns \cup {Free} /\ "read" \in FlushStatements
        /\ touched' \in [Txns -> [Entities -> Rows \cup {Absent, Untouched, Reread}]]
        /\ closing' \in [Txns -> SUBSET recorded] /\ opening' \in [Txns -> SUBSET RecordedRows]
    BY <1>1 DEF TypeOK, Shapes, FlushStatements
  <2>2. \A u \in Txns : \A r \in opening'[u] : r.from = revision'[u] /\ r.to = MaxRevision
    BY <1>1, <1>3 DEF TypeOK
  <2> QED
    BY <1>1, <1>4, <2>1, <2>2, FlushTypes
<1>6. ClockHeld' /\ Intervals'
  BY <1>1, <1>2, <1>3 DEF ClockHeld, Intervals, FlushStatements, TypeOK
<1>7. Closes' /\ Opens'
  BY <1>1, <1>2, <1>3 DEF Closes, Opens, OpenOf, OpenRows, Touches
<1> QED
  BY <1>5, <1>6, <1>7 DEF IntervalInv, FlushInv

LEMMA AdvanceClockStep ==
    ASSUME IntervalInv, NEW t \in Txns, AdvanceClock(t)
    PROVE  IntervalInv'
<1> TypeOK /\ Shapes /\ ClockHeld /\ Closes /\ Opens /\ Intervals
  BY DEF IntervalInv, FlushInv
<1>1. FlushOn(t, "advance") /\ UNCHANGED <<touched, clockLock, revision, closing, opening>>
  BY DEF AdvanceClock, flush
<1>2. /\ phase[t] = "advance" /\ phase'[t] \in {"closeNodes", "closeEdges", "drain"}
      /\ \A u \in Txns \ {t} : phase'[u] = phase[u]
      /\ UNCHANGED <<recorded, clock>>
  BY <1>1, FlushOnStep, FlushOrder DEF FlushStatements
<1>3. TypeOK' /\ Shapes'
  <2>1. /\ clockLock' \in Txns \cup {Free} /\ "advance" \in FlushStatements
        /\ touched' \in [Txns -> [Entities -> Rows \cup {Absent, Untouched, Reread}]]
        /\ revision' \in [Txns -> 0..(MaxRevision - 1)]
        /\ closing' \in [Txns -> SUBSET recorded] /\ opening' \in [Txns -> SUBSET RecordedRows]
    BY <1>1 DEF TypeOK, Shapes, FlushStatements
  <2>2. \A u \in Txns : \A r \in opening'[u] : r.from = revision'[u] /\ r.to = MaxRevision
    BY <1>1 DEF TypeOK
  <2> QED
    BY <1>1, <2>1, <2>2, FlushTypes
<1>4. ClockHeld' /\ Intervals'
  BY <1>1, <1>2 DEF ClockHeld, Intervals, FlushStatements
<1>5. Closes' /\ Opens'
  BY <1>1, <1>2 DEF Closes, Opens, OpenOf, OpenRows, Touches
<1> QED
  BY <1>3, <1>4, <1>5 DEF IntervalInv, FlushInv

LEMMA CloseOpenStep ==
    ASSUME IntervalInv, NEW t \in Txns, NEW table, NEW statement, CloseOpen(t, statement, table),
           \/ statement = "closeNodes" /\ table = Nodes
           \/ statement = "closeEdges" /\ table = Edges
    PROVE  IntervalInv'
<1> TypeOK /\ Shapes /\ ClockHeld /\ Closes /\ Opens /\ Intervals
  BY DEF IntervalInv, FlushInv
<1>1. /\ FlushOn(t, statement) /\ statement \in FlushStatements
      /\ closing' = [closing EXCEPT ![t] = @ \cup OpenRows(t, table)]
      /\ UNCHANGED <<touched, clockLock, revision, opening>>
  BY DEF CloseOpen, FlushStatements
<1>2. /\ phase[t] = statement
      /\ phase'[t] = IF statement = "closeNodes" THEN "readNodes" ELSE "readEdges"
      /\ \A u \in Txns \ {t} : phase'[u] = phase[u]
      /\ UNCHANGED <<recorded, clock>>
  BY <1>1, FlushOnStep, FlushOrder
<1>3. closing'[t] = closing[t] \cup OpenRows(t, table) /\ OpenRows(t, table) \subseteq recorded
      /\ \A u \in Txns \ {t} : closing'[u] = closing[u]
  BY <1>1 DEF OpenRows, TypeOK
<1>4. TypeOK' /\ Shapes'
  <2>1. closing' \in [Txns -> SUBSET recorded]
    BY <1>1, <1>3 DEF TypeOK
  <2>2. \A u \in Txns : \A r \in opening'[u] : r.from = revision'[u] /\ r.to = MaxRevision
    BY <1>1 DEF TypeOK
  <2>3. clockLock' \in Txns \cup {Free} /\ opening' \in [Txns -> SUBSET RecordedRows]
    BY <1>1 DEF TypeOK, Shapes
  <2>4. /\ touched' \in [Txns -> [Entities -> Rows \cup {Absent, Untouched, Reread}]]
        /\ revision' \in [Txns -> 0..(MaxRevision - 1)]
    BY <1>1 DEF TypeOK
  <2> QED
    BY <1>1, <2>1, <2>2, <2>3, <2>4, FlushTypes
<1>5. ClockHeld' /\ Intervals'
  BY <1>1, <1>2, <1>3 DEF ClockHeld, Intervals, FlushStatements
<1>6. Closes'
  <2>1. \A u \in Txns : OpenRows(u, Nodes)' = OpenRows(u, Nodes) /\ OpenRows(u, Edges)' = OpenRows(u, Edges)
    BY <1>1, <1>2 DEF OpenRows, Touches
  <2>2. \A r \in OpenRows(t, table) : r.to = MaxRevision /\ touched[t][r.id] # Untouched
    BY DEF OpenRows, Touches
  <2>3. \A r : OpenOf(r.id)' = OpenOf(r.id)
    BY <1>2 DEF OpenOf
  <2> QED
    BY <1>1, <1>2, <1>3, <2>1, <2>2, <2>3 DEF Closes
<1>7. Opens'
  BY <1>1, <1>2 DEF Opens
<1> QED
  BY <1>4, <1>5, <1>6, <1>7 DEF IntervalInv, FlushInv

\* Reading the after-images leaves what is touched as it is.
LEMMA ReadImagesTouches ==
    ASSUME TypeOK, NEW t \in Txns, NEW statement, NEW table, ReadImages(t, statement, table)
    PROVE  /\ touched' \in [Txns -> [Entities -> Rows \cup {Absent, Untouched, Reread}]]
           /\ \A u \in Txns, e \in Entities : touched'[u][e] = Untouched <=> touched[u][e] = Untouched
           /\ \A e \in Entities \cap table : touched'[t][e] # Reread
           /\ \A u \in Txns, e \in Entities :
                 touched'[u][e] # touched[u][e] => u = t /\ e \in table /\ touched[u][e] = Reread
                                                 /\ touched'[u][e] = View(t)[e]
<1>1. \A e \in Entities : AfterImage(t, e) \in Rows \cup {Absent}
  BY ViewIsGraph DEF AfterImage
<1>2. touched' = [touched EXCEPT ![t] = [e \in Entities |->
                     IF e \in table /\ @[e] = Reread THEN AfterImage(t, e) ELSE @[e]]]
  BY DEF ReadImages
<1> QED
  BY <1>1, <1>2, Markers DEF TypeOK, AfterImage

LEMMA ReadImagesStep ==
    ASSUME IntervalInv, NEW t \in Txns, NEW table, NEW statement, ReadImages(t, statement, table),
           \/ statement = "readNodes" /\ table = Nodes
           \/ statement = "readEdges" /\ table = Edges
    PROVE  IntervalInv'
<1> TypeOK /\ Shapes /\ ClockHeld /\ Closes /\ Opens /\ Intervals
  BY DEF IntervalInv, FlushInv
<1>1. /\ FlushOn(t, statement) /\ statement \in FlushStatements
      /\ UNCHANGED <<clockLock, revision, closing, opening>>
  BY DEF ReadImages, FlushStatements, flush
<1>2. /\ phase[t] = statement
      /\ phase'[t] = IF statement = "readNodes" THEN "insertNodes" ELSE "insertEdges"
      /\ \A u \in Txns \ {t} : phase'[u] = phase[u]
      /\ UNCHANGED <<recorded, clock>>
  BY <1>1, FlushOnStep, FlushOrder
<1>3. /\ touched' \in [Txns -> [Entities -> Rows \cup {Absent, Untouched, Reread}]]
      /\ \A u \in Txns, e \in Entities : touched'[u][e] = Untouched <=> touched[u][e] = Untouched
      /\ \A e \in Entities \cap table : touched'[t][e] # Reread
      /\ \A u \in Txns, e \in Entities : touched'[u][e] # touched[u][e] => u = t
  BY ReadImagesTouches
<1>4. TypeOK' /\ Shapes'
  <2>1. /\ clockLock' \in Txns \cup {Free} /\ revision' \in [Txns -> 0..(MaxRevision - 1)]
        /\ closing' \in [Txns -> SUBSET recorded] /\ opening' \in [Txns -> SUBSET RecordedRows]
    BY <1>1 DEF TypeOK, Shapes
  <2>2. \A u \in Txns : \A r \in opening'[u] : r.from = revision'[u] /\ r.to = MaxRevision
    BY <1>1 DEF TypeOK
  <2> QED
    BY <1>1, <1>3, <2>1, <2>2, FlushTypes
<1>5. ClockHeld' /\ Intervals'
  BY <1>1, <1>2 DEF ClockHeld, Intervals, FlushStatements
<1>6. Closes'
  <2>1. \A u \in Txns : OpenRows(u, Nodes)' = OpenRows(u, Nodes) /\ OpenRows(u, Edges)' = OpenRows(u, Edges)
    BY <1>2, <1>3 DEF OpenRows, Touches
  <2>2. \A r : OpenOf(r.id)' = OpenOf(r.id)
    BY <1>2 DEF OpenOf
  <2>3. \A u \in Txns : \A r \in closing[u] : r.id \in Entities
    BY DEF TypeOK
  <2> QED
    BY <1>1, <1>2, <1>3, <2>1, <2>2, <2>3 DEF Closes
<1>7. Opens'
  <2>1. \A u \in Txns \ {t}, e \in Entities : touched'[u][e] = touched[u][e]
    BY <1>3
  <2> QED
    BY <1>1, <1>2, <1>3, <2>1 DEF Opens
<1> QED
  BY <1>4, <1>5, <1>6, <1>7 DEF IntervalInv, FlushInv

\* The rows a flush inserts.
Images(t, table) ==
    {[id |-> e, row |-> touched[t][e], from |-> revision[t], to |-> MaxRevision] :
        e \in {x \in Touches(t, table) : touched[t][x] # Absent}}

LEMMA InsertImagesStep ==
    ASSUME IntervalInv, NEW t \in Txns, NEW table, NEW statement, InsertImages(t, statement, table),
           \/ statement = "insertNodes" /\ table = Nodes
           \/ statement = "insertEdges" /\ table = Edges
    PROVE  IntervalInv'
<1> TypeOK /\ Shapes /\ ClockHeld /\ Closes /\ Opens /\ Intervals
  BY DEF IntervalInv, FlushInv
<1>1. /\ FlushOn(t, statement) /\ statement \in FlushStatements
      /\ opening' = [opening EXCEPT ![t] = @ \cup Images(t, table)]
      /\ UNCHANGED <<touched, clockLock, revision, closing>>
  BY DEF InsertImages, FlushStatements, Images
<1>2. /\ phase[t] = statement
      /\ phase'[t] \in IF statement = "insertNodes" THEN {"closeEdges", "drain"} ELSE {"drain"}
      /\ \A u \in Txns \ {t} : phase'[u] = phase[u]
      /\ UNCHANGED <<recorded, clock>>
  BY <1>1, FlushOnStep, FlushOrder
<1>3. opening'[t] = opening[t] \cup Images(t, table)
      /\ \A u \in Txns \ {t} : opening'[u] = opening[u]
  BY <1>1 DEF Shapes
<1>4. revision[t] \in 1..MaxRevision /\ MaxRevision \in 1..MaxRevision
  BY <1>2, BoundsAssumption DEF ClockHeld, FlushStatements, TypeOK
<1>5. \A e \in Touches(t, table) : touched[t][e] # Absent => touched[t][e] \in Rows
  BY <1>2 DEF Touches, Opens, TypeOK
<1>6. \A r \in Images(t, table) :
          /\ r \in RecordedRows /\ r.id \in Touches(t, table) /\ r.row = touched[t][r.id]
          /\ r.from = revision[t] /\ r.to = MaxRevision
  BY <1>4, <1>5 DEF Images, Touches
<1>7. \A r, s \in Images(t, table) : r.id = s.id => r = s
  BY DEF Images
<1>8. TypeOK' /\ Shapes'
  <2>1. opening' \in [Txns -> SUBSET RecordedRows]
    BY <1>1, <1>3, <1>6 DEF Shapes
  <2>2. \A u \in Txns : \A r \in opening'[u] : r.from = revision'[u] /\ r.to = MaxRevision
    BY <1>1, <1>3, <1>6 DEF TypeOK
  <2> QED
    BY <1>1, <2>1, <2>2, FlushTypes DEF TypeOK
<1>9. ClockHeld' /\ Intervals'
  BY <1>1, <1>2, <1>3 DEF ClockHeld, Intervals, FlushStatements
<1>10. Closes'
  <2>1. \A u \in Txns : OpenRows(u, Nodes)' = OpenRows(u, Nodes) /\ OpenRows(u, Edges)' = OpenRows(u, Edges)
    BY <1>1, <1>2 DEF OpenRows, Touches
  <2>2. \A r : OpenOf(r.id)' = OpenOf(r.id)
    BY <1>2 DEF OpenOf
  <2>3. \A r \in Images(t, table) : OpenOf(r.id) \subseteq closing[t]
    BY <1>2, <1>6 DEF Closes, OpenOf, OpenRows
  <2> QED
    BY <1>1, <1>2, <1>3, <2>1, <2>2, <2>3 DEF Closes
<1>11. Opens'
  <2>1. \A r \in Images(t, table) : r.id \in table
    BY <1>6 DEF Touches
  <2>2. \A r \in opening[t], s \in Images(t, table) : r.id # s.id
    BY <1>2, <2>1, DistinctAssumption DEF Opens
  <2>3. \A r, s \in opening'[t] : r.id = s.id => r = s
    BY <1>3, <1>7, <2>2 DEF Opens
  <2> QED
    BY <1>1, <1>2, <1>3, <2>1, <2>3 DEF Opens
<1> QED
  BY <1>8, <1>9, <1>10, <1>11 DEF IntervalInv, FlushInv

LEMMA FlushStep ==
    ASSUME IntervalInv, NEW t \in Txns, Flush(t)
    PROVE  IntervalInv'
BY LockClockStep, ReadClockStep, AdvanceClockStep, CloseOpenStep, ReadImagesStep,
   InsertImagesStep DEF Flush

-----------------------------------------------------------------------------
(* A transaction settles and ends. *)

LEMMA SettleStep ==
    ASSUME IntervalInv, NEW t \in Txns, Settle(t)
    PROVE  IntervalInv'
<1> TypeOK /\ Shapes /\ ClockHeld /\ Closes /\ Opens /\ Intervals
  BY DEF IntervalInv, FlushInv
<1>1. /\ phase[t] = "open" /\ phase'[t] \in {"drain", "clock"}
      /\ \A u \in Txns \ {t} : phase'[u] = phase[u]
      /\ phase' \in [Txns -> Phases] /\ line' \in [Txns -> Line]
      /\ UNCHANGED <<live, recorded, clock, clockLock, revision, closing, opening, graphLock,
                     mine, touched, fenced, at, found, calls>>
  <2>1. line' \in [Txns -> Line]
    <3>1. line[t] \in Line /\ Append(line[t], Flusher) \in Line
      BY DEF Shapes
    <3>2. line' = line \/ line' = [line EXCEPT ![t] = Append(line[t], Flusher)]
      BY DEF Settle
    <3> QED
      BY <3>1, <3>2 DEF Shapes
  <2>2. phase' \in [Txns -> Phases]
    BY DEF Settle, TypeOK, Phases, FlushStatements
  <2> QED
    BY <2>1, <2>2 DEF Settle, Sealed, TypeOK, store, flush, branch
<1>2. revision[t] = 0
  BY <1>1 DEF ClockHeld
<1>3. TypeOK' /\ Shapes'
  <2>1. \A u \in Txns : \A i \in DOMAIN line'[u] : line'[u][i] \in Branches \cup {Flusher}
    BY <1>1
  <2> QED
    BY <1>1, <2>1 DEF TypeOK, Shapes, Phases
<1>4. ClockHeld' /\ Intervals'
  BY <1>1, <1>2 DEF ClockHeld, Intervals, FlushStatements
<1>5. Closes' /\ Opens'
  <2>1. \A u \in Txns : phase'[u] \in FlushStatements \ {"clock"} => phase'[u] = phase[u]
    BY <1>1 DEF FlushStatements
  <2>2. Closes'
    BY <1>1, <2>1 DEF Closes, OpenOf, OpenRows, Touches, FlushStatements
  <2>3. Opens'
    BY <1>1, <2>1 DEF Opens, FlushStatements
  <2> QED
    BY <2>2, <2>3
<1> QED
  BY <1>3, <1>4, <1>5 DEF IntervalInv, FlushInv

\* An ended transaction leaves the others as they are.
LEMMA EndFrame ==
    ASSUME TypeOK, Shapes, NEW t \in Txns, End(t)
    PROVE  /\ phase'[t] = "ended" /\ closing'[t] = {} /\ opening'[t] = {}
           /\ \A u \in Txns \ {t} :
                 /\ phase'[u] = phase[u] /\ closing'[u] = closing[u] /\ opening'[u] = opening[u]
                 /\ touched'[u] = touched[u] /\ mine'[u] = mine[u]
                 /\ clockLock = u => clockLock' = u
           /\ UNCHANGED <<revision, fenced, calls>>
           /\ phase' \in [Txns -> Phases] /\ clockLock' \in Txns \cup {Free}
           /\ graphLock' \in Txns \cup {Free}
           /\ Written' /\ Queued'
<1>1. <<>> \in Line
  OBVIOUS
<1>2. at' \in [Branches -> BranchStatements \cup {"idle"}] /\ found' \in [Branches -> SUBSET Edges]
  BY DEF End, TypeOK
<1>3. line' \in [Txns -> Line]
  BY <1>1 DEF End, Shapes
<1>4. Written' /\ phase' \in [Txns -> Phases]
  BY DEF End, TypeOK, Written, Phases
<1>5. clockLock' \in Txns \cup {Free} /\ graphLock' \in Txns \cup {Free}
  BY DEF End, Released, TypeOK
<1>6. /\ phase'[t] = "ended" /\ closing'[t] = {} /\ opening'[t] = {}
      /\ \A u \in Txns \ {t} :
            /\ phase'[u] = phase[u] /\ closing'[u] = closing[u] /\ opening'[u] = opening[u]
            /\ touched'[u] = touched[u] /\ mine'[u] = mine[u]
            /\ clockLock = u => clockLock' = u
      /\ UNCHANGED <<revision, fenced, calls>>
  BY DEF End, Released, TypeOK, Shapes
<1> QED
  BY <1>2, <1>3, <1>4, <1>5, <1>6 DEF Queued

LEMMA EndTypes ==
    ASSUME IntervalInv, NEW t \in Txns, End(t),
           live' \in Graphs, recorded' \subseteq RecordedRows, clock' \in 0..(MaxRevision - 1),
           \A u \in Txns \ {t} : closing[u] \subseteq recorded'
    PROVE  TypeOK' /\ Shapes'
<1> TypeOK /\ Shapes
  BY DEF IntervalInv
<1>1. /\ closing'[t] = {} /\ opening'[t] = {}
      /\ \A u \in Txns \ {t} : closing'[u] = closing[u] /\ opening'[u] = opening[u]
      /\ UNCHANGED <<revision, fenced, calls>>
      /\ phase' \in [Txns -> Phases] /\ clockLock' \in Txns \cup {Free}
      /\ graphLock' \in Txns \cup {Free} /\ Written' /\ Queued'
  BY EndFrame
<1>2. closing' \in [Txns -> SUBSET recorded'] /\ opening' \in [Txns -> SUBSET RecordedRows]
  <2>1. DOMAIN closing' = Txns /\ DOMAIN opening' = Txns
        /\ closing' = [u \in Txns |-> closing'[u]] /\ opening' = [u \in Txns |-> opening'[u]]
    BY DEF End, TypeOK, Shapes
  <2> QED
    BY <1>1, <2>1 DEF Shapes
<1>3. \A u \in Txns : \A r \in opening'[u] : r.from = revision'[u] /\ r.to = MaxRevision
  BY <1>1 DEF TypeOK
<1>4. \A u \in Txns : \A i \in DOMAIN line'[u] : line'[u][i] \in Branches \cup {Flusher}
  BY <1>1 DEF Queued
<1> QED
  BY <1>1, <1>2, <1>3, <1>4 DEF TypeOK, Shapes, Phases, Written, Queued

LEMMA RollbackStep ==
    ASSUME IntervalInv, NEW t \in Txns, Rollback(t)
    PROVE  IntervalInv'
<1> TypeOK /\ Shapes /\ ClockHeld /\ Closes /\ Opens /\ Intervals
  BY DEF IntervalInv, FlushInv
<1>1. End(t) /\ UNCHANGED <<live, recorded, clock>>
  BY DEF Rollback, store
<1>2. /\ phase'[t] = "ended" /\ closing'[t] = {} /\ opening'[t] = {}
      /\ \A u \in Txns \ {t} :
            /\ phase'[u] = phase[u] /\ closing'[u] = closing[u] /\ opening'[u] = opening[u]
            /\ touched'[u] = touched[u] /\ (clockLock = u => clockLock' = u)
      /\ UNCHANGED revision
  BY <1>1, EndFrame
<1>3. TypeOK' /\ Shapes'
  BY <1>1, EndTypes DEF TypeOK
<1>4. ClockHeld' /\ Intervals'
  BY <1>1, <1>2 DEF ClockHeld, Intervals, FlushStatements
<1>5. Closes' /\ Opens'
  BY <1>1, <1>2 DEF Closes, Opens, OpenOf, OpenRows, Touches
<1> QED
  BY <1>3, <1>4, <1>5 DEF IntervalInv, FlushInv

-----------------------------------------------------------------------------
(* A commit. *)

\* A transaction that recorded nothing leaves the history as it is.
LEMMA CommitUnrecorded ==
    ASSUME IntervalInv, NEW t \in Txns, Commit(t), revision[t] = 0
    PROVE  UNCHANGED <<recorded, clock>>
BY DEF IntervalInv, FlushInv, ClockHeld, Commit, TypeOK

\* One that did is alone with its revision.
LEMMA CommitRecorded ==
    ASSUME IntervalInv, NEW t \in Txns, Commit(t), revision[t] # 0
    PROVE  /\ revision[t] = clock + 1 /\ clock' = clock + 1 /\ clock + 1 < MaxRevision
           /\ \A u \in Txns \ {t} :
                 /\ closing[u] = {} /\ opening[u] = {}
                 /\ phase[u] # "ended" => revision[u] = 0
           /\ closing[t] \subseteq recorded /\ opening[t] \subseteq RecordedRows
<1> TypeOK /\ Shapes /\ ClockHeld
  BY DEF IntervalInv, FlushInv
<1>1. phase[t] = "drain"
  BY DEF Commit
<1>2. clockLock = t /\ revision[t] = clock + 1
  BY <1>1 DEF ClockHeld
<1>3. clock' = clock + 1 /\ clock + 1 < MaxRevision
  BY <1>2, BoundsAssumption DEF Commit, TypeOK
<1>4. \A u \in Txns \ {t} : phase[u] # "ended" => revision[u] = 0
  BY <1>2 DEF ClockHeld
<1> QED
  BY <1>2, <1>3, <1>4 DEF ClockHeld, TypeOK, Shapes

\* Closed at a revision: the row it leaves.
At(r, revised) == [r EXCEPT !.to = revised]

\* Where the recorded rows after a commit come from.
LEMMA CommitRows ==
    ASSUME IntervalInv, NEW t \in Txns, Commit(t), revision[t] # 0
    PROVE  /\ \A x \in recorded' :
                 \/ x \in recorded \ closing[t]
                 \/ \E r \in closing[t] : x = At(r, clock + 1)
                 \/ x \in opening[t]
           /\ recorded \ closing[t] \subseteq recorded' /\ opening[t] \subseteq recorded'
           /\ \A r \in closing[t] : At(r, clock + 1) \in recorded'
<1>1. revision[t] = clock + 1
  BY CommitRecorded
<1>2. recorded' = (recorded \ closing[t]) \cup {At(r, clock + 1) : r \in closing[t]} \cup opening[t]
  BY <1>1 DEF Commit, At
<1> QED
  BY <1>2

\* A closed row is its open form, ending now.
LEMMA AtFields ==
    ASSUME TypeOK, NEW r \in recorded, NEW revised \in 1..MaxRevision
    PROVE  /\ At(r, revised) \in RecordedRows
           /\ At(r, revised).id = r.id /\ At(r, revised).row = r.row
           /\ At(r, revised).from = r.from /\ At(r, revised).to = revised
BY DEF At, TypeOK

\* A commit keeps the recorded rows of an entity apart.
LEMMA CommitIntervals ==
    ASSUME IntervalInv, NEW t \in Txns, Commit(t), revision[t] # 0
    PROVE  recorded' \subseteq RecordedRows /\ Intervals'
<1> TypeOK /\ Shapes /\ ClockHeld /\ Closes /\ Opens /\ Intervals
  BY DEF IntervalInv, FlushInv
<1> DEFINE next == clock + 1
           Old(x) == x \in recorded \ closing[t]
           Shut(x, r) == r \in closing[t] /\ x = At(r, next)
           New(x) == x \in opening[t]
<1>1. /\ revision[t] = next /\ clock' = next /\ next \in 1..(MaxRevision - 1)
      /\ closing[t] \subseteq recorded /\ opening[t] \subseteq RecordedRows
  BY CommitRecorded, BoundsAssumption DEF TypeOK
<1>2. \A x \in recorded' : Old(x) \/ (\E r : Shut(x, r)) \/ New(x)
  BY CommitRows
<1>3. \A x : Old(x) =>
          /\ x \in RecordedRows /\ x.from <= clock /\ x.from < x.to
          /\ x.to = MaxRevision \/ x.to <= clock
  BY DEF Intervals, TypeOK
<1>4. \A x, r : Shut(x, r) =>
          /\ x \in RecordedRows /\ x.id = r.id /\ x.from = r.from /\ x.to = next
          /\ r \in recorded /\ r.to = MaxRevision /\ r.from <= clock
  BY <1>1, AtFields, BoundsAssumption DEF Closes, Intervals
<1>5. \A x : New(x) =>
          /\ x \in RecordedRows /\ x.from = next /\ x.to = MaxRevision
          /\ OpenOf(x.id) \subseteq closing[t]
  BY <1>1 DEF TypeOK, Closes
<1> HIDE DEF Old, Shut, New
<1>6. recorded' \subseteq RecordedRows
  BY <1>2, <1>3, <1>4, <1>5
<1>7. \A x \in recorded' : x.from <= clock' /\ x.from < x.to /\ (x.to = MaxRevision \/ x.to <= clock')
  <2> SUFFICES ASSUME NEW x \in recorded'
               PROVE  x.from <= next /\ x.from < x.to /\ (x.to = MaxRevision \/ x.to <= next)
    BY <1>1
  <2>1. CASE Old(x)
    BY <1>1, <1>3, <2>1 DEF TypeOK
  <2>2. ASSUME NEW r, Shut(x, r) PROVE x.from <= next /\ x.from < x.to /\ x.to <= next
    BY <1>1, <1>4, <2>2, BoundsAssumption DEF TypeOK
  <2>3. CASE New(x)
    BY <1>1, <1>5, <2>3, BoundsAssumption
  <2> QED
    BY <1>2, <2>1, <2>2, <2>3
<1>8. ASSUME NEW x \in recorded', NEW y \in recorded',
             x.id = y.id, x.from < y.to, y.from < x.to, Old(x)
      PROVE  x = y
  <2>0. x \in recorded /\ x \notin closing[t]
    BY <1>8 DEF Old
  <2>1. CASE Old(y)
    BY <1>8, <2>0, <2>1 DEF Intervals, Old
  <2>2. ASSUME NEW r, Shut(y, r) PROVE FALSE
    <3>1. r \in recorded /\ r \in closing[t] /\ r.id = x.id /\ r.from = y.from /\ r.to = MaxRevision
      BY <1>4, <1>8, <2>2 DEF Shut
    <3>2. x.from < r.to
      BY <1>1, <1>3, <1>8, <3>1, BoundsAssumption DEF TypeOK
    <3>3. r = x
      BY <1>8, <2>0, <3>1, <3>2 DEF Intervals
    <3> QED
      BY <2>0, <3>1, <3>3
  <2>3. CASE New(y)
    <3>1. x.to # MaxRevision
      BY <1>5, <1>8, <2>0, <2>3 DEF OpenOf
    <3>2. x.to <= clock /\ y.from = next
      BY <1>3, <1>5, <1>8, <2>3, <3>1
    <3> QED
      BY <1>3, <1>8, <3>2 DEF TypeOK
  <2> QED
    BY <1>2, <2>1, <2>2, <2>3
<1>9. ASSUME NEW x \in recorded', NEW y \in recorded', NEW r,
             x.id = y.id, x.from < y.to, y.from < x.to, Shut(x, r)
      PROVE  Old(y) \/ x = y
  <2>1. ASSUME NEW s, Shut(y, s) PROVE x = y
    <3>1. r \in recorded /\ s \in recorded /\ r.id = s.id /\ r.to = MaxRevision /\ s.to = MaxRevision
          /\ r.from <= clock /\ s.from <= clock
      BY <1>4, <1>9, <2>1
    <3>2. r = s
      BY <1>1, <3>1, BoundsAssumption DEF Intervals, TypeOK
    <3> QED
      BY <1>9, <2>1, <3>2 DEF Shut
  <2>2. CASE New(y)
    BY <1>1, <1>4, <1>5, <1>9, <2>2
  <2> QED
    BY <1>2, <2>1, <2>2
<1>10. ASSUME NEW x \in recorded', NEW y \in recorded', x.id = y.id, New(x), New(y)
      PROVE  x = y
  BY <1>10 DEF New, Opens
<1>11. \A x, y \in recorded' : x.id = y.id /\ x.from < y.to /\ y.from < x.to => x = y
  BY <1>2, <1>8, <1>9, <1>10
<1> QED
  BY <1>6, <1>7, <1>11 DEF Intervals

LEMMA CommitStep ==
    ASSUME IntervalInv, NEW t \in Txns, Commit(t)
    PROVE  IntervalInv'
<1> TypeOK /\ Shapes /\ ClockHeld /\ Closes /\ Opens /\ Intervals
  BY DEF IntervalInv, FlushInv
<1>1. End(t) /\ live' = View(t) /\ phase[t] = "drain"
  BY DEF Commit
<1>2. /\ phase'[t] = "ended" /\ closing'[t] = {} /\ opening'[t] = {}
      /\ \A u \in Txns \ {t} :
            /\ phase'[u] = phase[u] /\ closing'[u] = closing[u] /\ opening'[u] = opening[u]
            /\ touched'[u] = touched[u] /\ (clockLock = u => clockLock' = u)
      /\ UNCHANGED revision
  BY <1>1, EndFrame
<1>3. CASE revision[t] = 0
  <2>1. UNCHANGED <<recorded, clock>>
    BY <1>3, CommitUnrecorded
  <2>2. TypeOK' /\ Shapes'
    BY <1>1, <2>1, EndTypes, ViewIsGraph DEF TypeOK
  <2>3. ClockHeld' /\ Intervals'
    BY <1>2, <2>1 DEF ClockHeld, Intervals, FlushStatements
  <2>4. Closes' /\ Opens'
    BY <1>2, <2>1 DEF Closes, Opens, OpenOf, OpenRows, Touches
  <2> QED
    BY <2>2, <2>3, <2>4 DEF IntervalInv, FlushInv
<1>4. CASE revision[t] # 0
  <2>1. /\ clock' = clock + 1 /\ clock + 1 < MaxRevision
        /\ \A u \in Txns \ {t} :
              /\ closing[u] = {} /\ opening[u] = {}
              /\ phase[u] # "ended" => revision[u] = 0
    BY <1>4, CommitRecorded
  <2>2. recorded' \subseteq RecordedRows /\ Intervals'
    BY <1>4, CommitIntervals
  <2>3. TypeOK' /\ Shapes'
    <3>1. clock' \in 0..(MaxRevision - 1)
      BY <2>1, BoundsAssumption DEF TypeOK
    <3> QED
      BY <1>1, <2>1, <2>2, <3>1, EndTypes, ViewIsGraph
  <2>4. ClockHeld'
    BY <1>2, <2>1 DEF ClockHeld, FlushStatements
  <2>5. \A u \in Txns \ {t} : phase[u] \notin FlushStatements \ {"clock", "read"}
    BY <2>1 DEF ClockHeld, FlushStatements
  <2>6. Closes' /\ Opens'
    BY <1>2, <2>1, <2>5 DEF Closes, Opens, FlushStatements
  <2> QED
    BY <2>2, <2>3, <2>4, <2>6 DEF IntervalInv, FlushInv
<1> QED
  BY <1>3, <1>4

-----------------------------------------------------------------------------
LEMMA InitIntervals == Init => IntervalInv
<1> SUFFICES ASSUME Init PROVE IntervalInv
  OBVIOUS
<1> USE BoundsAssumption, SeedsAssumption DEF Init
<1>1. live \in Graphs
  OBVIOUS
<1>2. clock \in 0..(MaxRevision - 1) /\ MaxRevision \in 1..MaxRevision /\ 1 \in 1..MaxRevision
  OBVIOUS
<1>3. recorded \subseteq RecordedRows
  BY <1>1, <1>2
<1>4. \A x \in recorded : x.from = 1 /\ x.to = MaxRevision /\ x.row = live[x.id] /\ clock = 1
  OBVIOUS
<1>5. TypeOK
  BY <1>1, <1>2, <1>3 DEF TypeOK
<1>6. Shapes
  BY DEF Shapes
<1>7. ClockHeld /\ Closes /\ Opens
  BY DEF ClockHeld, Closes, Opens, FlushStatements
<1>8. Intervals
  BY <1>4 DEF Intervals
<1> QED
  BY <1>5, <1>6, <1>7, <1>8 DEF IntervalInv, FlushInv

LEMMA NextIntervals == IntervalInv /\ [Next]_vars => IntervalInv'
<1> SUFFICES ASSUME IntervalInv, [Next]_vars PROVE IntervalInv'
  OBVIOUS
<1>1. ASSUME NEW b \in Branches, Call(b) \/ Statement(b) PROVE IntervalInv'
  BY <1>1, BranchTypes, BranchFrame, FlushInvKept DEF IntervalInv
<1>2. ASSUME NEW t \in Txns, Settle(t) \/ Flush(t) \/ Commit(t) \/ Rollback(t)
      PROVE  IntervalInv'
  BY <1>2, SettleStep, FlushStep, CommitStep, RollbackStep
<1>3. CASE UNCHANGED vars
  <2>1. TypeOK' /\ Shapes'
    BY <1>3 DEF vars, IntervalInv, TypeOK, Shapes
  <2>2. FlushInv'
    BY <1>3, FlushInvKept DEF vars, IntervalInv, store, flush
  <2> QED
    BY <2>1, <2>2 DEF IntervalInv
<1> QED
  BY <1>1, <1>2, <1>3 DEF Next, Finished

LEMMA IntervalsHold == Spec => []IntervalInv
BY InitIntervals, NextIntervals, PTL DEF Spec

\* Every state of a capture has its shape, whatever the transactions do.
THEOREM TypeCorrect == Spec => []TypeOK
BY IntervalsHold, PTL DEF IntervalInv

-----------------------------------------------------------------------------
(* What a reader sees. *)

\* No two recorded rows of an entity cover the same revision.
LEMMA VersionsAgree ==
    ASSUME IntervalInv, NEW e \in Entities, NEW r \in Nat,
           NEW x \in Versions(r, e), NEW y \in Versions(r, e)
    PROVE  x = y
<1>1. x \in recorded /\ y \in recorded /\ x.id = y.id
      /\ x.from <= r /\ r < x.to /\ y.from <= r /\ r < y.to
  BY DEF Versions
<1>2. x.from \in Nat /\ x.to \in Nat /\ y.from \in Nat /\ y.to \in Nat
  BY <1>1, BoundsAssumption DEF IntervalInv, TypeOK
<1> QED
  BY <1>1, <1>2 DEF IntervalInv, FlushInv, Intervals

\* The version a reader sees is the one there is.
Readable ==
    \A r \in Nat, e \in Entities :
        /\ Versions(r, e) = {} => AsOf(r)[e] = Absent
        /\ \A x \in Versions(r, e) : AsOf(r)[e] = x.row

LEMMA RowsAreRead == IntervalInv => Readable
<1> SUFFICES ASSUME IntervalInv, NEW r \in Nat, NEW e \in Entities
             PROVE  /\ Versions(r, e) = {} => AsOf(r)[e] = Absent
                    /\ \A x \in Versions(r, e) : AsOf(r)[e] = x.row
  BY DEF Readable
<1>1. ASSUME NEW x \in Versions(r, e) PROVE AsOf(r)[e] = x.row
  <2>1. (CHOOSE y \in Versions(r, e) : TRUE) = x
    BY VersionsAgree
  <2> QED
    BY <2>1 DEF AsOf
<1>2. ASSUME Versions(r, e) = {} PROVE AsOf(r)[e] = Absent
  BY <1>2 DEF AsOf
<1> QED
  BY <1>1, <1>2

LEMMA ReadableHolds == Spec => []Readable
BY RowsAreRead, IntervalsHold, PTL

\* Whatever transactions interleave, and whatever branches outlive their
\* callbacks, an entity has at most one recorded row at each revision.
THEOREM OneVersionHolds == Spec => []OneVersion
<1>1. IntervalInv => OneVersion
  <2> SUFFICES ASSUME IntervalInv, NEW e \in Entities, NEW r \in 1..MaxRevision
               PROVE  Cardinality(Versions(r, e)) <= 1
    BY DEF OneVersion
  <2>1. CASE Versions(r, e) = {}
    BY <2>1, FS_EmptySet
  <2>2. ASSUME NEW x, x \in Versions(r, e) PROVE Cardinality(Versions(r, e)) = 1
    <3>1. Versions(r, e) = {x}
      BY <2>2, VersionsAgree
    <3> QED
      BY <3>1, FS_Singleton
  <2> QED
    BY <2>1, <2>2
<1> QED
  BY <1>1, IntervalsHold, PTL

\* A commit shows, at every revision handed out before it, what was there.
LEMMA CommitKeepsVersions ==
    ASSUME IntervalInv, Readable, Readable', NEW t \in Txns, Commit(t), NEW r \in 1..clock
    PROVE  AsOf(r)' = AsOf(r)
<1> TypeOK /\ Closes
  BY DEF IntervalInv, FlushInv
<1>1. CASE revision[t] = 0
  <2>1. recorded' = recorded
    BY <1>1, CommitUnrecorded
  <2> QED
    BY <2>1 DEF AsOf, Versions
<1>2. CASE revision[t] # 0
  <2> DEFINE next == clock + 1
  <2>1. /\ revision[t] = next /\ next \in 1..MaxRevision /\ next < MaxRevision
        /\ closing[t] \subseteq recorded /\ opening[t] \subseteq RecordedRows
    BY <1>2, CommitRecorded, BoundsAssumption DEF TypeOK
  <2>2. r \in Nat /\ r < next
    BY DEF TypeOK
  <2>3. ASSUME NEW e \in Entities, NEW x \in Versions(r, e)
        PROVE  \E y \in Versions(r, e)' : y.row = x.row
    <3>1. x \in recorded /\ x.id = e /\ x.from <= r /\ r < x.to
      BY DEF Versions
    <3>2. CASE x \in closing[t]
      <4>1. At(x, next) \in recorded'
        BY <1>2, <3>2, CommitRows
      <4>2. At(x, next).id = e /\ At(x, next).row = x.row /\ At(x, next).from = x.from
            /\ At(x, next).to = next
        BY <2>1, <3>1, AtFields
      <4> QED
        BY <2>2, <3>1, <4>1, <4>2 DEF Versions
    <3>3. CASE x \notin closing[t]
      BY <1>2, <3>1, <3>3, CommitRows DEF Versions
    <3> QED
      BY <3>2, <3>3
  <2>4. ASSUME NEW e \in Entities, NEW y \in Versions(r, e)'
        PROVE  Versions(r, e) # {}
    <3>1. y \in recorded' /\ y.id = e /\ y.from <= r /\ r < y.to
      BY DEF Versions
    <3>2. CASE y \in recorded \ closing[t]
      BY <3>1, <3>2 DEF Versions
    <3>3. ASSUME NEW x \in closing[t], y = At(x, next) PROVE Versions(r, e) # {}
      <4>1. x \in recorded /\ y.id = x.id /\ y.from = x.from /\ x.to = MaxRevision
        BY <2>1, <3>3, AtFields DEF Closes
      <4>2. r < MaxRevision
        BY <2>1, <2>2, BoundsAssumption DEF TypeOK
      <4> QED
        BY <3>1, <4>1, <4>2 DEF Versions
    <3>4. CASE y \in opening[t]
      BY <2>1, <2>2, <3>1, <3>4 DEF TypeOK
    <3> QED
      BY <1>2, <3>1, <3>2, <3>3, <3>4, CommitRows
  <2>5. ASSUME NEW e \in Entities PROVE AsOf(r)'[e] = AsOf(r)[e]
    <3>1. CASE Versions(r, e) = {}
      <4>1. Versions(r, e)' = {}
        BY <2>4, <3>1
      <4> QED
        BY <2>2, <3>1, <4>1 DEF Readable
    <3>2. ASSUME NEW x \in Versions(r, e) PROVE AsOf(r)'[e] = AsOf(r)[e]
      <4>1. PICK y \in Versions(r, e)' : y.row = x.row
        BY <2>3
      <4>2. AsOf(r)'[e] = y.row
        BY <2>2, <4>1 DEF Readable
      <4>3. AsOf(r)[e] = x.row
        BY <2>2 DEF Readable
      <4> QED
        BY <4>1, <4>2, <4>3
    <3> QED
      BY <3>1, <3>2
  <2> QED
    BY <2>5 DEF AsOf
<1> QED
  BY <1>1, <1>2

\* The recorded rows and the clock change with a commit only.
LEMMA HistoryFrame ==
    ASSUME TypeOK, Shapes, [Next]_vars, \A t \in Txns : ~Commit(t)
    PROVE  UNCHANGED <<live, recorded, clock>>
<1>1. ASSUME NEW b \in Branches, Call(b) \/ Statement(b) PROVE UNCHANGED <<live, recorded, clock>>
  BY <1>1, BranchFrame DEF store
<1>2. ASSUME NEW t \in Txns, Settle(t) \/ Flush(t) \/ Rollback(t)
      PROVE  UNCHANGED <<live, recorded, clock>>
  BY <1>2 DEF Settle, Flush, LockClock, ReadClock, AdvanceClock, CloseOpen, ReadImages,
              InsertImages, FlushOn, Rollback, store
<1>3. CASE UNCHANGED vars
  BY <1>3 DEF vars
<1> QED
  BY <1>1, <1>2, <1>3 DEF Next, Finished

\* Reads pinned to a revision handed out are reproducible, and the clock never
\* goes back, whatever transactions commit or are rolled back.
THEOREM PastStaysFixed == Spec => PastIsFixed
<1> DEFINE Kept == clock <= clock' /\ \A r \in 1..clock : AsOf(r)' = AsOf(r)
<1>1. ASSUME IntervalInv, Readable, Readable', [Next]_vars PROVE Kept
  <2>1. TypeOK /\ Shapes
    BY <1>1 DEF IntervalInv
  <2>2. ASSUME NEW t \in Txns, Commit(t) PROVE Kept
    <3>1. clock <= clock'
      BY <1>1, <2>1, <2>2, CommitUnrecorded, CommitRecorded, BoundsAssumption DEF TypeOK
    <3> QED
      BY <1>1, <2>2, <3>1, CommitKeepsVersions
  <2>3. CASE \A t \in Txns : ~Commit(t)
    <3>1. UNCHANGED <<recorded, clock>>
      BY <1>1, <2>1, <2>3, HistoryFrame
    <3>2. \A r : AsOf(r)' = AsOf(r)
      BY <3>1 DEF AsOf, Versions
    <3> QED
      BY <2>1, <3>1, <3>2, BoundsAssumption DEF TypeOK
  <2> QED
    BY <2>2, <2>3
<1> QED
  BY <1>1, IntervalsHold, ReadableHolds, PTL DEF Spec, PastIsFixed

-----------------------------------------------------------------------------
(* What a flush leaves recorded. *)

\* A touched entity is recorded: its open row is closed, its image is open.
Imaged(t, e) ==
    touched[t][e] # Untouched =>
        /\ touched[t][e] # Reread
        /\ OpenOf(e) \subseteq closing[t]
        /\ touched[t][e] # Absent => \E r \in opening[t] : r.id = e

\* Every touched entity is recorded once the flush is through with its table;
\* a transaction without a revision has touched nothing.
Complete ==
    \A t \in Txns :
        /\ \A r \in opening[t] : touched[t][r.id] # Untouched /\ r.row = touched[t][r.id]
        /\ phase[t] \in {"closeEdges", "readEdges", "insertEdges"} =>
              \A e \in Nodes : Imaged(t, e)
        /\ phase[t] = "drain" /\ revision[t] # 0 => \A e \in Entities : Imaged(t, e)
        /\ phase[t] = "drain" /\ revision[t] = 0 => \A e \in Entities : touched[t][e] = Untouched

\* A step that leaves the flushes alone leaves them complete.
LEMMA CompleteKept ==
    ASSUME FlushInv, Complete, UNCHANGED <<store, flush, phase>>,
           \A t \in Txns : Sealed(t) => touched'[t] = touched[t]
    PROVE  Complete'
<1>1. \A t \in Txns : opening[t] # {} => Sealed(t)
  BY DEF FlushInv, ClockHeld, Sealed
<1>2. \A t \in Txns : \A e : Sealed(t) => (Imaged(t, e)' <=> Imaged(t, e))
  BY DEF Imaged, OpenOf, store, flush
<1> QED
  BY <1>1, <1>2 DEF Complete, Sealed, store, flush

\* Nothing is left of a table the flush skips.
LEMMA FlushSkips ==
    ASSUME NEW t \in Txns
    PROVE  /\ phase[t] = "advance" /\ FlushAfter(t) # "closeNodes" => Touches(t, Nodes) = {}
           /\ FlushAfter(t) = "drain" /\ phase[t] \in {"advance", "insertNodes"} =>
                 Touches(t, Edges) = {}
<1> DEFINE edges == IF Touches(t, Edges) = {} THEN "drain" ELSE "closeEdges"
<1>1. edges = "drain" => Touches(t, Edges) = {}
  OBVIOUS
<1>2. edges # "closeNodes"
  OBVIOUS
<1> HIDE DEF edges
<1> QED
  BY <1>1, <1>2 DEF FlushAfter, edges

LEMMA InsertedImages ==
    ASSUME IntervalInv, Complete, NEW t \in Txns, NEW table, NEW statement,
           InsertImages(t, statement, table),
           \/ statement = "insertNodes" /\ table = Nodes
           \/ statement = "insertEdges" /\ table = Edges
    PROVE  /\ \A e \in table : Imaged(t, e)'
           /\ \A e \in Entities : Imaged(t, e) => Imaged(t, e)'
           /\ \A r \in opening'[t] : touched[t][r.id] # Untouched /\ r.row = touched[t][r.id]
<1> TypeOK /\ Shapes /\ Closes /\ Opens
  BY DEF IntervalInv, FlushInv
<1>1. /\ FlushOn(t, statement) /\ statement \in FlushStatements
      /\ opening' = [opening EXCEPT ![t] = @ \cup Images(t, table)]
      /\ UNCHANGED <<touched, clockLock, revision, closing>>
  BY DEF InsertImages, FlushStatements, Images
<1>2. phase[t] = statement /\ UNCHANGED <<recorded, clock>>
  BY <1>1, FlushOnStep
<1>3. opening'[t] = opening[t] \cup Images(t, table)
  BY <1>1 DEF Shapes
<1>4. ASSUME NEW e \in table PROVE Imaged(t, e)'
  <2>1. touched[t][e] # Untouched => touched[t][e] # Reread /\ OpenOf(e) \subseteq closing[t]
    BY <1>2 DEF Opens, Closes, OpenOf, OpenRows, Touches
  <2>2. ASSUME touched[t][e] # Untouched, touched[t][e] # Absent
        PROVE  \E r \in Images(t, table) : r.id = e
    <3> DEFINE r == [id |-> e, row |-> touched[t][e], from |-> revision[t], to |-> MaxRevision]
    <3>1. r \in Images(t, table)
      BY <2>2 DEF Images, Touches
    <3>2. r.id = e
      OBVIOUS
    <3> QED
      BY <3>1, <3>2
  <2> QED
    BY <1>1, <1>2, <1>3, <2>1, <2>2 DEF Imaged, OpenOf
<1>5. \A e \in Entities : Imaged(t, e) => Imaged(t, e)'
  BY <1>1, <1>2, <1>3 DEF Imaged, OpenOf
<1>6. \A r \in Images(t, table) : touched[t][r.id] # Untouched /\ r.row = touched[t][r.id]
  BY DEF Images, Touches
<1> QED
  BY <1>3, <1>4, <1>5, <1>6 DEF Complete

LEMMA FlushComplete ==
    ASSUME IntervalInv, Complete, NEW t \in Txns, Flush(t)
    PROVE  Complete'
<1> TypeOK /\ Shapes /\ ClockHeld /\ Closes /\ Opens
  BY DEF IntervalInv, FlushInv
<1> USE DEF FlushStatements
<1>1. ASSUME NEW statement \in FlushStatements, FlushOn(t, statement),
             UNCHANGED <<touched, revision, closing, opening>>,
             phase'[t] \in {"closeEdges", "drain"} => \A e \in Nodes : Imaged(t, e),
             phase'[t] = "drain" => \A e \in Edges : Imaged(t, e),
             phase'[t] = "drain" => revision[t] # 0,
             phase'[t] \notin {"readEdges", "insertEdges"}
      PROVE  Complete'
  <2>1. (\A u \in Txns \ {t} : phase'[u] = phase[u]) /\ UNCHANGED <<recorded, clock>>
    BY <1>1, FlushOnStep
  <2>2. \A u \in Txns : \A e : Imaged(u, e)' <=> Imaged(u, e)
    BY <1>1, <2>1 DEF Imaged, OpenOf
  <2> QED
    BY <1>1, <2>1, <2>2 DEF Complete
<1>2. CASE LockClock(t)
  BY <1>1, <1>2, FlushOnStep, FlushOrder DEF LockClock
<1>3. CASE ReadClock(t)
  <2>1. FlushOn(t, "read") /\ phase[t] = "read" /\ phase'[t] = "advance"
        /\ (\A u \in Txns \ {t} : phase'[u] = phase[u]) /\ UNCHANGED <<recorded, clock>>
    BY <1>3, FlushOnStep, FlushOrder DEF ReadClock
  <2>2. \A u \in Txns : \A e : Imaged(u, e)' <=> Imaged(u, e)
    BY <1>3, <2>1 DEF ReadClock, Imaged, OpenOf
  <2>3. \A u \in Txns \ {t} : revision'[u] = revision[u]
    BY <1>3 DEF ReadClock, TypeOK
  <2> QED
    BY <1>3, <2>1, <2>2, <2>3 DEF Complete, ReadClock
<1>4. CASE AdvanceClock(t)
  <2>1. FlushOn(t, "advance") /\ UNCHANGED <<touched, revision, closing, opening>>
    BY <1>4 DEF AdvanceClock, flush
  <2>2. phase[t] = "advance" /\ phase'[t] = FlushAfter(t)
        /\ phase'[t] \in {"closeNodes", "closeEdges", "drain"}
    BY <2>1, FlushOnStep, FlushOrder
  <2>3. phase'[t] # "closeNodes" => \A e \in Nodes : Imaged(t, e)
    BY <2>2, FlushSkips DEF Touches, Imaged
  <2>4. phase'[t] = "drain" => \A e \in Edges : Imaged(t, e)
    BY <2>2, FlushSkips DEF Touches, Imaged
  <2> QED
    BY <1>1, <2>1, <2>2, <2>3, <2>4 DEF ClockHeld
<1>5. ASSUME NEW table, NEW statement, CloseOpen(t, statement, table),
             \/ statement = "closeNodes" /\ table = Nodes
             \/ statement = "closeEdges" /\ table = Edges
      PROVE  Complete'
  <2>1. /\ FlushOn(t, statement) /\ statement \in FlushStatements
        /\ closing' = [closing EXCEPT ![t] = @ \cup OpenRows(t, table)]
        /\ UNCHANGED <<touched, revision, opening>>
    BY <1>5 DEF CloseOpen
  <2>2. /\ phase[t] = statement
        /\ phase'[t] = IF statement = "closeNodes" THEN "readNodes" ELSE "readEdges"
        /\ \A u \in Txns \ {t} : phase'[u] = phase[u]
        /\ UNCHANGED <<recorded, clock>>
    BY <1>5, <2>1, FlushOnStep, FlushOrder
  <2>3. \A u \in Txns : \A e : Imaged(u, e) => Imaged(u, e)'
    BY <2>1, <2>2 DEF Imaged, OpenOf, TypeOK
  <2> QED
    BY <1>5, <2>1, <2>2, <2>3 DEF Complete
<1>6. ASSUME NEW table, NEW statement, ReadImages(t, statement, table),
             \/ statement = "readNodes" /\ table = Nodes
             \/ statement = "readEdges" /\ table = Edges
      PROVE  Complete'
  <2>1. FlushOn(t, statement) /\ statement \in FlushStatements
        /\ UNCHANGED <<revision, closing, opening>>
    BY <1>6 DEF ReadImages, flush
  <2>2. /\ phase[t] = statement
        /\ phase'[t] = IF statement = "readNodes" THEN "insertNodes" ELSE "insertEdges"
        /\ \A u \in Txns \ {t} : phase'[u] = phase[u]
        /\ UNCHANGED <<recorded, clock>>
    BY <1>6, <2>1, FlushOnStep, FlushOrder
  <2>3. /\ \A u \in Txns, e \in Entities :
              touched'[u][e] # touched[u][e] => u = t /\ e \in table /\ touched[u][e] = Reread
        /\ \A u \in Txns, e \in Entities : touched'[u][e] = Untouched <=> touched[u][e] = Untouched
    BY <1>6, ReadImagesTouches
  <2>4. \A u \in Txns, e \in Entities : Imaged(u, e) => Imaged(u, e)'
    BY <2>1, <2>2, <2>3 DEF Imaged, OpenOf
  <2>5. \A u \in Txns : \A r \in opening[u] : r.id \in Entities /\ r.row \in Rows
    BY DEF Shapes
  <2>6. \A u \in Txns : \A r \in opening'[u] : touched'[u][r.id] # Untouched /\ r.row = touched'[u][r.id]
    BY <2>1, <2>3, <2>5, Markers DEF Complete
  <2>7. \A u \in Txns \ {t}, e \in Entities : touched'[u][e] = touched[u][e]
    BY <2>3
  <2> QED
    BY <1>6, <2>1, <2>2, <2>4, <2>6, <2>7 DEF Complete
<1>7. ASSUME NEW table, NEW statement, InsertImages(t, statement, table),
             \/ statement = "insertNodes" /\ table = Nodes
             \/ statement = "insertEdges" /\ table = Edges
      PROVE  Complete'
  <2>1. /\ FlushOn(t, statement) /\ statement \in FlushStatements
        /\ opening' = [opening EXCEPT ![t] = @ \cup Images(t, table)]
        /\ UNCHANGED <<touched, revision, closing>>
    BY <1>7 DEF InsertImages, Images
  <2>2. /\ phase[t] = statement /\ phase'[t] = FlushAfter(t)
        /\ phase'[t] \in IF statement = "insertNodes" THEN {"closeEdges", "drain"} ELSE {"drain"}
        /\ \A u \in Txns \ {t} : phase'[u] = phase[u]
        /\ UNCHANGED <<recorded, clock>>
    BY <1>7, <2>1, FlushOnStep, FlushOrder
  <2>3. /\ \A e \in table : Imaged(t, e)'
        /\ \A e \in Entities : Imaged(t, e) => Imaged(t, e)'
        /\ \A r \in opening'[t] : touched[t][r.id] # Untouched /\ r.row = touched[t][r.id]
    BY <1>7, InsertedImages
  <2>4. phase'[t] = "drain" => \A e \in Entities : Imaged(t, e)'
    <3>1. CASE statement = "insertNodes"
      <4>1. phase'[t] = "drain" => \A e \in Edges : touched[t][e] = Untouched
        BY <2>2, <3>1, FlushSkips DEF Touches
      <4> QED
        BY <1>7, <2>1, <2>3, <3>1, <4>1 DEF Imaged
    <3>2. CASE statement = "insertEdges"
      BY <1>7, <2>2, <2>3, <3>2 DEF Complete
    <3> QED
      BY <1>7, <3>1, <3>2
  <2>5. \A u \in Txns \ {t} : \A e : Imaged(u, e)' <=> Imaged(u, e)
    BY <2>1, <2>2 DEF Imaged, OpenOf, Shapes
  <2>6. revision[t] # 0
    BY <1>7, <2>2 DEF ClockHeld
  <2>7. phase'[t] = "closeEdges" => \A e \in Nodes : Imaged(t, e)'
    BY <1>7, <2>2, <2>3
  <2>8. \A u \in Txns \ {t} : opening'[u] = opening[u]
    BY <2>1 DEF Shapes
  <2> QED
    BY <2>1, <2>2, <2>3, <2>4, <2>5, <2>6, <2>7, <2>8 DEF Complete
<1> QED
  BY <1>2, <1>3, <1>4, <1>5, <1>6, <1>7 DEF Flush

LEMMA EndComplete ==
    ASSUME IntervalInv, IntervalInv', Complete, NEW t \in Txns, End(t),
           \/ UNCHANGED recorded
           \/ \A u \in Txns \ {t} : phase[u] # "ended" => revision[u] = 0
    PROVE  Complete'
<1> TypeOK /\ Shapes /\ ClockHeld /\ ClockHeld'
  BY DEF IntervalInv, FlushInv
<1>1. /\ phase'[t] = "ended" /\ opening'[t] = {}
      /\ \A u \in Txns \ {t} :
            /\ phase'[u] = phase[u] /\ closing'[u] = closing[u] /\ opening'[u] = opening[u]
            /\ touched'[u] = touched[u]
      /\ UNCHANGED revision
  BY EndFrame
<1>2. ASSUME NEW u \in Txns \ {t}, UNCHANGED recorded, NEW e PROVE Imaged(u, e)' <=> Imaged(u, e)
  BY <1>1, <1>2 DEF Imaged, OpenOf
<1>3. ASSUME NEW u \in Txns \ {t}, phase[u] # "ended" => revision[u] = 0
      PROVE  phase[u] \notin {"closeEdges", "readEdges", "insertEdges"}
  BY <1>3 DEF ClockHeld, FlushStatements
<1> QED
  BY <1>1, <1>2, <1>3 DEF Complete

LEMMA InitComplete == Init => Complete
BY DEF Init, Complete

LEMMA NextComplete ==
    ASSUME IntervalInv, IntervalInv', Complete, [Next]_vars
    PROVE  Complete'
<1> TypeOK /\ Shapes /\ FlushInv /\ ClockHeld
  BY DEF IntervalInv, FlushInv
<1>1. ASSUME NEW b \in Branches, Call(b) \/ Statement(b) PROVE Complete'
  BY <1>1, BranchFrame, CompleteKept
<1>2. ASSUME NEW t \in Txns, Settle(t) PROVE Complete'
  <2>1. /\ phase[t] = "open" /\ phase'[t] \in {"drain", "clock"}
        /\ phase'[t] = "drain" => \A e \in Entities : touched[t][e] = Untouched
        /\ \A u \in Txns \ {t} : phase'[u] = phase[u]
        /\ UNCHANGED <<recorded, revision, closing, opening, touched>>
    BY <1>2 DEF Settle, Sealed, Touches, TypeOK, store, flush
  <2>2. \A u \in Txns : \A e : Imaged(u, e)' <=> Imaged(u, e)
    BY <2>1 DEF Imaged, OpenOf
  <2>3. revision[t] = 0
    BY <2>1 DEF ClockHeld
  <2> QED
    BY <2>1, <2>2, <2>3 DEF Complete
<1>3. ASSUME NEW t \in Txns, Flush(t) PROVE Complete'
  BY <1>3, FlushComplete
<1>4. ASSUME NEW t \in Txns, Commit(t) PROVE Complete'
  <2>1. End(t)
    BY <1>4 DEF Commit
  <2> QED
    BY <1>4, <2>1, CommitUnrecorded, CommitRecorded, EndComplete
<1>5. ASSUME NEW t \in Txns, Rollback(t) PROVE Complete'
  BY <1>5, EndComplete DEF Rollback, store
<1>6. CASE UNCHANGED vars
  BY <1>6, CompleteKept DEF vars, store, flush
<1> QED
  BY <1>1, <1>2, <1>3, <1>4, <1>5, <1>6 DEF Next, Finished

-----------------------------------------------------------------------------
(* The branches of a callback that awaits them all. *)

\* A settled transaction has no branch left running.
Joined == \A b \in Branches : Sealed(Scope[b]) => at[b] = "idle"

\* A transaction that wrote or touched anything holds the graph lock to its end.
Fences ==
    /\ \A t \in Txns : phase[t] # "ended" /\ fenced[t] = "held" => graphLock = t
    /\ \A t \in Txns : phase[t] = "ended" \/ fenced[t] # "held" =>
          \A e \in Entities : mine[t][e] = Untouched /\ touched[t][e] = Untouched
    /\ \A b \in Branches : at[b] \notin {"idle", "lock"} => fenced[Scope[b]] = "held"

\* A branch is at a statement its operation has.
Plans ==
    /\ DOMAIN job = Branches
    /\ \A b \in Branches : at[b] # "idle" =>
          /\ job[b].op \in Ops /\ job[b].on \in Entities
          /\ job[b].op = "revive" => job[b].on \in Nodes
          /\ at[b] = "probe" => \/ job[b].op = "create" /\ job[b].on \in Edges
                                \/ job[b].op \in {"retire", "purge"} /\ job[b].on \in Nodes
          /\ at[b] \in {"cut", "list", "sweep"} =>
                job[b].on \in Nodes /\ job[b].op \in {"retire", "purge"}
          /\ at[b] \in {"list", "sweep"} => job[b].op = "purge"

BranchInv == Joined /\ Fences /\ Plans

\* The statement an operation goes on to.
LEMMA AfterCases ==
    ASSUME NEW j, NEW edges
    PROVE  /\ After(j, "lock", edges) = First(j)
           /\ After(j, "probe", edges) =
                 IF edges # {} THEN "cut" ELSE IF j.op = "purge" THEN "list" ELSE "write"
           /\ After(j, "cut", edges) = IF j.op = "purge" THEN "list" ELSE "write"
           /\ After(j, "list", edges) = "sweep" /\ After(j, "sweep", edges) = "write"
           /\ After(j, "write", edges) = "idle"
<1>1. After(j, "lock", edges) = First(j)
  BY DEF After
<1>2. edges # {} => After(j, "probe", edges) = "cut"
  BY DEF After
<1>3. edges = {} => After(j, "probe", edges) = IF j.op = "purge" THEN "list" ELSE "write"
  BY DEF After
<1>4. After(j, "cut", edges) = IF j.op = "purge" THEN "list" ELSE "write"
  BY DEF After
<1>5. After(j, "list", edges) = "sweep"
  BY DEF After
<1>6. After(j, "sweep", edges) = "write"
  BY DEF After
<1>7. After(j, "write", edges) = "idle"
  BY DEF After
<1> QED
  BY <1>1, <1>2, <1>3, <1>4, <1>5, <1>6, <1>7

\* Going on moves one branch, to its next statement or to rest.
LEMMA ContinueMoves ==
    ASSUME TypeOK, NEW b \in Branches, NEW s, NEW edges, Continue(b, s, edges)
    PROVE  /\ at'[b] \in {After(job[b], s, edges), "idle"}
           /\ at'[b] # "idle" => found'[b] = edges
           /\ \A c \in Branches \ {b} : at'[c] = at[c] /\ found'[c] = found[c]
BY DEF Continue, TypeOK

LEMMA ThrowMoves ==
    ASSUME TypeOK, NEW b \in Branches, Throw(b)
    PROVE  at'[b] = "idle" /\ \A c \in Branches \ {b} : at'[c] = at[c] /\ found'[c] = found[c]
BY DEF Throw, TypeOK

\* What a statement under the graph lock does to its branch.
LEMMA StatementMoves ==
    ASSUME TypeOK, NEW b \in Branches, Statement(b), ~LockGraph(b)
    PROVE  /\ at[b] \notin {"idle", "lock"}
           /\ \/ at'[b] = "idle"
              \/ \E edges : /\ at'[b] = After(job[b], at[b], edges) /\ found'[b] = edges
                            /\ at[b] = "probe" /\ edges # {} => job[b].on \notin Edges
           /\ \A c \in Branches \ {b} : at'[c] = at[c] /\ found'[c] = found[c]
           /\ UNCHANGED <<job, graphLock, fenced, phase, store, calls>>
           /\ \A u \in Txns \ {Scope[b]} : mine'[u] = mine[u] /\ touched'[u] = touched[u]
<1> Scope[b] \in Txns
  BY ScopeAssumption
<1>1. CASE Probe(b)
  BY <1>1, ContinueMoves, ThrowMoves DEF Probe, store
<1>2. CASE List(b)
  BY <1>2, ContinueMoves DEF List
<1>3. CASE Cut(b)
  <2>1. at[b] = "cut" /\ Continue(b, "cut", {}) /\ UNCHANGED <<job, graphLock, fenced, phase, store, calls>>
    BY <1>3 DEF Cut, Apply
  <2>2. \A u \in Txns \ {Scope[b]} : mine'[u] = mine[u] /\ touched'[u] = touched[u]
    BY <1>3 DEF Cut, Apply, Touch, TypeOK
  <2> QED
    BY <2>1, <2>2, ContinueMoves
<1>4. CASE Sweep(b)
  <2>1. at[b] = "sweep" /\ Continue(b, "sweep", found[b])
        /\ UNCHANGED <<job, graphLock, fenced, phase, store, calls>>
    BY <1>4 DEF Sweep, Apply
  <2>2. \A u \in Txns \ {Scope[b]} : mine'[u] = mine[u] /\ touched'[u] = touched[u]
    BY <1>4 DEF Sweep, Apply, Touch, TypeOK
  <2> QED
    BY <2>1, <2>2, ContinueMoves
<1>5. CASE WriteRow(b)
  <2>1. at[b] = "write" /\ (Continue(b, "write", {}) \/ Throw(b))
        /\ UNCHANGED <<job, graphLock, fenced, phase, store, calls>>
    BY <1>5 DEF WriteRow, Apply
  <2>2. \A u \in Txns \ {Scope[b]} : mine'[u] = mine[u] /\ touched'[u] = touched[u]
    BY <1>5 DEF WriteRow, Apply, Touch, TypeOK
  <2> QED
    BY <2>1, <2>2, ContinueMoves, ThrowMoves
<1>6. CASE Remove(b)
  <2>1. at[b] = "write" /\ Continue(b, "write", {})
        /\ UNCHANGED <<job, graphLock, fenced, phase, store, calls>>
    BY <1>6 DEF Remove, Apply
  <2>2. \A u \in Txns \ {Scope[b]} : mine'[u] = mine[u] /\ touched'[u] = touched[u]
    BY <1>6 DEF Remove, Apply, Touch, TypeOK
  <2> QED
    BY <2>1, <2>2, ContinueMoves
<1> QED
  BY <1>1, <1>2, <1>3, <1>4, <1>5, <1>6 DEF Statement

LEMMA FirstCases ==
    ASSUME NEW j
    PROVE  /\ First(j) \in {"probe", "write"}
           /\ First(j) = "probe" => \/ j.op = "create" /\ j.on \in Edges
                                    \/ j.op \in {"retire", "purge"} /\ j.on \in Nodes
           /\ j.op \in {"retire", "purge"} /\ j.on \in Nodes => First(j) = "probe"
           /\ j.op = "create" /\ j.on \in Edges => First(j) = "probe"
<1> DEFINE probes == \/ j.op = "create" /\ j.on \in Edges
                     \/ j.op \in {"retire", "purge"} /\ j.on \in Nodes
<1>1. probes => First(j) = "probe"
  BY DEF First
<1>2. ~probes => First(j) = "write"
  BY DEF First
<1>3. First(j) \in {"probe", "write"} /\ (First(j) = "probe" <=> probes)
  <2> HIDE DEF probes
  <2> QED
    BY <1>1, <1>2
<1> QED
  BY <1>3

\* A call starts its branch on an operation, which waits for the lock or has it.
LEMMA CallMoves ==
    ASSUME TypeOK, Plans, NEW b \in Branches, Call(b)
    PROVE  LET t == Scope[b] IN
           /\ phase[t] = "open" /\ at[b] = "idle" /\ fenced[t] # "pending"
           /\ DOMAIN job' = Branches /\ job'[b].op \in Ops /\ job'[b].on \in Entities
           /\ job'[b].op = "revive" => job'[b].on \in Nodes
           /\ at'[b] = (IF fenced[t] = "none" THEN "lock" ELSE First(job'[b]))
           /\ fenced'[t] = (IF fenced[t] = "none" THEN "pending" ELSE fenced[t])
           /\ \A u \in Txns \ {t} : fenced'[u] = fenced[u]
           /\ \A c \in Branches \ {b} : at'[c] = at[c] /\ job'[c] = job[c]
           /\ UNCHANGED <<live, recorded, clock, graphLock, mine, touched, phase, found>>
<1> DEFINE t == Scope[b]
<1>1. t \in Txns
  BY ScopeAssumption
<1>2. PICK o \in Ops, e \in Entities :
          (o = "revive" => e \in Nodes) /\ job' = [job EXCEPT ![b] = [op |-> o, on |-> e]]
  BY DEF Call
<1>3. /\ DOMAIN job' = Branches /\ job'[b].op \in Ops /\ job'[b].on \in Entities
      /\ job'[b].op = "revive" => job'[b].on \in Nodes
      /\ \A c \in Branches \ {b} : job'[c] = job[c]
  BY <1>2 DEF Plans
<1>4. at' = [at EXCEPT ![b] = IF fenced[t] = "none" THEN "lock" ELSE First(job'[b])]
  BY DEF Call
<1>5. at'[b] = (IF fenced[t] = "none" THEN "lock" ELSE First(job'[b]))
      /\ \A c \in Branches \ {b} : at'[c] = at[c]
  BY <1>4 DEF TypeOK
<1>6. /\ fenced'[t] = (IF fenced[t] = "none" THEN "pending" ELSE fenced[t])
      /\ \A u \in Txns \ {t} : fenced'[u] = fenced[u]
  BY <1>1 DEF Call, TypeOK
<1> QED
  BY <1>1, <1>3, <1>4, <1>5, <1>6 DEF Call, Sealed, Running, store

LEMMA StatementBranches ==
    ASSUME TypeOK, BranchInv, NEW b \in Branches, Call(b) \/ Statement(b)
    PROVE  BranchInv'
<1> Joined /\ Fences /\ Plans
  BY DEF BranchInv
<1> DEFINE t == Scope[b]
<1> t \in Txns /\ \A c \in Branches : Scope[c] \in Txns
  BY ScopeAssumption
<1>1. CASE Call(b)
  <2>1. /\ phase[t] = "open" /\ at[b] = "idle" /\ fenced[t] # "pending"
        /\ DOMAIN job' = Branches /\ job'[b].op \in Ops /\ job'[b].on \in Entities
        /\ job'[b].op = "revive" => job'[b].on \in Nodes
        /\ at'[b] = (IF fenced[t] = "none" THEN "lock" ELSE First(job'[b]))
        /\ fenced'[t] = (IF fenced[t] = "none" THEN "pending" ELSE fenced[t])
        /\ \A u \in Txns \ {t} : fenced'[u] = fenced[u]
        /\ \A c \in Branches \ {b} : at'[c] = at[c] /\ job'[c] = job[c]
        /\ UNCHANGED <<graphLock, mine, touched, phase>>
    BY <1>1, CallMoves
  <2>2. Joined'
    BY <2>1 DEF Joined, Sealed
  <2>3. Fences'
    <3>1. \A u \in Txns : fenced'[u] = "held" <=> fenced[u] = "held"
      BY <2>1
    <3>2. at'[b] # "lock" => fenced[t] = "held"
      BY <2>1 DEF TypeOK
    <3> QED
      BY <2>1, <3>1, <3>2 DEF Fences
  <2>4. Plans'
    <3>1. at'[b] \in {"lock", "probe", "write"}
          /\ (at'[b] = "probe" => \/ job'[b].op = "create" /\ job'[b].on \in Edges
                                  \/ job'[b].op \in {"retire", "purge"} /\ job'[b].on \in Nodes)
      BY <2>1, FirstCases
    <3> QED
      BY <2>1, <3>1 DEF Plans
  <2> QED
    BY <2>2, <2>3, <2>4 DEF BranchInv
<1>2. CASE LockGraph(b)
  <2>1. /\ at[b] = "lock" /\ graphLock = Free /\ graphLock' = t
        /\ fenced' = [fenced EXCEPT ![t] = "held"]
        /\ Continue(b, "lock", {}) /\ UNCHANGED <<mine, touched, phase, job>>
    BY <1>2 DEF LockGraph
  <2>2. at'[b] \in {First(job[b]), "idle"} /\ \A c \in Branches \ {b} : at'[c] = at[c]
    BY <2>1, ContinueMoves, AfterCases
  <2>3. phase[t] = "open"
    BY <2>1 DEF Joined, Sealed
  <2>4. Joined'
    BY <2>1, <2>2, <2>3 DEF Joined, Sealed
  <2>5. fenced'[t] = "held" /\ \A u \in Txns \ {t} : fenced'[u] = fenced[u]
    BY <2>1 DEF TypeOK
  <2>6. \A u \in Txns : phase[u] # "ended" => fenced[u] # "held"
    BY <2>1, DistinctAssumption DEF Fences
  <2>7. Fences'
    BY <2>1, <2>2, <2>3, <2>5, <2>6 DEF Fences
  <2>8. Plans'
    BY <2>1, <2>2, FirstCases DEF Plans
  <2> QED
    BY <2>4, <2>7, <2>8 DEF BranchInv
<1>3. CASE Statement(b) /\ ~LockGraph(b)
  <2>1. /\ at[b] \notin {"idle", "lock"}
        /\ \A c \in Branches \ {b} : at'[c] = at[c]
        /\ UNCHANGED <<job, graphLock, fenced, phase>>
        /\ \A u \in Txns \ {t} : mine'[u] = mine[u] /\ touched'[u] = touched[u]
    BY <1>3, StatementMoves
  <2>2. phase[t] = "open" /\ fenced[t] = "held"
    BY <2>1 DEF Joined, Fences, Sealed
  <2>3. Joined' /\ Fences'
    BY <2>1, <2>2 DEF Joined, Fences, Sealed
  <2>4. Plans'
    <3>1. CASE at'[b] = "idle"
      BY <2>1, <3>1 DEF Plans
    <3>2. ASSUME NEW edges, at'[b] = After(job[b], at[b], edges),
                 at[b] = "probe" /\ edges # {} => job[b].on \notin Edges
          PROVE  Plans'
      <4>1. at[b] \in {"probe", "cut", "list", "sweep", "write"}
        BY <2>1 DEF TypeOK, BranchStatements
      <4>2. /\ at[b] = "probe" => at'[b] = IF edges # {} THEN "cut"
                                         ELSE IF job[b].op = "purge" THEN "list" ELSE "write"
            /\ at[b] = "cut" => at'[b] = IF job[b].op = "purge" THEN "list" ELSE "write"
            /\ at[b] = "list" => at'[b] = "sweep"
            /\ at[b] = "sweep" => at'[b] = "write"
            /\ at[b] = "write" => at'[b] = "idle"
        BY <3>2, AfterCases
      <4>3. /\ job[b].op \in Ops /\ job[b].on \in Entities
            /\ job[b].op = "revive" => job[b].on \in Nodes
            /\ at'[b] # "probe"
            /\ at'[b] \in {"cut", "list", "sweep"} =>
                  job[b].on \in Nodes /\ job[b].op \in {"retire", "purge"}
            /\ at'[b] \in {"list", "sweep"} => job[b].op = "purge"
        BY <3>2, <4>1, <4>2, DistinctAssumption DEF Plans
      <4> QED
        BY <2>1, <4>3 DEF Plans
    <3> QED
      BY <1>3, <3>1, <3>2, StatementMoves
  <2> QED
    BY <2>3, <2>4 DEF BranchInv
<1> QED
  BY <1>1, <1>2, <1>3

LEMMA EndBranches ==
    ASSUME TypeOK, Shapes, BranchInv, NEW t \in Txns, End(t)
    PROVE  BranchInv'
<1> Joined /\ Fences /\ Plans
  BY DEF BranchInv
<1>1. /\ phase'[t] = "ended" /\ UNCHANGED fenced
      /\ \A u \in Txns \ {t} : phase'[u] = phase[u] /\ touched'[u] = touched[u] /\ mine'[u] = mine[u]
  BY EndFrame
<1>2. /\ \A e \in Entities : mine'[t][e] = Untouched /\ touched'[t][e] = Untouched
      /\ \A b \in Branches : at'[b] = IF Scope[b] = t THEN "idle" ELSE at[b]
      /\ \A u \in Txns \ {t} : graphLock = u => graphLock' = u
      /\ UNCHANGED job
  BY DEF End, Released, TypeOK
<1>3. Joined' /\ Fences' /\ Plans'
  BY <1>1, <1>2, ScopeAssumption DEF Joined, Fences, Plans, Sealed
<1> QED
  BY <1>3 DEF BranchInv

LEMMA NextBranches ==
    ASSUME JoinsBranches, IntervalInv, BranchInv, [Next]_vars
    PROVE  BranchInv'
<1> TypeOK /\ Shapes /\ Joined /\ Fences /\ Plans
  BY DEF BranchInv, IntervalInv
<1>1. ASSUME NEW b \in Branches, Call(b) \/ Statement(b) PROVE BranchInv'
  BY <1>1, StatementBranches
<1>2. ASSUME NEW t \in Txns, Settle(t) PROVE BranchInv'
  <2>1. /\ \A b \in Branches : Scope[b] = t => at[b] = "idle"
        /\ phase'[t] \in {"drain", "clock"} /\ \A u \in Txns \ {t} : phase'[u] = phase[u]
        /\ phase[t] = "open"
        /\ UNCHANGED <<graphLock, fenced, mine, touched, at, job>>
    BY <1>2 DEF Settle, Running, Sealed, TypeOK, branch
  <2> QED
    BY <2>1, ScopeAssumption DEF BranchInv, Joined, Fences, Plans, Sealed
<1>3. ASSUME NEW t \in Txns, Flush(t) PROVE BranchInv'
  <2>1. PICK statement \in FlushStatements : FlushOn(t, statement)
    BY <1>3 DEF Flush, LockClock, ReadClock, AdvanceClock, CloseOpen, ReadImages, InsertImages,
                FlushStatements
  <2>2. /\ phase[t] \in FlushStatements /\ phase'[t] \in FlushStatements \cup {"drain"}
        /\ \A u \in Txns \ {t} : phase'[u] = phase[u]
        /\ UNCHANGED <<graphLock, mine, fenced, at, job>>
    BY <2>1, FlushOnStep, FlushOrder DEF FlushStatements
  <2>3. \A u \in Txns, e \in Entities : touched[u][e] = Untouched => touched'[u][e] = Untouched
    BY <1>3, ReadImagesTouches DEF Flush, LockClock, ReadClock, AdvanceClock, CloseOpen,
                                   InsertImages
  <2>4. Joined' /\ Fences'
    BY <2>2, <2>3, ScopeAssumption DEF Joined, Fences, Sealed, FlushStatements
  <2> QED
    BY <2>2, <2>4 DEF BranchInv, Plans
<1>4. ASSUME NEW t \in Txns, Commit(t) \/ Rollback(t) PROVE BranchInv'
  BY <1>4, EndBranches DEF Commit, Rollback
<1>5. CASE UNCHANGED vars
  BY <1>5 DEF vars, BranchInv, Joined, Fences, Plans, Sealed
<1> QED
  BY <1>1, <1>2, <1>3, <1>4, <1>5 DEF Next, Finished

LEMMA InitBranches == Init => BranchInv
BY DEF Init, BranchInv, Joined, Fences, Plans

-----------------------------------------------------------------------------
(* The live graph and the history. *)

\* A branch that hard-deletes a node and has swept its edges is still to touch
\* those it listed.
Purges(b) == job[b].op = "purge" /\ job[b].on \in Nodes
Owes(b, t, e) == Scope[b] = t /\ at[b] = "write" /\ Purges(b) /\ e \in found[b]
Pending(t, e) == \E b \in Branches : Owes(b, t, e)

\* Before it sweeps, it has listed every edge the sweep takes.
Listed ==
    \A b \in Branches : at[b] = "sweep" =>
        \A e \in EdgesOf(job[b].on) : View(Scope[b])[e] # Absent => e \in found[b]

\* What a transaction changed it touched, and an image it carries is the row.
Captured ==
    \A t \in Txns, e \in Entities : ~Pending(t, e) =>
        /\ View(t)[e] # live[e] => touched[t][e] # Untouched
        /\ touched[t][e] \in {Untouched, Reread, View(t)[e]}

\* A transaction runs one branch, or no branch hard-deletes a node: nobody
\* writes the edges of a node between their listing and their sweep.
Undisturbed ==
    \/ \A b, c \in Branches : Scope[b] = Scope[c] => b = c
    \/ "purge" \notin Ops

\* An open session refuses no statement.
LEMMA ContinueOpen ==
    ASSUME TypeOK, NEW b \in Branches, NEW s, NEW edges, Continue(b, s, edges),
           phase[Scope[b]] = "open"
    PROVE  at'[b] = After(job[b], s, edges)
BY DEF Continue, Refused, Closed, Sealed, TypeOK

\* What other branches owe, they still owe.
LEMMA PendingKept ==
    ASSUME NEW b \in Branches, NEW t, NEW e, ~Owes(b, t, e), UNCHANGED job,
           \A c \in Branches \ {b} : at'[c] = at[c] /\ found'[c] = found[c]
    PROVE  Pending(t, e) => Pending(t, e)'
BY DEF Pending, Owes, Purges

\* What a statement does to the rows and touches of its transaction.
LEMMA ApplyEffect ==
    ASSUME TypeOK, NEW b \in Branches, NEW rows, NEW touches, Apply(b, rows, touches),
           phase[Scope[b]] = "open", NEW e \in Entities
    PROVE  /\ mine'[Scope[b]][e] = IF e \in DOMAIN rows THEN rows[e] ELSE mine[Scope[b]][e]
           /\ touched'[Scope[b]][e] = IF e \in DOMAIN touches THEN touches[e] ELSE touched[Scope[b]][e]
           /\ UNCHANGED <<live, job>>
BY ScopeAssumption DEF Apply, Touch, Sealed, TypeOK, store

\* A row a statement leaves alone is seen as before.
LEMMA ViewKept ==
    ASSUME NEW t \in Txns, NEW e \in Entities, mine'[t][e] = mine[t][e], live'[e] = live[e]
    PROVE  View(t)'[e] = View(t)[e]
BY DEF View

LEMMA ViewWritten ==
    ASSUME NEW t \in Txns, NEW e \in Entities, mine'[t][e] # Untouched
    PROVE  View(t)'[e] = mine'[t][e]
BY DEF View

\* A statement captures what it writes: the entity is touched for the flush to
\* read, or touched with its row, or owed by the hard delete in progress.
LEMMA StatementCaptures ==
    ASSUME TypeOK, BranchInv, Listed, NEW b \in Branches, Statement(b), ~LockGraph(b),
           NEW e \in Entities
    PROVE  LET t == Scope[b] IN
           \/ /\ View(t)'[e] = View(t)[e] /\ touched'[t][e] = touched[t][e]
              /\ Pending(t, e) => Pending(t, e)'
           \/ touched'[t][e] = Reread
           \/ touched'[t][e] = View(t)'[e] /\ touched'[t][e] # Untouched
           \/ Pending(t, e)'
<1> DEFINE t == Scope[b]
           Kept == /\ View(t)'[e] = View(t)[e] /\ touched'[t][e] = touched[t][e]
                   /\ Pending(t, e) => Pending(t, e)'
           Imaging == touched'[t][e] = View(t)'[e] /\ touched'[t][e] # Untouched
<1> SUFFICES Kept \/ touched'[t][e] = Reread \/ Imaging \/ Pending(t, e)'
  OBVIOUS
<1>1. /\ at[b] \notin {"idle", "lock"}
      /\ \A c \in Branches \ {b} : at'[c] = at[c] /\ found'[c] = found[c]
      /\ UNCHANGED <<job, live>>
  BY StatementMoves DEF store
<1>2. t \in Txns /\ phase[t] = "open"
  BY <1>1, ScopeAssumption DEF BranchInv, Joined, Sealed
<1>3. ASSUME ~Owes(b, t, e), mine'[t][e] = mine[t][e], touched'[t][e] = touched[t][e]
      PROVE  Kept
  BY <1>1, <1>2, <1>3, PendingKept, ViewKept
<1> HIDE DEF Kept
<1>4. CASE Probe(b) \/ List(b)
  BY <1>3, <1>4 DEF Probe, List, Owes
<1>5. CASE Cut(b)
  <2> DEFINE rows == IF job[b].op = "purge" THEN [x \in found[b] |-> Absent]
                     ELSE [x \in {y \in found[b] : View(t)[y] \in Values} |-> Tombstone]
             touches == [x \in found[b] |-> Reread]
  <2>1. Apply(b, rows, touches) /\ at[b] = "cut"
    BY <1>5 DEF Cut
  <2>2. DOMAIN rows \subseteq found[b] /\ DOMAIN touches = found[b]
    OBVIOUS
  <2> HIDE DEF rows
  <2>3. CASE e \in found[b]
    BY <1>2, <2>1, <2>2, <2>3, ApplyEffect
  <2>4. CASE e \notin found[b]
    BY <1>2, <1>3, <2>1, <2>2, <2>4, ApplyEffect DEF Owes
  <2> QED
    BY <2>3, <2>4
<1>6. CASE Sweep(b)
  <2> DEFINE rows == [x \in EdgesOf(job[b].on) |-> Absent]
             touches == [x \in {} |-> Reread]
  <2>1. /\ Apply(b, rows, touches) /\ at[b] = "sweep" /\ Continue(b, "sweep", found[b])
        /\ Purges(b)
    BY <1>6 DEF Sweep, BranchInv, Plans, Purges
  <2>2. at'[b] = "write" /\ found'[b] = found[b]
    BY <1>2, <2>1, ContinueOpen, ContinueMoves, AfterCases
  <2>3. CASE e \in found[b]
    BY <1>1, <2>1, <2>2, <2>3 DEF Pending, Owes, Purges
  <2>4. CASE e \notin found[b]
    <3>1. /\ touched'[t][e] = touched[t][e]
          /\ mine'[t][e] = IF e \in EdgesOf(job[b].on) THEN Absent ELSE mine[t][e]
      BY <1>2, <2>1, ApplyEffect
    <3>2. CASE e \in EdgesOf(job[b].on)
      <4>1. View(t)[e] = Absent
        BY <2>1, <2>4, <3>2 DEF Listed
      <4>2. View(t)'[e] = Absent
        BY <1>2, <3>1, <3>2, ViewWritten, Markers
      <4>3. Pending(t, e) => Pending(t, e)'
        BY <1>1, <2>1, PendingKept DEF Owes
      <4> QED
        BY <3>1, <4>1, <4>2, <4>3 DEF Kept
    <3>3. CASE e \notin EdgesOf(job[b].on)
      BY <1>3, <2>1, <3>1, <3>3 DEF Owes
    <3> QED
      BY <3>2, <3>3
  <2> QED
    BY <2>3, <2>4
<1>7. CASE WriteRow(b)
  <2>1. at[b] = "write" /\ job[b].op \in {"create", "update", "revive", "resurrect"}
    BY <1>7 DEF WriteRow
  <2>2. ~Owes(b, t, e)
    BY <2>1 DEF Owes, Purges
  <2>3. CASE UNCHANGED <<mine, touched>>
    BY <1>3, <2>2, <2>3
  <2>4. ASSUME NEW v \in Values, NEW returns \in BOOLEAN,
               Apply(b, [x \in {job[b].on} |-> v],
                     [x \in {job[b].on} |-> IF returns THEN v ELSE Reread])
        PROVE  Kept \/ touched'[t][e] = Reread \/ Imaging
    <3>1. CASE e = job[b].on
      <4>1. mine'[t][e] = v /\ touched'[t][e] \in {v, Reread}
        BY <1>2, <2>4, <3>1, ApplyEffect
      <4>2. v # Untouched
        BY Markers
      <4> QED
        BY <1>2, <4>1, <4>2, ViewWritten
    <3>2. CASE e # job[b].on
      BY <1>2, <1>3, <2>2, <2>4, <3>2, ApplyEffect
    <3> QED
      BY <3>1, <3>2
  <2> QED
    BY <1>7, <2>3, <2>4 DEF WriteRow
<1>8. CASE Remove(b)
  <2> DEFINE rows == IF job[b].op = "purge" THEN [x \in {job[b].on} |-> Absent]
                     ELSE [x \in {y \in {job[b].on} : View(t)[y] \in Values} |-> Tombstone]
             touches == [x \in Removed(b) |-> Reread]
  <2>1. Apply(b, rows, touches)
    BY <1>8 DEF Remove
  <2>2. DOMAIN rows \subseteq {job[b].on} /\ DOMAIN touches = Removed(b)
    OBVIOUS
  <2>3. job[b].on \in Removed(b) /\ (Owes(b, t, e) => e \in Removed(b))
    BY DEF Removed, Owes, Purges
  <2> HIDE DEF rows
  <2>4. CASE e \in Removed(b)
    BY <1>2, <2>1, <2>2, <2>4, ApplyEffect
  <2>5. CASE e \notin Removed(b)
    BY <1>2, <1>3, <2>1, <2>2, <2>3, <2>5, ApplyEffect
  <2> QED
    BY <2>4, <2>5
<1> QED
  BY <1>4, <1>5, <1>6, <1>7, <1>8 DEF Statement

\* A branch about to sweep is alone with its transaction's rows.
LEMMA AloneAtSweep ==
    ASSUME Undisturbed, Plans, NEW b \in Branches, NEW c \in Branches, at[c] = "sweep",
           Scope[b] = Scope[c]
    PROVE  b = c
BY DEF Undisturbed, Plans

LEMMA StatementsCapture ==
    ASSUME Undisturbed, TypeOK, BranchInv, Listed, Captured,
           NEW b \in Branches, Call(b) \/ Statement(b)
    PROVE  Listed' /\ Captured'
<1> DEFINE t == Scope[b]
<1> t \in Txns /\ \A c \in Branches : Scope[c] \in Txns
  BY ScopeAssumption
<1>1. ASSUME UNCHANGED <<live, mine, touched>>, at[b] \in {"idle", "lock"},
             at'[b] # "sweep", ~(at'[b] = "write" /\ Purges(b)'),
             \A c \in Branches \ {b} : at'[c] = at[c] /\ found'[c] = found[c] /\ job'[c] = job[c]
      PROVE  Listed' /\ Captured'
  <2>1. \A u \in Txns : View(u)' = View(u)
    BY <1>1 DEF View
  <2>2. \A u \in Txns, e \in Entities : Pending(u, e) => Pending(u, e)'
    BY <1>1 DEF Pending, Owes, Purges
  <2> QED
    BY <1>1, <2>1, <2>2 DEF Listed, Captured
<1>2. CASE Call(b)
  <2>1. /\ at[b] = "idle" /\ at'[b] \in {"lock", First(job'[b])}
        /\ \A c \in Branches \ {b} : at'[c] = at[c] /\ job'[c] = job[c]
        /\ UNCHANGED <<live, mine, touched, found>>
    BY <1>2, CallMoves DEF BranchInv
  <2>2. at'[b] # "sweep" /\ ~(at'[b] = "write" /\ Purges(b)')
    BY <2>1, FirstCases DEF Purges
  <2> QED
    BY <1>1, <2>1, <2>2
<1>3. CASE LockGraph(b)
  <2>1. /\ at[b] = "lock" /\ Continue(b, "lock", {})
        /\ UNCHANGED <<live, mine, touched, job>>
    BY <1>3 DEF LockGraph, store
  <2>2. at'[b] \in {First(job[b]), "idle"}
        /\ \A c \in Branches \ {b} : at'[c] = at[c] /\ found'[c] = found[c]
    BY <2>1, ContinueMoves, AfterCases
  <2>3. at'[b] # "sweep" /\ ~(at'[b] = "write" /\ Purges(b)')
    BY <2>1, <2>2, FirstCases DEF Purges
  <2> QED
    BY <1>1, <2>1, <2>2, <2>3
<1>4. CASE Statement(b) /\ ~LockGraph(b)
  <2>1. /\ \A c \in Branches \ {b} : at'[c] = at[c] /\ found'[c] = found[c]
        /\ UNCHANGED <<job, live>>
        /\ \A u \in Txns \ {t} : mine'[u] = mine[u] /\ touched'[u] = touched[u]
        /\ at[b] \notin {"idle", "lock"}
    BY <1>4, StatementMoves DEF store
  <2>2. \A u \in Txns \ {t} : View(u)' = View(u)
    BY <2>1 DEF View
  <2>3. Captured'
    <3>1. ASSUME NEW e \in Entities, ~Pending(t, e)'
          PROVE  /\ View(t)'[e] # live'[e] => touched'[t][e] # Untouched
                 /\ touched'[t][e] \in {Untouched, Reread, View(t)'[e]}
      <4>1. \/ /\ View(t)'[e] = View(t)[e] /\ touched'[t][e] = touched[t][e]
               /\ ~Pending(t, e)
            \/ touched'[t][e] = Reread
            \/ touched'[t][e] = View(t)'[e] /\ touched'[t][e] # Untouched
        BY <1>4, <3>1, StatementCaptures
      <4> QED
        BY <2>1, <4>1, Markers DEF Captured
    <3>2. ASSUME NEW u \in Txns \ {t}, NEW e \in Entities PROVE Pending(u, e) => Pending(u, e)'
      BY <2>1 DEF Pending, Owes, Purges
    <3>3. ASSUME NEW u \in Txns \ {t}, NEW e \in Entities, ~Pending(u, e)'
          PROVE  /\ View(u)'[e] # live'[e] => touched'[u][e] # Untouched
                 /\ touched'[u][e] \in {Untouched, Reread, View(u)'[e]}
      BY <2>1, <2>2, <3>2, <3>3 DEF Captured
    <3> QED
      BY <3>1, <3>3 DEF Captured
  <2>4. Listed'
    <3>1. ASSUME NEW c \in Branches \ {b}, at'[c] = "sweep"
          PROVE  \A e \in EdgesOf(job'[c].on) : View(Scope[c])'[e] # Absent => e \in found'[c]
      <4>1. Scope[c] # t
        BY <2>1, <3>1, AloneAtSweep DEF BranchInv
      <4> QED
        BY <2>1, <2>2, <3>1, <4>1 DEF Listed
    <3>2. ASSUME at'[b] = "sweep"
          PROVE  \A e \in EdgesOf(job'[b].on) : View(Scope[b])'[e] # Absent => e \in found'[b]
      <4>1. at[b] = "list"
        <5>1. PICK edges : at'[b] = After(job[b], at[b], edges)
          BY <1>4, <3>2, StatementMoves
        <5>2. at[b] \in {"probe", "cut", "list", "sweep", "write"}
          BY <2>1 DEF TypeOK, BranchStatements
        <5> QED
          BY <3>2, <5>1, <5>2, AfterCases
      <4>2. List(b)
        BY <1>4, <4>1 DEF Statement, Probe, Cut, Sweep, WriteRow, Remove
      <4>3. Continue(b, "list", {x \in EdgesOf(job[b].on) : View(t)[x] # Absent})
            /\ UNCHANGED mine
        BY <4>2 DEF List
      <4>4. found'[b] = {x \in EdgesOf(job[b].on) : View(t)[x] # Absent}
        BY <3>2, <4>3, ContinueMoves
      <4>5. View(t)' = View(t)
        BY <2>1, <4>3 DEF View
      <4> QED
        BY <2>1, <4>4, <4>5
    <3> QED
      BY <3>1, <3>2 DEF Listed
  <2> QED
    BY <2>3, <2>4
<1> QED
  BY <1>2, <1>3, <1>4

\* A transaction that wrote a row is the only one that wrote or touched any.
LEMMA WriterIsAlone ==
    ASSUME Fences, NEW t \in Txns, NEW e \in Entities, mine[t][e] # Untouched,
           NEW u \in Txns \ {t}
    PROVE  \A x \in Entities : mine[u][x] = Untouched /\ touched[u][x] = Untouched
BY DEF Fences

\* A commit changes the live graph for its own transaction, or for those that
\* neither wrote nor touched anything.
LEMMA CommitOthers ==
    ASSUME IntervalInv, Fences, NEW t \in Txns, Commit(t), NEW u \in Txns \ {t}
    PROVE  \/ live' = live
           \/ \A x \in Entities : mine[u][x] = Untouched /\ touched[u][x] = Untouched
<1> TypeOK
  BY DEF IntervalInv
<1>1. live' = View(t) /\ live \in Graphs
  BY DEF Commit, TypeOK
<1>2. CASE \A e \in Entities : mine[t][e] = Untouched
  BY <1>1, <1>2 DEF View
<1>3. CASE \E e \in Entities : mine[t][e] # Untouched
  BY <1>3, WriterIsAlone
<1> QED
  BY <1>2, <1>3

LEMMA EndCaptures ==
    ASSUME IntervalInv, BranchInv, Listed, Captured, NEW t \in Txns, Commit(t) \/ Rollback(t)
    PROVE  Listed' /\ Captured'
<1> TypeOK /\ Shapes /\ Joined /\ Fences
  BY DEF IntervalInv, BranchInv
<1>1. End(t)
  BY DEF Commit, Rollback
<1>2. /\ \A e \in Entities : mine'[t][e] = Untouched /\ touched'[t][e] = Untouched
      /\ \A u \in Txns \ {t} : mine'[u] = mine[u] /\ touched'[u] = touched[u]
      /\ \A b \in Branches : Scope[b] = t => at'[b] = "idle"
      /\ \A b \in Branches : Scope[b] # t => at'[b] = at[b] /\ found'[b] = found[b]
      /\ UNCHANGED job
  BY <1>1 DEF End, TypeOK
<1>3. \A u \in Txns \ {t} :
          \/ live' = live
          \/ \A x \in Entities : mine[u][x] = Untouched /\ touched[u][x] = Untouched
  BY CommitOthers DEF Rollback, store
<1>4. \A u \in Txns \ {t}, e \in Entities : Pending(u, e) => Pending(u, e)'
  BY <1>2 DEF Pending, Owes, Purges
<1>5. Captured'
  <2>1. ASSUME NEW e \in Entities
        PROVE  View(t)'[e] = live'[e] /\ touched'[t][e] = Untouched
    BY <1>2 DEF View
  <2>2. ASSUME NEW u \in Txns \ {t}, NEW e \in Entities, ~Pending(u, e)'
        PROVE  /\ View(u)'[e] # live'[e] => touched'[u][e] # Untouched
               /\ touched'[u][e] \in {Untouched, Reread, View(u)'[e]}
    <3>1. CASE live' = live
      BY <1>2, <1>4, <2>2, <3>1, ViewKept DEF Captured
    <3>2. CASE \A x \in Entities : mine[u][x] = Untouched /\ touched[u][x] = Untouched
      BY <1>2, <3>2 DEF View
    <3> QED
      BY <1>3, <3>1, <3>2
  <2> QED
    BY <2>1, <2>2 DEF Captured
<1>6. Listed'
  <2> SUFFICES ASSUME NEW b \in Branches, at'[b] = "sweep", NEW e \in EdgesOf(job'[b].on)
               PROVE  View(Scope[b])'[e] # Absent => e \in found'[b]
    BY DEF Listed
  <2>1. Scope[b] \in Txns \ {t} /\ at[b] = "sweep" /\ found'[b] = found[b] /\ e \in Entities
    BY <1>2, ScopeAssumption DEF EdgesOf
  <2>2. View(Scope[b])[e] # Absent => e \in found[b]
    BY <1>2, <2>1 DEF Listed
  <2>3. graphLock = Scope[b]
    BY <2>1 DEF Joined, Fences, Sealed
  <2>4. live' = live
    <3>1. CASE Rollback(t)
      BY <3>1 DEF Rollback, store
    <3>2. CASE Commit(t)
      <4>1. \A x \in Entities : mine[t][x] = Untouched
        BY <2>1, <2>3 DEF Fences
      <4> QED
        BY <3>2, <4>1 DEF Commit, View, TypeOK
    <3> QED
      BY <3>1, <3>2
  <2> QED
    BY <1>2, <2>1, <2>2, <2>4, ViewKept
<1> QED
  BY <1>5, <1>6

LEMMA NextCaptures ==
    ASSUME Undisturbed, IntervalInv, BranchInv, Listed, Captured, [Next]_vars
    PROVE  Listed' /\ Captured'
<1> TypeOK
  BY DEF IntervalInv
<1>1. ASSUME UNCHANGED <<live, mine, at, found, job>>,
             \A t \in Txns, e \in Entities :
                touched'[t][e] # touched[t][e] =>
                    touched[t][e] = Reread /\ touched'[t][e] = View(t)[e]
      PROVE  Listed' /\ Captured'
  <2>1. \A t : View(t)' = View(t)
    BY <1>1 DEF View
  <2>2. \A t, e : Pending(t, e)' <=> Pending(t, e)
    BY <1>1 DEF Pending, Owes, Purges
  <2>3. Listed'
    BY <1>1, <2>1 DEF Listed
  <2>4. ASSUME NEW t \in Txns, NEW e \in Entities PROVE View(t)[e] # Untouched
    BY <2>4, ViewIsGraph, Markers
  <2>5. Captured'
    BY <1>1, <2>1, <2>2, <2>4, Markers DEF Captured
  <2> QED
    BY <2>3, <2>5
<1>2. ASSUME NEW b \in Branches, Call(b) \/ Statement(b) PROVE Listed' /\ Captured'
  BY <1>2, StatementsCapture
<1>3. ASSUME NEW t \in Txns, Settle(t) PROVE Listed' /\ Captured'
  BY <1>1, <1>3 DEF Settle, store, branch
<1>4. ASSUME NEW t \in Txns, Flush(t) PROVE Listed' /\ Captured'
  <2>1. UNCHANGED <<live, mine, at, found, job>>
    BY <1>4 DEF Flush, LockClock, ReadClock, AdvanceClock, CloseOpen, ReadImages, InsertImages,
                FlushOn, store, branch
  <2>2. \/ UNCHANGED touched
        \/ \E statement, table : ReadImages(t, statement, table)
    BY <1>4 DEF Flush, LockClock, ReadClock, AdvanceClock, CloseOpen, InsertImages
  <2>3. \A u \in Txns, e \in Entities :
            touched'[u][e] # touched[u][e] =>
                touched[u][e] = Reread /\ touched'[u][e] = View(u)[e]
    BY <2>2, ReadImagesTouches
  <2> QED
    BY <1>1, <2>1, <2>3
<1>5. ASSUME NEW t \in Txns, Commit(t) \/ Rollback(t) PROVE Listed' /\ Captured'
  BY <1>5, EndCaptures
<1>6. CASE UNCHANGED vars
  BY <1>1, <1>6 DEF vars
<1> QED
  BY <1>2, <1>3, <1>4, <1>5, <1>6 DEF Next, Finished

LEMMA InitCaptures == Init => Listed /\ Captured
BY DEF Init, Listed, Captured, View

\* A commit records the graph it leaves.
LEMMA CommitRecords ==
    ASSUME IntervalInv, Readable, Readable', Complete, Joined, Captured, HistoryIsLive,
           NEW t \in Txns, Commit(t)
    PROVE  HistoryIsLive'
<1> TypeOK /\ Shapes /\ ClockHeld /\ Closes /\ Opens /\ Intervals
  BY DEF IntervalInv, FlushInv
<1>1. phase[t] = "drain" /\ live' = View(t) /\ View(t) \in Graphs /\ clock \in Nat
  <2>1. phase[t] = "drain" /\ live' = View(t)
    BY DEF Commit
  <2>2. clock \in Nat
    BY BoundsAssumption DEF TypeOK
  <2> QED
    BY <2>1, <2>2, ViewIsGraph
<1>2. \A e \in Entities :
          /\ View(t)[e] # live[e] => touched[t][e] # Untouched
          /\ touched[t][e] \in {Untouched, Reread, View(t)[e]}
  BY <1>1 DEF Captured, Pending, Owes, Joined, Sealed
<1>3. CASE revision[t] = 0
  <2>1. UNCHANGED <<recorded, clock>>
    BY <1>3, CommitUnrecorded
  <2>2. \A e \in Entities : View(t)[e] = live[e]
    BY <1>1, <1>2, <1>3 DEF Complete
  <2>3. live' = live
    BY <1>1, <2>2 DEF TypeOK
  <2> QED
    BY <2>1, <2>3 DEF HistoryIsLive, AsOf, Versions
<1>4. CASE revision[t] # 0
  <2>0. PICK next \in Nat : next = clock + 1
    BY <1>1
  <2>1. /\ revision[t] = next /\ clock' = next /\ next \in 1..MaxRevision /\ next < MaxRevision
        /\ closing[t] \subseteq recorded /\ opening[t] \subseteq RecordedRows
    BY <1>1, <1>4, <2>0, CommitRecorded, BoundsAssumption
  <2>3. \A x \in recorded' :
            \/ x \in recorded \ closing[t]
            \/ \E r \in closing[t] : x = At(r, next)
            \/ x \in opening[t]
    BY <1>4, <2>0, CommitRows
  <2>4. \A r \in closing[t] : At(r, next).to = next /\ At(r, next).id = r.id
    BY <2>1, AtFields
  <2>5. ASSUME NEW e \in Entities PROVE AsOf(next)'[e] = View(t)[e]
    <3>1. CASE touched[t][e] = Untouched
      <4>1. View(t)[e] = live[e] /\ AsOf(clock)[e] = live[e]
        BY <1>2, <3>1 DEF HistoryIsLive
      <4>2. \A x \in Versions(next, e)' : x \in Versions(clock, e)
        <5> SUFFICES ASSUME NEW x \in Versions(next, e)' PROVE x \in Versions(clock, e)
          OBVIOUS
        <5>1. x \in recorded' /\ x.id = e /\ x.from <= next /\ next < x.to
          BY DEF Versions
        <5>2. x \notin opening[t]
          BY <3>1, <5>1 DEF Complete
        <5>3. x \in recorded
          BY <2>3, <2>4, <5>1, <5>2
        <5>4. x.from <= clock /\ x.to \in Nat
          BY <5>3, BoundsAssumption DEF Intervals, TypeOK
        <5>5. clock < x.to
          BY <1>1, <2>0, <5>1, <5>4
        <5> QED
          BY <5>1, <5>3, <5>4, <5>5 DEF Versions
      <4>3. \A x \in Versions(clock, e) : x \in Versions(next, e)'
        <5> SUFFICES ASSUME NEW x \in Versions(clock, e) PROVE x \in Versions(next, e)'
          OBVIOUS
        <5>1. x \in recorded /\ x.id = e /\ x.from <= clock /\ clock < x.to
          BY DEF Versions
        <5>2. x \in recorded'
          BY <1>4, <3>1, <5>1, CommitRows DEF Closes
        <5>3. x.from \in Nat /\ x.to \in Nat /\ (x.to = MaxRevision \/ x.to <= clock)
          BY <5>1, BoundsAssumption DEF Intervals, TypeOK
        <5>4. x.from <= next /\ next < x.to
          BY <1>1, <2>0, <2>1, <5>1, <5>3
        <5> QED
          BY <5>1, <5>2, <5>4 DEF Versions
      <4>4. CASE Versions(clock, e) = {}
        <5>1. Versions(next, e)' = {}
          BY <4>2, <4>4
        <5> QED
          BY <1>1, <4>1, <4>4, <5>1 DEF Readable
      <4>5. ASSUME NEW x \in Versions(clock, e) PROVE AsOf(next)'[e] = View(t)[e]
        <5>1. AsOf(next)'[e] = x.row
          BY <4>3, <4>5 DEF Readable
        <5>2. AsOf(clock)[e] = x.row
          BY <1>1, <4>5 DEF Readable
        <5> QED
          BY <4>1, <5>1, <5>2
      <4> QED
        BY <4>4, <4>5
    <3>2. CASE touched[t][e] # Untouched
      <4>1. /\ touched[t][e] = View(t)[e] /\ OpenOf(e) \subseteq closing[t]
            /\ touched[t][e] # Absent => \E r \in opening[t] : r.id = e
        BY <1>1, <1>2, <1>4, <3>2 DEF Complete, Imaged
      <4>2. CASE touched[t][e] # Absent
        <5>1. PICK r \in opening[t] : r.id = e
          BY <4>1, <4>2
        <5>2. r.row = View(t)[e] /\ r.from = next /\ r.to = MaxRevision
          BY <2>1, <4>1, <5>1 DEF Complete, TypeOK
        <5>3. r \in Versions(next, e)'
          BY <1>4, <2>1, <5>1, <5>2, CommitRows DEF Versions
        <5> QED
          BY <5>2, <5>3 DEF Readable
      <4>3. CASE touched[t][e] = Absent
        <5>1. Versions(next, e)' = {}
          <6> SUFFICES ASSUME NEW x \in recorded', x.id = e, x.from <= next, next < x.to PROVE FALSE
            BY DEF Versions
          <6>1. CASE x \in recorded \ closing[t]
            <7>1. x.to # MaxRevision
              BY <4>1, <6>1 DEF OpenOf
            <7>2. x.to <= clock /\ x.to \in Nat
              BY <6>1, <7>1, BoundsAssumption DEF Intervals, TypeOK
            <7> QED
              BY <1>1, <2>0, <7>2
          <6>2. CASE \E r \in closing[t] : x = At(r, next)
            BY <2>4, <6>2
          <6>3. CASE x \in opening[t]
            BY <2>1, <4>3, <6>3, Markers DEF Complete
          <6> QED
            BY <2>3, <6>1, <6>2, <6>3
        <5> QED
          BY <4>1, <4>3, <5>1 DEF Readable
      <4> QED
        BY <4>2, <4>3
    <3> QED
      BY <3>1, <3>2
  <2>6. AsOf(next)' = View(t)
    BY <1>1, <2>5 DEF AsOf
  <2> QED
    BY <1>1, <2>1, <2>6 DEF HistoryIsLive
<1> QED
  BY <1>3, <1>4

LEMMA InitHistory ==
    ASSUME Init, Readable
    PROVE  HistoryIsLive
<1> USE BoundsAssumption, SeedsAssumption
<1>1. live \in Graphs /\ clock \in {0, 1}
  BY DEF Init
<1>2. ASSUME NEW e \in Entities PROVE AsOf(clock)[e] = live[e]
  <2>1. CASE live[e] = Absent
    <3>1. Versions(clock, e) = {}
      BY <2>1 DEF Init, Versions
    <3> QED
      BY <1>1, <2>1, <3>1 DEF Readable
  <2>2. CASE live[e] # Absent
    <3> DEFINE x == [id |-> e, row |-> live[e], from |-> 1, to |-> MaxRevision]
    <3>1. clock = 1 /\ x \in recorded
      BY <2>2 DEF Init
    <3>2. x \in Versions(clock, e)
      BY <3>1 DEF Versions
    <3>3. AsOf(clock)[e] = x.row
      BY <1>1, <3>2 DEF Readable
    <3> QED
      BY <3>3
  <2> QED
    BY <2>1, <2>2
<1>3. AsOf(clock) = [e \in Entities |-> AsOf(clock)[e]]
  BY DEF AsOf
<1> QED
  BY <1>1, <1>2, <1>3 DEF HistoryIsLive

CaptureInv == Complete /\ BranchInv /\ Listed /\ Captured /\ HistoryIsLive

LEMMA CaptureHolds ==
    ASSUME JoinsBranches, Undisturbed
    PROVE  Spec => []CaptureInv
<1>1. Init /\ Readable => CaptureInv
  BY InitComplete, InitBranches, InitCaptures, InitHistory DEF CaptureInv
<1>2. ASSUME IntervalInv, IntervalInv', Readable, Readable', CaptureInv, [Next]_vars
      PROVE  CaptureInv'
  <2>1. TypeOK /\ Shapes /\ Joined
    BY <1>2 DEF IntervalInv, CaptureInv, BranchInv
  <2>2. Complete' /\ BranchInv' /\ Listed' /\ Captured'
    BY <1>2, NextComplete, NextBranches, NextCaptures DEF CaptureInv
  <2>3. HistoryIsLive'
    <3>1. CASE \A t \in Txns : ~Commit(t)
      <4>1. UNCHANGED <<live, recorded, clock>>
        BY <1>2, <2>1, <3>1, HistoryFrame
      <4> QED
        BY <1>2, <4>1 DEF CaptureInv, HistoryIsLive, AsOf, Versions
    <3>2. ASSUME NEW t \in Txns, Commit(t) PROVE HistoryIsLive'
      BY <1>2, <2>1, <3>2, CommitRecords DEF CaptureInv
    <3> QED
      BY <3>1, <3>2
  <2> QED
    BY <2>2, <2>3 DEF CaptureInv
<1> QED
  BY <1>1, <1>2, IntervalsHold, ReadableHolds, PTL DEF Spec

\* Where a callback awaits its branches, and no two branches of a transaction
\* can meet over a hard-deleted node, the latest recorded version is the live
\* graph: no write escapes the history and none is recorded that did not commit.
THEOREM HistoryStaysLive ==
    ASSUME JoinsBranches, Undisturbed
    PROVE  Spec => []HistoryIsLive
BY CaptureHolds, PTL DEF CaptureInv

-----------------------------------------------------------------------------
(* Edges and their endpoints. *)

\* A transaction runs one branch.
Solitary == \A b, c \in Branches : Scope[b] = Scope[c] => b = c

\* No operation brings an edge back, and none leaves the edges of a node alone.
Enforced == {"resurrect", "retract"} \cap Ops = {}

\* What removals keep attached: an edge row to a node row, whatever is called,
\* and a live edge to a live node, where they are enforced.
Keeps(kept) == kept = Rows \/ (kept = Values /\ Enforced)

\* The graphs a behaviour starts from are attached.
SeedsAttached(kept) ==
    \A graph \in Seeds, e \in Edges : graph[e] \in kept => graph[Endpoint[e]] \in kept

\* The committed graph is attached, and the one each transaction sees.
LiveAttached(kept) == \A e \in Edges : live[e] \in kept => live[Endpoint[e]] \in kept
Attached(t, kept) == \A e \in Edges : View(t)[e] \in kept => View(t)[Endpoint[e]] \in kept
AllAttached(kept) == \A t \in Txns : Attached(t, kept)

\* What a branch has read still holds: a new edge has a live endpoint, a node
\* is removed after its live edges, and is purged after every row of an edge.
Detached(b) == \A e \in EdgesOf(job[b].on) : View(Scope[b])[e] \notin Values
Emptied(b) == \A e \in EdgesOf(job[b].on) : View(Scope[b])[e] = Absent
Ready(b) ==
    /\ at[b] = "write" /\ job[b].op = "create" /\ job[b].on \in Edges =>
          View(Scope[b])[Endpoint[job[b].on]] \in Values
    /\ at[b] = "cut" =>
          \A e \in EdgesOf(job[b].on) : View(Scope[b])[e] \in Values <=> e \in found[b]
    /\ at[b] \in {"list", "sweep"} => Detached(b)
    /\ at[b] = "write" /\ job[b].op \in {"retire", "purge"} /\ job[b].on \in Nodes => Detached(b)
    /\ at[b] = "write" /\ job[b].op = "purge" /\ job[b].on \in Nodes => Emptied(b)
AllReady == \A b \in Branches : Ready(b)

EdgeInv(kept) == AllAttached(kept) /\ AllReady /\ LiveAttached(kept)

LEMMA KeptRows ==
    ASSUME NEW kept, Keeps(kept)
    PROVE  Values \subseteq kept /\ Absent \notin kept
BY Markers, DistinctAssumption DEF Keeps, Rows

\* What a transaction sees after it wrote.
LEMMA ApplyViews ==
    ASSUME TypeOK, NEW b \in Branches, NEW rows, NEW touches, Apply(b, rows, touches),
           phase[Scope[b]] = "open", \A e \in DOMAIN rows : rows[e] # Untouched,
           NEW e \in Entities
    PROVE  View(Scope[b])'[e] = IF e \in DOMAIN rows THEN rows[e] ELSE View(Scope[b])[e]
<1> Scope[b] \in Txns
  BY ScopeAssumption
<1>1. mine'[Scope[b]][e] = (IF e \in DOMAIN rows THEN rows[e] ELSE mine[Scope[b]][e]) /\ live' = live
  BY ApplyEffect
<1> QED
  BY <1>1, ViewKept, ViewWritten

\* A statement that removes nothing but edges keeps the others attached.
LEMMA EdgesRemoved ==
    ASSUME NEW kept, NEW t \in Txns, Attached(t, kept),
           \A e \in Nodes : View(t)'[e] = View(t)[e],
           \A e \in Edges : View(t)'[e] \in kept => View(t)[e] \in kept
    PROVE  Attached(t, kept)'
BY EndpointAssumption DEF Attached

LEMMA StatementAttaches ==
    ASSUME TypeOK, BranchInv, NEW kept, Keeps(kept), NEW b \in Branches,
           Attached(Scope[b], kept), Ready(b), Statement(b), ~LockGraph(b)
    PROVE  Attached(Scope[b], kept)' /\ Ready(b)'
<1> DEFINE t == Scope[b]
           j == job[b]
<1> USE EndpointAssumption, DistinctAssumption
<1>0. t \in Txns /\ Values \subseteq kept /\ Absent \notin kept
  BY ScopeAssumption, KeptRows
<1>1. /\ at[b] \notin {"idle", "lock"}
      /\ UNCHANGED <<job, live>>
  BY StatementMoves DEF store
<1>2. phase[t] = "open"
  BY <1>1 DEF BranchInv, Joined, Sealed
<1>3. job'[b] = j /\ j.on \in Entities
  BY <1>1 DEF BranchInv, Plans
<1>4. ASSUME UNCHANGED mine PROVE View(t)' = View(t) /\ Attached(t, kept)'
  <2>1. View(t)' = View(t)
    BY <1>1, <1>4 DEF View
  <2> QED
    BY <2>1 DEF Attached
<1>5. CASE Probe(b)
  <2>0. at[b] = "probe" /\ UNCHANGED mine
    BY <1>5 DEF Probe
  <2>1. View(t)' = View(t) /\ Attached(t, kept)'
    BY <1>4, <2>0
  <2>2. CASE at'[b] = "idle"
    BY <2>1, <2>2 DEF Ready
  <2>3. CASE j.on \in Edges /\ at'[b] # "idle"
    <3>1. View(t)[Endpoint[j.on]] \in Values /\ Continue(b, "probe", {})
      BY <1>5, <2>3, ThrowMoves DEF Probe
    <3>2. at'[b] = After(j, "probe", {}) /\ j.op = "create"
      BY <1>2, <2>0, <2>3, <3>1, ContinueOpen DEF BranchInv, Plans
    <3>3. at'[b] = "write"
      BY <3>2, AfterCases
    <3> QED
      BY <1>3, <2>1, <2>3, <3>1, <3>2, <3>3 DEF Ready
  <2>4. CASE j.on \notin Edges /\ at'[b] # "idle"
    <3> DEFINE edges == {x \in EdgesOf(j.on) : View(t)[x] \in Values}
    <3>1. Continue(b, "probe", edges) /\ j.on \in Nodes /\ j.op \in {"retire", "purge"}
      BY <1>5, <2>0, <2>4 DEF Probe, BranchInv, Plans
    <3>2. at'[b] = After(j, "probe", edges) /\ found'[b] = edges
      BY <1>2, <2>4, <3>1, ContinueOpen, ContinueMoves
    <3>3. at'[b] = IF edges # {} THEN "cut" ELSE IF j.op = "purge" THEN "list" ELSE "write"
      BY <3>2, AfterCases
    <3>4. \/ at'[b] = "cut"
          \/ edges = {} /\ at'[b] \in {"list", "write"} /\ (at'[b] = "write" => j.op # "purge")
      BY <3>3
    <3>5. at'[b] = "cut" => Ready(b)'
      BY <1>3, <2>1, <3>2 DEF Ready
    <3>6. edges = {} => Detached(b)'
      BY <1>3, <2>1 DEF Detached
    <3> QED
      BY <1>3, <2>1, <3>1, <3>4, <3>5, <3>6 DEF Ready
  <2> QED
    BY <2>1, <2>2, <2>3, <2>4
<1>6. CASE List(b)
  <2>1. at[b] = "list" /\ UNCHANGED mine
        /\ Continue(b, "list", {x \in EdgesOf(j.on) : View(t)[x] # Absent})
    BY <1>6 DEF List
  <2>2. View(t)' = View(t) /\ Attached(t, kept)'
    BY <1>4, <2>1
  <2>3. at'[b] = "sweep"
    BY <1>2, <2>1, ContinueOpen, AfterCases
  <2>4. Detached(b)'
    BY <1>3, <2>1, <2>2 DEF Ready, Detached
  <2> QED
    BY <2>2, <2>3, <2>4 DEF Ready
<1>7. CASE Cut(b)
  <2> DEFINE rows == IF j.op = "purge" THEN [x \in found[b] |-> Absent]
                     ELSE [x \in {y \in found[b] : View(t)[y] \in Values} |-> Tombstone]
             touches == [x \in found[b] |-> Reread]
  <2>1. Apply(b, rows, touches) /\ at[b] = "cut" /\ Continue(b, "cut", {})
    BY <1>7 DEF Cut
  <2>2. /\ DOMAIN rows \subseteq found[b]
        /\ \A x \in found[b] : View(t)[x] \in Values => x \in DOMAIN rows
        /\ \A x \in DOMAIN rows : rows[x] \in {Absent, Tombstone}
        /\ \A x \in DOMAIN rows : rows[x] \in kept => View(t)[x] \in kept
    BY <1>0
  <2>3. found[b] \subseteq Edges /\ j.on \in Nodes /\ j.op \in {"retire", "purge"}
    BY <2>1 DEF TypeOK, BranchInv, Plans
  <2> HIDE DEF rows, touches
  <2>4. \A e \in Entities :
            View(t)'[e] = IF e \in DOMAIN rows THEN rows[e] ELSE View(t)[e]
    BY <1>2, <2>1, <2>2, ApplyViews, Markers
  <2>5. Absent \notin Values /\ Tombstone \notin Values
    OBVIOUS
  <2>6. Attached(t, kept)'
    BY <1>0, <2>2, <2>3, <2>4, <2>5, EdgesRemoved
  <2>7. Detached(b)'
    <3> SUFFICES ASSUME NEW e \in EdgesOf(j.on) PROVE View(t)'[e] \notin Values
      BY <1>3 DEF Detached
    <3>1. View(t)[e] \in Values => e \in found[b]
      BY <2>1 DEF Ready
    <3> QED
      BY <2>2, <2>4, <2>5, <3>1 DEF EdgesOf
  <2>8. at'[b] = IF j.op = "purge" THEN "list" ELSE "write"
    BY <1>2, <2>1, ContinueOpen, AfterCases
  <2>9. at'[b] \in {"list", "write"} /\ (at'[b] = "write" => j.op # "purge")
    BY <2>8
  <2> QED
    BY <1>3, <2>3, <2>6, <2>7, <2>9 DEF Ready
<1>8. CASE Sweep(b)
  <2> DEFINE rows == [x \in EdgesOf(j.on) |-> Absent]
             touches == [x \in {} |-> Reread]
  <2>1. /\ Apply(b, rows, touches) /\ at[b] = "sweep" /\ Continue(b, "sweep", found[b])
        /\ j.on \in Nodes /\ j.op = "purge"
    BY <1>8 DEF Sweep, BranchInv, Plans
  <2>2. \A e \in Entities :
            View(t)'[e] = IF e \in EdgesOf(j.on) THEN Absent ELSE View(t)[e]
    BY <1>2, <2>1, ApplyViews, Markers
  <2>3. Attached(t, kept)'
    BY <1>0, <2>2, EdgesRemoved DEF EdgesOf
  <2>5. Detached(b)' /\ Emptied(b)'
    BY <1>3, <2>2 DEF Detached, Emptied, EdgesOf
  <2>4. at'[b] = "write"
    BY <1>2, <2>1, ContinueOpen, AfterCases
  <2> QED
    BY <1>3, <2>1, <2>3, <2>4, <2>5 DEF Ready
<1>9. ASSUME at[b] = "write", at'[b] = "idle" PROVE Ready(b)'
  BY <1>9 DEF Ready
<1>10. CASE WriteRow(b)
  <2>1. at[b] = "write"
    BY <1>10 DEF WriteRow
  <2>2. CASE Throw(b) /\ UNCHANGED mine
    BY <1>4, <1>9, <2>1, <2>2, ThrowMoves
  <2>3. ASSUME ~(Throw(b) /\ UNCHANGED mine)
        PROVE  Attached(t, kept)' /\ Ready(b)'
    <3>1. PICK v \in Values, returns \in BOOLEAN :
              /\ Apply(b, [x \in {j.on} |-> v], [x \in {j.on} |-> IF returns THEN v ELSE Reread])
              /\ Continue(b, "write", {})
      BY <1>10, <2>3 DEF WriteRow
    <3>2. j.on \in Edges => View(t)[Endpoint[j.on]] \in kept
      <4>1. CASE j.op = "create"
        BY <1>0, <2>1, <4>1 DEF Ready
      <4>2. CASE j.op = "update"
        <5>1. View(t)[j.on] \in Values
          BY <1>10, <2>3, <4>2 DEF WriteRow, Unmatched
        <5> QED
          BY <1>0, <5>1 DEF Attached
      <4>3. CASE j.op = "revive"
        BY <2>1, <4>3 DEF BranchInv, Plans
      <4>4. CASE j.op = "resurrect"
        <5>1. kept = Rows
          BY <1>1, <4>4 DEF Keeps, Enforced, BranchInv, Plans
        <5>2. View(t)[j.on] # Absent
          BY <1>10, <2>3, <4>4 DEF WriteRow, Unmatched
        <5>3. View(t)[j.on] \in kept
          BY <1>0, <1>3, <5>1, <5>2, ViewIsGraph
        <5> QED
          BY <5>3 DEF Attached
      <4> QED
        BY <1>10, <4>1, <4>2, <4>3, <4>4 DEF WriteRow
    <3>3. \A e \in Entities : View(t)'[e] = IF e = j.on THEN v ELSE View(t)[e]
      BY <1>2, <3>1, ApplyViews, Markers
    <3>4. Attached(t, kept)'
      BY <1>0, <1>3, <3>2, <3>3 DEF Attached
    <3>5. at'[b] = "idle"
      BY <1>2, <3>1, ContinueOpen, AfterCases
    <3> QED
      BY <1>9, <2>1, <3>4, <3>5
  <2> QED
    BY <2>2, <2>3
<1>11. CASE Remove(b)
  <2> DEFINE rows == IF j.op = "purge" THEN [x \in {j.on} |-> Absent]
                     ELSE [x \in {y \in {j.on} : View(t)[y] \in Values} |-> Tombstone]
             touches == [x \in Removed(b) |-> Reread]
  <2>1. Apply(b, rows, touches) /\ at[b] = "write" /\ Continue(b, "write", {})
        /\ j.op \in {"retire", "retract", "purge"}
    BY <1>11 DEF Remove
  <2>2. /\ DOMAIN rows \subseteq {j.on}
        /\ \A x \in DOMAIN rows : rows[x] \in {Absent, Tombstone}
        /\ \A x \in DOMAIN rows : rows[x] \in kept => View(t)[x] \in kept
        /\ j.op # "purge" => \A x \in DOMAIN rows : rows[x] = Tombstone
    BY <1>0
  <2> HIDE DEF rows, touches
  <2>3. \A e \in Entities :
            View(t)'[e] = IF e \in DOMAIN rows THEN rows[e] ELSE View(t)[e]
    BY <1>2, <2>1, <2>2, ApplyViews, Markers
  <2>4. \A e \in Entities \ {j.on} : View(t)'[e] = View(t)[e]
    BY <2>2, <2>3
  <2>5. View(t)'[j.on] \in kept => View(t)[j.on] \in kept
    BY <1>3, <2>2, <2>3
  <2>6. Attached(t, kept)'
    <3>1. CASE j.on \in Edges
      BY <1>0, <2>4, <2>5, <3>1, EdgesRemoved
    <3>2. CASE j.on \in Nodes
      <4> SUFFICES ASSUME NEW e \in Edges, View(t)'[e] \in kept
                   PROVE  View(t)'[Endpoint[e]] \in kept
        BY DEF Attached
      <4>1. View(t)[e] \in kept /\ View(t)[Endpoint[e]] \in kept
        BY <2>4, <3>2 DEF Attached
      <4>2. CASE Endpoint[e] # j.on
        BY <2>4, <4>1, <4>2
      <4>3. CASE Endpoint[e] = j.on /\ kept = Rows
        <5>1. j.op # "purge"
          BY <1>0, <2>1, <3>2, <4>1, <4>3 DEF Ready, Emptied, EdgesOf
        <5>2. Tombstone \in kept
          BY <4>3 DEF Rows
        <5> QED
          BY <1>3, <2>2, <2>3, <4>1, <4>3, <5>1, <5>2
      <4>4. CASE Endpoint[e] = j.on /\ kept = Values /\ Enforced
        <5>1. j.op \in {"retire", "purge"}
          BY <1>1, <2>1, <4>4 DEF Enforced, BranchInv, Plans
        <5> QED
          BY <2>1, <3>2, <4>1, <4>4, <5>1 DEF Ready, Detached, EdgesOf
      <4> QED
        BY <4>2, <4>3, <4>4 DEF Keeps
    <3> QED
      BY <1>3, <3>1, <3>2
  <2>7. at'[b] = "idle"
    BY <1>2, <2>1, ContinueOpen, AfterCases
  <2> QED
    BY <1>9, <2>1, <2>6, <2>7
<1> QED
  BY <1>5, <1>6, <1>7, <1>8, <1>10, <1>11 DEF Statement

LEMMA NextAttaches ==
    ASSUME Solitary, IntervalInv, BranchInv, NEW kept, Keeps(kept), EdgeInv(kept), [Next]_vars
    PROVE  EdgeInv(kept)'
<1> /\ TypeOK /\ Shapes /\ Joined /\ Fences
    /\ AllAttached(kept) /\ AllReady /\ LiveAttached(kept)
  BY DEF IntervalInv, BranchInv, EdgeInv
<1> \A b \in Branches : Scope[b] \in Txns
  BY ScopeAssumption
<1>1. ASSUME UNCHANGED <<live, mine, at, found, job>> PROVE EdgeInv(kept)'
  <2>1. \A t : View(t)' = View(t)
    BY <1>1 DEF View
  <2> QED
    BY <1>1, <2>1 DEF EdgeInv, AllAttached, AllReady, Attached, Ready, Detached, Emptied, LiveAttached
<1>2. ASSUME UNCHANGED <<live, mine>>, NEW b \in Branches, Ready(b)',
             \A c \in Branches \ {b} : at'[c] = at[c] /\ job'[c] = job[c] /\ found'[c] = found[c]
      PROVE  EdgeInv(kept)'
  <2>1. \A t : View(t)' = View(t)
    BY <1>2 DEF View
  <2>2. ASSUME NEW c \in Branches \ {b} PROVE Ready(c)'
    <3>1. Ready(c)
      BY DEF AllReady
    <3> QED
      BY <1>2, <2>1, <3>1 DEF Ready, Detached, Emptied
  <2>3. AllAttached(kept)' /\ LiveAttached(kept)'
    BY <1>2, <2>1 DEF AllAttached, Attached, LiveAttached
  <2> QED
    BY <1>2, <2>2, <2>3 DEF EdgeInv, AllReady
<1>3. ASSUME NEW b \in Branches, Call(b) PROVE EdgeInv(kept)'
  <2>1. /\ at'[b] \in {"lock", First(job'[b])}
        /\ \A c \in Branches \ {b} : at'[c] = at[c] /\ job'[c] = job[c]
        /\ UNCHANGED <<live, mine, found>>
    BY <1>3, CallMoves DEF BranchInv
  <2>2. Ready(b)'
    BY <2>1, FirstCases, DistinctAssumption DEF Ready
  <2> QED
    BY <1>2, <2>1, <2>2
<1>4. ASSUME NEW b \in Branches, LockGraph(b) PROVE EdgeInv(kept)'
  <2>1. Continue(b, "lock", {}) /\ UNCHANGED <<live, mine, job>>
    BY <1>4 DEF LockGraph, store
  <2>2. at'[b] \in {First(job[b]), "idle"}
        /\ \A c \in Branches \ {b} : at'[c] = at[c] /\ found'[c] = found[c]
    BY <2>1, ContinueMoves, AfterCases
  <2>3. Ready(b)'
    BY <2>1, <2>2, FirstCases, DistinctAssumption DEF Ready
  <2> QED
    BY <1>2, <2>1, <2>2, <2>3
<1>5. ASSUME NEW b \in Branches, Statement(b), ~LockGraph(b) PROVE EdgeInv(kept)'
  <2>1. /\ \A c \in Branches \ {b} : at'[c] = at[c] /\ found'[c] = found[c]
        /\ UNCHANGED <<job, live>>
        /\ \A u \in Txns \ {Scope[b]} : mine'[u] = mine[u]
    BY <1>5, StatementMoves DEF store
  <2>2. \A u \in Txns \ {Scope[b]} : View(u)' = View(u)
    BY <2>1 DEF View
  <2>3. Attached(Scope[b], kept)' /\ Ready(b)'
    BY <1>5, StatementAttaches DEF AllAttached, AllReady
  <2>4. AllAttached(kept)'
    BY <2>2, <2>3 DEF AllAttached, Attached
  <2>5. ASSUME NEW c \in Branches \ {b} PROVE Ready(c)'
    <3>1. View(Scope[c])' = View(Scope[c])
      BY <2>2 DEF Solitary
    <3>2. Ready(c)
      BY DEF AllReady
    <3> QED
      BY <2>1, <3>1, <3>2 DEF Ready, Detached, Emptied
  <2> QED
    BY <2>1, <2>3, <2>4, <2>5 DEF AllReady, EdgeInv, LiveAttached
<1>6. ASSUME NEW t \in Txns, Settle(t) \/ Flush(t) PROVE EdgeInv(kept)'
  BY <1>1, <1>6 DEF Settle, Flush, LockClock, ReadClock, AdvanceClock, CloseOpen, ReadImages,
                    InsertImages, FlushOn, store, branch
<1>7. ASSUME NEW t \in Txns, Commit(t) \/ Rollback(t) PROVE EdgeInv(kept)'
  <2>1. End(t)
    BY <1>7 DEF Commit, Rollback
  <2>2. /\ \A e \in Entities : mine'[t][e] = Untouched
        /\ \A u \in Txns \ {t} : mine'[u] = mine[u]
        /\ \A b \in Branches : Scope[b] = t => at'[b] = "idle"
        /\ \A b \in Branches : Scope[b] # t => at'[b] = at[b] /\ found'[b] = found[b]
        /\ UNCHANGED job
    BY <2>1 DEF End, TypeOK
  <2>3. live' = live \/ live' = View(t)
    BY <1>7 DEF Commit, Rollback, store
  <2>4. LiveAttached(kept)'
    BY <2>3, EndpointAssumption DEF AllAttached, Attached, LiveAttached
  <2>5. ASSUME NEW u \in Txns, \A e \in Entities : View(u)'[e] = live'[e]
        PROVE  Attached(u, kept)'
    BY <2>4, <2>5, EndpointAssumption DEF Attached, LiveAttached
  <2>6. ASSUME NEW u \in Txns \ {t} PROVE Attached(u, kept)'
    <3>1. CASE live' = live
      <4>1. View(u)' = View(u)
        BY <2>2, <3>1 DEF View
      <4> QED
        BY <4>1 DEF AllAttached, Attached
    <3>2. CASE \A e \in Entities : mine[u][e] = Untouched
      BY <2>2, <2>5, <3>2 DEF View
    <3> QED
      BY <1>7, <3>1, <3>2, CommitOthers DEF Rollback, store
  <2>7. AllAttached(kept)'
    BY <2>2, <2>5, <2>6 DEF AllAttached, View
  <2>8. ASSUME NEW b \in Branches PROVE Ready(b)'
    <3>1. CASE at'[b] \in {"idle", "lock"}
      BY <3>1 DEF Ready
    <3>2. CASE at'[b] \notin {"idle", "lock"}
      <4>1. Scope[b] # t /\ at[b] = at'[b] /\ found'[b] = found[b] /\ job'[b] = job[b]
        BY <2>2, <3>2
      <4>2. graphLock = Scope[b]
        BY <3>2, <4>1 DEF Joined, Fences, Sealed
      <4>3. \A x \in Entities : mine[t][x] = Untouched
        BY <4>1, <4>2 DEF Fences
      <4>4. live' = live
        BY <1>7, <4>3 DEF Commit, Rollback, store, View, TypeOK
      <4>5. View(Scope[b])' = View(Scope[b])
        BY <2>2, <4>1, <4>4 DEF View
      <4> QED
        BY <4>1, <4>5 DEF AllReady, Ready, Detached, Emptied
    <3> QED
      BY <3>1, <3>2
  <2> QED
    BY <2>4, <2>7, <2>8 DEF EdgeInv, AllReady
<1>8. CASE UNCHANGED vars
  BY <1>1, <1>8 DEF vars
<1> QED
  BY <1>3, <1>4, <1>5, <1>6, <1>7, <1>8 DEF Next, Finished

LEMMA InitAttaches ==
    ASSUME NEW kept, SeedsAttached(kept), Init
    PROVE  EdgeInv(kept)
<1>1. LiveAttached(kept)
  BY DEF Init, SeedsAttached, LiveAttached
<1>2. \A t \in Txns, e \in Entities : View(t)[e] = live[e]
  BY DEF Init, View
<1>3. AllAttached(kept)
  BY <1>1, <1>2, EndpointAssumption DEF AllAttached, Attached, LiveAttached
<1>4. AllReady
  BY DEF Init, AllReady, Ready
<1> QED
  BY <1>1, <1>3, <1>4 DEF EdgeInv

\* Where the operations of a transaction follow one another, no edge outlives
\* its node: an edge row, live or tombstoned, always has its node's row.
THEOREM EdgesNeverOutlive ==
    ASSUME JoinsBranches, Solitary, SeedsAttached(Rows)
    PROVE  Spec => []NoEdgeOutlivesItsNode
<1> DEFINE Inv == BranchInv /\ EdgeInv(Rows)
<1>1. Init => Inv
  BY InitBranches, InitAttaches
<1>2. IntervalInv /\ Inv /\ [Next]_vars => Inv'
  BY NextBranches, NextAttaches DEF Keeps
<1>3. IntervalInv /\ Inv => NoEdgeOutlivesItsNode
  <2> SUFFICES ASSUME IntervalInv, Inv, NEW e \in Edges, live[e] # Absent
               PROVE  live[Endpoint[e]] # Absent
    BY DEF NoEdgeOutlivesItsNode
  <2>1. live[e] \in Rows
    BY DEF IntervalInv, TypeOK, Graphs, Entities
  <2>2. live[Endpoint[e]] \in Rows
    BY <2>1 DEF EdgeInv, LiveAttached
  <2> QED
    BY <2>2, DistinctAssumption, Markers DEF Rows
<1> QED
  BY <1>1, <1>2, <1>3, IntervalsHold, PTL DEF Spec

\* Where, moreover, no edge is brought back and no node retracted, no commit
\* leaves a live edge on a node that is gone: nothing but those two can.
THEOREM EdgesStayAttached ==
    ASSUME JoinsBranches, Solitary, Enforced, SeedsAttached(Values)
    PROVE  Spec => []NoDanglingEdge
<1> DEFINE Inv == BranchInv /\ EdgeInv(Values)
<1>1. Init => Inv
  BY InitBranches, InitAttaches
<1>2. IntervalInv /\ Inv /\ [Next]_vars => Inv'
  BY NextBranches, NextAttaches DEF Keeps
<1>3. Inv => NoDanglingEdge
  BY DEF EdgeInv, LiveAttached, NoDanglingEdge
<1> QED
  BY <1>1, <1>2, <1>3, IntervalsHold, PTL DEF Spec

-----------------------------------------------------------------------------
(* The ledger. *)

\* Where the history is the live graph, a commit appends the graph it leaves to
\* the versions, or leaves them and the graph as they are.
LEMMA CommitAppends ==
    ASSUME IntervalInv, Readable, Readable', CaptureInv, CaptureInv', NEW t \in Txns, Commit(t)
    PROVE  [Ledger!Record]_<<[r \in 1..clock |-> AsOf(r)], live>>
<1> DEFINE versions == [r \in 1..clock |-> AsOf(r)]
<1> TypeOK /\ HistoryIsLive /\ HistoryIsLive'
  BY DEF IntervalInv, CaptureInv
<1>1. clock \in Nat /\ live' \in [Entities -> Rows \cup {Absent}]
  <2>1. clock \in Nat
    BY BoundsAssumption DEF TypeOK
  <2>2. live' = View(t)
    BY DEF Commit
  <2> QED
    BY <2>1, <2>2, ViewIsGraph
<1>2. \A r \in 1..clock : AsOf(r)' = AsOf(r)
  BY CommitKeepsVersions
<1>3. CASE revision[t] = 0
  <2>1. UNCHANGED <<recorded, clock>>
    BY <1>3, CommitUnrecorded
  <2>2. live' = live
    BY <2>1 DEF HistoryIsLive, AsOf, Versions
  <2>3. versions' = versions
    BY <2>1 DEF AsOf, Versions
  <2> QED
    BY <2>2, <2>3
<1>4. CASE revision[t] # 0
  <2>1. PICK next \in Nat : next = clock + 1 /\ clock' = next
    BY <1>1, <1>4, CommitRecorded
  <2>2. AsOf(next)' = live'
    BY <2>1 DEF HistoryIsLive
  <2>3. versions' = [r \in 1..next |-> AsOf(r)']
    BY <2>1
  <2>4. versions' = Append(versions, live')
    BY <1>1, <1>2, <2>1, <2>2, <2>3
  <2> QED
    BY <1>1, <2>4 DEF Ledger!Record, Ledger!States
<1> QED
  BY <1>3, <1>4

LEMMA InitLedger ==
    ASSUME Init, HistoryIsLive
    PROVE  Ledger!Init
<1> DEFINE versions == [r \in 1..clock |-> AsOf(r)]
<1>1. live \in [Entities -> Rows \cup {Absent}]
  BY SeedsAssumption DEF Init
<1>2. CASE \A e \in Entities : live[e] = Absent
  <2>1. clock = 0
    BY <1>2 DEF Init
  <2>2. live = [e \in Entities |-> Absent]
    BY <1>1, <1>2
  <2>3. versions = <<>>
    BY <2>1
  <2> QED
    BY <1>1, <2>2, <2>3 DEF Ledger!Init, Ledger!States
<1>3. CASE ~(\A e \in Entities : live[e] = Absent)
  <2>1. clock = 1
    BY <1>3 DEF Init
  <2>2. AsOf(1) = live
    BY <2>1 DEF HistoryIsLive
  <2>3. versions = <<live>>
    BY <2>1, <2>2
  <2> QED
    BY <1>1, <2>3 DEF Ledger!Init, Ledger!States
<1> QED
  BY <1>2, <1>3

\* Under the same conditions the recorded relations are a ledger of graphs:
\* each commit of a captured transaction appends one version, the graph it
\* leaves live, and nothing else changes the versions or the graph.
THEOREM LedgerImplemented ==
    ASSUME JoinsBranches, Undisturbed
    PROVE  Spec => ImplementsLedger
<1> DEFINE Recording == [Ledger!Record]_<<[r \in 1..clock |-> AsOf(r)], live>>
<1>1. Init /\ CaptureInv => Ledger!Init
  BY InitLedger DEF CaptureInv
<1>2. ASSUME IntervalInv, Readable, Readable', CaptureInv, CaptureInv', [Next]_vars
      PROVE  Recording
  <2>1. CASE \A t \in Txns : ~Commit(t)
    <3>1. UNCHANGED <<live, recorded, clock>>
      BY <1>2, <2>1, HistoryFrame DEF IntervalInv
    <3>2. [r \in 1..clock |-> AsOf(r)]' = [r \in 1..clock |-> AsOf(r)]
      BY <3>1 DEF AsOf, Versions
    <3> QED
      BY <3>1, <3>2
  <2>2. ASSUME NEW t \in Txns, Commit(t) PROVE Recording
    BY <1>2, <2>2, CommitAppends
  <2> QED
    BY <2>1, <2>2
<1> QED
  BY <1>1, <1>2, IntervalsHold, ReadableHolds, CaptureHolds, PTL
  DEF Spec, ImplementsLedger, Ledger!Spec
=============================================================================
