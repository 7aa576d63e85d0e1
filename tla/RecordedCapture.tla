--------------------------- MODULE RecordedCapture ---------------------------
(***************************************************************************)
(* Recorded-time capture of one graph on PostgreSQL (history: true).       *)
(*                                                                         *)
(* Every captured write holds the graph's advisory lock to the end of its  *)
(* transaction and leaves a touch in the transaction's capture session.    *)
(* When the callback settles the session is sealed and flushed: one        *)
(* revision is allocated, the open recorded interval of each touched       *)
(* entity is closed at it and the entity's after-image opened from it.     *)
(* The branches of a callback run concurrently, over the one FIFO queue of *)
(* the transaction (module StatementQueue), and may outlive the callback.  *)
(***************************************************************************)
EXTENDS Naturals, Sequences, FiniteSets

CONSTANTS
    Txns,           \* transactions, each run once
    Branches,       \* concurrent branches of their callbacks
    Scope,          \* the transaction of each branch
    Nodes, Edges,
    Endpoint,       \* the node each edge is attached to
    Values,         \* contents of a live row
    Tombstone,      \* a soft-deleted row
    Absent,         \* no row
    Untouched,      \* no touch of the entity in the session
    Reread,         \* a touch without an after-image: read again at flush
    Flusher,        \* the flush, where it is in line for the connection
    Free,           \* an advisory lock nobody holds
    Ops,            \* operations the callbacks call
    Seeds,          \* graphs the behaviour may start from
    JoinsBranches,  \* the callback awaits all its branches before it settles
    MaxOps,         \* bound: operations one branch calls
    MaxRevision     \* the open revision, one past the last usable one

Entities == Nodes \cup Edges
Rows == Values \cup {Tombstone}
Graphs == [Entities -> Rows \cup {Absent}]

ASSUME ScopeAssumption == Scope \in [Branches -> Txns]
ASSUME EndpointAssumption == Endpoint \in [Edges -> Nodes]
ASSUME SeedsAssumption == Seeds \subseteq Graphs
ASSUME BoundsAssumption == MaxOps \in Nat /\ MaxRevision \in Nat \ {0, 1}
ASSUME DistinctAssumption ==
    /\ Nodes \cap Edges = {} /\ Flusher \notin Branches /\ Free \notin Txns
    /\ Cardinality({Tombstone, Absent, Untouched, Reread}) = 4
    /\ {Tombstone, Absent, Untouched, Reread} \cap Values = {}

VARIABLES
    live,       \* the committed graph
    recorded,   \* committed recorded rows: entity, row, from, to (exclusive)
    clock,      \* committed revision of the graph's recorded clock
    graphLock,  \* holder of the graph's write lock
    clockLock,  \* holder of the graph's clock lock
    mine,       \* per transaction: its uncommitted rows, Untouched elsewhere
    touched,    \* per transaction: touches, then the after-images to record
    phase,      \* per transaction: "open", its flush statement, "drain", "ended"
    fenced,     \* per transaction: its lock memo: "none", "pending", "held"
    revision,   \* per transaction: the revision it allocated, 0 before
    closing,    \* per transaction: recorded rows it closed
    opening,    \* per transaction: recorded rows it inserted
    line,       \* per transaction: whose statement is next, oldest first
    job,        \* per branch: the operation it is running and its entity
    at,         \* per branch: the statement it is in line with, or "idle"
    found,      \* per branch: the edges its operation has read
    calls       \* per branch: operations called (bounds the behaviour)

store == <<live, recorded, clock>>
flush == <<clockLock, revision, closing, opening>>
branch == <<job, at, found, calls>>
vars == <<live, recorded, clock, graphLock, clockLock, mine, touched, phase,
          fenced, revision, closing, opening, line, job, at, found, calls>>

FlushStatements == {"clock", "read", "advance", "closeNodes", "readNodes",
                    "insertNodes", "closeEdges", "readEdges", "insertEdges"}
BranchStatements == {"lock", "probe", "cut", "list", "sweep", "write"}

-----------------------------------------------------------------------------
\* READ COMMITTED: committed rows, overlaid with the transaction's own.
View(t) == [e \in Entities |->
                IF mine[t][e] = Untouched THEN live[e] ELSE mine[t][e]]

EdgesOf(n) == {e \in Edges : Endpoint[e] = n}
Sealed(t) == phase[t] # "open"
Closed(t) == phase[t] \in {"drain", "ended"}
Running(b) == at[b] # "idle"
Turn(t, who) == line[t] # <<>> /\ Head(line[t]) = who

\* A transaction's touches of one table, which the flush handles together.
Touches(t, table) == {e \in table : touched[t][e] # Untouched}

Init ==
    /\ live \in Seeds
    /\ clock = IF \A e \in Entities : live[e] = Absent THEN 0 ELSE 1
    /\ recorded = {[id |-> e, row |-> live[e], from |-> 1, to |-> MaxRevision] :
                       e \in {x \in Entities : live[x] # Absent}}
    /\ graphLock = Free /\ clockLock = Free
    /\ mine = [t \in Txns |-> [e \in Entities |-> Untouched]]
    /\ touched = [t \in Txns |-> [e \in Entities |-> Untouched]]
    /\ phase = [t \in Txns |-> "open"]
    /\ fenced = [t \in Txns |-> "none"]
    /\ revision = [t \in Txns |-> 0]
    /\ closing = [t \in Txns |-> {}]
    /\ opening = [t \in Txns |-> {}]
    /\ line = [t \in Txns |-> <<>>]
    /\ job = [b \in Branches |-> [op |-> "update", on |-> CHOOSE e \in Entities : TRUE]]
    /\ at = [b \in Branches |-> "idle"]
    /\ found = [b \in Branches |-> {}]
    /\ calls = [b \in Branches |-> 0]

-----------------------------------------------------------------------------
(* An operation's statements.  An edge create reads its endpoint, a node     *)
(* removal reads the live edges it must take along and removes them in a     *)
(* batch; hardDeleteNode lists the edges left, sweeps them, drops the node.  *)
(* A resurrected edge's endpoint is not read, and provenance retracts a node *)
(* with enforceDeleteBehavior off: its edges stay as they are.               *)
First(j) ==
    IF (j.op = "create" /\ j.on \in Edges) \/ (j.op \in {"retire", "purge"} /\ j.on \in Nodes)
    THEN "probe" ELSE "write"

After(j, s, edges) ==
    CASE s = "lock" -> First(j)
      [] s = "probe" /\ edges # {} -> "cut"
      [] s = "cut" \/ (s = "probe" /\ edges = {}) ->
             IF j.op = "purge" THEN "list" ELSE "write"
      [] s = "list"  -> "sweep"
      [] s = "sweep" -> "write"
      [] OTHER       -> "idle"

\* assertOpen, where a captured backend member starts, and the closed queue.
Refused(j, s, t) ==
    \/ Closed(t)
    \/ Sealed(t) /\ s \in {"cut", "list", "write"}
                 /\ ~(s = "write" /\ j.op = "purge" /\ j.on \in Nodes)

\* The branch leaves the head of the line and submits its next statement, if
\* it has one and may; otherwise its operation is over, or has thrown.
Continue(b, s, edges) ==
    LET t == Scope[b]
        next == After(job[b], s, edges)
        stops == next = "idle" \/ Refused(job[b], next, t)
    IN  /\ at' = [at EXCEPT ![b] = IF stops THEN "idle" ELSE next]
        /\ line' = [line EXCEPT ![t] = IF stops THEN Tail(@) ELSE Append(Tail(@), b)]
        /\ found' = [found EXCEPT ![b] = IF stops THEN {} ELSE edges]

Throw(b) ==
    /\ at' = [at EXCEPT ![b] = "idle"]
    /\ line' = [line EXCEPT ![Scope[b]] = Tail(@)]
    /\ found' = [found EXCEPT ![b] = {}]

\* The last touch of an entity wins; a sealed session refuses it.
Touch(t, touches) ==
    touched' = IF Sealed(t) THEN touched
               ELSE [touched EXCEPT ![t] = [e \in Entities |->
                        IF e \in DOMAIN touches THEN touches[e] ELSE @[e]]]

-----------------------------------------------------------------------------
(* A branch calls an operation.  The first one of its transaction asks for   *)
(* the graph lock; a branch that starts meanwhile awaits the same promise,   *)
(* so it begins when the lock is granted.                                    *)
Call(b) ==
    LET t == Scope[b] IN
    /\ ~Sealed(t) /\ ~Running(b) /\ calls[b] < MaxOps /\ fenced[t] # "pending"
    /\ calls' = [calls EXCEPT ![b] = @ + 1]
    /\ \E o \in Ops, e \in Entities :
          /\ o \in {"revive", "retract"} => e \in Nodes
          /\ o = "resurrect" => e \in Edges
          /\ job' = [job EXCEPT ![b] = [op |-> o, on |-> e]]
    /\ at' = [at EXCEPT ![b] = IF fenced[t] = "none" THEN "lock" ELSE First(job'[b])]
    /\ fenced' = [fenced EXCEPT ![t] = IF @ = "none" THEN "pending" ELSE @]
    /\ line' = [line EXCEPT ![t] = Append(@, b)]
    /\ UNCHANGED <<store, flush, graphLock, mine, touched, phase, found>>

\* pg_advisory_xact_lock: held until the transaction ends.
LockGraph(b) ==
    /\ Turn(Scope[b], b) /\ at[b] = "lock" /\ graphLock = Free
    /\ graphLock' = Scope[b]
    /\ fenced' = [fenced EXCEPT ![Scope[b]] = "held"]
    /\ Continue(b, "lock", {})
    /\ UNCHANGED <<store, flush, mine, touched, phase, job, calls>>

\* Reads: the endpoint of a new edge, the edges connected to a removed node.
Probe(b) ==
    LET t == Scope[b]  e == job[b].on IN
    /\ Turn(t, b) /\ at[b] = "probe"
    /\ IF e \in Edges
       THEN IF View(t)[Endpoint[e]] \in Values THEN Continue(b, "probe", {}) ELSE Throw(b)
       ELSE Continue(b, "probe", {x \in EdgesOf(e) : View(t)[x] \in Values})
    /\ UNCHANGED <<store, flush, graphLock, mine, touched, phase, fenced, job, calls>>

List(b) ==
    LET t == Scope[b] IN
    /\ Turn(t, b) /\ at[b] = "list"
    /\ Continue(b, "list", {x \in EdgesOf(job[b].on) : View(t)[x] # Absent})
    /\ UNCHANGED <<store, flush, graphLock, mine, touched, phase, fenced, job, calls>>

\* Sets the transaction's rows, touches entities and goes on to the next statement.
Apply(b, rows, touches) ==
    LET t == Scope[b] IN
    /\ mine' = [mine EXCEPT ![t] = [e \in Entities |->
                    IF e \in DOMAIN rows THEN rows[e] ELSE @[e]]]
    /\ Touch(t, touches)
    /\ UNCHANGED <<store, flush, graphLock, phase, fenced, job, calls>>

\* deleteEdgesBatch and hardDeleteEdgesBatch, over the edges the probe found.
Cut(b) ==
    LET t == Scope[b]
        rows == IF job[b].op = "purge" THEN [e \in found[b] |-> Absent]
                ELSE [e \in {x \in found[b] : View(t)[x] \in Values} |-> Tombstone]
    IN  /\ Turn(t, b) /\ at[b] = "cut"
        /\ Apply(b, rows, [e \in found[b] |-> Reread])
        /\ Continue(b, "cut", {})

\* Mutant of Sweep: tombstones stay, as in a statement over live edges.
SweepLive(b) ==
    LET t == Scope[b]
        gone == {e \in EdgesOf(job[b].on) : View(t)[e] \in Values}
    IN  /\ Turn(t, b) /\ at[b] = "sweep"
        /\ Apply(b, [e \in gone |-> Absent], [e \in {} |-> Reread])
        /\ Continue(b, "sweep", found[b])

\* Inside hardDeleteNode: every edge attached to the node, listed or not.
Sweep(b) ==
    LET t == Scope[b] IN
    /\ Turn(t, b) /\ at[b] = "sweep"
    /\ Apply(b, [e \in EdgesOf(job[b].on) |-> Absent], [e \in {} |-> Reread])
    /\ Continue(b, "sweep", found[b])

\* What an operation throws at.  The edge UPDATE with clearDeleted has no
\* deleted_at predicate, so that a resurrection takes a live row too.
Unmatched(op, row) ==
    \/ op = "update" /\ row \notin Values
    \/ op = "revive" /\ row # Tombstone
    \/ op = "resurrect" /\ row = Absent

\* create, update and the revivals hand their row back, or, in the variants that
\* return none, leave it to the flush; one that matches no row throws.
WriteRow(b) ==
    LET t == Scope[b]  e == job[b].on  row == View(t)[e] IN
    /\ Turn(t, b) /\ at[b] = "write"
    /\ job[b].op \in {"create", "update", "revive", "resurrect"}
    /\ job[b].op = "create" => row = Absent
    /\ IF Unmatched(job[b].op, row)
       THEN /\ Throw(b)
            /\ UNCHANGED <<store, flush, graphLock, mine, touched, phase, fenced, job, calls>>
       ELSE \E v \in Values, returns \in BOOLEAN :
            /\ job[b].op # "create" => returns
            /\ Apply(b, [x \in {e} |-> v], [x \in {e} |-> IF returns THEN v ELSE Reread])
            /\ Continue(b, "write", {})

\* Mutant of Removed: hardDeleteNode touches the node alone.
RemovedAlone(b) == {job[b].on}

\* What a removal touches: hardDeleteNode, also the edges it listed.
Removed(b) == {job[b].on} \cup
    (IF job[b].op = "purge" /\ job[b].on \in Nodes THEN found[b] ELSE {})

Remove(b) ==
    LET t == Scope[b]  e == job[b].on
        rows == IF job[b].op = "purge" THEN [x \in {e} |-> Absent]
                ELSE [x \in {y \in {e} : View(t)[y] \in Values} |-> Tombstone]
    IN  /\ Turn(t, b) /\ at[b] = "write" /\ job[b].op \in {"retire", "retract", "purge"}
        /\ Apply(b, rows, [x \in Removed(b) |-> Reread])
        /\ Continue(b, "write", {})

-----------------------------------------------------------------------------
\* The callback resolves: the session is sealed, and flushed if it has touches.
Settle(t) ==
    /\ ~Sealed(t)
    /\ JoinsBranches => \A b \in Branches : Scope[b] = t => ~Running(b)
    /\ IF Touches(t, Entities) = {}
       THEN phase' = [phase EXCEPT ![t] = "drain"] /\ UNCHANGED line
       ELSE /\ phase' = [phase EXCEPT ![t] = "clock"]
            /\ line' = [line EXCEPT ![t] = Append(@, Flusher)]
    /\ UNCHANGED <<store, flush, graphLock, mine, touched, fenced, branch>>

FlushAfter(t) ==
    LET edges == IF Touches(t, Edges) = {} THEN "drain" ELSE "closeEdges" IN
    CASE phase[t] = "clock"       -> "read"
      [] phase[t] = "read"        -> "advance"
      [] phase[t] = "advance"     -> IF Touches(t, Nodes) = {} THEN edges ELSE "closeNodes"
      [] phase[t] = "closeNodes"  -> "readNodes"
      [] phase[t] = "readNodes"   -> "insertNodes"
      [] phase[t] = "insertNodes" -> edges
      [] phase[t] = "closeEdges"  -> "readEdges"
      [] phase[t] = "readEdges"   -> "insertEdges"
      [] phase[t] = "insertEdges" -> "drain"

FlushOn(t, statement) ==
    /\ Turn(t, Flusher) /\ phase[t] = statement
    /\ phase' = [phase EXCEPT ![t] = FlushAfter(t)]
    /\ line' = [line EXCEPT ![t] =
                   IF FlushAfter(t) = "drain" THEN Tail(@) ELSE Append(Tail(@), Flusher)]
    /\ UNCHANGED <<store, graphLock, mine, fenced, branch>>

LockClock(t) ==
    /\ FlushOn(t, "clock")
    /\ clockLock = Free /\ clockLock' = t
    /\ UNCHANGED <<touched, revision, closing, opening>>

\* Mutant of Usable: the open revision itself can be allocated.
UsableToSentinel(r) == r <= MaxRevision
Usable(r) == r < MaxRevision

ReadClock(t) ==
    /\ FlushOn(t, "read") /\ Usable(clock + 1)
    /\ revision' = [revision EXCEPT ![t] = clock + 1]
    /\ UNCHANGED <<touched, clockLock, closing, opening>>

\* writeRecordedClock: the upsert takes effect with the commit.
AdvanceClock(t) ==
    /\ FlushOn(t, "advance")
    /\ UNCHANGED <<touched, flush>>

\* Mutant of OpenRows: every recorded row of a touched entity is closed again.
EveryRow(t, table) == {r \in recorded : r.id \in Touches(t, table)}

OpenRows(t, table) ==
    {r \in recorded : r.id \in Touches(t, table) /\ r.to = MaxRevision}

\* closeOpenReturning
CloseOpen(t, statement, table) ==
    /\ FlushOn(t, statement)
    /\ closing' = [closing EXCEPT ![t] = @ \cup OpenRows(t, table)]
    /\ UNCHANGED <<touched, clockLock, revision, opening>>

\* Mutant of AfterImage: the flush reads the committed row, not its own.
CommittedImage(t, e) == live[e]
AfterImage(t, e) == View(t)[e]

\* resolveAfterImages: the touches without an image are read again, now.
ReadImages(t, statement, table) ==
    /\ FlushOn(t, statement)
    /\ touched' = [touched EXCEPT ![t] = [e \in Entities |->
                      IF e \in table /\ @[e] = Reread THEN AfterImage(t, e) ELSE @[e]]]
    /\ UNCHANGED flush

\* insertRecordedNodeRows, insertRecordedEdgeRows: a removed row has no image.
InsertImages(t, statement, table) ==
    /\ FlushOn(t, statement)
    /\ opening' = [opening EXCEPT ![t] = @ \cup
           {[id |-> e, row |-> touched[t][e], from |-> revision[t], to |-> MaxRevision] :
                e \in {x \in Touches(t, table) : touched[t][x] # Absent}}]
    /\ UNCHANGED <<touched, clockLock, revision, closing>>

Flush(t) ==
    \/ LockClock(t) \/ ReadClock(t) \/ AdvanceClock(t)
    \/ CloseOpen(t, "closeNodes", Nodes)
    \/ ReadImages(t, "readNodes", Nodes)
    \/ InsertImages(t, "insertNodes", Nodes)
    \/ CloseOpen(t, "closeEdges", Edges)
    \/ ReadImages(t, "readEdges", Edges)
    \/ InsertImages(t, "insertEdges", Edges)

-----------------------------------------------------------------------------
\* Mutant of Released: pg_advisory_lock, which outlives the transaction.
SessionScoped(lock, t) == lock

\* Advisory locks of the _xact_ kind end with the transaction.
Released(lock, t) == IF lock = t THEN Free ELSE lock

\* Nothing of an ended transaction runs any more.
End(t) ==
    /\ phase' = [phase EXCEPT ![t] = "ended"]
    /\ graphLock' = Released(graphLock, t)
    /\ clockLock' = Released(clockLock, t)
    /\ mine' = [mine EXCEPT ![t] = [e \in Entities |-> Untouched]]
    /\ touched' = [touched EXCEPT ![t] = [e \in Entities |-> Untouched]]
    /\ closing' = [closing EXCEPT ![t] = {}]
    /\ opening' = [opening EXCEPT ![t] = {}]
    /\ line' = [line EXCEPT ![t] = <<>>]
    /\ at' = [b \in Branches |-> IF Scope[b] = t THEN "idle" ELSE at[b]]
    /\ found' = [b \in Branches |-> IF Scope[b] = t THEN {} ELSE found[b]]
    /\ UNCHANGED <<fenced, revision, job, calls>>

\* COMMIT, once drainAndClose has awaited the line.
Commit(t) ==
    /\ phase[t] = "drain" /\ line[t] = <<>>
    /\ live' = View(t)
    /\ recorded' = (recorded \ closing[t])
                   \cup {[r EXCEPT !.to = revision[t]] : r \in closing[t]}
                   \cup opening[t]
    /\ clock' = IF revision[t] > clock THEN revision[t] ELSE clock
    /\ End(t)

\* The statement at the head fails: a taken primary key, a spent clock.
Doomed(t) ==
    \/ Turn(t, Flusher) /\ phase[t] = "read" /\ ~Usable(clock + 1)
    \/ \E b \in Branches :
          /\ Turn(t, b) /\ at[b] = "write" /\ job[b].op = "create"
          /\ View(t)[job[b].on] # Absent

\* ROLLBACK, at any time: a failed statement, a callback that throws, a crash.
Rollback(t) ==
    /\ phase[t] # "ended"
    /\ UNCHANGED store
    /\ End(t)

Statement(b) ==
    LockGraph(b) \/ Probe(b) \/ List(b) \/ Cut(b) \/ Sweep(b) \/ WriteRow(b) \/ Remove(b)

Finished == (\A t \in Txns : phase[t] = "ended") /\ UNCHANGED vars

Next ==
    \/ \E b \in Branches : Call(b) \/ Statement(b)
    \/ \E t \in Txns : Settle(t) \/ Flush(t) \/ Commit(t) \/ Rollback(t)
    \/ Finished

Spec == Init /\ [][Next]_vars

\* The driver answers every statement, and a callback settles in the end.
FairSpec ==
    /\ Spec
    /\ \A b \in Branches : WF_vars(Statement(b))
    /\ \A t \in Txns : /\ WF_vars(Flush(t) \/ Commit(t) \/ (Doomed(t) /\ Rollback(t)))
                       /\ WF_vars(Settle(t))

-----------------------------------------------------------------------------
TypeOK ==
    /\ live \in Graphs
    /\ recorded \subseteq [id : Entities, row : Rows, from : 1..MaxRevision, to : 1..MaxRevision]
    /\ clock \in 0..(MaxRevision - 1)
    /\ graphLock \in Txns \cup {Free} /\ clockLock \in Txns \cup {Free}
    /\ mine \in [Txns -> [Entities -> Rows \cup {Absent, Untouched}]]
    /\ touched \in [Txns -> [Entities -> Rows \cup {Absent, Untouched, Reread}]]
    /\ phase \in [Txns -> FlushStatements \cup {"open", "drain", "ended"}]
    /\ fenced \in [Txns -> {"none", "pending", "held"}]
    /\ revision \in [Txns -> 0..(MaxRevision - 1)]
    /\ closing \in [Txns -> SUBSET recorded]
    /\ \A t \in Txns : \A r \in opening[t] : r.from = revision[t] /\ r.to = MaxRevision
    /\ \A t \in Txns : \A i \in DOMAIN line[t] : line[t][i] \in Branches \cup {Flusher}
    /\ at \in [Branches -> BranchStatements \cup {"idle"}]
    /\ found \in [Branches -> SUBSET Edges]
    /\ calls \in [Branches -> 0..MaxOps]

\* The rows a reader pinned to revision r (asOfRecorded) sees.
Versions(r, e) == {x \in recorded : x.id = e /\ x.from <= r /\ r < x.to}
AsOf(r) == [e \in Entities |-> IF Versions(r, e) = {} THEN Absent
                               ELSE (CHOOSE x \in Versions(r, e) : TRUE).row]

(* Whatever transactions interleave, an entity has at most one recorded row  *)
(* at each revision: recorded intervals never overlap nor stay open twice.   *)
OneVersion ==
    \A e \in Entities, r \in 1..MaxRevision : Cardinality(Versions(r, e)) <= 1

(* "every committed TypeGraph node/edge write is captured": the latest       *)
(* recorded version of the graph is the live graph, at every moment.         *)
HistoryIsLive == AsOf(clock) = live

(* No edge outlives its node: while an edge has a row, live or tombstoned,   *)
(* its node has one.  A hard delete takes every edge row along, tombstones   *)
(* included, which nothing could attach again; an edge is inserted only on a *)
(* node that was read; and what was read holds, under one graph lock.        *)
NoEdgeOutlivesItsNode ==
    \A e \in Edges : live[e] # Absent => live[Endpoint[e]] # Absent

(* "a live edge pointing at a soft-deleted node violates the endpoint-       *)
(* liveness invariant the collection API enforces" (import.ts:1568): where   *)
(* it holds, an edge whose row is live hangs on a live node.                 *)
NoDanglingEdge ==
    \A e \in Edges : live[e] \in Values => live[Endpoint[e]] \in Values

(* Reads pinned to a past revision are reproducible: no commit changes what  *)
(* any revision already handed out shows, and the clock never goes back.     *)
PastIsFixed ==
    [][/\ clock <= clock'
       /\ \A r \in 1..clock : AsOf(r)' = AsOf(r)]_vars

(* The recorded relations implement the ledger: each commit appends one      *)
(* version, the graph it leaves live.                                        *)
Ledger == INSTANCE RecordedLedger WITH
    versions <- [r \in 1..clock |-> AsOf(r)], current <- live
ImplementsLedger == Ledger!Spec

(* A transaction whose callback has settled ends, whoever holds the locks it *)
(* waits for.                                                                *)
SettledEnds == \A t \in Txns : Sealed(t) ~> phase[t] = "ended"
=============================================================================
