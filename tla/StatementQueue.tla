--------------------------- MODULE StatementQueue ---------------------------
(***************************************************************************)
(* The statement queue of one PostgreSQL transaction backend.              *)
(*                                                                         *)
(* Every statement of a transaction rides one pinned connection, while the *)
(* callback of the transaction runs branches concurrently (Promise.all, or *)
(* the write pipeline itself).  createSerialExecutionAdapter hands the     *)
(* connection one unit at a time, in submission order, and is shut at the  *)
(* transaction's boundary.  A unit is one statement, or a vector search    *)
(* that snapshots, overrides and restores a setting around its SELECT.     *)
(***************************************************************************)
EXTENDS Naturals, Sequences, FiniteSets

CONSTANTS
    Branches,   \* concurrent branches of the callback; each awaits its units
    Settings,   \* values of the search setting (hnsw.ef_search and the like)
    Default,    \* its value when the transaction begins
    Plain,      \* a unit that overrides nothing
    NotSaved,   \* no search of the branch has saved the setting
    Units,      \* the units the branches submit
    MaxUnits    \* bound: units one branch submits

ASSUME UnitsAssumption == Units \subseteq Settings \cup {Plain}
ASSUME DefaultAssumption ==
    Default \in Settings /\ Plain \notin Settings /\ NotSaved \notin Settings
ASSUME BoundAssumption == MaxUnits \in Nat

VARIABLES
    queue,      \* branches whose unit is chained and unsettled, oldest first
    unit,       \* per branch: the unit it submitted last
    statement,  \* per branch: its unit's next or current statement, or "none"
    submitted,  \* per branch: units submitted so far (bounds the behaviour)
    wire,       \* branches with a statement in flight on the connection
    closed,     \* drainAndClose has shut the queue
    frame,      \* the transaction: "running", "draining", "ending", "ended"
    setting,    \* the connection's transaction-local search setting
    snapshot,   \* per branch: the value its search saved
    aborted     \* a statement failed: the engine refuses all further ones

vars == <<queue, unit, statement, submitted, wire, closed, frame, setting,
          snapshot, aborted>>

Statements == {"snapshot", "override", "run", "restore"}

-----------------------------------------------------------------------------
\* Mutant of First: the search overrides a setting it has not saved.
SkipsSnapshot(u) == IF u = Plain THEN "run" ELSE "override"

\* runVectorSearchGucGroup issues four statements under one queue slot:
\* snapshot, override, the SELECT itself, restore.
First(u) == IF u = Plain THEN "run" ELSE "snapshot"

\* Mutant of After: the search does not put the setting back.
SkipsRestore(u, s) ==
    CASE s = "snapshot" -> "override" [] s = "override" -> "run" [] OTHER -> "none"

After(u, s) ==
    CASE s = "snapshot"               -> "override"
      [] s = "override"               -> "run"
      [] s = "run" /\ u # Plain       -> "restore"
      [] OTHER                        -> "none"

\* The setting a unit's own statement is meant to run under.
Wanted(u) == IF u = Plain THEN Default ELSE u

Queued == {queue[i] : i \in DOMAIN queue}

\* The driver's COMMIT or ROLLBACK is a statement on the same connection.
ControlStatements == IF frame = "ending" THEN 1 ELSE 0

-----------------------------------------------------------------------------
Init ==
    /\ queue = <<>>
    /\ unit = [b \in Branches |-> Plain]
    /\ statement = [b \in Branches |-> "none"]
    /\ submitted = [b \in Branches |-> 0]
    /\ wire = {}
    /\ closed = FALSE
    /\ frame = "running"
    /\ setting = Default
    /\ snapshot = [b \in Branches |-> NotSaved]
    /\ aborted = FALSE

(* enqueue.  A closed queue rejects with TransactionClosedError; the branch, *)
(* which may be an orphan of the settled callback, may then try again.       *)
Submit(b) ==
    /\ b \notin Queued
    /\ submitted[b] < MaxUnits
    /\ submitted' = [submitted EXCEPT ![b] = @ + 1]
    /\ IF closed
       THEN UNCHANGED <<queue, unit, statement>>
       ELSE \E u \in Units :
               /\ queue' = Append(queue, b)
               /\ unit' = [unit EXCEPT ![b] = u]
               /\ statement' = [statement EXCEPT ![b] = First(u)]
    /\ UNCHANGED <<wire, closed, frame, setting, snapshot, aborted>>

\* Mutant of HoldsSlot: every submitted unit goes straight to the connection.
Unqueued(b) == b \in Queued

\* tail.then(() => task()): a unit starts when its predecessor has settled.
HoldsSlot(b) == queue # <<>> /\ Head(queue) = b

Send(b) ==
    /\ HoldsSlot(b) /\ b \notin wire
    /\ wire' = wire \cup {b}
    /\ UNCHANGED <<queue, unit, statement, submitted, closed, frame, setting,
                   snapshot, aborted>>

\* Mutant of Successors: the chain waits on a failed statement for ever.
StrandedByFailure == IF aborted' THEN queue ELSE Tail(queue)

\* A settled unit leaves the chain, whatever its outcome (ignoreOutcome).
Successors == Tail(queue)

Succeed(b) ==
    /\ b \in wire /\ ~aborted
    /\ UNCHANGED aborted
    /\ wire' = wire \ {b}
    /\ statement' = [statement EXCEPT ![b] = After(unit[b], @)]
    /\ queue' = IF statement'[b] = "none" THEN Successors ELSE queue
    /\ snapshot' = IF statement[b] = "snapshot"
                   THEN [snapshot EXCEPT ![b] = setting] ELSE snapshot
    /\ setting' = CASE statement[b] = "override" -> unit[b]
                    [] statement[b] = "restore"  -> snapshot[b]
                    [] OTHER                     -> setting
    /\ UNCHANGED <<unit, submitted, closed, frame>>

\* A failed statement ends its unit, with nothing restored, and aborts the
\* transaction; so does every statement sent to an aborted transaction.
Fail(b) ==
    /\ b \in wire
    /\ wire' = wire \ {b}
    /\ statement' = [statement EXCEPT ![b] = "none"]
    /\ aborted' = TRUE
    /\ queue' = Successors
    /\ UNCHANGED <<unit, submitted, closed, frame, setting, snapshot>>

-----------------------------------------------------------------------------
\* Mutant of Close: the boundary only waits for the tail, and shuts nothing.
StayOpen == UNCHANGED closed

\* drainAndClose sets closed before it awaits the tail.
Close == closed' = TRUE

\* The callback settles, however many of its branches are still running.
Settle ==
    /\ frame = "running"
    /\ frame' = "draining"
    /\ Close
    /\ UNCHANGED <<queue, unit, statement, submitted, wire, setting, snapshot, aborted>>

\* Mutant of Drained: COMMIT or ROLLBACK does not wait for the tail.
NeverWaits == TRUE

Drained == queue = <<>>

\* The drain returns; the driver sends COMMIT or ROLLBACK.
SendControl ==
    /\ frame = "draining" /\ Drained
    /\ frame' = "ending"
    /\ UNCHANGED <<queue, unit, statement, submitted, wire, closed, setting, snapshot,
                   aborted>>

\* The connection goes back to the pool, its transaction-local setting gone.
Release ==
    /\ frame = "ending"
    /\ frame' = "ended"
    /\ setting' = Default
    /\ aborted' = FALSE
    /\ UNCHANGED <<queue, unit, statement, submitted, wire, closed, snapshot>>

Next ==
    \/ \E b \in Branches : Submit(b) \/ Send(b) \/ Succeed(b) \/ Fail(b)
    \/ Settle \/ SendControl \/ Release

\* The event loop starts a unit whose predecessor settled, the driver answers
\* each statement, and the awaited drain continues.  Nothing makes a callback
\* submit or settle.
Fairness ==
    /\ \A b \in Branches : WF_vars(Send(b)) /\ WF_vars(Succeed(b) \/ Fail(b))
    /\ WF_vars(SendControl) /\ WF_vars(Release)

Spec == Init /\ [][Next]_vars /\ Fairness

-----------------------------------------------------------------------------
(* Properties *)

\* Every variable has its type.
TypeOK ==
    /\ queue \in Seq(Branches)
    /\ unit \in [Branches -> Units \cup {Plain}]
    /\ statement \in [Branches -> Statements \cup {"none"}]
    /\ submitted \in [Branches -> 0..MaxUnits]
    /\ wire \subseteq Branches
    /\ closed \in BOOLEAN
    /\ frame \in {"running", "draining", "ending", "ended"}
    /\ setting \in Settings
    /\ snapshot \in [Branches -> Settings \cup {NotSaved}]
    /\ aborted \in BOOLEAN

\* One statement at most is in flight on the connection, the driver's own
\* COMMIT or ROLLBACK included, and none once the connection went back to the
\* pool: what pg@9 requires and what drainAndClose is called for.
OneInFlight ==
    /\ Cardinality(wire) + ControlStatements <= 1
    /\ frame = "ended" => wire = {}

\* A unit's own statement runs under the setting that unit asked for, although
\* every branch shares the transaction's one setting: searches do not see each
\* other's overrides, and a plain statement sees none (runVectorSearch).
RunsUnderOwnSetting ==
    \A b \in wire : statement[b] = "run" /\ ~aborted => setting = Wanted(unit[b])

\* Every accepted unit settles: a failed statement does not strand the ones
\* behind it.
UnitsSettle == \A b \in Branches : b \in Queued ~> b \notin Queued

\* A settled callback's transaction ends, whatever its branches still try.
TransactionEnds == frame = "draining" ~> frame = "ended"
=============================================================================
