----------------------------- MODULE SchemaFence -----------------------------
(***************************************************************************)
(* The fence between managed writes and schema writes on PostgreSQL.       *)
(*                                                                         *)
(* A Store is pinned to the schema version it was opened at.  Each of its  *)
(* writes locks the active schema row FOR SHARE and checks the version; a  *)
(* schema write takes the graph's advisory lock, locks the active row FOR  *)
(* UPDATE, and moves the active mark by updating every row of the graph.   *)
(*                                                                         *)
(* Statements run at READ COMMITTED: a locking read that waited rechecks   *)
(* only the row version its snapshot saw, so it comes back empty when the  *)
(* mark moved meanwhile, and keeps the lock of the row it waited for.      *)
(***************************************************************************)
EXTENDS Integers, Sequences

CONSTANTS
    Kinds,        \* kinds a schema document may declare
    Writers,      \* transactions of managed Stores
    Careless,     \* the writers that go on in a transaction after a refusal
    Committers,   \* processes that commit, roll back or guard schema versions
    Free,         \* the advisory lock has no holder
    None,         \* no savepoint, no task
    MaxVersion,   \* bound: versions ever committed
    MaxStarts,    \* bound: transactions and schema writes started
    MaxWrites     \* bound: writes issued in one transaction

ASSUME CarelessAssumption == Careless \subseteq Writers
ASSUME BoundsAssumption == MaxVersion \in Nat \ {0} /\ MaxStarts \in Nat /\ MaxWrites \in Nat
ASSUME MarkersAssumption ==
    /\ Free \notin Committers
    /\ None \notin [kind : {"commit", "guarded", "activate"}, base : Nat \ {0},
                    version : Nat \ {0}, document : SUBSET Kinds]

VARIABLES
    history,      \* committed documents, by version
    active,       \* the active version
    rows,         \* committed rows
    pinned,       \* per writer: the version its Store expects
    phase,        \* per writer: where its transaction stands
    awaited,      \* per writer: the row its fence statement locks
    shares,       \* per writer: schema rows it holds FOR SHARE
    staged,       \* per writer: rows written and not committed
    savepoint,    \* per writer: locks and rows at its savepoint
    writes,       \* per writer: writes issued in its transaction
    schemaLock,   \* holder of the graph's advisory lock
    step,         \* per committer: where its schema write stands
    task,         \* per committer: the schema write
    started       \* transactions and schema writes started (bounds the behaviour)

schemaVars == <<history, active>>
writerVars == <<pinned, phase, awaited, shares, staged, savepoint, writes>>
committerVars == <<schemaLock, step, task>>
vars == <<schemaVars, rows, writerVars, committerVars, started>>

Document == SUBSET Kinds
Versions == 1..Len(history)
RowOf(k, v) == [kind |-> k, version |-> v]

Task ==
    [kind : {"commit", "guarded", "activate"}, base : Nat \ {0},
     version : Nat \ {0}, document : Document]

Savepoint ==
    [shares : SUBSET (Nat \ {0}), staged : SUBSET [kind : Kinds, version : Nat]]

Phases == {"idle", "open", "waiting", "fenced", "refused"}
Steps == {"idle", "queued", "draining", "deciding", "flipping", "flipped"}

Init ==
    /\ \E document \in Document : history = <<document>>
    /\ active = 1
    /\ rows = {}
    /\ pinned = [w \in Writers |-> 1]
    /\ phase = [w \in Writers |-> "idle"]
    /\ awaited = [w \in Writers |-> 1]
    /\ shares = [w \in Writers |-> {}]
    /\ staged = [w \in Writers |-> {}]
    /\ savepoint = [w \in Writers |-> None]
    /\ writes = [w \in Writers |-> 0]
    /\ schemaLock = Free
    /\ step = [c \in Committers |-> "idle"]
    /\ task = [c \in Committers |-> None]
    /\ started = 0

-----------------------------------------------------------------------------
(* Row locks. *)

\* Mutant of LocksActiveRow: the schema write relies on its advisory lock alone.
LocksNoRow(c) == FALSE

\* The active row is locked FOR UPDATE before the schema write decides anything.
LocksActiveRow(c) == step[c] \in {"deciding", "flipping"}

ExclusiveRows(c) ==
    IF step[c] = "flipped" THEN Versions
    ELSE IF LocksActiveRow(c) THEN {active} ELSE {}

LockedExclusively(v) == \E c \in Committers : v \in ExclusiveRows(c)

\* What a schema write waits for: share locks on the rows it is about to lock.
\* Deactivating updates every row of the graph, the inactive ones included.
Drains(c) ==
    IF step[c] = "draining" THEN {active}
    ELSE IF step[c] = "flipping" THEN Versions ELSE {}

\* Mutant of BlockedBy: FOR UPDATE that does not wait for share locks.
BlockedByNobody(c) == {}

BlockedBy(c) == {w \in Writers : shares[w] \cap Drains(c) # {}}

-----------------------------------------------------------------------------
(* A managed write transaction. *)

EndTransaction(w) ==
    /\ phase' = [phase EXCEPT ![w] = "idle"]
    /\ shares' = [shares EXCEPT ![w] = {}]
    /\ staged' = [staged EXCEPT ![w] = {}]
    /\ savepoint' = [savepoint EXCEPT ![w] = None]
    /\ writes' = [writes EXCEPT ![w] = 0]
    /\ UNCHANGED <<pinned, awaited>>

\* A Store opened at any version so far opens a transaction.
Begin(w) ==
    /\ phase[w] = "idle"
    /\ started < MaxStarts
    /\ \E v \in Versions : pinned' = [pinned EXCEPT ![w] = v]
    /\ phase' = [phase EXCEPT ![w] = "open"]
    /\ started' = started + 1
    /\ UNCHANGED <<schemaVars, rows, awaited, shares, staged, savepoint, writes, committerVars>>

\* The fence statement of one write: its snapshot holds the active row.
LockSchemaVersionForWrite(w) ==
    /\ phase[w] = "open"
    /\ writes[w] < MaxWrites
    /\ phase' = [phase EXCEPT ![w] = "waiting"]
    /\ awaited' = [awaited EXCEPT ![w] = active]
    /\ writes' = [writes EXCEPT ![w] = @ + 1]
    /\ UNCHANGED <<schemaVars, rows, pinned, shares, staged, savepoint, committerVars, started>>

\* Mutant of Admitted: a row that came back is enough, its version is not compared.
AdmittedUnchecked(w) == active = awaited[w]

\* Still active once locked, and the version the Store expects.
Admitted(w) == active = awaited[w] /\ active = pinned[w]

\* Mutant of AfterRefusal: the fence statement is issued again.
RetriesLockedRead == "open"

\* An empty or a foreign row fails the write: the read is never retried.
AfterRefusal == "refused"

FenceAnswers(w) ==
    /\ phase[w] = "waiting"
    /\ ~LockedExclusively(awaited[w])
    /\ shares' = [shares EXCEPT ![w] = @ \cup {awaited[w]}]
    /\ phase' = [phase EXCEPT ![w] = IF Admitted(w) THEN "fenced" ELSE AfterRefusal]
    /\ UNCHANGED <<schemaVars, rows, pinned, awaited, staged, savepoint, writes, committerVars, started>>

\* Mutant of AfterWrite: the fence is remembered for the next write.
FenceRemembered == "fenced"

\* Every write takes the fence anew: a savepoint may have released the lock.
AfterWrite == "open"

WriteRow(w) ==
    /\ phase[w] = "fenced"
    /\ \E k \in history[pinned[w]] :
          staged' = [staged EXCEPT ![w] = @ \cup {RowOf(k, pinned[w])}]
    /\ phase' = [phase EXCEPT ![w] = AfterWrite]
    /\ UNCHANGED <<schemaVars, rows, pinned, awaited, shares, savepoint, writes, committerVars, started>>

\* The refused write threw: the callback swallowed it, or a sibling write runs on.
GoOn(w) ==
    /\ w \in Careless
    /\ phase[w] = "refused"
    /\ phase' = [phase EXCEPT ![w] = "open"]
    /\ UNCHANGED <<schemaVars, rows, pinned, awaited, shares, staged, savepoint, writes, committerVars, started>>

MarkSavepoint(w) ==
    /\ phase[w] = "open"
    /\ savepoint[w] = None
    /\ savepoint' = [savepoint EXCEPT ![w] = [shares |-> shares[w], staged |-> staged[w]]]
    /\ UNCHANGED <<schemaVars, rows, pinned, phase, awaited, shares, staged, writes, committerVars, started>>

\* Row locks taken after the savepoint are released with the rows written after it.
RollbackToSavepoint(w) ==
    /\ phase[w] \in {"open", "fenced", "refused"}
    /\ savepoint[w] # None
    /\ shares' = [shares EXCEPT ![w] = savepoint[w].shares]
    /\ staged' = [staged EXCEPT ![w] = savepoint[w].staged]
    /\ savepoint' = [savepoint EXCEPT ![w] = None]
    /\ phase' = [phase EXCEPT ![w] = IF @ = "fenced" THEN AfterWrite ELSE @]
    /\ UNCHANGED <<schemaVars, rows, pinned, awaited, writes, committerVars, started>>

Commit(w) ==
    /\ phase[w] = "open"
    /\ rows' = rows \cup staged[w]
    /\ EndTransaction(w)
    /\ UNCHANGED <<schemaVars, committerVars, started>>

Rollback(w) ==
    /\ phase[w] \notin {"idle", "waiting"}
    /\ EndTransaction(w)
    /\ UNCHANGED <<schemaVars, rows, committerVars, started>>

-----------------------------------------------------------------------------
(* A schema write. *)

\* Mutant of LockAfter: the advisory lock outlives its transaction.
LockOutlives(c) == schemaLock

LockAfter(c) == IF schemaLock = c THEN Free ELSE schemaLock

EndSchemaWrite(c) ==
    /\ step' = [step EXCEPT ![c] = "idle"]
    /\ task' = [task EXCEPT ![c] = None]
    /\ schemaLock' = LockAfter(c)

\* commitSchemaVersion of the version after the one read, with or without the
\* emptiness probes, and setActiveVersion of an existing version.
Propose(t) ==
    /\ t.base = active
    /\ t.kind \in {"commit", "guarded"} =>
          /\ t.version = active + 1
          /\ t.version <= MaxVersion
          /\ t.document # history[active]
    /\ t.kind = "activate" =>
          /\ t.version \in Versions \ {active}
          /\ t.document = history[t.version]

StartSchemaWrite(c) ==
    /\ step[c] = "idle"
    /\ started < MaxStarts
    /\ \E kind \in {"commit", "guarded", "activate"}, v \in 1..MaxVersion, d \in Document :
          LET t == [kind |-> kind, base |-> active, version |-> v, document |-> d] IN
          /\ Propose(t)
          /\ task' = [task EXCEPT ![c] = t]
    /\ step' = [step EXCEPT ![c] = "queued"]
    /\ started' = started + 1
    /\ UNCHANGED <<schemaVars, rows, writerVars, schemaLock>>

TakeSchemaLock(c) ==
    /\ step[c] = "queued"
    /\ schemaLock = Free
    /\ schemaLock' = c
    /\ step' = [step EXCEPT ![c] = "draining"]
    /\ UNCHANGED <<schemaVars, rows, writerVars, task, started>>

LockActiveRow(c) ==
    /\ step[c] = "draining"
    /\ BlockedBy(c) = {}
    /\ step' = [step EXCEPT ![c] = "deciding"]
    /\ UNCHANGED <<schemaVars, rows, writerVars, schemaLock, task, started>>

-----------------------------------------------------------------------------
Exists(t) == t.version \in Versions

\* A different document under the same version.
Conflicts(t) == t.kind # "activate" /\ Exists(t) /\ history[t.version] # t.document

\* The same document, already active: success without a compare-and-swap.
AlreadyActive(t) == t.kind # "activate" /\ Exists(t) /\ t.version = active

\* Mutant of ExpectedActive: the version the caller read is not compared.
ExpectedUnchecked(t) == TRUE

ExpectedActive(t) == t.base = active

Dropped(t) == history[active] \ t.document

\* Mutant of Populated: the emptiness probes count nothing.
NeverPopulated(t) == FALSE

Populated(t) == t.kind = "guarded" /\ \E r \in rows : r.kind \in Dropped(t)

Proceeds(t) ==
    /\ ~Conflicts(t) /\ ~AlreadyActive(t)
    /\ ExpectedActive(t)
    /\ ~Populated(t)

Decide(c) ==
    /\ step[c] = "deciding"
    /\ IF Proceeds(task[c])
       THEN /\ step' = [step EXCEPT ![c] = "flipping"]
            /\ UNCHANGED <<schemaLock, task>>
       ELSE EndSchemaWrite(c)
    /\ UNCHANGED <<schemaVars, rows, writerVars, started>>

DeactivateAll(c) ==
    /\ step[c] = "flipping"
    /\ BlockedBy(c) = {}
    /\ step' = [step EXCEPT ![c] = "flipped"]
    /\ UNCHANGED <<schemaVars, rows, writerVars, schemaLock, task, started>>

\* Mutant of HistoryAfter: the version's row is not inserted.
HistoryKept(t) == history

HistoryAfter(t) == IF Exists(t) THEN history ELSE Append(history, t.document)

CommitSchemaWrite(c) ==
    /\ step[c] = "flipped"
    /\ active' = task[c].version
    /\ history' = HistoryAfter(task[c])
    /\ EndSchemaWrite(c)
    /\ UNCHANGED <<rows, writerVars, started>>

\* A failed statement, a lost connection, a statement timeout.
AbortSchemaWrite(c) ==
    /\ step[c] # "idle"
    /\ EndSchemaWrite(c)
    /\ UNCHANGED <<schemaVars, rows, writerVars, started>>

-----------------------------------------------------------------------------
\* A cycle: the fence statement waits for a row the schema write holds, and the
\* schema write for a row the transaction holds.
InCycle(w, c) ==
    /\ phase[w] = "waiting"
    /\ awaited[w] \in ExclusiveRows(c)
    /\ w \in BlockedBy(c)

\* The engine's deadlock detector fails one of the two.
BreakCycle(w, c) ==
    /\ InCycle(w, c)
    /\ \/ /\ EndTransaction(w)
          /\ UNCHANGED committerVars
       \/ /\ EndSchemaWrite(c)
          /\ UNCHANGED writerVars
    /\ UNCHANGED <<schemaVars, rows, started>>

WriterNext(w) ==
    \/ Begin(w) \/ LockSchemaVersionForWrite(w) \/ FenceAnswers(w) \/ WriteRow(w)
    \/ GoOn(w) \/ MarkSavepoint(w) \/ RollbackToSavepoint(w) \/ Commit(w) \/ Rollback(w)

CommitterNext(c) ==
    \/ StartSchemaWrite(c) \/ TakeSchemaLock(c) \/ LockActiveRow(c) \/ Decide(c)
    \/ DeactivateAll(c) \/ CommitSchemaWrite(c) \/ AbortSchemaWrite(c)

Next ==
    \/ \E w \in Writers : WriterNext(w)
    \/ \E c \in Committers : CommitterNext(c)
    \/ \E w \in Writers, c \in Committers : BreakCycle(w, c)

Spec == Init /\ [][Next]_vars

\* Statements are answered, callers end the transactions they open, and the
\* engine looks for cycles; nothing says that anybody starts, or that a blocked
\* schema write is served before writers that come later.
Fairness ==
    /\ \A w \in Writers : WF_vars(FenceAnswers(w)) /\ WF_vars(Commit(w) \/ Rollback(w))
    /\ \A c \in Committers :
          WF_vars(TakeSchemaLock(c) \/ LockActiveRow(c) \/ Decide(c)
                    \/ DeactivateAll(c) \/ CommitSchemaWrite(c))
    /\ \A w \in Writers, c \in Committers : WF_vars(BreakCycle(w, c))

FairSpec == Spec /\ Fairness

-----------------------------------------------------------------------------
(* Properties. *)

TypeOK ==
    /\ history \in Seq(Document) /\ active \in Versions
    /\ rows \subseteq [kind : Kinds, version : Nat]
    /\ pinned \in [Writers -> Nat \ {0}] /\ awaited \in [Writers -> Nat \ {0}]
    /\ phase \in [Writers -> Phases]
    /\ shares \in [Writers -> SUBSET (Nat \ {0})]
    /\ staged \in [Writers -> SUBSET [kind : Kinds, version : Nat]]
    /\ savepoint \in [Writers -> Savepoint \cup {None}]
    /\ writes \in [Writers -> 0..MaxWrites]
    /\ schemaLock \in Committers \cup {Free}
    /\ step \in [Committers -> Steps]
    /\ task \in [Committers -> Task \cup {None}]
    /\ started \in 0..MaxStarts

\* A transaction with rows to commit still holds the row of the version that
\* validated them, and that version is the active one: whatever schema write is
\* in progress, it has not moved the mark (lockSchemaVersionForWrite).
StagedUnderActive ==
    \A w \in Writers : staged[w] # {} =>
        /\ active = pinned[w]
        /\ active \in shares[w]

\* Rows enter a graph only under the version that validated them, and only of
\* kinds it declares: a Store left behind by a schema change writes nothing.
FencedWrites ==
    [][\A r \in rows' \ rows : r.version = active /\ r.kind \in history[active]]_vars

\* A guarded migration that commits strands no row: when the mark moves to a
\* document without a kind, no row of that kind is committed or about to be
\* (commitSchemaVersionIfKindsEmpty).
GuardedDropStrandsNothing ==
    [][\A c \in Committers :
          (/\ step[c] = "flipped" /\ task[c].kind = "guarded"
           /\ active' # active /\ schemaLock = c) =>
              /\ \A r \in rows : r.kind \notin history[active] \ history'[active']
              /\ \A w \in Writers : staged[w] = {}]_vars

\* The active mark moves only from the version the schema write was computed
\* from, however long it queued for the lock: no schema change is lost under
\* another (verifyExpectedActiveVersion).
MovesFromItsBase ==
    [][\A c \in Committers :
          (step[c] = "flipped" /\ active' # active) => task[c].base = active]_vars

\* A transaction that ends at its first refusal never forms a cycle with a
\* schema write, although the refused read kept a row lock.
PrudentNeverInCycle ==
    \A w \in Writers \ Careless, c \in Committers : ~InCycle(w, c)

\* A schema write that asked for the lock ends, although writers hold share
\* locks and a careless one forms a cycle with it.
SchemaWritesEnd == \A c \in Committers : step[c] = "queued" ~> step[c] = "idle"

\* The fence implements the promise of schema versioning.
Promise == INSTANCE SchemaHistory
ImplementsHistory == Promise!Spec
=============================================================================
