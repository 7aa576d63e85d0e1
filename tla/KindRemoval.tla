----------------------------- MODULE KindRemoval -----------------------------
(***************************************************************************)
(* Removing kinds from a graph and reclaiming their rows.                  *)
(*                                                                         *)
(* A schema commit drops a kind at once; its rows are deleted later, by    *)
(* passes of materializeRemovals.  What is left to delete is kept in a     *)
(* queue, by kind and by the version that dropped it, and a pass first     *)
(* restores to the queue what the schema history says is missing from it,  *)
(* from the last version a marker calls reconciled.                        *)
(*                                                                         *)
(* Transactions that hold the graph's schema lock are single steps here:   *)
(* SchemaFence shows that neither writers nor other schema writes come     *)
(* between their statements.                                               *)
(***************************************************************************)
EXTENDS Integers, Sequences, FiniteSets

CONSTANTS
    Kinds,        \* kinds a schema document may declare
    CodeKinds,    \* those declared by the program, the others by extensions
    Admins,       \* processes that change the schema
    Cleaners,     \* processes that call materializeRemovals
    MaxVersion,   \* bound: versions ever committed
    MaxRows,      \* bound: committed rows, a property being about one of them
    MaxChanges,   \* bound: schema changes started
    MaxFaults     \* bound: crashes and failed cleanups

ASSUME KindsAssumption == Kinds # {} /\ CodeKinds \subseteq Kinds
ASSUME BoundsAssumption ==
    MaxVersion \in Nat \ {0} /\ MaxRows \in Nat /\ MaxChanges \in Nat /\ MaxFaults \in Nat

VARIABLES
    history,      \* committed documents, by version
    active,       \* the active version
    rows,         \* committed rows
    queue,        \* typegraph_kind_removals, by kind and version
    marker,       \* history up to this version is in the queue
    admin,        \* per admin: the schema change in progress
    cleaner,      \* per cleaner: the pass in progress
    rolledBack,   \* whether the active mark ever went back
    changes,      \* schema changes started (bounds the behaviour)
    faults        \* crashes and failures so far (bounds the behaviour)

schemaVars == <<history, active>>
vars == <<schemaVars, rows, queue, marker, admin, cleaner, rolledBack, changes, faults>>

Document == SUBSET Kinds
Versions == 1..Len(history)
Removal == Kinds \X (1..MaxVersion)
RowOf(k, v) == [kind |-> k, version |-> v]

\* A kind the version drops: its predecessor declares it.
DroppedBy(v) == IF v = 1 THEN {} ELSE history[v - 1] \ history[v]

Operations == {"evolve", "remove", "deploy", "migrate", "discard", "rollback"}
Change ==
    [at : {"idle", "checking", "committing", "recording"},
     op : Operations, kind : Kinds, base : Nat]
Pass ==
    [at : {"idle", "reconciling", "restoring", "scanning", "selecting", "cleaning",
           "finishing"},
     base : Nat, missing : SUBSET Removal, candidates : SUBSET Removal]
NoAdmin == [at |-> "idle", op |-> "evolve", kind |-> CHOOSE k \in Kinds : TRUE, base |-> 1]
NoPass == [at |-> "idle", base |-> 1, missing |-> {}, candidates |-> {}]

Init ==
    /\ \E document \in Document : history = <<document>>
    /\ active = 1
    /\ rows = {}
    /\ queue = [r \in Removal |-> "absent"]
    /\ marker = 1
    /\ admin = [a \in Admins |-> NoAdmin]
    /\ cleaner = [c \in Cleaners |-> NoPass]
    /\ rolledBack = FALSE
    /\ changes = 0
    /\ faults = 0

\* A managed write: the fence admits it under the active version only.
WriteRow ==
    /\ Cardinality(rows) < MaxRows
    /\ \E k \in history[active] : rows' = rows \cup {RowOf(k, active)}
    /\ UNCHANGED <<schemaVars, queue, marker, admin, cleaner, rolledBack, changes, faults>>

-----------------------------------------------------------------------------
(* Schema changes. *)

\* Evolve and deploy add a kind, the others drop one; a rollback goes to a version.
Applies(op, k) ==
    /\ op \in {"evolve", "deploy"} => k \notin history[active]
    /\ op \in {"remove", "migrate", "discard"} => k \in history[active]
    /\ op \in {"deploy", "migrate", "discard"} => k \in CodeKinds
    /\ op \in {"evolve", "remove"} => k \notin CodeKinds
    /\ op = "rollback" => k = NoAdmin.kind

EndChange(a) == admin' = [admin EXCEPT ![a] = NoAdmin]

\* The change is computed from the active document as it is read here.
Load(a) ==
    /\ admin[a].at = "idle"
    /\ changes < MaxChanges
    /\ \E op \in Operations, k \in Kinds :
          /\ Applies(op, k)
          /\ admin' = [admin EXCEPT ![a] =
                [at |-> IF op = "evolve" THEN "checking" ELSE "committing",
                 op |-> op, kind |-> k, base |-> active]]
    /\ changes' = changes + 1
    /\ UNCHANGED <<schemaVars, rows, queue, marker, cleaner, rolledBack, faults>>

PendingOf(k) == {v \in 1..MaxVersion : queue[<<k, v>>] = "pending"}

\* An extension does not re-add a kind whose cleanup is queued.
AssertNoPendingRemoval(a) ==
    /\ admin[a].at = "checking"
    /\ IF PendingOf(admin[a].kind) = {}
       THEN admin' = [admin EXCEPT ![a].at = "committing"]
       ELSE EndChange(a)
    /\ UNCHANGED <<schemaVars, rows, queue, marker, cleaner, rolledBack, changes, faults>>

Target(a) ==
    IF admin[a].op \in {"evolve", "deploy"}
    THEN history[admin[a].base] \cup {admin[a].kind}
    ELSE history[admin[a].base] \ {admin[a].kind}

\* The version after the one read: a new one, or a left-over of a rollback,
\* which is taken up again when it holds the same document.
Commits(a) ==
    LET next == admin[a].base + 1 IN
    /\ admin[a].base = active
    /\ next <= MaxVersion
    /\ next \in Versions => history[next] = Target(a)
    /\ admin[a].op = "migrate" => \A r \in rows : r.kind # admin[a].kind

\* Mutant of HistoryAfter: the version's row is not inserted.
HistoryKept(a) == history

HistoryAfter(a) ==
    IF admin[a].base + 1 \in Versions THEN history ELSE Append(history, Target(a))

CommitSchemaVersion(a) ==
    /\ admin[a].at = "committing"
    /\ admin[a].op # "rollback"
    /\ IF Commits(a)
       THEN /\ history' = HistoryAfter(a)
            /\ active' = admin[a].base + 1
            /\ IF admin[a].op = "remove"
               THEN admin' = [admin EXCEPT ![a].at = "recording"]
               ELSE EndChange(a)
       ELSE /\ EndChange(a)
            /\ UNCHANGED schemaVars
    /\ UNCHANGED <<rows, queue, marker, cleaner, rolledBack, changes, faults>>

SetActiveVersion(a) ==
    /\ admin[a].at = "committing"
    /\ admin[a].op = "rollback"
    /\ \/ /\ admin[a].base = active
          /\ active' \in Versions
       \/ /\ admin[a].base # active
          /\ UNCHANGED active
    /\ rolledBack' = IF active' < active THEN TRUE ELSE rolledBack
    /\ EndChange(a)
    /\ UNCHANGED <<history, rows, queue, marker, cleaner, changes, faults>>

\* The queue's upsert keeps the time of a cleanup that succeeded.
Pend(removal) == [queue EXCEPT ![removal] = IF @ = "done" THEN "done" ELSE "pending"]

\* removeKinds queues the cleanup once its version is committed.
RecordKindRemoval(a) ==
    /\ admin[a].at = "recording"
    /\ queue' = Pend(<<admin[a].kind, admin[a].base + 1>>)
    /\ EndChange(a)
    /\ UNCHANGED <<schemaVars, rows, marker, cleaner, rolledBack, changes, faults>>

CrashAdmin(a) ==
    /\ admin[a].at # "idle"
    /\ faults < MaxFaults
    /\ EndChange(a)
    /\ faults' = faults + 1
    /\ UNCHANGED <<schemaVars, rows, queue, marker, cleaner, rolledBack, changes>>

-----------------------------------------------------------------------------
(* A pass of materializeRemovals. *)

Go(c, pass) == cleaner' = [cleaner EXCEPT ![c] = pass]

\* Reconciliation reads the active version; version 1 has dropped nothing.
StartPass(c) ==
    /\ cleaner[c].at = "idle"
    /\ Go(c, [NoPass EXCEPT !.at = IF active = 1 THEN "scanning" ELSE "reconciling",
                            !.base = active])
    /\ UNCHANGED <<schemaVars, rows, queue, marker, admin, rolledBack, changes, faults>>

\* Mutant of Unrecorded: only the last transition is compared.
UnrecordedByLast(base, from) ==
    {r \in Removal : r[2] = base /\ base > from /\ r[1] \in DroppedBy(base) /\ queue[r] = "absent"}

\* Drops after the marker that the queue does not hold in any state.
Unrecorded(base, from) ==
    {r \in Removal : r[2] \in (from + 1)..base /\ r[1] \in DroppedBy(r[2]) /\ queue[r] = "absent"}

ReadMarker(c) ==
    /\ cleaner[c].at = "reconciling"
    /\ IF marker >= cleaner[c].base
       THEN Go(c, [cleaner[c] EXCEPT !.at = "scanning"])
       ELSE Go(c, [cleaner[c] EXCEPT !.at = "restoring",
                                     !.missing = Unrecorded(cleaner[c].base, marker)])
    /\ UNCHANGED <<schemaVars, rows, queue, marker, admin, rolledBack, changes, faults>>

Restore(c) ==
    /\ cleaner[c].at = "restoring"
    /\ \E removal \in cleaner[c].missing :
          /\ queue' = Pend(removal)
          /\ Go(c, [cleaner[c] EXCEPT !.missing = @ \ {removal}])
    /\ UNCHANGED <<schemaVars, rows, marker, admin, rolledBack, changes, faults>>

\* Mutant of ReconciledTo: the marker is set to the version active by now.
ActiveByNow(c) == active

ReconciledTo(c) == cleaner[c].base

SetMarker(c) ==
    /\ cleaner[c].at = "restoring"
    /\ cleaner[c].missing = {}
    /\ marker' = ReconciledTo(c)
    /\ Go(c, [cleaner[c] EXCEPT !.at = "scanning"])
    /\ UNCHANGED <<schemaVars, rows, queue, admin, rolledBack, changes, faults>>

\* The active document is read again, and the pending removals after it.
ReadActive(c) ==
    /\ cleaner[c].at = "scanning"
    /\ Go(c, [cleaner[c] EXCEPT !.at = "selecting", !.base = active])
    /\ UNCHANGED <<schemaVars, rows, queue, marker, admin, rolledBack, changes, faults>>

ReadPending(c) ==
    /\ cleaner[c].at = "selecting"
    /\ Go(c, [cleaner[c] EXCEPT
                !.at = "cleaning",
                !.candidates = {r \in Removal : /\ queue[r] = "pending"
                                                /\ r[1] \notin history[cleaner[c].base]}])
    /\ UNCHANGED <<schemaVars, rows, queue, marker, admin, rolledBack, changes, faults>>

\* Mutant of Live: the document read before the lock was taken.
LiveWhenScanned(c, k) == k \in history[cleaner[c].base]

\* Under the schema lock the kind is looked up in the active document again.
Live(c, k) == k \in history[active]

\* One candidate: the rows go in one transaction, the queue learns of it after.
MaterializeOne(c, removal) ==
    /\ cleaner[c].at = "cleaning"
    /\ removal \in cleaner[c].candidates
    /\ IF Live(c, removal[1])
       THEN /\ Go(c, [cleaner[c] EXCEPT !.candidates = @ \ {removal}])
            /\ UNCHANGED rows
       ELSE /\ Go(c, [cleaner[c] EXCEPT !.at = "finishing", !.missing = {removal},
                                        !.candidates = @ \ {removal}])
            /\ rows' = {r \in rows : r.kind # removal[1]}
    /\ UNCHANGED <<schemaVars, queue, marker, admin, rolledBack, changes, faults>>

RecordRemoved(c) ==
    /\ cleaner[c].at = "finishing"
    /\ queue' = [r \in Removal |-> IF r \in cleaner[c].missing THEN "done" ELSE queue[r]]
    /\ Go(c, [cleaner[c] EXCEPT !.at = "cleaning", !.missing = {}])
    /\ UNCHANGED <<schemaVars, rows, marker, admin, rolledBack, changes, faults>>

\* The transaction failed, or recording its success did: the removal stays
\* pending, and the pass goes on with the next one.
FailOne(c) ==
    /\ faults < MaxFaults
    /\ faults' = faults + 1
    /\ \/ /\ cleaner[c].at = "cleaning"
          /\ \E removal \in cleaner[c].candidates :
                /\ queue' = Pend(removal)
                /\ Go(c, [cleaner[c] EXCEPT !.candidates = @ \ {removal}])
       \/ /\ cleaner[c].at = "finishing"
          /\ \E removal \in cleaner[c].missing : queue' = Pend(removal)
          /\ Go(c, [cleaner[c] EXCEPT !.at = "cleaning", !.missing = {}])
    /\ UNCHANGED <<schemaVars, rows, marker, admin, rolledBack, changes>>

EndPass(c) ==
    /\ cleaner[c].at = "cleaning"
    /\ cleaner[c].candidates = {}
    /\ Go(c, NoPass)
    /\ UNCHANGED <<schemaVars, rows, queue, marker, admin, rolledBack, changes, faults>>

CrashCleaner(c) ==
    /\ cleaner[c].at # "idle"
    /\ faults < MaxFaults
    /\ Go(c, NoPass)
    /\ faults' = faults + 1
    /\ UNCHANGED <<schemaVars, rows, queue, marker, admin, rolledBack, changes>>

-----------------------------------------------------------------------------
ChangeStep(a) ==
    \/ AssertNoPendingRemoval(a) \/ CommitSchemaVersion(a)
    \/ SetActiveVersion(a) \/ RecordKindRemoval(a)

PassStep(c) ==
    \/ StartPass(c) \/ ReadMarker(c) \/ Restore(c) \/ SetMarker(c) \/ ReadActive(c)
    \/ ReadPending(c) \/ (\E removal \in Removal : MaterializeOne(c, removal))
    \/ RecordRemoved(c) \/ EndPass(c)

Next ==
    \/ WriteRow
    \/ \E a \in Admins : Load(a) \/ ChangeStep(a) \/ CrashAdmin(a)
    \/ \E c \in Cleaners : PassStep(c) \/ FailOne(c) \/ CrashCleaner(c)

Spec == Init /\ [][Next]_vars

\* Callers keep calling materializeRemovals, and what is started goes on.
FairSpec ==
    /\ Spec
    /\ \A a \in Admins : WF_vars(ChangeStep(a))
    /\ \A c \in Cleaners : WF_vars(PassStep(c))

-----------------------------------------------------------------------------
(* Properties. *)

TypeOK ==
    /\ history \in Seq(Document) /\ active \in Versions /\ Len(history) <= MaxVersion
    /\ rows \subseteq [kind : Kinds, version : Versions]
    /\ queue \in [Removal -> {"absent", "pending", "done"}]
    /\ marker \in Versions
    /\ admin \in [Admins -> Change] /\ \A a \in Admins : admin[a].base \in Versions
    /\ cleaner \in [Cleaners -> Pass] /\ \A c \in Cleaners : cleaner[c].base \in Versions
    /\ rolledBack \in BOOLEAN /\ changes \in 0..MaxChanges /\ faults \in 0..MaxFaults

\* The rows of a kind the active version does not declare are on their way
\* out: a drop since they were written is queued, or the next reconciliation
\* will find it, whatever path dropped the kind.  The code does not keep this
\* once a version is rolled back and dropped into again: the queue's row and the
\* marker then speak of the first drop.  NothingForgotten is what it keeps.
EveryDropIsFound ==
    \A r \in rows : (r.kind \notin history[active] /\ r.version < active) =>
        \E d \in (r.version + 1)..active :
            /\ r.kind \in DroppedBy(d)
            /\ \/ queue[<<r.kind, d>>] = "pending"
               \/ queue[<<r.kind, d>>] = "absent" /\ marker < d

\* So it is whoever crashed, as long as nobody rolled the schema back
\* (reconcilePendingRemovals).
NothingForgotten == rolledBack \/ EveryDropIsFound

\* While materializeRemovals keeps being called, the rows of a dropped kind
\* are reclaimed, unless the kind is declared again or the schema rolled back.
DroppedKindsReclaimed ==
    \A k \in Kinds :
        (\E r \in rows : r.kind = k /\ k \notin history[active])
            ~> (rolledBack \/ (\A r \in rows : r.kind # k) \/ k \in history[active])

\* Removal implements the promise of schema versioning: a cleanup never
\* deletes rows of a kind that is live when it deletes them.
Promise == INSTANCE SchemaHistory
ImplementsHistory == Promise!Spec
=============================================================================
