----------------------------- MODULE MergeCommit -----------------------------
(***************************************************************************)
(* Merging branches into a graph that other processes write to.            *)
(*                                                                         *)
(* branch() clones the graph; merge(), mergeIncremental() and planMerge()  *)
(* with applyMergePlan() read the target, resolve a plan outside any       *)
(* transaction, and commit it in one that first checks whether the plan    *)
(* still describes the target.  A store that tracks revisions advances a   *)
(* clock with every transaction that writes, under a lock of the graph.    *)
(* Merges of a store without history run SERIALIZABLE, on the snapshot of  *)
(* their first statement, and are retried when the engine refuses them;    *)
(* with history they run READ COMMITTED.  Every other writer runs READ     *)
(* COMMITTED.                                                              *)
(*                                                                         *)
(* A row carries who authored its content; the content itself, and how     *)
(* conflicting properties are resolved, are not modelled.                  *)
(***************************************************************************)
EXTENDS Naturals, FiniteSets

CONSTANTS
    Writers,      \* other transactions that write to the target
    Mergers,      \* processes that branch and merge
    Ids,          \* identities of rows, in the order of their enumeration
    Initially,    \* those that exist at first
    BranchIds,    \* those branches write under
    CreatedIds,   \* those other writers create rows under
    Twins,        \* those whose rows share a match key with a branch's addition
    Targets,      \* what the target may track: "none", "revision", "history"
    Original,     \* the author of the first rows
    None,         \* the author of a row that is not there
    Nobody,
    MaxAttempts,  \* attempts of a commit (MAX_COMMIT_ATTEMPTS)
    MaxWrites,    \* bound: transactions of the writers
    MaxFaults     \* bound: transactions the engine refuses, answers lost

ASSUME IdsAssumption ==
    /\ Ids \subseteq Nat
    /\ Initially \subseteq Ids /\ BranchIds \subseteq Ids
    /\ CreatedIds \subseteq Ids /\ Twins \subseteq Ids
ASSUME AuthorsAssumption ==
    /\ None \notin Mergers \cup Writers \cup {Original}
    /\ Nobody \notin Mergers \cup Writers
    /\ Mergers \cap Writers = {}
    /\ Original \notin Mergers
ASSUME TargetsAssumption == Targets \subseteq {"none", "revision", "history"}
ASSUME BoundsAssumption ==
    MaxAttempts \in Nat \ {0} /\ MaxWrites \in Nat /\ MaxFaults \in Nat

VARIABLES
    tracking,   \* what the target tracks
    rows,       \* the target's committed rows
    clock,      \* its revision; untracked, the engine's count of merges
    graphLock,  \* who holds the lock of the graph
    writer,     \* per writer: whether its transaction is open
    merger,     \* per merger: its branch, its plan and its commit
    merged,     \* per merger: how often its plan was committed
    writes,     \* transactions of writers so far (bounds the behaviour)
    faults      \* refusals and lost answers so far (bounds the behaviour)

vars == <<tracking, rows, clock, graphLock, writer, merger, merged, writes, faults>>

Values == Mergers \cup Writers \cup {Original, None}
Row == [version : Nat, value : Values, shared : BOOLEAN]
Absent == [version |-> 0, value |-> None, shared |-> FALSE]
Live(row) == row.value # None
Written(row, value, shared) ==
    [version |-> row.version + 1, value |-> value, shared |-> shared]

Contents(rs) == [i \in Ids |-> rs[i].value]
Matching(rs) == {i \in Ids : Live(rs[i]) /\ rs[i].shared}

Kinds == {"snapshot", "plan", "incremental"}
Token == [revision : Nat, contents : [Ids -> Values]]
Merger ==
    [at : {"idle", "stamped", "branched", "fenced", "staging", "planned", "locking",
           "guarding", "applying", "done"},
     kind : Kinds, token : Token, base : [Ids -> Row], edits : SUBSET BranchIds,
     fence : Nat, staged : SUBSET Ids, seen : [Ids -> Row], matched : SUBSET Ids,
     snapRows : [Ids -> Row], snapClock : Nat, attempt : 0..MaxAttempts]

Nothing == [i \in Ids |-> Absent]
NoToken == [revision |-> 0, contents |-> Contents(Nothing)]
NoMerge ==
    [at |-> "idle", kind |-> "snapshot", token |-> NoToken, base |-> Nothing, edits |-> {},
     fence |-> 0, staged |-> {}, seen |-> Nothing, matched |-> {},
     snapRows |-> Nothing, snapClock |-> 0, attempt |-> 0]

Init ==
    /\ tracking \in Targets
    /\ rows = [i \in Ids |-> IF i \in Initially
                             THEN Written(Absent, Original, i \in Twins) ELSE Absent]
    /\ clock = 0
    /\ graphLock = Nobody
    /\ writer = [w \in Writers |-> "idle"]
    /\ merger = [m \in Mergers |-> NoMerge]
    /\ merged = [m \in Mergers |-> 0]
    /\ writes = 0
    /\ faults = 0

Tracked == tracking # "none"

Released(p) == IF graphLock = p THEN Nobody ELSE graphLock

-----------------------------------------------------------------------------
(* Ordinary transactions of the store. *)

BeginWrite(w) ==
    /\ writer[w] = "idle"
    /\ writes < MaxWrites
    /\ Tracked => graphLock = Nobody
    /\ graphLock' = IF Tracked THEN w ELSE graphLock
    /\ writer' = [writer EXCEPT ![w] = "writing"]
    /\ writes' = writes + 1
    /\ UNCHANGED <<tracking, rows, clock, merger, merged, faults>>

\* Mutant of Advanced: the revision stays when a writer commits.
AdvancedNever == clock

Advanced == IF Tracked THEN clock + 1 ELSE clock

Update(w, i) ==
    /\ Live(rows[i])
    /\ rows' = [rows EXCEPT ![i] = Written(@, w, @.shared)]

Create(w, i) ==
    /\ i \in CreatedIds
    /\ rows[i] = Absent
    /\ rows' = [rows EXCEPT ![i] = Written(@, w, i \in Twins)]

CommitWrite(w) ==
    /\ writer[w] = "writing"
    /\ \E i \in Ids : Update(w, i) \/ Create(w, i)
    /\ clock' = Advanced
    /\ graphLock' = Released(w)
    /\ writer' = [writer EXCEPT ![w] = "idle"]
    /\ UNCHANGED <<tracking, merger, merged, writes, faults>>

-----------------------------------------------------------------------------
(* Branching. *)

Go(m, state) == merger' = [merger EXCEPT ![m] = state]
Unmoved == UNCHANGED <<tracking, rows, clock, graphLock, writer, merged, writes, faults>>

\* What computeBaseVersion says of the target now.
LiveToken ==
    IF Tracked THEN [NoToken EXCEPT !.revision = clock]
               ELSE [NoToken EXCEPT !.contents = Contents(rows)]

\* branch() reads the version it forks from, then clones.
Stamp(m) ==
    /\ merger[m].at = "idle"
    /\ \E kind \in Kinds :
          /\ kind = "plan" => Tracked
          /\ Go(m, [NoMerge EXCEPT !.at = "stamped", !.kind = kind, !.token = LiveToken])
    /\ Unmoved

Clone(m) ==
    /\ merger[m].at = "stamped"
    /\ \E edits \in SUBSET BranchIds :
          Go(m, [merger[m] EXCEPT !.at = "branched", !.base = rows, !.edits = edits])
    /\ Unmoved

BranchValue(m, i) == IF i \in merger[m].edits THEN m ELSE merger[m].base[i].value

-----------------------------------------------------------------------------
(* Planning, outside any transaction. *)

End(m) ==
    [NoMerge EXCEPT !.at = "done", !.kind = merger[m].kind, !.base = merger[m].base,
                    !.edits = merger[m].edits]

CaptureFence(m) ==
    /\ merger[m].at = "branched"
    /\ merger[m].kind = "plan"
    /\ Go(m, [merger[m] EXCEPT !.at = "fenced", !.fence = clock])
    /\ Unmoved

\* Mutant of BaseHolds: a merge starts whatever version its branch forked from.
BaseHoldsAlways(m) == TRUE

\* An incremental merge compares its fork point, a store nobody writes to.
BaseHolds(m) == merger[m].kind = "incremental" \/ merger[m].token = LiveToken

ValidateBaseVersions(m) ==
    /\ merger[m].at = IF merger[m].kind = "plan" THEN "fenced" ELSE "branched"
    /\ Go(m, IF BaseHolds(m)
             THEN [merger[m] EXCEPT !.at = "staging", !.staged = {}, !.seen = Nothing]
             ELSE End(m))
    /\ Unmoved

\* The target is enumerated page by page, each page a statement of its own.
Stage(m, i) ==
    /\ merger[m].at = "staging"
    /\ i \in Ids \ merger[m].staged
    /\ \A j \in Ids \ merger[m].staged : i <= j
    /\ Go(m, [merger[m] EXCEPT !.staged = @ \cup {i}, !.seen[i] = rows[i]])
    /\ Unmoved

\* An incremental merge looks its additions up in the target; a reviewable
\* plan is discarded when the target moved while it was made.
Resolve(m) ==
    /\ merger[m].at = "staging"
    /\ merger[m].staged = Ids
    /\ Go(m, IF merger[m].kind = "plan" /\ merger[m].fence # clock
             THEN End(m)
             ELSE [merger[m] EXCEPT !.at = "planned", !.attempt = 0, !.matched =
                        IF merger[m].kind = "incremental" THEN Matching(rows) ELSE {}])
    /\ Unmoved

Additions(m) == {i \in merger[m].edits : ~Live(merger[m].base[i])}

\* The rows an incremental plan writes: the branch's edits, and for an addition
\* the target holds a match of, that match instead.
IncrementalWrites(m) ==
    LET new == {i \in Additions(m) : ~Live(merger[m].seen[i])}
        twins == merger[m].matched \ merger[m].edits
    IN IF new = {} \/ twins = {}
       THEN merger[m].edits
       ELSE (merger[m].edits \ new) \cup {CHOOSE i \in twins : TRUE}

PlanWrites(m) ==
    IF merger[m].kind = "incremental"
    THEN IncrementalWrites(m)
    ELSE {i \in Ids : BranchValue(m, i) # merger[m].seen[i].value}

\* A row that changed on both sides keeps the target's content.
PlannedValue(m, i) ==
    IF merger[m].kind # "incremental"
       THEN BranchValue(m, i)
    ELSE IF \/ i \notin merger[m].edits
            \/ merger[m].seen[i].value = merger[m].base[i].value
       THEN m
    ELSE merger[m].seen[i].value

-----------------------------------------------------------------------------
(* The commit. *)

Serializable == tracking # "history"

\* What the statements of the commit read.
View(m) == IF Serializable THEN merger[m].snapRows ELSE rows
ViewClock(m) == IF Serializable THEN merger[m].snapClock ELSE clock

\* The first statement takes the snapshot, before it waits for the lock.
Begin(m) ==
    /\ merger[m].at = "planned"
    /\ Go(m, [merger[m] EXCEPT !.at = "locking", !.attempt = @ + 1,
                               !.snapRows = rows, !.snapClock = clock])
    /\ Unmoved

AcquireLock(m) ==
    /\ merger[m].at = "locking"
    /\ Tracked => graphLock = Nobody
    /\ graphLock' = IF Tracked THEN m ELSE graphLock
    /\ Go(m, [merger[m] EXCEPT !.at = "guarding"])
    /\ UNCHANGED <<tracking, rows, clock, writer, merged, writes, faults>>

\* Snapshot merges and reviewed plans: the version they were resolved at.
TargetUnchanged(m) ==
    IF Tracked
    THEN ViewClock(m) = (IF merger[m].kind = "plan" THEN merger[m].fence
                                                    ELSE merger[m].token.revision)
    ELSE Contents(View(m)) = merger[m].token.contents

\* Mutant of BaseResolutionStable: no second look for matches.
BaseResolutionUnchecked(m) == TRUE

BaseResolutionStable(m) ==
    Additions(m) # {} => Matching(View(m)) \subseteq merger[m].matched

\* Only the rows that were there when the target was enumerated are compared.
InheritedTargetUnchanged(m) ==
    \A i \in PlanWrites(m) : merger[m].seen[i].version # 0 =>
        View(m)[i].version = merger[m].seen[i].version

\* Mutant of Guarded: only the first attempt checks.
GuardedOnce(m) ==
    merger[m].attempt = 1 =>
        IF merger[m].kind = "incremental"
        THEN BaseResolutionStable(m) /\ InheritedTargetUnchanged(m)
        ELSE TargetUnchanged(m)

Guarded(m) ==
    IF merger[m].kind = "incremental"
    THEN BaseResolutionStable(m) /\ InheritedTargetUnchanged(m)
    ELSE TargetUnchanged(m)

Guard(m) ==
    /\ merger[m].at = "guarding"
    /\ IF Guarded(m)
       THEN /\ Go(m, [merger[m] EXCEPT !.at = "applying"])
            /\ UNCHANGED graphLock
       ELSE /\ Go(m, End(m))
            /\ graphLock' = Released(m)
    /\ UNCHANGED <<tracking, rows, clock, writer, merged, writes, faults>>

\* Mutant of Attempts: one more.
AttemptsAndOne == MaxAttempts + 1

Attempts == MaxAttempts

\* 40001 and 40P01 are tried again, each time from a new snapshot.
Retry(m) ==
    /\ Go(m, IF merger[m].attempt < Attempts
             THEN [merger[m] EXCEPT !.at = "planned", !.snapRows = Nothing, !.snapClock = 0]
             ELSE End(m))
    /\ graphLock' = Released(m)

\* Mutant of Advances: a reviewed plan that writes nothing leaves the revision.
AdvancesIfWritten(m) == PlanWrites(m) # {}

\* A transaction advances the clock when it wrote; applying a reviewed plan
\* always does, so that it cannot be applied twice.
Advances(m) == PlanWrites(m) # {} \/ merger[m].kind = "plan"

\* Mutant of Conflicts: an update of the clock row is not refused.
ConflictsOnRows(m) ==
    Serializable /\ \E i \in PlanWrites(m) : rows[i] # merger[m].snapRows[i]

\* A serializable transaction may not update a row, the clock's included, that
\* changed since its snapshot.
Conflicts(m) ==
    /\ Serializable
    /\ \/ Advances(m) /\ clock # merger[m].snapClock
       \/ \E i \in PlanWrites(m) : rows[i] # merger[m].snapRows[i]

Merge(m) ==
    [i \in Ids |->
        IF i \in PlanWrites(m)
        THEN Written(rows[i], PlannedValue(m, i), rows[i].shared \/ i \in Additions(m))
        ELSE rows[i]]

\* The caller that gets no answer starts over, a reviewed plan with its apply.
Again(m) ==
    IF merger[m].kind = "plan"
    THEN [merger[m] EXCEPT !.at = "planned", !.attempt = 0]
    ELSE [merger[m] EXCEPT !.at = "branched", !.attempt = 0]

Commit(m) ==
    /\ merger[m].at = "applying"
    /\ ~Conflicts(m)
    /\ rows' = Merge(m)
    /\ clock' = IF Advances(m) THEN clock + 1 ELSE clock
    /\ graphLock' = Released(m)
    /\ merged' = [merged EXCEPT ![m] = @ + 1]
    /\ \/ Go(m, End(m)) /\ UNCHANGED faults
       \/ faults < MaxFaults /\ faults' = faults + 1 /\ Go(m, Again(m))
    /\ UNCHANGED <<tracking, writer, writes>>

Conflict(m) ==
    /\ merger[m].at = "applying"
    /\ Conflicts(m)
    /\ Retry(m)
    /\ UNCHANGED <<tracking, rows, clock, writer, merged, writes, faults>>

\* A row the snapshot does not have is inserted, and is there by now: the engine
\* may call it a duplicate key, which is not tried again.
Duplicate(m) ==
    /\ merger[m].at = "applying"
    /\ Serializable
    /\ \E i \in PlanWrites(m) : merger[m].snapRows[i].version = 0 /\ rows[i].version # 0
    /\ Go(m, End(m))
    /\ graphLock' = Released(m)
    /\ UNCHANGED <<tracking, rows, clock, writer, merged, writes, faults>>

\* A deadlock's victim, or a serialization failure without a conflict.
EngineAbort(m) ==
    /\ merger[m].at \in {"locking", "guarding", "applying"}
    /\ faults < MaxFaults
    /\ faults' = faults + 1
    /\ Retry(m)
    /\ UNCHANGED <<tracking, rows, clock, writer, merged, writes>>

-----------------------------------------------------------------------------
Planning(m) ==
    \/ CaptureFence(m) \/ ValidateBaseVersions(m) \/ Resolve(m)
    \/ \E i \in Ids : Stage(m, i)

Committing(m) ==
    Begin(m) \/ AcquireLock(m) \/ Guard(m) \/ Commit(m) \/ Conflict(m) \/ Duplicate(m)

MergeStep(m) == Clone(m) \/ Planning(m) \/ Committing(m)

Next ==
    \/ \E w \in Writers : BeginWrite(w) \/ CommitWrite(w)
    \/ \E m \in Mergers : Stamp(m) \/ MergeStep(m) \/ EngineAbort(m)

Spec == Init /\ [][Next]_vars

-----------------------------------------------------------------------------
(* Properties. *)

TypeOK ==
    /\ tracking \in Targets
    /\ rows \in [Ids -> Row]
    /\ clock \in Nat
    /\ graphLock \in Writers \cup Mergers \cup {Nobody}
    /\ writer \in [Writers -> {"idle", "writing"}]
    /\ merger \in [Mergers -> Merger]
    /\ merged \in [Mergers -> 0..(MaxFaults + 1)]
    /\ writes \in 0..MaxWrites
    /\ faults \in 0..MaxFaults

\* Merging into a tracked store is atomic, whatever is committed while the
\* merge is resolved, waits for the lock or is retried (assertTargetUnchanged,
\* assertInheritedTargetUnchanged, assertMergePlanFenceInsideTransaction).
WorkOf(m) ==
    IF merger[m].at \in {"idle", "stamped"}
    THEN [kind |-> "none", base |-> Contents(Nothing), edits |-> {}]
    ELSE [kind |-> merger[m].kind, base |-> Contents(merger[m].base),
          edits |-> merger[m].edits]

Promise == INSTANCE MergeTarget WITH
    contents <- Contents(rows), work <- [m \in Mergers |-> WorkOf(m)]
ImplementsTarget == Promise!Spec

IncrementalCommit(m) == merger[m].kind = "incremental" /\ merged'[m] > merged[m]

\* An incremental merge adds no row beside one that matches it, however late
\* that one came (assertBaseResolutionStable).
AdditionsResolve ==
    [][\A m \in Mergers : IncrementalCommit(m) =>
          \A i \in Ids : ~Live(rows[i]) /\ Live(rows'[i]) =>
              Matching(rows) \subseteq merger[m].edits]_vars

\* An incremental merge overwrites no row the plan did not see as it is
\* (assertInheritedTargetUnchanged).  The code does not keep this for a row
\* committed under the id of an addition after its page was read.
OverwritesWhatItSaw ==
    [][\A m \in Mergers : IncrementalCommit(m) =>
          \A i \in Ids : Live(rows[i]) /\ rows'[i] # rows[i] =>
              rows[i] = merger[m].seen[i] \/ i \in merger[m].matched]_vars
=============================================================================
