--------------------------- MODULE EdgeCardinality ---------------------------
(***************************************************************************)
(* Concurrent writers of one edge kind that declares a cardinality, at the *)
(* granularity of the SQL statements they issue.                           *)
(*                                                                         *)
(* Two mechanisms keep an axis (the endpoints a cardinality is keyed by)   *)
(* to one counted edge: the per-graph write lock around probe and write,   *)
(* and the claim row of typegraph_edge_claims.  Store writes that can      *)
(* admit an edge take both; an interchange import takes only the claim.    *)
(*                                                                         *)
(* The engine is PostgreSQL READ COMMITTED: a statement reads the          *)
(* committed rows overlaid with its own transaction's writes, and waits    *)
(* for a row another open transaction has written.  SingleWriter makes it  *)
(* SQLite, whose BEGIN IMMEDIATE admits one write transaction.             *)
(***************************************************************************)
EXTENDS Integers

CONSTANTS
    Writers,          \* connections that run write operations
    Edges,            \* edge ids (caller-suppliable, hence reusable)
    Keys,             \* axis keys: (from) or (from, to), by keyShape
    Ends,             \* stated window ends (valid_to)
    Open,             \* valid_to IS NULL
    Keep,             \* an update that states no window end
    NoRow,            \* no row under this id
    NoClaim,          \* no claim row under this key
    Untouched,        \* this transaction has not written the row
    Free,             \* the graph write lock has no holder
    NoOp,             \* a writer between operations
    Declared,         \* the kind's cardinality: "one", "unique" or "oneActive"
    Ops,              \* the operations the workload runs
    CaptureEnabled,   \* history or revision tracking is on
    SingleWriter,     \* the engine admits one write transaction (SQLite)
    UserTransactions, \* operations may share one store.transaction
    MaxOps            \* bound: operations started in a behaviour

AllOps == {"create", "import", "resurrect", "update", "softDelete", "hardDelete"}

ASSUME OpsAssumption == Ops \subseteq AllOps
ASSUME DeclaredAssumption == Declared \in {"one", "unique", "oneActive"}
ASSUME FlagsAssumption ==
    {CaptureEnabled, SingleWriter, UserTransactions} \subseteq BOOLEAN
ASSUME BoundAssumption == MaxOps \in Nat

(* The markers are values of no other kind. *)
Row == [deleted : BOOLEAN, key : Keys, validTo : Ends \cup {Open}]
ASSUME MarkersAssumption ==
    /\ {Open, Keep} \cap Ends = {} /\ Open # Keep
    /\ NoRow \notin Row /\ Untouched \notin Row /\ Untouched # NoRow
    /\ NoClaim \notin Edges /\ Untouched \notin Edges /\ Untouched # NoClaim
    /\ Free \notin Writers
    /\ NoOp \notin [kind : AllOps, edge : Edges, key : Keys, end : Ends \cup {Open, Keep}]

VARIABLES
    edges,        \* committed rows of the edges relation, by id
    claims,       \* committed holder of each claim row, by key
    edgeWrites,   \* per writer: its uncommitted edge rows
    claimWrites,  \* per writer: its uncommitted claim rows
    graphLock,    \* holder of the per-graph write lock
    inTxn,        \* per writer: a write transaction is open
    phase,        \* per writer: the next statement of its operation
    op,           \* per writer: the operation in progress
    existing,     \* per writer: the row performEdgeUpdate read
    tries,        \* per writer: attempts of performEdgeUpdateConverging
    started       \* operations started so far (bounds the behaviour)

vars == <<edges, claims, edgeWrites, claimWrites, graphLock, inTxn, phase,
          op, existing, tries, started>>

-----------------------------------------------------------------------------
(* What a cardinality means (EDGE_CARDINALITY_SPECS). *)

\* Mutant of ClaimsWhenBornEnded: an edge born ended owes no claim on any axis.
OwesNothingBornEnded == FALSE

ClaimsWhenBornEnded == Declared # "oneActive"

HolderLiveness == IF Declared = "oneActive" THEN "liveAndActive" ELSE "live"

\* A row the cardinality counts.
Counted(row) ==
    /\ row # NoRow
    /\ ~row.deleted
    /\ HolderLiveness = "liveAndActive" => row.validTo = Open

CountedOn(row, k) == Counted(row) /\ row.key = k

\* Does a row with this window end join the counted population at all?
JoinsPopulation(end) == ClaimsWhenBornEnded \/ end = Open

-----------------------------------------------------------------------------
(* What a statement of writer w sees, and what it waits for. *)

EdgeView(w) ==
    [e \in Edges |-> IF edgeWrites[w][e] = Untouched THEN edges[e]
                                                     ELSE edgeWrites[w][e]]

ClaimView(w) ==
    [k \in Keys |-> IF claimWrites[w][k] = Untouched THEN claims[k]
                                                     ELSE claimWrites[w][k]]

\* Open transactions whose uncommitted write of edge e a statement waits on:
\* an INSERT waits on any of them, an UPDATE or DELETE only when it sees a row.
EdgeWriters(w, e) == {v \in Writers \ {w} : edgeWrites[v][e] # Untouched}

ClaimWriters(w, k) == {v \in Writers \ {w} : claimWrites[v][k] # Untouched}

-----------------------------------------------------------------------------
(* Operations. *)

Creates == {"create", "import"}
Deletes == {"softDelete", "hardDelete"}
Updates == {"resurrect", "update"}

\* end is the stated valid_to; Open clears it (or is born open), Keep states none.
Operation ==
    {o \in [kind : Ops, edge : Edges, key : Keys, end : Ends \cup {Open, Keep}] :
        /\ o.kind \in Creates => o.end # Keep
        /\ o.kind \in Deletes => o.end = Keep}

EffectiveEnd(end, row) == IF end = Keep THEN row.validTo ELSE end

\* What the operation reads before its transaction opens: an upsert dispatches
\* to the resurrect leg on a tombstone, the others stop on a row they cannot act on.
PassesGate(o, row) ==
    \/ o.kind \in Creates
    \/ /\ row # NoRow
       /\ o.key = row.key
       /\ o.kind = "resurrect" => row.deleted
       /\ o.kind \in {"update", "softDelete"} => ~row.deleted

\* The plan's constraint reason: creates and re-entries probe, nothing else does.
FencesConstraintProbe(o) ==
    \/ o.kind \in {"create", "resurrect"}
    \/ (o.kind = "update" /\ o.end = Open /\ Declared = "oneActive")

\* Mutant of NeedsGraphWriteLock: only capture fences, a constraint probe does not.
LocksForCaptureOnly(o) == CaptureEnabled

NeedsGraphWriteLock(o) == CaptureEnabled \/ FencesConstraintProbe(o)

\* performEdgeUpdate: does this update put the row back into the counted population?
ReentersLivePopulation(o, row) == o.kind = "resurrect" /\ row.deleted

\* Mutant of ReentersActivePopulation: reopening a live edge is not a re-entry.
ReentersActiveFromTombstone(o, row) ==
    /\ Declared = "oneActive"
    /\ EffectiveEnd(o.end, row) = Open
    /\ row.deleted

ReentersActivePopulation(o, row) ==
    /\ Declared = "oneActive"
    /\ EffectiveEnd(o.end, row) = Open
    /\ row.deleted \/ row.validTo # Open

Reenters(o, row) ==
    ReentersLivePopulation(o, row) \/ ReentersActivePopulation(o, row)

\* The stored end is asserted by the UPDATE only by a reopen that judged it.
AssertsStoredEnd(o, row) ==
    ReentersActivePopulation(o, row) /\ row.validTo # Open

\* Axis key and window end the probe and the claim of w's operation speak of.
TargetKey(w) == IF op[w].kind \in Creates THEN op[w].key ELSE existing[w].key

TargetEnd(w) ==
    IF op[w].kind \in Creates THEN op[w].end
                              ELSE EffectiveEnd(op[w].end, existing[w])

-----------------------------------------------------------------------------
(* The state a fresh connection finds: any consistent database.  A claim
   row may be missing or name a tombstone; a counted edge holds its claim. *)

ConsistentDatabase ==
    /\ \A d, e \in Edges :
          Counted(edges[d]) /\ Counted(edges[e]) /\ edges[d].key = edges[e].key => d = e
    /\ \A e \in Edges : Counted(edges[e]) => claims[edges[e].key] = e
    /\ \A k \in Keys : claims[k] # NoClaim =>
          edges[claims[k]] # NoRow /\ edges[claims[k]].key = k

Init ==
    /\ edges \in [Edges -> Row \cup {NoRow}]
    /\ claims \in [Keys -> Edges \cup {NoClaim}]
    /\ ConsistentDatabase
    /\ edgeWrites = [w \in Writers |-> [e \in Edges |-> Untouched]]
    /\ claimWrites = [w \in Writers |-> [k \in Keys |-> Untouched]]
    /\ graphLock = Free
    /\ inTxn = [w \in Writers |-> FALSE]
    /\ phase = [w \in Writers |-> "idle"]
    /\ op = [w \in Writers |-> NoOp]
    /\ existing = [w \in Writers |-> NoRow]
    /\ tries = [w \in Writers |-> 0]
    /\ started = 0

Goto(w, p) == phase' = [phase EXCEPT ![w] = p]

WriteEdge(w, e, row) == edgeWrites' = [edgeWrites EXCEPT ![w][e] = row]

WriteClaim(w, k, holder) == claimWrites' = [claimWrites EXCEPT ![w][k] = holder]

database == <<edges, claims>>
frame == <<graphLock, inTxn, op, started>>

-----------------------------------------------------------------------------
(* The frame of an operation: gate, transaction and lock, commit, rollback. *)

\* The read outside (or, in a user transaction, before) the operation's own frame.
Gate(w) ==
    /\ started < MaxOps
    /\ \/ phase[w] = "idle"
       \/ UserTransactions /\ inTxn[w] /\ phase[w] \in {"finished", "refused"}
    /\ \E o \in Operation :
          /\ PassesGate(o, EdgeView(w)[o.edge])
          /\ op' = [op EXCEPT ![w] = o]
    /\ Goto(w, "gated")
    /\ started' = started + 1
    /\ UNCHANGED <<database, edgeWrites, claimWrites, graphLock, inTxn, existing, tries>>

\* Mutant of FirstPhase: a hard delete purges its claims, and its row survives.
PurgesFirst(o) == CASE o.kind \in Creates -> "probing"
                    [] o.kind \in Updates -> "reading"
                    [] o.kind = "hardDelete" -> "purging"
                    [] OTHER -> "writing"

FirstPhase(o) == CASE o.kind \in Creates -> "probing"
                   [] o.kind \in Updates -> "reading"
                   [] OTHER -> "writing"

\* Open the transaction if none is open, take the graph write lock if the
\* operation needs one and this transaction does not hold it already.
Begin(w) ==
    /\ phase[w] = "gated"
    /\ SingleWriter => \A v \in Writers \ {w} : ~inTxn[v]
    /\ \/ /\ NeedsGraphWriteLock(op[w])
          /\ graphLock \in {Free, w}
          /\ graphLock' = w
       \/ /\ ~NeedsGraphWriteLock(op[w])
          /\ UNCHANGED graphLock
    /\ inTxn' = [inTxn EXCEPT ![w] = TRUE]
    /\ Goto(w, FirstPhase(op[w]))
    /\ tries' = [tries EXCEPT ![w] = 1]
    /\ UNCHANGED <<database, edgeWrites, claimWrites, op, existing, started>>

\* Mutant of ReleaseGraphLock: the lock outlives its transaction.
KeepGraphLock(w) == UNCHANGED graphLock

ReleaseGraphLock(w) == graphLock' = IF graphLock = w THEN Free ELSE graphLock

EndTransaction(w) ==
    /\ edgeWrites' = [edgeWrites EXCEPT ![w] = [e \in Edges |-> Untouched]]
    /\ claimWrites' = [claimWrites EXCEPT ![w] = [k \in Keys |-> Untouched]]
    /\ ReleaseGraphLock(w)
    /\ inTxn' = [inTxn EXCEPT ![w] = FALSE]
    /\ op' = [op EXCEPT ![w] = NoOp]
    /\ existing' = [existing EXCEPT ![w] = NoRow]
    /\ tries' = [tries EXCEPT ![w] = 0]
    /\ Goto(w, "idle")
    /\ UNCHANGED started

\* A caller of store.transaction may catch a refusal and commit the rest.
Commit(w) ==
    /\ inTxn[w]
    /\ phase[w] = "finished" \/ (UserTransactions /\ phase[w] = "refused")
    /\ edges' = EdgeView(w)
    /\ claims' = ClaimView(w)
    /\ EndTransaction(w)

\* A refusal, a thrown error, a lost connection or a deadlock victim.
Rollback(w) ==
    /\ inTxn[w]
    /\ EndTransaction(w)
    /\ UNCHANGED database

-----------------------------------------------------------------------------
(* Row work. *)

\* Absent, tombstoned under a plain update, or another edge's endpoints: not found.
MayUpdate(o, row) ==
    /\ row # NoRow
    /\ row.deleted => o.kind = "resurrect"
    /\ o.kind = "resurrect" => row.key = o.key

\* performEdgeUpdate reads the row its verdicts are about.
Read(w) ==
    /\ phase[w] = "reading"
    /\ LET row == EdgeView(w)[op[w].edge] IN
          \/ /\ ~MayUpdate(op[w], row)
             /\ Goto(w, "refused")
             /\ UNCHANGED existing
          \/ /\ MayUpdate(op[w], row)
             /\ existing' = [existing EXCEPT ![w] = row]
             /\ Goto(w, IF Reenters(op[w], row) THEN "probing" ELSE "writing")
    /\ UNCHANGED <<database, edgeWrites, claimWrites, frame, tries>>

\* checkCardinalityConstraint, then the decision whether a claim is owed.
Probe(w) ==
    /\ phase[w] = "probing"
    /\ \/ /\ ~JoinsPopulation(TargetEnd(w))
          /\ Goto(w, "writing")
       \/ /\ JoinsPopulation(TargetEnd(w))
          /\ \E e \in Edges : CountedOn(EdgeView(w)[e], TargetKey(w))
          /\ Goto(w, "refused")
       \/ /\ JoinsPopulation(TargetEnd(w))
          /\ \A e \in Edges : ~CountedOn(EdgeView(w)[e], TargetKey(w))
          /\ Goto(w, "claiming")
    /\ UNCHANGED <<database, edgeWrites, claimWrites, frame, existing, tries>>

\* Statement 1: create or lock the claim row, report its committed holder.
LockClaim(w) ==
    LET k == TargetKey(w)
        holder == ClaimView(w)[k]
    IN  /\ phase[w] = "claiming"
        /\ ClaimWriters(w, k) = {}
        /\ IF holder \in {NoClaim, op[w].edge}
             THEN WriteClaim(w, k, op[w].edge) /\ Goto(w, "writing")
             ELSE WriteClaim(w, k, holder) /\ Goto(w, "takingOver")
        /\ UNCHANGED <<database, edgeWrites, frame, existing, tries>>

\* Mutant of Takeable: the take-over does not ask whether the holder still counts.
TakesFromAnyHolder(w, holder, k) == TRUE

\* The holder no longer is a counted edge of this key.
Takeable(w, holder, k) == ~CountedOn(EdgeView(w)[holder], k)

\* Statement 2: on a fresh snapshot, take the claim from a takeable holder.
TakeOverClaim(w) ==
    LET k == TargetKey(w)
        holder == ClaimView(w)[k]
    IN  /\ phase[w] = "takingOver"
        /\ \/ /\ Takeable(w, holder, k)
              /\ WriteClaim(w, k, op[w].edge)
              /\ Goto(w, "writing")
           \/ /\ ~Takeable(w, holder, k)
              /\ UNCHANGED claimWrites
              /\ Goto(w, "refused")
        /\ UNCHANGED <<database, edgeWrites, frame, existing, tries>>

\* The INSERT; the primary key refuses an id that has a row, and the engine
\* then accepts nothing but a rollback.
InsertEdge(w) ==
    LET o == op[w]
    IN  /\ phase[w] = "writing"
        /\ o.kind \in Creates
        /\ EdgeWriters(w, o.edge) = {}
        /\ \/ /\ EdgeView(w)[o.edge] = NoRow
              /\ WriteEdge(w, o.edge, [deleted |-> FALSE, key |-> o.key, validTo |-> o.end])
              /\ Goto(w, "finished")
           \/ /\ EdgeView(w)[o.edge] # NoRow
              /\ UNCHANGED edgeWrites
              /\ Goto(w, "aborted")
        /\ UNCHANGED <<database, claimWrites, frame, existing, tries>>

\* Mutant of UpdateMatches: the statement trusts the liveness its verdict read.
MatchesTombstones(w, row) ==
    /\ row # NoRow
    /\ op[w].kind = "resurrect" => row.key = op[w].key
    /\ AssertsStoredEnd(op[w], existing[w]) => row.validTo = existing[w].validTo

\* The UPDATE's WHERE clause: the identity and the window end its verdict
\* asserted, and deleted_at IS NULL unless it resurrects.
UpdateMatches(w, row) ==
    /\ row # NoRow
    /\ op[w].kind = "resurrect" => row.key = op[w].key
    /\ op[w].kind = "update" => ~row.deleted
    /\ AssertsStoredEnd(op[w], existing[w]) => row.validTo = existing[w].validTo

SeesLockedRow(w, e) == EdgeView(w)[e] # NoRow /\ EdgeWriters(w, e) # {}

UpdateEdge(w) ==
    LET o == op[w]
        row == EdgeView(w)[o.edge]
    IN  /\ phase[w] = "writing"
        /\ o.kind \in Updates
        /\ ~SeesLockedRow(w, o.edge)
        /\ \/ /\ UpdateMatches(w, row)
              /\ WriteEdge(w, o.edge,
                    [deleted |-> FALSE, key |-> row.key,
                     validTo |-> EffectiveEnd(o.end, row)])
              /\ Goto(w, "finished")
           \/ /\ ~UpdateMatches(w, row)
              /\ UNCHANGED edgeWrites
              /\ Goto(w, "diagnosing")
        /\ UNCHANGED <<database, claimWrites, frame, existing, tries>>

MaxTries == 2

\* Mutant of MayRetry: the convergence loop has no bound.
MayAlwaysRetry(w) == TRUE

MayRetry(w) == tries[w] < MaxTries

\* withUnmatchedEdgeUpdateRefusal: a live row whose window moved is read again.
DiagnoseUnmatched(w) ==
    LET row == EdgeView(w)[op[w].edge]
        moved == /\ row # NoRow
                 /\ op[w].kind = "resurrect" => row.key = op[w].key
                 /\ AssertsStoredEnd(op[w], existing[w])
                 /\ ~row.deleted
    IN  /\ phase[w] = "diagnosing"
        /\ IF moved /\ MayRetry(w)
             THEN /\ Goto(w, "reading")
                  /\ tries' = [tries EXCEPT ![w] = @ + 1]
             ELSE Goto(w, "refused") /\ UNCHANGED tries
        /\ UNCHANGED <<database, edgeWrites, claimWrites, frame, existing>>

\* One self-checking statement: kind and deleted_at IS NULL are in its WHERE.
SoftDeleteEdge(w) ==
    LET e == op[w].edge
        row == EdgeView(w)[e]
    IN  /\ phase[w] = "writing"
        /\ op[w].kind = "softDelete"
        /\ ~SeesLockedRow(w, e)
        /\ IF row # NoRow /\ ~row.deleted
             THEN WriteEdge(w, e, [row EXCEPT !.deleted = TRUE])
             ELSE UNCHANGED edgeWrites
        /\ Goto(w, "finished")
        /\ UNCHANGED <<database, claimWrites, frame, existing, tries>>

\* The DELETE, whatever it matched, is followed by the purge of its claims.
HardDeleteEdge(w) ==
    LET e == op[w].edge
    IN  /\ phase[w] = "writing"
        /\ op[w].kind = "hardDelete"
        /\ ~SeesLockedRow(w, e)
        /\ IF EdgeView(w)[e] # NoRow THEN WriteEdge(w, e, NoRow)
                                     ELSE UNCHANGED edgeWrites
        /\ Goto(w, "purging")
        /\ UNCHANGED <<database, claimWrites, frame, existing, tries>>

HeldBy(w, e) == {k \in Keys : ClaimView(w)[k] = e}

PurgeClaims(w) ==
    LET held == HeldBy(w, op[w].edge)
    IN  /\ phase[w] = "purging"
        /\ \A k \in held : ClaimWriters(w, k) = {}
        /\ claimWrites' = [claimWrites EXCEPT ![w] =
              [k \in Keys |-> IF k \in held THEN NoClaim ELSE claimWrites[w][k]]]
        /\ Goto(w, "finished")
        /\ UNCHANGED <<database, edgeWrites, frame, existing, tries>>

RowWork(w) ==
    \/ Read(w) \/ Probe(w) \/ LockClaim(w) \/ TakeOverClaim(w)
    \/ InsertEdge(w) \/ UpdateEdge(w) \/ DiagnoseUnmatched(w)
    \/ SoftDeleteEdge(w) \/ HardDeleteEdge(w) \/ PurgeClaims(w)

\* The bound is used up and every connection is idle.
Quiescent ==
    /\ started = MaxOps
    /\ \A w \in Writers : phase[w] = "idle"
    /\ UNCHANGED vars

Next ==
    \/ \E w \in Writers : Gate(w) \/ Begin(w) \/ RowWork(w) \/ Commit(w) \/ Rollback(w)
    \/ Quiescent

Spec == Init /\ [][Next]_vars

-----------------------------------------------------------------------------
(* Fairness: a client that opened a transaction runs it to its end, and the
   engine aborts a transaction of every waits-for cycle. *)

WaitsFor(w) ==
    CASE phase[w] = "gated" /\ SingleWriter -> {v \in Writers \ {w} : inTxn[v]}
      [] phase[w] = "gated" /\ ~SingleWriter ->
            IF NeedsGraphWriteLock(op[w]) THEN {graphLock} \ {Free, w} ELSE {}
      [] phase[w] = "claiming" -> ClaimWriters(w, TargetKey(w))
      [] phase[w] = "writing" /\ op[w].kind \in Creates -> EdgeWriters(w, op[w].edge)
      [] phase[w] = "writing" /\ op[w].kind \notin Creates ->
            IF SeesLockedRow(w, op[w].edge) THEN EdgeWriters(w, op[w].edge) ELSE {}
      [] phase[w] = "purging" ->
            UNION {ClaimWriters(w, k) : k \in HeldBy(w, op[w].edge)}
      [] OTHER -> {}

\* Some set of transactions containing w waits only on itself.
Deadlocked(w) ==
    \E S \in SUBSET Writers :
        /\ w \in S
        /\ \A v \in S : WaitsFor(v) \cap S # {}

Proceed(w) ==
    \/ Begin(w) \/ RowWork(w) \/ Commit(w)
    \/ phase[w] \in {"refused", "aborted"} /\ Rollback(w)

DeadlockVictim == \E w \in Writers : inTxn[w] /\ Deadlocked(w) /\ Rollback(w)

Fairness == (\A w \in Writers : WF_vars(Proceed(w))) /\ WF_vars(DeadlockVictim)

FairSpec == Spec /\ Fairness

-----------------------------------------------------------------------------
(* Properties. *)

Phases == {"idle", "gated", "reading", "probing", "claiming", "takingOver",
           "writing", "diagnosing", "purging", "finished", "refused", "aborted"}

\* Every variable has its type.
TypeOK ==
    /\ edges \in [Edges -> Row \cup {NoRow}]
    /\ claims \in [Keys -> Edges \cup {NoClaim}]
    /\ edgeWrites \in [Writers -> [Edges -> Row \cup {NoRow, Untouched}]]
    /\ claimWrites \in [Writers -> [Keys -> Edges \cup {NoClaim, Untouched}]]
    /\ graphLock \in Writers \cup {Free}
    /\ inTxn \in [Writers -> BOOLEAN]
    /\ phase \in [Writers -> Phases]
    /\ op \in [Writers -> Operation \cup {NoOp}]
    /\ existing \in [Writers -> Row \cup {NoRow}]
    /\ tries \in [Writers -> 0..MaxTries]
    /\ started \in 0..MaxOps

\* The declared cardinality: no axis has two counted edges, whatever
\* interleaving of creates, re-entries, ends, deletes and imports committed.
AtMostOneCounted ==
    \A d, e \in Edges :
        Counted(edges[d]) /\ Counted(edges[e]) /\ edges[d].key = edges[e].key => d = e

\* The claim row of an axis names its counted edge, which is what refuses a
\* writer that takes no lock.
CountedHoldsClaim ==
    \A e \in Edges : Counted(edges[e]) => claims[edges[e].key] = e

\* A transaction that never took the graph write lock can only take edges out
\* of the counted population, never put one into it.
LockFreeCommitsOnlyRetire ==
    [][\A w \in Writers : Commit(w) /\ graphLock # w =>
          \A e \in Edges : Counted(edges'[e]) => CountedOn(edges[e], edges'[e].key)]_vars

\* A hard delete's purge is housekeeping: the claims it drops are takeable.
PurgeDropsOnlyTakeableClaims ==
    [][\A w \in Writers : PurgeClaims(w) =>
          \A k \in HeldBy(w, op[w].edge) : ~CountedOn(EdgeView(w)[op[w].edge], k)]_vars

\* The counted edges of each axis, and the promise they keep: an edge joins an
\* axis only while the axis is empty.
Population == [k \in Keys |-> {e \in Edges : CountedOn(edges[e], k)}]

Axis == INSTANCE EdgeAxis WITH population <- Population

ImplementsAxis == Axis!Spec

\* Every operation that passed its gate ends, with a commit or without.
OperationsEnd == \A w \in Writers : phase[w] # "idle" ~> phase[w] = "idle"
=============================================================================
