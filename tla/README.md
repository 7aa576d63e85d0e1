# A verification of TypeGraph's concurrent writes

TypeGraph is an embedded property-graph library in TypeScript: typed nodes and
edges, an ontology, recorded history and queries, compiled to SQL over SQLite or
PostgreSQL (`src/packages/typegraph/src`, 364 files). It has no server of its own.
What makes it hard is that every promise it states (a cardinality, a history that
equals the live graph, a search that runs under its own setting) is kept by several
SQL statements of one transaction, between whose statements other connections, other
transactions and *other branches of the same callback* run.

This directory holds TLA+ modules of that core, TLC configurations that check them on
small instances, and theorems that TLAPS checks for every instance. Paths below are
relative to `src/packages/typegraph/src` unless they start with `apps/`.

| Module | Contents |
| --- | --- |
| `EdgeCardinality` | concurrent writers of an edge kind with a declared cardinality |
| `EdgeAxis` | what the cardinality promises, with no locks and no transactions |
| `NodeClaims` | the unique reservations of nodes, and every node write that moves them |
| `StatementQueue` | the statement queue of one PostgreSQL transaction |
| `RecordedCapture` | recorded-time capture of one graph (`history: true`) |
| `RecordedLedger` | what recorded time promises a reader: an append-only ledger |
| `SchemaFence` | managed writes against schema writes: row locks, savepoints, deadlocks |
| `KindRemoval` | dropping kinds and reclaiming their rows, with crashes |
| `SchemaHistory` | what schema versioning promises the rows of a graph |
| `IdentityClasses` | the identity service: assertions and the two tables derived from them |
| `IdentityLedger` | what identity promises: nodes and assertions, no derived table |
| `MergeCommit` | branching, planning and committing merges beside other writers |
| `MergeTarget` | what a merge promises the graph it goes into: one step |
| `*Proofs` | theorems about `EdgeCardinality`, `StatementQueue`, `RecordedCapture`, `SchemaFence`, `KindRemoval`, `NodeClaims`, `MergeCommit` and `IdentityClasses` |
| `MC*` | instances for TLC, one `.cfg` per run |

## 1. The system: parts, state, operations

| Component | State | Operations | What is hard | What makes it correct |
| --- | --- | --- | --- | --- |
| **Edge operations, constraints, claims** `store/operations/edge-*`, `store/constraints.ts`, `store/claims/` | edge rows; one claim row per axis in `typegraph_edge_claims`; the per-graph lock | create, get-or-create, update, resurrecting or reopening update, soft and hard delete, import | check-then-write over several statements; imports take no lock; verdicts on rows read before | an axis never has two counted edges; a counted edge holds its claim; deletes cannot admit; every operation ends |
| **Write frames and sessions** `store/operations/write-transaction.ts`, `write-session.ts`, `write-executor.ts`, `write-plan.ts`, `write-fences.ts` | held-lock memo, schema fence, whether the session wrote, the revision clock of stores without history | begin, join an open transaction, commit | lock order schema, graph, identity, rows, clock; memo versus savepoint; a frame that fails half-way in a user transaction | a committed write was fenced; the clock moves if and only if something was written |
| **Recorded-time capture** `store/recorded-capture*.ts`, `store/recorded-capture/` | recorded rows (intervals of revisions), the clock, per-transaction touches | every write under the capture guard, seal, flush | touches and rows are set at different moments; branches outlive their callback; revisions run out | history equals live; intervals do not overlap; the past is fixed |
| **Recorded reads** `store/recorded-read-service.ts`, `query/compiler/temporal.ts` | none | read as of a revision | pinning while commits go on | a pinned read is reproducible |
| **Statement queue** `backend/drizzle/execution/statement-queue.ts` | FIFO chain, closed flag | enqueue, drain and close | concurrent branches, orphans, failed statements | one statement on the connection; nothing after COMMIT; searches keep their setting |
| **Transaction resources** `backend/transaction-resource.ts`, `store/transaction-receipt.ts` | leases of streaming reads, receipt state | lease, release, close | close races a stream | no use after release |
| **SQLite queue** `backend/drizzle/sqlite.ts:482-520` | FIFO with a re-entrancy mark | run exclusive, dispose | waiting on oneself; disposal with tasks pending | no deadlock, every task settles |
| **Node operations and claims** `store/operations/node-*.ts`, `store/claims/node-claims.ts` | node rows, unique and disjointness reservations | create, upsert, delete with cascade, compensating release | a create that fails after some reservations | reservations released are exactly those just made |
| **Schema manager, graph extensions** `schema/`, `graph-extension/`, `store/store.ts` | versioned schema document, active mark, write fence | initialise, migrate, evolve, remove kinds, roll back | version compare-and-set against managed writers; row locks a refused read keeps | a write commits under the version it validated against |
| **Kind removal** `store/materialize-removals.ts`, `backend/drizzle/kind-removals.ts` | queue of removals, reconciliation marker | queue, reconcile, delete, record | a crash between commit and queue, or between delete and record | a dropped kind's rows are found and deleted, a live kind's never |
| **Identity** `identity/` | assertions; the derived tables closure and separation | assert, bulk assert, retract, fold, detach, import, merge, rebuild | each operation repairs the classes it believes it touched | the tables say what nodes and assertions say; no class contradicts itself |
| **Graph merge** `graph-merge/` | base version, plan, fence, clone | branch, plan, resolve, commit with retry | planning outside any transaction, snapshots older than the lock, answers lost | a merge is one step on the graph it was planned against |
| **Import, export** `interchange/` | batches in flight | import, trusted import, export | no per-graph lock, order of claims | same constraints as the store |
| **Provenance** `provenance/` | source links | derive currency, retract | cascades | currency follows support |
| **Index and contribution materialization** `store/materialize-*.ts`, `backend/drizzle/*materializations.ts` | durable status markers beside DDL | build, resume, drop | a crash between DDL and its marker | each marker tells the truth |
| **Embedding, full text, search** `store/embedding-sync.ts`, `store/fulltext-*.ts`, `store/search.ts` | derived rows | synchronise, rebuild, search | rebuild against writers | derived rows follow live rows |
| **Coalescing** `store/collections/coalesce.ts` | none | compare an upsert with the row it would replace | nothing is deferred or shared | an unchanged upsert writes nothing |
| **Query compiler** `query/`, **algorithms** `store/recursive-cte.ts`, `store/subgraph.ts`, **ontology** `ontology/`, `registry/`, **indexes and profiler** `indexes/`, `profiler/`, **maintenance** `backend/migrate-*.ts`, `backend/repair-*.ts` | none shared | pure translations, reads, offline jobs | agreement with SQL semantics | outside what a model checker reaches |

How they meet: a store call becomes a *write plan*; the plan decides which fences it
needs; the *write frame* opens or joins a transaction, takes the per-graph lock
(`pg_advisory_xact_lock`, or SQLite's `BEGIN IMMEDIATE`) and runs the row work on a
*transaction backend*. With history on, that backend is wrapped by the capture guard,
whose session is flushed when the callback settles. On PostgreSQL every statement of
the transaction, the flush's included, goes through its statement queue. Shared state
is therefore of three kinds: committed rows (all connections), the advisory locks
(all transactions), and the queue, the memo and the session (all branches of a callback).

## 2. The modules and the code

### `EdgeCardinality`

One edge kind with cardinality `one`, `unique` or `oneActive`; `Writers` are
connections. One action is one SQL statement (or the JavaScript decision between two).

| Model | Code |
| --- | --- |
| `edges`, `claims`; `edgeWrites`, `claimWrites` | committed rows; a transaction's own uncommitted rows. `EdgeView`/`ClaimView` are what a READ COMMITTED statement of it sees |
| `EdgeWriters`, `ClaimWriters` | row locks: a statement waits for a row an open transaction has written |
| `Counted`, `ClaimsWhenBornEnded`, `HolderLiveness` | `EDGE_CARDINALITY_SPECS`: what each cardinality counts |
| `Gate`, `Begin` | what an operation reads before its frame; then the transaction and, if the plan has a reason (`NeedsGraphWriteLock`), the per-graph lock |
| `Read`, `Reenters` | `performEdgeUpdate`: the row it reads and whether the update re-enters the counted population |
| `Probe` | `checkCardinalityConstraint` and the decision to claim |
| `LockClaim`, `TakeOverClaim` | the two statements of a claim: lock the row and report its holder; take it over if the holder no longer counts |
| `InsertEdge`, `UpdateEdge`, `DiagnoseUnmatched` | the INSERT; the UPDATE with its WHERE clause; `withUnmatchedEdgeUpdateRefusal` and the bounded re-read |
| `SoftDeleteEdge`, `HardDeleteEdge`, `PurgeClaims` | the deletes, and the hard delete's purge of claims in a second statement |
| `Commit`, `Rollback` | the end of the frame; rollback may come at any time (an error, a lost connection, a deadlock victim) |

`UserTransactions` lets several operations share a transaction and lets the caller
catch a refusal and commit the rest; `SingleWriter` is SQLite; `CaptureEnabled` is a
store with history or revision tracking, whose every write takes the lock.

`EdgeAxis` is the promise: an edge joins an axis only while the axis is empty.
`ImplementsAxis` refines `EdgeCardinality` to it by the map
`population[k]` = the counted committed edges of key `k`.

### `StatementQueue`

Branches of one callback submit units: a plain statement, or a vector search, which is
four statements (save the setting, override it, SELECT, restore) under one queue slot.
`Submit` is `enqueue`, `HoldsSlot` is the promise chain `tail.then(task)`, `Succeed`
and `Fail` are the driver's answers, `Settle`, `SendControl` and `Release` are
`drainAndClose`, COMMIT or ROLLBACK, and the return of the connection. A branch may
submit before or after the callback settles; any statement may fail, which aborts the
transaction (the engine's rule, modelled in `Fail`).

### `RecordedCapture`

One graph on PostgreSQL READ COMMITTED with `history: true`; transactions, each with
branches that run concurrently. A step is one statement together with the JavaScript
that runs when it returns: the touch it leaves and the submission of the branch's next
statement. (The microtask between the two submits nothing else of that branch; another
branch's submission falls before or after.) `line` is the FIFO of `StatementQueue`,
reduced to its order.

| Model | Code |
| --- | --- |
| `recorded`, `clock` | recorded relations with their half-open revision intervals, `recorded_clock`; `MaxRevision` is the open sentinel (`MAX` safe revision in the code, a small number here, so that the limit is reached) |
| `fenced`, `LockGraph` | the session's lock memo: the first captured write of a transaction takes the graph lock, and later ones await the same promise |
| `Call`, `First`, `After` | which statements create, update, soft delete ("retire") and hard delete ("purge") of a node or edge consist of, the revival of a node ("revive") and of an edge ("resurrect"), and provenance retraction of a node ("retract"); the cascade of a removed node (`cut`), `hardDeleteNode`'s list and sweep |
| `Touch`, `Refused` | `touch` and `assertOpen` of the capture guard: the last touch wins; a sealed session refuses |
| `Unmatched` | which row an update or a revival throws at; the edge UPDATE with `clearDeleted` has no predicate on `deleted_at`, so a resurrection takes a live row too |
| `WriteRow`, `Remove`, `Removed` | the row operation and what it touches: an after-image carried from a RETURNING, or `Reread` |
| `Settle`, `Flush` | seal; then clock lock, read, advance, and per table close, read images, insert |
| `Commit`, `Rollback`, `Released` | the end; `_xact_` locks go with it. A crash is `Rollback`: nothing in memory outlives it, and nothing uncommitted is durable |

`RecordedLedger` appends the whole graph once per captured transaction;
`ImplementsLedger` maps version `r` to `AsOf(r)`, which is what `asOfRecorded` reads.

Node removal is modelled with the behaviours `cascade` and `disconnect`, which act;
`restrict` only refuses. Retraction (`provenance/index.ts:862`) soft-deletes a node with
`enforceDeleteBehavior: false`: no probe, no cut, its edges stay live on purpose until it
is reopened. An edge is resurrected by `getOrCreateByEndpoints` and `bulkUpsertById`, which
check its cardinality and read no endpoint.

### `NodeClaims`

One node kind with unique constraints. A constraint may span kinds (`CrossKind`): its
claim is then made before the row and its writers take the graph lock; any other claim
of a create follows the row and nothing but the claim row itself excludes a peer.

| Model | Code |
| --- | --- |
| `rows`, `claims`; `rowWrites`, `claimWrites`, `RowView`, `ClaimView` | committed rows and `typegraph_node_uniques`; a transaction's own, and what READ COMMITTED statements see |
| `Begin`, `Locks`, `LockGraph` | the collection's choice of leg, `nodeWriteNeedsConstraintFence`, the graph lock |
| `ReadRow`, `Dispatch` | the row each operation reads and where that sends it |
| `CheckKeys`, `RereadTombstone` | `checkUniquenessConstraints` of a create; the create that lands on a tombstone |
| `Plan`, `Changed`, `ToProbe`, `ToRelease` | `planNodeClaimUpdate`, `planNodeClaimReinsert`: which keys are claimed and which given up |
| `ClaimKey`, `GivenBack` | `insertUnique` and its reported owner; `releaseClaimedUniqueKeys` after a refusal |
| `InsertRow`, `UpdateRow`, `LoseRow`, `Recover` | the INSERT; the UPDATE with its predicate on `deleted_at`; no row returned; the one second attempt of a revival |
| `ReleaseKey`, `RetireRow`, `DropClaims`, `EraseRow` | the releases after a write or a soft delete; the hard delete |
| `AfterRefusal` | `updateImportedNode`: an import catches the refusal and commits its transaction |

### `SchemaFence`, `KindRemoval` and `SchemaHistory`

`SchemaFence` is one row lock protocol. A managed write locks the active schema row FOR
SHARE; a schema write takes the advisory lock, then the active row FOR UPDATE, then
every row of the graph.

| Model | Code |
| --- | --- |
| `Begin`, `LockSchemaVersionForWrite`, `FenceAnswers`, `WriteRow` | `withWriteTransactionSession`, `lockSchemaVersionForStoreWrite`: the fence statement is sent, is answered, the write runs. It is taken again for every write, because a savepoint may have released it |
| `Admitted`, `AfterRefusal`, `GoOn` | `assertActiveSchemaVersion`; an empty read (the mark moved while it waited) is not retried; a callback may swallow the error and write again |
| `MarkSavepoint`, `RollbackToSavepoint` | savepoints a caller issues on its own connection |
| `Commit`, `Rollback` | the end of the transaction, whose locks go with it |
| `StartSchemaWrite`, `Propose`, `TakeSchemaLock`, `LockActiveRow` | `commitSchemaVersion`, `commitSchemaVersionIfKindsEmpty`, `setActiveVersion` up to the locks of `runSchemaWriteTransaction` |
| `Decide` | conflict, idempotent success, compare-and-set of the expected version, emptiness probes |
| `DeactivateAll`, `CommitSchemaWrite`, `AbortSchemaWrite` | the flip; the COMMIT; a statement error or lost connection |
| `InCycle`, `BreakCycle` | PostgreSQL's deadlock detector |

`KindRemoval` takes a transaction under the schema lock as one step, which is what
`SchemaFence` shows, and follows what happens between such transactions.

| Model | Code |
| --- | --- |
| `Load`, `AssertNoPendingRemoval`, `CommitSchemaVersion`, `SetActiveVersion`, `RecordKindRemoval` | `evolve`, `removeKinds` of an extension kind, a deploy that adds a code kind, `migrateSchema` that drops one, guarded or with `discardDroppedKindRows`, `rollbackSchema`; `removeKinds` writes its queue row in a transaction after the commit |
| `StartPass`, `ReadMarker`, `Restore`, `SetMarker` | `reconcilePendingRemovals`: walk the schema history from the marker, upsert what the queue lacks, move the marker |
| `ReadActive`, `ReadPending`, `MaterializeOne`, `RecordRemoved`, `FailOne`, `EndPass` | the candidates of a pass; each is checked again under the lock, deleted in one transaction, recorded in another |
| `CrashAdmin`, `CrashCleaner` | the process stops between two transactions |

`SchemaHistory` is the promise of both: documents never change, a row is admitted only
under the active version and only if it declares its kind, and a cleanup deletes rows of
dead kinds only. Both refine it by the identity map on `history`, `active`, `rows`.

### `IdentityClasses` and `IdentityLedger`

A frame holds the graph's identity lock from before its body to its commit, so an action
is a frame, written as a function of a *draft* (the tables as the frame's own statements
see them) with a verdict. What is hard here is not interleaving but that `closure` and
`separation` are never recomputed whole.

| Model | Code |
| --- | --- |
| `ClassOf`, `Anchor`, `Contradicts` | `loadCurrentStructuralClasses`, `loadCurrentClassAnchors`, `validateCurrentRelation`: what the derived tables answer |
| `MergeClasses`, `ReplaceAffectedClosure`, `ReplaceSeparationForMembers`, `InsertClosure` | the repairs of the same names; a refused INSERT (a second label of a member, a separation of a class from itself) sets the verdict `aborted` |
| `Union`, `Components` | the union-find of `service-components.ts`, as a fold |
| `AssertPair`, `BulkAssert`, `Retract` | `assertSame` and `assertDifferent`; `bulkAssertPairs`, which validates against its own union-find; the retractions |
| `CreateNodes`, `FoldNodes`, `DeleteNode` | nodes folded into the class of their id (`sameIdAcrossKinds: "fold"`); `detachIdentityForNode` |
| `ImportAssertions`, `ApplyIdentityChanges` | an import, which keeps what it applied before a refusal; a merge, which ends and asserts in one frame |
| `RemoveKind`, `ChangeProfile`, `RebuildClosure` | schema commits and rebuilds: a snapshot, its integrity, both tables anew |

`IdentityLedger` keeps nodes, assertions and the profile, and *defines* classes from
them (the least set closed under links). `ImplementsLedger` maps `live` to the live nodes
of the kinds in the active schema and every other variable to itself: a frame that
commits leaves no contradiction, one that is refused would have, and the constraints of
the derived tables never fire (`aborted` is no verdict of the ledger).

### `MergeCommit` and `MergeTarget`

| Model | Code |
| --- | --- |
| `BeginWrite`, `CommitWrite` | other transactions of the store: graph lock and revision clock if the store is tracked |
| `Stamp`, `Clone` | `branch()`: the version it forks from is read, then the graph is cloned |
| `CaptureFence`, `ValidateBaseVersions`, `Stage`, `Resolve` | planning, outside any transaction: the fence of a reviewable plan, base versions, the target page by page, candidates for additions |
| `PlanWrites`, `PlannedValue`, `Merge` | which rows the plan writes, and with whose content |
| `Begin`, `AcquireLock`, `Guard` | an attempt: SERIALIZABLE without history (the snapshot is taken by the statement that then waits for the lock), READ COMMITTED with; `assertTargetUnchanged`, `assertMergePlanFenceInsideTransaction`, `assertBaseResolutionStable`, `assertInheritedUnchanged` |
| `Commit`, `Again` | the commit; its answer may be lost and the caller start over |
| `Conflict`, `Duplicate`, `EngineAbort`, `Retry` | serialization failures, duplicate keys, deadlock victims; `withTxConflictRetry` |

`MergeTarget` says that a merge is one step: a reviewed plan is applied once, a snapshot
merge takes place on the very graph its branch forked from, and an incremental merge
overwrites a row of its fork point only while it is what it was there. `ImplementsTarget`
maps a row to its author and a merger to the work it was given.

## 3. The runs

| Run | Question | Instance | Verdict |
| --- | --- | --- | --- |
| `edge_fenced` | Do all store operations keep a `oneActive` axis to one edge, and is each commit a step of `EdgeAxis`? May a transaction without the lock only retire? | 2 writers, 2 edges, 1 key, 2 window ends, 4 operations | holds |
| `edge_claims` | Does the claim row alone stop a lock-free import, for every counted edge? Does every operation that began end? | 2 writers, `one`, 4 operations, fairness | holds |
| `edge_sqlite` | One write transaction at a time, several operations in each, imports too: do cardinality, claims and purges agree? | 2 writers, user transactions | holds |
| `queue` | Is the connection never shared, does each search run under its own setting, does each accepted unit settle and each settled transaction end? | 3 branches, 2 units each, 3 settings | holds |
| `capture_history` | Is history the live graph, one version per revision, the past fixed, no edge row without its node row, and the ledger implemented? | 2 transactions of up to 2 operations, the seven operations of `Call`, 3 starting graphs | holds |
| `capture_branches` | Do types hold at the last usable revision, and does every settled transaction end, whatever branch it leaves behind? | 2 transactions, one with 2 branches | holds |
| `schema_fence` | Do rows enter only under the version that validated them, do schema writes not lose each other's change, does a prudent transaction never deadlock with one, and does every schema write end? | 2 writers, one careless; 2 committers; 1 kind, 3 versions | holds |
| `kind_removal` | Are a dropped kind's rows found and deleted, whoever crashes, and a live kind's never? | 2 admins, 1 cleaner, 2 kinds, 3 versions, 1 fault | holds |
| `claims_seam` | Are the claims the mirror of the live rows after any node write, and does an import that commits past a refusal leave no trace of it? | 2 writers, 3 nodes, 2 constraints, 2 keys | holds |
| `identity_classes` | Do the derived tables say what nodes and assertions say, and is a request refused exactly when it would contradict? | 4 nodes of 3 kinds, both profiles, every operation | holds |
| `identity_import` | Does no class ever contradict itself, imports of several kinds included? | the same graph, single assertions | **violated** |
| `merge_race` | Is each merge one step of `MergeTarget`, and does it add no row beside a match, whatever else is committed, refused or unanswered? | 2 mergers, 1 writer, 3 ids, 2 attempts, 1 fault | holds |

### Bounds

- *Edges*: a violation of a cardinality needs two edges and one axis; a third edge on
  the same axis only repeats one of them. `edge_fenced` takes two window ends because a
  moved end differs from a cleared one. `MaxOps` bounds the operations of a behaviour,
  and a writer may run several, so that one of two writers also plays a third.
  `Init` is any consistent database, so what earlier operations could have left is there
  from the start. Writers and edges are symmetric in the safety runs; the run with a
  liveness property uses no symmetry.
- *Queue*: three branches give a head, a waiting unit and one behind a failure; two
  units each let a branch submit again after a failure and after the close.
- *Capture*: one node and its edge are what touches, cascade and probe relate; two
  values distinguish a stale after-image from the current one; two operations per branch
  let a transaction touch an entity twice. `MaxRevision` is 4 in `capture_history` (two
  commits on a graph with a revision, and the sentinel) and 3 in `capture_branches`, where the last
  usable revision is used and the next transaction is refused.
- *Schema fence*: one kind is declared or not; three versions let a mark move forward,
  back and forward again under a queued schema write; two writes per transaction let a
  savepoint fall between them; four starts are two of each side.
- *Kind removal*: one kind of the program and one of an extension, because their paths
  differ; the properties speak of one row at a time, so `MaxRows` is 1; three versions
  let a kind be dropped, added and dropped; one crash or failure may fall at any point.
- *Node claims*: a node that owes keys has one writer in `claims_seam` (disagreement 8
  says why), a third node without keys is written by both, and the two compete for two
  keys under a cross-kind and an own-kind constraint; two operations give every pair.
  Keys are symmetric, and so are the writers together with the nodes they own.
- *Identity*: kinds 1 and 2 are disjoint and each shares an id with kind 3, the smallest
  graph in which folding can join a class it should not; requests of two assertions
  let the second meet what the first wrote. In the passing run a frame creates nodes of
  one kind (`MixedBatches` is `FALSE`): `identity_import` is the other case.
- *Merge*: id 3 is in the fork point, 2 and 3 are edited by branches, 1 is created by the
  other writer and matches a branch's addition: one row for each case of the plan. Two
  attempts and one fault reach the retry, its exhaustion and the lost answer. Mergers
  are symmetric. Targets track revisions or history; an untracked target relies on the
  engine's predicate locks, which the model does not have (disagreement 11).
- Deadlock is checked in the edge and capture runs, where the states in which the
  workload is used up stutter explicitly (`Quiescent`, `Finished`). It is off elsewhere,
  because there the bounded workload simply ends; that nothing stops earlier is what the
  liveness properties of `queue`, `schema_fence` and `kind_removal` say.

### Fairness

- `EdgeCardinality!Fairness`: an operation that has passed its gate goes on (`Begin`,
  its row work, its commit, the rollback of a refusal): the library's code awaits
  nothing but the engine between those statements. And the engine aborts one transaction
  of every waits-for cycle (`DeadlockVictim`), which PostgreSQL's detector does. There is
  no fairness on `Gate` (no client has to call) nor on a rollback out of the blue.
- `StatementQueue!Fairness`: the event loop starts a unit whose predecessor settled, the
  driver answers each statement, the awaited drain continues. A callback need never
  submit or settle.
- `RecordedCapture!FairSpec`: statements are answered, the flush goes on, a failed
  statement rolls back, and a callback settles in the end (without it a callback that
  holds the graph lock and never returns would rightly block every other writer).
  Weak fairness is enough: a statement that waits for a lock becomes enabled for good
  when its holder ends, because each transaction runs once.
- `SchemaFence!Fairness`: statements are answered, callers end the transactions they
  open, the engine breaks cycles. Nobody has to start, and no order of service is assumed
  between a waiting schema write and writers that come later.
- `KindRemoval!FairSpec`: a schema change that was started goes on, and
  `materializeRemovals` keeps being called: nothing in the library calls it, so this is
  an assumption about the caller, as in the documented cycle of removal, cleanup, re-adding.

### Disagreements between the code and what it says of itself

One is a run (`identity_import`). The others were met while the modules were written and
are reproduced by changing the constants or properties of a configuration as said.

1. *Edge revival* (`store/operations/edge-operations.ts:887`). A resurrecting upsert
   decides from a row it reads whether it re-enters the population, and claims only
   then; its UPDATE has no `deleted_at` predicate. If the row read is live, a peer
   tombstones it and an import takes the axis over, the UPDATE revives a second counted
   edge. `store/constraints.ts:8` promises probe and write "under one per-graph mutual
   exclusion". (Three writers, `Ops = {"resurrect", "import", "softDelete"}`,
   `AtMostOneCounted`.)
2. *Edge reopening* (`edge-operations.ts:893`). Clearing the end of an edge that read as
   open claims nothing and asserts no stored end; a peer's end and an import between
   make it a silent reopening. (Three writers, `oneActive`, update and import.)
3. *Edge purge* (`edge-write-pipeline.ts:187`). The purge keyed by edge id runs whatever
   the DELETE matched; an id re-created in between loses a claim a live edge holds.
   (`PurgeDropsOnlyTakeableClaims` with `SingleWriter = FALSE`, no import needed.)
4. *Orphaned branch* (`recorded-capture.ts:286`). A row written while the session is
   sealed commits; only its touch throws, into an abandoned promise. (`HistoryIsLive`
   with one transaction, two branches, `JoinsBranches = FALSE`.)
5. *Sibling branches* (`recorded-capture.ts:522`). The graph lock does not exclude
   branches of the same transaction: an edge inserted between the listing and the sweep
   of `hardDeleteNode` is deleted, and recorded as live for ever. (`HistoryIsLive` with
   one transaction, two branches that it joins.) `NoEdgeOutlivesItsNode` too is a property
   of one-branch transactions: between siblings the endpoint probe of a new edge and the
   removal of its node interleave.
6. *Rollback, then the same drop* (`backend/drizzle/kind-removals.ts:122`). A version
   number is reused after `rollbackSchema`; the queue's upsert keeps the time of the
   first drop's cleanup and the marker is past it, so rows written in between stay.
   (`EveryDropIsFound` in place of `NothingForgotten`.)
7. *Incremental merge over an unseen row* (`graph-merge/merge.ts:4607`). Only rows the
   plan enumerated have a baseline; a row committed under an addition's id after its page
   was read is overwritten. (`OverwritesWhatItSaw`, with `CreatedIds = {1, 2}`.)
8. *Claims of a lost revival* (`store/claims/node-claims.ts:1067`). An upsert that lost
   the row gives back every claim it wrote, and that a claim names this node is taken as
   proof that this write made it; a peer that revived the same node committed it. The
   comment at `node-claims.ts:1051-1053` says that no peer can have taken the key in
   between, because "this transaction holds the row".
   (`ClaimsMirrorRows` with `Writers = {w1, w2}`, `Nodes = {n1}`, `Addresses <- EveryNode`,
   `Offered <- EveryKey`, `Ops = {"revive"}`, `CrossKind = {}`, `SYMMETRY KeySymmetry`.)
9. *Import of two kinds into one class* (`identity/service-maintenance.ts:689`): run
   `identity_import`. Every created node is validated against the closure as it stood
   before the batch; two that are each compatible with a class may be disjoint.
10. *Resurrection onto a deleted node* (`store/operations/edge-operations.ts:1800`,
    `store/collections/edge-collection.ts:1045`). Create a node and an edge, soft-delete
    the node, which takes the edge along, then `getOrCreateByEndpoints` or
    `bulkUpsertById` the edge: it is live on a deleted node, with one caller and nothing
    concurrent. `interchange/import.ts:1568-1570` says that "a live edge pointing at a
    soft-deleted node violates the endpoint-liveness invariant the collection API
    enforces". (`NoDanglingEdge` in `capture_history`, with "retract", which leaves such
    edges by design, taken out of `Ops`.)
11. Also seen, and outside the models' reach: `merge.ts:2222` relies on SERIALIZABLE to
    fence writers of an untracked target, which themselves run READ COMMITTED; a
    resurrection locks claim then row and a hard delete row then claim
    (`edge-write-pipeline.ts:126`), a cycle the engine resolves; two imports may take the
    same claims in opposite orders (`store/claims/axis.ts:232` declares it out of
    contract); a refused fold whose error a user transaction catches leaves its node
    unfolded; a user transaction at REPEATABLE READ reads verdicts older than its locks.

1 and 2 need an import, the one writer that takes no lock: theorem `CardinalityHolds`
shows that there is nothing else to find without one. 4 and 5 need two branches of one
transaction; with one branch each `capture_history` holds. 10 needs an edge that was
tombstoned: theorem `EdgesStayAttached` shows that among the operations of
`RecordedCapture` only resurrection and retraction can leave a live edge on a deleted node.

## 4. What is proved

The theorems hold for every value of the constants that satisfies the named assumptions
of their modules (the markers are distinct values of no other kind, the flags Boolean,
the bounds natural numbers). The prover's arithmetic, set and temporal backends are used;
nothing is assumed beyond those assumptions and what a theorem's own hypothesis says.

| Theorem | Statement |
| --- | --- |
| `EdgeCardinalityProofs!TypeCorrectness` | `Spec => []TypeOK` |
| `EdgeCardinalityProofs!CardinalityHolds` | `Serialized` and `Spec` imply `[]AtMostOneCounted` |
| `EdgeCardinalityProofs!LockFreeWritersRetire` | `Serialized`, `~SingleWriter` and `Spec` imply `LockFreeCommitsOnlyRetire` |
| `EdgeCardinalityProofs!ClaimsHeld` | `Claimed` and `Spec` imply `[]CountedHoldsClaim` |
| `EdgeCardinalityProofs!ClaimsKeepCardinality` | `Claimed` and `Spec` imply `[]AtMostOneCounted` |
| `EdgeCardinalityProofs!PurgesAreHousekeeping` | `CaptureEnabled \/ SingleWriter` and `Spec` imply `PurgeDropsOnlyTakeableClaims` |
| `EdgeCardinalityProofs!AxisImplemented` | `Serialized \/ Claimed`, `~UserTransactions` and `Spec` imply `ImplementsAxis` |
| `StatementQueueProofs!TypeCorrectness` | `Spec => []TypeOK` |
| `StatementQueueProofs!ConnectionIsExclusive` | `Spec => []OneInFlight` |
| `StatementQueueProofs!SearchesAreIsolated` | `Spec => []RunsUnderOwnSetting` |
| `RecordedCaptureProofs!TypeCorrect` | `Spec => []TypeOK` |
| `RecordedCaptureProofs!OneVersionHolds` | `Spec => []OneVersion` |
| `RecordedCaptureProofs!PastStaysFixed` | `Spec => PastIsFixed` |
| `RecordedCaptureProofs!HistoryStaysLive` | `JoinsBranches`, `Undisturbed` and `Spec` imply `[]HistoryIsLive` |
| `RecordedCaptureProofs!EdgesNeverOutlive` | `JoinsBranches`, `Solitary`, `SeedsAttached(Rows)` and `Spec` imply `[]NoEdgeOutlivesItsNode` |
| `RecordedCaptureProofs!EdgesStayAttached` | `JoinsBranches`, `Solitary`, `Enforced`, `SeedsAttached(Values)` and `Spec` imply `[]NoDanglingEdge` |
| `RecordedCaptureProofs!LedgerImplemented` | `JoinsBranches`, `Undisturbed` and `Spec` imply `ImplementsLedger` |
| `NodeClaimsProofs!TypeCorrect` | `Spec => []TypeOK` |
| `NodeClaimsProofs!ClaimsStayMirrored` | `SoleWriter \/ AllLock` and `Spec` imply `[]ClaimsMirrorRows` |
| `NodeClaimsProofs!RefusalsLeaveNoTrace` | `SoleWriter \/ AllLock` and `Spec` imply `RefusalLeavesNoTrace` |
| `SchemaFenceProofs!TypesHold` | `Spec => []TypeOK` |
| `SchemaFenceProofs!StagedRowsAreFenced` | `Spec => []StagedUnderActive` |
| `SchemaFenceProofs!PrudentWritersNeverDeadlock` | `Spec => []PrudentNeverInCycle` |
| `SchemaFenceProofs!WritesAreFenced` | `Spec => FencedWrites` |
| `SchemaFenceProofs!SchemaWritesAreSerial` | `Spec => MovesFromItsBase` |
| `SchemaFenceProofs!GuardedDropIsSafe` | `Spec => GuardedDropStrandsNothing` |
| `SchemaFenceProofs!FenceImplementsHistory` | `Spec => ImplementsHistory` |
| `KindRemovalProofs!TypesHold` | `Spec => []TypeOK` |
| `KindRemovalProofs!NoRowIsForgotten` | `Spec => []NothingForgotten` |
| `KindRemovalProofs!RemovalImplementsHistory` | `Spec => ImplementsHistory` |
| `MergeCommitProofs!TypeCorrect` | `"none" \notin Targets` and `Spec` imply `[]TypeOK` |
| `MergeCommitProofs!AdditionsResolved` | `"none" \notin Targets` and `Spec` imply `AdditionsResolve` |
| `MergeCommitProofs!TargetImplemented` | `"none" \notin Targets` and `Spec` imply `ImplementsTarget` |
| `IdentityClassesProofs!TablesStayCurrent` | `Spec => []TablesAreCurrent` |
| `IdentityClassesProofs!EndpointsStayLive` | `Spec => []Promise!EndpointsLive` |
| `IdentityClassesProofs!NeverContradicts` | `~MixedBatches` and `Spec` imply `[]NeverContradictory` |
| `IdentityClassesProofs!RefusalsAreExact` | `~MixedBatches` and `Spec` imply `[]RefusesContradictionsOnly` |
| `IdentityClassesProofs!PromiseKept` | `~MixedBatches` and `Spec` imply `ImplementsLedger` |
| `IdentityClassesProofs!PromiseIsConsistent` | `Promise!Spec => []Promise!Consistent` |

**`CardinalityHolds`.** `Serialized` says that every writer that may admit an edge is
under one exclusion: capture is on, or the engine has a single writer, or no import
runs. It cannot be dropped: disagreements 1 and 2 refute the theorem without it. `AtMostOneCounted` is not inductive,
because nothing in it speaks of uncommitted rows. The strengthening is

`IInv == TypeInv /\ LockInv /\ RowLocks /\ RetireInv /\ ViewInv /\ VerdictInv`

- `LockInv`, `RowLocks`: an operation past its `Begin` that needs the lock holds it; two
  open transactions have not written the same row.
- `RetireInv`: a writer without the exclusion has only *decayed* the rows it wrote (same
  endpoints, no revival, no reopened window). This is where each delete and each plain
  update has to be shown harmless, and where a lock-free admission would fail.
- `ViewInv`: the committed rows, and the view of the writer that has the exclusion, have
  one counted edge per axis.
- `VerdictInv`: what the excluding writer concluded (its row is as it read it or has
  decayed since; no other edge of its axis counts) still stands when it writes.

A peer's commit is then a decay of the committed rows, under which `ViewInv` and
`VerdictInv` are stable (lemmas `DecayedOneCounted`, `VerdictStands`), and the excluding
writer's own write is safe by its verdict (`InsertIsSafe`, `UpdateIsSafe`).
`LockFreeWritersRetire` is `RetireInv` at the moment of a commit. Note that the argument
never mentions a claim row: under the exclusion the claims are redundant, and beside an
import they are the only defence.

**`ClaimsHeld`, `ClaimsKeepCardinality`, `PurgesAreHousekeeping`.** That defence has a
theorem of its own. `Claimed` is `SoleClaimants \/ OnlyRetires`: whoever writes claims
excludes every other writer (capture, or one write transaction at a time, or neither
imports nor hard deletes), or imports run beside creates, updates and soft deletes of a
cardinality that does not look at window ends. Each of the conditions it leaves out is a
disagreement of section 3 (1: a revival beside an import; 2: a reopening beside an import;
3: a hard delete beside any other writer), and TLC refutes `CountedHoldsClaim` there. The
invariant is `Known`: types, locks, under `SoleClaimants` also `Retirement`, and `ClaimsInv`:

- `ClaimLocks`: two open transactions have not written the same claim row.
- `HoldsClaims`, of the committed rows and claims, and of every writer's view of both.
- `Backed`: a counted row is written beside its claim, or counted on that axis before.
- `Concluded`: past its claim statements an operation that admits has written the claim of
  the axis it is about to join, and a purge follows a row that is gone.

What a peer commits in between may retire the row of a claim, which makes it takeable,
and never make a row count whose claim it does not hold (`PeerHolds`, `PeerConcludes`).

**`AxisImplemented`.** Given the cardinality, from either argument, what is left is that a
commit moves one edge: `SingleWrites` says that a transaction has written the row of its one
operation, under the endpoints the committed row has. Two tables that differ in one row
and both keep the cardinality are a step of the axis or the same population
(`OneRowMovesOneEdge`). User transactions are excluded because they may exchange the edge
of an axis in one commit, which is two steps of `EdgeAxis`; their cardinality is the
previous theorems'.

**`ConnectionIsExclusive`, `SearchesAreIsolated`.** The invariant
`Inv == TypeOK /\ Exclusive /\ Chain /\ Accounted` says that only the head of the queue
is on the wire and nothing is once the frame is ending (`Exclusive`), that a branch is
chained at most once and a unit behind the head has not begun (`Chain`), and that,
until a statement fails, the connection's setting is accounted for: it is the default
unless the head is a search past its override, whose snapshot is then the default
(`Accounted`).

**Recorded-time capture.** `IntervalInv` carries what needs no assumption. `ClockHeld`: who
has allocated a revision holds the clock lock and that revision is the next one until its
transaction ends. `Closes`: what a flush closes is open and touched, and includes every
open row of an entity it opens another for. `Opens`: one new row per entity, from an
after-image. `Intervals`: half-open intervals of one entity do not overlap. `OneVersion`
and `PastIsFixed` follow, orphaned branches included: an orphan spoils what is recorded
as live, never the shape of what was recorded.

`HistoryIsLive` needs more, `CaptureInv`: a transaction that wrote holds the graph lock
(`Fences`), branches are at statements their operations have (`Plans`) and none runs past
the seal (`Joined`, hence `JoinsBranches`); what a transaction changed it touched, and an
image it carries is the row it sees (`Captured`), except between the sweep of
`hardDeleteNode` and the touches that follow it (`Pending`); what the sweep takes was
listed (`Listed`); and once the flush is through with a table every touch is recorded
(`Complete`). `Listed` is where `Undisturbed` is needed: one branch per transaction, or no
hard delete of a node. Without it disagreement 5 is a counterexample, at
`recorded-capture.ts:522`.

`NoEdgeOutlivesItsNode` holds of every operation, resurrection and retraction included. It
asks for one branch per transaction (`Solitary`), because siblings interleave between
probe and removal whatever the removal is, and for seeds without an edge row whose node
has none. `EdgeInv(kept)` says it twice, once of rows (`kept = Rows`) and once of live rows
(`kept = Values`): every transaction sees an attached graph (`Attached`), and what its
branch read before a removal or a creation still holds (`Ready`): in particular a node is
purged after every row of an edge of it is gone, tombstones included (`Emptied`). Of live
rows the step from `Attached` fails at a resurrection and at a retraction, so that
`NoDanglingEdge` needs `Enforced`: `Ops` has neither. Disagreement 10 is the counterexample
without it.

`LedgerImplemented` is `CaptureInv` at a commit: the new last version is the
live graph and `PastIsFixed` keeps the others.

**Node claims.** `StageInv` says which phase may find which values: what is still to claim,
claimed, to give back or to release (`Stage`), that a transaction has written no row but
its node's (`Own`), that a claim row has one open writer, who moves it between nobody and
its own node (`Exclusive`, `Taken`), and that no row has a key its node may not carry.
`HoldingInv` adds, statement by statement, that the claims a node
holds in its writer's view are those its row owes plus what was taken and minus what
was given up. It needs that nobody else writes the node in between: `SoleWriter` (a node
that may carry keys is written by one writer) or `AllLock` (every operation takes the
graph lock: tracking, or a cross-kind constraint without imports). With two writers and
no lock disagreement 8 is a counterexample, at `node-claims.ts:1067`. `SoleWriter` is
what `claims_seam` instantiates, and does not make writers independent: they compete for
the keys. `RefusalsLeaveNoTrace` is `HoldingInv` where a refused operation commits.

**Merging.** All three theorems are about targets that track revisions, by history or by
`revisionTracking`, as the run's are: only there does every commit take the graph lock and
move the clock. `Inv` has, per merger: no row bears the mark of a branch that has
not written (`Authors`); while the clock is at the branch's revision the target is the
fork (`AtTheFork`); a reviewed plan was made at that revision, and the first application
moves the clock past it (`Fenced`); what was enumerated lies between fork and target
(`Seen`); an attempt's snapshot is the target of its revision, and a merge that passed its
guards passed them on it (`Snapshot`, `Checked`). A snapshot merge that commits thus had the
fork before it (`OntoTheFork`), and an attempt whose snapshot is old conflicts on the
clock's row. `OverwritesWhatItSaw` is no theorem: disagreement 7 refutes it for additions
whose id another writer takes.

**The schema fence.** The invariant is
`Inv == TypeOK /\ WriterInv /\ Drained /\ CommitterInv`. None of the properties is
inductive, because none says why the mark cannot move under a writer. `Held`: admitted
work is covered by a share lock on the active row, the writer's pinned version; `Saved`:
what a savepoint keeps is covered by the locks it keeps. `Drained`: a schema write that
decides has waited out every share of the active row, and one that has deactivated the
rows every share of any row. `Locked`, `Proposed` and `Decided`: past its queue a schema
write has the advisory lock, and what it decided (its base, the document it names, the
emptiness of the kinds it drops) stays true until it commits, because the lock excludes
other schema writes and `Drained` excludes writers. `Prudent` carries
`PrudentNeverInCycle`: until its first refusal a prudent transaction shares the active
row only, so what it waits for and what it holds are one row. The refinement is one
lemma per action under the invariant.

**Kind removal.** `Inv` adds to the types: without a rollback the active version is the
last (`Linear`); a row was written under a version that declares its kind (`Valid`), so
that a row whose kind is gone was dropped in a version after its own (`Undeclared`); up
to the marker every drop is in the queue (`MarkerIsSound`), which a pass preserves
because it restores up to the version it read and no further (`Restoring`); and what the
queue calls done, or is about to, left no older row (`DoneMeansGone`). `NothingForgotten`
follows: a dropped row's drop is above the marker and absent, or queued and not done.
That the rows of a live kind are never deleted is `RemovalImplementsHistory`.

**Identity.** What is assumed: finitely many references, pairs of numbers (they stand for
a kind and an id, which the code compares as strings); no kind disjoint with itself
(`areDisjoint(kind, kind)` is false by construction in `service-components.ts`); and for
four of the theorems `~MixedBatches`: a fold takes new nodes of one kind. Every call but
an import does so, and disagreement 9 refutes the four without it; the tables are current
either way.

The proof works with links, not assertions: `Reach(links, r)` is the least set around `r`
closed under the links, which is `IdentityLedger`'s class of `r`.

- *The union-find.* `Components` folds `Union` over a set of pairs, and is the partition
  into classes (`ComponentsPartition`). The induction is over the subsets of the finite set
  that is folded, taken as a set of counterexamples with a least element (`LeastSubset`), since
  the library's induction rules take an operator. The loops of bulk calls and imports go by
  induction on the length likewise (`Numbers`).
- *Repairs.* `Current(D)`: closure and separation of a draft are those of its links and
  its ledger. `ReplaceAffectedClosure`, `MergeClasses` and the separation rewrites each touch
  an area; the tables are current afterwards if the area is closed under the links, before
  and after (`ClosureRepaired`, `ReferencesRepaired`). Each frame's area is: the classes
  of the endpoints as the tables show them, plus what the union-find added. The deletion that
  skips the repair is right because a live node without closure row and without assertions is
  linked to nothing. So `Stays == Current(Draft)` is an invariant, by itself.
- *Validation.* `Bad(D, asserted)`: asserting so much would contradict. If the tables are
  current and the ledger holds together, `Contradicts` decides it for one assertion
  (`ProbesExact`), the union-find of a bulk call, which looks at the classes of the request
  only, for a whole request (`BulkExact`: what is outside of the area cannot matter, lemma
  `LocalClasses`), and `IntegrityHolds` for a snapshot (`IntegrityExact`).
- *Folds.* `FoldNodes` probes each new node against tables that have none of the others.
  New nodes of one kind have distinct ids, so each is linked to the peers of its own id
  only, and two of them can meet in one class only if they met before through their peers,
  where their one kind was already compared with all of the class (`FoldHolds`). With two
  kinds that last step fails, which is disagreement 9.

`Steady == Stays /\ Holds(Draft)` is then an invariant, with one lemma per frame
(`BulkMoves`, `ImportMoves`, ...) that also names the step of the promise it is, for a
commit as for a refusal. `RepairCommits` is why `aborted` never occurs: a repair breaks a
constraint of the tables only where a `different` lies within a class.
`PromiseIsConsistent` says that the promise is worth implementing: what contradicts still
contradicts when nodes and assertions are added (`ContradictionsGrow`), so steps that
only remove cannot hurt, and every other step checks its result.

**Model-checked only.** Liveness (`OperationsEnd`, `UnitsSettle`, `TransactionEnds`,
`SettledEnds`, `SchemaWritesEnd`, `DroppedKindsReclaimed`), since fairness and ENABLED are
beyond the prover. Every other property of a passing run is stated by a theorem.

## 5. What is not modelled, and why

- *Edges*: batches of several edges in one operation, and so the deadlock of two imports
  that take the same claims in opposite orders; the cascade of a node's removal (which
  `RecordedCapture` has); valid-time windows other than the end `oneActive` looks at.
- *Nodes*: several kinds, disjointness claims and the legacy axes, set updates, batches,
  validity fences. Two writers of one node that owes keys, on a store without history and
  without cross-kind constraints, are excluded from `claims_seam`: two concurrent updates
  then lose one another's patch, a soft delete releases the keys of the row it read before
  a peer moved it (`node-operations.ts:2190`), and a lost revival is disagreement 8. With
  tracking on, every one of these writes holds the graph lock.
- *Capture*: the wall time that goes with a revision (`recorded-capture/clock.ts:266`);
  set updates, batches, identity rows, several graphs in one flush. SQLite has one writer
  at a time, so the interleavings of `RecordedCapture` reduce to those inside a transaction.
- *Write frames*: savepoints against the memo of the graph lock
  (`store/operations/write-transaction.ts:118` declares nested transactions outside its
  contract); a frame that fails half-way and is caught (`write-transaction.ts:379`).
- *Schema*: how a migration is classified and a document serialized, pure functions of
  data; index and contribution builds, whose markers stand beside engine DDL.
- *Identity*: validity windows, ended assertions, reads of the past, provisioning and the
  readiness memo, and the window validation of imports.
- *Merge*: clustering and conflict resolution (data), edges, identity and provenance of a
  merge, `planMergeIncremental`, hard deletes on a branch, untracked targets.
- *SQLite's queue* (`backend/drizzle/sqlite.ts:482-520`): a promise chain whose order is
  that of `StatementQueue`, with two early returns of its own.
- *Query compilation, algorithms, ontology closures, exports, profiles*: pure functions
  to SQL text or of data, without interleavings. They are most of the repository's lines.

## 6. Plan

1. `EdgeCardinality`, `EdgeAxis`, proofs: **built**, every safety property a theorem.
2. `StatementQueue`, proofs: **built**, likewise.
3. `SchemaFence`, `KindRemoval`, proofs: **built**, likewise.
4. `IdentityLedger`, `IdentityClasses`, proofs: **built**, every property a theorem.
5. `RecordedCapture`, `RecordedLedger`, proofs: **built**, every safety property a theorem.
6. `NodeClaims`, `MergeCommit`, proofs: **built**, every safety property a theorem.
7. Not built: the write frame of stores with revision tracking and no history, whose
   clock moves only if a frame returned; disjointness claims of nodes; the edge part of a
   merge; a checked operator for the union-find of `graph-merge/union-find.ts`.

## 7. Running it

    tlc -workers 2 -config MCEdgeCardinality_fenced.cfg MCEdgeCardinality
    tlc -workers 2 -config MCSchemaFence.cfg MCSchemaFence
    tlc -workers 2 -config MCKindRemoval_removal.cfg MCKindRemoval
    tlc -workers 2 -config MCIdentityClasses_classes.cfg MCIdentityClasses
    tlapm SchemaFenceProofs.tla

and so on for the other configurations and the other `*Proofs` modules. A run takes from
seconds to about two minutes, a proof module from seconds to about seven minutes
(`IdentityClassesProofs`). `PROJECT.json` lists the runs, what each checks, the
lines each definition models, the hazards and the theorems; for each property it also
names a changed definition (marked "Mutant of" in the modules, and used by nothing else)
under which TLC finds the property violated.
