-------------------------- MODULE SchemaFenceProofs --------------------------
(***************************************************************************)
(* What the schema fence guarantees for any writers, committers, kinds and *)
(* bounds.                                                                 *)
(***************************************************************************)
EXTENDS SchemaFence, TLAPS

\* What a writer holds refers to versions that exist.
Grounded ==
    \A w \in Writers :
        pinned[w] \in Versions /\ awaited[w] \in Versions /\ shares[w] \subseteq Versions

\* A writer stages rows of kinds its version declares.
Valid ==
    \A w \in Writers : \A r \in staged[w] :
        r.version = pinned[w] /\ r.kind \in history[pinned[w]]

\* Admitted work is covered by a share lock on the active row.
Held ==
    \A w \in Writers : (staged[w] # {} \/ phase[w] = "fenced") =>
        active = pinned[w] /\ active \in shares[w]

\* A savepoint holds no more than the transaction, and covers what it keeps.
Saved ==
    \A w \in Writers : savepoint[w] # None =>
        /\ savepoint[w].shares \subseteq shares[w]
        /\ savepoint[w].staged \subseteq staged[w]
        /\ savepoint[w].staged # {} => active \in savepoint[w].shares

\* An idle writer holds nothing.
AtRest ==
    \A w \in Writers : phase[w] = "idle" => shares[w] = {} /\ staged[w] = {}

\* Past the queue, a schema write holds the advisory lock.
Locked ==
    \A c \in Committers : step[c] \notin {"idle", "queued"} <=> schemaLock = c

\* Once it decides, nobody shares the active row; once it has deactivated the
\* rows, nobody shares any.
Drained ==
    \A c \in Committers, w \in Writers :
        /\ step[c] \in {"deciding", "flipping"} => active \notin shares[w]
        /\ step[c] = "flipped" => shares[w] = {}

\* A schema write in progress was computed from a version that exists.
Proposed ==
    \A c \in Committers : step[c] # "idle" =>
        /\ task[c] \in Task
        /\ task[c].base \in Versions
        /\ task[c].kind # "activate" => task[c].version = task[c].base + 1
        /\ task[c].kind = "activate" =>
              task[c].version \in Versions /\ task[c].document = history[task[c].version]

\* What a schema write decided stays true until it commits.
Decided ==
    \A c \in Committers : step[c] \in {"flipping", "flipped"} =>
        /\ task[c].base = active
        /\ Exists(task[c]) => history[task[c].version] = task[c].document
        /\ task[c].kind = "guarded" =>
              \A r \in rows : r.kind \notin history[active] \ task[c].document

\* Until its first refusal, a prudent transaction shares the active row only.
Prudent ==
    \A w \in Writers \ Careless : phase[w] # "refused" => shares[w] \subseteq {active}

WriterInv == Grounded /\ Valid /\ Held /\ Saved /\ AtRest /\ Prudent
CommitterInv == Locked /\ Proposed /\ Decided
Inv == TypeOK /\ WriterInv /\ Drained /\ CommitterInv

USE DEF Document, Versions, RowOf, Task, Savepoint, Phases, Steps

-----------------------------------------------------------------------------
\* The parts hold at the start.
LEMMA InitInv == Init => Inv
<1> SUFFICES ASSUME Init PROVE Inv
  OBVIOUS
<1> USE BoundsAssumption, MarkersAssumption DEF Init
<1>1. PICK document \in Document : history = <<document>>
  OBVIOUS
<1>2. TypeOK
  BY <1>1 DEF TypeOK
<1>3. WriterInv
  BY <1>1 DEF WriterInv, Grounded, Valid, Held, Saved, AtRest, Prudent
<1>4. Drained
  BY DEF Drained
<1>5. CommitterInv
  BY DEF CommitterInv, Locked, Proposed, Decided
<1> QED
  BY <1>2, <1>3, <1>4, <1>5 DEF Inv

\* A writer's step other than a commit leaves the schema writes as they were.
LEMMA CommitterInvKept ==
    ASSUME CommitterInv, UNCHANGED <<schemaVars, rows, committerVars>>
    PROVE  CommitterInv'
BY DEF CommitterInv, Locked, Proposed, Decided, Exists, schemaVars, committerVars

\* A schema write's step other than its commit leaves the writers as they were.
LEMMA WriterInvKept ==
    ASSUME WriterInv, UNCHANGED <<schemaVars, writerVars>>
    PROVE  WriterInv'
BY DEF WriterInv, Grounded, Valid, Held, Saved, AtRest, Prudent, schemaVars, writerVars

\* Giving locks up keeps the schema writes drained.
LEMMA DrainedKept ==
    ASSUME Drained, UNCHANGED <<schemaVars, step>>,
           \A w \in Writers : shares'[w] \subseteq shares[w]
    PROVE  Drained'
BY DEF Drained, schemaVars

\* Ending a transaction restores its writer to rest.
LEMMA EndTransactionStep ==
    ASSUME Inv, NEW w \in Writers, EndTransaction(w),
           UNCHANGED <<schemaVars, committerVars, started>>
    PROVE  WriterInv' /\ Drained'
<1> USE DEF EndTransaction, schemaVars
<1> TypeOK /\ WriterInv /\ Drained
  BY DEF Inv
<1>1. WriterInv'
  <2>1. Grounded' /\ Valid' /\ AtRest'
    BY DEF TypeOK, WriterInv, Grounded, Valid, AtRest
  <2>2. Held'
    BY DEF TypeOK, WriterInv, Held
  <2>3. Saved'
    BY DEF TypeOK, WriterInv, Saved
  <2>4. Prudent'
    BY DEF TypeOK, WriterInv, Prudent
  <2> QED
    BY <2>1, <2>2, <2>3, <2>4 DEF WriterInv
<1>2. Drained'
  BY DrainedKept DEF TypeOK, committerVars
<1> QED
  BY <1>1, <1>2

-----------------------------------------------------------------------------
\* Each step of a writer preserves the invariant.
LEMMA WriterStep ==
    ASSUME Inv, TypeOK', NEW w \in Writers, WriterNext(w)
    PROVE  Inv'
<1> TypeOK /\ WriterInv /\ Drained /\ CommitterInv
  BY DEF Inv
<1> USE DEF TypeOK, schemaVars, committerVars
<1> SUFFICES WriterInv' /\ Drained' /\ CommitterInv'
  BY DEF Inv
<1>1. CASE Begin(w)
  <2> USE <1>1 DEF Begin
  <2>1. Grounded' /\ AtRest'
    BY DEF WriterInv, Grounded, AtRest
  <2>2. Valid'
    BY DEF WriterInv, Valid, AtRest
  <2>3. Held' /\ Prudent'
    BY CarelessAssumption DEF WriterInv, Held, AtRest, Prudent
  <2>4. Saved'
    BY DEF WriterInv, Saved
  <2> QED
    BY <2>1, <2>2, <2>3, <2>4, CommitterInvKept, DrainedKept DEF WriterInv
<1>2. CASE LockSchemaVersionForWrite(w)
  <2> USE <1>2 DEF LockSchemaVersionForWrite
  <2>1. Grounded' /\ AtRest'
    BY DEF WriterInv, Grounded, AtRest
  <2>2. Valid' /\ Saved'
    BY DEF WriterInv, Valid, Saved
  <2>3. Held' /\ Prudent'
    BY CarelessAssumption DEF WriterInv, Held, Prudent
  <2> QED
    BY <2>1, <2>2, <2>3, CommitterInvKept, DrainedKept DEF WriterInv
<1>3. CASE FenceAnswers(w)
  <2> USE <1>3 DEF FenceAnswers, AfterRefusal, Admitted
  <2>1. Grounded' /\ AtRest'
    BY DEF WriterInv, Grounded, AtRest
  <2>2. Valid'
    BY DEF WriterInv, Valid
  <2>3. Saved'
    BY DEF WriterInv, Saved
  <2>4. Held' /\ Prudent'
    BY CarelessAssumption DEF WriterInv, Held, Prudent
  <2>5. ASSUME NEW c \in Committers PROVE awaited[w] \notin ExclusiveRows(c)
    BY DEF LockedExclusively
  <2>6. Drained'
    BY <2>5 DEF Drained, ExclusiveRows, LocksActiveRow, WriterInv, Grounded
  <2> QED
    BY <2>1, <2>2, <2>3, <2>4, <2>6, CommitterInvKept DEF WriterInv
<1>4. CASE WriteRow(w)
  <2> USE <1>4 DEF WriteRow, AfterWrite
  <2>1. Grounded' /\ AtRest'
    BY DEF WriterInv, Grounded, AtRest
  <2>2. Valid'
    BY DEF WriterInv, Valid
  <2>3. Saved'
    BY DEF WriterInv, Saved
  <2>4. Held' /\ Prudent'
    BY CarelessAssumption DEF WriterInv, Held, Prudent
  <2> QED
    BY <2>1, <2>2, <2>3, <2>4, CommitterInvKept, DrainedKept DEF WriterInv
<1>5. CASE GoOn(w)
  <2> USE <1>5 DEF GoOn
  <2>1. Grounded' /\ AtRest'
    BY DEF WriterInv, Grounded, AtRest
  <2>2. Valid' /\ Saved'
    BY DEF WriterInv, Valid, Saved
  <2>3. Held' /\ Prudent'
    BY CarelessAssumption DEF WriterInv, Held, Prudent
  <2> QED
    BY <2>1, <2>2, <2>3, CommitterInvKept, DrainedKept DEF WriterInv
<1>6. CASE MarkSavepoint(w)
  <2> USE <1>6 DEF MarkSavepoint
  <2>1. Grounded' /\ AtRest'
    BY DEF WriterInv, Grounded, AtRest
  <2>2. Valid' /\ Held' /\ Prudent'
    BY DEF WriterInv, Valid, Held, Prudent
  <2>3. Saved'
    BY DEF WriterInv, Saved, Held
  <2> QED
    BY <2>1, <2>2, <2>3, CommitterInvKept, DrainedKept DEF WriterInv
<1>7. CASE RollbackToSavepoint(w)
  <2> USE <1>7 DEF RollbackToSavepoint, AfterWrite
  <2>0. savepoint[w].shares \subseteq shares[w] /\ savepoint[w].staged \subseteq staged[w]
    BY DEF WriterInv, Saved
  <2>1. Grounded' /\ AtRest'
    BY <2>0 DEF WriterInv, Grounded, AtRest
  <2>2. Valid'
    BY <2>0 DEF WriterInv, Valid
  <2>3. Saved'
    BY DEF WriterInv, Saved
  <2>4. Held'
    BY <2>0 DEF WriterInv, Saved, Held
  <2>5. Prudent'
    BY <2>0, CarelessAssumption DEF WriterInv, Prudent
  <2>6. \A x \in Writers : shares'[x] \subseteq shares[x]
    BY <2>0
  <2> QED
    BY <2>1, <2>2, <2>3, <2>4, <2>5, <2>6, CommitterInvKept, DrainedKept DEF WriterInv
<1>8. CASE Commit(w)
  <2>1. WriterInv' /\ Drained'
    BY <1>8, EndTransactionStep DEF Commit
  <2>2. CASE staged[w] = {}
    BY <2>1, <2>2, <1>8, CommitterInvKept DEF Commit
  <2>3. CASE staged[w] # {}
    <3>1. active \in shares[w]
      BY <2>3 DEF WriterInv, Held
    <3>2. \A c \in Committers : step[c] \notin {"deciding", "flipping", "flipped"}
      BY <3>1 DEF Drained
    <3>3. CommitterInv'
      BY <3>2, <1>8 DEF Commit, CommitterInv, Locked, Proposed, Decided
    <3> QED
      BY <2>1, <3>3
  <2> QED
    BY <2>2, <2>3
<1>9. CASE Rollback(w)
  BY <1>9, EndTransactionStep, CommitterInvKept DEF Rollback
<1> QED
  BY <1>1, <1>2, <1>3, <1>4, <1>5, <1>6, <1>7, <1>8, <1>9 DEF WriterNext

-----------------------------------------------------------------------------
\* The lock a schema write ends with, and the others it leaves alone.
LEMMA EndSchemaWriteStep ==
    ASSUME TypeOK, CommitterInv, NEW c \in Committers, EndSchemaWrite(c),
           UNCHANGED <<schemaVars, rows>>
    PROVE  CommitterInv'
BY MarkersAssumption
DEF TypeOK, EndSchemaWrite, LockAfter, CommitterInv, Locked, Proposed, Decided, Exists, schemaVars

\* Ending a schema write keeps the others drained.
LEMMA EndSchemaWriteDrained ==
    ASSUME TypeOK, Drained, NEW c \in Committers, EndSchemaWrite(c),
           UNCHANGED <<schemaVars, shares>>
    PROVE  Drained'
BY DEF TypeOK, EndSchemaWrite, Drained, schemaVars

\* The version a schema write activates exists once it has committed, and holds
\* the document it was given.
LEMMA Activated ==
    ASSUME Inv, NEW c \in Committers, CommitSchemaWrite(c)
    PROVE  /\ history' \in Seq(Document)
           /\ active' \in 1..Len(history')
           /\ history'[active'] = task[c].document
           /\ Len(history) <= Len(history')
           /\ \A v \in Versions : history'[v] = history[v]
           /\ task[c].kind = "activate" => history' = history
<1> USE DEF Inv, CommitSchemaWrite, HistoryAfter, Exists
<1>1. /\ history \in Seq(Document)
      /\ task[c] \in Task
      /\ task[c].base \in Versions
      /\ task[c].kind # "activate" => task[c].version = task[c].base + 1
      /\ task[c].kind = "activate" =>
            task[c].version \in Versions /\ task[c].document = history[task[c].version]
  BY DEF TypeOK, CommitterInv, Proposed
<1>2. Exists(task[c]) => history[task[c].version] = task[c].document
  BY DEF CommitterInv, Decided
<1>3. CASE Exists(task[c])
  BY <1>1, <1>2, <1>3
<1>4. CASE ~Exists(task[c])
  <2>1. task[c].version = Len(history) + 1
    BY <1>1, <1>4
  <2>2. history' = Append(history, task[c].document)
    BY <1>4
  <2> QED
    BY <1>1, <1>4, <2>1, <2>2
<1> QED
  BY <1>3, <1>4

\* Each step of a schema write preserves the invariant.
LEMMA CommitterStep ==
    ASSUME Inv, TypeOK', NEW c \in Committers, CommitterNext(c)
    PROVE  Inv'
<1> TypeOK /\ WriterInv /\ Drained /\ CommitterInv
  BY DEF Inv
<1> USE DEF TypeOK, schemaVars, writerVars
<1> SUFFICES WriterInv' /\ Drained' /\ CommitterInv'
  BY DEF Inv
<1>1. CASE StartSchemaWrite(c)
  <2> USE <1>1 DEF StartSchemaWrite
  <2>1. /\ task'[c] \in Task
        /\ task'[c].base \in Versions
        /\ task'[c].kind # "activate" => task'[c].version = task'[c].base + 1
        /\ task'[c].kind = "activate" =>
              task'[c].version \in Versions /\ task'[c].document = history[task'[c].version]
    BY DEF Propose
  <2>2. Proposed'
    BY <2>1 DEF CommitterInv, Proposed
  <2>3. Locked' /\ Decided'
    BY DEF CommitterInv, Locked, Decided, Exists
  <2>4. Drained'
    BY DEF Drained
  <2> QED
    BY <2>2, <2>3, <2>4, WriterInvKept DEF CommitterInv
<1>2. CASE TakeSchemaLock(c)
  <2> USE <1>2 DEF TakeSchemaLock
  <2>1. Locked'
    BY MarkersAssumption DEF CommitterInv, Locked
  <2>2. Proposed' /\ Decided' /\ Drained'
    BY DEF CommitterInv, Proposed, Decided, Exists, Drained
  <2> QED
    BY <2>1, <2>2, WriterInvKept DEF CommitterInv
<1>3. CASE LockActiveRow(c)
  <2> USE <1>3 DEF LockActiveRow
  <2>1. \A w \in Writers : active \notin shares[w]
    BY DEF BlockedBy, Drains
  <2>2. Drained'
    BY <2>1 DEF Drained
  <2>3. CommitterInv'
    BY DEF CommitterInv, Locked, Proposed, Decided, Exists
  <2> QED
    BY <2>2, <2>3, WriterInvKept
<1>4. CASE Decide(c)
  <2> USE <1>4 DEF Decide
  <2>1. CASE Proceeds(task[c])
    <3> USE <2>1
    <3>1. /\ task[c].base = active
          /\ Exists(task[c]) => history[task[c].version] = task[c].document
          /\ task[c].kind = "guarded" =>
                \A r \in rows : r.kind \notin history[active] \ task[c].document
      BY DEF Proceeds, ExpectedActive, Conflicts, Populated, Dropped, CommitterInv, Proposed
    <3>2. Decided'
      BY <3>1 DEF CommitterInv, Decided, Exists
    <3>3. Proposed'
      BY DEF CommitterInv, Proposed
    <3>4. Locked'
      BY DEF CommitterInv, Locked
    <3>5. Drained'
      BY DEF Drained
    <3> QED
      BY <3>2, <3>3, <3>4, <3>5, WriterInvKept DEF CommitterInv
  <2>2. CASE ~Proceeds(task[c])
    BY <2>2, WriterInvKept, EndSchemaWriteStep, EndSchemaWriteDrained
  <2> QED
    BY <2>1, <2>2
<1>5. CASE DeactivateAll(c)
  <2> USE <1>5 DEF DeactivateAll
  <2>1. \A w \in Writers : shares[w] = {}
    BY DEF BlockedBy, Drains, WriterInv, Grounded
  <2>2. Drained'
    BY <2>1 DEF Drained
  <2>3. CommitterInv'
    BY DEF CommitterInv, Locked, Proposed, Decided, Exists
  <2> QED
    BY <2>2, <2>3, WriterInvKept
<1>6. CASE CommitSchemaWrite(c)
  <2>2. /\ Len(history) <= Len(history')
        /\ \A v \in Versions : history'[v] = history[v] /\ v \in 1..Len(history')
    <3>1. /\ history' \in Seq(Document)
          /\ Len(history) <= Len(history')
          /\ \A v \in Versions : history'[v] = history[v]
      BY <1>6, Activated
    <3> QED
      BY <3>1
  <2> USE <1>6 DEF CommitSchemaWrite, EndSchemaWrite
  <2>1. \A w \in Writers : shares[w] = {} /\ staged[w] = {} /\ phase[w] # "fenced"
    BY DEF Drained, WriterInv, Held
  <2>3. Drained'
    BY <2>1 DEF Drained
  <2>4. WriterInv'
    <3>1. Grounded' /\ Valid' /\ Held' /\ AtRest' /\ Prudent'
      BY <2>1, <2>2 DEF WriterInv, Grounded, Valid, Held, AtRest, Prudent
    <3>2. Saved'
      BY <2>1 DEF WriterInv, Saved
    <3> QED
      BY <3>1, <3>2 DEF WriterInv
  <2>5. schemaLock = c /\ \A x \in Committers \ {c} : step[x] \in {"idle", "queued"}
    BY DEF CommitterInv, Locked
  <2>6. Locked' /\ Decided'
    BY <2>5, MarkersAssumption DEF CommitterInv, Locked, Decided, LockAfter
  <2>7. Proposed'
    BY <2>2 DEF CommitterInv, Proposed
  <2> QED
    BY <2>3, <2>4, <2>6, <2>7 DEF CommitterInv
<1>7. CASE AbortSchemaWrite(c)
  BY <1>7, WriterInvKept, EndSchemaWriteStep, EndSchemaWriteDrained DEF AbortSchemaWrite
<1> QED
  BY <1>1, <1>2, <1>3, <1>4, <1>5, <1>6, <1>7 DEF CommitterNext

-----------------------------------------------------------------------------
\* A writer's step keeps every variable in its type.
LEMMA WriterTypes ==
    ASSUME Inv, NEW w \in Writers, WriterNext(w)
    PROVE  TypeOK'
<1> TypeOK /\ Grounded /\ Valid
  BY DEF Inv, WriterInv
<1> USE BoundsAssumption DEF TypeOK, schemaVars, committerVars
<1>1. CASE Begin(w)
  BY <1>1 DEF Begin
<1>2. CASE LockSchemaVersionForWrite(w)
  BY <1>2 DEF LockSchemaVersionForWrite
<1>3. CASE FenceAnswers(w)
  BY <1>3 DEF FenceAnswers, AfterRefusal
<1>4. CASE WriteRow(w)
  <2> USE <1>4 DEF WriteRow, AfterWrite
  <2>1. PICK k \in history[pinned[w]] :
           staged' = [staged EXCEPT ![w] = @ \cup {RowOf(k, pinned[w])}]
    OBVIOUS
  <2>2. history[pinned[w]] \in Document
    BY DEF Grounded
  <2>3. RowOf(k, pinned[w]) \in [kind : Kinds, version : Nat]
    BY <2>1, <2>2
  <2>4. staged' \in [Writers -> SUBSET [kind : Kinds, version : Nat]]
    BY <2>1, <2>3
  <2> QED
    BY <2>4
<1>5. CASE GoOn(w)
  BY <1>5 DEF GoOn
<1>6. CASE MarkSavepoint(w)
  BY <1>6 DEF MarkSavepoint
<1>7. CASE RollbackToSavepoint(w)
  BY <1>7 DEF RollbackToSavepoint, AfterWrite
<1>8. CASE Commit(w)
  BY <1>8 DEF Commit, EndTransaction
<1>9. CASE Rollback(w)
  BY <1>9 DEF Rollback, EndTransaction
<1> QED
  BY <1>1, <1>2, <1>3, <1>4, <1>5, <1>6, <1>7, <1>8, <1>9 DEF WriterNext

\* A schema write's step keeps every variable in its type.
LEMMA CommitterTypes ==
    ASSUME Inv, NEW c \in Committers, CommitterNext(c)
    PROVE  TypeOK'
<1> TypeOK
  BY DEF Inv
<1> USE BoundsAssumption DEF TypeOK, schemaVars, writerVars
<1>1. CASE StartSchemaWrite(c)
  BY <1>1 DEF StartSchemaWrite
<1>2. CASE TakeSchemaLock(c)
  BY <1>2 DEF TakeSchemaLock
<1>3. CASE LockActiveRow(c)
  BY <1>3 DEF LockActiveRow
<1>4. CASE Decide(c)
  BY <1>4 DEF Decide, EndSchemaWrite, LockAfter
<1>5. CASE DeactivateAll(c)
  BY <1>5 DEF DeactivateAll
<1>6. CASE CommitSchemaWrite(c)
  <2>1. history' \in Seq(Document) /\ active' \in 1..Len(history')
    BY <1>6, Activated
  <2> QED
    BY <1>6, <2>1 DEF CommitSchemaWrite, EndSchemaWrite, LockAfter
<1>7. CASE AbortSchemaWrite(c)
  BY <1>7 DEF AbortSchemaWrite, EndSchemaWrite, LockAfter
<1> QED
  BY <1>1, <1>2, <1>3, <1>4, <1>5, <1>6, <1>7 DEF CommitterNext

\* Breaking a cycle ends one of the two.
LEMMA BreakCycleStep ==
    ASSUME Inv, NEW w \in Writers, NEW c \in Committers, BreakCycle(w, c)
    PROVE  Inv'
<1> TypeOK /\ WriterInv /\ Drained /\ CommitterInv
  BY DEF Inv
<1>1. CASE EndTransaction(w) /\ UNCHANGED <<committerVars, schemaVars, rows, started>>
  <2>1. TypeOK'
    BY <1>1, BoundsAssumption DEF TypeOK, EndTransaction, schemaVars, committerVars
  <2> QED
    BY <1>1, <2>1, EndTransactionStep, CommitterInvKept DEF Inv
<1>2. CASE EndSchemaWrite(c) /\ UNCHANGED <<writerVars, schemaVars, rows, started>>
  <2>1. TypeOK'
    BY <1>2 DEF TypeOK, EndSchemaWrite, LockAfter, schemaVars, writerVars
  <2>2. UNCHANGED shares
    BY <1>2 DEF writerVars
  <2> QED
    BY <1>2, <2>1, <2>2, WriterInvKept, EndSchemaWriteStep, EndSchemaWriteDrained DEF Inv
<1> QED
  BY <1>1, <1>2 DEF BreakCycle

LEMMA StepInv == Inv /\ [Next]_vars => Inv'
<1> SUFFICES ASSUME Inv, [Next]_vars PROVE Inv'
  OBVIOUS
<1>1. CASE UNCHANGED vars
  <2>1. TypeOK'
    BY <1>1 DEF Inv, TypeOK, vars, schemaVars, writerVars, committerVars
  <2>2. UNCHANGED <<schemaVars, rows, writerVars, committerVars, step, shares>>
    BY <1>1 DEF vars, committerVars, writerVars
  <2> QED
    BY <2>1, <2>2, WriterInvKept, CommitterInvKept, DrainedKept DEF Inv
<1>2. ASSUME NEW w \in Writers, WriterNext(w) PROVE Inv'
  BY <1>2, WriterTypes, WriterStep
<1>3. ASSUME NEW c \in Committers, CommitterNext(c) PROVE Inv'
  BY <1>3, CommitterTypes, CommitterStep
<1>4. ASSUME NEW w \in Writers, NEW c \in Committers, BreakCycle(w, c) PROVE Inv'
  BY <1>4, BreakCycleStep
<1> QED
  BY <1>1, <1>2, <1>3, <1>4 DEF Next

-----------------------------------------------------------------------------
\* For any writers, committers and bounds, the invariant holds throughout.
LEMMA InvHolds == Spec => []Inv
<1>1. Init => Inv
  BY InitInv
<1>2. Inv /\ [Next]_vars => Inv'
  BY StepInv
<1> QED
  BY <1>1, <1>2, PTL DEF Spec

\* Every variable keeps its type.
THEOREM TypesHold == Spec => []TypeOK
<1>1. Inv => TypeOK
  BY DEF Inv
<1> QED
  BY <1>1, InvHolds, PTL

\* A transaction with rows to commit still shares the active row, and the
\* version that validated them is the active one.
THEOREM StagedRowsAreFenced == Spec => []StagedUnderActive
<1>1. Inv => StagedUnderActive
  BY DEF Inv, WriterInv, Held, StagedUnderActive
<1> QED
  BY <1>1, InvHolds, PTL

\* A transaction that ends at its first refusal never waits for a schema write
\* that waits for it: the fence's single locking read is enough.
THEOREM PrudentWritersNeverDeadlock == Spec => []PrudentNeverInCycle
<1>1. Inv => PrudentNeverInCycle
  <2> SUFFICES ASSUME Inv, NEW w \in Writers \ Careless, NEW c \in Committers, InCycle(w, c)
               PROVE  FALSE
    BY DEF PrudentNeverInCycle
  <2> USE DEF InCycle
  <2>1. shares[w] \subseteq {active}
    BY DEF Inv, WriterInv, Prudent
  <2>2. step[c] \in {"deciding", "flipping", "flipped"}
    BY DEF ExclusiveRows, LocksActiveRow
  <2>3. shares[w] = {}
    BY <2>1, <2>2 DEF Inv, Drained
  <2> QED
    BY <2>3 DEF BlockedBy
<1> QED
  BY <1>1, InvHolds, PTL

\* What a step does to the rows, the history and the mark: a writer commits the
\* rows it staged, or a schema write moves the mark.
LEMMA StepEffect ==
    ASSUME Inv, [Next]_vars
    PROVE  \/ UNCHANGED <<history, active, rows>>
           \/ /\ UNCHANGED <<history, active>>
              /\ \E w \in Writers : rows' = rows \cup staged[w]
           \/ /\ UNCHANGED rows
              /\ \E c \in Committers : CommitSchemaWrite(c)
BY DEF Next, WriterNext, CommitterNext, vars, schemaVars, Begin, LockSchemaVersionForWrite,
       FenceAnswers, WriteRow, GoOn, MarkSavepoint, RollbackToSavepoint, Commit, Rollback,
       StartSchemaWrite, TakeSchemaLock, LockActiveRow, Decide, DeactivateAll,
       CommitSchemaWrite, AbortSchemaWrite, BreakCycle

\* Staged rows are rows the active version admits.
LEMMA StagedRows ==
    ASSUME Inv, NEW w \in Writers, NEW r \in staged[w]
    PROVE  r.version = active /\ r.kind \in history[active]
BY DEF Inv, WriterInv, Valid, Held

\* Rows enter a graph only under the active version, and of kinds it declares.
THEOREM WritesAreFenced == Spec => FencedWrites
<1>1. ASSUME Inv, [Next]_vars, NEW r \in rows' \ rows
      PROVE  r.version = active /\ r.kind \in history[active]
  BY <1>1, StepEffect, StagedRows DEF CommitSchemaWrite
<1>2. Inv /\ [Next]_vars =>
        [\A r \in rows' \ rows : r.version = active /\ r.kind \in history[active]]_vars
  BY <1>1
<1> QED
  BY <1>2, InvHolds, PTL DEF Spec, FencedWrites

\* The mark moves only from the version the schema write was computed from.
THEOREM SchemaWritesAreSerial == Spec => MovesFromItsBase
<1>1. Inv => \A c \in Committers : step[c] = "flipped" => task[c].base = active
  BY DEF Inv, CommitterInv, Decided
<1>2. Inv => [\A c \in Committers :
                (step[c] = "flipped" /\ active' # active) => task[c].base = active]_vars
  BY <1>1
<1> QED
  BY <1>2, InvHolds, PTL DEF Spec, MovesFromItsBase

\* A guarded migration strands no row, committed or about to be.
THEOREM GuardedDropIsSafe == Spec => GuardedDropStrandsNothing
<1>1. ASSUME Inv, [Next]_vars, NEW c \in Committers,
             step[c] = "flipped", task[c].kind = "guarded", active' # active, schemaLock = c
      PROVE  /\ \A r \in rows : r.kind \notin history[active] \ history'[active']
             /\ \A w \in Writers : staged[w] = {}
  <2>1. PICK x \in Committers : CommitSchemaWrite(x)
    BY <1>1, StepEffect
  <2>2. x = c
    BY <1>1, <2>1 DEF CommitSchemaWrite, Inv, CommitterInv, Locked
  <2>3. history'[active'] = task[c].document
    BY <1>1, <2>1, <2>2, Activated
  <2>4. \A r \in rows : r.kind \notin history[active] \ task[c].document
    BY <1>1 DEF Inv, CommitterInv, Decided
  <2>5. \A w \in Writers : staged[w] = {}
    BY <1>1 DEF Inv, Drained, WriterInv, Held
  <2> QED
    BY <2>3, <2>4, <2>5
<1>2. Inv /\ [Next]_vars =>
        [\A c \in Committers :
            (/\ step[c] = "flipped" /\ task[c].kind = "guarded"
             /\ active' # active /\ schemaLock = c) =>
                /\ \A r \in rows : r.kind \notin history[active] \ history'[active']
                /\ \A w \in Writers : staged[w] = {}]_vars
  BY <1>1
<1> QED
  BY <1>2, InvHolds, PTL DEF Spec, GuardedDropStrandsNothing

\* The fence implements schema versioning: every commit of a transaction admits
\* rows, every commit of a schema write publishes or activates a version.
THEOREM FenceImplementsHistory == Spec => ImplementsHistory
<1>1. Init => Promise!Init
  BY DEF Init, Promise!Init, Promise!Document
<1>2. Inv /\ [Next]_vars => [Promise!Next]_<<history, active, rows>>
  <2> SUFFICES ASSUME Inv, [Next]_vars PROVE [Promise!Next]_<<history, active, rows>>
    OBVIOUS
  <2>1. ASSUME UNCHANGED <<history, active>>, NEW w \in Writers, rows' = rows \cup staged[w]
        PROVE  Promise!Next
    <3>1. staged[w] \subseteq [kind : Kinds, version : Nat]
      BY DEF Inv, TypeOK
    <3>2. \A r \in staged[w] : r = Promise!RowOf(r.kind, r.version)
      BY <3>1 DEF Promise!RowOf
    <3>3. staged[w] \subseteq {Promise!RowOf(k, active) : k \in history[active]}
      BY <3>2, StagedRows
    <3>4. Promise!Admit(staged[w])
      BY <2>1 DEF Promise!Admit
    <3> QED
      BY <3>3, <3>4 DEF Promise!Next
  <2>2. ASSUME UNCHANGED rows, NEW c \in Committers, CommitSchemaWrite(c)
        PROVE  Promise!Next
    <3>1. /\ task[c] \in Task
          /\ history \in Seq(Document)
          /\ task[c].base \in Versions
          /\ task[c].kind # "activate" => task[c].version = task[c].base + 1
          /\ task[c].kind = "activate" => task[c].version \in Versions
      BY <2>2 DEF Inv, TypeOK, CommitterInv, Proposed, CommitSchemaWrite
    <3>2. CASE Exists(task[c])
      <4>1. Promise!Activate(task[c].version)
        BY <2>2, <3>2 DEF CommitSchemaWrite, HistoryAfter, Promise!Activate
      <4> QED
        BY <3>2, <4>1 DEF Exists, Promise!Next
    <3>3. CASE ~Exists(task[c])
      <4>1. task[c].version = Len(history) + 1
        BY <3>1, <3>3 DEF Exists
      <4>2. history' = Append(history, task[c].document) /\ active' = task[c].version
        BY <2>2, <3>3 DEF CommitSchemaWrite, HistoryAfter
      <4>3. Promise!Publish(task[c].document)
        BY <2>2, <3>1, <4>1, <4>2 DEF Promise!Publish
      <4>4. task[c].document \in Promise!Document
        BY <3>1 DEF Promise!Document
      <4> QED
        BY <4>3, <4>4 DEF Promise!Next
    <3> QED
      BY <3>2, <3>3
  <2> QED
    BY <2>1, <2>2, StepEffect
<1> QED
  BY <1>1, <1>2, InvHolds, PTL DEF Spec, ImplementsHistory, Promise!Spec
=============================================================================
