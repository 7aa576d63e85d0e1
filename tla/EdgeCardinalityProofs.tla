----------------------- MODULE EdgeCardinalityProofs -----------------------
(***************************************************************************)
(* Type correctness of EdgeCardinality; the declared cardinality for every *)
(* workload whose admitting writers exclude one another, and for every     *)
(* workload in which claims alone must keep it; where claims name what     *)
(* counts; and that the writers implement the abstract axis.               *)
(***************************************************************************)
EXTENDS EdgeCardinality, TLAPS

\* The workloads in which every operation that can admit an edge holds the
\* graph write lock, or is alone in the database.
Serialized == CaptureEnabled \/ SingleWriter \/ "import" \notin Ops

\* Writer w is the only one that may admit edges.
Excludes(w) == inTxn[w] /\ (SingleWriter \/ graphLock = w)

\* What an operation may be at each of its phases.
PhaseOK ==
    \A w \in Writers :
        /\ phase[w] # "idle" => op[w] \in Operation
        /\ phase[w] \in {"reading", "diagnosing"} => op[w].kind \in Updates
        /\ phase[w] \in {"probing", "claiming", "takingOver"} =>
              op[w].kind \in Creates \cup Updates
        /\ phase[w] = "purging" => op[w].kind = "hardDelete"
        /\ /\ phase[w] \in {"probing", "claiming", "takingOver", "writing", "diagnosing"}
           /\ op[w].kind \in Updates
           => existing[w] # NoRow

TypeInv == TypeOK /\ PhaseOK

\* Who holds the lock, and that nothing is written outside a transaction.
LockInv ==
    /\ graphLock # Free => inTxn[graphLock]
    /\ SingleWriter => \A v, w \in Writers : inTxn[v] /\ inTxn[w] => v = w
    /\ \A w \in Writers :
          /\ phase[w] = "idle" => ~inTxn[w]
          /\ phase[w] \notin {"idle", "gated"} => inTxn[w]
          /\ phase[w] \notin {"idle", "gated"} /\ NeedsGraphWriteLock(op[w]) => graphLock = w
          /\ ~inTxn[w] => \A e \in Edges : edgeWrites[w][e] = Untouched

\* At most one open transaction has written a given edge row.
RowLocks ==
    \A v, w \in Writers : \A e \in Edges :
        v # w => edgeWrites[v][e] = Untouched \/ edgeWrites[w][e] = Untouched

\* new is old after writes that admit nothing: same endpoints, no revival,
\* no reopened window.
Decayed(new, old) ==
    \/ new = NoRow
    \/ /\ new # NoRow /\ old # NoRow
       /\ new.key = old.key
       /\ old.deleted => new.deleted
       /\ JoinsPopulation(new.validTo) => JoinsPopulation(old.validTo)

\* A writer that does not exclude the others has only retired rows.
RetireInv ==
    \A w \in Writers : ~Excludes(w) =>
        \A e \in Edges : edgeWrites[w][e] # Untouched => Decayed(edgeWrites[w][e], edges[e])

OneCounted(rows) ==
    \A d, e \in Edges :
        Counted(rows[d]) /\ Counted(rows[e]) /\ rows[d].key = rows[e].key => d = e

ViewInv ==
    /\ OneCounted(edges)
    /\ \A w \in Writers : Excludes(w) => OneCounted(EdgeView(w))

\* No edge but the operation's own is counted on its axis.
Vacant(w) ==
    \A e \in Edges \ {op[w].edge} : ~CountedOn(EdgeView(w)[e], TargetKey(w))

\* What an excluding writer concluded still holds when it writes: its row has
\* at most decayed since it was read, and its axis is still vacant.
Verdict(w) ==
    /\ /\ phase[w] \in {"probing", "claiming", "takingOver", "writing", "diagnosing"}
       /\ op[w].kind \in Updates
       => Decayed(EdgeView(w)[op[w].edge], existing[w])
    /\ /\ phase[w] \in {"claiming", "takingOver", "writing"}
       /\ op[w].kind \in Creates \cup Updates
       => Vacant(w) \/ ~JoinsPopulation(TargetEnd(w))

VerdictInv == \A w \in Writers : Excludes(w) => Verdict(w)

Retirement == RetireInv /\ ViewInv /\ VerdictInv

IInv == TypeInv /\ LockInv /\ RowLocks /\ Retirement

-----------------------------------------------------------------------------
(* Types. *)

LEMMA ViewType ==
    ASSUME TypeOK, NEW w \in Writers
    PROVE  /\ EdgeView(w) \in [Edges -> Row \cup {NoRow}]
           /\ ClaimView(w) \in [Keys -> Edges \cup {NoClaim}]
  BY DEF TypeOK, EdgeView, ClaimView

\* What a resurrection or update writes is a row.
LEMMA UpdatedRowType ==
    ASSUME NEW o \in Operation, o.kind \in Updates, NEW row \in Row
    PROVE  [deleted |-> FALSE, key |-> row.key, validTo |-> EffectiveEnd(o.end, row)] \in Row
  BY DEF Operation, EffectiveEnd, Row

EdgeWritesType == [Writers -> [Edges -> Row \cup {NoRow, Untouched}]]
ClaimWritesType == [Writers -> [Keys -> Edges \cup {NoClaim, Untouched}]]

\* One statement writes at most one edge row, one claim row and the phase.
LEMMA WriteEdgeType ==
    ASSUME TypeOK, NEW w \in Writers, NEW e \in Edges, NEW row \in Row \cup {NoRow},
           WriteEdge(w, e, row)
    PROVE  edgeWrites' \in EdgeWritesType
  BY DEF TypeOK, WriteEdge, EdgeWritesType

LEMMA WriteClaimType ==
    ASSUME TypeOK, NEW w \in Writers, NEW k \in Keys, NEW holder \in Edges \cup {NoClaim},
           WriteClaim(w, k, holder)
    PROVE  claimWrites' \in ClaimWritesType
  BY DEF TypeOK, WriteClaim, ClaimWritesType

LEMMA GotoType ==
    ASSUME TypeOK, NEW w \in Writers, NEW p \in Phases, Goto(w, p)
    PROVE  phase' \in [Writers -> Phases] /\ phase'[w] = p
  BY DEF TypeOK, Goto

\* A statement of row work leaves the committed rows and the frame alone.
LEMMA RowWorkType ==
    ASSUME TypeOK, NEW w \in Writers, UNCHANGED <<database, frame>>,
           phase' \in [Writers -> Phases],
           edgeWrites' \in EdgeWritesType, claimWrites' \in ClaimWritesType,
           existing' \in [Writers -> Row \cup {NoRow}], tries' \in [Writers -> 0..MaxTries]
    PROVE  TypeOK'
  BY DEF TypeOK, database, frame, EdgeWritesType, ClaimWritesType

LEMMA TypeInit == Init => TypeInv
  BY BoundAssumption DEF Init, TypeInv, TypeOK, PhaseOK, Phases, MaxTries

LEMMA TypeStep == TypeInv /\ [Next]_vars => TypeInv'
  <1> SUFFICES ASSUME TypeInv, [Next]_vars PROVE TypeInv'
    OBVIOUS
  <1> USE DEF TypeInv
  <1>1. ASSUME NEW w \in Writers, Gate(w) PROVE TypeInv'
    BY <1>1, BoundAssumption DEF Gate, TypeOK, PhaseOK, Phases, Goto, frame, database
  <1>2. ASSUME NEW w \in Writers, Begin(w) PROVE TypeInv'
    BY <1>2 DEF Begin, TypeOK, PhaseOK, Phases, FirstPhase, MaxTries, Goto, frame, database
  <1>3. ASSUME NEW w \in Writers, Read(w) PROVE TypeInv'
    <2>1. op[w] \in Operation /\ op[w].kind \in Updates /\ op[w].edge \in Edges
      BY <1>3 DEF Read, TypeOK, PhaseOK, Operation, Goto, frame, database
    <2>2. EdgeView(w)[op[w].edge] \in Row \cup {NoRow}
      BY <2>1, ViewType
    <2>3. TypeOK'
      BY <1>3, <2>2 DEF Read, TypeOK, Phases, MayUpdate, Goto, frame, database
    <2>4. PhaseOK'
      BY <1>3, <2>1 DEF Read, TypeOK, PhaseOK, MayUpdate, Goto, frame, database
    <2> QED
      BY <2>3, <2>4
  <1>4. ASSUME NEW w \in Writers, Probe(w) PROVE TypeInv'
    <2>1. TypeOK'
      BY <1>4 DEF Probe, TypeOK, Phases, Goto, frame, database
    <2>2. PhaseOK'
      BY <1>4 DEF Probe, TypeOK, PhaseOK, Goto, frame, database
    <2> QED
      BY <2>1, <2>2
  <1>5. ASSUME NEW w \in Writers, LockClaim(w) PROVE TypeInv'
    <2>1. op[w] \in Operation /\ op[w].kind \in Creates \cup Updates
      BY <1>5 DEF LockClaim, TypeOK, PhaseOK, Goto, frame, database
    <2>2. TargetKey(w) \in Keys /\ op[w].edge \in Edges
      BY <1>5, <2>1 DEF LockClaim, TypeOK, PhaseOK, TargetKey, Operation, Row
    <2>3. ClaimView(w)[TargetKey(w)] \in Edges \cup {NoClaim}
      BY <2>2, ViewType
    <2>4. TypeOK'
      <3>1. claimWrites' \in ClaimWritesType
        BY <1>5, <2>2, <2>3, WriteClaimType DEF LockClaim
      <3>2. phase' \in [Writers -> Phases]
        BY <1>5, GotoType DEF LockClaim, Phases
      <3> QED
        BY <1>5, <3>1, <3>2, RowWorkType DEF LockClaim, TypeOK, EdgeWritesType
    <2>5. PhaseOK'
      BY <1>5, <2>1 DEF LockClaim, TypeOK, PhaseOK, Goto, frame, database
    <2> QED
      BY <2>4, <2>5
  <1>6. ASSUME NEW w \in Writers, TakeOverClaim(w) PROVE TypeInv'
    <2>1. op[w] \in Operation /\ op[w].edge \in Edges
      BY <1>6 DEF TakeOverClaim, TypeOK, PhaseOK, Operation
    <2>2. TypeOK'
      <3>1. TargetKey(w) \in Keys
        BY <1>6, <2>1 DEF TakeOverClaim, TypeOK, PhaseOK, TargetKey, Operation, Row
      <3>2. claimWrites' \in ClaimWritesType
        BY <1>6, <2>1, <3>1, WriteClaimType DEF TakeOverClaim, TypeOK, ClaimWritesType
      <3>3. phase' \in [Writers -> Phases]
        BY <1>6, GotoType DEF TakeOverClaim, Phases
      <3> QED
        BY <1>6, <3>2, <3>3, RowWorkType DEF TakeOverClaim, TypeOK, EdgeWritesType
    <2>3. PhaseOK'
      BY <1>6 DEF TakeOverClaim, TypeOK, PhaseOK, Goto, frame, database
    <2> QED
      BY <2>2, <2>3
  <1>7. ASSUME NEW w \in Writers, InsertEdge(w) PROVE TypeInv'
    <2>1. op[w] \in Operation
      BY <1>7 DEF InsertEdge, TypeOK, PhaseOK, Goto, frame, database
    <2>2. [deleted |-> FALSE, key |-> op[w].key, validTo |-> op[w].end] \in Row
      BY <1>7, <2>1 DEF InsertEdge, Operation, Row
    <2>3. TypeOK'
      <3>1. edgeWrites' \in EdgeWritesType
        BY <1>7, <2>1, <2>2, WriteEdgeType DEF InsertEdge, TypeOK, EdgeWritesType, Operation
      <3>2. phase' \in [Writers -> Phases]
        BY <1>7, GotoType DEF InsertEdge, Phases
      <3> QED
        BY <1>7, <3>1, <3>2, RowWorkType DEF InsertEdge, TypeOK, ClaimWritesType
    <2>4. PhaseOK'
      BY <1>7 DEF InsertEdge, TypeOK, PhaseOK, Goto, frame, database
    <2> QED
      BY <2>3, <2>4
  <1>8. ASSUME NEW w \in Writers, UpdateEdge(w) PROVE TypeInv'
    <2> DEFINE row == EdgeView(w)[op[w].edge]
    <2>1. op[w] \in Operation /\ op[w].kind \in Updates /\ op[w].edge \in Edges
      BY <1>8 DEF UpdateEdge, TypeOK, PhaseOK, Operation
    <2>2. row \in Row \cup {NoRow}
      BY <2>1, ViewType
    <2>3. UpdateMatches(w, row) =>
             [deleted |-> FALSE, key |-> row.key,
              validTo |-> EffectiveEnd(op[w].end, row)] \in Row
      BY <2>1, <2>2, UpdatedRowType DEF UpdateMatches
    <2>4. TypeOK'
      <3>1. edgeWrites' \in EdgeWritesType
        <4>1. CASE UpdateMatches(w, row)
          BY <1>8, <2>1, <2>3, <4>1, WriteEdgeType DEF UpdateEdge
        <4>2. CASE ~UpdateMatches(w, row)
          BY <1>8, <4>2 DEF UpdateEdge, TypeOK, EdgeWritesType
        <4> QED
          BY <4>1, <4>2
      <3>2. phase' \in [Writers -> Phases]
        BY <1>8, GotoType DEF UpdateEdge, Phases
      <3> QED
        BY <1>8, <3>1, <3>2, RowWorkType DEF UpdateEdge, TypeOK, ClaimWritesType
    <2>5. PhaseOK'
      BY <1>8, <2>1 DEF UpdateEdge, TypeOK, PhaseOK, Goto, frame, database
    <2> QED
      BY <2>4, <2>5
  <1>9. ASSUME NEW w \in Writers, DiagnoseUnmatched(w) PROVE TypeInv'
    <2>1. TypeOK'
      <3>1. tries' \in [Writers -> 0..MaxTries]
        <4>1. \/ UNCHANGED tries
              \/ tries[w] < MaxTries /\ tries' = [tries EXCEPT ![w] = @ + 1]
          BY <1>9, Zenon DEF DiagnoseUnmatched, MayRetry
        <4>2. tries \in [Writers -> 0..2] /\ MaxTries = 2
          BY DEF TypeOK, MaxTries
        <4>3. CASE tries[w] < 2 /\ tries' = [tries EXCEPT ![w] = @ + 1]
          <5>1. tries[w] + 1 \in 0..2
            BY <4>2, <4>3
          <5> QED
            BY <4>2, <4>3, <5>1
        <4> QED
          BY <4>1, <4>2, <4>3
      <3>2. phase' \in [Writers -> Phases]
        BY <1>9, GotoType DEF DiagnoseUnmatched, Phases
      <3>3. UNCHANGED <<database, edgeWrites, claimWrites, frame, existing>>
        BY <1>9 DEF DiagnoseUnmatched
      <3> QED
        BY <3>1, <3>2, <3>3, RowWorkType DEF TypeOK, EdgeWritesType, ClaimWritesType
    <2>2. PhaseOK'
      BY <1>9 DEF DiagnoseUnmatched, TypeOK, PhaseOK, Goto, frame, database
    <2> QED
      BY <2>1, <2>2
  <1>10. ASSUME NEW w \in Writers, SoftDeleteEdge(w) PROVE TypeInv'
    <2> DEFINE row == EdgeView(w)[op[w].edge]
    <2>1. row \in Row \cup {NoRow}
      BY <1>10, ViewType DEF SoftDeleteEdge, TypeOK, PhaseOK, Operation
    <2>2. row # NoRow => [row EXCEPT !.deleted = TRUE] \in Row
      BY <2>1 DEF Row
    <2>3. TypeOK'
      <3>1. edgeWrites' \in EdgeWritesType
        BY <1>10, <2>2, WriteEdgeType
        DEF SoftDeleteEdge, TypeOK, PhaseOK, EdgeWritesType, Operation
      <3>2. phase' \in [Writers -> Phases]
        BY <1>10, GotoType DEF SoftDeleteEdge, Phases
      <3> QED
        BY <1>10, <3>1, <3>2, RowWorkType DEF SoftDeleteEdge, TypeOK, ClaimWritesType
    <2>4. PhaseOK'
      BY <1>10 DEF SoftDeleteEdge, TypeOK, PhaseOK, Goto, frame, database
    <2> QED
      BY <2>3, <2>4
  <1>11. ASSUME NEW w \in Writers, HardDeleteEdge(w) PROVE TypeInv'
    <2>1. TypeOK'
      <3>1. edgeWrites' \in EdgeWritesType
        BY <1>11, WriteEdgeType
        DEF HardDeleteEdge, TypeOK, PhaseOK, EdgeWritesType, Operation
      <3>2. phase' \in [Writers -> Phases]
        BY <1>11, GotoType DEF HardDeleteEdge, Phases
      <3> QED
        BY <1>11, <3>1, <3>2, RowWorkType DEF HardDeleteEdge, TypeOK, ClaimWritesType
    <2>2. PhaseOK'
      BY <1>11 DEF HardDeleteEdge, TypeOK, PhaseOK, Goto, frame, database
    <2> QED
      BY <2>1, <2>2
  <1>12. ASSUME NEW w \in Writers, PurgeClaims(w) PROVE TypeInv'
    <2>1. TypeOK'
      BY <1>12 DEF PurgeClaims, TypeOK, Phases, Goto, frame, database
    <2>2. PhaseOK'
      BY <1>12 DEF PurgeClaims, TypeOK, PhaseOK, Goto, frame, database
    <2> QED
      BY <2>1, <2>2
  <1>13. ASSUME NEW w \in Writers, Commit(w) PROVE TypeInv'
    BY <1>13, ViewType DEF Commit, EndTransaction, ReleaseGraphLock, TypeOK, PhaseOK, Phases, MaxTries, Goto, frame, database
  <1>14. ASSUME NEW w \in Writers, Rollback(w) PROVE TypeInv'
    BY <1>14 DEF Rollback, EndTransaction, ReleaseGraphLock, TypeOK, PhaseOK, Phases, MaxTries, Goto, frame, database
  <1>15. CASE UNCHANGED vars
    BY <1>15 DEF vars, TypeOK, PhaseOK, Phases
  <1>16. QED
    BY <1>1, <1>2, <1>3, <1>4, <1>5, <1>6, <1>7, <1>8, <1>9, <1>10, <1>11, <1>12,
       <1>13, <1>14, <1>15 DEF Next, RowWork, Quiescent

\* Every variable keeps its type in every workload and on every engine.
THEOREM TypeCorrectness == Spec => []TypeOK
  <1>1. TypeInv => TypeOK
    BY DEF TypeInv
  <1> QED
    BY <1>1, TypeInit, TypeStep, PTL DEF Spec

-----------------------------------------------------------------------------
(* Rows that admit nothing. *)

LEMMA DecayedReflexive ==
    ASSUME NEW row \in Row \cup {NoRow}
    PROVE  Decayed(row, row)
  BY DEF Decayed

LEMMA DecayedTransitive ==
    ASSUME NEW a \in Row \cup {NoRow}, NEW b \in Row \cup {NoRow}, NEW c \in Row \cup {NoRow},
           Decayed(a, b), Decayed(b, c)
    PROVE  Decayed(a, c)
  BY DEF Decayed

LEMMA DecayedCounted ==
    ASSUME NEW new \in Row \cup {NoRow}, NEW old \in Row \cup {NoRow},
           Decayed(new, old), Counted(new)
    PROVE  CountedOn(old, new.key)
  BY DeclaredAssumption, MarkersAssumption
  DEF Decayed, Counted, CountedOn, HolderLiveness, JoinsPopulation, ClaimsWhenBornEnded, Row

\* Decay of every row keeps an axis to one counted edge.
LEMMA DecayedOneCounted ==
    ASSUME NEW new \in [Edges -> Row \cup {NoRow}], NEW old \in [Edges -> Row \cup {NoRow}],
           \A e \in Edges : Decayed(new[e], old[e]),
           OneCounted(old)
    PROVE  OneCounted(new)
  <1> SUFFICES ASSUME NEW d \in Edges, NEW e \in Edges,
                      Counted(new[d]), Counted(new[e]), new[d].key = new[e].key
               PROVE  d = e
    BY DEF OneCounted
  <1>1. CountedOn(old[d], new[d].key) /\ CountedOn(old[e], new[e].key)
    BY DecayedCounted
  <1> QED
    BY <1>1 DEF OneCounted, CountedOn

-----------------------------------------------------------------------------
(* Locks. *)

\* What every statement of row work leaves alone.
LEMMA RowWorkFrame ==
    ASSUME TypeInv, NEW w \in Writers, RowWork(w)
    PROVE  /\ UNCHANGED <<edges, claims, graphLock, inTxn, op, started>>
           /\ phase[w] \notin {"idle", "gated"} /\ phase'[w] \notin {"idle", "gated"}
           /\ \A v \in Writers \ {w} : phase'[v] = phase[v] /\ existing'[v] = existing[v]
  <1> USE DEF TypeInv, TypeOK, database, frame, Goto
  <1>1. CASE Read(w)
    BY <1>1 DEF Read
  <1>2. CASE Probe(w)
    BY <1>2 DEF Probe
  <1>3. CASE LockClaim(w)
    BY <1>3 DEF LockClaim
  <1>4. CASE TakeOverClaim(w)
    BY <1>4 DEF TakeOverClaim
  <1>5. CASE InsertEdge(w)
    BY <1>5 DEF InsertEdge
  <1>6. CASE UpdateEdge(w)
    BY <1>6 DEF UpdateEdge
  <1>7. CASE DiagnoseUnmatched(w)
    BY <1>7 DEF DiagnoseUnmatched
  <1>8. CASE SoftDeleteEdge(w)
    BY <1>8 DEF SoftDeleteEdge
  <1>9. CASE HardDeleteEdge(w)
    BY <1>9 DEF HardDeleteEdge
  <1>10. CASE PurgeClaims(w)
    BY <1>10 DEF PurgeClaims
  <1> QED
    BY <1>1, <1>2, <1>3, <1>4, <1>5, <1>6, <1>7, <1>8, <1>9, <1>10 DEF RowWork

\* Row work writes no edge row, or the row of its own operation, which no
\* other open transaction has written.
LEMMA RowWorkWrites ==
    ASSUME TypeInv, NEW w \in Writers, RowWork(w)
    PROVE  \/ UNCHANGED edgeWrites
           \/ /\ EdgeWriters(w, op[w].edge) = {}
              /\ op[w].edge \in Edges
              /\ \E row \in Row \cup {NoRow} : WriteEdge(w, op[w].edge, row)
  <1>0. phase[w] # "idle" => op[w].edge \in Edges
    BY DEF TypeInv, PhaseOK, Operation
  <1>1. CASE Read(w) \/ Probe(w) \/ LockClaim(w) \/ TakeOverClaim(w) \/ DiagnoseUnmatched(w)
             \/ PurgeClaims(w)
    BY <1>1 DEF Read, Probe, LockClaim, TakeOverClaim, DiagnoseUnmatched, PurgeClaims
  <1>2. CASE InsertEdge(w)
    <2>1. [deleted |-> FALSE, key |-> op[w].key, validTo |-> op[w].end] \in Row
      BY <1>2 DEF InsertEdge, TypeInv, PhaseOK, Operation, Row
    <2> QED
      BY <1>0, <1>2, <2>1 DEF InsertEdge
  <1>3. CASE UpdateEdge(w)
    <2> DEFINE row == EdgeView(w)[op[w].edge]
    <2>1. CASE UpdateMatches(w, row)
      <3>1. op[w] \in Operation /\ op[w].kind \in Updates /\ op[w].edge \in Edges /\ row # NoRow
        BY <1>0, <1>3, <2>1 DEF UpdateEdge, UpdateMatches, TypeInv, PhaseOK
      <3>2. row \in Row
        BY <3>1, ViewType DEF TypeInv
      <3>3. [deleted |-> FALSE, key |-> row.key,
             validTo |-> EffectiveEnd(op[w].end, row)] \in Row
        BY <3>1, <3>2, UpdatedRowType
      <3> QED
        BY <1>3, <2>1, <3>1, <3>3 DEF UpdateEdge, SeesLockedRow
    <2>2. CASE ~UpdateMatches(w, row)
      BY <1>3, <2>2 DEF UpdateEdge
    <2> QED
      BY <2>1, <2>2
  <1>4. CASE SoftDeleteEdge(w)
    <2> DEFINE row == EdgeView(w)[op[w].edge]
    <2>1. op[w].edge \in Edges
      BY <1>0, <1>4 DEF SoftDeleteEdge
    <2>2. row # NoRow => [row EXCEPT !.deleted = TRUE] \in Row
      <3>1. row \in Row \cup {NoRow}
        BY <2>1, ViewType DEF TypeInv
      <3> QED
        BY <3>1 DEF Row
    <2> QED
      BY <1>4, <2>1, <2>2 DEF SoftDeleteEdge, SeesLockedRow
  <1>5. CASE HardDeleteEdge(w)
    BY <1>0, <1>5 DEF HardDeleteEdge, SeesLockedRow
  <1> QED
    BY <1>1, <1>2, <1>3, <1>4, <1>5 DEF RowWork

LEMMA LockInit == Init => LockInv /\ RowLocks
  BY DEF Init, LockInv, RowLocks

LEMMA LockStep == TypeInv /\ LockInv /\ RowLocks /\ [Next]_vars => LockInv' /\ RowLocks'
  <1> SUFFICES ASSUME TypeInv, LockInv, RowLocks, [Next]_vars PROVE LockInv' /\ RowLocks'
    OBVIOUS
  <1> USE DEF TypeInv, TypeOK, LockInv, NeedsGraphWriteLock
  <1>1. ASSUME NEW w \in Writers, Gate(w) PROVE LockInv' /\ RowLocks'
    BY <1>1 DEF Gate, Goto, RowLocks, FencesConstraintProbe
  <1>2. ASSUME NEW w \in Writers, Begin(w) PROVE LockInv' /\ RowLocks'
    <2>1. RowLocks'
      BY <1>2 DEF Begin, RowLocks
    <2>2. /\ inTxn' = [inTxn EXCEPT ![w] = TRUE]
          /\ \A v \in Writers : v # w => phase'[v] = phase[v]
          /\ UNCHANGED <<op, edgeWrites>>
          /\ phase'[w] \notin {"idle", "gated"}
      BY <1>2 DEF Begin, Goto, FirstPhase
    <2>3. /\ NeedsGraphWriteLock(op[w]) => graphLock' = w
          /\ graphLock' \in {graphLock, w}
          /\ graphLock \notin {Free, w} => graphLock' = graphLock
      BY <1>2 DEF Begin, NeedsGraphWriteLock
    <2>4. SingleWriter => \A u, v \in Writers : inTxn'[u] /\ inTxn'[v] => u = v
      BY <1>2, <2>2 DEF Begin
    <2>5. \A v \in Writers \ {w} : graphLock = v => graphLock' = v
      BY <2>3, MarkersAssumption
    <2>6. LockInv'
      BY <2>2, <2>3, <2>4, <2>5 DEF FencesConstraintProbe
    <2> QED
      BY <2>1, <2>6
  <1>3. ASSUME NEW w \in Writers, RowWork(w) PROVE LockInv' /\ RowLocks'
    <2>1. CASE UNCHANGED edgeWrites
      BY <1>3, <2>1, RowWorkFrame DEF RowLocks, FencesConstraintProbe
    <2>2. ASSUME NEW row \in Row \cup {NoRow}, WriteEdge(w, op[w].edge, row),
                 EdgeWriters(w, op[w].edge) = {}, op[w].edge \in Edges
          PROVE  LockInv' /\ RowLocks'
      <3>1. \A v \in Writers \ {w} : edgeWrites'[v] = edgeWrites[v]
        BY <2>2 DEF WriteEdge
      <3>2. \A e \in Edges \ {op[w].edge} : edgeWrites'[w][e] = edgeWrites[w][e]
        BY <2>2 DEF WriteEdge
      <3>3. RowLocks'
        <4>1. \A v \in Writers \ {w} : edgeWrites[v][op[w].edge] = Untouched
          BY <2>2 DEF EdgeWriters
        <4> SUFFICES ASSUME NEW u \in Writers, NEW v \in Writers, NEW e \in Edges, u # v
                     PROVE  edgeWrites'[u][e] = Untouched \/ edgeWrites'[v][e] = Untouched
          BY DEF RowLocks
        <4>2. edgeWrites[u][e] = Untouched \/ edgeWrites[v][e] = Untouched
          BY DEF RowLocks
        <4>3. CASE u # w /\ v # w
          BY <3>1, <4>2, <4>3
        <4>4. CASE u = w /\ e # op[w].edge
          BY <3>1, <3>2, <4>2, <4>4
        <4>5. CASE v = w /\ e # op[w].edge
          BY <3>1, <3>2, <4>2, <4>5
        <4>6. CASE u = w /\ e = op[w].edge
          BY <3>1, <4>1, <4>6
        <4>7. CASE v = w /\ e = op[w].edge
          BY <3>1, <4>1, <4>7
        <4> QED
          BY <4>3, <4>4, <4>5, <4>6, <4>7
      <3>4. LockInv'
        BY <1>3, <3>1, RowWorkFrame DEF FencesConstraintProbe
      <3> QED
        BY <3>3, <3>4
    <2> QED
      BY <1>3, <2>1, <2>2, RowWorkWrites
  <1>4. ASSUME NEW w \in Writers, EndTransaction(w) PROVE LockInv' /\ RowLocks'
    BY <1>4, MarkersAssumption DEF EndTransaction, ReleaseGraphLock, Goto, RowLocks, FencesConstraintProbe
  <1>5. CASE UNCHANGED vars
    BY <1>5 DEF vars, RowLocks, FencesConstraintProbe
  <1> QED
    BY <1>1, <1>2, <1>3, <1>4, <1>5 DEF Next, Commit, Rollback, Quiescent

-----------------------------------------------------------------------------
(* Views and verdicts. *)

LEMMA ExcludesUnique ==
    ASSUME TypeInv, LockInv, NEW v \in Writers, NEW w \in Writers, Excludes(v), Excludes(w)
    PROVE  v = w
  BY DEF LockInv, Excludes

LEMMA RetiredView ==
    ASSUME TypeInv, RetireInv, NEW w \in Writers, ~Excludes(w), NEW e \in Edges
    PROVE  Decayed(EdgeView(w)[e], edges[e])
  <1>1. CASE edgeWrites[w][e] = Untouched
    BY <1>1, DecayedReflexive DEF EdgeView, TypeInv, TypeOK
  <1>2. CASE edgeWrites[w][e] # Untouched
    BY <1>2 DEF EdgeView, RetireInv
  <1> QED
    BY <1>1, <1>2

\* A writer that does not exclude the others sees at most one counted edge too.
LEMMA RetiredOneCounted ==
    ASSUME TypeInv, RetireInv, ViewInv, NEW w \in Writers, ~Excludes(w)
    PROVE  OneCounted(EdgeView(w))
  <1>1. EdgeView(w) \in [Edges -> Row \cup {NoRow}] /\ edges \in [Edges -> Row \cup {NoRow}]
    BY ViewType DEF TypeInv, TypeOK
  <1>2. \A e \in Edges : Decayed(EdgeView(w)[e], edges[e])
    BY RetiredView
  <1> QED
    BY <1>1, <1>2, DecayedOneCounted DEF ViewInv

LEMMA DecayedCountedOn ==
    ASSUME NEW new \in Row \cup {NoRow}, NEW old \in Row \cup {NoRow}, NEW k,
           Decayed(new, old), CountedOn(new, k)
    PROVE  CountedOn(old, k)
  BY DecayedCounted DEF CountedOn

\* The decay of a writer's view leaves its verdict standing.
LEMMA VerdictStands ==
    ASSUME TypeInv, TypeInv', NEW w \in Writers, Verdict(w),
           op'[w] = op[w], existing'[w] = existing[w], phase'[w] = phase[w],
           \A e \in Edges : Decayed(EdgeView(w)'[e], EdgeView(w)[e])
    PROVE  Verdict(w)'
  <1>1. /\ EdgeView(w) \in [Edges -> Row \cup {NoRow}]
        /\ EdgeView(w)' \in [Edges -> Row \cup {NoRow}]
    BY ViewType DEF TypeInv, TypeOK, EdgeView
  <1>2. TargetKey(w)' = TargetKey(w) /\ TargetEnd(w)' = TargetEnd(w)
    BY DEF TargetKey, TargetEnd
  <1>3. Vacant(w) => Vacant(w)'
    <2> SUFFICES ASSUME Vacant(w), NEW e \in Edges \ {op[w].edge},
                        CountedOn(EdgeView(w)'[e], TargetKey(w))
                 PROVE  FALSE
      BY <1>2 DEF Vacant, CountedOn, Counted
    <2>1. Decayed(EdgeView(w)'[e], EdgeView(w)[e])
      OBVIOUS
    <2>2. CountedOn(EdgeView(w)[e], TargetKey(w))
      BY <1>1, <2>1, DecayedCountedOn
    <2> QED
      BY <2>2 DEF Vacant
  <1>4. ASSUME phase[w] \in {"probing", "claiming", "takingOver", "writing", "diagnosing"},
               op[w].kind \in Updates
        PROVE  Decayed(EdgeView(w)'[op[w].edge], existing[w])
    <2>1. op[w].edge \in Edges
      BY <1>4 DEF TypeInv, PhaseOK, Operation
    <2>2. Decayed(EdgeView(w)[op[w].edge], existing[w])
      BY <1>4 DEF Verdict
    <2>3. Decayed(EdgeView(w)'[op[w].edge], EdgeView(w)[op[w].edge])
      BY <2>1
    <2>4. existing[w] \in Row \cup {NoRow}
      BY DEF TypeInv, TypeOK
    <2>5. /\ EdgeView(w)[op[w].edge] \in Row \cup {NoRow}
          /\ EdgeView(w)'[op[w].edge] \in Row \cup {NoRow}
      BY <1>1, <2>1
    <2> QED
      BY <2>2, <2>3, <2>4, <2>5, DecayedTransitive
  <1> QED
    BY <1>2, <1>3, <1>4 DEF Verdict, JoinsPopulation, Decayed

-----------------------------------------------------------------------------
(* What a statement writes. *)

\* The row leaves every axis at its count, or its writer excludes the others
\* and sees no other counted edge on the row's axis.
SafeRow(w, row) ==
    \/ Decayed(row, EdgeView(w)[op[w].edge])
    \/ /\ Excludes(w)
       /\ Counted(row) =>
            \A d \in Edges \ {op[w].edge} : ~CountedOn(EdgeView(w)[d], row.key)

\* An excluding writer's insert is safe because it probed its axis.
LEMMA InsertIsSafe ==
    ASSUME Serialized, TypeInv, LockInv, VerdictInv, NEW w \in Writers,
           phase[w] = "writing", op[w].kind \in Creates
    PROVE  SafeRow(w, [deleted |-> FALSE, key |-> op[w].key, validTo |-> op[w].end])
  <1> DEFINE row == [deleted |-> FALSE, key |-> op[w].key, validTo |-> op[w].end]
  <1>1. op[w] \in Operation /\ inTxn[w]
    BY DEF TypeInv, PhaseOK, LockInv
  <1>2. Excludes(w)
    BY <1>1 DEF Serialized, Excludes, LockInv, NeedsGraphWriteLock, FencesConstraintProbe,
                Creates, Operation
  <1>3. Vacant(w) \/ ~JoinsPopulation(op[w].end)
    BY <1>2 DEF VerdictInv, Verdict, TargetEnd
  <1>4. Counted(row) => JoinsPopulation(op[w].end)
    BY DEF Counted, JoinsPopulation, ClaimsWhenBornEnded, HolderLiveness
  <1>5. row.key = TargetKey(w)
    BY DEF TargetKey
  <1> HIDE DEF row
  <1>6. SafeRow(w, row)
    BY <1>2, <1>3, <1>4, <1>5 DEF Vacant, SafeRow
  <1> QED
    BY <1>6 DEF row

\* An update is safe because it re-enters under the lock, or admits nothing.
LEMMA UpdateIsSafe ==
    ASSUME TypeInv, LockInv, VerdictInv, NEW w \in Writers,
           phase[w] = "writing", op[w].kind \in Updates, NEW row \in Row,
           row = EdgeView(w)[op[w].edge], UpdateMatches(w, row)
    PROVE  SafeRow(w, [deleted |-> FALSE, key |-> row.key,
                       validTo |-> EffectiveEnd(op[w].end, row)])
  <1> DEFINE new == [deleted |-> FALSE, key |-> row.key,
                     validTo |-> EffectiveEnd(op[w].end, row)]
  <1>1. op[w] \in Operation /\ inTxn[w] /\ op[w].kind \notin Creates
    BY DEF TypeInv, PhaseOK, LockInv, Updates, Creates
  <1>2. new.key = row.key /\ new.validTo = EffectiveEnd(op[w].end, row) /\ ~new.deleted
    OBVIOUS
  <1>3. Counted(new) => JoinsPopulation(new.validTo)
    BY DEF Counted, JoinsPopulation, ClaimsWhenBornEnded, HolderLiveness
  <1>4. new # NoRow /\ row # NoRow
    BY <1>1, UpdatedRowType, MarkersAssumption
  <1> HIDE DEF new
  <1>5. CASE Excludes(w)
    <2>1. Verdict(w)
      BY <1>5 DEF VerdictInv
    <2>2. Decayed(row, existing[w])
      BY <2>1 DEF Verdict
    <2>3. Vacant(w) \/ ~JoinsPopulation(TargetEnd(w))
      BY <2>1 DEF Verdict
    <2>4. new.key = TargetKey(w)
      BY <1>1, <1>2, <1>4, <2>2 DEF TargetKey, Decayed
    <2>5. JoinsPopulation(new.validTo) => JoinsPopulation(TargetEnd(w))
      BY <1>1, <1>2, <1>4, <2>2 DEF TargetEnd, EffectiveEnd, Decayed
    <2> QED
      BY <1>3, <1>5, <2>3, <2>4, <2>5 DEF SafeRow, Vacant, new
  <1>6. CASE ~Excludes(w)
    <2>1. ~NeedsGraphWriteLock(op[w])
      BY <1>1, <1>6 DEF LockInv, Excludes
    <2>2. op[w].kind = "update" /\ ~(op[w].end = Open /\ Declared = "oneActive")
      BY <2>1 DEF NeedsGraphWriteLock, FencesConstraintProbe, Updates
    <2>3. ~row.deleted
      BY <2>2 DEF UpdateMatches
    <2>4. JoinsPopulation(new.validTo) => JoinsPopulation(row.validTo)
      BY <1>2, <2>2, DeclaredAssumption
      DEF JoinsPopulation, ClaimsWhenBornEnded, EffectiveEnd
    <2>5. Decayed(new, row)
      BY <1>2, <1>4, <2>3, <2>4 DEF Decayed
    <2> QED
      BY <2>5 DEF SafeRow, new
  <1> QED
    BY <1>5, <1>6

\* A statement of row work writes no edge row, or one safe row, and is then
\* past its verdict.
LEMMA WrittenRow ==
    ASSUME Serialized, TypeInv, LockInv, VerdictInv, NEW w \in Writers, RowWork(w)
    PROVE  \/ UNCHANGED edgeWrites
           \/ /\ op[w].edge \in Edges
              /\ phase'[w] \in {"finished", "purging"}
              /\ \E row \in Row \cup {NoRow} :
                    WriteEdge(w, op[w].edge, row) /\ SafeRow(w, row)
  <1>0. phase[w] # "idle" => op[w] \in Operation /\ op[w].edge \in Edges
    BY DEF TypeInv, PhaseOK, Operation
  <1>1. CASE Read(w) \/ Probe(w) \/ LockClaim(w) \/ TakeOverClaim(w) \/ DiagnoseUnmatched(w)
             \/ PurgeClaims(w)
    BY <1>1 DEF Read, Probe, LockClaim, TakeOverClaim, DiagnoseUnmatched, PurgeClaims
  <1>2. CASE InsertEdge(w)
    <2> DEFINE row == [deleted |-> FALSE, key |-> op[w].key, validTo |-> op[w].end]
    <2>1. phase[w] = "writing" /\ op[w].kind \in Creates
      BY <1>2 DEF InsertEdge
    <2>2. row \in Row
      BY <1>0, <2>1 DEF Operation, Row
    <2>3. SafeRow(w, row)
      BY <2>1, InsertIsSafe
    <2>4. \/ UNCHANGED edgeWrites
          \/ WriteEdge(w, op[w].edge, row) /\ Goto(w, "finished")
      BY <1>2, Zenon DEF InsertEdge
    <2>5. Goto(w, "finished") => phase'[w] = "finished"
      BY DEF Goto, TypeInv, TypeOK
    <2> HIDE DEF row
    <2> QED
      BY <1>0, <2>1, <2>2, <2>3, <2>4, <2>5
  <1>3. CASE UpdateEdge(w)
    <2> DEFINE row == EdgeView(w)[op[w].edge]
               new == [deleted |-> FALSE, key |-> row.key,
                       validTo |-> EffectiveEnd(op[w].end, row)]
    <2>1. phase[w] = "writing" /\ op[w].kind \in Updates
      BY <1>3 DEF UpdateEdge
    <2>2. \/ UNCHANGED edgeWrites
          \/ UpdateMatches(w, row) /\ WriteEdge(w, op[w].edge, new) /\ Goto(w, "finished")
      BY <1>3, Zenon DEF UpdateEdge
    <2>3. Goto(w, "finished") => phase'[w] = "finished"
      BY DEF Goto, TypeInv, TypeOK
    <2>4. ASSUME UpdateMatches(w, row) PROVE new \in Row /\ SafeRow(w, new)
      <3>1. row \in Row
        <4>1. row \in Row \cup {NoRow}
          BY <1>0, <2>1, ViewType DEF TypeInv
        <4>2. row # NoRow
          BY <2>4 DEF UpdateMatches
        <4> QED
          BY <4>1, <4>2
      <3>2. new \in Row
        BY <1>0, <2>1, <3>1, UpdatedRowType
      <3>3. SafeRow(w, new)
        BY <2>1, <2>4, <3>1, UpdateIsSafe
      <3> QED
        BY <3>2, <3>3
    <2> HIDE DEF row, new
    <2> QED
      BY <1>0, <2>1, <2>2, <2>3, <2>4
  <1>4. CASE SoftDeleteEdge(w)
    <2> DEFINE row == EdgeView(w)[op[w].edge]
               new == [row EXCEPT !.deleted = TRUE]
    <2>1. phase[w] = "writing"
      BY <1>4 DEF SoftDeleteEdge
    <2>2. \/ UNCHANGED edgeWrites
          \/ row # NoRow /\ WriteEdge(w, op[w].edge, new)
      BY <1>4, Zenon DEF SoftDeleteEdge
    <2>3. phase'[w] = "finished"
      BY <1>4 DEF SoftDeleteEdge, Goto, TypeInv, TypeOK
    <2>4. ASSUME row # NoRow PROVE new \in Row /\ Decayed(new, row)
      <3>1. row \in Row
        BY <1>0, <2>1, <2>4, ViewType DEF TypeInv
      <3>2. new \in Row /\ new.key = row.key /\ new.validTo = row.validTo /\ new.deleted
        BY <3>1 DEF Row
      <3> QED
        BY <2>4, <3>2, MarkersAssumption DEF Decayed
    <2> HIDE DEF new
    <2> QED
      BY <1>0, <2>1, <2>2, <2>3, <2>4 DEF SafeRow
  <1>5. CASE HardDeleteEdge(w)
    <2>1. phase'[w] = "purging" /\ phase[w] = "writing"
      BY <1>5 DEF HardDeleteEdge, Goto, TypeInv, TypeOK
    <2>2. UNCHANGED edgeWrites \/ WriteEdge(w, op[w].edge, NoRow)
      BY <1>5 DEF HardDeleteEdge
    <2>3. SafeRow(w, NoRow)
      BY DEF SafeRow, Decayed
    <2> QED
      BY <1>0, <2>1, <2>2, <2>3
  <1> QED
    BY <1>1, <1>2, <1>3, <1>4, <1>5 DEF RowWork

-----------------------------------------------------------------------------
(* The effect of one written row. *)

\* The writer's view changes at the row it wrote, the other views do not.
LEMMA WrittenView ==
    ASSUME TypeOK, NEW w \in Writers, NEW e \in Edges, NEW row \in Row \cup {NoRow},
           WriteEdge(w, e, row), UNCHANGED edges
    PROVE  /\ EdgeView(w)' = [EdgeView(w) EXCEPT ![e] = row]
           /\ \A v \in Writers \ {w} : EdgeView(v)' = EdgeView(v)
           /\ \A v \in Writers \ {w} : edgeWrites'[v] = edgeWrites[v]
           /\ \A d \in Edges \ {e} : edgeWrites'[w][d] = edgeWrites[w][d]
           /\ edgeWrites'[w][e] = row
  <1>1. \A v \in Writers \ {w} : edgeWrites'[v] = edgeWrites[v]
    BY DEF WriteEdge, TypeOK
  <1>2. edgeWrites'[w] = [edgeWrites[w] EXCEPT ![e] = row]
    BY DEF WriteEdge, TypeOK
  <1>3. edgeWrites[w] \in [Edges -> Row \cup {NoRow, Untouched}]
    BY DEF TypeOK
  <1>4. \A d \in Edges \ {e} : edgeWrites'[w][d] = edgeWrites[w][d]
    BY <1>2, <1>3
  <1>5. edgeWrites'[w][e] = row
    BY <1>2, <1>3
  <1>6. row # Untouched
    BY MarkersAssumption
  <1>7. EdgeView(w)' = [EdgeView(w) EXCEPT ![e] = row]
    BY <1>4, <1>5, <1>6 DEF EdgeView
  <1> QED
    BY <1>1, <1>4, <1>5, <1>7 DEF EdgeView

\* A safe row keeps its writer's view at one counted edge per axis.
LEMMA SafeRowOneCounted ==
    ASSUME TypeInv, NEW w \in Writers, op[w].edge \in Edges,
           NEW row \in Row \cup {NoRow}, SafeRow(w, row), OneCounted(EdgeView(w))
    PROVE  OneCounted([EdgeView(w) EXCEPT ![op[w].edge] = row])
  <1> DEFINE own == op[w].edge
             old == EdgeView(w)
             new == [old EXCEPT ![own] = row]
  <1>1. old \in [Edges -> Row \cup {NoRow}]
    BY ViewType DEF TypeInv
  <1>2. new[own] = row /\ \A d \in Edges \ {own} : new[d] = old[d]
    BY <1>1
  <1>3. new \in [Edges -> Row \cup {NoRow}]
    BY <1>1
  <1>4. CASE Decayed(row, old[own])
    <2>1. \A d \in Edges : Decayed(new[d], old[d])
      <3> TAKE d \in Edges
      <3>1. CASE d = own
        BY <1>2, <1>4, <3>1
      <3>2. CASE d # own
        <4>1. old[d] \in Row \cup {NoRow} /\ new[d] = old[d]
          BY <1>1, <1>2, <3>2
        <4> QED
          BY <4>1, DecayedReflexive
      <3> QED
        BY <3>1, <3>2
    <2> HIDE DEF old, new
    <2> QED
      BY <1>1, <1>3, <2>1, DecayedOneCounted DEF old, new, own
  <1>5. CASE Counted(row) => \A d \in Edges \ {own} : ~CountedOn(old[d], row.key)
    <2> HIDE DEF own, old, new
    <2> SUFFICES ASSUME NEW c \in Edges, NEW d \in Edges, Counted(new[c]), Counted(new[d]),
                        new[c].key = new[d].key
                 PROVE  c = d
      BY DEF OneCounted, own, old, new
    <2>1. CASE c # own /\ d # own
      BY <1>2, <2>1 DEF OneCounted, old
    <2>2. CASE c = own \/ d = own
      BY <1>2, <1>5, <2>2 DEF CountedOn
    <2> QED
      BY <2>1, <2>2
  <1> QED
    BY <1>4, <1>5 DEF SafeRow

-----------------------------------------------------------------------------
(* The step of the inductive invariant. *)

\* A writer that has concluded its axis is its own may move on with that verdict.
LEMMA ReadVerdict ==
    ASSUME TypeInv, TypeInv', NEW w \in Writers, Read(w), OneCounted(EdgeView(w)),
           EdgeView(w)' = EdgeView(w)
    PROVE  Verdict(w)'
  <1> DEFINE own == op[w].edge
             view == EdgeView(w)
             row == view[own]
  <1>1. /\ op'[w] = op[w] /\ op[w].kind \in Updates /\ own \in Edges /\ op[w] \in Operation
        /\ op[w].kind \notin Creates
    BY DEF Read, TypeInv, PhaseOK, Operation, frame, Updates, Creates
  <1>2. view \in [Edges -> Row \cup {NoRow}] /\ row \in Row \cup {NoRow}
    BY <1>1, ViewType DEF TypeInv
  <1>3. CASE ~MayUpdate(op[w], row)
    <2>1. phase'[w] = "refused"
      BY <1>3 DEF Read, Goto, TypeInv, TypeOK
    <2> QED
      BY <2>1 DEF Verdict
  <1>4. CASE MayUpdate(op[w], row)
    <2>1. /\ existing'[w] = row
          /\ phase'[w] = IF Reenters(op[w], row) THEN "probing" ELSE "writing"
      BY <1>4 DEF Read, Goto, TypeInv, TypeOK
    <2>2. Decayed(row, row)
      BY <1>2, DecayedReflexive
    <2>3. CASE Reenters(op[w], row)
      <3>1. phase'[w] = "probing"
        BY <2>1, <2>3
      <3> QED
        BY <1>1, <2>1, <2>2, <3>1 DEF Verdict
    <2>4. CASE ~Reenters(op[w], row)
      <3>1. phase'[w] = "writing"
        BY <2>1, <2>4
      <3>2. TargetKey(w)' = row.key /\ TargetEnd(w)' = EffectiveEnd(op[w].end, row)
        BY <1>1, <2>1 DEF TargetKey, TargetEnd
      <3>3. ~row.deleted
        BY <1>4, <2>4 DEF MayUpdate, Reenters, ReentersLivePopulation
      <3>4. JoinsPopulation(EffectiveEnd(op[w].end, row)) => Counted(row)
        BY <1>4, <2>4, <3>3, DeclaredAssumption
        DEF MayUpdate, Reenters, ReentersActivePopulation, JoinsPopulation,
            ClaimsWhenBornEnded, Counted, HolderLiveness
      <3>5. Counted(row) => \A e \in Edges \ {own} : ~CountedOn(view[e], row.key)
        BY <1>1 DEF OneCounted, CountedOn
      <3>6. Vacant(w)' \/ ~JoinsPopulation(TargetEnd(w))'
        BY <1>1, <3>2, <3>4, <3>5 DEF Vacant, JoinsPopulation, CountedOn, Counted
      <3> QED
        BY <1>1, <2>1, <2>2, <3>1, <3>6 DEF Verdict
    <2> QED
      BY <2>3, <2>4
  <1> QED
    BY <1>3, <1>4

\* A statement that writes no edge row leads to a verdict it has just reached
\* or already had.
LEMMA StatementVerdict ==
    ASSUME TypeInv, TypeInv', NEW w \in Writers, RowWork(w), Verdict(w),
           OneCounted(EdgeView(w)), UNCHANGED edgeWrites
    PROVE  Verdict(w)'
  <1>1. EdgeView(w)' = EdgeView(w) /\ op'[w] = op[w]
    BY RowWorkFrame DEF EdgeView
  <1>2. CASE Read(w)
    BY <1>1, <1>2, ReadVerdict
  <1> DEFINE judged == {"probing", "claiming", "takingOver", "writing", "diagnosing"}
  <1>3. ASSUME existing'[w] = existing[w], phase[w] \in judged,
               phase'[w] \in judged =>
                  (phase'[w] = "diagnosing" \/ Vacant(w) \/ ~JoinsPopulation(TargetEnd(w))),
               phase'[w] # "probing"
        PROVE  Verdict(w)'
    <2>1. TargetKey(w)' = TargetKey(w) /\ TargetEnd(w)' = TargetEnd(w)
      BY <1>1, <1>3 DEF TargetKey, TargetEnd
    <2>2. Vacant(w) => Vacant(w)'
      BY <1>1, <2>1 DEF Vacant
    <2>3. op[w].kind \in Updates => Decayed(EdgeView(w)[op[w].edge], existing[w])
      BY <1>3 DEF Verdict
    <2>4. JoinsPopulation(TargetEnd(w))' = JoinsPopulation(TargetEnd(w))
      BY <2>1 DEF JoinsPopulation
    <2> QED
      BY <1>1, <1>3, <2>2, <2>3, <2>4 DEF Verdict
  <1>4. CASE Probe(w)
    <2>1. existing'[w] = existing[w] /\ phase[w] = "probing"
      BY <1>4 DEF Probe
    <2>2. \/ ~JoinsPopulation(TargetEnd(w)) /\ Goto(w, "writing")
          \/ Goto(w, "refused")
          \/ (\A e \in Edges : ~CountedOn(EdgeView(w)[e], TargetKey(w))) /\ Goto(w, "claiming")
      BY <1>4, Zenon DEF Probe
    <2>3. \A p \in {"writing", "refused", "claiming"} : Goto(w, p) => phase'[w] = p
      BY DEF Goto, TypeInv, TypeOK
    <2> QED
      BY <1>3, <2>1, <2>2, <2>3 DEF Vacant
  <1>5. CASE LockClaim(w) \/ TakeOverClaim(w)
    <2>1. existing'[w] = existing[w] /\ phase[w] \in {"claiming", "takingOver"}
      BY <1>5 DEF LockClaim, TakeOverClaim
    <2>2. phase'[w] \in {"writing", "takingOver", "refused"}
      BY <1>5 DEF LockClaim, TakeOverClaim, Goto, TypeInv, TypeOK
    <2>3. op[w].kind \in Creates \cup Updates
      BY <2>1 DEF TypeInv, PhaseOK
    <2>4. Vacant(w) \/ ~JoinsPopulation(TargetEnd(w))
      BY <2>1, <2>3 DEF Verdict
    <2> QED
      BY <1>3, <2>1, <2>2, <2>4
  <1>6. CASE UpdateEdge(w)
    <2>1. existing'[w] = existing[w] /\ phase[w] = "writing"
      BY <1>6 DEF UpdateEdge
    <2>2. phase'[w] \in {"finished", "diagnosing"}
      BY <1>6 DEF UpdateEdge, Goto, TypeInv, TypeOK
    <2> QED
      BY <1>3, <2>1, <2>2
  <1>7. CASE InsertEdge(w) \/ DiagnoseUnmatched(w) \/ SoftDeleteEdge(w) \/ HardDeleteEdge(w)
             \/ PurgeClaims(w)
    <2>1. phase'[w] \in {"finished", "aborted", "reading", "refused", "purging"}
      BY <1>7 DEF InsertEdge, DiagnoseUnmatched, SoftDeleteEdge, HardDeleteEdge, PurgeClaims,
                  Goto, TypeInv, TypeOK
    <2> QED
      BY <2>1 DEF Verdict
  <1> QED
    BY <1>2, <1>4, <1>5, <1>6, <1>7 DEF RowWork

\* A step that leaves a writer's view, operation, phase and exclusion alone
\* leaves its part of the invariant alone.
LEMMA VerdictKept ==
    ASSUME TypeInv, TypeInv', NEW v \in Writers, Verdict(v), EdgeView(v)' = EdgeView(v),
           op'[v] = op[v], existing'[v] = existing[v], phase'[v] = phase[v]
    PROVE  Verdict(v)'
  <1>1. EdgeView(v) \in [Edges -> Row \cup {NoRow}]
    BY ViewType DEF TypeInv
  <1>2. \A e \in Edges : Decayed(EdgeView(v)[e], EdgeView(v)[e])
    BY <1>1, DecayedReflexive
  <1>3. \A e \in Edges : Decayed(EdgeView(v)'[e], EdgeView(v)[e])
    BY <1>2
  <1> QED
    BY <1>3, VerdictStands

LEMMA RowWorkStep ==
    ASSUME Serialized, TypeInv, TypeInv', LockInv, Retirement, NEW w \in Writers, RowWork(w)
    PROVE  Retirement'
  <1> USE DEF Retirement
  <1>1. /\ UNCHANGED <<edges, graphLock, inTxn, op>>
        /\ \A v \in Writers \ {w} : phase'[v] = phase[v] /\ existing'[v] = existing[v]
    BY RowWorkFrame
  <1>2. \A v \in Writers : Excludes(v)' <=> Excludes(v)
    BY <1>1 DEF Excludes
  <1>3. CASE UNCHANGED edgeWrites
    <2>1. \A v \in Writers : EdgeView(v)' = EdgeView(v)
      BY <1>1, <1>3 DEF EdgeView
    <2>2. RetireInv' /\ ViewInv'
      BY <1>1, <1>2, <1>3, <2>1 DEF RetireInv, ViewInv, OneCounted
    <2>3. VerdictInv'
      <3> SUFFICES ASSUME NEW v \in Writers, Excludes(v) PROVE Verdict(v)'
        BY <1>2 DEF VerdictInv
      <3>1. Verdict(v) /\ OneCounted(EdgeView(v))
        BY DEF VerdictInv, ViewInv
      <3>2. CASE v = w
        BY <1>3, <3>1, <3>2, StatementVerdict
      <3>3. CASE v # w
        BY <1>1, <2>1, <3>1, <3>3, VerdictKept
      <3> QED
        BY <3>2, <3>3
    <2> QED
      BY <2>2, <2>3
  <1>4. ASSUME NEW row \in Row \cup {NoRow}, WriteEdge(w, op[w].edge, row), SafeRow(w, row),
               op[w].edge \in Edges, phase'[w] \in {"finished", "purging"}
        PROVE  Retirement'
    <2> DEFINE own == op[w].edge
    <2>1. /\ EdgeView(w)' = [EdgeView(w) EXCEPT ![own] = row]
          /\ \A v \in Writers \ {w} : EdgeView(v)' = EdgeView(v) /\ edgeWrites'[v] = edgeWrites[v]
          /\ \A d \in Edges \ {own} : edgeWrites'[w][d] = edgeWrites[w][d]
          /\ edgeWrites'[w][own] = row
      BY <1>1, <1>4, WrittenView DEF TypeInv
    <2>2. RetireInv'
      <3> SUFFICES ASSUME NEW v \in Writers, ~Excludes(v), NEW e \in Edges,
                          edgeWrites'[v][e] # Untouched
                   PROVE  Decayed(edgeWrites'[v][e], edges[e])
        BY <1>1, <1>2 DEF RetireInv, Decayed, JoinsPopulation
      <3>1. CASE v = w /\ e = own
        <4>1. Decayed(row, EdgeView(w)[own])
          BY <1>4, <3>1 DEF SafeRow
        <4>2. Decayed(EdgeView(w)[own], edges[own])
          BY <1>4, <3>1, RetiredView
        <4>3. EdgeView(w)[own] \in Row \cup {NoRow} /\ edges[own] \in Row \cup {NoRow}
          BY <1>4, ViewType DEF TypeInv, TypeOK
        <4> HIDE DEF own
        <4>4. Decayed(row, edges[own])
          BY <4>1, <4>2, <4>3, DecayedTransitive
        <4> QED
          BY <2>1, <3>1, <4>4
      <3>2. CASE v # w \/ e # own
        <4>1. edgeWrites'[v][e] = edgeWrites[v][e]
          BY <2>1, <3>2
        <4> QED
          BY <4>1 DEF RetireInv
      <3> QED
        BY <3>1, <3>2
    <2>3. ViewInv'
      <3>1. OneCounted(edges)'
        BY <1>1 DEF ViewInv, OneCounted
      <3>2. ASSUME NEW v \in Writers, Excludes(v) PROVE OneCounted(EdgeView(v)')
        <4>1. OneCounted(EdgeView(v))
          BY <3>2 DEF ViewInv
        <4>2. CASE v = w
          BY <1>4, <2>1, <4>1, <4>2, SafeRowOneCounted
        <4>3. CASE v # w
          BY <2>1, <4>1, <4>3
        <4> QED
          BY <4>2, <4>3
      <3> QED
        BY <1>2, <3>1, <3>2 DEF ViewInv, OneCounted
    <2>4. VerdictInv'
      <3> SUFFICES ASSUME NEW v \in Writers, Excludes(v) PROVE Verdict(v)'
        BY <1>2 DEF VerdictInv
      <3>1. CASE v = w
        BY <1>4, <3>1 DEF Verdict
      <3>2. CASE v # w
        <4>1. Verdict(v)
          BY DEF VerdictInv
        <4> QED
          BY <1>1, <2>1, <3>2, <4>1, VerdictKept
      <3> QED
        BY <3>1, <3>2
    <2> QED
      BY <2>2, <2>3, <2>4
  <1> QED
    BY <1>3, <1>4, WrittenRow

LEMMA GateStep ==
    ASSUME TypeInv, TypeInv', Retirement, NEW w \in Writers, Gate(w)
    PROVE  Retirement'
  <1> USE DEF Retirement
  <1>1. /\ UNCHANGED <<edges, edgeWrites, graphLock, inTxn, existing>>
        /\ phase'[w] = "gated"
        /\ \A v \in Writers \ {w} : phase'[v] = phase[v] /\ op'[v] = op[v]
    BY DEF Gate, Goto, database, TypeInv, TypeOK
  <1>2. \A v \in Writers : EdgeView(v)' = EdgeView(v) /\ (Excludes(v)' <=> Excludes(v))
    BY <1>1 DEF EdgeView, Excludes
  <1>3. RetireInv' /\ ViewInv'
    BY <1>1, <1>2 DEF RetireInv, ViewInv, OneCounted
  <1>4. VerdictInv'
    <2> SUFFICES ASSUME NEW v \in Writers, Excludes(v) PROVE Verdict(v)'
      BY <1>2 DEF VerdictInv
    <2>1. CASE v = w
      BY <1>1, <2>1 DEF Verdict
    <2>2. CASE v # w
      <3>1. Verdict(v)
        BY DEF VerdictInv
      <3> QED
        BY <1>1, <1>2, <2>2, <3>1, VerdictKept
    <2> QED
      BY <2>1, <2>2
  <1> QED
    BY <1>3, <1>4

\* A writer that takes the lock saw at most one counted edge per axis before it did.
LEMMA BeginStep ==
    ASSUME TypeInv, TypeInv', LockInv, Retirement, NEW w \in Writers, Begin(w)
    PROVE  Retirement'
  <1> USE DEF Retirement
  <1>1. /\ UNCHANGED <<edges, edgeWrites, op, existing>>
        /\ phase[w] = "gated" /\ phase'[w] = FirstPhase(op[w])
        /\ inTxn'[w] = TRUE
        /\ \A v \in Writers \ {w} : phase'[v] = phase[v] /\ inTxn'[v] = inTxn[v]
    BY DEF Begin, Goto, database, TypeInv, TypeOK
  <1>2. \/ graphLock \in {Free, w} /\ graphLock' = w
        \/ graphLock' = graphLock
    BY DEF Begin
  <1>3. \A v \in Writers : EdgeView(v)' = EdgeView(v)
    BY <1>1 DEF EdgeView
  <1>4. \A v \in Writers \ {w} : Excludes(v)' <=> Excludes(v)
    BY <1>1, <1>2, MarkersAssumption DEF Excludes
  <1>5. Excludes(w) => Excludes(w)'
    BY <1>1, <1>2 DEF Excludes
  <1>6. RetireInv'
    <2> SUFFICES ASSUME NEW v \in Writers, ~Excludes(v)'
                 PROVE  ~Excludes(v)
      BY <1>1 DEF RetireInv, Decayed, JoinsPopulation
    <2> QED
      BY <1>4, <1>5
  <1>7. ViewInv'
    <2>1. \A v \in Writers : OneCounted(EdgeView(v))
      BY RetiredOneCounted DEF ViewInv
    <2>2. OneCounted(edges)'
      BY <1>1 DEF ViewInv, OneCounted
    <2> QED
      BY <1>3, <2>1, <2>2 DEF ViewInv, OneCounted
  <1>8. VerdictInv'
    <2>1. op[w].kind \in Updates => phase'[w] = "reading"
      BY <1>1 DEF FirstPhase, Creates, Updates
    <2>2. phase'[w] \in {"probing", "reading", "writing"}
      BY <1>1 DEF FirstPhase
    <2>3. phase'[w] = "writing" => op[w].kind \notin Creates \cup Updates
      BY <1>1 DEF FirstPhase
    <2>4. Verdict(w)'
      BY <1>1, <2>1, <2>2, <2>3 DEF Verdict
    <2>5. ASSUME NEW v \in Writers \ {w}, Excludes(v) PROVE Verdict(v)'
      <3>1. Verdict(v)
        BY <2>5 DEF VerdictInv
      <3> QED
        BY <1>1, <1>3, <3>1, VerdictKept
    <2> QED
      BY <1>4, <2>4, <2>5 DEF VerdictInv
  <1> QED
    BY <1>6, <1>7, <1>8

\* The rows a transaction commits are its view; a rollback's are the committed ones.
LEMMA EndStep ==
    ASSUME TypeInv, TypeInv', LockInv, RowLocks, Retirement, NEW w \in Writers,
           EndTransaction(w), edges' = EdgeView(w) \/ edges' = edges
    PROVE  Retirement'
  <1> USE DEF Retirement
  <1>1. /\ \A e \in Edges : edgeWrites'[w][e] = Untouched
        /\ inTxn'[w] = FALSE
        /\ \A v \in Writers \ {w} :
              /\ edgeWrites'[v] = edgeWrites[v] /\ inTxn'[v] = inTxn[v] /\ op'[v] = op[v]
              /\ phase'[v] = phase[v] /\ existing'[v] = existing[v]
        /\ graphLock' = IF graphLock = w THEN Free ELSE graphLock
    BY DEF EndTransaction, ReleaseGraphLock, Goto, TypeInv, TypeOK
  <1>2. ~Excludes(w)' /\ \A v \in Writers \ {w} : Excludes(v)' <=> Excludes(v)
    BY <1>1, MarkersAssumption DEF Excludes
  <1>3. \A v \in Writers \ {w} : \A e \in Edges :
           edgeWrites[v][e] # Untouched => edges'[e] = edges[e]
    BY DEF RowLocks, EdgeView
  <1>4. RetireInv'
    <2> SUFFICES ASSUME NEW v \in Writers, ~Excludes(v)', NEW e \in Edges,
                        edgeWrites'[v][e] # Untouched
                 PROVE  Decayed(edgeWrites'[v][e], edges'[e])
      BY DEF RetireInv, Decayed, JoinsPopulation
    <2>1. v # w
      BY <1>1
    <2>2. edgeWrites'[v][e] = edgeWrites[v][e] /\ ~Excludes(v)
      BY <1>1, <1>2, <2>1
    <2>3. edges'[e] = edges[e]
      BY <1>3, <2>1, <2>2
    <2> QED
      BY <2>2, <2>3 DEF RetireInv
  <1>5. OneCounted(edges)'
    <2>1. OneCounted(edges) /\ OneCounted(EdgeView(w))
      BY RetiredOneCounted DEF ViewInv
    <2> QED
      BY <2>1 DEF OneCounted
  <1>6. ASSUME NEW v \in Writers, Excludes(v)'
        PROVE  OneCounted(EdgeView(v))' /\ Verdict(v)'
    <2>1. v # w /\ Excludes(v) /\ ~Excludes(w)
      BY <1>2, <1>6, ExcludesUnique
    <2>2. /\ EdgeView(v) \in [Edges -> Row \cup {NoRow}]
          /\ EdgeView(v)' \in [Edges -> Row \cup {NoRow}]
          /\ edges \in [Edges -> Row \cup {NoRow}]
      BY ViewType DEF TypeInv, TypeOK, EdgeView
    <2>3. \A e \in Edges : Decayed(EdgeView(v)'[e], EdgeView(v)[e])
      <3> TAKE e \in Edges
      <3>1. CASE edgeWrites[v][e] = Untouched
        <4>1. EdgeView(v)'[e] = edges'[e] /\ EdgeView(v)[e] = edges[e]
          BY <1>1, <2>1, <3>1 DEF EdgeView
        <4>2. edges'[e] = EdgeView(w)[e] \/ edges'[e] = edges[e]
          OBVIOUS
        <4>3. Decayed(EdgeView(w)[e], edges[e]) /\ Decayed(edges[e], edges[e])
          BY <2>1, <2>2, RetiredView, DecayedReflexive
        <4> QED
          BY <4>1, <4>2, <4>3
      <3>2. CASE edgeWrites[v][e] # Untouched
        <4>1. EdgeView(v)'[e] = EdgeView(v)[e] /\ EdgeView(v)[e] \in Row \cup {NoRow}
          BY <1>1, <2>1, <2>2, <3>2 DEF EdgeView
        <4> QED
          BY <4>1, DecayedReflexive
      <3> QED
        BY <3>1, <3>2
    <2>4. OneCounted(EdgeView(v)) /\ Verdict(v)
      BY <2>1 DEF ViewInv, VerdictInv
    <2>5. OneCounted(EdgeView(v)')
      BY <2>2, <2>3, <2>4, DecayedOneCounted
    <2>6. Verdict(v)'
      BY <1>1, <2>1, <2>3, <2>4, VerdictStands
    <2>7. OneCounted(EdgeView(v))'
      BY <2>5 DEF OneCounted, Counted
    <2> QED
      BY <2>6, <2>7
  <1> QED
    BY <1>4, <1>5, <1>6 DEF ViewInv, VerdictInv

LEMMA RetirementInit == Init => Retirement
  <1> SUFFICES ASSUME Init PROVE Retirement
    OBVIOUS
  <1>1. /\ \A w \in Writers : ~inTxn[w]
        /\ \A w \in Writers : \A e \in Edges : edgeWrites[w][e] = Untouched
    BY DEF Init
  <1>2. OneCounted(edges)
    BY DEF Init, ConsistentDatabase, OneCounted
  <1> QED
    BY <1>1, <1>2 DEF Retirement, RetireInv, ViewInv, VerdictInv, Excludes

LEMMA RetirementStep ==
    ASSUME Serialized
    PROVE  TypeInv /\ LockInv /\ RowLocks /\ Retirement /\ [Next]_vars => Retirement'
  <1> SUFFICES ASSUME TypeInv, LockInv, RowLocks, Retirement, [Next]_vars PROVE Retirement'
    OBVIOUS
  <1>0. TypeInv'
    BY TypeStep
  <1>1. ASSUME NEW w \in Writers, Gate(w) PROVE Retirement'
    BY <1>0, <1>1, GateStep
  <1>2. ASSUME NEW w \in Writers, Begin(w) PROVE Retirement'
    BY <1>0, <1>2, BeginStep
  <1>3. ASSUME NEW w \in Writers, RowWork(w) PROVE Retirement'
    BY <1>0, <1>3, RowWorkStep
  <1>4. ASSUME NEW w \in Writers, Commit(w) PROVE Retirement'
    BY <1>0, <1>4, EndStep DEF Commit
  <1>5. ASSUME NEW w \in Writers, Rollback(w) PROVE Retirement'
    BY <1>0, <1>5, EndStep DEF Rollback, database
  <1>6. CASE UNCHANGED vars
    <2>1. \A v \in Writers : EdgeView(v)' = EdgeView(v) /\ (Excludes(v)' <=> Excludes(v))
      BY <1>6 DEF vars, EdgeView, Excludes
    <2>2. RetireInv' /\ ViewInv'
      BY <1>6, <2>1 DEF vars, Retirement, RetireInv, ViewInv, OneCounted
    <2>3. ASSUME NEW v \in Writers, Excludes(v) PROVE Verdict(v)'
      <3>1. Verdict(v)
        BY <2>3 DEF Retirement, VerdictInv
      <3> QED
        BY <1>0, <1>6, <2>1, <3>1, VerdictKept DEF vars
    <2> QED
      BY <2>1, <2>2, <2>3 DEF Retirement, VerdictInv
  <1> QED
    BY <1>1, <1>2, <1>3, <1>4, <1>5, <1>6 DEF Next, Quiescent

\* The inductive invariant, wherever every admitting writer is under one exclusion.
THEOREM Invariance ==
    ASSUME Serialized
    PROVE  Spec => []IInv
  <1>1. Init => IInv
    BY TypeInit, LockInit, RetirementInit DEF IInv
  <1>2. IInv /\ [Next]_vars => IInv'
    BY TypeStep, LockStep, RetirementStep DEF IInv
  <1> QED
    BY <1>1, <1>2, PTL DEF Spec

\* The declared cardinality holds in every behaviour of every workload without
\* interchange imports, and with them wherever the store captures history or
\* revisions or the engine admits one writer: probe, claim and write of every
\* admitting operation are then under one exclusion.
THEOREM CardinalityHolds ==
    ASSUME Serialized
    PROVE  Spec => []AtMostOneCounted
  <1>1. IInv => AtMostOneCounted
    BY DEF IInv, Retirement, ViewInv, OneCounted, AtMostOneCounted
  <1> QED
    BY <1>1, Invariance, PTL

\* On an engine with concurrent write transactions, a transaction that commits
\* without the graph write lock (a plan that gave no reason for it) has added
\* no edge to any axis, in whatever order its statements and its peers' ran.
THEOREM LockFreeWritersRetire ==
    ASSUME Serialized, ~SingleWriter
    PROVE  Spec => LockFreeCommitsOnlyRetire
  <1>1. ASSUME IInv, NEW w \in Writers, Commit(w), graphLock # w,
               NEW e \in Edges, Counted(edges'[e])
        PROVE  CountedOn(edges[e], edges'[e].key)
    <2>1. TypeInv /\ RetireInv /\ ~Excludes(w)
      BY <1>1 DEF IInv, Retirement, Excludes
    <2>2. edges'[e] = EdgeView(w)[e]
      BY <1>1 DEF Commit
    <2>3. Decayed(EdgeView(w)[e], edges[e])
      BY <2>1, RetiredView
    <2>4. edges[e] \in Row \cup {NoRow} /\ EdgeView(w)[e] \in Row \cup {NoRow}
      BY <2>1, ViewType DEF TypeInv, TypeOK
    <2> QED
      BY <1>1, <2>2, <2>3, <2>4, DecayedCounted
  <1>2. IInv => \A w \in Writers : Commit(w) /\ graphLock # w =>
                   \A e \in Edges : Counted(edges'[e]) => CountedOn(edges[e], edges'[e].key)
    BY <1>1
  <1> QED
    BY <1>2, Invariance, PTL DEF LockFreeCommitsOnlyRetire

-----------------------------------------------------------------------------
(* Claims.  The claim of an axis names its counted edge if whoever writes a *)
(* claim excludes every other writer, and also where nothing revives,       *)
(* reopens or removes a row, whoever takes the claims.                      *)

SoleClaimants == CaptureEnabled \/ SingleWriter \/ Ops \cap {"import", "hardDelete"} = {}

OnlyRetires == Ops \subseteq {"create", "import", "update", "softDelete"} /\ Declared # "oneActive"

Claimed == SoleClaimants \/ OnlyRetires

\* At most one open transaction has written a given claim row.
ClaimLocks ==
    \A v, w \in Writers : \A k \in Keys :
        v # w => claimWrites[v][k] = Untouched \/ claimWrites[w][k] = Untouched

HoldsClaims(rows, holders) == \A e \in Edges : Counted(rows[e]) => holders[rows[e].key] = e

\* A counted row is written beside its claim, or was counted before, or its
\* writer is the only one that writes claims.
Backed(w) ==
    \A e \in Edges :
        edgeWrites[w][e] # Untouched /\ Counted(edgeWrites[w][e])
        /\ claimWrites[w][edgeWrites[w][e].key] = Untouched
        => CountedOn(edges[e], edgeWrites[w][e].key) \/ (SoleClaimants /\ Excludes(w))

\* What a writer's statements have established about its claim.
Concluded(w) ==
    /\ phase[w] \in {"probing", "claiming", "takingOver"} /\ op[w].kind \in Updates
          => FencesConstraintProbe(op[w])
    /\ phase[w] = "takingOver" => claimWrites[w][TargetKey(w)] # Untouched
    /\ /\ phase[w] = "writing"
       /\ op[w].kind \in Creates \/ (op[w].kind \in Updates /\ Reenters(op[w], existing[w]))
       /\ JoinsPopulation(TargetEnd(w))
       => claimWrites[w][TargetKey(w)] = op[w].edge
    /\ /\ SoleClaimants /\ Excludes(w)
       /\ phase[w] \in {"probing", "claiming", "takingOver", "writing"}
       /\ op[w].kind \in Updates /\ Counted(existing[w])
       => ClaimView(w)[existing[w].key] = op[w].edge
    /\ SoleClaimants /\ phase[w] = "purging" => ~Counted(EdgeView(w)[op[w].edge])

WriterClaims(w) ==
    /\ HoldsClaims(EdgeView(w), ClaimView(w))
    /\ SoleClaimants /\ ~Excludes(w) => \A k \in Keys : claimWrites[w][k] = Untouched
    /\ Backed(w)
    /\ Concluded(w)

ClaimsInv ==
    /\ ClaimLocks
    /\ HoldsClaims(edges, claims)
    /\ \A w \in Writers : WriterClaims(w)

\* What the steps below may rely on.
Known == TypeInv /\ LockInv /\ RowLocks /\ (SoleClaimants => Retirement) /\ ClaimsInv

LEMMA SoleIsSerialized == SoleClaimants => Serialized
  BY DEF SoleClaimants, Serialized

\* A row is counted only if it has a window end that counts.
LEMMA CountedJoins ==
    ASSUME NEW row \in Row \cup {NoRow}, Counted(row)
    PROVE  row \in Row /\ row.key \in Keys /\ ~row.deleted /\ JoinsPopulation(row.validTo)
  BY DEF Counted, HolderLiveness, JoinsPopulation, ClaimsWhenBornEnded, Row

LEMMA JoiningCounts ==
    ASSUME NEW row \in Row, ~row.deleted, JoinsPopulation(row.validTo)
    PROVE  Counted(row)
  BY MarkersAssumption, DeclaredAssumption
  DEF Counted, HolderLiveness, JoinsPopulation, ClaimsWhenBornEnded

LEMMA HoldsAfterRow ==
    ASSUME NEW rows \in [Edges -> Row \cup {NoRow}], NEW holders, HoldsClaims(rows, holders),
           NEW e \in Edges, NEW row, Counted(row) => holders[row.key] = e
    PROVE  HoldsClaims([rows EXCEPT ![e] = row], holders)
  <1> DEFINE new == [rows EXCEPT ![e] = row]
  <1>1. \A d \in Edges : new[d] = IF d = e THEN row ELSE rows[d]
    OBVIOUS
  <1> HIDE DEF new
  <1>2. HoldsClaims(new, holders)
    BY <1>1 DEF HoldsClaims
  <1> QED
    BY <1>2 DEF new

LEMMA HoldsAfterClaim ==
    ASSUME NEW rows \in [Edges -> Row \cup {NoRow}], NEW holders \in [Keys -> Edges \cup {NoClaim}],
           HoldsClaims(rows, holders), NEW k \in Keys, NEW holder,
           \A d \in Edges : CountedOn(rows[d], k) => d = holder
    PROVE  HoldsClaims(rows, [holders EXCEPT ![k] = holder])
  <1> DEFINE new == [holders EXCEPT ![k] = holder]
  <1>1. \A j \in Keys : new[j] = IF j = k THEN holder ELSE holders[j]
    OBVIOUS
  <1> HIDE DEF new
  <1>2. \A d \in Edges : Counted(rows[d]) => rows[d].key \in Keys
    BY CountedJoins
  <1>3. HoldsClaims(rows, new)
    BY <1>1, <1>2 DEF HoldsClaims, CountedOn
  <1> QED
    BY <1>3 DEF new

\* The writer's view changes at the claim it wrote, the other views do not.
LEMMA WrittenClaim ==
    ASSUME TypeOK, NEW w \in Writers, NEW k \in Keys, NEW holder \in Edges \cup {NoClaim},
           WriteClaim(w, k, holder), UNCHANGED claims
    PROVE  /\ ClaimView(w)' = [ClaimView(w) EXCEPT ![k] = holder]
           /\ \A v \in Writers \ {w} : claimWrites'[v] = claimWrites[v]
           /\ \A j \in Keys \ {k} : claimWrites'[w][j] = claimWrites[w][j]
           /\ claimWrites'[w][k] = holder
  <1>1. \A v \in Writers \ {w} : claimWrites'[v] = claimWrites[v]
    BY DEF WriteClaim, TypeOK
  <1>2. claimWrites'[w] = [claimWrites[w] EXCEPT ![k] = holder]
    BY DEF WriteClaim, TypeOK
  <1>3. claimWrites[w] \in [Keys -> Edges \cup {NoClaim, Untouched}]
    BY DEF TypeOK
  <1>4. claimWrites'[w][k] = holder /\ \A j \in Keys \ {k} : claimWrites'[w][j] = claimWrites[w][j]
    BY <1>2, <1>3
  <1>5. holder # Untouched
    BY MarkersAssumption
  <1>6. ClaimView(w)' = [ClaimView(w) EXCEPT ![k] = holder]
    BY <1>4, <1>5 DEF ClaimView
  <1> QED
    BY <1>1, <1>4, <1>6

\* A step that leaves a writer's rows and its operation alone leaves it its claims.
LEMMA WriterKept ==
    ASSUME NEW v \in Writers, WriterClaims(v), UNCHANGED <<edges, claims>>,
           edgeWrites'[v] = edgeWrites[v], claimWrites'[v] = claimWrites[v],
           phase'[v] = phase[v], op'[v] = op[v], existing'[v] = existing[v],
           Excludes(v)' <=> Excludes(v)
    PROVE  WriterClaims(v)'
  <1>1. EdgeView(v)' = EdgeView(v) /\ ClaimView(v)' = ClaimView(v)
    BY DEF EdgeView, ClaimView
  <1>2. TargetKey(v)' = TargetKey(v) /\ TargetEnd(v)' = TargetEnd(v)
    BY DEF TargetKey, TargetEnd
  <1>3. HoldsClaims(EdgeView(v), ClaimView(v))'
    BY <1>1 DEF WriterClaims, HoldsClaims, Counted
  <1>4. Backed(v)'
    BY DEF WriterClaims, Backed, Counted, CountedOn, SoleClaimants
  <1>5. Concluded(v)'
    BY <1>1, <1>2 DEF WriterClaims, Concluded, FencesConstraintProbe, JoinsPopulation,
       Reenters, Counted, SoleClaimants, ReentersLivePopulation, ReentersActivePopulation
  <1> QED
    BY <1>3, <1>4, <1>5 DEF WriterClaims, SoleClaimants


-----------------------------------------------------------------------------
(* Claims: the statements of row work. *)

\* An operation that may write a claim has excluded the others, if claimants do.
LEMMA ClaimantExcludes ==
    ASSUME TypeInv, LockInv, SoleClaimants, NEW w \in Writers,
           \/ phase[w] \in {"probing", "claiming", "takingOver"} /\ op[w].kind \in Creates
           \/ phase[w] \notin {"idle", "gated"} /\ FencesConstraintProbe(op[w])
           \/ phase[w] = "purging"
    PROVE  Excludes(w)
  <1>1. phase[w] \notin {"idle", "gated"} /\ op[w] \in Operation /\ inTxn[w]
    BY DEF TypeInv, PhaseOK, LockInv
  <1>2. phase[w] = "purging" => op[w].kind = "hardDelete"
    BY DEF TypeInv, PhaseOK
  <1>3. op[w].kind \in Ops
    BY <1>1 DEF Operation
  <1>4. SingleWriter \/ NeedsGraphWriteLock(op[w])
    BY <1>1, <1>2, <1>3 DEF SoleClaimants, NeedsGraphWriteLock, FencesConstraintProbe, Creates
  <1> QED
    BY <1>1, <1>4 DEF Excludes, LockInv

\* A statement that writes no row leaves its writer the verdicts it reaches.
LEMMA SilentStatement ==
    ASSUME TypeInv, NEW w \in Writers, RowWork(w), WriterClaims(w),
           UNCHANGED <<edgeWrites, claimWrites>>, Concluded(w)'
    PROVE  WriterClaims(w)'
  <1>1. UNCHANGED <<edges, claims, graphLock, inTxn>>
    BY RowWorkFrame
  <1>2. EdgeView(w)' = EdgeView(w) /\ ClaimView(w)' = ClaimView(w)
    BY <1>1 DEF EdgeView, ClaimView
  <1>3. HoldsClaims(EdgeView(w), ClaimView(w))'
    BY <1>2 DEF WriterClaims, HoldsClaims, Counted
  <1>4. Excludes(w)' <=> Excludes(w)
    BY <1>1 DEF Excludes
  <1>5. Backed(w)'
    BY <1>1, <1>4 DEF WriterClaims, Backed, Counted, CountedOn, SoleClaimants
  <1> QED
    BY <1>3, <1>4, <1>5 DEF WriterClaims, SoleClaimants

LEMMA ReadConcludes ==
    ASSUME TypeInv, TypeInv', NEW w \in Writers, Read(w), WriterClaims(w)
    PROVE  Concluded(w)'
  <1> DEFINE row == EdgeView(w)[op[w].edge]
  <1>1. /\ UNCHANGED <<edges, claims, edgeWrites, claimWrites, op>>
        /\ op[w] \in Operation /\ op[w].kind \in Updates /\ op[w].edge \in Edges
        /\ op[w].kind \notin Creates
    BY DEF Read, TypeInv, PhaseOK, Operation, frame, database, Updates, Creates
  <1>2. EdgeView(w)' = EdgeView(w) /\ ClaimView(w)' = ClaimView(w)
    BY <1>1 DEF EdgeView, ClaimView
  <1>3. row \in Row \cup {NoRow}
    BY <1>1, ViewType DEF TypeInv
  <1>4. CASE ~MayUpdate(op[w], row)
    <2>1. phase'[w] = "refused"
      BY <1>4 DEF Read, Goto, TypeInv, TypeOK
    <2> QED
      BY <2>1 DEF Concluded
  <1>5. CASE MayUpdate(op[w], row)
    <2>1. /\ existing'[w] = row
          /\ phase'[w] = IF Reenters(op[w], row) THEN "probing" ELSE "writing"
      BY <1>5 DEF Read, Goto, TypeInv, TypeOK
    <2>2. Reenters(op[w], row) => FencesConstraintProbe(op[w])
      <3> SUFFICES ASSUME Reenters(op[w], row), op[w].kind # "resurrect"
                   PROVE  FencesConstraintProbe(op[w])
        BY DEF FencesConstraintProbe
      <3>1. op[w].kind = "update" /\ ~row.deleted
        BY <1>1, <1>5 DEF MayUpdate, Updates
      <3>2. Declared = "oneActive" /\ EffectiveEnd(op[w].end, row) = Open /\ row.validTo # Open
        BY <3>1 DEF Reenters, ReentersLivePopulation, ReentersActivePopulation
      <3>3. op[w].end = Open
        BY <3>2 DEF EffectiveEnd
      <3> QED
        BY <3>1, <3>2, <3>3 DEF FencesConstraintProbe
    <2>3. Counted(row) => ClaimView(w)[row.key] = op[w].edge
      BY <1>1 DEF WriterClaims, HoldsClaims
    <2> HIDE DEF row
    <2>4. CASE Reenters(op[w], row)
      <3>1. phase'[w] = "probing"
        BY <2>1, <2>4
      <3> QED
        BY <1>1, <1>2, <2>1, <2>2, <2>3, <2>4, <3>1 DEF Concluded, FencesConstraintProbe, Counted
    <2>5. CASE ~Reenters(op[w], row)
      <3>1. phase'[w] = "writing"
        BY <2>1, <2>5
      <3>2. ~Reenters(op'[w], existing'[w])
        BY <1>1, <2>1, <2>5
      <3>3. (op[w].kind \in Creates \/ (op[w].kind \in Updates /\ Reenters(op[w], existing[w])))' = FALSE
        BY <1>1, <3>2 DEF Reenters, ReentersLivePopulation, ReentersActivePopulation
      <3> QED
        BY <1>1, <1>2, <2>1, <2>3, <3>1, <3>3 DEF Concluded, Counted
    <2> QED
      BY <2>4, <2>5
  <1> QED
    BY <1>4, <1>5

LEMMA ProbeConcludes ==
    ASSUME TypeInv, TypeInv', NEW w \in Writers, Probe(w), WriterClaims(w)
    PROVE  Concluded(w)'
  <1>1. /\ UNCHANGED <<edges, claims, edgeWrites, claimWrites, op, existing, graphLock, inTxn>>
        /\ phase[w] = "probing"
    BY DEF Probe, frame, database
  <1>2. /\ EdgeView(w)' = EdgeView(w) /\ ClaimView(w)' = ClaimView(w)
        /\ TargetKey(w)' = TargetKey(w) /\ TargetEnd(w)' = TargetEnd(w)
        /\ Excludes(w)' <=> Excludes(w)
    BY <1>1 DEF EdgeView, ClaimView, TargetKey, TargetEnd, Excludes
  <1>3. \/ ~JoinsPopulation(TargetEnd(w)) /\ phase'[w] = "writing"
        \/ phase'[w] \in {"refused", "claiming"}
    BY DEF Probe, Goto, TypeInv, TypeOK
  <1>4. Concluded(w)
    BY DEF WriterClaims
  <1>5. JoinsPopulation(TargetEnd(w))' <=> JoinsPopulation(TargetEnd(w))
    BY <1>2 DEF JoinsPopulation
  <1>6. CASE phase'[w] = "writing"
    <2>1. ~JoinsPopulation(TargetEnd(w))'
      BY <1>3, <1>5, <1>6
    <2> QED
      BY <1>1, <1>2, <1>4, <1>6, <2>1 DEF Concluded, Counted, SoleClaimants
  <1>7. CASE phase'[w] = "claiming"
    BY <1>1, <1>2, <1>4, <1>7 DEF Concluded, Counted, SoleClaimants, FencesConstraintProbe
  <1>8. CASE phase'[w] = "refused"
    BY <1>8 DEF Concluded
  <1> QED
    BY <1>3, <1>6, <1>7, <1>8

\* A claim is written while no other row of its axis counts.
LEMMA ClaimStatement ==
    ASSUME TypeInv, TypeInv', LockInv, NEW w \in Writers, LockClaim(w) \/ TakeOverClaim(w),
           UNCHANGED existing, NEW holder \in Edges \cup {NoClaim},
           WriteClaim(w, TargetKey(w), holder), WriterClaims(w), TargetKey(w) \in Keys,
           \A d \in Edges : CountedOn(EdgeView(w)[d], TargetKey(w)) => d = holder,
           phase'[w] \in {"writing", "takingOver"}, phase'[w] = "writing" => holder = op[w].edge,
           ClaimView(w)[TargetKey(w)] = op[w].edge => holder = op[w].edge
    PROVE  WriterClaims(w)'
  <1> DEFINE k == TargetKey(w)
  <1>1. /\ UNCHANGED <<edges, claims, edgeWrites, op, graphLock, inTxn>>
        /\ phase[w] \in {"claiming", "takingOver"}
    BY DEF LockClaim, TakeOverClaim, frame, database
  <1>2. /\ EdgeView(w)' = EdgeView(w) /\ TargetKey(w)' = k /\ TargetEnd(w)' = TargetEnd(w)
        /\ Excludes(w)' <=> Excludes(w)
    BY <1>1 DEF EdgeView, TargetKey, TargetEnd, Excludes
  <1>3. /\ ClaimView(w)' = [ClaimView(w) EXCEPT ![k] = holder]
        /\ claimWrites'[w][k] = holder
        /\ \A j \in Keys \ {k} : claimWrites'[w][j] = claimWrites[w][j]
    BY <1>1, WrittenClaim DEF TypeInv
  <1>4. holder # Untouched
    BY MarkersAssumption
  <1>5. /\ EdgeView(w) \in [Edges -> Row \cup {NoRow}]
        /\ ClaimView(w) \in [Keys -> Edges \cup {NoClaim}]
    BY ViewType DEF TypeInv
  <1>6. op[w].kind \in Creates \cup Updates /\ op[w] \in Operation
    BY <1>1 DEF TypeInv, PhaseOK
  <1>7. SoleClaimants => Excludes(w)
    BY <1>1, <1>6, ClaimantExcludes DEF WriterClaims, Concluded
  <1>8. HoldsClaims(EdgeView(w), ClaimView(w))'
    <2>1. HoldsClaims(EdgeView(w), [ClaimView(w) EXCEPT ![k] = holder])
      BY <1>5, HoldsAfterClaim DEF WriterClaims
    <2> QED
      BY <1>2, <1>3, <2>1 DEF HoldsClaims, Counted
  <1>9. Backed(w)'
    <2> SUFFICES ASSUME NEW e \in Edges, edgeWrites[w][e] # Untouched, Counted(edgeWrites[w][e]),
                        claimWrites'[w][edgeWrites[w][e].key] = Untouched
                 PROVE  CountedOn(edges[e], edgeWrites[w][e].key) \/ (SoleClaimants /\ Excludes(w))
      BY <1>1, <1>2 DEF Backed, Counted, CountedOn, SoleClaimants
    <2>1. edgeWrites[w][e] \in Row \cup {NoRow}
      BY DEF TypeInv, TypeOK
    <2>2. edgeWrites[w][e].key \in Keys
      BY <2>1, CountedJoins
    <2>3. claimWrites[w][edgeWrites[w][e].key] = Untouched
      BY <1>3, <1>4, <2>2
    <2> QED
      BY <2>3 DEF WriterClaims, Backed
  <1>10. Concluded(w)'
    <2>1. Concluded(w)
      BY DEF WriterClaims
    <2>2. (claimWrites[w][TargetKey(w)])' = holder
      BY <1>2, <1>3
    <2>3. ASSUME SoleClaimants, Excludes(w), op[w].kind \in Updates, Counted(existing[w])
          PROVE  ClaimView(w)'[existing[w].key] = op[w].edge
      <3>1. k = existing[w].key
        BY <2>3 DEF TargetKey, Creates, Updates
      <3>2. ClaimView(w)[k] = op[w].edge
        BY <1>1, <2>1, <2>3, <3>1 DEF Concluded
      <3> QED
        BY <1>3, <1>5, <3>1, <3>2
    <2>4. FencesConstraintProbe(op[w])' <=> FencesConstraintProbe(op[w])
      BY <1>1 DEF FencesConstraintProbe
    <2> HIDE DEF k
    <2>5. CASE phase'[w] = "writing"
      BY <1>1, <1>2, <2>2, <2>3, <2>5 DEF Concluded, SoleClaimants, Counted
    <2>6. CASE phase'[w] = "takingOver"
      BY <1>1, <1>2, <1>4, <2>1, <2>2, <2>3, <2>4, <2>6 DEF Concluded, SoleClaimants, Counted
    <2> QED
      BY <2>5, <2>6
  <1> QED
    BY <1>2, <1>7, <1>8, <1>9, <1>10 DEF WriterClaims, SoleClaimants


LEMMA LockClaimClaims ==
    ASSUME TypeInv, TypeInv', LockInv, NEW w \in Writers, LockClaim(w), WriterClaims(w)
    PROVE  WriterClaims(w)'
  <1> DEFINE k == TargetKey(w)
             holder == ClaimView(w)[k]
  <1>1. /\ op[w] \in Operation /\ op[w].edge \in Edges /\ op[w].kind \in Creates \cup Updates
        /\ phase[w] = "claiming"
    BY DEF LockClaim, TypeInv, PhaseOK, Operation
  <1>2. k \in Keys
    BY <1>1 DEF TypeInv, TypeOK, PhaseOK, TargetKey, Operation, Row
  <1>3. holder \in Edges \cup {NoClaim}
    BY <1>2, ViewType DEF TypeInv
  <1>4. \A d \in Edges : CountedOn(EdgeView(w)[d], k) => d = holder
    BY DEF WriterClaims, HoldsClaims, CountedOn
  <1>5. existing' = existing
    BY DEF LockClaim
  <1>6. CASE holder \in {NoClaim, op[w].edge}
    <2>1. WriteClaim(w, k, op[w].edge) /\ phase'[w] = "writing"
      BY <1>6 DEF LockClaim, Goto, TypeInv, TypeOK
    <2>2. \A d \in Edges : CountedOn(EdgeView(w)[d], k) => d = op[w].edge
      BY <1>4, <1>6, MarkersAssumption
    <2> HIDE DEF k, holder
    <2> QED
      BY <1>1, <1>2, <1>5, <2>1, <2>2, ClaimStatement DEF k
  <1>7. CASE holder \notin {NoClaim, op[w].edge}
    <2>1. WriteClaim(w, k, holder) /\ phase'[w] = "takingOver"
      BY <1>7 DEF LockClaim, Goto, TypeInv, TypeOK
    <2> QED
      BY <1>2, <1>3, <1>4, <1>5, <1>7, <2>1, ClaimStatement
  <1> QED
    BY <1>6, <1>7

LEMMA TakeOverClaims ==
    ASSUME TypeInv, TypeInv', LockInv, NEW w \in Writers, TakeOverClaim(w), WriterClaims(w)
    PROVE  WriterClaims(w)'
  <1> DEFINE k == TargetKey(w)
             holder == ClaimView(w)[k]
  <1>1. /\ op[w] \in Operation /\ op[w].edge \in Edges /\ op[w].kind \in Creates \cup Updates
        /\ phase[w] = "takingOver" /\ existing' = existing
    BY DEF TakeOverClaim, TypeInv, PhaseOK, Operation
  <1>2. k \in Keys
    BY <1>1 DEF TypeInv, TypeOK, PhaseOK, TargetKey, Operation, Row
  <1>3. CASE Takeable(w, holder, k) /\ WriteClaim(w, k, op[w].edge) /\ Goto(w, "writing")
    <2>1. phase'[w] = "writing"
      BY <1>3 DEF Goto, TypeInv, TypeOK
    <2>2. \A d \in Edges : ~CountedOn(EdgeView(w)[d], k)
      BY <1>3 DEF WriterClaims, HoldsClaims, CountedOn, Takeable
    <2> HIDE DEF k, holder
    <2> QED
      BY <1>1, <1>2, <1>3, <2>1, <2>2, ClaimStatement DEF k
  <1>4. CASE UNCHANGED claimWrites /\ Goto(w, "refused")
    <2>1. phase'[w] = "refused" /\ UNCHANGED edgeWrites
      BY <1>4 DEF Goto, TypeInv, TypeOK, TakeOverClaim
    <2>2. Concluded(w)'
      BY <2>1 DEF Concluded
    <2> QED
      BY <1>4, <2>1, <2>2, SilentStatement DEF RowWork
  <1> QED
    BY <1>3, <1>4, Zenon DEF TakeOverClaim

\* A row is written beside its claim, or counts as the row it replaces did.
LEMMA EdgeStatement ==
    ASSUME TypeInv, NEW w \in Writers, RowWork(w), WriterClaims(w), op[w].edge \in Edges,
           NEW row \in Row \cup {NoRow}, WriteEdge(w, op[w].edge, row), UNCHANGED claimWrites,
           phase'[w] \in {"finished", "purging"}, phase'[w] = "purging" => ~Counted(row),
           Counted(row) => ClaimView(w)[row.key] = op[w].edge,
           Counted(row) =>
              \/ claimWrites[w][row.key] # Untouched
              \/ CountedOn(EdgeView(w)[op[w].edge], row.key)
              \/ SoleClaimants /\ Excludes(w)
    PROVE  WriterClaims(w)'
  <1> DEFINE own == op[w].edge
  <1>1. UNCHANGED <<edges, claims, graphLock, inTxn, op>>
    BY RowWorkFrame
  <1>2. /\ EdgeView(w)' = [EdgeView(w) EXCEPT ![own] = row]
        /\ \A d \in Edges \ {own} : edgeWrites'[w][d] = edgeWrites[w][d]
        /\ edgeWrites'[w][own] = row
    BY <1>1, WrittenView DEF TypeInv
  <1>3. EdgeView(w) \in [Edges -> Row \cup {NoRow}]
    BY ViewType DEF TypeInv
  <1>4. ClaimView(w)' = ClaimView(w) /\ (Excludes(w)' <=> Excludes(w))
    BY <1>1 DEF ClaimView, Excludes
  <1>5. HoldsClaims(EdgeView(w), ClaimView(w))'
    <2>1. HoldsClaims([EdgeView(w) EXCEPT ![own] = row], ClaimView(w))
      BY <1>3, HoldsAfterRow DEF WriterClaims
    <2> QED
      BY <1>2, <1>4, <2>1 DEF HoldsClaims, Counted
  <1>6. Backed(w)'
    <2> SUFFICES ASSUME NEW e \in Edges, edgeWrites'[w][e] # Untouched, Counted(edgeWrites'[w][e]),
                        claimWrites[w][edgeWrites'[w][e].key] = Untouched
                 PROVE  CountedOn(edges[e], edgeWrites'[w][e].key) \/ (SoleClaimants /\ Excludes(w))
      BY <1>1, <1>4 DEF Backed, Counted, CountedOn, SoleClaimants
    <2>1. CASE e # own
      BY <1>2, <2>1 DEF WriterClaims, Backed
    <2>2. CASE e = own
      <3>1. CountedOn(EdgeView(w)[own], row.key) \/ (SoleClaimants /\ Excludes(w))
        BY <1>2, <2>2
      <3>2. CASE edgeWrites[w][own] = Untouched
        BY <1>2, <2>2, <3>1, <3>2 DEF EdgeView
      <3>3. CASE edgeWrites[w][own] # Untouched
        <4>1. EdgeView(w)[own] = edgeWrites[w][own]
          BY <3>3 DEF EdgeView
        <4> QED
          BY <1>2, <2>2, <3>1, <3>3, <4>1 DEF WriterClaims, Backed, CountedOn
      <3> QED
        BY <3>2, <3>3
    <2> QED
      BY <2>1, <2>2
  <1>7. Concluded(w)'
    <2>1. phase'[w] = "purging" => ~Counted(EdgeView(w)[own])'
      BY <1>1, <1>2, <1>3 DEF Counted
    <2> QED
      BY <1>1, <2>1 DEF Concluded, Counted
  <1> QED
    BY <1>4, <1>5, <1>6, <1>7 DEF WriterClaims, SoleClaimants

LEMMA InsertClaims ==
    ASSUME TypeInv, NEW w \in Writers, InsertEdge(w), WriterClaims(w)
    PROVE  WriterClaims(w)'
  <1> DEFINE row == [deleted |-> FALSE, key |-> op[w].key, validTo |-> op[w].end]
  <1>1. /\ op[w] \in Operation /\ op[w].edge \in Edges /\ op[w].kind \in Creates
        /\ phase[w] = "writing" /\ UNCHANGED claimWrites /\ op[w].key \in Keys
    BY DEF InsertEdge, TypeInv, PhaseOK, Operation
  <1>2. row \in Row
    BY <1>1 DEF Operation, Row
  <1>3. CASE WriteEdge(w, op[w].edge, row) /\ Goto(w, "finished")
    <2>1. phase'[w] = "finished"
      BY <1>3 DEF Goto, TypeInv, TypeOK
    <2>2. Counted(row) => claimWrites[w][op[w].key] = op[w].edge
      <3>1. Counted(row) => JoinsPopulation(op[w].end)
        BY <1>2, CountedJoins
      <3> QED
        BY <1>1, <3>1 DEF WriterClaims, Concluded, TargetKey, TargetEnd
    <2>3. op[w].edge # Untouched
      BY <1>1, MarkersAssumption
    <2>4. Counted(row) => ClaimView(w)[row.key] = op[w].edge /\ claimWrites[w][row.key] # Untouched
      BY <1>1, <2>2, <2>3 DEF ClaimView
    <2> HIDE DEF row
    <2> QED
      BY <1>1, <1>2, <1>3, <2>1, <2>4, EdgeStatement DEF RowWork
  <1>4. CASE UNCHANGED edgeWrites /\ Goto(w, "aborted")
    <2>1. phase'[w] = "aborted"
      BY <1>4 DEF Goto, TypeInv, TypeOK
    <2>2. Concluded(w)'
      BY <2>1 DEF Concluded
    <2> QED
      BY <1>1, <1>4, <2>2, SilentStatement DEF RowWork
  <1> QED
    BY <1>3, <1>4, Zenon DEF InsertEdge

\* An update that revives or reopens a row was made by a writer that had found
\* the row out of the population and claimed its axis, or had found it in it.
LEMMA UpdateIsClaimed ==
    ASSUME Claimed, TypeInv, LockInv, SoleClaimants => Retirement,
           NEW w \in Writers, WriterClaims(w), phase[w] = "writing", op[w].kind \in Updates,
           NEW row \in Row, row = EdgeView(w)[op[w].edge], UpdateMatches(w, row), ~Counted(row),
           NEW new \in Row, new.key = row.key, new.validTo = EffectiveEnd(op[w].end, row),
           Counted(new)
    PROVE  SoleClaimants /\ Excludes(w) /\ ClaimView(w)[new.key] = op[w].edge
  <1>1. /\ op[w] \in Operation /\ op[w].kind \in Ops /\ op[w].kind \notin Creates
        /\ op[w].edge \in Edges /\ existing[w] # NoRow
    BY DEF TypeInv, PhaseOK, Operation, Updates, Creates
  <1>2. JoinsPopulation(new.validTo)
    BY CountedJoins
  <1>3. FencesConstraintProbe(op[w])
    <2> SUFFICES ASSUME op[w].kind = "update", ~(op[w].end = Open /\ Declared = "oneActive")
                 PROVE  FALSE
      BY DEF FencesConstraintProbe, Updates
    <2>1. ~row.deleted
      BY DEF UpdateMatches
    <2>2. JoinsPopulation(row.validTo)
      BY <1>2, DeclaredAssumption DEF JoinsPopulation, ClaimsWhenBornEnded, EffectiveEnd
    <2> QED
      BY <2>1, <2>2, JoiningCounts
  <1>4. SoleClaimants
    <2>1. ~OnlyRetires
      BY <1>1, <1>3 DEF OnlyRetires, FencesConstraintProbe, Updates
    <2> QED
      BY <2>1 DEF Claimed
  <1>5. Excludes(w)
    BY <1>3, <1>4, ClaimantExcludes
  <1>6. /\ row.key = existing[w].key /\ existing[w] \in Row
        /\ JoinsPopulation(row.validTo) => JoinsPopulation(existing[w].validTo)
    <2>1. Decayed(row, existing[w])
      BY <1>4, <1>5 DEF Retirement, VerdictInv, Verdict
    <2>2. row # NoRow /\ existing[w] \in Row
      BY <1>1 DEF UpdateMatches, TypeInv, TypeOK
    <2> QED
      BY <2>1, <2>2 DEF Decayed
  <1>7. JoinsPopulation(TargetEnd(w)) /\ TargetKey(w) = new.key
    BY <1>1, <1>2, <1>6 DEF TargetEnd, TargetKey, EffectiveEnd
  <1>8. CASE Reenters(op[w], existing[w])
    <2>1. claimWrites[w][new.key] = op[w].edge
      BY <1>7, <1>8 DEF WriterClaims, Concluded
    <2>2. op[w].edge # Untouched /\ new.key \in Keys
      BY <1>1, MarkersAssumption DEF Row
    <2> QED
      BY <1>4, <1>5, <2>1, <2>2 DEF ClaimView
  <1>9. CASE ~Reenters(op[w], existing[w])
    <2>1. ~existing[w].deleted
      <3>1. CASE op[w].kind = "resurrect"
        BY <1>9, <3>1 DEF Reenters, ReentersLivePopulation
      <3>2. CASE op[w].kind # "resurrect"
        <4>1. op[w].end = Open /\ Declared = "oneActive"
          BY <1>1, <1>3, <3>2 DEF FencesConstraintProbe, Creates
        <4> QED
          BY <1>9, <4>1, MarkersAssumption DEF Reenters, ReentersActivePopulation, EffectiveEnd
      <3> QED
        BY <3>1, <3>2
    <2>2. JoinsPopulation(existing[w].validTo)
      <3>1. CASE Declared = "oneActive"
        <4>1. EffectiveEnd(op[w].end, existing[w]) = Open
          BY <1>1, <1>7, <3>1 DEF TargetEnd, JoinsPopulation, ClaimsWhenBornEnded
        <4> QED
          BY <1>9, <3>1, <4>1 DEF Reenters, ReentersActivePopulation, JoinsPopulation
      <3>2. CASE Declared # "oneActive"
        BY <3>2 DEF JoinsPopulation, ClaimsWhenBornEnded
      <3> QED
        BY <3>1, <3>2
    <2>3. Counted(existing[w])
      BY <1>6, <2>1, <2>2, JoiningCounts
    <2> QED
      BY <1>4, <1>5, <1>6, <2>3 DEF WriterClaims, Concluded
  <1> QED
    BY <1>8, <1>9

LEMMA UpdateClaims ==
    ASSUME Claimed, TypeInv, LockInv, SoleClaimants => Retirement,
           NEW w \in Writers, UpdateEdge(w), WriterClaims(w)
    PROVE  WriterClaims(w)'
  <1> DEFINE row == EdgeView(w)[op[w].edge]
             new == [deleted |-> FALSE, key |-> row.key, validTo |-> EffectiveEnd(op[w].end, row)]
  <1>1. /\ op[w] \in Operation /\ op[w].edge \in Edges /\ op[w].kind \in Updates
        /\ phase[w] = "writing" /\ UNCHANGED claimWrites
    BY DEF UpdateEdge, TypeInv, PhaseOK, Operation
  <1>2. CASE UpdateMatches(w, row) /\ WriteEdge(w, op[w].edge, new) /\ Goto(w, "finished")
    <2>1. phase'[w] = "finished"
      BY <1>2 DEF Goto, TypeInv, TypeOK
    <2>2. row \in Row
      <3>1. row \in Row \cup {NoRow}
        BY <1>1, ViewType DEF TypeInv
      <3> QED
        BY <1>2, <3>1 DEF UpdateMatches
    <2>3. new \in Row
      BY <1>1, <2>2, UpdatedRowType
    <2>4. new.key = row.key /\ new.validTo = EffectiveEnd(op[w].end, row)
      OBVIOUS
    <2> HIDE DEF new
    <2>5. ASSUME Counted(new)
          PROVE  /\ ClaimView(w)[new.key] = op[w].edge
                 /\ CountedOn(row, new.key) \/ (SoleClaimants /\ Excludes(w))
      <3>1. CASE Counted(row)
        BY <1>1, <2>4, <3>1 DEF WriterClaims, HoldsClaims, CountedOn
      <3>2. CASE ~Counted(row)
        <4> HIDE DEF row
        <4>1. row = EdgeView(w)[op[w].edge]
          BY DEF row
        <4> QED
          BY <1>1, <1>2, <2>2, <2>3, <2>4, <2>5, <3>2, <4>1, UpdateIsClaimed
      <3> QED
        BY <3>1, <3>2
    <2> QED
      BY <1>1, <1>2, <2>1, <2>3, <2>5, EdgeStatement DEF RowWork
  <1>3. CASE UNCHANGED edgeWrites /\ Goto(w, "diagnosing")
    <2>1. phase'[w] = "diagnosing"
      BY <1>3 DEF Goto, TypeInv, TypeOK
    <2>2. Concluded(w)'
      BY <2>1 DEF Concluded
    <2> QED
      BY <1>1, <1>3, <2>2, SilentStatement DEF RowWork
  <1> QED
    BY <1>2, <1>3, Zenon DEF UpdateEdge


LEMMA DeleteClaims ==
    ASSUME TypeInv, NEW w \in Writers, SoftDeleteEdge(w) \/ HardDeleteEdge(w), WriterClaims(w)
    PROVE  WriterClaims(w)'
  <1> DEFINE own == op[w].edge
             row == EdgeView(w)[own]
  <1>1. op[w] \in Operation /\ own \in Edges /\ UNCHANGED claimWrites
    BY DEF SoftDeleteEdge, HardDeleteEdge, TypeInv, PhaseOK, Operation
  <1>2. row \in Row \cup {NoRow} /\ RowWork(w)
    BY <1>1, ViewType DEF TypeInv, RowWork
  <1>3. UNCHANGED <<edges, op>> /\ (UNCHANGED edgeWrites => EdgeView(w)' = EdgeView(w))
    BY <1>2, RowWorkFrame DEF EdgeView
  <1>4. CASE SoftDeleteEdge(w)
    <2> DEFINE new == [row EXCEPT !.deleted = TRUE]
    <2>1. phase'[w] = "finished"
      BY <1>4 DEF SoftDeleteEdge, Goto, TypeInv, TypeOK
    <2>2. CASE row # NoRow /\ WriteEdge(w, own, new)
      <3>1. new \in Row /\ new.deleted
        BY <1>2, <2>2 DEF Row
      <3>2. ~Counted(new)
        BY <3>1 DEF Counted
      <3> HIDE DEF new
      <3> QED
        BY <1>1, <1>2, <2>1, <2>2, <3>1, <3>2, EdgeStatement
    <2>3. CASE UNCHANGED edgeWrites
      <3>1. Concluded(w)'
        BY <2>1 DEF Concluded
      <3> QED
        BY <1>1, <1>2, <2>3, <3>1, SilentStatement
    <2> QED
      BY <1>4, <2>2, <2>3, Zenon DEF SoftDeleteEdge
  <1>5. CASE HardDeleteEdge(w)
    <2>1. phase'[w] = "purging" /\ ~Counted(NoRow)
      BY <1>5 DEF HardDeleteEdge, Goto, TypeInv, TypeOK, Counted
    <2>2. CASE WriteEdge(w, own, NoRow)
      BY <1>1, <1>2, <2>1, <2>2, EdgeStatement
    <2>3. CASE row = NoRow /\ UNCHANGED edgeWrites
      <3>1. ~Counted(EdgeView(w)'[own])
        BY <1>3, <2>1, <2>3
      <3>2. Concluded(w)'
        BY <1>3, <2>1, <3>1 DEF Concluded, Counted
      <3> QED
        BY <1>1, <1>2, <2>3, <3>2, SilentStatement
    <2> QED
      BY <1>5, <2>2, <2>3 DEF HardDeleteEdge
  <1> QED
    BY <1>4, <1>5

\* The purge drops claims of a row that no longer counts.
LEMMA PurgeWritten ==
    ASSUME TypeInv, NEW w \in Writers, PurgeClaims(w)
    PROVE  \A k \in Keys :
              claimWrites'[w][k] = IF ClaimView(w)[k] = op[w].edge THEN NoClaim
                                                                    ELSE claimWrites[w][k]
  BY DEF PurgeClaims, HeldBy, TypeInv, TypeOK

LEMMA PurgeClaimsKept ==
    ASSUME Claimed, TypeInv, LockInv, NEW w \in Writers, PurgeClaims(w), WriterClaims(w)
    PROVE  WriterClaims(w)'
  <1>1. /\ op[w] \in Operation /\ op[w].kind = "hardDelete" /\ phase[w] = "purging" /\ RowWork(w)
        /\ op[w].edge \in Edges
    BY DEF PurgeClaims, TypeInv, PhaseOK, Operation, RowWork
  <1>2. SoleClaimants /\ Excludes(w)
    <2>1. op[w].kind \in Ops
      BY <1>1 DEF Operation
    <2>2. SoleClaimants
      BY <1>1, <2>1 DEF Claimed, OnlyRetires
    <2> QED
      BY <1>1, <2>2, ClaimantExcludes
  <1>3. /\ UNCHANGED <<edges, claims, edgeWrites, graphLock, inTxn, op>>
        /\ phase'[w] = "finished"
    BY <1>1, RowWorkFrame DEF PurgeClaims, Goto, TypeInv, TypeOK
  <1>4. EdgeView(w)' = EdgeView(w) /\ (Excludes(w)' <=> Excludes(w))
    BY <1>3 DEF EdgeView, Excludes
  <1>5. ~Counted(EdgeView(w)[op[w].edge])
    BY <1>1, <1>2 DEF WriterClaims, Concluded
  <1>6. \A k \in Keys : ClaimView(w)[k] # op[w].edge => ClaimView(w)'[k] = ClaimView(w)[k]
    BY <1>3, PurgeWritten DEF ClaimView
  <1>7. HoldsClaims(EdgeView(w), ClaimView(w))'
    <2> SUFFICES ASSUME NEW e \in Edges, Counted(EdgeView(w)[e])
                 PROVE  ClaimView(w)'[EdgeView(w)[e].key] = e
      BY <1>4 DEF HoldsClaims, Counted
    <2>1. ClaimView(w)[EdgeView(w)[e].key] = e /\ e # op[w].edge
      BY <1>5 DEF WriterClaims, HoldsClaims
    <2>2. EdgeView(w)[e].key \in Keys
      BY ViewType, CountedJoins DEF TypeInv
    <2> QED
      BY <1>6, <2>1, <2>2
  <1>8. Backed(w)' /\ Concluded(w)'
    BY <1>2, <1>3, <1>4 DEF Backed, Concluded, SoleClaimants
  <1> QED
    BY <1>2, <1>4, <1>7, <1>8 DEF WriterClaims

LEMMA DiagnoseClaims ==
    ASSUME TypeInv, NEW w \in Writers, DiagnoseUnmatched(w), WriterClaims(w)
    PROVE  WriterClaims(w)'
  <1>1. phase'[w] \in {"reading", "refused"} /\ UNCHANGED <<edgeWrites, claimWrites>>
    BY DEF DiagnoseUnmatched, Goto, TypeInv, TypeOK
  <1>2. Concluded(w)'
    BY <1>1 DEF Concluded
  <1> QED
    BY <1>1, <1>2, SilentStatement DEF RowWork

\* A statement writes claims that no other open transaction has written.
LEMMA RowWorkClaims ==
    ASSUME TypeInv, NEW w \in Writers, RowWork(w), Concluded(w)
    PROVE  /\ \A v \in Writers \ {w} : claimWrites'[v] = claimWrites[v]
           /\ \A k \in Keys : \/ claimWrites'[w][k] = claimWrites[w][k]
                              \/ claimWrites[w][k] # Untouched
                              \/ ClaimWriters(w, k) = {}
  <1>1. CASE UNCHANGED claimWrites
    BY <1>1
  <1>2. ASSUME NEW holder, WriteClaim(w, TargetKey(w), holder),
               claimWrites[w][TargetKey(w)] # Untouched \/ ClaimWriters(w, TargetKey(w)) = {}
        PROVE  /\ \A v \in Writers \ {w} : claimWrites'[v] = claimWrites[v]
               /\ \A k \in Keys : \/ claimWrites'[w][k] = claimWrites[w][k]
                                  \/ claimWrites[w][k] # Untouched
                                  \/ ClaimWriters(w, k) = {}
    <2>1. claimWrites'[w] = [claimWrites[w] EXCEPT ![TargetKey(w)] = holder]
      BY <1>2 DEF WriteClaim, TypeInv, TypeOK
    <2>2. \A k \in Keys : k # TargetKey(w) => claimWrites'[w][k] = claimWrites[w][k]
      BY <2>1 DEF TypeInv, TypeOK
    <2> QED
      BY <1>2, <2>2 DEF WriteClaim, TypeInv, TypeOK
  <1>3. CASE LockClaim(w)
    BY <1>2, <1>3 DEF LockClaim
  <1>4. CASE TakeOverClaim(w)
    <2>1. claimWrites[w][TargetKey(w)] # Untouched
      BY <1>4 DEF TakeOverClaim, Concluded
    <2> QED
      BY <1>1, <1>2, <1>4, <2>1 DEF TakeOverClaim
  <1>5. CASE PurgeClaims(w)
    <2>1. \A k \in Keys : ClaimView(w)[k] = op[w].edge => ClaimWriters(w, k) = {}
      BY <1>5 DEF PurgeClaims, HeldBy
    <2> QED
      BY <1>5, <2>1, PurgeWritten DEF PurgeClaims, TypeInv, TypeOK
  <1> QED
    BY <1>1, <1>3, <1>4, <1>5 DEF RowWork, Read, Probe, InsertEdge, UpdateEdge,
       DiagnoseUnmatched, SoftDeleteEdge, HardDeleteEdge

LEMMA RowWorkClaimsInv ==
    ASSUME Claimed, Known, TypeInv', NEW w \in Writers, RowWork(w)
    PROVE  ClaimsInv'
  <1> USE DEF Known
  <1>1. /\ UNCHANGED <<edges, claims, graphLock, inTxn, op>>
        /\ \A v \in Writers \ {w} : phase'[v] = phase[v] /\ existing'[v] = existing[v]
    BY RowWorkFrame
  <1>2. \A v \in Writers \ {w} : edgeWrites'[v] = edgeWrites[v]
    BY RowWorkWrites DEF WriteEdge, TypeInv, TypeOK
  <1>3. WriterClaims(w) /\ Concluded(w)
    BY DEF ClaimsInv, WriterClaims
  <1>4. ClaimLocks'
    <2> SUFFICES ASSUME NEW u \in Writers, NEW v \in Writers, NEW k \in Keys, u # v,
                        claimWrites'[u][k] # Untouched, claimWrites'[v][k] # Untouched
                 PROVE  FALSE
      BY DEF ClaimLocks
    <2>1. claimWrites[u][k] = Untouched \/ claimWrites[v][k] = Untouched
      BY DEF ClaimsInv, ClaimLocks
    <2>2. \A x \in Writers \ {w} : claimWrites'[x] = claimWrites[x]
      BY <1>3, RowWorkClaims
    <2>3. \/ claimWrites'[w][k] = claimWrites[w][k]
          \/ claimWrites[w][k] # Untouched
          \/ ClaimWriters(w, k) = {}
      BY <1>3, RowWorkClaims
    <2>4. CASE u = w
      BY <2>1, <2>2, <2>3, <2>4 DEF ClaimWriters
    <2>5. CASE v = w
      BY <2>1, <2>2, <2>3, <2>5 DEF ClaimWriters
    <2>6. CASE u # w /\ v # w
      BY <2>1, <2>2, <2>6
    <2> QED
      BY <2>4, <2>5, <2>6
  <1>5. HoldsClaims(edges, claims)'
    BY <1>1 DEF ClaimsInv, HoldsClaims, Counted
  <1>6. WriterClaims(w)'
    <2>1. CASE Read(w) \/ Probe(w)
      <3>1. UNCHANGED <<edgeWrites, claimWrites>>
        BY <2>1 DEF Read, Probe
      <3>2. Concluded(w)'
        BY <1>3, <2>1, ReadConcludes, ProbeConcludes
      <3> QED
        BY <1>3, <3>1, <3>2, SilentStatement
    <2> QED
      BY <1>3, <2>1, LockClaimClaims, TakeOverClaims, InsertClaims, UpdateClaims, DeleteClaims,
         PurgeClaimsKept, DiagnoseClaims DEF RowWork
  <1>7. ASSUME NEW v \in Writers \ {w} PROVE WriterClaims(v)'
    <2>1. claimWrites'[v] = claimWrites[v]
      BY <1>3, RowWorkClaims
    <2>2. Excludes(v)' <=> Excludes(v)
      BY <1>1 DEF Excludes
    <2>3. WriterClaims(v)
      BY DEF ClaimsInv
    <2> QED
      BY <1>1, <1>2, <2>1, <2>2, <2>3, WriterKept
  <1> QED
    BY <1>4, <1>5, <1>6, <1>7 DEF ClaimsInv


-----------------------------------------------------------------------------
(* Claims: the frame of an operation. *)

LEMMA GateClaims ==
    ASSUME Known, NEW w \in Writers, Gate(w)
    PROVE  ClaimsInv'
  <1> USE DEF Known
  <1>1. /\ UNCHANGED <<edges, claims, edgeWrites, claimWrites, graphLock, inTxn, existing>>
        /\ phase'[w] = "gated"
        /\ \A v \in Writers \ {w} : phase'[v] = phase[v] /\ op'[v] = op[v]
    BY DEF Gate, Goto, database, TypeInv, TypeOK
  <1>2. /\ \A v \in Writers : Excludes(v)' <=> Excludes(v)
        /\ EdgeView(w)' = EdgeView(w) /\ ClaimView(w)' = ClaimView(w)
    BY <1>1 DEF Excludes, EdgeView, ClaimView
  <1>3. ClaimLocks' /\ HoldsClaims(edges, claims)'
    BY <1>1 DEF ClaimsInv, ClaimLocks, HoldsClaims, Counted
  <1>4. WriterClaims(w)'
    <2>1. WriterClaims(w)
      BY DEF ClaimsInv
    <2>2. HoldsClaims(EdgeView(w), ClaimView(w))'
      BY <1>2, <2>1 DEF WriterClaims, HoldsClaims, Counted
    <2>3. Backed(w)'
      BY <1>1, <1>2, <2>1 DEF WriterClaims, Backed, Counted, CountedOn, SoleClaimants
    <2>4. Concluded(w)'
      BY <1>1 DEF Concluded
    <2> QED
      BY <1>1, <1>2, <2>1, <2>2, <2>3, <2>4 DEF WriterClaims, SoleClaimants
  <1>5. ASSUME NEW v \in Writers \ {w} PROVE WriterClaims(v)'
    <2>1. WriterClaims(v)
      BY DEF ClaimsInv
    <2> QED
      BY <1>1, <1>2, <2>1, WriterKept
  <1> QED
    BY <1>3, <1>4, <1>5 DEF ClaimsInv

LEMMA BeginClaims ==
    ASSUME Known, NEW w \in Writers, Begin(w)
    PROVE  ClaimsInv'
  <1> USE DEF Known
  <1>1. /\ UNCHANGED <<edges, claims, edgeWrites, claimWrites, op, existing>>
        /\ phase[w] = "gated" /\ phase'[w] = FirstPhase(op[w]) /\ inTxn'[w] = TRUE
        /\ \A v \in Writers \ {w} : phase'[v] = phase[v] /\ inTxn'[v] = inTxn[v]
    BY DEF Begin, Goto, database, TypeInv, TypeOK
  <1>2. \/ graphLock \in {Free, w} /\ graphLock' = w
        \/ graphLock' = graphLock
    BY DEF Begin
  <1>3. /\ \A v \in Writers \ {w} : Excludes(v)' <=> Excludes(v)
        /\ Excludes(w) => Excludes(w)'
    BY <1>1, <1>2, MarkersAssumption DEF Excludes
  <1>4. EdgeView(w)' = EdgeView(w) /\ ClaimView(w)' = ClaimView(w)
    BY <1>1 DEF EdgeView, ClaimView
  <1>5. ClaimLocks' /\ HoldsClaims(edges, claims)'
    BY <1>1 DEF ClaimsInv, ClaimLocks, HoldsClaims, Counted
  <1>6. WriterClaims(w)'
    <2>1. WriterClaims(w)
      BY DEF ClaimsInv
    <2>2. HoldsClaims(EdgeView(w), ClaimView(w))'
      BY <1>4, <2>1 DEF WriterClaims, HoldsClaims, Counted
    <2>3. Backed(w)'
      BY <1>1, <1>3, <2>1 DEF WriterClaims, Backed, Counted, CountedOn, SoleClaimants
    <2>4. \/ phase'[w] = "probing" /\ op[w].kind \notin Updates
          \/ phase'[w] = "reading"
          \/ phase'[w] = "writing" /\ op[w].kind \notin Creates \cup Updates
      BY <1>1 DEF FirstPhase, Creates, Updates
    <2>5. Concluded(w)'
      BY <1>1, <2>4 DEF Concluded
    <2> QED
      BY <1>1, <1>3, <2>1, <2>2, <2>3, <2>5 DEF WriterClaims, SoleClaimants
  <1>7. ASSUME NEW v \in Writers \ {w} PROVE WriterClaims(v)'
    <2>1. WriterClaims(v)
      BY DEF ClaimsInv
    <2> QED
      BY <1>1, <1>3, <2>1, WriterKept
  <1> QED
    BY <1>5, <1>6, <1>7 DEF ClaimsInv

\* A transaction that ends leaves the others their rows and operations.
LEMMA EndFrame ==
    ASSUME TypeInv, NEW w \in Writers, EndTransaction(w)
    PROVE  /\ \A e \in Edges : edgeWrites'[w][e] = Untouched
           /\ \A k \in Keys : claimWrites'[w][k] = Untouched
           /\ phase'[w] = "idle"
           /\ \A v \in Writers \ {w} :
                 /\ edgeWrites'[v] = edgeWrites[v] /\ claimWrites'[v] = claimWrites[v]
                 /\ op'[v] = op[v] /\ phase'[v] = phase[v] /\ existing'[v] = existing[v]
                 /\ Excludes(v)' <=> Excludes(v)
  <1>1. /\ \A e \in Edges : edgeWrites'[w][e] = Untouched
        /\ \A k \in Keys : claimWrites'[w][k] = Untouched
        /\ phase'[w] = "idle"
        /\ graphLock' = IF graphLock = w THEN Free ELSE graphLock
        /\ \A v \in Writers \ {w} :
              /\ edgeWrites'[v] = edgeWrites[v] /\ claimWrites'[v] = claimWrites[v]
              /\ op'[v] = op[v] /\ phase'[v] = phase[v] /\ existing'[v] = existing[v]
              /\ inTxn'[v] = inTxn[v]
    BY DEF EndTransaction, ReleaseGraphLock, Goto, TypeInv, TypeOK
  <1> QED
    BY <1>1, MarkersAssumption DEF Excludes

\* What a peer has written keeps its claims when a transaction commits.
LEMMA PeerHolds ==
    ASSUME Known, NEW w \in Writers, NEW v \in Writers, v # w, Commit(w)
    PROVE  HoldsClaims(EdgeView(v), ClaimView(v))'
  <1> USE DEF Known
  <1>1. edges' = EdgeView(w) /\ claims' = ClaimView(w)
    BY DEF Commit
  <1>2. edgeWrites'[v] = edgeWrites[v] /\ claimWrites'[v] = claimWrites[v]
    BY EndFrame DEF Commit
  <1>3. /\ \A e \in Edges : EdgeView(v)'[e] = IF edgeWrites[v][e] = Untouched THEN EdgeView(w)[e]
                                              ELSE edgeWrites[v][e]
        /\ \A k \in Keys : ClaimView(v)'[k] = IF claimWrites[v][k] = Untouched THEN ClaimView(w)[k]
                                              ELSE claimWrites[v][k]
    BY <1>1, <1>2 DEF EdgeView, ClaimView
  <1>4. WriterClaims(v) /\ WriterClaims(w)
    BY DEF ClaimsInv
  <1>5. Excludes(v) => ~Excludes(w)
    BY ExcludesUnique
  <1> SUFFICES ASSUME NEW e \in Edges, Counted(EdgeView(v)'[e])
               PROVE  ClaimView(v)'[EdgeView(v)'[e].key] = e
    BY DEF HoldsClaims, Counted
  <1> DEFINE row == EdgeView(v)'[e]
             k == row.key
  <1>6. row \in Row \cup {NoRow} /\ k \in Keys
    <2>1. EdgeView(w)[e] \in Row \cup {NoRow}
      BY ViewType DEF TypeInv
    <2>2. edgeWrites[v][e] \in Row \cup {NoRow, Untouched}
      BY DEF TypeInv, TypeOK
    <2>3. row \in Row \cup {NoRow}
      BY <1>3, <2>1, <2>2
    <2> QED
      BY <2>3, CountedJoins
  <1>7. CASE edgeWrites[v][e] # Untouched
    <2>1. row = edgeWrites[v][e] /\ EdgeView(v)[e] = row /\ ClaimView(v)[k] = e
      BY <1>3, <1>4, <1>7 DEF EdgeView, WriterClaims, HoldsClaims
    <2>2. EdgeView(w)[e] = edges[e]
      BY <1>7 DEF RowLocks, EdgeView
    <2>3. CASE claimWrites[v][k] # Untouched
      BY <1>3, <1>6, <2>1, <2>3 DEF ClaimView
    <2>4. CASE claimWrites[v][k] = Untouched
      <3>1. CountedOn(edges[e], k) \/ (SoleClaimants /\ Excludes(v))
        BY <1>4, <1>7, <2>1, <2>4 DEF WriterClaims, Backed
      <3>2. CASE CountedOn(edges[e], k)
        <4>1. ClaimView(w)[k] = e
          BY <1>4, <2>2, <3>2 DEF WriterClaims, HoldsClaims, CountedOn
        <4> QED
          BY <1>3, <1>6, <2>4, <4>1
      <3>3. CASE SoleClaimants /\ Excludes(v)
        <4>1. claimWrites[w][k] = Untouched
          BY <1>4, <1>5, <1>6, <3>3 DEF WriterClaims
        <4>2. ClaimView(w)[k] = ClaimView(v)[k]
          BY <1>6, <2>4, <4>1 DEF ClaimView
        <4> QED
          BY <1>3, <1>6, <2>1, <2>4, <4>2
      <3> QED
        BY <3>1, <3>2, <3>3
    <2> QED
      BY <2>3, <2>4
  <1>8. CASE edgeWrites[v][e] = Untouched
    <2>1. row = EdgeView(w)[e] /\ ClaimView(w)[k] = e
      BY <1>3, <1>4, <1>8 DEF WriterClaims, HoldsClaims
    <2>2. CASE claimWrites[v][k] = Untouched
      BY <1>3, <1>6, <2>1, <2>2
    <2>3. CASE claimWrites[v][k] # Untouched
      <3>1. claimWrites[w][k] = Untouched
        BY <1>6, <2>3 DEF ClaimsInv, ClaimLocks
      <3>2. CountedOn(edges[e], k)
        <4>1. CASE edgeWrites[w][e] = Untouched
          BY <2>1, <4>1 DEF EdgeView, CountedOn
        <4>2. CASE edgeWrites[w][e] # Untouched
          <5>1. row = edgeWrites[w][e]
            BY <2>1, <4>2 DEF EdgeView
          <5>2. ~(SoleClaimants /\ Excludes(w))
            BY <1>4, <1>5, <1>6, <2>3 DEF WriterClaims
          <5> QED
            BY <1>4, <3>1, <4>2, <5>1, <5>2 DEF WriterClaims, Backed
        <4> QED
          BY <4>1, <4>2
      <3>3. ClaimView(v)[k] = e
        BY <1>4, <1>8, <3>2 DEF WriterClaims, HoldsClaims, EdgeView, CountedOn
      <3> QED
        BY <1>3, <1>6, <2>3, <3>3 DEF ClaimView
    <2> QED
      BY <2>2, <2>3
  <1> QED
    BY <1>7, <1>8

\* What a peer has concluded stands when a transaction ends.
LEMMA PeerConcludes ==
    ASSUME Known, NEW w \in Writers, NEW v \in Writers, v # w,
           Commit(w) \/ (EndTransaction(w) /\ UNCHANGED <<edges, claims>>)
    PROVE  Concluded(v)'
  <1> USE DEF Known
  <1>1. /\ edgeWrites'[v] = edgeWrites[v] /\ claimWrites'[v] = claimWrites[v]
        /\ op'[v] = op[v] /\ phase'[v] = phase[v] /\ existing'[v] = existing[v]
        /\ Excludes(v)' <=> Excludes(v)
    BY EndFrame DEF Commit
  <1>2. TargetKey(v)' = TargetKey(v) /\ TargetEnd(v)' = TargetEnd(v)
    BY <1>1 DEF TargetKey, TargetEnd
  <1>3. WriterClaims(v) /\ WriterClaims(w) /\ Concluded(v)
    BY DEF ClaimsInv, WriterClaims
  <1>4. SoleClaimants /\ Excludes(v) => ClaimView(v)' = ClaimView(v)
    <2>1. CASE Commit(w)
      <3> SUFFICES ASSUME SoleClaimants, Excludes(v) PROVE ClaimView(v)' = ClaimView(v)
        OBVIOUS
      <3>1. \A k \in Keys : claimWrites[w][k] = Untouched
        BY <1>3, ExcludesUnique DEF WriterClaims
      <3>2. \A k \in Keys : claims'[k] = claims[k]
        BY <2>1, <3>1 DEF Commit, ClaimView
      <3> QED
        BY <1>1, <3>2 DEF ClaimView
    <2>2. CASE UNCHANGED <<edges, claims>>
      BY <1>1, <2>2 DEF ClaimView
    <2> QED
      BY <2>1, <2>2
  <1>5. ASSUME SoleClaimants, phase[v] = "purging"
        PROVE  EdgeView(v)' = EdgeView(v)
    <2>1. Excludes(v)
      BY <1>5, ClaimantExcludes
    <2>2. CASE Commit(w)
      <3>1. op[v].kind = "hardDelete" /\ op[v].kind \in Ops
        BY <1>5 DEF TypeInv, PhaseOK, Operation
      <3>2. CaptureEnabled \/ SingleWriter
        BY <1>5, <3>1 DEF SoleClaimants
      <3>3. inTxn[w] /\ phase[w] \in {"finished", "refused"}
        BY <2>2 DEF Commit
      <3>4. Excludes(w)
        BY <3>2, <3>3 DEF Excludes, LockInv, NeedsGraphWriteLock
      <3> QED
        BY <2>1, <3>4, ExcludesUnique
    <2>3. CASE UNCHANGED <<edges, claims>>
      BY <1>1, <2>3 DEF EdgeView
    <2> QED
      BY <2>2, <2>3
  <1>6. FencesConstraintProbe(op[v])' <=> FencesConstraintProbe(op[v])
    BY <1>1 DEF FencesConstraintProbe
  <1>7. JoinsPopulation(TargetEnd(v))' <=> JoinsPopulation(TargetEnd(v))
    BY <1>2 DEF JoinsPopulation
  <1>8. Reenters(op[v], existing[v])' <=> Reenters(op[v], existing[v])
    BY <1>1 DEF Reenters, ReentersLivePopulation, ReentersActivePopulation
  <1> QED
    BY <1>1, <1>2, <1>3, <1>4, <1>5, <1>6, <1>7, <1>8 DEF Concluded, Counted, SoleClaimants

LEMMA EndClaims ==
    ASSUME Known, NEW w \in Writers,
           Commit(w) \/ (EndTransaction(w) /\ UNCHANGED <<edges, claims>>)
    PROVE  ClaimsInv'
  <1> USE DEF Known
  <1>1. EndTransaction(w)
    BY DEF Commit
  <1>2. ClaimLocks'
    BY <1>1, EndFrame DEF ClaimsInv, ClaimLocks
  <1>3. HoldsClaims(edges', claims')
    BY DEF ClaimsInv, WriterClaims, Commit
  <1>4. HoldsClaims(edges, claims)'
    BY <1>3 DEF HoldsClaims, Counted
  <1>5. WriterClaims(w)'
    <2>1. \A e \in Edges : EdgeView(w)'[e] = edges'[e]
      BY <1>1, EndFrame DEF EdgeView
    <2>2. \A k \in Keys : ClaimView(w)'[k] = claims'[k]
      BY <1>1, EndFrame DEF ClaimView
    <2>3. edges \in [Edges -> Row \cup {NoRow}] /\ EdgeView(w) \in [Edges -> Row \cup {NoRow}]
      BY ViewType DEF TypeInv, TypeOK
    <2>4. \A e \in Edges : Counted(edges'[e]) => edges'[e].key \in Keys
      BY <2>3, CountedJoins DEF Commit
    <2>5. HoldsClaims(EdgeView(w), ClaimView(w))'
      BY <1>3, <2>1, <2>2, <2>4 DEF HoldsClaims, Counted
    <2> QED
      BY <1>1, <2>5, EndFrame DEF WriterClaims, Backed, Concluded
  <1>6. ASSUME NEW v \in Writers \ {w} PROVE WriterClaims(v)'
    <2>1. /\ edgeWrites'[v] = edgeWrites[v] /\ claimWrites'[v] = claimWrites[v]
          /\ Excludes(v)' <=> Excludes(v)
      BY <1>1, EndFrame
    <2>2. WriterClaims(v)
      BY DEF ClaimsInv
    <2>3. HoldsClaims(EdgeView(v), ClaimView(v))'
      <3>1. CASE Commit(w)
        BY <3>1, PeerHolds
      <3>2. CASE UNCHANGED <<edges, claims>>
        <4>1. EdgeView(v)' = EdgeView(v) /\ ClaimView(v)' = ClaimView(v)
          BY <2>1, <3>2 DEF EdgeView, ClaimView
        <4> QED
          BY <2>2, <4>1 DEF WriterClaims, HoldsClaims, Counted
      <3> QED
        BY <3>1, <3>2
    <2>4. \A e \in Edges : edgeWrites[v][e] # Untouched => edges'[e] = edges[e]
      BY DEF RowLocks, EdgeView, Commit
    <2>5. Backed(v)'
      BY <2>1, <2>2, <2>4 DEF WriterClaims, Backed, Counted, CountedOn, SoleClaimants
    <2> QED
      BY <2>1, <2>2, <2>3, <2>5, PeerConcludes DEF WriterClaims, SoleClaimants
  <1> QED
    BY <1>2, <1>4, <1>5, <1>6 DEF ClaimsInv

LEMMA ClaimsInit == Init => ClaimsInv
  <1> SUFFICES ASSUME Init PROVE ClaimsInv
    OBVIOUS
  <1>1. ClaimLocks /\ HoldsClaims(edges, claims)
    BY DEF Init, ClaimLocks, ConsistentDatabase, HoldsClaims
  <1>2. ASSUME NEW w \in Writers PROVE WriterClaims(w)
    <2>1. EdgeView(w) = edges /\ ClaimView(w) = claims
      BY <1>2 DEF Init, EdgeView, ClaimView
    <2> QED
      BY <1>1, <2>1 DEF Init, WriterClaims, Backed, Concluded
  <1> QED
    BY <1>1, <1>2 DEF ClaimsInv

\* The inductive invariant of the claims.
LEMMA KnownHolds ==
    ASSUME Claimed
    PROVE  Spec => []Known
  <1>1. Init => Known
    BY TypeInit, LockInit, RetirementInit, ClaimsInit DEF Known
  <1>2. Known /\ [Next]_vars => Known'
    <2> SUFFICES ASSUME Known, [Next]_vars PROVE Known'
      OBVIOUS
    <2>1. TypeInv' /\ LockInv' /\ RowLocks'
      BY TypeStep, LockStep DEF Known
    <2>2. SoleClaimants => Retirement'
      BY SoleIsSerialized, RetirementStep DEF Known
    <2>3. ClaimsInv'
      <3>1. ASSUME NEW w \in Writers, Gate(w) \/ Begin(w) \/ RowWork(w) \/ Commit(w) \/ Rollback(w)
            PROVE  ClaimsInv'
        BY <2>1, <3>1, GateClaims, BeginClaims, RowWorkClaimsInv, EndClaims DEF Rollback, database
      <3>2. CASE UNCHANGED vars
        <4>1. ClaimLocks' /\ HoldsClaims(edges, claims)'
          BY <3>2 DEF vars, Known, ClaimsInv, ClaimLocks, HoldsClaims, Counted
        <4>2. \A w \in Writers : WriterClaims(w)'
          BY <3>2, WriterKept DEF vars, Known, ClaimsInv, Excludes
        <4> QED
          BY <4>1, <4>2 DEF ClaimsInv
      <3> QED
        BY <3>1, <3>2 DEF Next, Quiescent
    <2> QED
      BY <2>1, <2>2, <2>3 DEF Known, SoleClaimants
  <1> QED
    BY <1>1, <1>2, PTL DEF Spec

\* The claim row of an axis names its counted edge wherever writers of claims
\* exclude one another (history, revisions or a single-writer engine, or neither
\* imports nor hard deletes), and beside imports where no operation revives,
\* reopens or removes a row: an import that waits for a claim is then refused by
\* exactly the edges that count.
THEOREM ClaimsHeld ==
    ASSUME Claimed
    PROVE  Spec => []CountedHoldsClaim
  <1>1. Known => CountedHoldsClaim
    BY DEF Known, ClaimsInv, HoldsClaims, CountedHoldsClaim
  <1> QED
    BY <1>1, KnownHolds, PTL

\* So claims alone, without the lock, keep the cardinality beside such imports.
THEOREM ClaimsKeepCardinality ==
    ASSUME Claimed
    PROVE  Spec => []AtMostOneCounted
  <1>1. Known => AtMostOneCounted
    BY DEF Known, ClaimsInv, HoldsClaims, AtMostOneCounted
  <1> QED
    BY <1>1, KnownHolds, PTL

\* Where capture or the engine keeps writers apart, the purge of a hard delete
\* drops no claim of a row that counts, in its own view or committed since.
THEOREM PurgesAreHousekeeping ==
    ASSUME CaptureEnabled \/ SingleWriter
    PROVE  Spec => PurgeDropsOnlyTakeableClaims
  <1>1. SoleClaimants /\ Claimed
    BY DEF SoleClaimants, Claimed
  <1> DEFINE Drops == \A w \in Writers : PurgeClaims(w) =>
                         \A k \in HeldBy(w, op[w].edge) : ~CountedOn(EdgeView(w)[op[w].edge], k)
  <1>2. Known => Drops
    BY <1>1 DEF Known, ClaimsInv, WriterClaims, Concluded, PurgeClaims, CountedOn
  <1>3. Known /\ [Next]_vars => [Drops]_vars
    BY <1>2
  <1> QED
    BY <1>1, <1>3, KnownHolds, PTL DEF Spec, PurgeDropsOnlyTakeableClaims


-----------------------------------------------------------------------------
(* The refinement.  Without user transactions a commit carries the one row  *)
(* of its operation, whose endpoints never change, so it moves one edge in  *)
(* or out of one axis.                                                      *)

SameKey(new, old) == new # NoRow /\ old # NoRow => new.key = old.key

\* What a transaction has written: the row of its one operation, and no
\* statement that writes a row is still to come.
SingleWrites ==
    \A w \in Writers : \A e \in Edges : edgeWrites[w][e] # Untouched =>
        /\ e = op[w].edge
        /\ phase[w] \in {"purging", "finished"}
        /\ SameKey(edgeWrites[w][e], edges[e])

\* A statement of row work writes no edge row, or the first row of its
\* transaction, under the endpoints the view shows.
LEMMA OwnRowWritten ==
    ASSUME TypeInv, NEW w \in Writers, RowWork(w)
    PROVE  \/ UNCHANGED edgeWrites /\ (phase[w] = "purging" => phase'[w] = "finished")
                                   /\ phase[w] # "finished"
           \/ /\ phase[w] = "writing"
              /\ phase'[w] \in {"purging", "finished"}
              /\ \E row \in Row \cup {NoRow} :
                    /\ WriteEdge(w, op[w].edge, row)
                    /\ SameKey(row, EdgeView(w)[op[w].edge])
  <1>1. CASE Read(w) \/ Probe(w) \/ LockClaim(w) \/ TakeOverClaim(w) \/ DiagnoseUnmatched(w)
             \/ PurgeClaims(w)
    BY <1>1 DEF Read, Probe, LockClaim, TakeOverClaim, DiagnoseUnmatched, PurgeClaims,
                Goto, TypeInv, TypeOK
  <1>2. CASE InsertEdge(w) /\ UNCHANGED edgeWrites
    BY <1>2 DEF InsertEdge
  <1>3. CASE InsertEdge(w) /\ ~UNCHANGED edgeWrites
    <2>1. [deleted |-> FALSE, key |-> op[w].key, validTo |-> op[w].end] \in Row
      BY <1>3 DEF InsertEdge, TypeInv, PhaseOK, Operation, Row
    <2> QED
      BY <1>3, <2>1 DEF InsertEdge, SameKey, Goto, TypeInv, TypeOK
  <1>4. CASE UpdateEdge(w) /\ UNCHANGED edgeWrites
    BY <1>4 DEF UpdateEdge
  <1>5. CASE UpdateEdge(w) /\ ~UNCHANGED edgeWrites
    <2> DEFINE row == EdgeView(w)[op[w].edge]
               new == [deleted |-> FALSE, key |-> row.key,
                       validTo |-> EffectiveEnd(op[w].end, row)]
    <2>1. op[w] \in Operation /\ op[w].kind \in Updates /\ row \in Row
      BY <1>5, ViewType DEF UpdateEdge, UpdateMatches, TypeInv, PhaseOK, Operation
    <2>2. new \in Row /\ SameKey(new, row)
      BY <2>1, UpdatedRowType DEF SameKey
    <2>3. WriteEdge(w, op[w].edge, new) /\ Goto(w, "finished") /\ phase[w] = "writing"
      BY <1>5 DEF UpdateEdge
    <2> HIDE DEF new, row
    <2> QED
      BY <2>2, <2>3 DEF row, Goto, TypeInv, TypeOK
  <1>6. CASE SoftDeleteEdge(w) /\ UNCHANGED edgeWrites
    BY <1>6 DEF SoftDeleteEdge
  <1>7. CASE SoftDeleteEdge(w) /\ ~UNCHANGED edgeWrites
    <2> DEFINE row == EdgeView(w)[op[w].edge]
               new == [row EXCEPT !.deleted = TRUE]
    <2>1. row \in Row
      BY <1>7, ViewType DEF SoftDeleteEdge, TypeInv, PhaseOK, Operation
    <2>2. new \in Row /\ SameKey(new, row)
      BY <2>1 DEF Row, SameKey
    <2>3. WriteEdge(w, op[w].edge, new) /\ Goto(w, "finished") /\ phase[w] = "writing"
      BY <1>7 DEF SoftDeleteEdge
    <2> HIDE DEF new, row
    <2> QED
      BY <2>2, <2>3 DEF row, Goto, TypeInv, TypeOK
  <1>8. CASE HardDeleteEdge(w) /\ UNCHANGED edgeWrites
    BY <1>8 DEF HardDeleteEdge
  <1>9. CASE HardDeleteEdge(w) /\ ~UNCHANGED edgeWrites
    BY <1>9 DEF HardDeleteEdge, SameKey, Goto, TypeInv, TypeOK
  <1> QED
    BY <1>1, <1>2, <1>3, <1>4, <1>5, <1>6, <1>7, <1>8, <1>9 DEF RowWork

LEMMA SingleWritesStep ==
    ASSUME ~UserTransactions
    PROVE  TypeInv /\ LockInv /\ RowLocks /\ SingleWrites /\ [Next]_vars => SingleWrites'
  <1> SUFFICES ASSUME TypeInv, LockInv, RowLocks, SingleWrites, [Next]_vars PROVE SingleWrites'
    OBVIOUS
  <1> USE DEF TypeInv, TypeOK
  <1>1. ASSUME NEW w \in Writers, Gate(w) PROVE SingleWrites'
    BY <1>1 DEF Gate, SingleWrites, Goto, LockInv, database
  <1>2. ASSUME NEW w \in Writers, Begin(w) PROVE SingleWrites'
    BY <1>2 DEF Begin, SingleWrites, Goto, database
  <1>3. ASSUME NEW w \in Writers, RowWork(w) PROVE SingleWrites'
    <2>1. UNCHANGED <<edges, op>> /\ \A v \in Writers \ {w} : phase'[v] = phase[v]
      BY <1>3, RowWorkFrame
    <2>2. CASE UNCHANGED edgeWrites /\ (phase[w] = "purging" => phase'[w] = "finished")
                                    /\ phase[w] # "finished"
      BY <2>1, <2>2 DEF SingleWrites
    <2>3. ASSUME phase[w] = "writing", phase'[w] \in {"purging", "finished"},
                 NEW row \in Row \cup {NoRow}, WriteEdge(w, op[w].edge, row),
                 SameKey(row, EdgeView(w)[op[w].edge])
          PROVE  SingleWrites'
      <3>1. \A e \in Edges : edgeWrites[w][e] = Untouched
        BY <2>3 DEF SingleWrites
      <3>2. \A e \in Edges : EdgeView(w)[e] = edges[e]
        BY <3>1 DEF EdgeView
      <3>3. \A v \in Writers \ {w} : edgeWrites'[v] = edgeWrites[v]
        BY <2>3 DEF WriteEdge
      <3>4. \A e \in Edges : edgeWrites'[w][e] # Untouched =>
               e = op[w].edge /\ edgeWrites'[w][e] = row
        BY <2>3, <3>1 DEF WriteEdge
      <3>5. \A e \in Edges : edgeWrites'[w][e] # Untouched =>
               e = op[w].edge /\ SameKey(edgeWrites'[w][e], edges[e])
        BY <2>3, <3>2, <3>4
      <3>6. ASSUME NEW v \in Writers, NEW e \in Edges, edgeWrites'[v][e] # Untouched
            PROVE  /\ e = op'[v].edge
                   /\ phase'[v] \in {"purging", "finished"}
                   /\ SameKey(edgeWrites'[v][e], edges'[e])
        <4>1. CASE v = w
          BY <2>1, <2>3, <3>5, <3>6, <4>1
        <4>2. CASE v # w
          BY <2>1, <3>3, <3>6, <4>2 DEF SingleWrites
        <4> QED
          BY <4>1, <4>2
      <3> QED
        BY <3>6 DEF SingleWrites, SameKey
    <2> QED
      BY <1>3, <2>2, <2>3, OwnRowWritten
  <1>4. ASSUME NEW w \in Writers, EndTransaction(w),
               edges' \in {edges, EdgeView(w)}
        PROVE  SingleWrites'
    <2>1. /\ \A e \in Edges : edgeWrites'[w][e] = Untouched
          /\ \A v \in Writers \ {w} : /\ edgeWrites'[v] = edgeWrites[v]
                                      /\ phase'[v] = phase[v] /\ op'[v] = op[v]
      BY <1>4 DEF EndTransaction, Goto
    <2>2. ASSUME NEW v \in Writers \ {w}, NEW e \in Edges, edgeWrites[v][e] # Untouched
          PROVE  edges'[e] = edges[e]
      BY <1>4, <2>2 DEF RowLocks, EdgeView
    <2>3. ASSUME NEW v \in Writers, NEW e \in Edges, edgeWrites'[v][e] # Untouched
          PROVE  /\ e = op'[v].edge
                 /\ phase'[v] \in {"purging", "finished"}
                 /\ SameKey(edgeWrites'[v][e], edges'[e])
      <3>1. v # w /\ edgeWrites[v][e] # Untouched
        BY <2>1, <2>3
      <3> QED
        BY <2>1, <2>2, <3>1 DEF SingleWrites
    <2> QED
      BY <2>3 DEF SingleWrites, SameKey
  <1>5. CASE UNCHANGED vars
    BY <1>5 DEF SingleWrites, SameKey, vars
  <1> QED
    BY <1>1, <1>2, <1>3, <1>4, <1>5 DEF Next, Quiescent, Commit, Rollback, database


\* A commit changes at most the row of its operation, under the same endpoints.
LEMMA CommitsOneRow ==
    ASSUME ~UserTransactions, TypeInv, SingleWrites, NEW w \in Writers, Commit(w)
    PROVE  \E e \in Edges : /\ SameKey(edges'[e], edges[e])
                            /\ \A d \in Edges \ {e} : edges'[d] = edges[d]
  <1>1. phase[w] = "finished" /\ edges' = EdgeView(w)
    BY DEF Commit
  <1>2. op[w].edge \in Edges
    BY <1>1 DEF TypeInv, PhaseOK, Operation
  <1>3. \A d \in Edges \ {op[w].edge} : edges'[d] = edges[d]
    BY <1>1 DEF EdgeView, SingleWrites
  <1>4. SameKey(edges'[op[w].edge], edges[op[w].edge])
    BY <1>1, <1>2 DEF EdgeView, SingleWrites, SameKey
  <1> QED
    BY <1>2, <1>3, <1>4

\* One changed row, between two states that keep the cardinality, is an edge
\* that joins an empty axis, one that leaves its axis, or neither.
LEMMA OneRowMovesOneEdge ==
    ASSUME TypeOK, TypeOK', OneCounted(edges), OneCounted(edges'),
           NEW e \in Edges, SameKey(edges'[e], edges[e]),
           \A d \in Edges \ {e} : edges'[d] = edges[d]
    PROVE  [Axis!Next]_Population
  <1> DEFINE Members(k) == {d \in Edges : CountedOn(edges[d], k)}
             Members2(k) == {d \in Edges : CountedOn(edges'[d], k)}
  <1>1. /\ Population = [k \in Keys |-> Members(k)]
        /\ Population' = [k \in Keys |-> Members2(k)]
    BY DEF Population, CountedOn, Counted
  <1>2. \A k \in Keys : \A d \in Edges \ {e} : d \in Members(k) <=> d \in Members2(k)
    OBVIOUS
  <1>3. CASE Counted(edges[e]) <=> Counted(edges'[e])
    <2>1. \A k \in Keys : e \in Members(k) <=> e \in Members2(k)
      BY <1>3 DEF CountedOn, Counted, SameKey
    <2>2. \A k \in Keys : Members(k) = Members2(k)
      BY <1>2, <2>1
    <2> QED
      BY <1>1, <2>2
  <1>4. CASE ~Counted(edges[e]) /\ Counted(edges'[e])
    <2> DEFINE k == edges'[e].key
    <2>1. k \in Keys
      BY <1>4 DEF TypeOK, Counted, Row
    <2>2. \A d \in Edges \ {e} : d \notin Members2(k)
      BY <1>4 DEF OneCounted, CountedOn
    <2>3. e \in Members2(k) /\ \A j \in Keys : e \notin Members(j) /\ (j # k => e \notin Members2(j))
      BY <1>4 DEF CountedOn
    <2>4. Members(k) = {} /\ Members2(k) = {e} /\ \A j \in Keys \ {k} : Members2(j) = Members(j)
      BY <1>2, <2>1, <2>2, <2>3
    <2> HIDE DEF k, Members, Members2
    <2>5. Population[k] = {} /\ Population' = [Population EXCEPT ![k] = {e}]
      BY <1>1, <2>1, <2>4
    <2> QED
      BY <2>1, <2>5 DEF Axis!Next, Axis!Admit
  <1>5. CASE Counted(edges[e]) /\ ~Counted(edges'[e])
    <2> DEFINE k == edges[e].key
    <2>1. k \in Keys
      BY <1>5 DEF TypeOK, Counted, Row
    <2>2. \A d \in Edges \ {e} : d \notin Members(k)
      BY <1>5 DEF OneCounted, CountedOn
    <2>3. e \in Members(k) /\ \A j \in Keys : e \notin Members2(j) /\ (j # k => e \notin Members(j))
      BY <1>5 DEF CountedOn
    <2>4. Members(k) # {} /\ Members2(k) = {} /\ \A j \in Keys \ {k} : Members2(j) = Members(j)
      BY <1>2, <2>1, <2>2, <2>3
    <2> HIDE DEF k, Members, Members2
    <2>5. Population[k] # {} /\ Population' = [Population EXCEPT ![k] = {}]
      BY <1>1, <2>1, <2>4
    <2> QED
      BY <2>1, <2>5 DEF Axis!Next, Axis!Retire
  <1> QED
    BY <1>3, <1>4, <1>5

LEMMA AxisInit == Init => Axis!Init
  <1> SUFFICES ASSUME Init PROVE Axis!Init
    OBVIOUS
  <1>1. ASSUME NEW k \in Keys PROVE Population[k] \in {{}} \cup {{e} : e \in Edges}
    <2>1. \A d, e \in Population[k] : d = e
      BY DEF Population, Init, ConsistentDatabase, CountedOn
    <2>2. Population[k] \subseteq Edges
      BY DEF Population
    <2> QED
      BY <2>1, <2>2
  <1>2. Population = [k \in Keys |-> Population[k]]
    BY DEF Population
  <1> QED
    BY <1>1, <1>2 DEF Axis!Init

LEMMA AxisStep ==
    ASSUME ~UserTransactions
    PROVE  /\ TypeInv /\ TypeInv' /\ SingleWrites
           /\ AtMostOneCounted /\ AtMostOneCounted' /\ [Next]_vars
           => [Axis!Next]_Population
  <1> SUFFICES ASSUME TypeInv, TypeInv', SingleWrites, AtMostOneCounted, AtMostOneCounted',
                      [Next]_vars
               PROVE  [Axis!Next]_Population
    OBVIOUS
  <1>1. ASSUME NEW w \in Writers, Commit(w) PROVE [Axis!Next]_Population
    <2>1. OneCounted(edges) /\ OneCounted(edges')
      BY DEF OneCounted, AtMostOneCounted, Counted
    <2> QED
      BY <1>1, <2>1, CommitsOneRow, OneRowMovesOneEdge DEF TypeInv
  <1>2. CASE UNCHANGED edges
    BY <1>2 DEF Population, CountedOn, Counted
  <1>3. UNCHANGED edges \/ \E w \in Writers : Commit(w)
    <2>1. ASSUME NEW w \in Writers, Gate(w) \/ Begin(w) \/ RowWork(w) \/ Rollback(w)
          PROVE  UNCHANGED edges
      BY <2>1, RowWorkFrame DEF Gate, Begin, Rollback, database
    <2> QED
      BY <2>1 DEF Next, Quiescent, vars
  <1> QED
    BY <1>1, <1>2, <1>3

\* The writers implement the abstract axis: read as a set of counted edges per
\* key, the table only ever changes by an edge that joins an axis nothing
\* occupies, or by the edge of an axis that leaves it.  It holds under either
\* defence: the lock around every admitting writer, or claims that nothing
\* revives, reopens or removes.  A user transaction may exchange the edge of an
\* axis in one commit, which is two steps of the axis, so it is left out.
THEOREM AxisImplemented ==
    ASSUME Serialized \/ Claimed, ~UserTransactions
    PROVE  Spec => ImplementsAxis
  <1>1. Spec => [](TypeInv /\ LockInv /\ RowLocks /\ AtMostOneCounted)
    <2>1. CASE Serialized
      <3>1. IInv => TypeInv /\ LockInv /\ RowLocks /\ AtMostOneCounted
        BY DEF IInv, Retirement, ViewInv, OneCounted, AtMostOneCounted
      <3> QED
        BY <2>1, <3>1, Invariance, PTL
    <2>2. CASE Claimed
      <3>1. Known => TypeInv /\ LockInv /\ RowLocks /\ AtMostOneCounted
        BY DEF Known, ClaimsInv, HoldsClaims, AtMostOneCounted
      <3> QED
        BY <2>2, <3>1, KnownHolds, PTL
    <2> QED
      BY <2>1, <2>2
  <1>2. Init => SingleWrites
    BY DEF Init, SingleWrites
  <1>3. TypeInv /\ LockInv /\ RowLocks /\ SingleWrites /\ [Next]_vars => SingleWrites'
    BY SingleWritesStep
  <1>4. Init => Axis!Init
    BY AxisInit
  <1>5. /\ TypeInv /\ TypeInv' /\ SingleWrites
        /\ AtMostOneCounted /\ AtMostOneCounted' /\ [Next]_vars
        => [Axis!Next]_Population
    BY AxisStep
  <1> QED
    BY <1>1, <1>2, <1>3, <1>4, <1>5, PTL DEF Spec, ImplementsAxis, Axis!Spec
=============================================================================
