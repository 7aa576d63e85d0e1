--------------------------- MODULE NodeClaimsProofs ---------------------------
(***************************************************************************)
(* What the claims of node writes guarantee for any writers, nodes,        *)
(* constraints and keys.                                                   *)
(***************************************************************************)
EXTENDS NodeClaims, WellFoundedInduction, TLAPS

\* Phases in which an operation has written nothing that lasts, and those in
\* which it has nothing to do yet.
Unbegun == {"idle", "lock"}
Before == {"read", "check", "reread", "plan", "recover", "retire", "drop"}
Reading == Before \cup {"commitPast"}
Seeing == {"check", "reread", "plan", "claim", "retire"}

-----------------------------------------------------------------------------
(* What holds whoever writes what. *)

\* The keys of a row are among those its node may carry.
Carries(n, row) == row \in Row => \A c \in Constraints : row.keys[c] \in Offered(n, c)

\* An operation is one a writer may run, at a statement it has.
Stage(w) ==
    /\ phase[w] # "idle" => op[w] \in Operation /\ Node(w) \in Addresses(w)
    /\ phase[w] = "check" => op[w].kind \in {"create", "import"}
    /\ phase[w] \in {"plan", "retire"} => existing[w] # Absent
    /\ phase[w] \in {"claim", "post"} =>
          /\ existing[w] = Absent => op[w].kind \in {"create", "import"}
          /\ todo[w] \cup claimed[w] \subseteq Owed(w)
    /\ phase[w] = "post" => existing[w] = Absent
    /\ phase[w] = "release" =>
          \A c \in todo[w] : existing[w] # Absent /\ existing[w].keys[c] \in Keys
    /\ phase[w] \in Unbegun => existing[w] = Absent
    /\ phase[w] \in Unbegun \cup Before \cup {"erase"} => todo[w] = {} /\ claimed[w] = {}

\* Nobody writes before it begins, and then the row of its own node.
Own(w) ==
    /\ phase[w] \in Unbegun => \A t \in Targets : claimWrites[w][t] = Untouched
    /\ \A n \in Nodes : rowWrites[w][n] # Untouched => phase[w] \notin Unbegun /\ n = Node(w)
    /\ phase[w] # "idle" => Carries(Node(w), existing[w])

Offering == \A n \in Nodes : Carries(n, rows[n]) /\ \A w \in Writers : Carries(n, rowWrites[w][n])

\* A claim row is written by one open transaction, which moves it between nobody
\* and its own node.
Taken(w) ==
    /\ \A t \in Targets : claimWrites[w][t] # Untouched =>
          \/ claimWrites[w][t] = claims[t]
          \/ {claimWrites[w][t], claims[t]} \subseteq {Nobody, Node(w)}
    /\ phase[w] \in {"claim", "post"} =>
          \A c \in claimed[w] : claimWrites[w][Target(w, c)] = Node(w)

Exclusive ==
    \A w, v \in Writers, t \in Targets :
        w # v => claimWrites[w][t] = Untouched \/ claimWrites[v][t] = Untouched

StageInv ==
    /\ TypeOK /\ Offering /\ Exclusive
    /\ \A w \in Writers : Stage(w) /\ Own(w) /\ Taken(w)

-----------------------------------------------------------------------------
(* What holds where a keyed node has one writer, or every operation locks. *)

SoleWriter ==
    \A w, v \in Writers : w # v =>
        \A n \in Addresses(w) \cap Addresses(v), c \in Constraints : Offered(n, c) \subseteq {Unset}

\* Every operation of the workload takes the graph lock: history or revision
\* tracking is on, or a key spans kinds and only store writes run.
AllLock == \A o \in Operation : Locks(o)

\* The claims a row owes, and those its transaction sees its node hold.
Due(row) == {t \in Targets : IsLive(row) /\ row.keys[t[1]] = t[2]}
Owns(w) == {t \in Targets : ClaimView(w)[t] = Node(w)}
Stored(w) == RowView(w)[Node(w)]
TargetsOf(w, cs) == {Target(w, c) : c \in cs}
Unwritten(w) == \A n \in Nodes : rowWrites[w][n] = Untouched

Locked == AllLock => \A w \in Writers : phase[w] \notin Unbegun => graphLock = w

\* What the node of an operation holds, statement by statement.
Holding(w) ==
    /\ phase[w] \in Reading => Unwritten(w) /\ Owns(w) = Due(rows[Node(w)])
    /\ phase[w] \in Seeing => Due(existing[w]) = Due(rows[Node(w)])
    /\ phase[w] = "retire" => IsLive(existing[w])
    /\ phase[w] = "claim" =>
          /\ Unwritten(w)
          /\ Owns(w) = Due(rows[Node(w)]) \cup TargetsOf(w, claimed[w])
          /\ TargetsOf(w, claimed[w] \cup todo[w]) \cap Due(rows[Node(w)]) = {}
          /\ Inserts(w) => claimed[w] \cup todo[w] = Owed(w) \cap CrossKind
          /\ ~Inserts(w) =>
                TargetsOf(w, Owed(w) \ (claimed[w] \cup todo[w])) \subseteq Due(rows[Node(w)])
          /\ claimed[w] \cap todo[w] = {}
    /\ phase[w] = "post" =>
          /\ rowWrites[w][Node(w)] = [deleted |-> FALSE, keys |-> NewKeys(w)]
          /\ Owns(w) = TargetsOf(w, Owed(w) \ todo[w])
    /\ phase[w] = "erase" => Owns(w) = {}
    /\ phase[w] = "release" =>
          /\ Owns(w) = Due(Stored(w)) \cup {<<c, existing[w].keys[c]>> : c \in todo[w]}
          /\ {<<c, existing[w].keys[c]>> : c \in todo[w]} \cap Due(Stored(w)) = {}

HoldingInv == Locked /\ ClaimsMirrorRows /\ \A w \in Writers : Holding(w)

-----------------------------------------------------------------------------
(* Operators. *)

\* A set of constraints has a least one.
LEMMA LeastIn ==
    ASSUME NEW cs \in SUBSET Constraints, cs # {}
    PROVE  Least(cs) \in cs
<1> DEFINE R == OpToRel(<, Nat)
<1>1. IsWellFoundedOn(R, Nat)
  BY NatLessThanWellFounded, Zenon
<1>2. \A x, y \in Nat : <<y, x>> \in R <=> y < x
  BY Zenon DEF OpToRel
<1>3. cs \subseteq Nat
  BY SetsAssumption
<1> HIDE DEF R
<1>4. PICK x \in cs : \A y \in cs : ~ (<<y, x>> \in R)
  BY <1>1, <1>3, WFMin
<1>5. ASSUME NEW y \in cs PROVE x <= y
  <2>1. x \in Nat /\ y \in Nat
    BY <1>3
  <2>2. ~(y < x)
    BY <1>2, <1>4, <2>1
  <2> QED
    BY <2>1, <2>2
<1> QED
  BY <1>5 DEF Least

\* What a transaction sees are rows and owners.
LEMMA ViewTypes ==
    ASSUME TypeOK, NEW w \in Writers
    PROVE  /\ RowView(w) \in [Nodes -> Row \cup {Absent}]
           /\ ClaimView(w) \in [Targets -> Nodes \cup {Nobody}]
BY DEF TypeOK, RowView, ClaimView

\* The keys an operation writes are keys its node may carry.
LEMMA NewKeysTypes ==
    ASSUME TypeOK, NEW w \in Writers, op[w] \in Operation,
           existing[w] = Absent => op[w].kind \in {"create", "import"}
    PROVE  /\ NewKeys(w) \in [Constraints -> Keys \cup {Unset}]
           /\ [deleted |-> FALSE, keys |-> NewKeys(w)] \in Row
           /\ \A c \in Owed(w) : Target(w, c) \in Targets
           /\ Carries(Node(w), existing[w]) =>
                 \A c \in Constraints : NewKeys(w)[c] \in Offered(Node(w), c)
<1>1. existing[w] \in Row \/ op[w].kind \in {"create", "import"}
  BY DEF TypeOK
<1>2. ASSUME NEW c \in Constraints
      PROVE  /\ op[w].keys[c] \in Keys \cup {Unset, Keep}
             /\ op[w].keys[c] # Keep => op[w].keys[c] \in Offered(Node(w), c)
             /\ op[w].keys[c] = Keep => existing[w] \in Row
  BY <1>1 DEF Operation, Node
<1>3. ASSUME NEW c \in Constraints, existing[w] \in Row PROVE existing[w].keys[c] \in Keys \cup {Unset}
  BY <1>3 DEF Row
<1>4. NewKeys(w) \in [Constraints -> Keys \cup {Unset}]
  BY <1>2, <1>3 DEF NewKeys
<1>5. Carries(Node(w), existing[w]) => \A c \in Constraints : NewKeys(w)[c] \in Offered(Node(w), c)
  BY <1>2 DEF NewKeys, Carries
<1>6. \A c \in Owed(w) : Target(w, c) \in Targets
  BY <1>4 DEF Owed, Target, Targets
<1>7. [deleted |-> FALSE, keys |-> NewKeys(w)] \in Row
  BY <1>4 DEF Row
<1> QED
  BY <1>4, <1>5, <1>6, <1>7

\* Targets of different constraints differ.
LEMMA TargetsDiffer ==
    ASSUME NEW w, NEW c, NEW d, Target(w, c) = Target(w, d)
    PROVE  c = d
BY DEF Target

\* What an operation owes is fixed by what it states and what it read.
LEMMA SameOperation ==
    ASSUME NEW w, op'[w] = op[w], existing'[w] = existing[w]
    PROVE  /\ Node(w)' = Node(w) /\ NewKeys(w)' = NewKeys(w) /\ Owed(w)' = Owed(w)
           /\ Inserts(w)' = Inserts(w)
           /\ \A c : Target(w, c)' = Target(w, c)
<1>1. Node(w)' = Node(w) /\ NewKeys(w)' = NewKeys(w) /\ Inserts(w)' = Inserts(w)
  BY DEF Node, NewKeys, Inserts
<1> QED
  BY <1>1 DEF Owed, Target

\* Where a read sends an operation.
LEMMA DispatchCases ==
    ASSUME NEW o \in Operation, NEW row, NEW second
    PROVE  /\ Dispatch(o, row, second) \in
                 {"rollback", "check", "plan", "commitPast", "retire", "drop"}
           /\ Dispatch(o, row, second) = "check" => o.kind \in {"create", "import"}
           /\ Dispatch(o, row, second) \in {"plan", "retire"} => row # Absent
           /\ Dispatch(o, row, second) = "retire" => IsLive(row)
<1>1. o.kind \in AllOps
  BY OpsAssumption DEF Operation
<1>2. CASE o.kind = "create"
  BY <1>2 DEF Dispatch
<1>3. CASE o.kind = "import"
  BY <1>3 DEF Dispatch, IsLive
<1>4. CASE o.kind = "update"
  BY <1>4 DEF Dispatch, IsLive
<1>5. CASE o.kind = "revive"
  BY <1>5 DEF Dispatch, IsLive
<1>6. CASE o.kind = "delete"
  BY <1>6 DEF Dispatch, IsLive
<1>7. CASE o.kind = "purge"
  BY <1>7 DEF Dispatch
<1> QED
  BY <1>1, <1>2, <1>3, <1>4, <1>5, <1>6, <1>7 DEF AllOps

LEMMA RefusalCases ==
    ASSUME NEW w
    PROVE  /\ AfterRefusal(w) \in {"commitPast", "rollback"}
           /\ AfterRefusal(w) = "commitPast" => existing[w] # Absent
BY DEF AfterRefusal, IsLive

-----------------------------------------------------------------------------
(* The other writers. *)

\* A step leaves the other transactions as they are.
OthersKept(w) ==
    \A v \in Writers \ {w} :
        /\ phase'[v] = phase[v] /\ op'[v] = op[v] /\ existing'[v] = existing[v]
        /\ todo'[v] = todo[v] /\ claimed'[v] = claimed[v]
        /\ rowWrites'[v] = rowWrites[v] /\ claimWrites'[v] = claimWrites[v]

LEMMA StepKeepsOthers ==
    ASSUME TypeOK, NEW w \in Writers, Step(w)
    PROVE  OthersKept(w)
<1> USE DEF TypeOK, OthersKept, Goto, Todo, Read, WriteRow, WriteClaim, frame
<1>1. CASE Begin(w)
  BY <1>1 DEF Begin
<1>2. CASE LockGraph(w)
  BY <1>2 DEF LockGraph
<1>3. CASE Commit(w) \/ Rollback(w)
  BY <1>3 DEF Commit, Rollback, Finish
<1>4. CASE ReadRow(w) \/ RereadTombstone(w) \/ Recover(w)
  BY <1>4 DEF ReadRow, RereadTombstone, Recover
<1>5. CASE CheckKeys(w) \/ Plan(w)
  BY <1>5 DEF CheckKeys, Plan
<1>6. CASE ClaimKey(w)
  BY <1>6 DEF ClaimKey
<1>7. CASE InsertRow(w) \/ UpdateRow(w)
  BY <1>7 DEF InsertRow, UpdateRow
<1>8. CASE LoseRow(w)
  BY <1>8 DEF LoseRow
<1>9. CASE ReleaseKey(w)
  BY <1>9 DEF ReleaseKey
<1>10. CASE RetireRow(w) \/ DropClaims(w) \/ EraseRow(w)
  BY <1>10 DEF RetireRow, DropClaims, EraseRow
<1> QED
  BY <1>1, <1>2, <1>3, <1>4, <1>5, <1>6, <1>7, <1>8, <1>9, <1>10 DEF Step

\* Before a transaction ends nothing of it is committed.
LEMMA StepKeepsDatabase ==
    ASSUME NEW w \in Writers, Step(w), ~Commit(w)
    PROVE  UNCHANGED <<rows, claims>>
BY DEF Step, Begin, LockGraph, Rollback, ReadRow, CheckKeys, RereadTombstone, Plan, ClaimKey,
       InsertRow, UpdateRow, LoseRow, Recover, ReleaseKey, RetireRow, DropClaims, EraseRow, database

\* What a writer may do next to what it is doing is its own business.
LEMMA OthersStand ==
    ASSUME NEW w \in Writers, NEW v \in Writers \ {w}, OthersKept(w), Stage(v), Own(v)
    PROVE  Stage(v)' /\ Own(v)'
<1>1. /\ phase'[v] = phase[v] /\ op'[v] = op[v] /\ existing'[v] = existing[v]
      /\ todo'[v] = todo[v] /\ claimed'[v] = claimed[v]
      /\ rowWrites'[v] = rowWrites[v] /\ claimWrites'[v] = claimWrites[v]
  BY DEF OthersKept
<1>2. Node(v)' = Node(v) /\ Owed(v)' = Owed(v)
  BY <1>1, SameOperation
<1>3. Carries(Node(v), existing[v])' <=> Carries(Node(v), existing[v])
  BY <1>1, <1>2 DEF Carries
<1> QED
  BY <1>1, <1>2, <1>3 DEF Stage, Own

LEMMA OthersTaken ==
    ASSUME NEW w \in Writers, NEW v \in Writers \ {w}, OthersKept(w), Taken(v),
           \A t \in Targets : claimWrites[v][t] # Untouched => claims'[t] = claims[t]
    PROVE  Taken(v)'
<1>1. /\ phase'[v] = phase[v] /\ op'[v] = op[v] /\ existing'[v] = existing[v]
      /\ claimed'[v] = claimed[v] /\ claimWrites'[v] = claimWrites[v]
  BY DEF OthersKept
<1>2. Node(v)' = Node(v) /\ \A c : Target(v, c)' = Target(v, c)
  BY <1>1, SameOperation
<1> QED
  BY <1>1, <1>2 DEF Taken

-----------------------------------------------------------------------------
(* The writer that takes the step. *)

\* A claim row is newly written while no other open transaction has written it.
Extends(w) ==
    \A t \in Targets :
        claimWrites'[w][t] # Untouched => claimWrites[w][t] # Untouched \/ ClaimFree(w, t)

Kept(w) == TypeOK' /\ Stage(w)' /\ Own(w)' /\ Taken(w)' /\ Offering' /\ Extends(w)

\* Moving on without writing anything.
LEMMA QuietMove ==
    ASSUME TypeOK, Offering, NEW w \in Writers, Stage(w), Own(w), Taken(w),
           UNCHANGED <<rows, claims, rowWrites, claimWrites, claimed>>,
           phase'[w] = "claim" => claimed[w] = {}, phase'[w] # "post",
           phase[w] \notin Unbegun => phase'[w] \notin Unbegun /\ op'[w] = op[w],
           Carries(Node(w), existing[w])'
    PROVE  Own(w)' /\ Taken(w)' /\ Offering' /\ Extends(w)
<1>1. Offering' /\ Extends(w)
  BY DEF Offering, Extends, Carries
<1>2. Taken(w)'
  <2>1. CASE phase[w] \in Unbegun
    BY <2>1 DEF Own, Taken
  <2>2. CASE phase[w] \notin Unbegun
    BY <2>2 DEF Taken, Node
  <2> QED
    BY <2>1, <2>2
<1>3. Own(w)'
  BY DEF Own, Node
<1> QED
  BY <1>1, <1>2, <1>3

LEMMA BeginStep ==
    ASSUME StageInv, NEW w \in Writers, Begin(w)
    PROVE  Kept(w)
<1> TypeOK /\ Offering /\ Stage(w) /\ Own(w) /\ Taken(w)
  BY DEF StageInv
<1>1. PICK o \in Operation :
          /\ o.node \in Addresses(w) /\ op' = [op EXCEPT ![w] = o]
          /\ phase' = [phase EXCEPT ![w] = IF Locks(o) THEN "lock" ELSE "read"]
  BY DEF Begin, Goto
<1>2. /\ phase[w] = "idle" /\ started < MaxOps /\ started' = started + 1
      /\ UNCHANGED <<rows, claims, rowWrites, claimWrites, graphLock, existing, todo, claimed, retried>>
  BY DEF Begin, database
<1>3. TypeOK'
  <2>1. started' \in 0..MaxOps
    BY <1>2, OpsAssumption DEF TypeOK
  <2>2. op' \in [Writers -> Operation \cup {NoOp}] /\ phase' \in [Writers -> Phases]
    BY <1>1 DEF TypeOK, Phases
  <2> QED
    BY <1>2, <2>1, <2>2 DEF TypeOK
<1>4. op'[w] = o /\ phase'[w] \in {"lock", "read"}
  BY <1>1 DEF TypeOK
<1>5. todo[w] = {} /\ claimed[w] = {}
  BY <1>2 DEF Stage, Unbegun
<1>6. existing'[w] = Absent
  BY <1>2 DEF Stage, Unbegun
<1>7. Stage(w)'
  BY <1>1, <1>2, <1>4, <1>5, <1>6 DEF Stage, Unbegun, Before, Node
<1>8. Own(w)' /\ Taken(w)' /\ Offering' /\ Extends(w)
  BY <1>2, <1>4, <1>6, QuietMove, NoRowAssumption DEF Carries, Unbegun
<1> QED
  BY <1>3, <1>7, <1>8 DEF Kept

LEMMA LockGraphStep ==
    ASSUME StageInv, NEW w \in Writers, LockGraph(w)
    PROVE  Kept(w)
<1> TypeOK /\ Offering /\ Stage(w) /\ Own(w) /\ Taken(w)
  BY DEF StageInv
<1>1. /\ phase[w] = "lock" /\ graphLock' = w /\ phase' = [phase EXCEPT ![w] = "read"]
      /\ UNCHANGED <<rows, claims, rowWrites, claimWrites, op, existing, todo, claimed, retried, started>>
  BY DEF LockGraph, Goto, database
<1>2. TypeOK'
  <2>1. phase' \in [Writers -> Phases]
    BY <1>1 DEF TypeOK, Phases
  <2> QED
    BY <1>1, <2>1 DEF TypeOK
<1>3. phase'[w] = "read"
  BY <1>1 DEF TypeOK
<1>4. todo[w] = {} /\ claimed[w] = {} /\ existing[w] = Absent
  BY <1>1 DEF Stage, Unbegun
<1>5. Stage(w)'
  BY <1>1, <1>3, <1>4 DEF Stage, Unbegun, Before, Node
<1>6. Own(w)' /\ Taken(w)' /\ Offering' /\ Extends(w)
  BY <1>1, <1>3, <1>4, QuietMove, NoRowAssumption DEF Carries, Unbegun
<1> QED
  BY <1>2, <1>5, <1>6 DEF Kept

\* Reads: the row as it is, and where it leads.
LEMMA ReadStep ==
    ASSUME StageInv, NEW w \in Writers, ReadRow(w) \/ RereadTombstone(w) \/ Recover(w)
    PROVE  Kept(w)
<1> TypeOK /\ Offering /\ Stage(w) /\ Own(w) /\ Taken(w)
  BY DEF StageInv
<1>1. /\ phase[w] \in {"read", "reread", "recover"}
      /\ UNCHANGED <<rows, claims, rowWrites, claimWrites, graphLock, op, started, todo, claimed>>
  BY DEF ReadRow, RereadTombstone, Recover, database, frame
<1>2. todo[w] = {} /\ claimed[w] = {} /\ op[w] \in Operation /\ Node(w) \in Addresses(w)
  BY <1>1 DEF Stage, Before
<1>3. Node(w) \in Nodes
  BY <1>2, SetsAssumption
<1>4. RowView(w)[Node(w)] \in Row \cup {Absent} /\ Carries(Node(w), RowView(w)[Node(w)])
  BY <1>3, ViewTypes DEF Offering, RowView
<1>5. /\ existing' = existing \/ existing' = [existing EXCEPT ![w] = RowView(w)[Node(w)]]
      /\ retried' = retried \/ retried' = [retried EXCEPT ![w] = TRUE]
  BY DEF ReadRow, RereadTombstone, Recover, Read
<1>6. \E p \in {"rollback", "check", "plan", "commitPast", "retire", "drop", "read"} :
          /\ phase' = [phase EXCEPT ![w] = p]
          /\ p = "check" => op[w].kind \in {"create", "import"}
          /\ p \in {"plan", "retire"} => existing'[w] # Absent
  <2>1. CASE ReadRow(w)
    <3> DEFINE p == Dispatch(op[w], RowView(w)[Node(w)], retried[w])
    <3>1. phase' = [phase EXCEPT ![w] = p] /\ existing'[w] = RowView(w)[Node(w)]
      BY <2>1 DEF ReadRow, Goto, Read, TypeOK
    <3>2. /\ p \in {"rollback", "check", "plan", "commitPast", "retire", "drop"}
          /\ p = "check" => op[w].kind \in {"create", "import"}
          /\ p \in {"plan", "retire"} => RowView(w)[Node(w)] # Absent
      BY <1>2, DispatchCases
    <3> HIDE DEF p
    <3> QED
      BY <3>1, <3>2
  <2>2. CASE RereadTombstone(w)
    <3>1. existing'[w] = RowView(w)[Node(w)]
      BY <2>2 DEF RereadTombstone, Read, TypeOK
    <3> QED
      BY <2>2, <3>1 DEF RereadTombstone, Goto, IsTombstone
  <2>3. CASE Recover(w)
    BY <2>3 DEF Recover, Goto
  <2> QED
    BY <2>1, <2>2, <2>3
<1>7. TypeOK'
  <2>1. phase' \in [Writers -> Phases]
    BY <1>6 DEF TypeOK, Phases
  <2>2. existing' \in [Writers -> Row \cup {Absent}] /\ retried' \in [Writers -> BOOLEAN]
    BY <1>4, <1>5 DEF TypeOK
  <2> QED
    BY <1>1, <2>1, <2>2 DEF TypeOK
<1>8. Carries(Node(w), existing[w])'
  <2>1. existing'[w] \in {existing[w], RowView(w)[Node(w)]} /\ Node(w)' = Node(w)
    BY <1>1, <1>5 DEF TypeOK, Node
  <2> QED
    BY <1>1, <1>4, <2>1 DEF Own, Carries
<1>9. Stage(w)'
  BY <1>1, <1>2, <1>6 DEF Stage, Unbegun, Before, Node, TypeOK
<1>10. Own(w)' /\ Taken(w)' /\ Offering' /\ Extends(w)
  BY <1>1, <1>6, <1>8, QuietMove DEF Unbegun, TypeOK
<1> QED
  BY <1>7, <1>9, <1>10 DEF Kept

\* Probes: the constraints to claim, or a refusal.
LEMMA ProbeStep ==
    ASSUME StageInv, NEW w \in Writers, CheckKeys(w) \/ Plan(w)
    PROVE  Kept(w)
<1> TypeOK /\ Offering /\ Stage(w) /\ Own(w) /\ Taken(w)
  BY DEF StageInv
<1>1. /\ phase[w] \in {"check", "plan"}
      /\ UNCHANGED <<rows, claims, rowWrites, claimWrites, graphLock, op, started, existing,
                     claimed, retried>>
  BY DEF CheckKeys, Plan, database, frame
<1>2. /\ todo[w] = {} /\ claimed[w] = {} /\ op[w] \in Operation /\ Node(w) \in Addresses(w)
      /\ phase[w] = "check" => op[w].kind \in {"create", "import"}
      /\ phase[w] = "plan" => existing[w] # Absent
  BY <1>1 DEF Stage, Before
<1>3. ToProbe(w) \subseteq Owed(w) /\ ClaimsFirst(w) \subseteq Owed(w) /\ Owed(w) \subseteq Constraints
  BY DEF ToProbe, ClaimsFirst, Owed
<1>4. /\ todo' = todo \/ \E cs \in SUBSET Owed(w) : todo' = [todo EXCEPT ![w] = cs]
      /\ phase'[w] # "claim" => todo' = todo
  BY <1>3, RefusalCases DEF CheckKeys, Plan, Todo, Goto, NotHeldByMe, TypeOK
<1>5. \E p \in {"commitPast", "rollback", "claim", "reread"} : phase' = [phase EXCEPT ![w] = p]
  BY RefusalCases DEF CheckKeys, Plan, Goto
<1>6. TypeOK'
  <2>1. phase' \in [Writers -> Phases]
    BY <1>5 DEF TypeOK, Phases
  <2>2. todo' \in [Writers -> SUBSET Constraints]
    BY <1>3, <1>4 DEF TypeOK
  <2> QED
    BY <1>1, <2>1, <2>2 DEF TypeOK
<1>7. todo'[w] \subseteq Owed(w) /\ (phase'[w] # "claim" => todo'[w] = {})
  BY <1>2, <1>4 DEF TypeOK
<1>8. Node(w)' = Node(w) /\ Owed(w)' = Owed(w)
  BY <1>1, SameOperation
<1>9. Stage(w)'
  BY <1>1, <1>2, <1>5, <1>7, <1>8 DEF Stage, Unbegun, Before, TypeOK
<1>10. Own(w)' /\ Taken(w)' /\ Offering' /\ Extends(w)
  <2>1. Carries(Node(w), existing[w])'
    BY <1>1, <1>8 DEF Own, Carries
  <2> QED
    BY <1>1, <1>2, <1>5, <2>1, QuietMove DEF Unbegun, TypeOK
<1> QED
  BY <1>6, <1>9, <1>10 DEF Kept

\* The claim statement: granted, or refused after which nothing is left claimed.
Granted(w, c) ==
    /\ ClaimView(w)[Target(w, c)] \in {Nobody, Node(w)}
    /\ claimWrites' = [claimWrites EXCEPT ![w][Target(w, c)] = Node(w)]
    /\ todo' = [todo EXCEPT ![w] = @ \ {c}]
    /\ claimed' = [claimed EXCEPT ![w] = IF phase[w] = "claim" THEN @ \cup {c} ELSE @]
    /\ phase' = phase
Denied(w, c) ==
    /\ ClaimView(w)[Target(w, c)] \notin {Nobody, Node(w)}
    /\ claimWrites' = [claimWrites EXCEPT ![w] =
                          [GivenBack(w) EXCEPT ![Target(w, c)] = ClaimView(w)[Target(w, c)]]]
    /\ todo' = [todo EXCEPT ![w] = {}]
    /\ claimed' = [claimed EXCEPT ![w] = {}]
    /\ phase' = [phase EXCEPT ![w] = AfterRefusal(w)]

LEMMA ClaimCases ==
    ASSUME TypeOK, NEW w \in Writers, Stage(w), ClaimKey(w)
    PROVE  /\ phase[w] \in {"claim", "post"} /\ op[w] \in Operation
           /\ Node(w) \in Addresses(w) /\ Node(w) \in Nodes
           /\ todo[w] \cup claimed[w] \subseteq Owed(w) /\ Owed(w) \subseteq Constraints
           /\ \A d \in Owed(w) : Target(w, d) \in Targets
           /\ \E c \in todo[w] : ClaimFree(w, Target(w, c)) /\ (Granted(w, c) \/ Denied(w, c))
           /\ UNCHANGED <<rows, claims, rowWrites, graphLock, op, started, existing, retried>>
<1>1. phase[w] \in {"claim", "post"} /\ todo[w] # {}
  BY DEF ClaimKey
<1>2. /\ op[w] \in Operation /\ Node(w) \in Addresses(w)
      /\ existing[w] = Absent => op[w].kind \in {"create", "import"}
      /\ todo[w] \cup claimed[w] \subseteq Owed(w)
  BY <1>1 DEF Stage
<1>3. Node(w) \in Nodes
  BY <1>2, SetsAssumption
<1>4. Owed(w) \subseteq Constraints /\ \A d \in Owed(w) : Target(w, d) \in Targets
  BY <1>2, NewKeysTypes DEF Owed
<1> DEFINE c == Least(todo[w])
<1>5. c \in todo[w]
  BY <1>1, LeastIn DEF TypeOK
<1>6. ClaimFree(w, Target(w, c)) /\ (Granted(w, c) \/ Denied(w, c))
  <2> HIDE DEF c
  <2> SUFFICES ASSUME c = Least(todo[w]) PROVE ClaimFree(w, Target(w, c)) /\ (Granted(w, c) \/ Denied(w, c))
    BY DEF c
  <2> QED
    BY DEF ClaimKey, Granted, Denied, WriteClaim, Todo, Goto, TypeOK
<1>7. UNCHANGED <<rows, claims, rowWrites, graphLock, op, started, existing, retried>>
  BY DEF ClaimKey, frame, database
<1> QED
  BY <1>1, <1>2, <1>3, <1>4, <1>5, <1>6, <1>7

\* The claims of a writer after its claim statement.
LEMMA GrantedClaims ==
    ASSUME TypeOK, NEW w \in Writers, NEW c, Target(w, c) \in Targets, Granted(w, c),
           NEW x \in Targets
    PROVE  claimWrites'[w][x] = IF x = Target(w, c) THEN Node(w) ELSE claimWrites[w][x]
BY DEF Granted, TypeOK

LEMMA DeniedClaims ==
    ASSUME TypeOK, NEW w \in Writers, NEW c, Target(w, c) \in Targets, Denied(w, c),
           NEW x \in Targets
    PROVE  claimWrites'[w][x] =
               IF x = Target(w, c) THEN ClaimView(w)[x]
               ELSE IF \E d \in claimed[w] : x = Target(w, d) THEN Nobody ELSE claimWrites[w][x]
BY DEF Denied, GivenBack, TypeOK

LEMMA ClaimStep ==
    ASSUME StageInv, NEW w \in Writers, ClaimKey(w)
    PROVE  Kept(w)
<1> TypeOK /\ Offering /\ Stage(w) /\ Own(w) /\ Taken(w)
  BY DEF StageInv
<1>1. /\ phase[w] \in {"claim", "post"} /\ op[w] \in Operation
      /\ Node(w) \in Addresses(w) /\ Node(w) \in Nodes
      /\ todo[w] \cup claimed[w] \subseteq Owed(w) /\ Owed(w) \subseteq Constraints
      /\ \A d \in Owed(w) : Target(w, d) \in Targets
      /\ UNCHANGED <<rows, claims, rowWrites, graphLock, op, started, existing, retried>>
  BY ClaimCases
<1>2. PICK c \in todo[w] : ClaimFree(w, Target(w, c)) /\ (Granted(w, c) \/ Denied(w, c))
  BY ClaimCases
<1>3. /\ Node(w)' = Node(w) /\ Owed(w)' = Owed(w) /\ \A d : Target(w, d)' = Target(w, d)
  BY <1>1, SameOperation
<1> DEFINE t == Target(w, c)
<1>4. t \in Targets /\ ClaimView(w)[t] \in Nodes \cup {Nobody} /\ Nobody # Untouched /\ Node(w) # Untouched
  BY <1>1, <1>2, ViewTypes, MarkersAssumption
<1>5. Offering'
  BY <1>1 DEF Offering, Carries
<1>6. CASE Granted(w, c)
  <2>1. \A x \in Targets : claimWrites'[w][x] = IF x = t THEN Node(w) ELSE claimWrites[w][x]
    BY <1>4, <1>6, GrantedClaims
  <2>2. TypeOK'
    <3>1. claimWrites' \in [Writers -> [Targets -> Nodes \cup {Nobody, Untouched}]]
      BY <1>1, <1>4, <1>6 DEF Granted, TypeOK
    <3>2. todo' \in [Writers -> SUBSET Constraints] /\ claimed' \in [Writers -> SUBSET Constraints]
      BY <1>1, <1>2, <1>6 DEF Granted, TypeOK
    <3> QED
      BY <1>1, <1>6, <3>1, <3>2 DEF Granted, TypeOK
  <2>3. phase'[w] = phase[w] /\ todo'[w] \cup claimed'[w] \subseteq Owed(w)
        /\ claimed'[w] \subseteq claimed[w] \cup {c}
    BY <1>1, <1>2, <1>6 DEF Granted, TypeOK
  <2>4. Stage(w)'
    BY <1>1, <1>3, <2>3 DEF Stage, Unbegun, Before
  <2>5. Own(w)'
    BY <1>1, <1>3, <2>3 DEF Own, Carries, Unbegun
  <2>6. Taken(w)'
    <3>1. claims[t] \in {Nobody, Node(w)}
      BY <1>4, <1>6 DEF Granted, Taken, ClaimView
    <3>2. \A d \in claimed'[w] : claimWrites'[w][Target(w, d)] = Node(w)
      BY <1>1, <1>2, <2>1, <2>3 DEF Taken
    <3> QED
      BY <1>1, <1>3, <2>1, <3>1, <3>2 DEF Taken
  <2>7. Extends(w)
    BY <1>2, <2>1 DEF Extends
  <2> QED
    BY <1>5, <2>2, <2>4, <2>5, <2>6, <2>7 DEF Kept
<1>7. CASE Denied(w, c)
  <2>1. \A x \in Targets :
            claimWrites'[w][x] =
               IF x = t THEN ClaimView(w)[x]
               ELSE IF \E d \in claimed[w] : x = Target(w, d) THEN Nobody ELSE claimWrites[w][x]
    BY <1>4, <1>7, DeniedClaims
  <2>2. phase'[w] \in {"commitPast", "rollback"} /\ todo'[w] = {} /\ claimed'[w] = {}
    BY <1>7, RefusalCases DEF Denied, TypeOK
  <2>3. TypeOK'
    <3>1. GivenBack(w) \in [Targets -> Nodes \cup {Nobody, Untouched}]
      BY DEF GivenBack, TypeOK
    <3>2. claimWrites' \in [Writers -> [Targets -> Nodes \cup {Nobody, Untouched}]]
      BY <1>4, <1>7, <3>1 DEF Denied, TypeOK
    <3>3. phase' \in [Writers -> Phases]
      BY <1>7, RefusalCases DEF Denied, TypeOK, Phases
    <3> QED
      BY <1>1, <1>7, <3>2, <3>3 DEF Denied, TypeOK
  <2>4. Stage(w)'
    BY <1>1, <1>3, <2>2 DEF Stage, Unbegun, Before
  <2>5. Own(w)'
    BY <1>1, <1>3, <2>2 DEF Own, Carries, Unbegun
  <2>6. Taken(w)'
    <3>1. t = Target(w, c) /\ (claimWrites[w][t] = Untouched => ClaimView(w)[t] = claims[t])
          /\ (claimWrites[w][t] # Untouched => ClaimView(w)[t] = claimWrites[w][t])
      BY <1>4 DEF ClaimView
    <3>2. ClaimView(w)[t] = claims[t]
      BY <1>4, <1>7, <3>1 DEF Denied, Taken
    <3>3. ASSUME NEW d \in claimed[w] PROVE claims[Target(w, d)] \in {Nobody, Node(w)}
      <4>1. claimWrites[w][Target(w, d)] = Node(w) /\ Target(w, d) \in Targets
        BY <1>1 DEF Taken
      <4> QED
        BY <1>4, <4>1 DEF Taken
    <3> QED
      BY <1>1, <1>3, <2>1, <2>2, <3>2, <3>3 DEF Taken
  <2>7. Extends(w)
    <3>1. ASSUME NEW d \in claimed[w] PROVE claimWrites[w][Target(w, d)] # Untouched
      BY <1>1, <1>4 DEF Taken
    <3> QED
      BY <1>2, <2>1, <3>1 DEF Extends
  <2> QED
    BY <1>5, <2>3, <2>4, <2>5, <2>6, <2>7 DEF Kept
<1> QED
  BY <1>2, <1>6, <1>7

\* A row its node may carry is written, or the row is left as it is.
LEMMA RowMove ==
    ASSUME TypeOK, Offering, NEW w \in Writers, Own(w), phase[w] \notin Unbegun,
           phase'[w] \notin Unbegun, UNCHANGED <<rows, op, existing>>, Node(w) \in Nodes,
           \/ rowWrites' = rowWrites
           \/ \E row \in Row \cup {Absent} : /\ rowWrites' = [rowWrites EXCEPT ![w][Node(w)] = row]
                                           /\ Carries(Node(w), row)
    PROVE  /\ rowWrites' \in [Writers -> [Nodes -> Row \cup {Absent, Untouched}]]
           /\ Offering'
           /\ \A n \in Nodes : rowWrites'[w][n] # Untouched => phase'[w] \notin Unbegun /\ n = Node(w)'
           /\ Carries(Node(w), existing[w])'
<1>1. Node(w)' = Node(w)
  BY DEF Node
<1>2. Carries(Node(w), existing[w])'
  <2>1. phase[w] # "idle"
    BY DEF Unbegun
  <2> QED
    BY <1>1, <2>1 DEF Own, Carries
<1>3. CASE rowWrites' = rowWrites
  BY <1>1, <1>2, <1>3 DEF TypeOK, Offering, Carries, Own
<1>4. ASSUME NEW row \in Row \cup {Absent}, Carries(Node(w), row),
             rowWrites' = [rowWrites EXCEPT ![w][Node(w)] = row]
      PROVE  /\ rowWrites' \in [Writers -> [Nodes -> Row \cup {Absent, Untouched}]]
             /\ Offering'
             /\ \A n \in Nodes : rowWrites'[w][n] # Untouched => n = Node(w)
  <2>1. rowWrites' \in [Writers -> [Nodes -> Row \cup {Absent, Untouched}]]
    BY <1>4 DEF TypeOK
  <2>2. \A v \in Writers, n \in Nodes :
            rowWrites'[v][n] = IF v = w /\ n = Node(w) THEN row ELSE rowWrites[v][n]
    BY <1>4 DEF TypeOK
  <2>3. Offering'
    BY <1>4, <2>2 DEF Offering, Carries
  <2> QED
    BY <2>1, <2>2, <2>3 DEF Own
<1> QED
  BY <1>1, <1>2, <1>3, <1>4

\* Inserting or updating the row, or finding it gone.
LEMMA WriteStep ==
    ASSUME StageInv, NEW w \in Writers, InsertRow(w) \/ UpdateRow(w)
    PROVE  Kept(w)
<1> TypeOK /\ Offering /\ Stage(w) /\ Own(w) /\ Taken(w)
  BY DEF StageInv
<1> DEFINE row == [deleted |-> FALSE, keys |-> NewKeys(w)]
<1>1. /\ phase[w] = "claim" /\ UNCHANGED <<rows, claims, claimWrites, graphLock, op, started,
                                          existing, claimed, retried>>
  BY DEF InsertRow, UpdateRow, database, frame
<1>2. /\ op[w] \in Operation /\ Node(w) \in Addresses(w)
      /\ existing[w] = Absent => op[w].kind \in {"create", "import"}
      /\ claimed[w] \subseteq Owed(w)
  BY <1>1 DEF Stage
<1>3. Node(w) \in Nodes
  BY <1>2, SetsAssumption
<1>4. row \in Row /\ Carries(Node(w), row)
  BY <1>1, <1>2, NewKeysTypes DEF Own, Carries
<1>5. Node(w)' = Node(w) /\ Owed(w)' = Owed(w) /\ \A d : Target(w, d)' = Target(w, d)
  BY <1>1, SameOperation
<1> HIDE DEF row
<1>6. \/ /\ Inserts(w) /\ rowWrites' = [rowWrites EXCEPT ![w][Node(w)] = row]
         /\ todo' = [todo EXCEPT ![w] = Owed(w) \ CrossKind]
         /\ phase' = [phase EXCEPT ![w] = "post"]
      \/ UNCHANGED <<rowWrites, todo>> /\ phase' = [phase EXCEPT ![w] = "rollback"]
      \/ /\ rowWrites' = [rowWrites EXCEPT ![w][Node(w)] = row]
         /\ todo' = [todo EXCEPT ![w] = ToRelease(w)]
         /\ phase' = [phase EXCEPT ![w] = "release"]
  BY DEF InsertRow, UpdateRow, WriteRow, Todo, Goto, row
<1>7. phase'[w] \in {"post", "rollback", "release"}
  BY <1>6 DEF TypeOK
<1>8. /\ rowWrites' \in [Writers -> [Nodes -> Row \cup {Absent, Untouched}]]
      /\ Offering'
      /\ \A n \in Nodes : rowWrites'[w][n] # Untouched => phase'[w] \notin Unbegun /\ n = Node(w)'
      /\ Carries(Node(w), existing[w])'
  BY <1>1, <1>3, <1>4, <1>6, <1>7, RowMove DEF Unbegun
<1>9. ToRelease(w) \subseteq Constraints
      /\ \A c \in ToRelease(w) : existing[w] # Absent /\ existing[w].keys[c] \in Keys
  BY DEF ToRelease, Changed, IsLive, TypeOK, Row
<1>10. TypeOK'
  <2>1. phase' \in [Writers -> Phases]
    BY <1>6 DEF TypeOK, Phases
  <2>2. todo' \in [Writers -> SUBSET Constraints]
    <3>1. Owed(w) \ CrossKind \subseteq Constraints
      BY DEF Owed
    <3>2. todo' = todo \/ \E cs \in SUBSET Constraints : todo' = [todo EXCEPT ![w] = cs]
      BY <1>6, <1>9, <3>1
    <3> QED
      BY <3>2 DEF TypeOK
  <2> QED
    BY <1>1, <1>8, <2>1, <2>2 DEF TypeOK
<1>11. Stage(w)'
  <2>1. CASE phase'[w] = "rollback"
    BY <1>1, <1>2, <1>5, <2>1 DEF Stage, Unbegun, Before
  <2>2. CASE phase'[w] = "post"
    <3>1. existing[w] = Absent /\ todo'[w] = Owed(w) \ CrossKind
      BY <1>6, <2>2 DEF TypeOK, Inserts
    <3> QED
      BY <1>1, <1>2, <1>5, <2>2, <3>1 DEF Stage, Unbegun, Before
  <2>3. CASE phase'[w] = "release"
    <3>1. todo'[w] = ToRelease(w)
      BY <1>6, <2>3 DEF TypeOK
    <3> QED
      BY <1>1, <1>2, <1>5, <1>9, <2>3, <3>1 DEF Stage, Unbegun, Before
  <2> QED
    BY <1>7, <2>1, <2>2, <2>3
<1>12. Own(w)' /\ Taken(w)' /\ Extends(w)
  BY <1>1, <1>5, <1>7, <1>8 DEF Own, Taken, Extends, Unbegun
<1> QED
  BY <1>8, <1>10, <1>11, <1>12 DEF Kept

\* A writer that lost its row gives its claims back.
LEMMA LoseStep ==
    ASSUME StageInv, NEW w \in Writers, LoseRow(w)
    PROVE  Kept(w)
<1> TypeOK /\ Offering /\ Stage(w) /\ Own(w) /\ Taken(w)
  BY DEF StageInv
<1>1. /\ phase[w] = "claim" /\ todo[w] = {}
      /\ claimWrites' = [claimWrites EXCEPT ![w] = GivenBack(w)]
      /\ claimed' = [claimed EXCEPT ![w] = {}]
      /\ UNCHANGED <<rows, claims, rowWrites, graphLock, op, started, existing, todo, retried>>
  BY DEF LoseRow, database, frame
<1>2. \E p \in {"recover", "commitPast", "rollback"} : phase' = [phase EXCEPT ![w] = p]
  BY RefusalCases DEF LoseRow, Goto
<1>3. /\ op[w] \in Operation /\ Node(w) \in Addresses(w) /\ claimed[w] \subseteq Owed(w)
      /\ \A d \in Owed(w) : Target(w, d) \in Targets
  BY <1>1, NewKeysTypes DEF Stage
<1>4. Node(w)' = Node(w) /\ Node(w) \in Nodes
  BY <1>1, <1>3, SetsAssumption DEF Node
<1>5. TypeOK'
  <2>1. phase' \in [Writers -> Phases]
    BY <1>2 DEF TypeOK, Phases
  <2>2. GivenBack(w) \in [Targets -> Nodes \cup {Nobody, Untouched}]
    BY DEF GivenBack, TypeOK
  <2>3. claimWrites' \in [Writers -> [Targets -> Nodes \cup {Nobody, Untouched}]]
        /\ claimed' \in [Writers -> SUBSET Constraints]
    BY <1>1, <2>2 DEF TypeOK
  <2> QED
    BY <1>1, <2>1, <2>3 DEF TypeOK
<1>6. /\ \A x \in Targets : claimWrites'[w][x] =
             IF \E d \in claimed[w] : x = Target(w, d) THEN Nobody ELSE claimWrites[w][x]
      /\ claimed'[w] = {}
  BY <1>1 DEF GivenBack, TypeOK
<1>7. Stage(w)'
  BY <1>1, <1>2, <1>3, <1>4, <1>6 DEF Stage, Unbegun, Before, TypeOK
<1>8. Offering' /\ Own(w)'
  BY <1>1, <1>2, <1>4 DEF Offering, Own, Carries, Unbegun, TypeOK
<1>9. ASSUME NEW d \in claimed[w]
      PROVE  /\ claimWrites[w][Target(w, d)] # Untouched
             /\ claims[Target(w, d)] \in {Nobody, Node(w)}
  <2>1. claimWrites[w][Target(w, d)] = Node(w) /\ Target(w, d) \in Targets
    BY <1>1, <1>3 DEF Taken
  <2> QED
    BY <1>4, <2>1, MarkersAssumption DEF Taken
<1>10. Taken(w)' /\ Extends(w)
  BY <1>1, <1>2, <1>4, <1>6, <1>9 DEF Taken, Extends, TypeOK
<1> QED
  BY <1>5, <1>7, <1>8, <1>10 DEF Kept

\* Releasing one key, or every key of the node.
LEMMA ReleaseStep ==
    ASSUME StageInv, NEW w \in Writers, ReleaseKey(w) \/ DropClaims(w)
    PROVE  Kept(w)
<1> TypeOK /\ Offering /\ Stage(w) /\ Own(w) /\ Taken(w)
  BY DEF StageInv
<1>1. /\ phase[w] \in {"release", "drop"}
      /\ UNCHANGED <<rows, claims, rowWrites, graphLock, op, started, existing, claimed, retried>>
  BY DEF ReleaseKey, DropClaims, database, frame
<1>2. op[w] \in Operation /\ Node(w) \in Addresses(w) /\ Node(w) \in Nodes
  BY <1>1, SetsAssumption DEF Stage
<1>3. Node(w)' = Node(w)
  BY <1>1 DEF Node
<1>4. /\ phase'[w] \in {"release", "erase"} /\ phase' \in [Writers -> Phases]
      /\ phase[w] = "drop" => phase'[w] = "erase" /\ todo' = todo
      /\ phase[w] = "release" => phase' = phase
  BY <1>1 DEF ReleaseKey, DropClaims, Goto, TypeOK, Phases
<1>5. todo' \in [Writers -> SUBSET Constraints] /\ todo'[w] \subseteq todo[w]
  <2>1. todo' = todo \/ \E c : todo' = [todo EXCEPT ![w] = todo[w] \ {c}]
    BY DEF ReleaseKey, DropClaims, Todo
  <2> QED
    BY <2>1 DEF TypeOK
<1>6. /\ claimWrites' \in [Writers -> [Targets -> Nodes \cup {Nobody, Untouched}]]
      /\ \A x \in Targets :
            claimWrites'[w][x] # claimWrites[w][x] =>
                /\ claimWrites'[w][x] = Nobody /\ ClaimView(w)[x] = Node(w)
                /\ claims[x] = Node(w) => ClaimFree(w, x)
  <2>1. CASE ReleaseKey(w)
    <3> DEFINE t == <<Least(todo[w]), existing[w].keys[Least(todo[w])]>>
    <3>1. claims[t] = Node(w) => ClaimFree(w, t)
      BY <2>1 DEF ReleaseKey
    <3>2. CASE claimWrites' = claimWrites
      BY <3>2 DEF TypeOK
    <3>3. CASE ClaimView(w)[t] = Node(w) /\ claimWrites' = [claimWrites EXCEPT ![w][t] = Nobody]
      <4> HIDE DEF t
      <4> QED
        BY <3>1, <3>3 DEF TypeOK
    <3> QED
      BY <2>1, <3>2, <3>3 DEF ReleaseKey, WriteClaim
  <2>2. CASE DropClaims(w)
    <3>1. claimWrites' = [claimWrites EXCEPT ![w] =
              [t \in Targets |-> IF ClaimView(w)[t] = Node(w) THEN Nobody ELSE claimWrites[w][t]]]
      BY <2>2 DEF DropClaims, TypeOK
    <3>2. claimWrites' \in [Writers -> [Targets -> Nodes \cup {Nobody, Untouched}]]
      BY <3>1 DEF TypeOK
    <3>3. \A x \in Targets :
              claimWrites'[w][x] = IF ClaimView(w)[x] = Node(w) THEN Nobody ELSE claimWrites[w][x]
      BY <3>1 DEF TypeOK
    <3> QED
      BY <2>2, <3>2, <3>3 DEF DropClaims
  <2> QED
    BY <2>1, <2>2
<1>7. TypeOK'
  BY <1>1, <1>4, <1>5, <1>6 DEF TypeOK
<1>8. Stage(w)'
  BY <1>1, <1>2, <1>3, <1>4, <1>5 DEF Stage, Unbegun, Before
<1>9. Offering' /\ Own(w)'
  BY <1>1, <1>3, <1>4 DEF Offering, Own, Carries, Unbegun
<1>10. ASSUME NEW x \in Targets, claimWrites'[w][x] # claimWrites[w][x]
       PROVE  /\ claimWrites'[w][x] = Nobody /\ claims[x] \in {Nobody, Node(w)}
              /\ claimWrites[w][x] # Untouched \/ ClaimFree(w, x)
  <2>1. claimWrites'[w][x] = Nobody /\ ClaimView(w)[x] = Node(w)
        /\ (claims[x] = Node(w) => ClaimFree(w, x))
    BY <1>6, <1>10
  <2> QED
    BY <2>1 DEF ClaimView, Taken
<1>11. Taken(w)' /\ Extends(w)
  BY <1>1, <1>3, <1>4, <1>10 DEF Taken, Extends
<1> QED
  BY <1>7, <1>8, <1>9, <1>11 DEF Kept

\* Marking the row deleted, or erasing it.
LEMMA RemoveStep ==
    ASSUME StageInv, NEW w \in Writers, RetireRow(w) \/ EraseRow(w)
    PROVE  Kept(w)
<1> TypeOK /\ Offering /\ Stage(w) /\ Own(w) /\ Taken(w)
  BY DEF StageInv
<1>1. /\ phase[w] \in {"retire", "erase"} /\ phase' = [phase EXCEPT ![w] = "release"]
      /\ UNCHANGED <<rows, claims, claimWrites, graphLock, op, started, existing, claimed, retried>>
  BY DEF RetireRow, EraseRow, Goto, database, frame
<1>2. op[w] \in Operation /\ Node(w) \in Addresses(w) /\ Node(w) \in Nodes
  BY <1>1, SetsAssumption DEF Stage
<1>3. Node(w)' = Node(w) /\ phase'[w] = "release"
  BY <1>1 DEF Node, TypeOK
<1>4. \/ rowWrites' = rowWrites
      \/ \E row \in Row \cup {Absent} : /\ rowWrites' = [rowWrites EXCEPT ![w][Node(w)] = row]
                                      /\ Carries(Node(w), row)
  <2>1. CASE RetireRow(w)
    <3> DEFINE old == RowView(w)[Node(w)]
               row == [old EXCEPT !.deleted = TRUE]
    <3>1. CASE UNCHANGED rowWrites
      BY <3>1
    <3>2. CASE IsLive(old) /\ rowWrites' = [rowWrites EXCEPT ![w][Node(w)] = row]
      <4>1. old \in Row /\ Carries(Node(w), old)
        BY <1>2, <3>2, ViewTypes DEF IsLive, Offering, RowView
      <4>2. row \in Row /\ row.keys = old.keys
        BY <4>1 DEF Row
      <4>3. Carries(Node(w), row)
        BY <4>1, <4>2 DEF Carries
      <4> QED
        BY <3>2, <4>2, <4>3
    <3> QED
      BY <2>1, <3>1, <3>2 DEF RetireRow, WriteRow
  <2>2. CASE EraseRow(w)
    BY <2>2, NoRowAssumption DEF EraseRow, WriteRow, Carries
  <2> QED
    BY <2>1, <2>2
<1>5. /\ rowWrites' \in [Writers -> [Nodes -> Row \cup {Absent, Untouched}]]
      /\ Offering'
      /\ \A n \in Nodes : rowWrites'[w][n] # Untouched => phase'[w] \notin Unbegun /\ n = Node(w)'
      /\ Carries(Node(w), existing[w])'
  BY <1>1, <1>2, <1>3, <1>4, RowMove DEF Unbegun
<1>6. todo' \in [Writers -> SUBSET Constraints]
      /\ \A c \in todo'[w] : existing[w] # Absent /\ existing[w].keys[c] \in Keys
  <2>1. CASE RetireRow(w)
    <3> DEFINE cs == {c \in Constraints : existing[w].keys[c] # Unset}
    <3>1. todo' = [todo EXCEPT ![w] = cs]
      BY <2>1 DEF RetireRow, Todo
    <3>2. existing[w] # Absent /\ existing[w] \in Row
      BY <2>1 DEF RetireRow, Stage, TypeOK
    <3>3. \A c \in cs : existing[w].keys[c] \in Keys
      BY <3>2 DEF Row
    <3> HIDE DEF cs
    <3>4. cs \in SUBSET Constraints
      BY DEF cs
    <3> QED
      BY <3>1, <3>2, <3>3, <3>4 DEF TypeOK
  <2>2. CASE EraseRow(w)
    BY <2>2 DEF EraseRow, Stage, TypeOK
  <2> QED
    BY <2>1, <2>2
<1>7. TypeOK'
  BY <1>1, <1>5, <1>6 DEF TypeOK, Phases
<1>8. Stage(w)'
  BY <1>1, <1>2, <1>3, <1>6 DEF Stage, Unbegun, Before
<1>9. Own(w)' /\ Taken(w)' /\ Extends(w)
  BY <1>1, <1>3, <1>5 DEF Own, Taken, Extends, Unbegun
<1> QED
  BY <1>5, <1>7, <1>8, <1>9 DEF Kept

\* The end of a transaction.
LEMMA EndStep ==
    ASSUME StageInv, NEW w \in Writers, Commit(w) \/ Rollback(w)
    PROVE  Kept(w)
<1> TypeOK /\ Offering /\ Stage(w) /\ Own(w) /\ Taken(w)
  BY DEF StageInv
<1>1. Finish(w)
  BY DEF Commit, Rollback
<1>2. /\ rows' \in {rows, RowView(w)} /\ rows' \in [Nodes -> Row \cup {Absent}]
      /\ claims' \in [Targets -> Nodes \cup {Nobody}]
  <2>1. CASE Commit(w)
    BY <2>1, ViewTypes DEF Commit
  <2>2. CASE Rollback(w)
    BY <2>2 DEF Rollback, database, TypeOK
  <2> QED
    BY <2>1, <2>2
<1>3. /\ phase'[w] = "idle" /\ existing'[w] = Absent /\ todo'[w] = {} /\ claimed'[w] = {}
      /\ \A n \in Nodes : rowWrites'[w][n] = Untouched
      /\ \A t \in Targets : claimWrites'[w][t] = Untouched
      /\ \A v \in Writers \ {w} : rowWrites'[v] = rowWrites[v]
  BY <1>1 DEF Finish, Todo, Goto, TypeOK
<1>4. TypeOK'
  <2>1. rowWrites' \in [Writers -> [Nodes -> Row \cup {Absent, Untouched}]]
        /\ claimWrites' \in [Writers -> [Targets -> Nodes \cup {Nobody, Untouched}]]
    BY <1>1 DEF Finish, TypeOK
  <2>2. /\ graphLock' \in Writers \cup {Free} /\ phase' \in [Writers -> Phases]
        /\ op' \in [Writers -> Operation \cup {NoOp}] /\ existing' \in [Writers -> Row \cup {Absent}]
        /\ todo' \in [Writers -> SUBSET Constraints] /\ claimed' \in [Writers -> SUBSET Constraints]
        /\ retried' \in [Writers -> BOOLEAN] /\ started' \in 0..MaxOps
    BY <1>1 DEF Finish, Todo, Goto, TypeOK, Phases
  <2> QED
    BY <1>2, <2>1, <2>2 DEF TypeOK
<1>5. Offering'
  <2>1. \A n \in Nodes : Carries(n, rows'[n])
    BY <1>2 DEF Offering, RowView
  <2>2. \A n \in Nodes : Carries(n, Untouched)
    BY NoRowAssumption DEF Carries
  <2> QED
    BY <1>3, <2>1, <2>2 DEF Offering, Carries
<1>6. Stage(w)' /\ Own(w)' /\ Taken(w)' /\ Extends(w)
  BY <1>3 DEF Stage, Own, Taken, Extends, Unbegun
<1> QED
  BY <1>4, <1>5, <1>6 DEF Kept

LEMMA StepKeeps ==
    ASSUME StageInv, NEW w \in Writers, Step(w)
    PROVE  Kept(w)
BY BeginStep, LockGraphStep, EndStep, ReadStep, ProbeStep, ClaimStep, WriteStep, LoseStep,
   ReleaseStep, RemoveStep DEF Step

\* A claim row another open transaction wrote keeps its owner.
LEMMA OwnersStand ==
    ASSUME StageInv, NEW w \in Writers, Step(w), NEW v \in Writers \ {w}, NEW t \in Targets,
           claimWrites[v][t] # Untouched
    PROVE  claims'[t] = claims[t]
<1>1. CASE Commit(w)
  BY <1>1 DEF Commit, StageInv, Exclusive, ClaimView, TypeOK
<1>2. CASE ~Commit(w)
  BY <1>2, StepKeepsDatabase
<1> QED
  BY <1>1, <1>2

LEMMA NextStages == StageInv /\ [Next]_vars => StageInv'
<1> SUFFICES ASSUME StageInv, [Next]_vars PROVE StageInv'
  OBVIOUS
<1>1. ASSUME NEW w \in Writers, Step(w) PROVE StageInv'
  <2>1. OthersKept(w) /\ Kept(w)
    BY <1>1, StepKeepsOthers, StepKeeps DEF StageInv
  <2>2. \A v \in Writers : Stage(v)' /\ Own(v)' /\ Taken(v)'
    <3>1. ASSUME NEW v \in Writers \ {w} PROVE Stage(v)' /\ Own(v)' /\ Taken(v)'
      BY <1>1, <2>1, <3>1, OthersStand, OthersTaken, OwnersStand DEF StageInv
    <3> QED
      BY <2>1, <3>1 DEF Kept
  <2>3. Exclusive'
    BY <2>1 DEF OthersKept, Kept, Extends, ClaimFree, Exclusive, StageInv
  <2> QED
    BY <2>1, <2>2, <2>3 DEF Kept, StageInv
<1>2. CASE UNCHANGED vars
  <2>1. TypeOK' /\ Offering' /\ Exclusive'
    BY <1>2 DEF StageInv, vars, TypeOK, Offering, Carries, Exclusive
  <2>2. ASSUME NEW w \in Writers PROVE Stage(w)' /\ Own(w)' /\ Taken(w)'
    <3>1. Node(w)' = Node(w) /\ Owed(w)' = Owed(w) /\ \A c : Target(w, c)' = Target(w, c)
      BY <1>2, SameOperation DEF vars
    <3> QED
      BY <1>2, <3>1 DEF StageInv, vars, Stage, Own, Taken, Carries
  <2> QED
    BY <2>1, <2>2 DEF StageInv
<1> QED
  BY <1>1, <1>2 DEF Next

LEMMA InitStages == Init => StageInv
<1> SUFFICES ASSUME Init PROVE StageInv
  OBVIOUS
<1>1. TypeOK
  BY OpsAssumption DEF Init, TypeOK, Phases
<1>2. Offering /\ Exclusive
  BY NoRowAssumption DEF Init, Offering, Exclusive, Carries
<1>3. \A w \in Writers : Stage(w) /\ Own(w) /\ Taken(w)
  BY DEF Init, Stage, Own, Taken, Unbegun
<1> QED
  BY <1>1, <1>2, <1>3 DEF StageInv

LEMMA StagesHold == Spec => []StageInv
BY InitStages, NextStages, PTL DEF Spec

\* Every state of the writers has its shape, whatever they write.
THEOREM TypeCorrect == Spec => []TypeOK
BY StagesHold, PTL DEF StageInv
-----------------------------------------------------------------------------
(* What a node owes and what it holds. *)

\* The claims a committed node holds are those its row owes.
LEMMA MirrorByNode ==
    ASSUME NEW n \in Nodes, \A t \in Targets : claims[t] = n <=> Holds(n, t)
    PROVE  {t \in Targets : claims[t] = n} = Due(rows[n])
BY DEF Due, Holds

\* The row an operation writes owes the targets of the constraints it owes.
LEMMA OwedTargets ==
    ASSUME NEW w \in Writers, \A c \in Owed(w) : Target(w, c) \in Targets,
           [deleted |-> FALSE, keys |-> NewKeys(w)] \in Row
    PROVE  Due([deleted |-> FALSE, keys |-> NewKeys(w)]) = TargetsOf(w, Owed(w))
<1> DEFINE row == [deleted |-> FALSE, keys |-> NewKeys(w)]
<1>1. row # Absent => Due(row) = TargetsOf(w, Owed(w))
  <2>1. ASSUME row # Absent PROVE Due(row) = {t \in Targets : NewKeys(w)[t[1]] = t[2]}
    BY <2>1 DEF Due, IsLive
  <2>2. ASSUME NEW t \in Targets, NewKeys(w)[t[1]] = t[2] PROVE t \in TargetsOf(w, Owed(w))
    <3>1. t[1] \in Constraints /\ t[2] \in Keys /\ t = <<t[1], t[2]>>
      BY DEF Targets
    <3>2. t[1] \in Owed(w) /\ t = Target(w, t[1])
      BY <2>2, <3>1, MarkersAssumption DEF Owed, Target
    <3> QED
      BY <3>2 DEF TargetsOf
  <2>3. ASSUME NEW c \in Owed(w) PROVE Target(w, c) \in Targets /\ NewKeys(w)[Target(w, c)[1]] = Target(w, c)[2]
    BY DEF Target
  <2> QED
    BY <2>1, <2>2, <2>3 DEF TargetsOf
<1> QED
  BY <1>1, NoRowAssumption

\* A row whose node may carry no key owes nothing.
LEMMA Keyless ==
    ASSUME NEW n \in Nodes, NEW row \in Row \cup {Absent}, Carries(n, row),
           \A c \in Constraints : Offered(n, c) \subseteq {Unset}
    PROVE  Due(row) = {}
<1>1. ASSUME NEW t \in Targets, IsLive(row), row.keys[t[1]] = t[2] PROVE FALSE
  <2>1. t[1] \in Constraints /\ t[2] \in Keys
    BY DEF Targets
  <2>2. row \in Row
    BY <1>1 DEF IsLive
  <2> QED
    BY <1>1, <2>1, <2>2, MarkersAssumption DEF Carries
<1> QED
  BY <1>1 DEF Due

-----------------------------------------------------------------------------
(* The other writers keep what they hold. *)

\* While an operation is under way its node's committed row and claims change,
\* if at all, in nothing that is owed.
LEMMA NodeStands ==
    ASSUME StageInv, StageInv', Locked, ClaimsMirrorRows, ClaimsMirrorRows', SoleWriter \/ AllLock,
           NEW w \in Writers, NEW v \in Writers \ {w}, Step(w), phase[v] \notin Unbegun
    PROVE  /\ Node(v) \in Nodes
           /\ \A t \in Targets : claims'[t] = Node(v) <=> claims[t] = Node(v)
           /\ Due(rows'[Node(v)]) = Due(rows[Node(v)])
<1> DEFINE n == Node(v)
<1>1. n \in Nodes /\ n \in Addresses(v)
  BY SetsAssumption DEF StageInv, Stage, Unbegun
<1>2. CASE ~Commit(w)
  BY <1>1, <1>2, StepKeepsDatabase
<1>3. CASE Commit(w)
  <2>1. rows'[n] = RowView(w)[n] /\ phase[w] \notin Unbegun
    BY <1>3 DEF Commit, Unbegun
  <2>2. Due(rows'[n]) = Due(rows[n])
    <3>1. CASE n # Node(w)
      <4>1. rowWrites[w][n] = Untouched
        BY <1>1, <3>1 DEF StageInv, Own
      <4> QED
        BY <1>1, <2>1, <4>1 DEF RowView
    <3>2. CASE n = Node(w)
      <4>1. n \in Addresses(w)
        BY <2>1, <3>2 DEF StageInv, Stage, Unbegun
      <4>2. ~AllLock
        BY <2>1 DEF Locked
      <4>3. \A c \in Constraints : Offered(n, c) \subseteq {Unset}
        BY <1>1, <4>1, <4>2 DEF SoleWriter
      <4>4. rows[n] \in Row \cup {Absent} /\ Carries(n, rows[n])
        BY <1>1 DEF StageInv, TypeOK, Offering
      <4>5. rows'[n] \in Row \cup {Absent} /\ Carries(n, rows'[n])
        BY <1>1 DEF StageInv, TypeOK, Offering, Carries
      <4> QED
        BY <1>1, <4>3, <4>4, <4>5, Keyless
    <3> QED
      BY <3>1, <3>2
  <2>3. ASSUME NEW t \in Targets PROVE claims'[t] = n <=> claims[t] = n
    <3>1. claims[t] = n <=> t \in Due(rows[n])
      BY <1>1 DEF ClaimsMirrorRows, Holds, Due
    <3>2. claims'[t] = n <=> t \in Due(rows'[n])
      BY <1>1 DEF ClaimsMirrorRows, Holds, Due
    <3> QED
      BY <2>2, <3>1, <3>2
  <2> QED
    BY <1>1, <2>2, <2>3
<1> QED
  BY <1>2, <1>3

\* What a writer holds is untouched by the steps of others.
LEMMA OthersHold ==
    ASSUME StageInv, NEW v \in Writers, Holding(v), phase[v] \notin Unbegun => Node(v) \in Nodes,
           phase'[v] = phase[v], op'[v] = op[v], existing'[v] = existing[v],
           todo'[v] = todo[v], claimed'[v] = claimed[v],
           rowWrites'[v] = rowWrites[v], claimWrites'[v] = claimWrites[v],
           phase[v] \notin Unbegun =>
               /\ \A t \in Targets : claims'[t] = Node(v) <=> claims[t] = Node(v)
               /\ Due(rows'[Node(v)]) = Due(rows[Node(v)])
    PROVE  Holding(v)'
<1>1. CASE phase[v] \in Unbegun
  BY <1>1 DEF Holding, Unbegun, Reading, Before, Seeing
<1>2. CASE phase[v] \notin Unbegun
  <2>1. /\ Node(v)' = Node(v) /\ NewKeys(v)' = NewKeys(v) /\ Owed(v)' = Owed(v) /\ Inserts(v)' = Inserts(v)
        /\ \A c : Target(v, c)' = Target(v, c)
    BY SameOperation
  <2>2. Owns(v)' = Owns(v)
    BY <1>2, <2>1 DEF Owns, ClaimView
  <2>3. Due(Stored(v))' = Due(Stored(v))
    <3>1. CASE rowWrites[v][Node(v)] = Untouched
      <4>1. Stored(v) = rows[Node(v)] /\ Stored(v)' = rows'[Node(v)]
        BY <1>2, <2>1, <3>1 DEF Stored, RowView
      <4>2. Due(Stored(v))' = Due(rows'[Node(v)])
        BY <4>1 DEF Due
      <4> QED
        BY <1>2, <4>1, <4>2
    <3>2. CASE rowWrites[v][Node(v)] # Untouched
      <4>1. Stored(v)' = Stored(v)
        BY <1>2, <2>1, <3>2 DEF Stored, RowView
      <4> QED
        BY <4>1 DEF Due
    <3> QED
      BY <3>1, <3>2
  <2>4. Due(rows[Node(v)])' = Due(rows[Node(v)]) /\ Due(existing[v])' = Due(existing[v])
    <3>1. Due(rows[Node(v)])' = Due(rows'[Node(v)])
      BY <2>1 DEF Due
    <3>2. Due(existing[v])' = Due(existing[v])
      BY DEF Due
    <3> QED
      BY <1>2, <3>1, <3>2
  <2>5. Unwritten(v)' = Unwritten(v) /\ \A cs : TargetsOf(v, cs)' = TargetsOf(v, cs)
    BY <2>1 DEF Unwritten, TargetsOf
  <2>6. CASE phase[v] \notin {"claim", "post", "release"}
    BY <2>2, <2>4, <2>5, <2>6 DEF Holding
  <2>7. CASE phase[v] = "claim"
    <3> USE <2>7 DEF Reading, Before, Seeing
    <3>1. Holding(v) => /\ Due(existing[v]) = Due(rows[Node(v)])
                        /\ Unwritten(v)
                        /\ Owns(v) = Due(rows[Node(v)]) \cup TargetsOf(v, claimed[v])
                        /\ TargetsOf(v, claimed[v] \cup todo[v]) \cap Due(rows[Node(v)]) = {}
      BY DEF Holding
    <3>2. Holding(v) =>
            /\ Inserts(v) => claimed[v] \cup todo[v] = Owed(v) \cap CrossKind
            /\ ~Inserts(v) =>
                  TargetsOf(v, Owed(v) \ (claimed[v] \cup todo[v])) \subseteq Due(rows[Node(v)])
            /\ claimed[v] \cap todo[v] = {}
      BY DEF Holding
    <3>3. /\ Due(existing[v])' = Due(rows[Node(v)])'
          /\ Unwritten(v)'
          /\ Owns(v)' = Due(rows[Node(v)])' \cup TargetsOf(v, claimed[v])'
          /\ TargetsOf(v, claimed[v] \cup todo[v])' \cap Due(rows[Node(v)])' = {}
      BY <2>2, <2>4, <2>5, <3>1
    <3>4. /\ Inserts(v)' => claimed'[v] \cup todo'[v] = Owed(v)' \cap CrossKind
          /\ ~Inserts(v)' =>
                TargetsOf(v, Owed(v) \ (claimed[v] \cup todo[v]))' \subseteq Due(rows[Node(v)])'
          /\ claimed'[v] \cap todo'[v] = {}
      BY <2>1, <2>4, <2>5, <3>2
    <3> QED
      BY <3>3, <3>4 DEF Holding
  <2>8. CASE phase[v] = "post"
    BY <2>1, <2>2, <2>5, <2>8 DEF Holding, Reading, Before, Seeing
  <2>9. CASE phase[v] = "release"
    BY <2>2, <2>3, <2>9 DEF Holding, Reading, Before, Seeing
  <2> QED
    BY <2>6, <2>7, <2>8, <2>9
<1> QED
  BY <1>1, <1>2

-----------------------------------------------------------------------------
(* The writer that takes the step, and what its node holds. *)

\* Before the row write the node's row is the committed one.
LEMMA UnwrittenStored ==
    ASSUME NEW w \in Writers, Unwritten(w), Node(w) \in Nodes
    PROVE  Stored(w) = rows[Node(w)] /\ RowView(w)[Node(w)] = rows[Node(w)]
BY DEF Unwritten, Stored, RowView

\* After its row write a transaction sees the row it wrote.
LEMMA WrittenStored ==
    ASSUME TypeOK, NEW w \in Writers, Node(w) \in Nodes, op'[w] = op[w], NEW row, row # Untouched,
           rowWrites' = [rowWrites EXCEPT ![w][Node(w)] = row]
    PROVE  rowWrites'[w][Node(w)] = row /\ Stored(w)' = row
<1>1. rowWrites'[w][Node(w)] = row
  BY DEF TypeOK
<1>2. Node(w)' = Node(w)
  BY DEF Node
<1> QED
  BY <1>1, <1>2 DEF Stored, RowView

\* Begin and the graph lock: an operation starts with the claims its row owes.
LEMMA StartHolds ==
    ASSUME StageInv, StageInv', ClaimsMirrorRows, NEW w \in Writers, Begin(w) \/ LockGraph(w)
    PROVE  Holding(w)'
<1>1. /\ UNCHANGED <<rows, claims, rowWrites, claimWrites>> /\ phase[w] \in Unbegun
      /\ phase'[w] \in {"lock", "read"}
  BY DEF Begin, LockGraph, database, Goto, Unbegun, StageInv, TypeOK
<1>2. Node(w)' \in Nodes
  BY <1>1, SetsAssumption DEF StageInv, Stage
<1>3. (\A t \in Targets : claimWrites'[w][t] = Untouched) /\ Unwritten(w)'
  BY <1>1 DEF StageInv, Own, Unwritten
<1>4. Owns(w)' = {t \in Targets : claims'[t] = Node(w)'}
  BY <1>3 DEF Owns, ClaimView
<1>5. Owns(w)' = Due(rows[Node(w)])'
  <2>1. \A t \in Targets : claims'[t] = Node(w)' <=> IsLive(rows'[Node(w)']) /\ rows'[Node(w)'].keys[t[1]] = t[2]
    BY <1>1, <1>2 DEF ClaimsMirrorRows, Holds
  <2> QED
    BY <1>4, <2>1 DEF Due
<1> QED
  BY <1>1, <1>3, <1>5 DEF Holding, Reading, Before, Seeing

\* Reads: the row the decision is taken from owes what the committed one does.
LEMMA ReadHolds ==
    ASSUME StageInv, StageInv', NEW w \in Writers, Holding(w),
           ReadRow(w) \/ RereadTombstone(w) \/ Recover(w)
    PROVE  Holding(w)'
<1>1. /\ phase[w] \in {"read", "reread", "recover"}
      /\ UNCHANGED <<rows, claims, rowWrites, claimWrites, op>>
  BY DEF ReadRow, RereadTombstone, Recover, database, frame
<1>2. op[w] \in Operation /\ Node(w) \in Nodes /\ Node(w)' = Node(w)
  BY <1>1, SetsAssumption DEF StageInv, Stage, Node
<1>3. Unwritten(w) /\ Owns(w) = Due(rows[Node(w)])
  BY <1>1 DEF Holding, Reading, Before
<1>4. Unwritten(w)' /\ Owns(w)' = Owns(w) /\ Due(rows[Node(w)])' = Due(rows[Node(w)])
  BY <1>1, <1>2, <1>3 DEF Unwritten, Owns, ClaimView, Due
<1>5. /\ phase'[w] \in {"rollback", "check", "plan", "commitPast", "retire", "drop", "read"}
      /\ phase'[w] \in Seeing => existing'[w] = rows[Node(w)]
      /\ phase'[w] = "retire" => IsLive(existing'[w])
  <2>1. CASE ReadRow(w)
    <3> DEFINE p == Dispatch(op[w], RowView(w)[Node(w)], retried[w])
    <3>1. phase'[w] = p /\ existing'[w] = RowView(w)[Node(w)]
      BY <2>1 DEF ReadRow, Goto, Read, StageInv, TypeOK
    <3> HIDE DEF p
    <3>2. p \in {"rollback", "check", "plan", "commitPast", "retire", "drop"}
          /\ (p = "retire" => IsLive(RowView(w)[Node(w)]))
      BY <1>2, DispatchCases DEF p
    <3> QED
      BY <1>2, <1>3, <3>1, <3>2, UnwrittenStored
  <2>2. CASE RereadTombstone(w)
    <3>1. existing'[w] = RowView(w)[Node(w)] /\ phase'[w] \in {"plan", "rollback"}
      BY <2>2 DEF RereadTombstone, Read, Goto, StageInv, TypeOK
    <3> QED
      BY <1>2, <1>3, <3>1, UnwrittenStored
  <2>3. CASE Recover(w)
    BY <2>3 DEF Recover, Goto, Seeing, StageInv, TypeOK
  <2> QED
    BY <2>1, <2>2, <2>3
<1>6. phase'[w] \in Seeing => Due(existing[w])' = Due(rows[Node(w)])
  BY <1>5 DEF Due
<1> QED
  BY <1>3, <1>4, <1>5, <1>6 DEF Holding, Reading, Before, Seeing

\* Probes: what is left to claim is owed and not yet held.
LEMMA ProbeHolds ==
    ASSUME StageInv, StageInv', NEW w \in Writers, Holding(w), CheckKeys(w) \/ Plan(w)
    PROVE  Holding(w)'
<1>1. /\ phase[w] \in {"check", "plan"}
      /\ UNCHANGED <<rows, claims, rowWrites, claimWrites, op, existing, claimed>>
      /\ phase'[w] \in {"commitPast", "rollback", "claim", "reread"}
  BY RefusalCases DEF CheckKeys, Plan, database, frame, Goto, StageInv, TypeOK
<1>2. /\ op[w] \in Operation /\ Node(w) \in Nodes /\ claimed[w] = {}
      /\ phase[w] = "check" => op[w].kind \in {"create", "import"}
      /\ phase[w] = "plan" => existing[w] # Absent
      /\ existing[w] \in Row \cup {Absent}
  BY <1>1, SetsAssumption DEF StageInv, Stage, TypeOK, Before
<1>3. /\ Node(w)' = Node(w) /\ NewKeys(w)' = NewKeys(w) /\ Owed(w)' = Owed(w) /\ Inserts(w)' = Inserts(w)
      /\ \A c : Target(w, c)' = Target(w, c)
  BY <1>1, SameOperation
<1>4. Unwritten(w) /\ Owns(w) = Due(rows[Node(w)]) /\ Due(existing[w]) = Due(rows[Node(w)])
  BY <1>1 DEF Holding, Reading, Before, Seeing
<1>5. /\ Unwritten(w)' /\ Owns(w)' = Owns(w) /\ Due(rows[Node(w)])' = Due(rows[Node(w)])
      /\ Due(existing[w])' = Due(existing[w]) /\ claimed'[w] = {}
      /\ \A cs : TargetsOf(w, cs)' = TargetsOf(w, cs)
  BY <1>1, <1>2, <1>3, <1>4 DEF Unwritten, Owns, ClaimView, Due, TargetsOf
<1>6. CASE phase'[w] # "claim"
  BY <1>1, <1>4, <1>5, <1>6 DEF Holding, Reading, Before, Seeing
<1>7. CASE phase'[w] = "claim" /\ CheckKeys(w)
  <2>1. existing[w] = Absent /\ todo'[w] = ClaimsFirst(w)
    BY <1>7, RefusalCases DEF CheckKeys, Goto, Todo, StageInv, TypeOK
  <2>2. Inserts(w) /\ todo'[w] = Owed(w) \cap CrossKind
    BY <1>2, <1>7, <2>1 DEF Inserts, ClaimsFirst, CheckKeys
  <2>3. Due(rows[Node(w)]) = {}
    BY <1>4, <2>1 DEF Due, IsLive
  <2>4. TargetsOf(w, {}) = {}
    BY DEF TargetsOf
  <2> QED
    BY <1>3, <1>4, <1>5, <1>7, <2>2, <2>3, <2>4 DEF Holding, Reading, Before, Seeing
<1>8. CASE phase'[w] = "claim" /\ Plan(w)
  <2>1. existing[w] # Absent /\ ~Inserts(w) /\ todo'[w] = NotHeldByMe(w, ToProbe(w))
    BY <1>2, <1>8, RefusalCases DEF Plan, Goto, Todo, StageInv, TypeOK, Inserts
  <2>2. \A c \in Owed(w) : Target(w, c) \in Targets
    BY <1>2, <2>1, NewKeysTypes DEF StageInv
  <2>3. ToProbe(w) \subseteq Owed(w) /\ Owed(w) \subseteq Constraints
    BY DEF ToProbe, Owed
  <2>4. TargetsOf(w, todo'[w]) \cap Due(rows[Node(w)]) = {}
    BY <1>4, <2>1, <2>2, <2>3 DEF TargetsOf, NotHeldByMe, Owns
  <2>5. ASSUME NEW c \in Owed(w), c \notin todo'[w] PROVE Target(w, c) \in Due(rows[Node(w)])
    <3>1. CASE c \in ToProbe(w)
      BY <1>4, <2>1, <2>2, <2>5, <3>1 DEF NotHeldByMe, Owns
    <3>2. CASE c \notin ToProbe(w)
      <4>1. IsLive(existing[w]) /\ c \notin Changed(w) /\ c \in Constraints
        BY <2>3, <3>2 DEF ToProbe
      <4>2. existing[w].keys[c] = NewKeys(w)[c]
        BY <4>1 DEF Changed
      <4> QED
        BY <1>4, <2>2, <4>1, <4>2 DEF Due, Target
    <3> QED
      BY <3>1, <3>2
  <2>6. TargetsOf(w, Owed(w) \ todo'[w]) \subseteq Due(rows[Node(w)])
    BY <2>5 DEF TargetsOf
  <2>7. TargetsOf(w, {}) = {} /\ {} \cup todo'[w] = todo'[w]
    BY DEF TargetsOf
  <2>8. /\ TargetsOf(w, claimed[w])' = {}
        /\ TargetsOf(w, claimed[w] \cup todo[w])' = TargetsOf(w, todo'[w])
        /\ TargetsOf(w, Owed(w) \ (claimed[w] \cup todo[w]))' = TargetsOf(w, Owed(w) \ todo'[w])
    BY <1>3, <1>5, <2>7 DEF TargetsOf
  <2> QED
    BY <1>3, <1>4, <1>5, <1>8, <2>1, <2>4, <2>6, <2>8 DEF Holding, Reading, Before, Seeing
<1> QED
  BY <1>6, <1>7, <1>8

\* The claims taken before the row write, one more of them or all given back.
LEMMA ClaimHolds ==
    ASSUME StageInv, StageInv', NEW w \in Writers, Holding(w), ClaimKey(w)
    PROVE  Holding(w)'
<1>1. /\ phase[w] \in {"claim", "post"} /\ op[w] \in Operation /\ Node(w) \in Nodes
      /\ todo[w] \cup claimed[w] \subseteq Owed(w) /\ Owed(w) \subseteq Constraints
      /\ \A d \in Owed(w) : Target(w, d) \in Targets
      /\ UNCHANGED <<rows, claims, rowWrites, graphLock, op, started, existing, retried>>
  BY ClaimCases DEF StageInv
<1>2. PICK c \in todo[w] : ClaimFree(w, Target(w, c)) /\ (Granted(w, c) \/ Denied(w, c))
  BY ClaimCases DEF StageInv
<1>3. /\ Node(w)' = Node(w) /\ NewKeys(w)' = NewKeys(w) /\ Owed(w)' = Owed(w) /\ Inserts(w)' = Inserts(w)
      /\ \A d : Target(w, d)' = Target(w, d)
  BY <1>1, SameOperation
<1>4. /\ Due(rows[Node(w)])' = Due(rows[Node(w)]) /\ Due(existing[w])' = Due(existing[w])
      /\ Unwritten(w)' = Unwritten(w) /\ \A cs : TargetsOf(w, cs)' = TargetsOf(w, cs)
  BY <1>1, <1>3 DEF Due, Unwritten, TargetsOf
<1> DEFINE t == Target(w, c)
<1>5. t \in Targets /\ Nobody # Untouched /\ Node(w) # Untouched /\ Node(w) # Nobody
  BY <1>1, <1>2, MarkersAssumption
<1>6. CASE Granted(w, c)
  <2>1. \A x \in Targets : claimWrites'[w][x] = IF x = t THEN Node(w) ELSE claimWrites[w][x]
    BY <1>5, <1>6, GrantedClaims DEF StageInv
  <2>2. Owns(w)' = Owns(w) \cup {t}
    BY <1>1, <1>3, <1>5, <2>1 DEF Owns, ClaimView
  <2>3. phase'[w] = phase[w] /\ todo'[w] = todo[w] \ {c}
        /\ (phase[w] = "claim" => claimed'[w] = claimed[w] \cup {c})
    BY <1>6 DEF Granted, StageInv, TypeOK
  <2>4. CASE phase[w] = "claim"
    <3>1. TargetsOf(w, claimed[w] \cup {c}) = TargetsOf(w, claimed[w]) \cup {t}
      BY DEF TargetsOf
    <3>2. /\ (claimed[w] \cup {c}) \cup (todo[w] \ {c}) = claimed[w] \cup todo[w]
          /\ claimed[w] \cap todo[w] = {} => (claimed[w] \cup {c}) \cap (todo[w] \ {c}) = {}
      BY <1>2
    <3>3. /\ Unwritten(w) /\ Due(existing[w]) = Due(rows[Node(w)])
          /\ Owns(w) = Due(rows[Node(w)]) \cup TargetsOf(w, claimed[w])
          /\ TargetsOf(w, claimed[w] \cup todo[w]) \cap Due(rows[Node(w)]) = {}
          /\ Inserts(w) => claimed[w] \cup todo[w] = Owed(w) \cap CrossKind
          /\ ~Inserts(w) =>
                TargetsOf(w, Owed(w) \ (claimed[w] \cup todo[w])) \subseteq Due(rows[Node(w)])
          /\ claimed[w] \cap todo[w] = {}
      BY <2>4 DEF Holding, Seeing
    <3>4. Owns(w)' = Due(rows[Node(w)]) \cup TargetsOf(w, claimed'[w])
      BY <2>2, <2>3, <2>4, <3>1, <3>3
    <3>5. claimed'[w] \cup todo'[w] = claimed[w] \cup todo[w] /\ claimed'[w] \cap todo'[w] = {}
      BY <2>3, <2>4, <3>2, <3>3
    <3>6. /\ TargetsOf(w, claimed[w])' = TargetsOf(w, claimed'[w])
          /\ TargetsOf(w, claimed[w] \cup todo[w])' = TargetsOf(w, claimed[w] \cup todo[w])
          /\ TargetsOf(w, Owed(w) \ (claimed[w] \cup todo[w]))'
                = TargetsOf(w, Owed(w) \ (claimed[w] \cup todo[w]))
      BY <1>3, <3>5 DEF TargetsOf
    <3> QED
      BY <1>3, <1>4, <2>3, <2>4, <3>3, <3>4, <3>5, <3>6 DEF Holding, Reading, Before, Seeing
  <2>5. CASE phase[w] = "post"
    <3>1. TargetsOf(w, Owed(w) \ todo[w]) \cup {t} = TargetsOf(w, Owed(w) \ (todo[w] \ {c}))
      BY <1>1, <1>2 DEF TargetsOf
    <3>2. Owns(w)' = TargetsOf(w, Owed(w) \ todo'[w])
      BY <2>2, <2>3, <2>5, <3>1 DEF Holding
    <3> QED
      BY <1>1, <1>3, <1>4, <2>3, <2>5, <3>2 DEF Holding, Reading, Before, Seeing
  <2> QED
    BY <1>1, <2>4, <2>5
<1>7. CASE Denied(w, c)
  <2>1. \A x \in Targets :
            claimWrites'[w][x] =
               IF x = t THEN ClaimView(w)[x]
               ELSE IF \E d \in claimed[w] : x = Target(w, d) THEN Nobody ELSE claimWrites[w][x]
    BY <1>5, <1>7, DeniedClaims DEF StageInv
  <2>2. phase'[w] = AfterRefusal(w) /\ ClaimView(w)[t] # Node(w) /\ ClaimView(w)[t] \in Nodes
    BY <1>5, <1>7, ViewTypes DEF Denied, StageInv, TypeOK
  <2>3. Owns(w)' = Owns(w) \ TargetsOf(w, claimed[w])
    <3>1. ASSUME NEW x \in Targets PROVE ClaimView(w)'[x] = IF x = t THEN ClaimView(w)[x]
               ELSE IF x \in TargetsOf(w, claimed[w]) THEN Nobody ELSE ClaimView(w)[x]
      <4>1. CASE x = t
        BY <1>1, <2>1, <2>2, <4>1, MarkersAssumption DEF ClaimView
      <4>2. CASE x # t
        BY <1>1, <1>5, <2>1, <4>2 DEF ClaimView, TargetsOf
      <4> QED
        BY <4>1, <4>2
    <3> QED
      BY <1>3, <1>5, <2>2, <3>1 DEF Owns
  <2>4. CASE phase[w] = "post"
    <3>1. phase'[w] = "rollback"
      BY <2>2, <2>4 DEF AfterRefusal, StageInv, Stage, IsLive
    <3> QED
      BY <3>1 DEF Holding, Reading, Before, Seeing
  <2>5. CASE phase[w] = "claim"
    <3>1. phase'[w] \in {"commitPast", "rollback"}
      BY <2>2, RefusalCases
    <3>2. Owns(w)' = Due(rows[Node(w)])
      <4>1. TargetsOf(w, claimed[w]) \subseteq TargetsOf(w, claimed[w] \cup todo[w])
        BY DEF TargetsOf
      <4> QED
        BY <2>3, <2>5, <4>1 DEF Holding
    <3> QED
      BY <1>4, <2>5, <3>1, <3>2 DEF Holding, Reading, Before, Seeing
  <2> QED
    BY <1>1, <2>4, <2>5
<1> QED
  BY <1>2, <1>6, <1>7

\* A writer that lost its row holds again what the committed row owes.
LEMMA LoseHolds ==
    ASSUME StageInv, StageInv', NEW w \in Writers, Holding(w), LoseRow(w)
    PROVE  Holding(w)'
<1>1. /\ phase[w] = "claim"
      /\ claimWrites' = [claimWrites EXCEPT ![w] = GivenBack(w)]
      /\ UNCHANGED <<rows, claims, rowWrites, op, existing>>
      /\ phase'[w] \in {"recover", "commitPast", "rollback"}
  BY RefusalCases DEF LoseRow, database, frame, Goto, StageInv, TypeOK
<1>2. Node(w)' = Node(w) /\ Node(w) \in Nodes /\ Nobody # Node(w) /\ Nobody # Untouched
  BY <1>1, SetsAssumption, MarkersAssumption DEF StageInv, Stage, Node
<1>3. \A x \in Targets : claimWrites'[w][x] =
          IF x \in TargetsOf(w, claimed[w]) THEN Nobody ELSE claimWrites[w][x]
  BY <1>1 DEF GivenBack, TargetsOf, StageInv, TypeOK
<1>4. Owns(w)' = Owns(w) \ TargetsOf(w, claimed[w])
  <2>1. \A x \in Targets : ClaimView(w)'[x] =
            IF x \in TargetsOf(w, claimed[w]) THEN Nobody ELSE ClaimView(w)[x]
    BY <1>1, <1>2, <1>3 DEF ClaimView
  <2> QED
    BY <1>2, <2>1 DEF Owns
<1>5. Unwritten(w)' /\ Due(rows[Node(w)])' = Due(rows[Node(w)])
  BY <1>1, <1>2 DEF Holding, Unwritten, Due
<1>6. Owns(w)' = Due(rows[Node(w)])
  <2>1. TargetsOf(w, claimed[w]) \subseteq TargetsOf(w, claimed[w] \cup todo[w])
    BY DEF TargetsOf
  <2> QED
    BY <1>1, <1>4, <2>1 DEF Holding
<1> QED
  BY <1>1, <1>5, <1>6 DEF Holding, Reading, Before, Seeing

\* The row write: a created row owes what is claimed and still to claim, an
\* updated one what its node holds less what is still to release.
LEMMA WriteHolds ==
    ASSUME StageInv, StageInv', NEW w \in Writers, Holding(w), InsertRow(w) \/ UpdateRow(w)
    PROVE  Holding(w)'
<1> DEFINE row == [deleted |-> FALSE, keys |-> NewKeys(w)]
<1>1. /\ phase[w] = "claim" /\ todo[w] = {} /\ op[w] \in Operation /\ Node(w) \in Nodes
      /\ claimed[w] \subseteq Owed(w) /\ Owed(w) \subseteq Constraints
      /\ existing[w] = Absent => op[w].kind \in {"create", "import"}
      /\ existing[w] \in Row \cup {Absent}
      /\ UNCHANGED <<rows, claims, claimWrites, op, existing, claimed>>
  BY SetsAssumption DEF InsertRow, UpdateRow, database, frame, StageInv, Stage, TypeOK, Owed
<1>2. row \in Row /\ \A c \in Owed(w) : Target(w, c) \in Targets
  BY <1>1, NewKeysTypes DEF StageInv
<1>3. /\ Node(w)' = Node(w) /\ NewKeys(w)' = NewKeys(w) /\ Owed(w)' = Owed(w)
      /\ \A d : Target(w, d)' = Target(w, d)
  BY <1>1, SameOperation
<1>4. /\ Owns(w)' = Owns(w) /\ Due(existing[w]) = Due(rows[Node(w)])
      /\ Owns(w) = Due(rows[Node(w)]) \cup TargetsOf(w, claimed[w])
      /\ Inserts(w) => claimed[w] = Owed(w) \cap CrossKind
      /\ ~Inserts(w) => TargetsOf(w, Owed(w) \ claimed[w]) \subseteq Due(rows[Node(w)])
  <2>1. Owns(w)' = Owns(w)
    BY <1>1, <1>3 DEF Owns, ClaimView
  <2>2. claimed[w] \cup todo[w] = claimed[w]
    BY <1>1
  <2> QED
    BY <1>1, <2>1, <2>2 DEF Holding, Seeing
<1>5. CASE InsertRow(w) /\ RowView(w)[Node(w)] # Absent
  <2>1. phase'[w] = "rollback"
    BY <1>5 DEF InsertRow, Goto, StageInv, TypeOK
  <2> QED
    BY <2>1 DEF Holding, Reading, Before, Seeing
<1>6. CASE InsertRow(w) /\ RowView(w)[Node(w)] = Absent
  <2>1. /\ Inserts(w) /\ phase'[w] = "post" /\ rowWrites'[w][Node(w)] = row
        /\ todo'[w] = Owed(w) \ CrossKind
    <3>1. rowWrites' = [rowWrites EXCEPT ![w][Node(w)] = row]
      BY <1>6 DEF InsertRow, WriteRow
    <3>2. rowWrites'[w][Node(w)] = row
      BY <1>1, <1>2, <3>1, NoRowAssumption, WrittenStored DEF StageInv
    <3> HIDE DEF row
    <3> QED
      BY <1>6, <3>2 DEF InsertRow, Goto, Todo, StageInv, TypeOK
  <2>2. Due(rows[Node(w)]) = {}
    BY <1>4, <2>1 DEF Inserts, Due, IsLive
  <2>3. Owed(w) \ (Owed(w) \ CrossKind) = Owed(w) \cap CrossKind
    OBVIOUS
  <2>4. Owns(w)' = TargetsOf(w, Owed(w) \ todo[w])'
    <3>1. TargetsOf(w, Owed(w) \ todo[w])' = TargetsOf(w, Owed(w) \cap CrossKind)
      BY <1>3, <2>1, <2>3 DEF TargetsOf
    <3> QED
      BY <1>4, <2>1, <2>2, <3>1
  <2> QED
    BY <1>3, <2>1, <2>4 DEF Holding, Reading, Before, Seeing
<1>7. CASE UpdateRow(w)
  <2>1. /\ ~Inserts(w) /\ phase'[w] = "release" /\ rowWrites'[w][Node(w)] = row
        /\ todo'[w] = ToRelease(w)
    BY <1>1, <1>7 DEF UpdateRow, Goto, WriteRow, Todo, StageInv, TypeOK
  <2> DEFINE given == {<<c, existing[w].keys[c]>> : c \in ToRelease(w)}
  <2>2. existing[w] \in Row
    BY <1>1, <2>1 DEF Inserts
  <2>3. Due(Stored(w))' = TargetsOf(w, Owed(w))
    <3>1. Stored(w)' = row
      BY <1>1, <1>2, <1>3, <2>1, NoRowAssumption DEF Stored, RowView
    <3>2. Due(Stored(w))' = Due(row)
      BY <3>1 DEF Due
    <3> QED
      BY <1>2, <3>2, OwedTargets
  <2>4. given \subseteq Due(existing[w])
    BY <2>2 DEF ToRelease, Changed, IsLive, Due, Row, Targets
  <2>5. ASSUME NEW x \in Due(existing[w]) PROVE x \in TargetsOf(w, Owed(w)) \cup given
    <3>1. x[1] \in Constraints /\ x[2] \in Keys /\ x = <<x[1], x[2]>>
      BY DEF Due, Targets
    <3>2. IsLive(existing[w]) /\ existing[w].keys[x[1]] = x[2] /\ x[2] # Unset
      BY <3>1, MarkersAssumption DEF Due
    <3>3. CASE NewKeys(w)[x[1]] = x[2]
      <4>1. x[1] \in Owed(w) /\ x = Target(w, x[1])
        BY <3>1, <3>2, <3>3 DEF Owed, Target
      <4> QED
        BY <4>1 DEF TargetsOf
    <3>4. CASE NewKeys(w)[x[1]] # x[2]
      <4>1. x[1] \in ToRelease(w) /\ x = <<x[1], existing[w].keys[x[1]]>>
        BY <3>1, <3>2, <3>4 DEF ToRelease, Changed
      <4> QED
        BY <4>1
    <3> QED
      BY <3>3, <3>4
  <2>6. given \cap TargetsOf(w, Owed(w)) = {}
    BY DEF TargetsOf, Target, ToRelease, Changed
  <2>7. TargetsOf(w, Owed(w)) = TargetsOf(w, claimed[w]) \cup TargetsOf(w, Owed(w) \ claimed[w])
    BY <1>1 DEF TargetsOf
  <2>8. Owns(w)' = TargetsOf(w, Owed(w)) \cup given
    <3> HIDE DEF given
    <3> QED
      BY <1>4, <2>1, <2>4, <2>5, <2>7
  <2>9. {<<c, existing[w].keys[c]>> : c \in todo[w]}' = given
    BY <1>1, <2>1
  <2> HIDE DEF given
  <2> QED
    BY <2>1, <2>3, <2>6, <2>8, <2>9 DEF Holding, Reading, Before, Seeing
<1> QED
  BY <1>5, <1>6, <1>7

\* Releasing a key the row no longer owes.
LEMMA ReleaseHolds ==
    ASSUME StageInv, StageInv', NEW w \in Writers, Holding(w), ReleaseKey(w)
    PROVE  Holding(w)'
<1> DEFINE c == Least(todo[w])
           t == <<c, existing[w].keys[c]>>
           given(cs) == {<<d, existing[w].keys[d]>> : d \in cs}
<1>1. /\ phase[w] = "release" /\ todo[w] # {} /\ phase' = phase
      /\ UNCHANGED <<rows, claims, rowWrites, op, existing>>
  BY DEF ReleaseKey, database, frame
<1>2. c \in todo[w] /\ t \in Targets /\ Node(w) \in Nodes /\ Node(w)' = Node(w) /\ Node(w) # Nobody
      /\ todo'[w] = todo[w] \ {c}
  <2>1. c \in todo[w] /\ c \in Constraints
    BY <1>1, LeastIn DEF StageInv, TypeOK
  <2>2. t \in Targets
    BY <1>1, <2>1 DEF StageInv, Stage, Targets
  <2>3. Node(w) \in Nodes /\ Node(w)' = Node(w) /\ Node(w) # Nobody
    BY <1>1, SetsAssumption, MarkersAssumption DEF StageInv, Stage, Node
  <2>4. todo'[w] = todo[w] \ {c}
    BY DEF ReleaseKey, Todo, StageInv, TypeOK
  <2> QED
    BY <2>1, <2>2, <2>3, <2>4
<1>3. /\ Owns(w) = Due(Stored(w)) \cup given(todo[w])
      /\ given(todo[w]) \cap Due(Stored(w)) = {}
  BY <1>1 DEF Holding
<1>4. t \in Owns(w)
  BY <1>2, <1>3
<1>5. claimWrites' = [claimWrites EXCEPT ![w][t] = Nobody]
  <2>1. ClaimView(w)[t] = Node(w)
    BY <1>4 DEF Owns
  <2> QED
    BY <2>1 DEF ReleaseKey, WriteClaim
<1>6. Owns(w)' = Owns(w) \ {t}
  <2> HIDE DEF t
  <2>1. \A x \in Targets : claimWrites'[w][x] = IF x = t THEN Nobody ELSE claimWrites[w][x]
    BY <1>2, <1>5 DEF StageInv, TypeOK
  <2>2. Nobody # Untouched
    BY MarkersAssumption
  <2> QED
    BY <1>1, <1>2, <2>1, <2>2 DEF Owns, ClaimView
<1>7. given(todo[w] \ {c}) = given(todo[w]) \ {t}
  BY <1>2
<1>8. Due(Stored(w))' = Due(Stored(w)) /\ given(todo[w])' = given(todo[w] \ {c})
  <2>1. Stored(w)' = Stored(w)
    BY <1>1, <1>2 DEF Stored, RowView
  <2> QED
    BY <1>1, <1>2, <2>1 DEF Due
<1>9. t \notin Due(Stored(w))
  BY <1>2, <1>3
<1>10. /\ Owns(w)' = Due(Stored(w))' \cup given(todo[w])'
       /\ given(todo[w])' \cap Due(Stored(w))' = {}
  <2> HIDE DEF t, given
  <2> QED
    BY <1>3, <1>6, <1>7, <1>8, <1>9
<1> QED
  BY <1>1, <1>10 DEF Holding, Reading, Before, Seeing

\* Deletes: the row first and then its keys, or every claim and then the row.
LEMMA RemoveHolds ==
    ASSUME StageInv, StageInv', NEW w \in Writers, Holding(w),
           RetireRow(w) \/ DropClaims(w) \/ EraseRow(w)
    PROVE  Holding(w)'
<1>1. /\ phase[w] \in {"retire", "drop", "erase"}
      /\ UNCHANGED <<rows, claims, op, existing>>
  BY DEF RetireRow, DropClaims, EraseRow, database, frame
<1>2. Node(w) \in Nodes /\ Node(w)' = Node(w) /\ Node(w) # Nobody /\ Nobody # Untouched
  BY <1>1, SetsAssumption, MarkersAssumption DEF StageInv, Stage, Node
<1>3. CASE RetireRow(w)
  <2> DEFINE cs == {c \in Constraints : existing[w].keys[c] # Unset}
             old == RowView(w)[Node(w)]
  <2>1. phase[w] = "retire" /\ phase'[w] = "release" /\ todo'[w] = cs /\ claimWrites' = claimWrites
    BY <1>3 DEF RetireRow, Goto, Todo, StageInv, TypeOK
  <2>2. /\ Unwritten(w) /\ Owns(w) = Due(rows[Node(w)]) /\ Due(existing[w]) = Due(rows[Node(w)])
        /\ IsLive(existing[w]) /\ existing[w] \in Row
    BY <2>1 DEF Holding, Reading, Before, Seeing, StageInv, TypeOK, IsLive
  <2>3. ~IsLive(Stored(w)')
    <3>1. CASE IsLive(old)
      <4>1. old \in Row
        BY <1>2, <3>1, ViewTypes DEF IsLive, StageInv
      <4>2. rowWrites' = [rowWrites EXCEPT ![w][Node(w)] = [old EXCEPT !.deleted = TRUE]]
        BY <1>3, <3>1 DEF RetireRow, WriteRow
      <4>3. [old EXCEPT !.deleted = TRUE] \in Row /\ [old EXCEPT !.deleted = TRUE].deleted
        BY <4>1 DEF Row
      <4>4. [old EXCEPT !.deleted = TRUE] # Untouched
        BY <4>3, NoRowAssumption
      <4>5. Stored(w)' = [old EXCEPT !.deleted = TRUE]
        BY <1>1, <1>2, <4>2, <4>4, WrittenStored DEF StageInv
      <4> QED
        BY <4>3, <4>5 DEF IsLive
    <3>2. CASE ~IsLive(old)
      <4>1. rowWrites' = rowWrites
        BY <1>3, <3>2 DEF RetireRow
      <4>2. Stored(w)' = old
        BY <1>1, <1>2, <4>1 DEF Stored, RowView
      <4> QED
        BY <3>2, <4>2
    <3> QED
      BY <3>1, <3>2
  <2>4. Due(Stored(w))' = {}
    BY <2>3 DEF Due
  <2>5. Due(existing[w]) = {<<c, existing[w].keys[c]>> : c \in cs}
    <3>1. ASSUME NEW x \in Due(existing[w]) PROVE x[1] \in cs /\ x = <<x[1], existing[w].keys[x[1]]>>
      BY MarkersAssumption DEF Due, Targets
    <3>2. ASSUME NEW c \in cs PROVE <<c, existing[w].keys[c]>> \in Due(existing[w])
      BY <2>2 DEF Due, Targets, Row
    <3> QED
      BY <3>1, <3>2
  <2>6. Owns(w)' = {<<c, existing[w].keys[c]>> : c \in todo[w]}'
    <3>1. Owns(w)' = Owns(w)
      BY <1>1, <1>2, <2>1 DEF Owns, ClaimView
    <3> QED
      BY <1>1, <2>1, <2>2, <2>5, <3>1
  <2> HIDE DEF cs, old
  <2> QED
    BY <2>1, <2>4, <2>6 DEF Holding, Reading, Before, Seeing
<1>4. CASE DropClaims(w)
  <2>1. phase'[w] = "erase" /\ claimWrites' = [claimWrites EXCEPT ![w] =
            [x \in Targets |-> IF ClaimView(w)[x] = Node(w) THEN Nobody ELSE claimWrites[w][x]]]
    BY <1>4 DEF DropClaims, Goto, StageInv, TypeOK
  <2>2. \A x \in Targets :
            claimWrites'[w][x] = IF ClaimView(w)[x] = Node(w) THEN Nobody ELSE claimWrites[w][x]
    BY <2>1 DEF StageInv, TypeOK
  <2>3. Owns(w)' = {}
    BY <1>1, <1>2, <2>2 DEF Owns, ClaimView
  <2> QED
    BY <2>1, <2>3 DEF Holding, Reading, Before, Seeing
<1>5. CASE EraseRow(w)
  <2>1. phase[w] = "erase" /\ phase'[w] = "release" /\ claimWrites' = claimWrites /\ todo' = todo
    BY <1>5 DEF EraseRow, Goto, StageInv, TypeOK
  <2>2. todo[w] = {} /\ Owns(w) = {}
    BY <2>1 DEF StageInv, Stage, Holding
  <2>3. Stored(w)' = Absent
    <3>1. CASE RowView(w)[Node(w)] # Absent
      <4>1. rowWrites' = [rowWrites EXCEPT ![w][Node(w)] = Absent]
        BY <1>5, <3>1 DEF EraseRow, WriteRow
      <4> QED
        BY <1>1, <1>2, <4>1, NoRowAssumption DEF Stored, RowView, StageInv, TypeOK
    <3>2. CASE RowView(w)[Node(w)] = Absent
      <4>1. rowWrites' = rowWrites
        BY <1>5, <3>2 DEF EraseRow
      <4> QED
        BY <1>1, <1>2, <3>2, <4>1 DEF Stored, RowView
    <3> QED
      BY <3>1, <3>2
  <2>4. Due(Stored(w))' = {} /\ Owns(w)' = {} /\ todo'[w] = {}
    BY <1>1, <1>2, <2>1, <2>2, <2>3 DEF Due, IsLive, Owns, ClaimView
  <2> QED
    BY <2>1, <2>4 DEF Holding, Reading, Before, Seeing
<1> QED
  BY <1>3, <1>4, <1>5

-----------------------------------------------------------------------------
(* Commits, the lock, and the theorems. *)

\* Seen by the transaction, claims and rows agree on every node but its own.
LEMMA OtherNodes ==
    ASSUME StageInv, ClaimsMirrorRows, NEW w \in Writers, NEW n \in Nodes, n # Node(w),
           NEW t \in Targets
    PROVE  ClaimView(w)[t] = n <=> IsLive(RowView(w)[n]) /\ RowView(w)[n].keys[t[1]] = t[2]
<1>1. RowView(w)[n] = rows[n]
  BY DEF RowView, StageInv, Own
<1>2. ClaimView(w)[t] = n <=> claims[t] = n
  <2>1. n # Nobody
    BY MarkersAssumption
  <2>2. CASE claimWrites[w][t] = Untouched
    BY <2>2 DEF ClaimView
  <2>3. CASE claimWrites[w][t] # Untouched
    BY <2>1, <2>3 DEF ClaimView, StageInv, Taken
  <2> QED
    BY <2>2, <2>3
<1> QED
  BY <1>1, <1>2 DEF ClaimsMirrorRows, Holds

\* At its commit a transaction sees its node hold what its row owes.
LEMMA CommitOwes ==
    ASSUME StageInv, NEW w \in Writers, Holding(w), Commit(w)
    PROVE  Node(w) \in Nodes /\ Owns(w) = Due(Stored(w))
<1>1. /\ phase[w] = "commitPast" \/ (phase[w] \in {"post", "release"} /\ todo[w] = {})
      /\ op[w] \in Operation /\ Node(w) \in Nodes
  BY SetsAssumption DEF Commit, StageInv, Stage
<1>2. CASE phase[w] = "commitPast"
  BY <1>1, <1>2, UnwrittenStored DEF Holding, Reading
<1>3. CASE phase[w] = "post" /\ todo[w] = {}
  <2> DEFINE row == [deleted |-> FALSE, keys |-> NewKeys(w)]
  <2>1. row \in Row /\ \A c \in Owed(w) : Target(w, c) \in Targets
    BY <1>1, <1>3, NewKeysTypes DEF StageInv, Stage
  <2>2. rowWrites[w][Node(w)] = row /\ Owns(w) = TargetsOf(w, Owed(w) \ {})
    BY <1>3 DEF Holding
  <2>3. Stored(w) = row
    BY <1>1, <2>1, <2>2, NoRowAssumption DEF Stored, RowView
  <2>4. Owed(w) \ {} = Owed(w)
    OBVIOUS
  <2> QED
    BY <1>1, <2>1, <2>2, <2>3, <2>4, OwedTargets
<1>4. CASE phase[w] = "release" /\ todo[w] = {}
  <2>1. {<<c, existing[w].keys[c]>> : c \in todo[w]} = {}
    BY <1>4
  <2> QED
    BY <1>1, <1>4, <2>1 DEF Holding
<1> QED
  BY <1>1, <1>2, <1>3, <1>4

\* So a commit leaves the claims mirroring the rows.
LEMMA CommitMirrors ==
    ASSUME StageInv, ClaimsMirrorRows, NEW w \in Writers, Holding(w), Commit(w)
    PROVE  ClaimsMirrorRows'
<1>1. rows' = RowView(w) /\ claims' = ClaimView(w)
  BY DEF Commit
<1>2. ASSUME NEW t \in Targets, NEW n \in Nodes
      PROVE  ClaimView(w)[t] = n <=> IsLive(RowView(w)[n]) /\ RowView(w)[n].keys[t[1]] = t[2]
  <2>1. CASE n = Node(w)
    <3>1. ClaimView(w)[t] = n <=> t \in Owns(w)
      BY <2>1 DEF Owns
    <3>2. t \in Due(Stored(w)) <=> IsLive(RowView(w)[n]) /\ RowView(w)[n].keys[t[1]] = t[2]
      BY <2>1 DEF Due, Stored
    <3> QED
      BY <3>1, <3>2, CommitOwes
  <2>2. CASE n # Node(w)
    BY <2>2, OtherNodes
  <2> QED
    BY <2>1, <2>2
<1> QED
  BY <1>1, <1>2 DEF ClaimsMirrorRows, Holds

LEMMA StepMirrors ==
    ASSUME StageInv, HoldingInv, NEW w \in Writers, Step(w)
    PROVE  ClaimsMirrorRows'
<1>1. CASE Commit(w)
  BY <1>1, CommitMirrors DEF HoldingInv
<1>2. CASE ~Commit(w)
  BY <1>2, StepKeepsDatabase DEF HoldingInv, ClaimsMirrorRows, Holds
<1> QED
  BY <1>1, <1>2

\* If every operation locks, the one under way holds the lock.
LEMMA StepLocks ==
    ASSUME StageInv, Locked, NEW w \in Writers, Step(w)
    PROVE  Locked'
<1> SUFFICES ASSUME AllLock, NEW v \in Writers, phase'[v] \notin Unbegun PROVE graphLock' = v
  BY DEF Locked
<1> TypeOK
  BY DEF StageInv
<1>1. \A u \in Writers : phase[u] \notin Unbegun => graphLock = u
  BY DEF Locked
<1>2. v # w => phase'[v] = phase[v]
  BY StepKeepsOthers DEF OthersKept
<1>3. CASE Begin(w)
  BY <1>1, <1>2, <1>3 DEF Begin, AllLock, Goto, TypeOK, Unbegun
<1>4. CASE LockGraph(w)
  BY <1>1, <1>2, <1>4, MarkersAssumption DEF LockGraph, Goto, TypeOK, Unbegun
<1>5. CASE Commit(w) \/ Rollback(w)
  <2>1. phase[w] \notin Unbegun /\ phase'[w] = "idle"
    BY <1>5 DEF Commit, Rollback, Finish, Goto, TypeOK, Unbegun
  <2> QED
    BY <1>1, <1>2, <2>1 DEF Unbegun
<1>6. CASE ~(Begin(w) \/ LockGraph(w) \/ Commit(w) \/ Rollback(w))
  <2>1. graphLock' = graphLock /\ phase[w] \notin Unbegun
    BY <1>6 DEF Step, ReadRow, CheckKeys, RereadTombstone, Plan, ClaimKey, InsertRow, UpdateRow,
       LoseRow, Recover, ReleaseKey, RetireRow, DropClaims, EraseRow, frame, Unbegun
  <2> QED
    BY <1>1, <1>2, <2>1
<1> QED
  BY <1>3, <1>4, <1>5, <1>6

LEMMA OwnHolds ==
    ASSUME StageInv, StageInv', HoldingInv, NEW w \in Writers, Step(w)
    PROVE  Holding(w)'
<1> Holding(w) /\ ClaimsMirrorRows
  BY DEF HoldingInv
<1>1. CASE Commit(w) \/ Rollback(w)
  <2>1. phase'[w] = "idle"
    BY <1>1 DEF Commit, Rollback, Finish, Goto, StageInv, TypeOK
  <2> QED
    BY <2>1 DEF Holding, Reading, Before, Seeing
<1> QED
  BY <1>1, StartHolds, ReadHolds, ProbeHolds, ClaimHolds, LoseHolds, WriteHolds, ReleaseHolds,
     RemoveHolds DEF Step

LEMMA NextHolding ==
    ASSUME SoleWriter \/ AllLock
    PROVE  StageInv /\ StageInv' /\ HoldingInv /\ [Next]_vars => HoldingInv'
<1> SUFFICES ASSUME StageInv, StageInv', HoldingInv, [Next]_vars PROVE HoldingInv'
  OBVIOUS
<1>1. ASSUME NEW w \in Writers, Step(w) PROVE HoldingInv'
  <2>1. ClaimsMirrorRows' /\ Locked'
    BY <1>1, StepMirrors, StepLocks DEF HoldingInv
  <2>2. ASSUME NEW v \in Writers \ {w} PROVE Holding(v)'
    <3>1. phase[v] \notin Unbegun =>
              /\ Node(v) \in Nodes
              /\ \A t \in Targets : claims'[t] = Node(v) <=> claims[t] = Node(v)
              /\ Due(rows'[Node(v)]) = Due(rows[Node(v)])
      BY <1>1, <2>1, NodeStands DEF HoldingInv
    <3>2. OthersKept(w)
      BY <1>1, StepKeepsOthers DEF StageInv
    <3> QED
      BY <3>1, <3>2, OthersHold DEF OthersKept, HoldingInv
  <2> QED
    BY <1>1, <2>1, <2>2, OwnHolds DEF HoldingInv
<1>2. CASE UNCHANGED vars
  <2>1. ClaimsMirrorRows' /\ Locked'
    BY <1>2 DEF HoldingInv, ClaimsMirrorRows, Holds, Locked, vars
  <2>2. ASSUME NEW v \in Writers PROVE Holding(v)'
    <3>1. phase[v] \notin Unbegun => Node(v) \in Nodes
      BY SetsAssumption DEF StageInv, Stage, Unbegun
    <3> QED
      BY <1>2, <3>1, OthersHold DEF HoldingInv, vars
  <2> QED
    BY <2>1, <2>2 DEF HoldingInv
<1> QED
  BY <1>1, <1>2 DEF Next

LEMMA InitHolding == Init => HoldingInv
<1> SUFFICES ASSUME Init PROVE HoldingInv
  OBVIOUS
<1>1. ClaimsMirrorRows
  BY DEF Init, ClaimsMirrorRows
<1>2. \A w \in Writers : phase[w] = "idle"
  BY DEF Init
<1>3. Locked
  BY <1>2 DEF Locked, Unbegun
<1>4. \A w \in Writers : Holding(w)
  BY <1>2 DEF Holding, Reading, Before, Seeing
<1> QED
  BY <1>1, <1>3, <1>4 DEF HoldingInv

LEMMA HoldingHolds ==
    ASSUME SoleWriter \/ AllLock
    PROVE  Spec => []HoldingInv
<1>1. StageInv /\ StageInv' /\ HoldingInv /\ [Next]_vars => HoldingInv'
  BY NextHolding
<1> QED
  BY <1>1, InitHolding, StagesHold, PTL DEF Spec

\* Where every node whose rows may carry a key has one writer, or where every
\* operation takes the graph lock (tracking is on, or a constraint spans kinds
\* and only store writes run), the committed claims are always the keys of the
\* committed live rows: for any nodes, keys and constraints, whatever the
\* placement, the order and the failures of claims, row writes and releases.
THEOREM ClaimsStayMirrored ==
    ASSUME SoleWriter \/ AllLock
    PROVE  Spec => []ClaimsMirrorRows
BY HoldingHolds, PTL DEF HoldingInv

\* The commit past a refusal writes back what it read.
LEMMA RefusalStep ==
    ASSUME StageInv, HoldingInv, [Next]_vars, NEW w \in Writers,
           phase[w] = "commitPast", phase'[w] = "idle"
    PROVE  UNCHANGED database
<1>1. PICK u \in Writers : Step(u)
  BY DEF Next, vars
<1>2. u = w
  BY <1>1, StepKeepsOthers DEF OthersKept, StageInv
<1>3. Commit(w)
  BY <1>1, <1>2 DEF Step, Begin, LockGraph, Rollback, ReadRow, CheckKeys, RereadTombstone, Plan,
     ClaimKey, InsertRow, UpdateRow, LoseRow, Recover, ReleaseKey, RetireRow, DropClaims, EraseRow
<1>4. Unwritten(w) /\ Owns(w) = Due(rows[Node(w)]) /\ Node(w) \in Nodes
  BY <1>3, CommitOwes DEF HoldingInv, Holding, Reading
<1>5. \A n \in Nodes : RowView(w)[n] = rows[n]
  BY <1>4 DEF Unwritten, RowView
<1>6. ASSUME NEW t \in Targets PROVE ClaimView(w)[t] = claims[t]
  <2>1. ClaimView(w)[t] = Node(w) <=> t \in Owns(w)
    BY DEF Owns
  <2>2. claims[t] = Node(w) <=> t \in Due(rows[Node(w)])
    BY <1>4 DEF HoldingInv, ClaimsMirrorRows, Holds, Due
  <2>3. CASE claimWrites[w][t] = Untouched
    BY <2>3 DEF ClaimView
  <2>4. CASE claimWrites[w][t] # Untouched
    BY <1>4, <2>1, <2>2, <2>4 DEF ClaimView, StageInv, Taken
  <2> QED
    BY <2>3, <2>4
<1>7. rows \in [Nodes -> Row \cup {Absent}] /\ claims \in [Targets -> Nodes \cup {Nobody}]
  BY DEF StageInv, TypeOK
<1>8. RowView(w) = rows /\ ClaimView(w) = claims
  BY <1>5, <1>6, <1>7, ViewTypes DEF StageInv
<1> QED
  BY <1>3, <1>8 DEF Commit, database

\* Under the same condition a caller that catches a refused row and commits the
\* rest (the per-row recovery of an import) leaves the committed rows and claims
\* exactly as they were, whichever statement refused: the give-back of the
\* claims taken before the row write undoes those and no other.
THEOREM RefusalsLeaveNoTrace ==
    ASSUME SoleWriter \/ AllLock
    PROVE  Spec => RefusalLeavesNoTrace
<1>1. StageInv /\ HoldingInv /\ [Next]_vars =>
          [\A w \in Writers :
              phase[w] = "commitPast" /\ phase'[w] = "idle" => UNCHANGED database]_vars
  BY RefusalStep
<1> QED
  BY <1>1, HoldingHolds, StagesHold, PTL DEF Spec, RefusalLeavesNoTrace

=============================================================================
