------------------------------ MODULE NodeClaims ------------------------------
(***************************************************************************)
(* The reservations (claims) a node holds on its unique keys, and the      *)
(* writers that move them, at the granularity of SQL statements.           *)
(*                                                                         *)
(* A row write and its claims are several statements with no savepoint     *)
(* around them.  A transition claims the new keys, writes the row, then    *)
(* releases the old keys; a failure after the first claim gives back what  *)
(* it took.  An interchange import catches that failure and commits the    *)
(* rest of its transaction, so the give-back has to leave no trace.        *)
(*                                                                         *)
(* Nodes are of one kind.  A constraint in CrossKind has a scope spanning  *)
(* kinds: it makes a store write take the per-graph lock and places a      *)
(* create's claim before the row; any other claim of a create follows it.  *)
(* The engine is PostgreSQL READ COMMITTED: a statement reads committed    *)
(* rows overlaid with its own transaction's, and waits for a row another   *)
(* open transaction wrote.                                                 *)
(***************************************************************************)
EXTENDS Integers, FiniteSets

CONSTANTS
    Writers,      \* connections that run write operations
    Nodes,        \* node ids of the kind
    Addresses(_), \* the nodes a writer's operations name
    Offered(_, _),\* the keys a node's rows and operations carry under a constraint
    Constraints,  \* unique constraints, numbered in declaration order
    CrossKind,    \* those whose scope spans kinds
    Keys,         \* key values
    Unset,        \* the constraint's where predicate excludes the row: no key
    Keep,         \* the patch leaves the property as it is stored
    Absent,       \* no row under this id
    Nobody,       \* no live claim under this target
    Untouched,    \* this transaction has not written the row
    Free,         \* the graph write lock has no holder
    NoOp,         \* a writer between operations
    Ops,          \* the operations the workload runs
    Tracked,      \* history or revision tracking is on: every write locks
    MaxOps        \* bound: operations started in a behaviour

AllOps == {"create", "update", "revive", "import", "delete", "purge"}

ASSUME SetsAssumption ==
    /\ Constraints \subseteq Nat /\ IsFiniteSet(Constraints)
    /\ CrossKind \subseteq Constraints
    /\ \A w \in Writers : Addresses(w) \subseteq Nodes
    /\ \A n \in Nodes, c \in Constraints : Offered(n, c) \subseteq Keys \cup {Unset}
ASSUME OpsAssumption == Ops \subseteq AllOps /\ Tracked \in BOOLEAN /\ MaxOps \in Nat
ASSUME MarkersAssumption ==
    /\ {Unset, Keep} \cap Keys = {} /\ Unset # Keep
    /\ {Nobody, Untouched} \cap Nodes = {} /\ Nobody # Untouched
    /\ Free \notin Writers

VARIABLES
    rows,         \* committed row of each node
    claims,       \* committed owner of each claim target
    rowWrites,    \* per writer: its uncommitted node rows
    claimWrites,  \* per writer: its uncommitted claim rows
    graphLock,    \* holder of the per-graph write lock
    phase,        \* per writer: the next statement of its operation
    op,           \* per writer: the operation in progress
    existing,     \* per writer: the row its decision was taken from
    todo,         \* per writer: constraints whose statement is still to run
    claimed,      \* per writer: constraints it claimed before the row write
    retried,      \* per writer: the update is on its second attempt
    started       \* operations started so far

vars == <<rows, claims, rowWrites, claimWrites, graphLock, phase, op,
          existing, todo, claimed, retried, started>>

-----------------------------------------------------------------------------
(* Rows and claim targets. *)

Row == [deleted : BOOLEAN, keys : [Constraints -> Keys \cup {Unset}]]

ASSUME NoRowAssumption == {Absent, Untouched} \cap Row = {} /\ Absent # Untouched

Targets == Constraints \X Keys

IsLive(row) == row # Absent /\ ~row.deleted
IsTombstone(row) == row # Absent /\ row.deleted

\* What a create, an import or an update's patch states of the key properties.
Operation ==
    {o \in [kind : Ops, node : Nodes, keys : [Constraints -> Keys \cup {Unset, Keep}]] :
        /\ \A c \in Constraints : o.keys[c] \in Offered(o.node, c) \cup {Keep}
        /\ o.kind \in {"create", "import"} => \A c \in Constraints : o.keys[c] # Keep
        /\ o.kind \in {"delete", "purge"} => \A c \in Constraints : o.keys[c] = Keep}

Phases == {"idle", "lock", "read", "check", "reread", "plan", "claim", "post",
           "release", "retire", "drop", "erase", "recover", "rollback", "commitPast"}

TypeOK ==
    /\ rows \in [Nodes -> Row \cup {Absent}]
    /\ claims \in [Targets -> Nodes \cup {Nobody}]
    /\ rowWrites \in [Writers -> [Nodes -> Row \cup {Absent, Untouched}]]
    /\ claimWrites \in [Writers -> [Targets -> Nodes \cup {Nobody, Untouched}]]
    /\ graphLock \in Writers \cup {Free}
    /\ phase \in [Writers -> Phases]
    /\ op \in [Writers -> Operation \cup {NoOp}]
    /\ existing \in [Writers -> Row \cup {Absent}]
    /\ todo \in [Writers -> SUBSET Constraints]
    /\ claimed \in [Writers -> SUBSET Constraints]
    /\ retried \in [Writers -> BOOLEAN]
    /\ started \in 0..MaxOps

-----------------------------------------------------------------------------
(* What a statement of writer w sees, and what it waits for. *)

RowView(w) ==
    [n \in Nodes |-> IF rowWrites[w][n] = Untouched THEN rows[n] ELSE rowWrites[w][n]]

ClaimView(w) ==
    [t \in Targets |-> IF claimWrites[w][t] = Untouched THEN claims[t]
                                                        ELSE claimWrites[w][t]]

\* No other open transaction has written the row: a statement on it need not wait.
RowFree(w, n) == \A v \in Writers \ {w} : rowWrites[v][n] = Untouched
ClaimFree(w, t) == \A v \in Writers \ {w} : claimWrites[v][t] = Untouched

-----------------------------------------------------------------------------
(* The claims a row owes. *)

Node(w) == op[w].node

\* The keys the operation writes: a patch is merged over the row that was read.
NewKeys(w) ==
    [c \in Constraints |-> IF op[w].keys[c] = Keep THEN existing[w].keys[c]
                                                   ELSE op[w].keys[c]]

Owed(w) == {c \in Constraints : NewKeys(w)[c] # Unset}

Target(w, c) == <<c, NewKeys(w)[c]>>

\* A live row diffs its old and new keys; a tombstone holds no claim to diff with.
Changed(w) == {c \in Constraints : existing[w].keys[c] # NewKeys(w)[c]}

\* Mutant of ToProbe: the diff also plans a resurrection.
DiffAlways(w) == Owed(w) \cap Changed(w)

ToProbe(w) == IF IsLive(existing[w]) THEN Owed(w) \cap Changed(w) ELSE Owed(w)

\* The old keys given up after the row write.
ToRelease(w) ==
    IF IsLive(existing[w]) THEN {c \in Changed(w) : existing[w].keys[c] # Unset} ELSE {}

\* Some other node holds a key the probe asks for.
HeldByOther(w, cs) == \E c \in cs : ClaimView(w)[Target(w, c)] \notin {Nobody, Node(w)}

NotHeldByMe(w, cs) == {c \in cs : ClaimView(w)[Target(w, c)] # Node(w)}

Inserts(w) == op[w].kind \in {"create", "import"} /\ existing[w] = Absent

\* Placement: a create claims a key of its own kind only after the row.
ClaimsFirst(w) == IF Inserts(w) THEN Owed(w) \cap CrossKind ELSE Owed(w)

\* Mutant of GivenBack: a failed write keeps the reservations it took.
KeepsClaims(w) == claimWrites[w]

\* The compensating release of the claims taken before the row write.
GivenBack(w) ==
    [t \in Targets |->
        IF \E c \in claimed[w] : t = Target(w, c) THEN Nobody ELSE claimWrites[w][t]]

\* Where a refusal leads.  Only import's update leg recovers per row.
AfterRefusal(w) ==
    IF op[w].kind = "import" /\ IsLive(existing[w]) THEN "commitPast" ELSE "rollback"

Least(cs) == CHOOSE c \in cs : \A d \in cs : c <= d

-----------------------------------------------------------------------------
(* The state a fresh connection finds: claims mirror the live rows. *)

Holds(n, t) == IsLive(rows[n]) /\ rows[n].keys[t[1]] = t[2]

Init ==
    /\ rows \in [Nodes -> Row \cup {Absent}]
    /\ claims \in [Targets -> Nodes \cup {Nobody}]
    /\ \A n \in Nodes : rows[n] # Absent => \A c \in Constraints : rows[n].keys[c] \in Offered(n, c)
    /\ \A t \in Targets, n \in Nodes : claims[t] = n <=> Holds(n, t)
    /\ rowWrites = [w \in Writers |-> [n \in Nodes |-> Untouched]]
    /\ claimWrites = [w \in Writers |-> [t \in Targets |-> Untouched]]
    /\ graphLock = Free
    /\ phase = [w \in Writers |-> "idle"]
    /\ op = [w \in Writers |-> NoOp]
    /\ existing = [w \in Writers |-> Absent]
    /\ todo = [w \in Writers |-> {}]
    /\ claimed = [w \in Writers |-> {}]
    /\ retried = [w \in Writers |-> FALSE]
    /\ started = 0

database == <<rows, claims>>
frame == <<graphLock, op, started>>

Goto(w, p) == phase' = [phase EXCEPT ![w] = p]
Read(w) == existing' = [existing EXCEPT ![w] = RowView(w)[Node(w)]]
Todo(w, cs) == todo' = [todo EXCEPT ![w] = cs]
WriteRow(w, row) == rowWrites' = [rowWrites EXCEPT ![w][Node(w)] = row]
WriteClaim(w, t, owner) == claimWrites' = [claimWrites EXCEPT ![w][t] = owner]

-----------------------------------------------------------------------------
(* The frame of an operation: begin, lock, commit, rollback. *)

\* nodeWriteNeedsConstraintFence: imports and deletes declare no constraint probe.
Locks(o) ==
    \/ Tracked
    \/ o.kind \in {"create", "update", "revive"} /\ CrossKind # {}

\* An upsert takes the resurrecting leg when the collection's probe saw a tombstone.
Begin(w) ==
    /\ phase[w] = "idle"
    /\ started < MaxOps
    /\ \E o \in Operation :
          /\ o.node \in Addresses(w)
          /\ o.kind = "revive" => IsTombstone(rows[o.node])
          /\ op' = [op EXCEPT ![w] = o]
          /\ Goto(w, IF Locks(o) THEN "lock" ELSE "read")
    /\ started' = started + 1
    /\ UNCHANGED <<database, rowWrites, claimWrites, graphLock, existing, todo,
                   claimed, retried>>

LockGraph(w) ==
    /\ phase[w] = "lock"
    /\ graphLock = Free
    /\ graphLock' = w
    /\ Goto(w, "read")
    /\ UNCHANGED <<database, rowWrites, claimWrites, op, existing, todo, claimed,
                   retried, started>>

\* The transaction ends: its writes land or are dropped, its locks are free.
Finish(w) ==
    /\ rowWrites' = [rowWrites EXCEPT ![w] = [n \in Nodes |-> Untouched]]
    /\ claimWrites' = [claimWrites EXCEPT ![w] = [t \in Targets |-> Untouched]]
    /\ graphLock' = IF graphLock = w THEN Free ELSE graphLock
    /\ op' = [op EXCEPT ![w] = NoOp]
    /\ existing' = [existing EXCEPT ![w] = Absent]
    /\ claimed' = [claimed EXCEPT ![w] = {}]
    /\ retried' = [retried EXCEPT ![w] = FALSE]
    /\ Todo(w, {})
    /\ Goto(w, "idle")
    /\ UNCHANGED started

Commit(w) ==
    /\ \/ phase[w] = "commitPast"
       \/ phase[w] \in {"post", "release"} /\ todo[w] = {}
    /\ rows' = RowView(w)
    /\ claims' = ClaimView(w)
    /\ Finish(w)

Rollback(w) == phase[w] = "rollback" /\ UNCHANGED database /\ Finish(w)

-----------------------------------------------------------------------------
(* Deciding: read the row, probe the keys.  Nothing is written here. *)

\* Where the row that was read sends the operation.
Dispatch(o, row, second) ==
    CASE o.kind = "create" -> IF IsLive(row) THEN "rollback" ELSE "check"
      [] o.kind = "import" -> IF row = Absent THEN "check"
                              ELSE IF IsLive(row) THEN "plan" ELSE "commitPast"
      [] o.kind = "update" -> IF IsLive(row) THEN "plan" ELSE "rollback"
      [] o.kind = "revive" -> IF IsLive(row) \/ (row # Absent /\ ~second)
                              THEN "plan" ELSE "rollback"
      [] o.kind = "delete" -> IF IsLive(row) THEN "retire" ELSE "rollback"
      [] o.kind = "purge" -> "drop"

ReadRow(w) ==
    /\ phase[w] = "read"
    /\ Read(w)
    /\ Goto(w, Dispatch(op[w], RowView(w)[Node(w)], retried[w]))
    /\ UNCHANGED <<database, rowWrites, claimWrites, frame, todo, claimed, retried>>

\* checkUniquenessConstraints, before a create or an imported create writes.
CheckKeys(w) ==
    /\ phase[w] = "check"
    /\ \/ /\ HeldByOther(w, Owed(w))
          /\ Goto(w, IF op[w].kind = "import" THEN "commitPast" ELSE "rollback")
          /\ UNCHANGED todo
       \/ /\ ~HeldByOther(w, Owed(w))
          /\ existing[w] = Absent
          /\ Todo(w, ClaimsFirst(w))
          /\ Goto(w, "claim")
       \/ /\ ~HeldByOther(w, Owed(w))
          /\ existing[w] # Absent
          /\ Goto(w, "reread")
          /\ UNCHANGED todo
    /\ UNCHANGED <<database, rowWrites, claimWrites, frame, existing, claimed, retried>>

\* resurrectPreparedNode: the create that lands on a tombstone reads it again.
RereadTombstone(w) ==
    /\ phase[w] = "reread"
    /\ Read(w)
    /\ Goto(w, IF IsTombstone(RowView(w)[Node(w)]) THEN "plan" ELSE "rollback")
    /\ UNCHANGED <<database, rowWrites, claimWrites, frame, todo, claimed, retried>>

\* planNodeClaimUpdate and planNodeClaimReinsert: probe every key the row will owe.
Plan(w) ==
    /\ phase[w] = "plan"
    /\ \/ /\ HeldByOther(w, ToProbe(w))
          /\ Goto(w, AfterRefusal(w))
          /\ UNCHANGED todo
       \/ /\ ~HeldByOther(w, ToProbe(w))
          /\ Todo(w, NotHeldByMe(w, ToProbe(w)))
          /\ Goto(w, "claim")
    /\ UNCHANGED <<database, rowWrites, claimWrites, frame, existing, claimed, retried>>

-----------------------------------------------------------------------------
(* Claim, write, release. *)

\* insertUnique: an upsert that reports the owner the target has after it.
ClaimKey(w) ==
    /\ phase[w] \in {"claim", "post"}
    /\ todo[w] # {}
    /\ LET c == Least(todo[w])
           t == Target(w, c)
           owner == ClaimView(w)[t]
       IN /\ ClaimFree(w, t)
          /\ \/ /\ owner \in {Nobody, Node(w)}
                /\ WriteClaim(w, t, Node(w))
                /\ Todo(w, todo[w] \ {c})
                /\ claimed' = [claimed EXCEPT
                     ![w] = IF phase[w] = "claim" THEN @ \cup {c} ELSE @]
                /\ UNCHANGED phase
             \/ /\ owner \notin {Nobody, Node(w)}
                /\ claimWrites' = [claimWrites EXCEPT ![w] = [GivenBack(w) EXCEPT ![t] = owner]]
                /\ Todo(w, {})
                /\ claimed' = [claimed EXCEPT ![w] = {}]
                /\ Goto(w, AfterRefusal(w))
    /\ UNCHANGED <<database, rowWrites, frame, existing, retried>>

\* insertNode: a row that landed meanwhile is a duplicate key, which aborts.
InsertRow(w) ==
    /\ phase[w] = "claim" /\ todo[w] = {} /\ Inserts(w)
    /\ RowFree(w, Node(w))
    /\ \/ /\ RowView(w)[Node(w)] = Absent
          /\ WriteRow(w, [deleted |-> FALSE, keys |-> NewKeys(w)])
          /\ Todo(w, Owed(w) \ CrossKind)
          /\ Goto(w, "post")
       \/ /\ RowView(w)[Node(w)] # Absent
          /\ Goto(w, "rollback")
          /\ UNCHANGED <<rowWrites, todo>>
    /\ UNCHANGED <<database, claimWrites, frame, existing, claimed, retried>>

\* The UPDATE's own predicate on deleted_at.
WantsTombstone(w) == op[w].kind = "create" \/ (op[w].kind = "revive" /\ ~retried[w])

Matches(w) ==
    LET row == RowView(w)[Node(w)]
    IN  IF WantsTombstone(w) THEN IsTombstone(row) ELSE IsLive(row)

\* A statement waits for a committed row another transaction has rewritten.
RowReady(w) == RowFree(w, Node(w)) \/ rows[Node(w)] = Absent

\* Mutant of UpdateRow: stores the patch instead of the row it merges into.
UpdateWithPatch(w) ==
    /\ phase[w] = "claim" /\ todo[w] = {} /\ ~Inserts(w)
    /\ RowReady(w)
    /\ Matches(w)
    /\ WriteRow(w, [deleted |-> FALSE, keys |-> op[w].keys])
    /\ Todo(w, ToRelease(w))
    /\ Goto(w, "release")
    /\ UNCHANGED <<database, claimWrites, frame, existing, claimed, retried>>

UpdateRow(w) ==
    /\ phase[w] = "claim" /\ todo[w] = {} /\ ~Inserts(w)
    /\ RowReady(w)
    /\ Matches(w)
    /\ WriteRow(w, [deleted |-> FALSE, keys |-> NewKeys(w)])
    /\ Todo(w, ToRelease(w))
    /\ Goto(w, "release")
    /\ UNCHANGED <<database, claimWrites, frame, existing, claimed, retried>>

\* No row returned: the claims go back, and only an update has a second attempt.
LoseRow(w) ==
    /\ phase[w] = "claim" /\ todo[w] = {} /\ ~Inserts(w)
    /\ RowReady(w)
    /\ ~Matches(w)
    /\ claimWrites' = [claimWrites EXCEPT ![w] = GivenBack(w)]
    /\ claimed' = [claimed EXCEPT ![w] = {}]
    /\ Goto(w, IF op[w].kind \in {"update", "revive"} /\ ~retried[w]
               THEN "recover" ELSE AfterRefusal(w))
    /\ UNCHANGED <<database, rowWrites, frame, existing, todo, retried>>

\* performNodeUpdateWithResurrectionRecovery: a live row is updated in place.
Recover(w) ==
    /\ phase[w] = "recover"
    /\ \/ /\ IsLive(RowView(w)[Node(w)])
          /\ retried' = [retried EXCEPT ![w] = TRUE]
          /\ Goto(w, "read")
       \/ /\ ~IsLive(RowView(w)[Node(w)])
          /\ Goto(w, "rollback")
          /\ UNCHANGED retried
    /\ UNCHANGED <<database, rowWrites, claimWrites, frame, existing, todo, claimed>>

\* deleteUnique by owner pair: only a claim this node holds is released.
ReleaseKey(w) ==
    /\ phase[w] = "release"
    /\ todo[w] # {}
    /\ LET c == Least(todo[w])
           t == <<c, existing[w].keys[c]>>
       IN /\ claims[t] = Node(w) => ClaimFree(w, t)
          /\ IF ClaimView(w)[t] = Node(w) THEN WriteClaim(w, t, Nobody)
                                          ELSE UNCHANGED claimWrites
          /\ Todo(w, todo[w] \ {c})
    /\ UNCHANGED <<database, rowWrites, frame, phase, existing, claimed, retried>>

-----------------------------------------------------------------------------
(* Deletes. *)

\* deleteNode, then the release of the keys of the row that was read.
RetireRow(w) ==
    /\ phase[w] = "retire"
    /\ RowReady(w)
    /\ LET row == RowView(w)[Node(w)]
       IN IF IsLive(row) THEN WriteRow(w, [row EXCEPT !.deleted = TRUE])
                         ELSE UNCHANGED rowWrites
    /\ Todo(w, {c \in Constraints : existing[w].keys[c] # Unset})
    /\ Goto(w, "release")
    /\ UNCHANGED <<database, claimWrites, frame, existing, claimed, retried>>

\* hardDeleteNode: every claim of the node, then its row.
DropClaims(w) ==
    /\ phase[w] = "drop"
    /\ \A t \in Targets : claims[t] = Node(w) => ClaimFree(w, t)
    /\ claimWrites' = [claimWrites EXCEPT ![w] =
          [t \in Targets |-> IF ClaimView(w)[t] = Node(w) THEN Nobody ELSE @[t]]]
    /\ Goto(w, "erase")
    /\ UNCHANGED <<database, rowWrites, frame, existing, todo, claimed, retried>>

EraseRow(w) ==
    /\ phase[w] = "erase"
    /\ RowReady(w)
    /\ IF RowView(w)[Node(w)] # Absent THEN WriteRow(w, Absent) ELSE UNCHANGED rowWrites
    /\ Goto(w, "release")
    /\ UNCHANGED <<database, claimWrites, frame, existing, todo, claimed, retried>>

-----------------------------------------------------------------------------
Step(w) ==
    \/ Begin(w) \/ LockGraph(w) \/ Commit(w) \/ Rollback(w)
    \/ ReadRow(w) \/ CheckKeys(w) \/ RereadTombstone(w) \/ Plan(w)
    \/ ClaimKey(w) \/ InsertRow(w) \/ UpdateRow(w) \/ LoseRow(w) \/ Recover(w)
    \/ ReleaseKey(w) \/ RetireRow(w) \/ DropClaims(w) \/ EraseRow(w)

Next == \E w \in Writers : Step(w)

Spec == Init /\ [][Next]_vars

-----------------------------------------------------------------------------
(* Properties. *)

\* Between transactions the claims are exactly the keys of the live nodes: no
\* live node is left without the reservation that keeps its key to itself, and
\* no reservation outlives its node and blocks the key (nodeClaimEntries,
\* withNodeClaimTransition, deleteUniquenessEntries).
ClaimsMirrorRows ==
    \A t \in Targets, n \in Nodes : claims[t] = n <=> Holds(n, t)

\* A caller that commits past a refused row leaves no trace of it: neither the
\* row nor any claim moved, whichever statement refused (withNodeClaimTransition).
RefusalLeavesNoTrace ==
    [][\A w \in Writers :
          phase[w] = "commitPast" /\ phase'[w] = "idle" => UNCHANGED database]_vars

=============================================================================
