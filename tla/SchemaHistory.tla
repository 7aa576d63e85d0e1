---------------------------- MODULE SchemaHistory ----------------------------
(***************************************************************************)
(* What schema versioning promises the rows of a graph: documents never    *)
(* change once committed, a row is admitted only while the version that    *)
(* validated it is the active one, and only a kind the active version does *)
(* not declare may lose its rows to a cleanup.                             *)
(***************************************************************************)
EXTENDS Integers, Sequences

CONSTANT Kinds   \* the node and edge kinds a document may declare

VARIABLES
    history,     \* history[v]: the kinds version v declares
    active,      \* the version marked active
    rows         \* committed rows, as the kind and the version that admitted them

Document == SUBSET Kinds

RowOf(k, v) == [kind |-> k, version |-> v]

Init ==
    /\ \E document \in Document : history = <<document>>
    /\ active = 1
    /\ rows = {}

Publish(document) ==
    /\ history' = Append(history, document)
    /\ active' = Len(history')
    /\ UNCHANGED rows

Activate(version) ==
    /\ active' = version
    /\ UNCHANGED <<history, rows>>

Admit(admitted) ==
    /\ rows' = rows \cup admitted
    /\ UNCHANGED <<history, active>>

Reclaim(k) ==
    /\ k \notin history[active]
    /\ rows' = {r \in rows : r.kind # k}
    /\ UNCHANGED <<history, active>>

Next ==
    \/ \E document \in Document : Publish(document)
    \/ \E version \in 1..Len(history) : Activate(version)
    \/ \E admitted \in SUBSET {RowOf(k, active) : k \in history[active]} : Admit(admitted)
    \/ \E k \in Kinds : Reclaim(k)

Spec == Init /\ [][Next]_<<history, active, rows>>
=============================================================================
