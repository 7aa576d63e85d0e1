--------------------------- MODULE RecordedLedger ---------------------------
(***************************************************************************)
(* What recorded-time capture promises a reader: a ledger of versions of   *)
(* the graph.  Version r is the whole graph as transaction r left it; each *)
(* captured transaction appends one version, which is also the live graph, *)
(* and no version ever changes.                                            *)
(***************************************************************************)
EXTENDS Naturals, Sequences

CONSTANTS Entities, Rows, Absent

VARIABLES
    versions,   \* the graph as of each recorded revision
    current     \* the live graph

States == [Entities -> Rows \cup {Absent}]

Init ==
    /\ current \in States
    /\ \/ versions = <<current>>
       \/ versions = <<>> /\ current = [e \in Entities |-> Absent]

Record ==
    \E graph \in States :
        /\ current' = graph
        /\ versions' = Append(versions, graph)

Spec == Init /\ [][Record]_<<versions, current>>
=============================================================================
