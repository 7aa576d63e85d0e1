-------------------------- MODULE MCRecordedCapture --------------------------
(* Small instances of RecordedCapture: one or two transactions, one node     *)
(* and one edge, from an empty graph and from one with a revision.           *)
EXTENDS RecordedCapture, TLC

CONSTANTS t1, t2, b1, b2, b3, n1, n2, e1, v1, v2

\* Each transaction has one branch.
OneEach == b1 :> t1 @@ b2 :> t2
\* The first transaction runs two branches at once.
TwoAndOne == b1 :> t1 @@ b2 :> t1 @@ b3 :> t2
\* A single transaction runs two branches.
Both == b1 :> t1 @@ b2 :> t1

\* The edge is attached to the first node.
Hangs == e1 :> n1

Empty == [e \in Entities |-> Absent]
Populated == [e \in Entities |-> v1]
NodesOnly == [e \in Entities |-> IF e \in Nodes THEN v1 ELSE Absent]
SeveralSeeds == {Empty, Populated, NodesOnly}
PopulatedSeed == {Populated}
NodesSeed == {NodesOnly}
=============================================================================
