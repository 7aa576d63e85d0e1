----------------------------- MODULE MCNodeClaims -----------------------------
EXTENDS NodeClaims, TLC

CONSTANTS w1, w2, n1, n2, n3

\* One writer per keyed node; both write n3, whose rows owe no key.  The
\* second constraint has no where predicate a keyed node could fail.
OneWriterPerKeyedNode(w) == IF w = w1 THEN {n1, n3} ELSE {n2, n3}
KeylessThird(n, c) ==
    IF n = n3 THEN {Unset} ELSE IF c = 1 THEN Keys \cup {Unset} ELSE Keys

\* Every writer may name every node, with any key.
EveryNode(w) == Nodes
EveryKey(n, c) == Keys \cup {Unset}

\* Exchange the keys, or the two writers together with the nodes they own.
KeySymmetry == Permutations(Keys)
Swap == w1 :> w2 @@ w2 :> w1 @@ n1 :> n2 @@ n2 :> n1
PairSymmetry == KeySymmetry \cup {Swap @@ p : p \in KeySymmetry}
=============================================================================
