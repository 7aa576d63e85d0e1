------------------------------ MODULE EdgeAxis ------------------------------
(***************************************************************************)
(* What a declared edge cardinality promises, with the locks, the claims   *)
(* and the transactions left out: an edge joins an axis only while nothing *)
(* occupies it, and may leave at any time.                                 *)
(***************************************************************************)
CONSTANTS Keys, Edges

VARIABLE population   \* the counted edges of each axis key

Init == population \in [Keys -> {{}} \cup {{e} : e \in Edges}]

Admit(k, e) ==
    /\ population[k] = {}
    /\ population' = [population EXCEPT ![k] = {e}]

Retire(k) ==
    /\ population[k] # {}
    /\ population' = [population EXCEPT ![k] = {}]

Next == \E k \in Keys : Retire(k) \/ \E e \in Edges : Admit(k, e)

Spec == Init /\ [][Next]_population
=============================================================================
