---------------------------- MODULE IdentityLedger ----------------------------
(***************************************************************************)
(* What the identity service promises: a set of live nodes, a set of       *)
(* assertions about pairs of them, and a refusal of every request, and     *)
(* only of a request, that would make the assertions contradict.  No       *)
(* derived table appears here: the classes are defined from the nodes and  *)
(* the assertions each time they are asked for.                            *)
(***************************************************************************)
EXTENDS Naturals, FiniteSets

CONSTANTS
    Refs,       \* node references: pairs of a kind and an id
    Disjoint,   \* the sets of two kinds that the ontology declares disjoint
    MaxRequest  \* bound: the assertions of one request

VARIABLES live, ledger, folds, answer

vars == <<live, ledger, folds, answer>>

Pairs == {{a, b} : a, b \in Refs} \ {{r} : r \in Refs}

Assertions == [rel : {"same", "different"}, pair : Pairs]

-----------------------------------------------------------------------------
\* The pairs that are one thing: asserted so, or live under one shared id.
Links(nodes, asserted, fold) ==
    {a.pair : a \in {x \in asserted : x.rel = "same"}}
      \cup {p \in Pairs : fold /\ p \subseteq nodes /\ \A r, s \in p : r[2] = s[2]}

\* The least set of references that holds r and every link it touches.
Class(nodes, asserted, fold, r) ==
    LET links == Links(nodes, asserted, fold)
        Closed(set) == \A p \in links : p \cap set # {} => p \subseteq set
    IN  {s \in Refs : \A set \in SUBSET Refs : r \in set /\ Closed(set) => s \in set}

\* A class with members of two disjoint kinds, or split by a `different`.
Contradictory(nodes, asserted, fold) ==
    LET C == [r \in Refs |-> Class(nodes, asserted, fold, r)]
    IN  \/ \E r \in Refs : \E s \in C[r] : {r[1], s[1]} \in Disjoint
        \/ \E a \in asserted : a.rel = "different" /\ \E r \in a.pair : a.pair \subseteq C[r]

About(asserted, nodes) == {a \in asserted : a.pair \cap nodes # {}}

-----------------------------------------------------------------------------
Init ==
    /\ live = {}
    /\ ledger = {}
    /\ folds \in BOOLEAN
    /\ answer = "done"

Answered(verdict) == answer' = verdict

\* New assertions between live nodes, the whole request or none of it.
Assert ==
    /\ ledger' \in SUBSET Assertions
    /\ ledger \subseteq ledger'
    /\ \A a \in ledger' \ ledger : a.pair \subseteq live
    /\ ~Contradictory(live, ledger', folds)
    /\ Answered("done")
    /\ UNCHANGED <<live, folds>>

Retract ==
    /\ ledger' \in SUBSET ledger
    /\ Answered("done")
    /\ UNCHANGED <<live, folds>>

\* One assertion ends and another begins, as a merge applies them.
Replace ==
    /\ ledger' \in SUBSET Assertions
    /\ \A a \in ledger' \ ledger : a.pair \subseteq live
    /\ Cardinality(ledger \ ledger') <= 1
    /\ Cardinality(ledger' \ ledger) <= 1
    /\ ~Contradictory(live, ledger', folds)
    /\ Answered("done")
    /\ UNCHANGED <<live, folds>>

Add ==
    /\ live' \in SUBSET Refs
    /\ live \subseteq live'
    /\ ~Contradictory(live', ledger, folds)
    /\ Answered("done")
    /\ UNCHANGED <<ledger, folds>>

\* Nodes leave, and every assertion about them with them.
Remove ==
    /\ live' \in SUBSET live
    /\ ledger' = ledger \ About(ledger, live \ live')
    /\ Answered("done")
    /\ UNCHANGED folds

ChangeProfile ==
    /\ folds' = ~folds
    /\ ~Contradictory(live, ledger, folds')
    /\ Answered("done")
    /\ UNCHANGED <<live, ledger>>

-----------------------------------------------------------------------------
\* A request whose assertions cannot all hold.  What precedes the
\* contradiction may stay: an import keeps it, every other request drops it.
RefuseAssertions ==
    /\ ledger' \in SUBSET Assertions
    /\ ledger \subseteq ledger'
    /\ \A a \in ledger' \ ledger : a.pair \subseteq live
    /\ ~Contradictory(live, ledger', folds)
    /\ \E n \in 1 .. MaxRequest :
           \E request \in [1 .. n -> {a \in Assertions : a.pair \subseteq live}] :
               LET asked == {request[i] : i \in 1 .. n}
               IN  /\ ledger' \subseteq ledger \cup asked
                   /\ Contradictory(live, ledger' \cup asked, folds)

RefuseNodes ==
    /\ UNCHANGED ledger
    /\ \E r, s \in Refs : Contradictory(live \cup {r, s}, ledger, folds)

RefuseProfile ==
    /\ UNCHANGED ledger
    /\ Contradictory(live, ledger, ~folds)

Refuse ==
    /\ RefuseAssertions \/ RefuseNodes \/ RefuseProfile
    /\ Answered("refused")
    /\ UNCHANGED <<live, folds>>

Next == Assert \/ Retract \/ Replace \/ Add \/ Remove \/ ChangeProfile \/ Refuse

Spec == Init /\ [][Next]_vars

-----------------------------------------------------------------------------
TypeOK ==
    /\ live \subseteq Refs
    /\ ledger \subseteq Assertions
    /\ folds \in BOOLEAN

(***************************************************************************)
(* Whatever is deleted, ended, folded or reprofiled, the assertions that   *)
(* remain hold together: no class has members of disjoint kinds and no     *)
(* `different` assertion lies within one (what validateIdentity asks).     *)
(***************************************************************************)
Consistent == ~Contradictory(live, ledger, folds)

(***************************************************************************)
(* No assertion outlives a node it names: a deletion ends every assertion  *)
(* about the node, on either side of the pair, in the same frame.          *)
(***************************************************************************)
EndpointsLive == \A a \in ledger : a.pair \subseteq live
=============================================================================
