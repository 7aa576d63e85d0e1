--------------------------- MODULE IdentityClasses ---------------------------
(***************************************************************************)
(* The identity service.  The ledger of assertions and the node rows are   *)
(* the truth; two tables are derived from them and are what every current  *)
(* read and every validation asks: `closure` names the anchor of each      *)
(* member of a class of two or more, `separation` the pairs of class keys  *)
(* a `different` assertion keeps apart.  No operation recomputes them      *)
(* whole: each repairs the classes it believes it touched.                 *)
(*                                                                         *)
(* Each action is one write frame.  The frame takes the graph's identity   *)
(* lock before its body and holds it to its commit, and every statement of *)
(* the body sees what committed before it, so frames do not interleave.    *)
(* Only assertions that hold now are kept: validity windows, ended rows    *)
(* and the reads of the past are left out.                                 *)
(***************************************************************************)
EXTENDS Naturals, FiniteSets, Sequences, FiniteSetsExt, SequencesExt

CONSTANTS
    Refs,          \* node references: <<kind, id>>, compared by kind, then id
    Disjoint,      \* the sets of two kinds the ontology declares disjoint
    Droppable,     \* the kinds a schema commit may remove
    MaxRequest,    \* bound: the assertions of one bulk call or import
    MixedBatches   \* whether one fold may take nodes of several kinds

\* Kinds and ids are compared as strings are; numbers stand for them.
ASSUME RefsAssumption == IsFiniteSet(Refs) /\ Refs \subseteq Nat \X Nat

\* The ontology refuses a kind declared disjoint with itself.
ASSUME DisjointAssumption == \A r \in Refs : {r[1]} \notin Disjoint

ASSUME BoundsAssumption == MaxRequest \in Nat \ {0} /\ MixedBatches \in BOOLEAN

VARIABLES
    live,          \* node rows that are not tombstones
    kinds,         \* kinds of the active schema
    ledger,        \* assertions that hold now
    folds,         \* profile: sameIdAcrossKinds = "fold"
    closure,       \* identity_closure: member |-> anchor
    separation,    \* identity_separation: sets of two class keys
    answer         \* how the last frame ended

tables == <<live, kinds, ledger, folds, closure, separation>>
vars == <<live, kinds, ledger, folds, closure, separation, answer>>

Kind(r) == r[1]
Id(r) == r[2]

Pairs == kSubset(2, Refs)
Assertions == [rel : {"same", "different"}, pair : Pairs]

Precedes(r, s) == Kind(r) < Kind(s) \/ (Kind(r) = Kind(s) /\ Id(r) <= Id(s))
Least(set) == CHOOSE r \in set : \A s \in set : Precedes(r, s)

DisjointKinds(A, B) == \E a \in A, b \in B : {Kind(a), Kind(b)} \in Disjoint

OfKinds(set, K) == {r \in set : Kind(r) \in K}
Relating(asserted, rel) == {a \in asserted : a.rel = rel}
Touching(asserted, set) == {a \in asserted : a.pair \cap set # {}}
Endpoints(asserted) == UNION {a.pair : a \in asserted}

-----------------------------------------------------------------------------
\* A frame works on a draft: the rows as its own statements see them, and
\* the verdict, "refused" once a validation threw, "aborted" once a
\* constraint of the derived tables did.
Draft ==
    [live |-> live, kinds |-> kinds, ledger |-> ledger, folds |-> folds,
     closure |-> closure, separation |-> separation, verdict |-> "done"]

Install(D) ==
    /\ live' = D.live
    /\ kinds' = D.kinds
    /\ ledger' = D.ledger
    /\ folds' = D.folds
    /\ closure' = D.closure
    /\ separation' = D.separation

\* A frame whose body threw rolls back.
Commit(D) ==
    /\ answer' = D.verdict
    /\ IF D.verdict = "done" THEN Install(D) ELSE UNCHANGED tables

Guarded(D, holds) == IF holds THEN D ELSE [D EXCEPT !.verdict = "aborted"]

-----------------------------------------------------------------------------
\* Reading the classes: a reference without a row is a class of its own.
Anchor(D, r) == IF r \in DOMAIN D.closure THEN D.closure[r] ELSE r

ClassOf(D, r) ==
    LET rows == {m \in DOMAIN D.closure : D.closure[m] = Anchor(D, r)}
    IN  IF rows = {} THEN {r} ELSE rows

ClassesOf(D, set) == UNION {ClassOf(D, r) : r \in set}

\* What a request may not do to the classes as the tables show them.
Contradicts(D, a) ==
    \E r, s \in a.pair :
        /\ r # s
        /\ \/ a.rel = "different" /\ s \in ClassOf(D, r)
           \/ /\ a.rel = "same"
              /\ \/ {Least(ClassOf(D, r)), Least(ClassOf(D, s))} \in D.separation
                 \/ DisjointKinds(ClassOf(D, r), ClassOf(D, s))

\* The union-find: the classes of the nodes and of the asserted endpoints.
Union(pair, parts) ==
    LET met == {P \in parts : P \cap pair # {}}
    IN  (parts \ met) \cup {UNION met}

Components(nodes, same, fold) ==
    LET alone == {{r} : r \in nodes \cup Endpoints(same)}
        shared == {p \in Pairs : fold /\ p \subseteq nodes /\ \A r, s \in p : Id(r) = Id(s)}
    IN  FoldSet(Union, alone, shared \cup {a.pair : a \in same})

PartOf(parts, r) == IF \E P \in parts : r \in P THEN CHOOSE P \in parts : r \in P ELSE {r}

-----------------------------------------------------------------------------
\* Rewriting the derived tables.  The separation key is unordered here; the
\* CHECK (low < high) refuses the row whose two keys are one.
InsertSeparation(D, rows) ==
    Guarded([D EXCEPT !.separation = @ \cup rows], \A p \in rows : Cardinality(p) = 2)

ReplaceSeparationForMembers(D, members) ==
    LET kept == [D EXCEPT !.separation = {p \in @ : p \cap members = {}}]
        owed == Touching(Relating(D.ledger, "different"), members)
    IN  InsertSeparation(kept, {{Anchor(D, r) : r \in a.pair} : a \in owed})

ReplaceSeparationForReferences(D, set) ==
    IF set = {} THEN D ELSE ReplaceSeparationForMembers(D, ClassesOf(D, set))

\* One row per member of a class of two or more; the member is the key.
InsertClosure(D, parts) ==
    LET classes == {P \in parts : Cardinality(P) > 1}
        rows == UNION classes
    IN  Guarded([D EXCEPT !.closure = [r \in DOMAIN @ \cup rows |->
                    IF r \in rows THEN Least(PartOf(classes, r)) ELSE @[r]]],
                rows \cap DOMAIN D.closure = {})

\* Mutant of ReplaceAffectedClosure: keeps the pairs of labels that are gone.
RewritesNewKeysOnly(D, set) ==
    LET affected == ClassesOf(D, set)
        same == Touching(Relating(D.ledger, "same"), affected)
        parts == Components(affected \cap D.live, same, D.folds)
        cleared == [D EXCEPT !.closure = [r \in DOMAIN @ \ affected |-> @[r]]]
    IN  IF set = {} THEN D
        ELSE ReplaceSeparationForMembers(InsertClosure(cleared, parts), UNION parts)

ReplaceAffectedClosure(D, set) ==
    LET affected == ClassesOf(D, set)
        same == Touching(Relating(D.ledger, "same"), affected)
        parts == Components(affected \cap D.live, same, D.folds)
        cleared == [D EXCEPT !.closure = [r \in DOMAIN @ \ affected |-> @[r]]]
    IN  IF set = {} THEN D
        ELSE ReplaceSeparationForMembers(InsertClosure(cleared, parts),
                                         affected \cup UNION parts)

\* Fuses two classes by relabelling the rows they have and adding the others.
MergeClasses(D, pair) ==
    LET classes == {ClassOf(D, r) : r \in pair}
        fused == UNION classes
        retired == {Least(C) : C \in {X \in classes : Cardinality(X) > 1}}
        added == UNION {C \in classes : Cardinality(C) = 1}
        relabelled == [r \in DOMAIN D.closure \cup added |->
            IF r \in added \/ D.closure[r] \in retired THEN Least(fused) ELSE D.closure[r]]
    IN  IF \E r \in pair : pair \subseteq ClassOf(D, r) THEN D
        ELSE ReplaceSeparationForMembers(
                 Guarded([D EXCEPT !.closure = relabelled], added \cap DOMAIN D.closure = {}),
                 fused)

\* The snapshot a rebuild derives from: rows of kinds the schema knows.
Snapshot(D) ==
    [nodes |-> OfKinds(D.live, D.kinds),
     ledger |-> {a \in D.ledger : a.pair = OfKinds(a.pair, D.kinds)}]

SnapshotParts(D) ==
    Components(Snapshot(D).nodes, Relating(Snapshot(D).ledger, "same"), D.folds)

IntegrityHolds(D) ==
    /\ Endpoints(Snapshot(D).ledger) \subseteq Snapshot(D).nodes
    /\ \A a \in Relating(Snapshot(D).ledger, "different") :
           \A P \in SnapshotParts(D) : ~(a.pair \subseteq P)
    /\ \A P \in SnapshotParts(D) : ~DisjointKinds(P, P)

ReplaceClosure(D) ==
    LET parts == SnapshotParts(D)
        empty == [D EXCEPT !.closure = <<>>, !.separation = {}]
    IN  InsertSeparation(InsertClosure(empty, parts),
            {{Least(PartOf(parts, r)) : r \in a.pair} :
                 a \in Relating(Snapshot(D).ledger, "different")})

-----------------------------------------------------------------------------
Init ==
    /\ live = {}
    /\ kinds = {Kind(r) : r \in Refs}
    /\ ledger = {}
    /\ folds \in BOOLEAN
    /\ closure = <<>>
    /\ separation = {}
    /\ answer = "done"

\* A request that names a missing endpoint fails before it reads a class.
Assertable == {a \in Assertions : a.pair \subseteq OfKinds(live, kinds)}
Requests == UNION {[1 .. n -> Assertable] : n \in 1 .. MaxRequest}

\* One assertion of a call or of an import: nothing when it already holds.
\* Once a step of the loop has thrown, the rest of the loop does not run.
AssertStep(D, a) ==
    LET written == [D EXCEPT !.ledger = @ \cup {a}]
    IN  CASE D.verdict # "done" \/ a \in D.ledger -> D
          [] D.verdict = "done" /\ a \notin D.ledger /\ Contradicts(D, a) ->
                 [D EXCEPT !.verdict = "refused"]
          [] OTHER ->
                 IF a.rel = "same" THEN MergeClasses(written, a.pair)
                 ELSE ReplaceSeparationForReferences(written, a.pair)

AssertPair == \E a \in Assertable : Commit(AssertStep(Draft, a))

\* A bulk call validates against a union-find of its own, and repairs once.
BulkStep(B, a) ==
    LET roots == {PartOf(B.parts, r) : r \in a.pair}
        apart == \E d \in Relating(B.known, "different") :
                     {PartOf(B.parts, r) : r \in d.pair} = roots
        refused == \/ a.rel = "different" /\ Cardinality(roots) = 1
                   \/ a.rel = "same" /\ apart
                   \/ /\ a.rel = "same"
                      /\ \E r, s \in a.pair : r # s /\ DisjointKinds(PartOf(B.parts, r), PartOf(B.parts, s))
    IN  CASE B.refused \/ a \in B.known \cup B.created -> B
          [] ~B.refused /\ a \notin B.known \cup B.created /\ refused ->
                 [B EXCEPT !.refused = TRUE]
          [] OTHER ->
                 [B EXCEPT !.created = @ \cup {a},
                           !.parts = IF a.rel = "same" THEN Union(a.pair, @) ELSE @]

Bulk(D, request) ==
    LET structural == ClassesOf(D, Endpoints(Range(request)))
        known == Touching(D.ledger, structural)
    IN  FoldLeft(BulkStep,
            [parts |-> Components(structural, Relating(known, "same"), D.folds),
             known |-> known, created |-> {}, refused |-> FALSE],
            request)

BulkAssert ==
    \E request \in Requests :
        LET B == Bulk(Draft, request)
            written == [Draft EXCEPT !.ledger = @ \cup B.created]
        IN  /\ \A i, j \in DOMAIN request : request[i].rel = request[j].rel
            /\ Commit(CASE B.refused -> [Draft EXCEPT !.verdict = "refused"]
                        [] ~B.refused /\ request[1].rel = "same" ->
                               ReplaceAffectedClosure(written, Endpoints(B.created))
                        [] OTHER ->
                               ReplaceSeparationForReferences(written, Endpoints(B.created)))

\* Mutant of RetractStep: leaves the classes to a later repair.
RetractUnrepaired(D, ended) == [D EXCEPT !.ledger = @ \ ended]

\* Ending assertions: the classes first, then what only kept classes apart.
RetractStep(D, ended) ==
    LET written == [D EXCEPT !.ledger = @ \ ended]
    IN  ReplaceSeparationForReferences(
            ReplaceAffectedClosure(written, Endpoints(Relating(ended, "same"))),
            Endpoints(Relating(ended, "different")))

Retract ==
    \E ended \in SUBSET ledger :
        /\ Cardinality(ended) \in 1 .. MaxRequest
        /\ Commit(RetractStep(Draft, ended))

-----------------------------------------------------------------------------
\* Mutant of FoldNodes: validates none of the new classes.
FoldsUnchecked(D, created) ==
    LET Peers(r) == {s \in OfKinds(D.live, D.kinds) : Id(s) = Id(r) /\ s # r}
        folded == {r \in created : Peers(r) # {}}
    IN  IF D.folds THEN ReplaceAffectedClosure(D, folded \cup UNION {Peers(r) : r \in folded}) ELSE D

\* Restores the same-id classes of nodes that were just written: every one is
\* validated against the classes as they stand, then all are repaired at once.
FoldNodes(D, created) ==
    LET Peers(r) == {s \in OfKinds(D.live, D.kinds) : Id(s) = Id(r) /\ s # r}
        folded == {r \in created : Peers(r) # {}}
        refused == \E r \in folded : \E s \in Peers(r) :
                       Contradicts(D, [rel |-> "same", pair |-> {r, s}])
    IN  CASE ~D.folds -> D
          [] D.folds /\ refused -> [D EXCEPT !.verdict = "refused"]
          [] OTHER ->
                 ReplaceAffectedClosure(D, folded \cup UNION {Peers(r) : r \in folded})

\* A create or revival, a bulk create of one kind, the node leg of an import.
\* The claims refuse an id that is live under a disjoint kind beforehand.
CreateNodes ==
    \E created \in SUBSET (OfKinds(Refs, kinds) \ live) :
        LET written == [Draft EXCEPT !.live = @ \cup created]
        IN  /\ Cardinality(created) \in 1 .. 2
            /\ MixedBatches \/ Cardinality({Kind(r) : r \in created}) = 1
            /\ \A r, s \in written.live : Id(r) = Id(s) => ~DisjointKinds({r}, {s})
            /\ Commit(FoldNodes(written, created))

\* Mutant of DeleteNode: repairs only when an assertion was ended.
RepairsIfAsserted ==
    \E r \in OfKinds(live, kinds) :
        LET ended == Touching(ledger, {r})
            written == [Draft EXCEPT !.live = @ \ {r}, !.ledger = @ \ ended]
        IN  Commit(IF ended = {} THEN written ELSE ReplaceAffectedClosure(written, {r}))

\* A delete, soft or hard, ends what is asserted of the node; a node that
\* never took part in identity has nothing to repair.
DeleteNode ==
    \E r \in OfKinds(live, kinds) :
        LET ended == Touching(ledger, {r})
            written == [Draft EXCEPT !.live = @ \ {r}, !.ledger = @ \ ended]
        IN  Commit(IF ended = {} /\ r \notin DOMAIN closure THEN written
                   ELSE ReplaceAffectedClosure(written, {r}))

\* The identity section of an import keeps what it applied before the
\* assertion it could not apply.
ImportAssertions ==
    \E request \in Requests :
        LET D == FoldLeft(AssertStep, Draft, request)
        IN  /\ answer' = D.verdict
            /\ IF D.verdict = "aborted" THEN UNCHANGED tables ELSE Install(D)

\* A merge ends assertions, repairs, and asserts, all or nothing.
ApplyIdentityChanges ==
    \E ended \in SUBSET ledger, a \in Assertable :
        /\ Cardinality(ended) = 1
        /\ Commit(AssertStep(RetractStep(Draft, ended), a))

-----------------------------------------------------------------------------
\* Schema commits.  The rows of a removed kind await their materialization.
RemoveKind ==
    \E k \in Droppable \cap kinds :
        Commit(ReplaceClosure(
            [Draft EXCEPT !.kinds = @ \ {k},
                          !.ledger = @ \ Touching(@, OfKinds(Refs, {k}))]))

Rebuilt(D) == IF IntegrityHolds(D) THEN ReplaceClosure(D) ELSE [D EXCEPT !.verdict = "refused"]

ChangeProfile == Commit(Rebuilt([Draft EXCEPT !.folds = ~@]))

RebuildClosure == Commit(Rebuilt(Draft))

Next ==
    \/ AssertPair \/ BulkAssert \/ Retract
    \/ CreateNodes \/ DeleteNode
    \/ ImportAssertions \/ ApplyIdentityChanges
    \/ RemoveKind \/ ChangeProfile \/ RebuildClosure

Spec == Init /\ [][Next]_vars

-----------------------------------------------------------------------------
Promise == INSTANCE IdentityLedger WITH live <- OfKinds(live, kinds)

TrueClass(r) == Promise!Class(OfKinds(live, kinds), ledger, folds, r)

ClosureIsCurrent ==
    closure = [r \in {x \in Refs : Cardinality(TrueClass(x)) > 1} |-> Least(TrueClass(r))]

SeparationIsCurrent ==
    separation = {{Least(TrueClass(r)) : r \in a.pair} : a \in Relating(ledger, "different")}

(***************************************************************************)
(* Whatever sequence of partial repairs produced them, the derived tables  *)
(* say what the nodes and the ledger say: a closure row for each member of *)
(* a class of two or more, labelled with the least member, and a row for   *)
(* each pair of classes some `different` assertion keeps apart, under the  *)
(* labels they have now; a label that a merge or a split retired is gone.  *)
(* `areSame`, `membersOf`, `areDifferent` and every validation read these  *)
(* tables and nothing else.                                                *)
(***************************************************************************)
TablesAreCurrent == ClosureIsCurrent /\ SeparationIsCurrent

(***************************************************************************)
(* The service implements the promise: a frame that commits leaves no      *)
(* contradiction, a frame is refused only for one, a refused frame leaves  *)
(* what it should, and the constraints of the derived tables never fire.   *)
(***************************************************************************)
ImplementsLedger == Promise!Spec

(***************************************************************************)
(* A request is refused exactly when what it asks would contradict: the    *)
(* probes of the derived tables, the union-find of a bulk call and the     *)
(* validation after a retraction all agree with the ledger, whichever of   *)
(* them answers.  Neither a contradiction that is let in nor a sound       *)
(* request that is turned away could be told from the answer alone.        *)
(***************************************************************************)
Contradicting(asserted) == Promise!Contradictory(OfKinds(live, kinds), asserted, folds)

RefusesContradictionsOnly ==
    LET bad == {a \in Assertable : Contradicting(ledger \cup {a})}
    IN  /\ \A a \in Assertable :
               (AssertStep(Draft, a).verdict = "refused") <=> (a \in bad)
        /\ \A request \in Requests :
               (\A i, j \in DOMAIN request : request[i].rel = request[j].rel) =>
                   (Bulk(Draft, request).refused <=> Contradicting(ledger \cup Range(request)))
        /\ \A d \in ledger : \A a \in Assertable :
               (AssertStep(RetractStep(Draft, {d}), a).verdict = "refused")
                   <=> Contradicting((ledger \ {d}) \cup {a})

(***************************************************************************)
(* No class ever holds two kinds the ontology declares disjoint, and none  *)
(* is split by a `different` assertion: every write validates against      *)
(* tables in step with what it writes.                                     *)
(***************************************************************************)
NeverContradictory == Promise!Consistent
=============================================================================
