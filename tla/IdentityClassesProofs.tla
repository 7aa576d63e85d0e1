------------------------ MODULE IdentityClassesProofs ------------------------
(***************************************************************************)
(* The identity service keeps its derived tables and its promise, for any  *)
(* finite set of references, any disjointness of distinct kinds and any    *)
(* length of a request.                                                    *)
(*                                                                         *)
(* The classes are what a set of links joins: Reach(links, r) is the least *)
(* closed set around r, and the union-find computes exactly that           *)
(* (ComponentsPartition, by induction over the links it folds).  A frame   *)
(* starts from tables in step with its rows (Current), writes rows, and    *)
(* repairs the classes it believes it touched.  A repair confined to an    *)
(* area is sound if the area is closed under the links before and after    *)
(* (ClosureRepaired, ReferencesRepaired), and each frame's area is; so     *)
(* Current(Draft) is an invariant.                                         *)
(*                                                                         *)
(* With tables in step, each way to validate a request, the probes of the  *)
(* tables, the union-find of a bulk call and the snapshot of a rebuild,    *)
(* answers what the definition of a contradiction answers (ProbesExact,    *)
(* BulkExact, IntegrityExact).  A fold that writes nodes of one kind       *)
(* validates them one by one and still admits no contradiction (FoldHolds),*)
(* so Steady, tables in step and no contradiction, is an invariant of a    *)
(* service that takes such batches only, and every frame is a step of the  *)
(* promise.                                                                *)
(***************************************************************************)
EXTENDS IdentityClasses, FiniteSetTheorems, TLAPS

-----------------------------------------------------------------------------
(* Induction. *)

LEMMA LeastNumber ==
    ASSUME NEW N, N \subseteq Nat, N # {}
    PROVE  \E n \in N : \A m \in N : n <= m
<1> DEFINE R == OpToRel(<, Nat)
<1>1. IsWellFoundedOn(R, Nat)
    BY NatLessThanWellFounded, Zenon
<1>2. \A x, y \in Nat : <<y, x>> \in R <=> y < x
    BY Zenon DEF OpToRel
<1> HIDE DEF R
<1>3. PICK n \in N : \A m \in N : <<m, n>> \notin R
    BY <1>1, WFMin
<1>4. \A m \in N : ~(m < n)
    BY <1>2, <1>3
<1> QED
    BY <1>4

\* Induction over the numbers for which something holds, taken as a set.
LEMMA Numbers ==
    ASSUME NEW N, 0 \in N, \A n \in Nat : n \in N => n + 1 \in N
    PROVE  Nat \subseteq N
<1> SUFFICES ASSUME Nat \ N # {} PROVE FALSE
    OBVIOUS
<1>1. PICK n \in Nat \ N : \A m \in Nat \ N : n <= m
    BY LeastNumber
<1>2. n # 0
    BY <1>1
<1>3. n - 1 \in Nat /\ n - 1 \in N
    BY <1>1, <1>2
<1>4. (n - 1) + 1 = n
    BY <1>1
<1> QED
    BY <1>1, <1>3, <1>4

\* Induction over the subsets of a finite set: a counterexample has a least.
LEMMA LeastSubset ==
    ASSUME NEW S, IsFiniteSet(S), NEW bad, bad \subseteq SUBSET S, bad # {}
    PROVE  \E T \in bad : \A U \in bad : U \subseteq T => U = T
<1> DEFINE R == StrictSubsetOrdering(S)
<1>1. IsWellFoundedOn(R, SUBSET S)
    BY FS_StrictSubsetOrderingWellFounded, FS_FiniteSubsetsOfFinite, Zenon
<1>2. PICK T \in bad : \A U \in bad : <<U, T>> \notin R
    <2> HIDE DEF R
    <2> QED
        BY <1>1, WFMin
<1>3. \A U, V \in SUBSET S : <<U, V>> \in R <=> U \subseteq V /\ U # V
    BY DEF StrictSubsetOrdering
<1>4. \A U \in bad : U \in SUBSET S
    OBVIOUS
<1> HIDE DEF R
<1>5. \A U \in bad : U \subseteq T => U = T
    BY <1>2, <1>3, <1>4
<1> QED
    BY <1>5

-----------------------------------------------------------------------------
(* Folds. *)

\* The three operators that are folded.
Apply(what, x, v) ==
    IF what = "union" THEN Union(x, v)
    ELSE IF what = "bulk" THEN BulkStep(v, x) ELSE AssertStep(v, x)

Folded(what, base, pick, item, g, s) ==
    IF s = {} THEN base ELSE Apply(what, item[pick[s]], g[s \ {pick[s]}])

IsFold(S, what, base, pick, item, g) ==
    g = [s \in SUBSET S |-> Folded(what, base, pick, item, g, s)]

\* The recursive function of a fold over a finite set exists.
LEMMA FoldDefined ==
    ASSUME NEW S, IsFiniteSet(S), NEW what, NEW base, NEW pick, NEW item,
           \A s \in SUBSET S : s # {} => pick[s] \in s
    PROVE  \E g : IsFold(S, what, base, pick, item, g)
<1> DEFINE Upto(n) == {s \in SUBSET S : Cardinality(s) <= n}
           N == {n \in Nat : \E g : g = [s \in Upto(n) |-> Folded(what, base, pick, item, g, s)]}
<1>1. \A s \in SUBSET S : IsFiniteSet(s) /\ Cardinality(s) \in Nat
    BY FS_Subset, FS_CardinalityType
<1>2. 0 \in N
    <2>1. \A s \in Upto(0) : s = {}
        BY <1>1, FS_EmptySet
    <2> DEFINE g == [s \in Upto(0) |-> base]
    <2>2. g = [s \in Upto(0) |-> Folded(what, base, pick, item, g, s)]
        BY <2>1, Zenon DEF Folded
    <2> QED
        BY <2>2, Zenon
<1>3. ASSUME NEW n \in Nat, n \in N PROVE n + 1 \in N
    <2>1. PICK g : g = [s \in Upto(n) |-> Folded(what, base, pick, item, g, s)]
        BY <1>3, Zenon
    <2> DEFINE h == [s \in Upto(n + 1) |-> Folded(what, base, pick, item, g, s)]
    <2>2. \A s \in Upto(n) : s \in Upto(n + 1) /\ h[s] = g[s]
        <3>1. \A s \in Upto(n) : s \in Upto(n + 1)
            BY <1>1
        <3>2. \A s \in Upto(n) : g[s] = Folded(what, base, pick, item, g, s)
            BY <2>1, Zenon
        <3>3. \A s \in Upto(n + 1) : h[s] = Folded(what, base, pick, item, g, s)
            BY Zenon
        <3> HIDE DEF h, Upto
        <3> QED
            BY <3>1, <3>2, <3>3, Zenon
    <2>3. ASSUME NEW s \in Upto(n + 1)
          PROVE  Folded(what, base, pick, item, g, s) = Folded(what, base, pick, item, h, s)
        <3>1. CASE s = {}
            BY <3>1, Zenon DEF Folded
        <3>2. CASE s # {}
            <4>1. pick[s] \in s /\ s \in SUBSET S
                BY <3>2
            <4>2. Cardinality(s \ {pick[s]}) = Cardinality(s) - 1
                BY <4>1, <1>1, FS_RemoveElement
            <4>3. s \ {pick[s]} \in Upto(n)
                BY <4>1, <4>2, <1>1
            <4>4. g[s \ {pick[s]}] = h[s \ {pick[s]}]
                BY <2>2, <4>3, Zenon
            <4> QED
                BY <4>4, Zenon DEF Folded
        <3> QED
            BY <3>1, <3>2, Zenon
    <2>4. h = [s \in Upto(n + 1) |-> Folded(what, base, pick, item, h, s)]
        BY <2>3, Zenon
    <2>5. \E f : f = [s \in Upto(n + 1) |-> Folded(what, base, pick, item, f, s)]
        BY <2>4, Zenon
    <2>6. n + 1 \in Nat
        OBVIOUS
    <2> QED
        BY <2>5, <2>6, Zenon
<1>4. Cardinality(S) \in N
    <2>1. Cardinality(S) \in Nat
        BY <1>1
    <2> HIDE DEF N
    <2> QED
        BY <1>2, <1>3, <2>1, Numbers
<1>5. Upto(Cardinality(S)) = SUBSET S
    BY <1>1, FS_Subset
<1> QED
    BY <1>4, <1>5, Zenon DEF IsFold

\* Folding `Union` over a set of pairs: the value on each subset of the pairs.
LEMMA UnionFold ==
    ASSUME NEW S, IsFiniteSet(S), NEW base
    PROVE  \E g : /\ g[{}] = base
                  /\ \A s \in SUBSET S : s # {} =>
                         \E p \in s : g[s] = Union(p, g[s \ {p}])
                  /\ FoldSet(Union, base, S) = g[S]
<1> DEFINE Pick(s) == CHOOSE p \in s : TRUE
           Step(g, s) == IF s = {} THEN base ELSE Union(Pick(s), g[s \ {Pick(s)}])
           pick == [s \in SUBSET S |-> Pick(s)]
           item == [x \in S |-> x]
           g == CHOOSE f : f = [s \in SUBSET S |-> Step(f, s)]
<1>1. \A s \in SUBSET S : s # {} => Pick(s) \in s
    OBVIOUS
<1>2. \A s \in SUBSET S : s # {} => pick[s] \in s
    BY <1>1
<1>3. PICK f : IsFold(S, "union", base, pick, item, f)
    <2> HIDE DEF pick, item
    <2> QED
        BY <1>2, FoldDefined
<1>4. \A s \in SUBSET S : Folded("union", base, pick, item, f, s) = Step(f, s)
    <2> SUFFICES ASSUME NEW s \in SUBSET S, s # {}
                 PROVE  Folded("union", base, pick, item, f, s) = Step(f, s)
        BY Zenon DEF Folded
    <2>1. pick[s] = Pick(s) /\ item[pick[s]] = Pick(s)
        BY <1>1
    <2> HIDE DEF pick, item
    <2>2. Folded("union", base, pick, item, f, s) = Union(item[pick[s]], f[s \ {pick[s]}])
        BY Zenon DEF Folded, Apply
    <2> QED
        BY <2>1, <2>2, Zenon
<1>5. f = [s \in SUBSET S |-> Step(f, s)]
    <2> HIDE DEF Step, pick, item
    <2> QED
        BY <1>3, <1>4, Zenon DEF IsFold
<1>6. g = [s \in SUBSET S |-> Step(g, s)]
    <2> HIDE DEF Step
    <2> QED
        BY <1>5, Zenon
<1>7. FoldSet(Union, base, S) = g[S]
    BY DEF FoldSet, MapThenFoldSet
<1> HIDE DEF g
<1>8. \A s \in SUBSET S : g[s] = Step(g, s)
    <2> HIDE DEF Step
    <2> QED
        BY <1>6, Zenon
<1>9. g[{}] = base
    BY <1>8
<1>10. \A s \in SUBSET S : s # {} => \E p \in s : g[s] = Union(p, g[s \ {p}])
    BY <1>1, <1>8, Zenon
<1> QED
    BY <1>7, <1>9, <1>10, Zenon

LEMMA MaxIn ==
    ASSUME NEW n \in Nat, NEW s \in SUBSET (1 .. n), s # {}
    PROVE  Max(s) \in s /\ \A y \in s : Max(s) >= y
<1> DEFINE N == {n - x : x \in s}
<1>1. N \subseteq Nat /\ N # {}
    <2>1. \A x \in s : n - x \in Nat
        OBVIOUS
    <2>2. PICK x \in s : TRUE
        OBVIOUS
    <2>3. n - x \in N
        OBVIOUS
    <2> QED
        BY <2>1, <2>3
<1>2. PICK m \in N : \A k \in N : m <= k
    BY <1>1, LeastNumber
<1>3. PICK x \in s : m = n - x
    BY <1>2
<1>4. \A y \in s : x >= y
    <2> TAKE y \in s
    <2>1. n - y \in N
        OBVIOUS
    <2>2. n - x <= n - y
        BY <1>2, <1>3, <2>1
    <2> QED
        BY <2>2
<1> QED
    BY <1>4, Zenon DEF Max

\* A fold from the left, element by element.
LEMMA StepByStep ==
    ASSUME NEW n \in Nat, NEW what, NEW base, NEW pick, NEW item, NEW g,
           \A s \in SUBSET (1 .. n) : s # {} => pick[s] = Max(s),
           IsFold(1 .. n, what, base, pick, item, g)
    PROVE  /\ g[1 .. 0] = base
           /\ \A i \in 1 .. n : g[1 .. i] = Apply(what, item[i], g[1 .. (i - 1)])
<1>1. \A s \in SUBSET (1 .. n) : g[s] = Folded(what, base, pick, item, g, s)
    BY Zenon DEF IsFold
<1>2. g[1 .. 0] = base
    <2>1. (1 .. 0) \in SUBSET (1 .. n) /\ 1 .. 0 = {}
        OBVIOUS
    <2> QED
        BY <1>1, <2>1, Zenon DEF Folded
<1>3. ASSUME NEW i \in 1 .. n
      PROVE  g[1 .. i] = Apply(what, item[i], g[1 .. (i - 1)])
    <2>1. (1 .. i) \in SUBSET (1 .. n) /\ 1 .. i # {} /\ i \in 1 .. i
        OBVIOUS
    <2>2. Max(1 .. i) \in 1 .. i /\ Max(1 .. i) >= i
        BY <2>1, MaxIn
    <2>3. pick[1 .. i] = i
        BY <2>1, <2>2
    <2>4. (1 .. i) \ {i} = 1 .. (i - 1)
        OBVIOUS
    <2> QED
        BY <1>1, <2>1, <2>3, <2>4, Zenon DEF Folded
<1> QED
    BY <1>2, <1>3

BulkFolded(base, request) == FoldLeft(BulkStep, base, request)

LEMMA BulkFold ==
    ASSUME NEW n \in Nat, NEW request, DOMAIN request = 1 .. n, NEW base
    PROVE  \E h : /\ h[0] = base
                  /\ \A i \in 1 .. n : h[i] = BulkStep(h[i - 1], request[i])
                  /\ BulkFolded(base, request) = h[n]
<1> DEFINE Step(g, s) == IF s = {} THEN base
                         ELSE BulkStep(g[s \ {Max(s)}], request[Max(s)])
           pick == [s \in SUBSET (1 .. n) |-> Max(s)]
           g == CHOOSE f : f = [s \in SUBSET (1 .. n) |-> Step(f, s)]
           h == [i \in 0 .. n |-> g[1 .. i]]
<1>1. \A s \in SUBSET (1 .. n) : s # {} => pick[s] = Max(s) /\ pick[s] \in s
    BY MaxIn
<1>2. IsFiniteSet(1 .. n)
    BY FS_Interval
<1> HIDE DEF pick
<1>3. PICK f : IsFold(1 .. n, "bulk", base, pick, request, f)
    BY <1>1, <1>2, FoldDefined
<1>4. \A q : \A s \in SUBSET (1 .. n) : Folded("bulk", base, pick, request, q, s) = Step(q, s)
    BY <1>1, Zenon DEF Folded, Apply
<1>5. f = [s \in SUBSET (1 .. n) |-> Step(f, s)]
    <2> HIDE DEF Step
    <2> QED
        BY <1>3, <1>4, Zenon DEF IsFold
<1>6. g = [s \in SUBSET (1 .. n) |-> Step(g, s)]
    <2> HIDE DEF Step
    <2> QED
        BY <1>5, Zenon
<1>7. BulkFolded(base, request) = g[1 .. n]
    BY DEF BulkFolded, FoldLeft, MapThenFoldSet
<1> HIDE DEF g
<1>8. IsFold(1 .. n, "bulk", base, pick, request, g)
    <2> HIDE DEF Step
    <2> QED
        BY <1>4, <1>6, Zenon DEF IsFold
<1>9. /\ g[1 .. 0] = base
      /\ \A i \in 1 .. n : g[1 .. i] = Apply("bulk", request[i], g[1 .. (i - 1)])
    BY <1>1, <1>8, StepByStep
<1>10. \A i \in 1 .. n : Apply("bulk", request[i], g[1 .. (i - 1)])
                           = BulkStep(g[1 .. (i - 1)], request[i])
    BY Zenon DEF Apply
<1>11. h[0] = base /\ h[n] = g[1 .. n]
    BY <1>9
<1>12. \A i \in 1 .. n : h[i] = g[1 .. i] /\ h[i - 1] = g[1 .. (i - 1)]
    OBVIOUS
<1> HIDE DEF h
<1>13. \A i \in 1 .. n : h[i] = BulkStep(h[i - 1], request[i])
    BY <1>9, <1>10, <1>12, Zenon
<1> QED
    BY <1>7, <1>11, <1>13

AssertFolded(base, request) == FoldLeft(AssertStep, base, request)

LEMMA AssertFold ==
    ASSUME NEW n \in Nat, NEW request, DOMAIN request = 1 .. n, NEW base
    PROVE  \E h : /\ h[0] = base
                  /\ \A i \in 1 .. n : h[i] = AssertStep(h[i - 1], request[i])
                  /\ AssertFolded(base, request) = h[n]
<1> DEFINE Step(g, s) == IF s = {} THEN base
                         ELSE AssertStep(g[s \ {Max(s)}], request[Max(s)])
           pick == [s \in SUBSET (1 .. n) |-> Max(s)]
           g == CHOOSE f : f = [s \in SUBSET (1 .. n) |-> Step(f, s)]
           h == [i \in 0 .. n |-> g[1 .. i]]
<1>1. \A s \in SUBSET (1 .. n) : s # {} => pick[s] = Max(s) /\ pick[s] \in s
    BY MaxIn
<1>2. IsFiniteSet(1 .. n)
    BY FS_Interval
<1> HIDE DEF pick
<1>3. PICK f : IsFold(1 .. n, "assert", base, pick, request, f)
    BY <1>1, <1>2, FoldDefined
<1>4. \A q : \A s \in SUBSET (1 .. n) : Folded("assert", base, pick, request, q, s) = Step(q, s)
    BY <1>1, Zenon DEF Folded, Apply
<1>5. f = [s \in SUBSET (1 .. n) |-> Step(f, s)]
    <2> HIDE DEF Step
    <2> QED
        BY <1>3, <1>4, Zenon DEF IsFold
<1>6. g = [s \in SUBSET (1 .. n) |-> Step(g, s)]
    <2> HIDE DEF Step
    <2> QED
        BY <1>5, Zenon
<1>7. AssertFolded(base, request) = g[1 .. n]
    BY DEF AssertFolded, FoldLeft, MapThenFoldSet
<1> HIDE DEF g
<1>8. IsFold(1 .. n, "assert", base, pick, request, g)
    <2> HIDE DEF Step
    <2> QED
        BY <1>4, <1>6, Zenon DEF IsFold
<1>9. /\ g[1 .. 0] = base
      /\ \A i \in 1 .. n : g[1 .. i] = Apply("assert", request[i], g[1 .. (i - 1)])
    BY <1>1, <1>8, StepByStep
<1>10. \A i \in 1 .. n : Apply("assert", request[i], g[1 .. (i - 1)])
                           = AssertStep(g[1 .. (i - 1)], request[i])
    BY Zenon DEF Apply
<1>11. h[0] = base /\ h[n] = g[1 .. n]
    BY <1>9
<1>12. \A i \in 1 .. n : h[i] = g[1 .. i] /\ h[i - 1] = g[1 .. (i - 1)]
    OBVIOUS
<1> HIDE DEF h
<1>13. \A i \in 1 .. n : h[i] = AssertStep(h[i - 1], request[i])
    BY <1>9, <1>10, <1>12, Zenon
<1> QED
    BY <1>7, <1>11, <1>13

-----------------------------------------------------------------------------
(* References, pairs of them, and the least of a set. *)

LEMMA Sizes ==
    ASSUME NEW S \in SUBSET Refs
    PROVE  /\ Cardinality(S) > 1 <=> \E a, b \in S : a # b
           /\ Cardinality(S) = 1 <=> \E a \in S : S = {a}
           /\ Cardinality(S) = 2 <=> \E a, b \in S : a # b /\ S = {a, b}
           /\ Cardinality(S) \in Nat
<1>1. IsFiniteSet(S)
    BY RefsAssumption, FS_Subset
<1>2. Cardinality(S) \in Nat
    BY <1>1, FS_CardinalityType
<1>3. Cardinality(S) = 0 <=> S = {}
    BY <1>1, FS_EmptySet
<1>4. Cardinality(S) = 1 <=> \E a \in S : S = {a}
    BY <1>1, FS_Singleton
<1>5. \A a, b : Cardinality({a, b}) = IF a = b THEN 1 ELSE 2
    <2> TAKE a, b
    <2>1. IsFiniteSet({a}) /\ Cardinality({a}) = 1
        BY FS_Singleton
    <2>2. {a, b} = {a} \cup {b}
        OBVIOUS
    <2>3. Cardinality({a} \cup {b}) = IF b \in {a} THEN Cardinality({a}) ELSE Cardinality({a}) + 1
        BY <2>1, FS_AddElement
    <2> QED
        BY <2>1, <2>2, <2>3
<1>6. ASSUME NEW a \in S, NEW b \in S, a # b
      PROVE  Cardinality(S) > 1
    BY <1>2, <1>3, <1>4, <1>6
<1>7. ASSUME Cardinality(S) > 1
      PROVE  \E a, b \in S : a # b
    <2>1. S # {}
        BY <1>3, <1>7
    <2>2. PICK a \in S : TRUE
        BY <2>1
    <2>3. S # {a}
        BY <1>4, <1>7
    <2> QED
        BY <2>2, <2>3
<1>8. ASSUME Cardinality(S) = 2
      PROVE  \E a, b \in S : a # b /\ S = {a, b}
    <2>1. PICK a \in S, b \in S : a # b
        BY <1>7, <1>8
    <2>2. Cardinality({a, b}) = 2
        BY <2>1, <1>5, Zenon
    <2>3. {a, b} \in SUBSET S
        BY <2>1
    <2>4. S = {a, b}
        BY <2>2, <2>3, <1>1, <1>8, FS_Subset
    <2> QED
        BY <2>1, <2>4
<1>9. (\E a, b \in S : a # b /\ S = {a, b}) => Cardinality(S) = 2
    BY <1>5
<1> QED
    BY <1>2, <1>4, <1>6, <1>7, <1>8, <1>9

LEMMA PairForm ==
    \A p : p \in Pairs <=> \E a, b \in Refs : a # b /\ p = {a, b}
<1> TAKE p
<1>1. p \in Pairs <=> p \in SUBSET Refs /\ Cardinality(p) = 2
    BY DEF Pairs, kSubset
<1>2. ASSUME p \in Pairs PROVE \E a, b \in Refs : a # b /\ p = {a, b}
    BY <1>1, <1>2, Sizes
<1>3. ASSUME NEW a \in Refs, NEW b \in Refs, a # b, p = {a, b} PROVE p \in Pairs
    <2>1. p \in SUBSET Refs
        BY <1>3
    <2> QED
        BY <2>1, <1>1, <1>3, Sizes
<1> QED
    BY <1>2, <1>3

LEMMA PromisePairs == Promise!Pairs = Pairs /\ Promise!Assertions = Assertions
<1>1. \A p : p \in Promise!Pairs <=> \E a, b \in Refs : a # b /\ p = {a, b}
    BY DEF Promise!Pairs
<1>2. Promise!Pairs = Pairs
    BY <1>1, PairForm
<1> QED
    BY <1>2 DEF Promise!Assertions, Assertions

\* References are ordered by kind, then id, and every set of them has a least.
LEMMA LeastIn ==
    ASSUME NEW S \in SUBSET Refs, S # {}
    PROVE  Least(S) \in S
<1>1. \A r \in S : Kind(r) \in Nat /\ Id(r) \in Nat
    BY RefsAssumption DEF Kind, Id
<1> DEFINE K == {Kind(r) : r \in S}
<1>2. K \subseteq Nat /\ K # {}
    BY <1>1
<1>3. PICK k \in K : \A m \in K : k <= m
    BY <1>2, LeastNumber
<1> DEFINE I == {Id(r) : r \in {q \in S : Kind(q) = k}}
<1>4. I \subseteq Nat /\ I # {}
    BY <1>1, <1>3
<1>5. PICK i \in I : \A j \in I : i <= j
    BY <1>4, LeastNumber
<1>6. PICK r \in S : Kind(r) = k /\ Id(r) = i
    BY <1>5
<1>7. ASSUME NEW s \in S PROVE Precedes(r, s)
    <2>1. Kind(s) \in K /\ k <= Kind(s)
        BY <1>3
    <2>2. CASE Kind(s) = k
        <3>1. Id(s) \in I
            BY <2>2
        <3> QED
            BY <3>1, <1>5, <1>6, <2>2 DEF Precedes
    <2>3. CASE Kind(s) # k
        BY <2>1, <2>3, <1>1, <1>6 DEF Precedes
    <2> QED
        BY <2>2, <2>3
<1>8. \E q \in S : \A s \in S : Precedes(q, s)
    BY <1>7
<1> QED
    BY <1>8, Zenon DEF Least

-----------------------------------------------------------------------------
(* Reachability over a set of links. *)

Closed(links, set) == \A p \in links : p \cap set # {} => p \subseteq set

Reach(links, r) ==
    {s \in Refs : \A set \in SUBSET Refs : r \in set /\ Closed(links, set) => s \in set}

LEMMA ClassIsReach ==
    \A nodes, asserted, fold, r :
        Promise!Class(nodes, asserted, fold, r) = Reach(Promise!Links(nodes, asserted, fold), r)
BY DEF Promise!Class, Reach, Closed

\* A class is the least closed set around its reference.
LEMMA ReachLeast ==
    ASSUME NEW links \in SUBSET SUBSET Refs, NEW r \in Refs
    PROVE  /\ Reach(links, r) \in SUBSET Refs
           /\ r \in Reach(links, r)
           /\ Closed(links, Reach(links, r))
           /\ \A set \in SUBSET Refs :
                  r \in set /\ Closed(links, set) => Reach(links, r) \subseteq set
<1>1. Reach(links, r) \in SUBSET Refs /\ r \in Reach(links, r)
    BY DEF Reach
<1>2. \A set \in SUBSET Refs :
          r \in set /\ Closed(links, set) => Reach(links, r) \subseteq set
    BY DEF Reach
<1>3. ASSUME NEW p \in links, NEW x \in p \cap Reach(links, r), NEW y \in p
      PROVE  y \in Reach(links, r)
    <2>1. y \in Refs
        OBVIOUS
    <2>2. ASSUME NEW set \in SUBSET Refs, r \in set, Closed(links, set)
          PROVE  y \in set
        <3>1. x \in set
            BY <1>2, <2>2
        <3>2. p \subseteq set
            BY <3>1, <2>2 DEF Closed
        <3> QED
            BY <3>2
    <2> QED
        BY <2>1, <2>2 DEF Reach
<1>4. Closed(links, Reach(links, r))
    BY <1>3 DEF Closed
<1> QED
    BY <1>1, <1>2, <1>4

\* The complement of a closed set is closed.
LEMMA ClosedComplement ==
    ASSUME NEW links \in SUBSET SUBSET Refs, NEW set \in SUBSET Refs, Closed(links, set)
    PROVE  Closed(links, Refs \ set)
BY DEF Closed

\* Classes partition the references.
LEMMA ReachSame ==
    ASSUME NEW links \in SUBSET SUBSET Refs, NEW r \in Refs, NEW s \in Reach(links, r)
    PROVE  s \in Refs /\ Reach(links, s) = Reach(links, r)
<1>1. s \in Refs /\ Reach(links, s) \subseteq Reach(links, r)
    BY ReachLeast
<1>2. r \in Reach(links, s)
    <2> SUFFICES ASSUME r \notin Reach(links, s) PROVE FALSE
        OBVIOUS
    <2> DEFINE rest == Refs \ Reach(links, s)
    <2>1. rest \in SUBSET Refs /\ r \in rest /\ Closed(links, rest)
        BY <1>1, ReachLeast, ClosedComplement
    <2>2. Reach(links, r) \subseteq rest
        BY <2>1, ReachLeast
    <2>3. s \in Reach(links, s)
        BY <1>1, ReachLeast
    <2> QED
        BY <2>2, <2>3
<1>3. Reach(links, r) \subseteq Reach(links, s)
    BY <1>1, <1>2, ReachLeast
<1> QED
    BY <1>1, <1>3

LEMMA ReachMeets ==
    ASSUME NEW links \in SUBSET SUBSET Refs, NEW r \in Refs, NEW s \in Refs,
           Reach(links, r) \cap Reach(links, s) # {}
    PROVE  Reach(links, r) = Reach(links, s)
<1>1. PICK x \in Reach(links, r) : x \in Reach(links, s)
    OBVIOUS
<1> QED
    BY <1>1, ReachSame

\* Two references of one label are of one class.
LEMMA LabelsTellClasses ==
    ASSUME NEW links \in SUBSET SUBSET Refs, NEW r \in Refs, NEW s \in Refs
    PROVE  /\ Least(Reach(links, r)) \in Reach(links, r)
           /\ Least(Reach(links, r)) = Least(Reach(links, s)) <=> Reach(links, r) = Reach(links, s)
           /\ Reach(links, r) = Reach(links, s) <=> s \in Reach(links, r)
<1>1. Least(Reach(links, r)) \in Reach(links, r) /\ Least(Reach(links, s)) \in Reach(links, s)
    BY ReachLeast, LeastIn
<1>2. s \in Reach(links, s)
    BY ReachLeast
<1>3. Least(Reach(links, r)) = Least(Reach(links, s)) => Reach(links, r) = Reach(links, s)
    BY <1>1, ReachMeets
<1>4. s \in Reach(links, r) => Reach(links, r) = Reach(links, s)
    BY ReachSame
<1> QED
    BY <1>1, <1>2, <1>3, <1>4

\* Within a set closed under both, classes depend on the links that meet it.
LEMMA ReachWithin ==
    ASSUME NEW links \in SUBSET SUBSET Refs, NEW others \in SUBSET SUBSET Refs,
           NEW set \in SUBSET Refs, Closed(links, set), Closed(others, set),
           \A p : p \cap set # {} => (p \in links <=> p \in others),
           NEW r \in set
    PROVE  Reach(links, r) = Reach(others, r) /\ Reach(links, r) \subseteq set
<1>1. Reach(links, r) \subseteq set /\ Reach(others, r) \subseteq set
    BY ReachLeast
<1>2. Closed(others, Reach(links, r))
    <2> SUFFICES ASSUME NEW p \in others, p \cap Reach(links, r) # {}
                 PROVE  p \subseteq Reach(links, r)
        BY DEF Closed
    <2>1. p \in links
        BY <1>1
    <2> QED
        BY <2>1, ReachLeast DEF Closed
<1>3. Closed(links, Reach(others, r))
    <2> SUFFICES ASSUME NEW p \in links, p \cap Reach(others, r) # {}
                 PROVE  p \subseteq Reach(others, r)
        BY DEF Closed
    <2>1. p \in others
        BY <1>1
    <2> QED
        BY <2>1, ReachLeast DEF Closed
<1>4. r \in Refs
    OBVIOUS
<1>5. r \in Reach(links, r) /\ r \in Reach(others, r)
      /\ Reach(links, r) \in SUBSET Refs /\ Reach(others, r) \in SUBSET Refs
    BY <1>4, ReachLeast
<1>6. Reach(links, r) \subseteq Reach(others, r)
    BY <1>3, <1>4, <1>5, ReachLeast
<1>7. Reach(others, r) \subseteq Reach(links, r)
    BY <1>2, <1>4, <1>5, ReachLeast
<1> QED
    BY <1>1, <1>6, <1>7

\* With more links a class holds at least what it held.
LEMMA ReachGrows ==
    ASSUME NEW few \in SUBSET SUBSET Refs, NEW many \in SUBSET SUBSET Refs,
           few \subseteq many, NEW r \in Refs
    PROVE  Reach(few, r) \subseteq Reach(many, r)
<1>1. Closed(few, Reach(many, r))
    BY ReachLeast DEF Closed
<1>2. r \in Reach(many, r) /\ Reach(many, r) \in SUBSET Refs
    BY ReachLeast
<1> QED
    BY <1>1, <1>2, ReachLeast

\* A reference that no link touches is alone.
LEMMA ReachAlone ==
    ASSUME NEW links \in SUBSET SUBSET Refs, NEW r \in Refs,
           \A p \in links : r \notin p
    PROVE  Reach(links, r) = {r}
<1>1. Closed(links, {r})
    BY DEF Closed
<1>2. {r} \in SUBSET Refs
    OBVIOUS
<1>3. Reach(links, r) \subseteq {r}
    BY <1>1, <1>2, ReachLeast
<1> QED
    BY <1>3, ReachLeast

-----------------------------------------------------------------------------
(* The union-find computes classes. *)

Partition(parts, links, within) ==
    /\ UNION parts = within
    /\ \A P \in parts : P # {} /\ Closed(links, P)
    /\ \A P, Q \in parts : P \cap Q # {} => P = Q
    /\ \A P \in parts : \A set \in SUBSET Refs :
           Closed(links, set) /\ P \cap set # {} => P \subseteq set

Covers(parts, links, within) ==
    /\ within \in SUBSET Refs
    /\ links \in SUBSET SUBSET within
    /\ Partition(parts, links, within)

LEMMA UnionPartition ==
    ASSUME NEW within \in SUBSET Refs, NEW parts, NEW links, Partition(parts, links, within),
           NEW p \in SUBSET within, p # {}
    PROVE  Partition(Union(p, parts), links \cup {p}, within)
<1> DEFINE met == {P \in parts : P \cap p # {}}
           M == UNION met
           new == (parts \ met) \cup {M}
<1>1. Union(p, parts) = new
    BY DEF Union
<1>2. UNION new = within
    <2>1. UNION new \subseteq UNION parts
        OBVIOUS
    <2>2. UNION parts \subseteq UNION new
        OBVIOUS
    <2> QED
        BY <2>1, <2>2 DEF Partition
<1>3. p \subseteq M /\ M # {}
    <2>1. \A x \in p : \E P \in parts : x \in P
        BY DEF Partition
    <2> QED
        BY <2>1
<1>4. Closed(links \cup {p}, M)
    <2>1. Closed(links, M)
        BY DEF Closed, Partition
    <2> QED
        BY <2>1, <1>3 DEF Closed
<1>5. ASSUME NEW P \in parts \ met PROVE P # {} /\ Closed(links \cup {p}, P)
    BY <1>5 DEF Partition, Closed
<1>6. ASSUME NEW P \in parts \ met PROVE P \cap M = {}
    <2>1. \A Q \in met : P \cap Q = {}
        BY <1>6 DEF Partition
    <2> QED
        BY <2>1
<1>7. ASSUME NEW P \in new, NEW Q \in new, P \cap Q # {} PROVE P = Q
    <2> HIDE DEF M, met
    <2>1. CASE P \in parts \ met /\ Q \in parts \ met
        BY <1>7, <2>1 DEF Partition
    <2>2. CASE P = M \/ Q = M
        BY <1>6, <1>7, <2>2
    <2> QED
        BY <1>7, <2>1, <2>2
<1>8. ASSUME NEW P \in new, NEW set \in SUBSET Refs,
             Closed(links \cup {p}, set), P \cap set # {}
      PROVE  P \subseteq set
    <2>1. Closed(links, set) /\ (p \cap set # {} => p \subseteq set)
        BY <1>8 DEF Closed
    <2>2. \A Q \in parts : Q \cap set # {} => Q \subseteq set
        BY <2>1 DEF Partition
    <2>3. CASE P \in parts
        BY <1>8, <2>2, <2>3
    <2>4. CASE P = M
        <3>1. PICK Q \in met : Q \cap set # {}
            BY <1>8, <2>4
        <3>2. p \cap set # {}
            BY <2>2, <3>1
        <3>3. \A R \in met : R \cap set # {}
            BY <2>1, <3>2
        <3>4. \A R \in met : R \subseteq set
            BY <2>2, <3>3
        <3> QED
            BY <2>4, <3>4
    <2> QED
        BY <1>8, <2>3, <2>4
<1>9. \A P \in new : P # {} /\ Closed(links \cup {p}, P)
    BY <1>3, <1>4, <1>5
<1> HIDE DEF new
<1>10. \A P, Q \in new : P \cap Q # {} => P = Q
    BY <1>7
<1>11. \A P \in new : \A set \in SUBSET Refs :
           Closed(links \cup {p}, set) /\ P \cap set # {} => P \subseteq set
    BY <1>8
<1>12. Partition(new, links \cup {p}, within)
    BY <1>2, <1>9, <1>10, <1>11, Zenon DEF Partition
<1> QED
    BY <1>1, <1>12

\* A partition under the links names the class of every reference.
LEMMA PartsAreClasses ==
    ASSUME NEW parts, NEW links, NEW within, Covers(parts, links, within)
    PROVE  /\ \A r \in Refs : PartOf(parts, r) = Reach(links, r)
           /\ \A r \in within : Reach(links, r) \in parts
           /\ \A P \in parts : \A r \in P : r \in within /\ P = Reach(links, r)
           /\ \A P \in parts : P # {}
<1>1. links \in SUBSET SUBSET Refs /\ within \in SUBSET Refs
      /\ links \in SUBSET SUBSET within /\ Partition(parts, links, within)
    BY DEF Covers
<1>2. ASSUME NEW P \in parts, NEW r \in P PROVE r \in within /\ P = Reach(links, r)
    <2>1. r \in within /\ r \in Refs /\ P \in SUBSET Refs
        BY <1>1 DEF Partition
    <2>2. Reach(links, r) \subseteq P
        BY <2>1, <1>1, ReachLeast DEF Partition
    <2>3. r \in Reach(links, r) /\ Closed(links, Reach(links, r)) /\ Reach(links, r) \in SUBSET Refs
        BY <2>1, <1>1, ReachLeast
    <2>4. P \subseteq Reach(links, r)
        BY <2>3, <1>1 DEF Partition
    <2> QED
        BY <2>1, <2>2, <2>4
<1>3. ASSUME NEW r \in within PROVE Reach(links, r) \in parts /\ PartOf(parts, r) = Reach(links, r)
    <2>1. \E P \in parts : r \in P
        BY <1>1 DEF Partition
    <2> DEFINE P == CHOOSE Q \in parts : r \in Q
    <2>2. P \in parts /\ r \in P /\ PartOf(parts, r) = P
        BY <2>1 DEF PartOf
    <2> QED
        BY <2>2, <1>2
<1>4. ASSUME NEW r \in Refs \ within PROVE PartOf(parts, r) = Reach(links, r)
    <2>1. ~ \E P \in parts : r \in P
        BY <1>1 DEF Partition
    <2>2. Reach(links, r) = {r}
        BY <1>1, ReachAlone
    <2> QED
        BY <2>1, <2>2 DEF PartOf
<1>5. \A P \in parts : P # {}
    BY <1>1 DEF Partition
<1> QED
    BY <1>2, <1>3, <1>4, <1>5

\* The links of a fold, and those of `same` assertions.
FoldLinks(nodes, fold) ==
    {p \in Pairs : fold /\ p \subseteq nodes /\ \A r, s \in p : Id(r) = Id(s)}

PairsOf(asserted) == {a.pair : a \in asserted}

LEMMA ComponentsPartition ==
    ASSUME NEW nodes \in SUBSET Refs, NEW same \in SUBSET Assertions, NEW fold
    PROVE  LET within == nodes \cup Endpoints(same)
               links == FoldLinks(nodes, fold) \cup PairsOf(same)
           IN  Covers(Components(nodes, same, fold), links, within)
<1> DEFINE U == nodes \cup Endpoints(same)
           E == FoldLinks(nodes, fold) \cup PairsOf(same)
           alone == {{r} : r \in U}
<1>1. \A a \in same : a.pair \in Pairs /\ a.pair \in SUBSET U
    BY DEF Assertions, Endpoints
<1>2. \A p \in Pairs : p # {} /\ p \in SUBSET Refs
    BY PairForm
<1>3. E \in SUBSET SUBSET U /\ \A p \in E : p # {}
    BY <1>1, <1>2 DEF FoldLinks, PairsOf
<1>4. U \in SUBSET Refs
    BY <1>1, <1>2 DEF Endpoints
<1>5. IsFiniteSet(E)
    <2>1. E \in SUBSET SUBSET Refs
        BY <1>3, <1>4
    <2>2. IsFiniteSet(SUBSET Refs)
        BY RefsAssumption, FS_SUBSET
    <2> HIDE DEF E
    <2> QED
        BY <2>1, <2>2, FS_Subset
<1>6. Components(nodes, same, fold) = FoldSet(Union, alone, E)
    BY DEF Components, FoldLinks, PairsOf
<1> HIDE DEF E
<1>7. PICK g : /\ g[{}] = alone
               /\ \A s \in SUBSET E : s # {} => \E p \in s : g[s] = Union(p, g[s \ {p}])
               /\ FoldSet(Union, alone, E) = g[E]
    <2> HIDE DEF alone
    <2> QED
        BY <1>5, UnionFold
<1>8. Partition(alone, {}, U)
    BY <1>4 DEF Partition, Closed
<1> HIDE DEF alone
<1> DEFINE bad == {s \in SUBSET E : ~Partition(g[s], s, U)}
<1>9. bad = {}
    <2> SUFFICES ASSUME bad # {} PROVE FALSE
        OBVIOUS
    <2>1. bad \subseteq SUBSET E
        OBVIOUS
    <2>2. PICK s \in bad : \A t \in bad : t \subseteq s => t = s
        <3> HIDE DEF bad
        <3> QED
            BY <1>5, <2>1, LeastSubset
    <2>3. s # {}
        BY <1>7, <1>8
    <2>4. PICK p \in s : g[s] = Union(p, g[s \ {p}])
        BY <1>7, <2>3
    <2>5. s \ {p} \in SUBSET E /\ s \ {p} \notin bad
        BY <2>2, <2>4
    <2>6. Partition(g[s \ {p}], s \ {p}, U)
        BY <2>5
    <2>7. p \in SUBSET U /\ p # {}
        BY <1>3
    <2> HIDE DEF U
    <2>8. Partition(g[s], (s \ {p}) \cup {p}, U)
        BY <1>4, <2>4, <2>6, <2>7, UnionPartition
    <2>9. (s \ {p}) \cup {p} = s
        OBVIOUS
    <2> QED
        BY <2>8, <2>9
<1>10. Partition(g[E], E, U)
    BY <1>9
<1>11. Covers(g[E], E, U)
    BY <1>3, <1>4, <1>10 DEF Covers
<1> QED
    BY <1>6, <1>7, <1>11 DEF E

-----------------------------------------------------------------------------
(* Drafts, and what the derived tables hold when they are current. *)

IsDraft(D) ==
    D = [live |-> D.live, kinds |-> D.kinds, ledger |-> D.ledger, folds |-> D.folds,
         closure |-> D.closure, separation |-> D.separation, verdict |-> D.verdict]

LEMMA Updates ==
    ASSUME NEW D, IsDraft(D), NEW x
    PROVE  /\ [D EXCEPT !.ledger = x] =
                  [live |-> D.live, kinds |-> D.kinds, ledger |-> x, folds |-> D.folds,
                   closure |-> D.closure, separation |-> D.separation, verdict |-> D.verdict]
           /\ [D EXCEPT !.closure = x] =
                  [live |-> D.live, kinds |-> D.kinds, ledger |-> D.ledger, folds |-> D.folds,
                   closure |-> x, separation |-> D.separation, verdict |-> D.verdict]
           /\ [D EXCEPT !.separation = x] =
                  [live |-> D.live, kinds |-> D.kinds, ledger |-> D.ledger, folds |-> D.folds,
                   closure |-> D.closure, separation |-> x, verdict |-> D.verdict]
           /\ [D EXCEPT !.verdict = x] =
                  [live |-> D.live, kinds |-> D.kinds, ledger |-> D.ledger, folds |-> D.folds,
                   closure |-> D.closure, separation |-> D.separation, verdict |-> x]
BY DEF IsDraft

Known(D) == OfKinds(D.live, D.kinds)
Differents(D) == Relating(D.ledger, "different")
TrueLinks(D) == Promise!Links(Known(D), D.ledger, D.folds)

\* What a draft is whatever its tables say: rows of references, assertions
\* about live nodes of known kinds.
Sound(D) ==
    /\ IsDraft(D)
    /\ D.live \in SUBSET Refs
    /\ D.ledger \in SUBSET Assertions
    /\ D.folds \in BOOLEAN
    /\ Endpoints(D.ledger) \subseteq Known(D)

ClosureTable(links) ==
    [r \in {x \in Refs : Cardinality(Reach(links, x)) > 1} |-> Least(Reach(links, r))]

Keys(links, asserted) == {{Least(Reach(links, r)) : r \in a.pair} : a \in asserted}

Current(D) ==
    /\ Sound(D)
    /\ D.closure = ClosureTable(TrueLinks(D))
    /\ D.separation = Keys(TrueLinks(D), Differents(D))

LEMMA LinksForm ==
    ASSUME NEW nodes \in SUBSET Refs, NEW asserted \in SUBSET Assertions, NEW fold
    PROVE  /\ Promise!Links(nodes, asserted, fold)
                  = FoldLinks(nodes, fold) \cup PairsOf(Relating(asserted, "same"))
           /\ Promise!Links(nodes, asserted, fold) \in SUBSET Pairs
           /\ Promise!Links(nodes, asserted, fold) \in SUBSET SUBSET Refs
           /\ \A p \in Promise!Links(nodes, asserted, fold) : p # {}
           /\ Endpoints(asserted) \subseteq nodes =>
                  Promise!Links(nodes, asserted, fold) \in SUBSET SUBSET nodes
<1>1. Promise!Links(nodes, asserted, fold)
          = FoldLinks(nodes, fold) \cup PairsOf(Relating(asserted, "same"))
    BY PromisePairs DEF Promise!Links, FoldLinks, PairsOf, Relating, Id
<1>2. \A a \in asserted : a.pair \in Pairs
    BY DEF Assertions
<1>3. Promise!Links(nodes, asserted, fold) \in SUBSET Pairs
    BY <1>1, <1>2 DEF FoldLinks, PairsOf, Relating
<1>4. \A p \in Pairs : p # {} /\ p \in SUBSET Refs
    BY PairForm
<1>5. Endpoints(asserted) \subseteq nodes =>
          Promise!Links(nodes, asserted, fold) \in SUBSET SUBSET nodes
    <2> SUFFICES ASSUME Endpoints(asserted) \subseteq nodes,
                        NEW p \in Promise!Links(nodes, asserted, fold)
                 PROVE  p \subseteq nodes
        OBVIOUS
    <2>1. CASE p \in FoldLinks(nodes, fold)
        BY <2>1 DEF FoldLinks
    <2>2. CASE p \in PairsOf(Relating(asserted, "same"))
        BY <2>2 DEF PairsOf, Relating, Endpoints
    <2> QED
        BY <1>1, <2>1, <2>2
<1> QED
    BY <1>1, <1>3, <1>4, <1>5

LEMMA SoundLinks ==
    ASSUME NEW D, Sound(D)
    PROVE  /\ Known(D) \in SUBSET Refs
           /\ TrueLinks(D) \in SUBSET Pairs
           /\ TrueLinks(D) \in SUBSET SUBSET Refs
           /\ TrueLinks(D) \in SUBSET SUBSET Known(D)
           /\ \A p \in TrueLinks(D) : p # {}
           /\ TrueLinks(D) = FoldLinks(Known(D), D.folds) \cup PairsOf(Relating(D.ledger, "same"))
           /\ \A a \in D.ledger : a.pair \in Pairs /\ a.pair \subseteq Known(D) /\ a.pair \subseteq Refs
           /\ Closed(TrueLinks(D), Known(D))
<1>1. Known(D) \in SUBSET Refs
    BY DEF Sound, Known, OfKinds
<1>2. D.ledger \in SUBSET Assertions /\ Endpoints(D.ledger) \subseteq Known(D)
    BY DEF Sound
<1>3. /\ TrueLinks(D) \in SUBSET Pairs
      /\ TrueLinks(D) \in SUBSET SUBSET Refs
      /\ TrueLinks(D) \in SUBSET SUBSET Known(D)
      /\ \A p \in TrueLinks(D) : p # {}
      /\ TrueLinks(D) = FoldLinks(Known(D), D.folds) \cup PairsOf(Relating(D.ledger, "same"))
    BY <1>1, <1>2, LinksForm DEF TrueLinks
<1>4. \A a \in D.ledger : a.pair \in Pairs /\ a.pair \subseteq Known(D) /\ a.pair \subseteq Refs
    BY <1>1, <1>2 DEF Assertions, Endpoints
<1>5. Closed(TrueLinks(D), Known(D))
    BY <1>3 DEF Closed
<1> QED
    BY <1>1, <1>3, <1>4, <1>5

\* Reading a closure table gives the classes of the links it was made from.
LEMMA ClosureReads ==
    ASSUME NEW D, NEW links \in SUBSET SUBSET Refs, D.closure = ClosureTable(links), NEW r \in Refs
    PROVE  /\ Anchor(D, r) = Least(Reach(links, r))
           /\ ClassOf(D, r) = Reach(links, r)
<1>1. DOMAIN D.closure = {x \in Refs : Cardinality(Reach(links, x)) > 1}
    BY DEF ClosureTable
<1>2. \A m \in DOMAIN D.closure : D.closure[m] = Least(Reach(links, m))
    BY <1>1 DEF ClosureTable
<1>3. r \in Reach(links, r) /\ Reach(links, r) \in SUBSET Refs
    BY ReachLeast
<1>4. Cardinality(Reach(links, r)) > 1 \/ Reach(links, r) = {r}
    BY <1>3, Sizes
<1>5. Anchor(D, r) = Least(Reach(links, r))
    <2>1. CASE r \in DOMAIN D.closure
        BY <1>2, <2>1 DEF Anchor
    <2>2. CASE r \notin DOMAIN D.closure
        <3>1. Reach(links, r) = {r}
            BY <1>1, <1>4, <2>2
        <3>2. Least(Reach(links, r)) \in Reach(links, r)
            BY <1>3, LeastIn
        <3> QED
            BY <2>2, <3>1, <3>2 DEF Anchor
    <2> QED
        BY <2>1, <2>2
<1> DEFINE rows == {m \in DOMAIN D.closure : D.closure[m] = Anchor(D, r)}
<1>6. \A m \in Refs : Least(Reach(links, m)) = Least(Reach(links, r)) <=> m \in Reach(links, r)
    BY LabelsTellClasses
<1>7. \A m \in Reach(links, r) : Reach(links, m) = Reach(links, r)
    BY ReachSame
<1>8. rows = {m \in DOMAIN D.closure : m \in Reach(links, r)}
    BY <1>1, <1>2, <1>5, <1>6
<1>9. CASE Cardinality(Reach(links, r)) > 1
    <2>1. \A m \in Reach(links, r) : m \in DOMAIN D.closure
        BY <1>1, <1>3, <1>7, <1>9
    <2>2. rows = Reach(links, r)
        BY <1>8, <2>1
    <2> QED
        BY <1>3, <1>5, <2>2 DEF ClassOf
<1>10. CASE ~(Cardinality(Reach(links, r)) > 1)
    <2>1. Reach(links, r) = {r} /\ r \notin DOMAIN D.closure
        BY <1>1, <1>4, <1>10
    <2>2. rows = {}
        BY <1>8, <2>1
    <2> QED
        BY <1>5, <2>1, <2>2 DEF ClassOf
<1> QED
    BY <1>5, <1>9, <1>10

LEMMA ClassesRead ==
    ASSUME NEW D, NEW links \in SUBSET SUBSET Refs, D.closure = ClosureTable(links),
           NEW set \in SUBSET Refs
    PROVE  /\ ClassesOf(D, set) = UNION {Reach(links, r) : r \in set}
           /\ ClassesOf(D, set) \in SUBSET Refs
           /\ set \subseteq ClassesOf(D, set)
           /\ Closed(links, ClassesOf(D, set))
           /\ \A around \in SUBSET Refs :
                  set \subseteq around /\ Closed(links, around) => ClassesOf(D, set) \subseteq around
<1>1. \A r \in set : ClassOf(D, r) = Reach(links, r)
    BY ClosureReads
<1>2. ClassesOf(D, set) = UNION {Reach(links, r) : r \in set}
    BY <1>1 DEF ClassesOf
<1>3. \A r \in set : /\ r \in Reach(links, r) /\ Reach(links, r) \in SUBSET Refs
                     /\ Closed(links, Reach(links, r))
    BY ReachLeast
<1>4. Closed(links, ClassesOf(D, set))
    BY <1>2, <1>3 DEF Closed
<1>5. \A around \in SUBSET Refs :
          set \subseteq around /\ Closed(links, around) => ClassesOf(D, set) \subseteq around
    <2> SUFFICES ASSUME NEW around \in SUBSET Refs, set \subseteq around, Closed(links, around),
                        NEW r \in set
                 PROVE  Reach(links, r) \subseteq around
        BY <1>2
    <2> QED
        BY ReachLeast
<1> QED
    BY <1>2, <1>3, <1>4, <1>5

-----------------------------------------------------------------------------
(* Contradictions, by links. *)

Contra(links, asserted) ==
    \/ \E r \in Refs : \E s \in Reach(links, r) : {r[1], s[1]} \in Disjoint
    \/ \E a \in asserted : a.rel = "different" /\ \E r \in a.pair : a.pair \subseteq Reach(links, r)

LEMMA ContradictoryForm ==
    ASSUME NEW nodes, NEW asserted \in SUBSET Assertions, NEW fold
    PROVE  Promise!Contradictory(nodes, asserted, fold)
               <=> Contra(Promise!Links(nodes, asserted, fold), asserted)
<1> DEFINE links == Promise!Links(nodes, asserted, fold)
           C == [r \in Refs |-> Promise!Class(nodes, asserted, fold, r)]
<1>1. \A r \in Refs : C[r] = Reach(links, r)
    BY ClassIsReach
<1>2. \A a \in asserted : a.pair \in SUBSET Refs
    BY PairForm DEF Assertions
<1>3. Promise!Contradictory(nodes, asserted, fold) <=>
          \/ \E r \in Refs : \E s \in C[r] : {r[1], s[1]} \in Disjoint
          \/ \E a \in asserted : a.rel = "different" /\ \E r \in a.pair : a.pair \subseteq C[r]
    BY DEF Promise!Contradictory
<1> HIDE DEF C, links
<1>4. (\E r \in Refs : \E s \in C[r] : {r[1], s[1]} \in Disjoint) <=>
      (\E r \in Refs : \E s \in Reach(links, r) : {r[1], s[1]} \in Disjoint)
    BY <1>1
<1>5. \A a \in asserted : (\E r \in a.pair : a.pair \subseteq C[r]) <=>
                          (\E r \in a.pair : a.pair \subseteq Reach(links, r))
    BY <1>1, <1>2
<1> QED
    BY <1>3, <1>4, <1>5 DEF Contra, links

\* What contradicts still does when links and assertions are added.
LEMMA ContraGrows ==
    ASSUME NEW few \in SUBSET SUBSET Refs, NEW many \in SUBSET SUBSET Refs, few \subseteq many,
           NEW old, NEW new \in SUBSET Assertions, old \subseteq new, Contra(few, old)
    PROVE  Contra(many, new)
<1>1. \A r \in Refs : Reach(few, r) \subseteq Reach(many, r)
    BY ReachGrows
<1>2. \A a \in new : a.pair \in SUBSET Refs
    BY PairForm DEF Assertions
<1>3. CASE \E r \in Refs : \E s \in Reach(few, r) : {r[1], s[1]} \in Disjoint
    BY <1>1, <1>3 DEF Contra
<1>4. CASE \E a \in old : a.rel = "different" /\ \E r \in a.pair : a.pair \subseteq Reach(few, r)
    <2>1. PICK a \in old : a.rel = "different" /\ \E r \in a.pair : a.pair \subseteq Reach(few, r)
        BY <1>4
    <2>2. PICK r \in a.pair : a.pair \subseteq Reach(few, r)
        BY <2>1
    <2>3. a \in new /\ a.pair \subseteq Reach(many, r)
        BY <1>1, <1>2, <2>2
    <2> QED
        BY <2>1, <2>2, <2>3 DEF Contra
<1> QED
    BY <1>3, <1>4 DEF Contra

\* The two ends of a pair have two labels unless they are of one class.
LEMMA KeyOfPair ==
    ASSUME NEW links \in SUBSET SUBSET Refs, NEW p \in Pairs
    PROVE  /\ Cardinality({Least(Reach(links, r)) : r \in p}) = 2
                  <=> ~ \E r \in p : p \subseteq Reach(links, r)
           /\ \A x \in {Least(Reach(links, r)) : r \in p} : x \in Refs
<1>1. PICK x \in Refs, y \in Refs : x # y /\ p = {x, y}
    BY PairForm
<1> DEFINE key == {Least(Reach(links, r)) : r \in p}
<1>2. key = {Least(Reach(links, x)), Least(Reach(links, y))}
    BY <1>1
<1>3. Least(Reach(links, x)) \in Refs /\ Least(Reach(links, y)) \in Refs
    BY ReachLeast, LabelsTellClasses
<1>4. key \in SUBSET Refs
    BY <1>2, <1>3
<1>5. Cardinality(key) = 2 <=> Least(Reach(links, x)) # Least(Reach(links, y))
    <2> HIDE DEF key
    <2>1. Cardinality(key) = 2 <=> \E a, b \in key : a # b /\ key = {a, b}
        BY <1>4, Sizes
    <2> QED
        BY <1>2, <2>1
<1>6. (\E r \in p : p \subseteq Reach(links, r)) <=> Reach(links, x) = Reach(links, y)
    <2>1. x \in Reach(links, x) /\ y \in Reach(links, y)
        BY ReachLeast
    <2>2. y \in Reach(links, x) <=> Reach(links, x) = Reach(links, y)
        BY LabelsTellClasses
    <2>3. x \in Reach(links, y) <=> Reach(links, y) = Reach(links, x)
        BY LabelsTellClasses
    <2> QED
        BY <1>1, <2>1, <2>2, <2>3
<1>7. Least(Reach(links, x)) = Least(Reach(links, y)) <=> Reach(links, x) = Reach(links, y)
    BY LabelsTellClasses
<1> QED
    BY <1>4, <1>5, <1>6, <1>7

-----------------------------------------------------------------------------
(* Rewriting the separation table. *)

LEMMA MembersForm ==
    ASSUME NEW D, IsDraft(D), NEW members
    PROVE  LET keys == {{Anchor(D, r) : r \in a.pair} : a \in Touching(Differents(D), members)}
           IN  ReplaceSeparationForMembers(D, members) =
                   [live |-> D.live, kinds |-> D.kinds, ledger |-> D.ledger, folds |-> D.folds,
                    closure |-> D.closure,
                    separation |-> {p \in D.separation : p \cap members = {}} \cup keys,
                    verdict |-> IF \A p \in keys : Cardinality(p) = 2 THEN D.verdict ELSE "aborted"]
<1> DEFINE keys == {{Anchor(D, r) : r \in a.pair} : a \in Touching(Differents(D), members)}
           left == {p \in D.separation : p \cap members = {}}
           Row(x, v) == [live |-> D.live, kinds |-> D.kinds, ledger |-> D.ledger, folds |-> D.folds,
                         closure |-> D.closure, separation |-> x, verdict |-> v]
           kept == [D EXCEPT !.separation = left]
           put == [kept EXCEPT !.separation = @ \cup keys]
<1>1. ReplaceSeparationForMembers(D, members) =
          IF \A p \in keys : Cardinality(p) = 2 THEN put ELSE [put EXCEPT !.verdict = "aborted"]
    BY DEF ReplaceSeparationForMembers, InsertSeparation, Guarded, Differents
<1> HIDE DEF keys, left
<1>2. kept = Row(left, D.verdict)
    BY Updates
<1>3. put = Row(left \cup keys, D.verdict)
    <2>1. \A x, y : [Row(x, D.verdict) EXCEPT !.separation = y] = Row(y, D.verdict)
        OBVIOUS
    <2>2. kept.separation = left
        BY <1>2
    <2> HIDE DEF kept, Row
    <2> QED
        BY <1>2, <2>1, <2>2
<1>4. [put EXCEPT !.verdict = "aborted"] = Row(left \cup keys, "aborted")
    <2>1. \A x, v, w : [Row(x, v) EXCEPT !.verdict = w] = Row(x, w)
        OBVIOUS
    <2> HIDE DEF put, Row
    <2> QED
        BY <1>3, <2>1
<1>5. ReplaceSeparationForMembers(D, members)
          = Row(left \cup keys, IF \A p \in keys : Cardinality(p) = 2 THEN D.verdict ELSE "aborted")
    <2> HIDE DEF put, Row
    <2> QED
        BY <1>1, <1>3, <1>4
<1> QED
    BY <1>5 DEF keys, left

\* The rows outside the members were right under the labels before; those of
\* the members are written again.
\* What rewriting does to a draft: the closure is that of the links, the
\* separation rows are those of the assertions N.
Rewritten(D, E, N) ==
    /\ Sound(E)
    /\ E.live = D.live /\ E.kinds = D.kinds /\ E.ledger = D.ledger /\ E.folds = D.folds
    /\ E.closure = ClosureTable(TrueLinks(D))
    /\ E.separation = Keys(TrueLinks(D), N)
    /\ E.verdict \in {D.verdict, "aborted"}
    /\ ~Contra(TrueLinks(D), D.ledger) => E.verdict = D.verdict

\* Where the rows are not those of a member, they are left as they were.
Mixed(D, M, members) ==
    {a \in M : a.pair \cap members = {}} \cup Touching(Differents(D), members)

\* The separation rows are those of the pairs of M under the labels `anchor`,
\* which outside the members are right already.
Separates(D, anchor, M, members) ==
    /\ Sound(D)
    /\ D.closure = ClosureTable(TrueLinks(D))
    /\ M \in SUBSET Assertions
    /\ D.separation = {{anchor[r] : r \in a.pair} : a \in M}
    /\ members \in SUBSET Refs
    /\ Closed(TrueLinks(D), members)
    /\ \A r \in Refs : anchor[r] \in members <=> r \in members
    /\ \A r \in Refs \ members : anchor[r] = Least(Reach(TrueLinks(D), r))

LEMMA SeparationRepaired ==
    ASSUME NEW D, NEW anchor, NEW M, NEW members, Separates(D, anchor, M, members)
    PROVE  Rewritten(D, ReplaceSeparationForMembers(D, members), Mixed(D, M, members))
<1> DEFINE E == ReplaceSeparationForMembers(D, members)
<1> DEFINE links == TrueLinks(D)
           owed == Touching(Differents(D), members)
           keys == {{Anchor(D, r) : r \in a.pair} : a \in owed}
           kept == {p \in D.separation : p \cap members = {}}
           outside == {a \in M : a.pair \cap members = {}}
<1>0. /\ Sound(D)
      /\ D.closure = ClosureTable(TrueLinks(D))
      /\ M \in SUBSET Assertions
      /\ D.separation = {{anchor[r] : r \in a.pair} : a \in M}
      /\ members \in SUBSET Refs
      /\ Closed(TrueLinks(D), members)
      /\ \A r \in Refs : anchor[r] \in members <=> r \in members
      /\ \A r \in Refs \ members : anchor[r] = Least(Reach(TrueLinks(D), r))
    BY DEF Separates
<1>1. IsDraft(D)
    BY <1>0 DEF Sound
<1>2. E = [live |-> D.live, kinds |-> D.kinds, ledger |-> D.ledger, folds |-> D.folds,
           closure |-> D.closure, separation |-> kept \cup keys,
           verdict |-> IF \A p \in keys : Cardinality(p) = 2 THEN D.verdict ELSE "aborted"]
    BY <1>1, MembersForm
<1>3. links \in SUBSET SUBSET Refs /\ \A a \in Differents(D) : a.pair \in Pairs /\ a.pair \subseteq Refs
    BY <1>0, SoundLinks DEF Differents, Relating
<1>4. \A r \in Refs : Anchor(D, r) = Least(Reach(links, r))
    BY <1>0, <1>3, ClosureReads
<1>5. keys = Keys(links, owed)
    <2>1. \A a \in owed : {Anchor(D, r) : r \in a.pair} = {Least(Reach(links, r)) : r \in a.pair}
        BY <1>3, <1>4 DEF Touching
    <2> HIDE DEF owed
    <2> QED
        BY <2>1 DEF Keys
<1>6. kept = Keys(links, outside)
    <2>1. \A a \in Assertions : a.pair \in SUBSET Refs
        BY PairForm DEF Assertions
    <2>2. \A a \in M : {anchor[r] : r \in a.pair} \cap members = {} <=> a.pair \cap members = {}
        BY <2>1, <1>0
    <2>3. \A a \in Assertions : a.pair \cap members = {} =>
              {anchor[r] : r \in a.pair} = {Least(Reach(links, r)) : r \in a.pair}
        BY <2>1, <1>0
    <2>5. outside \in SUBSET Assertions
        BY <1>0
    <2>6. kept = {{anchor[r] : r \in a.pair} : a \in {b \in M : b.pair \cap members = {}}}
        BY <1>0, <2>2
    <2>7. \A a \in outside : {anchor[r] : r \in a.pair} = {Least(Reach(links, r)) : r \in a.pair}
        BY <2>3, <2>5
    <2>8. kept = {{anchor[r] : r \in a.pair} : a \in outside}
        BY <2>6, Zenon
    <2> HIDE DEF links, outside, kept
    <2> QED
        BY <2>7, <2>8 DEF Keys
<1>7. owed \cup outside = Mixed(D, M, members)
    BY DEF Mixed
<1>8. kept \cup keys = Keys(links, Mixed(D, M, members))
    <2> HIDE DEF links, outside, owed, kept, keys
    <2> QED
        BY <1>5, <1>6, <1>7 DEF Keys
<1> HIDE DEF kept, keys, E
<1>9. /\ E.live = D.live /\ E.kinds = D.kinds /\ E.ledger = D.ledger /\ E.folds = D.folds
      /\ E.closure = D.closure /\ E.separation = kept \cup keys /\ IsDraft(E)
      /\ E.verdict = IF \A p \in keys : Cardinality(p) = 2 THEN D.verdict ELSE "aborted"
    BY <1>2 DEF IsDraft
<1>10. Sound(E)
    BY <1>0, <1>9 DEF Sound, Known
<1>12. ASSUME ~Contra(TrueLinks(D), D.ledger), NEW p \in keys PROVE Cardinality(p) = 2
    <2>1. PICK a \in owed : p = {Least(Reach(links, r)) : r \in a.pair}
        BY <1>5, <1>12 DEF Keys
    <2>2. a \in D.ledger /\ a.rel = "different" /\ a.pair \in Pairs
        BY <1>3, <2>1 DEF Touching, Differents, Relating
    <2>3. ~ \E r \in a.pair : a.pair \subseteq Reach(links, r)
        BY <1>12, <2>2 DEF Contra
    <2> QED
        BY <1>3, <2>1, <2>2, <2>3, KeyOfPair
<1> QED
    BY <1>0, <1>8, <1>9, <1>10, <1>12 DEF E, Rewritten

\* The rest of the separation table is right: the draft is repaired.
Repaired(D, E) ==
    /\ Current(E)
    /\ E.live = D.live /\ E.kinds = D.kinds /\ E.ledger = D.ledger /\ E.folds = D.folds
    /\ E.verdict \in {D.verdict, "aborted"}
    /\ ~Contra(TrueLinks(D), D.ledger) => E.verdict = D.verdict

LEMMA RewrittenWhole ==
    ASSUME NEW D, Sound(D), NEW E, NEW M \in SUBSET Assertions, NEW members,
           Rewritten(D, E, Mixed(D, M, members)),
           \A a \in Assertions : a.pair \cap members = {} => (a \in M <=> a \in Differents(D))
    PROVE  Repaired(D, E)
<1>1. Differents(D) \in SUBSET Assertions
    BY DEF Differents, Relating, Sound
<1>2. Mixed(D, M, members) = Differents(D)
    BY <1>1 DEF Mixed, Touching
<1>3. TrueLinks(E) = TrueLinks(D) /\ Differents(E) = Differents(D)
    BY DEF Rewritten, TrueLinks, Differents, Known
<1> QED
    BY <1>2, <1>3 DEF Rewritten, Repaired, Current

-----------------------------------------------------------------------------
(* Rewriting the closure table. *)

LEMMA InsertClosureForm ==
    ASSUME NEW D, IsDraft(D), NEW parts
    PROVE  LET classes == {P \in parts : Cardinality(P) > 1}
               rows == UNION classes
           IN  InsertClosure(D, parts) =
                   [live |-> D.live, kinds |-> D.kinds, ledger |-> D.ledger, folds |-> D.folds,
                    closure |-> [r \in DOMAIN D.closure \cup rows |->
                                     IF r \in rows THEN Least(PartOf(classes, r)) ELSE D.closure[r]],
                    separation |-> D.separation,
                    verdict |-> IF rows \cap DOMAIN D.closure = {} THEN D.verdict ELSE "aborted"]
<1> DEFINE classes == {P \in parts : Cardinality(P) > 1}
           rows == UNION classes
           table == [r \in DOMAIN D.closure \cup rows |->
                         IF r \in rows THEN Least(PartOf(classes, r)) ELSE D.closure[r]]
           Row(x, v) == [live |-> D.live, kinds |-> D.kinds, ledger |-> D.ledger, folds |-> D.folds,
                         closure |-> x, separation |-> D.separation, verdict |-> v]
           put == [D EXCEPT !.closure = table]
<1>1. InsertClosure(D, parts) = IF rows \cap DOMAIN D.closure = {} THEN put
                                ELSE [put EXCEPT !.verdict = "aborted"]
    BY DEF InsertClosure, Guarded
<1> HIDE DEF rows, table
<1>2. put = Row(table, D.verdict)
    BY Updates
<1>3. [put EXCEPT !.verdict = "aborted"] = Row(table, "aborted")
    <2>1. \A x, v, w : [Row(x, v) EXCEPT !.verdict = w] = Row(x, w)
        OBVIOUS
    <2> HIDE DEF put, Row
    <2> QED
        BY <1>2, <2>1
<1>4. InsertClosure(D, parts)
          = Row(table, IF rows \cap DOMAIN D.closure = {} THEN D.verdict ELSE "aborted")
    <2> HIDE DEF put, Row
    <2> QED
        BY <1>1, <1>2, <1>3
<1> QED
    BY <1>4 DEF rows, table

\* The classes of the parts of two or more, and the rows they make.
LEMMA RowsOfParts ==
    ASSUME NEW parts, NEW links, NEW within, Covers(parts, links, within)
    PROVE  LET classes == {P \in parts : Cardinality(P) > 1}
               rows == UNION classes
           IN  /\ rows = {r \in Refs : Cardinality(Reach(links, r)) > 1}
               /\ rows \subseteq within
               /\ \A r \in rows : PartOf(classes, r) = Reach(links, r)
<1> DEFINE classes == {P \in parts : Cardinality(P) > 1}
           rows == UNION classes
<1>1. links \in SUBSET SUBSET Refs /\ within \in SUBSET Refs /\ links \in SUBSET SUBSET within
    BY DEF Covers
<1>2. /\ \A P \in parts : \A r \in P : r \in within /\ P = Reach(links, r)
      /\ \A r \in within : Reach(links, r) \in parts
    <2> HIDE DEF rows, classes
    <2> QED
        BY PartsAreClasses
<1>3. \A r \in within : Reach(links, r) \in parts
    BY <1>2
<1>4. ASSUME NEW r \in rows PROVE r \in within /\ Cardinality(Reach(links, r)) > 1
    <2>1. PICK P \in classes : r \in P
        OBVIOUS
    <2> QED
        BY <1>2, <2>1
<1>5. ASSUME NEW r \in Refs, Cardinality(Reach(links, r)) > 1 PROVE r \in rows
    <2>1. r \in within
        <3> SUFFICES ASSUME r \notin within PROVE FALSE
            OBVIOUS
        <3>1. Reach(links, r) = {r}
            BY <1>1, ReachAlone
        <3>2. {r} \in SUBSET Refs /\ ~ \E a, b \in {r} : a # b
            OBVIOUS
        <3> QED
            BY <1>5, <3>1, <3>2, Sizes
    <2>2. Reach(links, r) \in classes
        BY <1>3, <1>5, <2>1
    <2>3. r \in Reach(links, r)
        BY <1>1, ReachLeast
    <2> QED
        BY <2>2, <2>3
<1>6. ASSUME NEW r \in rows PROVE PartOf(classes, r) = Reach(links, r)
    <2>1. \E P \in classes : r \in P
        OBVIOUS
    <2> DEFINE P == CHOOSE Q \in classes : r \in Q
    <2>2. P \in classes /\ r \in P
        BY <2>1
    <2>3. PartOf(classes, r) = P
        BY <2>1 DEF PartOf
    <2> HIDE DEF P
    <2> QED
        BY <1>2, <2>2, <2>3
<1> QED
    BY <1>1, <1>4, <1>5, <1>6

\* The classes of the references in `set` as the table still has them hold all
\* that changed: elsewhere links and `different` assertions are as they were.
Closures(D, old, M, set, area) ==
    /\ Sound(D)
    /\ old \in SUBSET SUBSET Refs
    /\ D.closure = ClosureTable(old)
    /\ M \in SUBSET Assertions
    /\ D.separation = Keys(old, M)
    /\ set \in SUBSET Refs
    /\ set # {}
    /\ area = ClassesOf(D, set)
    /\ Closed(TrueLinks(D), area)
    /\ area \cap D.live \subseteq Known(D)
    /\ \A p \in SUBSET Refs : p # {} /\ p \cap area = {} => (p \in old <=> p \in TrueLinks(D))

LEMMA ClosureRepaired ==
    ASSUME NEW D, NEW old, NEW M, NEW set, NEW area, Closures(D, old, M, set, area)
    PROVE  Rewritten(D, ReplaceAffectedClosure(D, set), Mixed(D, M, area))
<1>0. /\ Sound(D)
      /\ old \in SUBSET SUBSET Refs
      /\ D.closure = ClosureTable(old)
      /\ M \in SUBSET Assertions
      /\ D.separation = Keys(old, M)
      /\ set \in SUBSET Refs
      /\ set # {}
      /\ area = ClassesOf(D, set)
      /\ Closed(TrueLinks(D), area)
      /\ area \cap D.live \subseteq Known(D)
      /\ \A p \in SUBSET Refs : p # {} /\ p \cap area = {} => (p \in old <=> p \in TrueLinks(D))
      BY DEF Closures
<1> USE <1>0
<1> DEFINE E == ReplaceAffectedClosure(D, set)
<1> DEFINE links == TrueLinks(D)
           same == Touching(Relating(D.ledger, "same"), area)
           nodes == area \cap D.live
           within == nodes \cup Endpoints(same)
           local == FoldLinks(nodes, D.folds) \cup PairsOf(same)
           parts == Components(nodes, same, D.folds)
           classes == {P \in parts : Cardinality(P) > 1}
           rows == UNION classes
           left == [r \in DOMAIN D.closure \ area |-> D.closure[r]]
           cleared == [D EXCEPT !.closure = left]
           F == InsertClosure(cleared, parts)
<1>1. area \in SUBSET Refs /\ Closed(old, area)
    BY ClassesRead
<1>2. /\ links \in SUBSET SUBSET Refs
      /\ \A p \in links : p # {}
      /\ links = FoldLinks(Known(D), D.folds) \cup PairsOf(Relating(D.ledger, "same"))
    BY SoundLinks
<1>3. same \in SUBSET Assertions /\ nodes \in SUBSET Refs
    BY <1>1 DEF Sound, Touching, Relating
<1>4. Covers(parts, local, within)
    <2> HIDE DEF same, nodes
    <2> QED
        BY <1>3, ComponentsPartition
<1>5. \A a \in same : a.pair \in links /\ a.pair \cap area # {} /\ a.pair \subseteq area
    <2>1. \A a \in same : a.pair \in links /\ a.pair \cap area # {}
        BY <1>2 DEF Touching, PairsOf
    <2> QED
        BY <2>1 DEF Closed
<1>6. within \subseteq area
    BY <1>5 DEF Endpoints
<1>7. ASSUME NEW p, p \cap area # {} PROVE p \in local <=> p \in links
    <2>1. ASSUME p \in FoldLinks(nodes, D.folds) PROVE p \in links
        BY <1>2, <2>1 DEF FoldLinks
    <2>2. ASSUME p \in PairsOf(same) PROVE p \in links
        BY <1>5, <2>2 DEF PairsOf
    <2>3. ASSUME p \in FoldLinks(Known(D), D.folds) PROVE p \in FoldLinks(nodes, D.folds)
        <3>1. p \in links
            BY <1>2, <2>3
        <3>2. p \subseteq area
            BY <1>7, <3>1 DEF Closed
        <3>3. p \subseteq D.live
            BY <2>3 DEF FoldLinks, Known, OfKinds
        <3> QED
            BY <2>3, <3>2, <3>3 DEF FoldLinks
    <2>4. ASSUME p \in PairsOf(Relating(D.ledger, "same")) PROVE p \in PairsOf(same)
        BY <1>7, <2>4 DEF PairsOf, Touching
    <2> QED
        BY <1>2, <2>1, <2>2, <2>3, <2>4
<1>8. Closed(local, area)
    BY <1>4, <1>6 DEF Closed, Covers
<1>9. local \in SUBSET SUBSET Refs
    BY <1>4 DEF Covers
<1>10. ASSUME NEW r \in area PROVE Reach(local, r) = Reach(links, r)
    <2> HIDE DEF local, links
    <2>1. r \in area /\ Closed(links, area) /\ (\A p : p \cap area # {} => (p \in local <=> p \in links))
        BY <1>7 DEF links
    <2> QED
        BY <2>1, <1>1, <1>2, <1>8, <1>9, ReachWithin
<1>11. ASSUME NEW r \in Refs \ area PROVE Reach(old, r) = Reach(links, r)
    <2> DEFINE rest == Refs \ area
    <2>1. Closed(old, rest) /\ Closed(links, rest) /\ rest \in SUBSET Refs
        BY <1>1, <1>2, ClosedComplement
    <2>2. ASSUME NEW p, p \cap rest # {} PROVE p \in old <=> p \in links
        <3>1. CASE p \notin SUBSET Refs
            BY <3>1, <1>2
        <3>2. CASE p \in SUBSET Refs /\ p \cap area = {}
            BY <3>2, <2>2
        <3>3. CASE p \cap area # {}
            BY <3>3, <2>1, <2>2, <1>1 DEF Closed
        <3> QED
            BY <3>1, <3>2, <3>3
    <2> HIDE DEF links
    <2>3. r \in rest
        OBVIOUS
    <2> HIDE DEF rest
    <2> QED
        BY <2>1, <2>2, <2>3, <1>2, ReachWithin
<1>12. /\ rows = {r \in Refs : Cardinality(Reach(local, r)) > 1}
       /\ rows \subseteq within
       /\ \A r \in rows : PartOf(classes, r) = Reach(local, r)
    <2> HIDE DEF local, within, parts
    <2> QED
        BY <1>4, RowsOfParts
<1>13. DOMAIN D.closure = {x \in Refs : Cardinality(Reach(old, x)) > 1}
       /\ \A r \in DOMAIN D.closure : D.closure[r] = Least(Reach(old, r))
    BY DEF ClosureTable
<1> DEFINE table == [r \in DOMAIN left \cup rows |->
                         IF r \in rows THEN Least(PartOf(classes, r)) ELSE left[r]]
<1>14. table = ClosureTable(links)
    <2> HIDE DEF local, links, parts, within
    <2>1. DOMAIN left = DOMAIN D.closure \ area
        OBVIOUS
    <2>2. \A r \in Refs : r \in DOMAIN left \cup rows <=> Cardinality(Reach(links, r)) > 1
        <3> TAKE r \in Refs
        <3>1. CASE r \in area
            BY <1>10, <1>12, <2>1, <3>1
        <3>2. CASE r \notin area
            BY <1>6, <1>11, <1>12, <1>13, <2>1, <3>2
        <3> QED
            BY <3>1, <3>2
    <2>3. DOMAIN left \cup rows = {r \in Refs : Cardinality(Reach(links, r)) > 1}
        BY <1>12, <1>13, <2>1, <2>2
    <2>4. \A r \in rows : Least(PartOf(classes, r)) = Least(Reach(links, r))
        BY <1>6, <1>10, <1>12
    <2>5. \A r \in DOMAIN left : left[r] = Least(Reach(links, r))
        BY <1>11, <1>13, <2>1
    <2> HIDE DEF left, rows
    <2>6. \A r \in DOMAIN left \cup rows :
              (IF r \in rows THEN Least(PartOf(classes, r)) ELSE left[r]) = Least(Reach(links, r))
        BY <2>4, <2>5
    <2> HIDE DEF classes
    <2>7. table = [r \in DOMAIN left \cup rows |-> Least(Reach(links, r))]
        BY <2>6, Zenon
    <2> QED
        BY <2>3, <2>7, Zenon DEF ClosureTable
<1>15. rows \cap DOMAIN left = {}
    BY <1>6, <1>12
<1>16. F = [live |-> D.live, kinds |-> D.kinds, ledger |-> D.ledger, folds |-> D.folds,
            closure |-> ClosureTable(links), separation |-> D.separation, verdict |-> D.verdict]
    <2> HIDE DEF left, parts
    <2>1. cleared = [live |-> D.live, kinds |-> D.kinds, ledger |-> D.ledger, folds |-> D.folds,
                     closure |-> left, separation |-> D.separation, verdict |-> D.verdict]
        BY Updates DEF Sound
    <2> HIDE DEF cleared
    <2>2. /\ IsDraft(cleared) /\ cleared.live = D.live /\ cleared.kinds = D.kinds
          /\ cleared.ledger = D.ledger /\ cleared.folds = D.folds /\ cleared.closure = left
          /\ cleared.separation = D.separation /\ cleared.verdict = D.verdict
        BY <2>1 DEF IsDraft
    <2>3. F = [live |-> cleared.live, kinds |-> cleared.kinds, ledger |-> cleared.ledger,
               folds |-> cleared.folds,
               closure |-> [r \in DOMAIN cleared.closure \cup rows |->
                                IF r \in rows THEN Least(PartOf(classes, r)) ELSE cleared.closure[r]],
               separation |-> cleared.separation,
               verdict |-> IF rows \cap DOMAIN cleared.closure = {} THEN cleared.verdict
                           ELSE "aborted"]
        BY <2>2, InsertClosureForm
    <2> HIDE DEF rows, classes, F
    <2> QED
        BY <1>14, <1>15, <2>2, <2>3, Zenon
<1> HIDE DEF F
<1>17. /\ F.live = D.live /\ F.kinds = D.kinds /\ F.ledger = D.ledger /\ F.folds = D.folds
       /\ F.closure = ClosureTable(links) /\ F.separation = D.separation /\ F.verdict = D.verdict
       /\ IsDraft(F)
    BY <1>16 DEF IsDraft
<1>18. Sound(F) /\ TrueLinks(F) = links /\ Differents(F) = Differents(D)
    BY <1>17 DEF Sound, TrueLinks, Differents, Known
<1>19. area \cup UNION parts = area
    BY <1>4, <1>6 DEF Covers, Partition
<1>20. E = ReplaceSeparationForMembers(F, area)
    <2>1. E = ReplaceSeparationForMembers(F, area \cup UNION parts)
        BY DEF ReplaceAffectedClosure, F
    <2> HIDE DEF parts
    <2> QED
        BY <1>19, <2>1
<1> DEFINE anchor == [r \in Refs |-> Least(Reach(old, r))]
<1>21. \A r \in Refs : anchor[r] \in area <=> r \in area
    <2> TAKE r \in Refs
    <2>1. Least(Reach(old, r)) \in Reach(old, r)
        BY LabelsTellClasses
    <2>2. CASE r \in area
        <3>1. Reach(old, r) \subseteq area
            BY <1>1, <2>2, ReachLeast
        <3> QED
            BY <2>1, <2>2, <3>1
    <2>3. CASE r \notin area
        <3> DEFINE rest == Refs \ area
        <3>0. r \in rest /\ rest \in SUBSET Refs /\ Closed(old, rest)
            BY <1>1, <2>3, ClosedComplement
        <3>1. Reach(old, r) \subseteq rest
            BY <3>0, ReachLeast
        <3> QED
            BY <2>1, <2>3, <3>1
    <2> QED
        BY <2>2, <2>3
<1>22. \A r \in Refs \ area : anchor[r] = Least(Reach(links, r))
    BY <1>11
<1>23. F.separation = {{anchor[r] : r \in a.pair} : a \in M}
    <2>1. \A a \in M : a.pair \in SUBSET Refs
        BY PairForm DEF Assertions
    <2>2. \A a \in M : {anchor[r] : r \in a.pair} = {Least(Reach(old, r)) : r \in a.pair}
        BY <2>1
    <2> HIDE DEF anchor
    <2> QED
        BY <1>17, <2>2 DEF Keys
<1> HIDE DEF anchor, links
<1>24. Separates(F, anchor, M, area)
    <2>1. Closed(TrueLinks(F), area)
        BY <1>18 DEF links
    <2>3. F.closure = ClosureTable(TrueLinks(F)) /\ Sound(F)
        BY <1>17, <1>18 DEF links
    <2>4. \A r \in Refs \ area : anchor[r] = Least(Reach(TrueLinks(F), r))
        BY <1>18, <1>22
    <2> HIDE <1>0
    <2> QED
        BY <1>0, <2>1, <2>3, <2>4, <1>1, <1>21, <1>23 DEF Separates
<1>25. Rewritten(F, E, Mixed(F, M, area))
    BY <1>20, <1>24, SeparationRepaired
<1>26. Mixed(F, M, area) = Mixed(D, M, area)
    BY <1>18 DEF Mixed
<1> QED
    BY <1>17, <1>18, <1>25, <1>26 DEF links, E, Rewritten

-----------------------------------------------------------------------------
(* Joining two classes. *)

\* The tables depend on the classes, not on the links that make them.
LEMMA SameClasses ==
    ASSUME NEW few \in SUBSET SUBSET Refs, NEW many \in SUBSET SUBSET Refs,
           \A r \in Refs : Reach(few, r) = Reach(many, r)
    PROVE  /\ ClosureTable(few) = ClosureTable(many)
           /\ \A N \in SUBSET Assertions : Keys(few, N) = Keys(many, N)
<1>1. ClosureTable(few) = ClosureTable(many)
    <2> DEFINE S == {x \in Refs : Cardinality(Reach(few, x)) > 1}
               T == {x \in Refs : Cardinality(Reach(many, x)) > 1}
    <2>1. S = T /\ \A r \in S : Least(Reach(few, r)) = Least(Reach(many, r))
        OBVIOUS
    <2>2. ClosureTable(few) = [r \in S |-> Least(Reach(few, r))]
          /\ ClosureTable(many) = [r \in T |-> Least(Reach(many, r))]
        BY DEF ClosureTable
    <2> HIDE DEF S, T
    <2> QED
        BY <2>1, <2>2, Zenon
<1>2. ASSUME NEW N \in SUBSET Assertions PROVE Keys(few, N) = Keys(many, N)
    <2>1. \A a \in N : a.pair \in SUBSET Refs
        BY PairForm DEF Assertions
    <2>2. \A a \in N : {Least(Reach(few, r)) : r \in a.pair} = {Least(Reach(many, r)) : r \in a.pair}
        BY <2>1
    <2> QED
        BY <2>2 DEF Keys
<1> QED
    BY <1>1, <1>2

Fused(links, x, y) == Reach(links, x) \cup Reach(links, y)

Joined(links, x, y) ==
    \A r \in Refs : Reach(links \cup {{x, y}}, r)
                      = IF r \in Fused(links, x, y) THEN Fused(links, x, y) ELSE Reach(links, r)

LEMMA ReachJoin ==
    ASSUME NEW links \in SUBSET SUBSET Refs, NEW x \in Refs, NEW y \in Refs
    PROVE  Joined(links, x, y)
<1> SUFFICES ASSUME NEW r \in Refs
             PROVE  Reach(links \cup {{x, y}}, r)
                        = IF r \in Fused(links, x, y) THEN Fused(links, x, y) ELSE Reach(links, r)
    BY DEF Joined
<1> DEFINE new == links \cup {{x, y}}
           fused == Reach(links, x) \cup Reach(links, y)
           rest == Refs \ fused
<1>1. new \in SUBSET SUBSET Refs /\ links \subseteq new /\ {x, y} \in new
    OBVIOUS
<1>2. /\ x \in fused /\ y \in fused /\ fused \in SUBSET Refs
      /\ Closed(links, Reach(links, x)) /\ Closed(links, Reach(links, y))
    BY ReachLeast
<1>3. Closed(links, fused) /\ Closed(new, fused)
    <2>1. Closed(links, fused)
        BY <1>2 DEF Closed
    <2> HIDE DEF fused
    <2> QED
        BY <1>2, <2>1 DEF Closed
<1>4. Closed(links, rest) /\ Closed(new, rest) /\ rest \in SUBSET Refs
    <2> HIDE DEF fused, new
    <2> QED
        BY <1>1, <1>2, <1>3, ClosedComplement
<1>5. ASSUME r \notin fused PROVE Reach(new, r) = Reach(links, r)
    <2>1. r \in rest
        BY <1>5
    <2>2. \A p : p \cap rest # {} => (p \in links <=> p \in new)
        BY <1>2
    <2> HIDE DEF rest, new, fused
    <2> QED
        BY <2>1, <2>2, <1>1, <1>4, ReachWithin
<1>6. ASSUME r \in fused PROVE Reach(new, r) = fused
    <2>1. Reach(new, r) \subseteq fused
        <3> HIDE DEF fused, new
        <3> QED
            BY <1>1, <1>2, <1>3, <1>6, ReachLeast
    <2>2. Reach(links, r) \subseteq Reach(new, r) /\ Closed(new, Reach(new, r))
          /\ Reach(new, r) \in SUBSET Refs /\ r \in Reach(links, r)
        <3> HIDE DEF fused, new
        <3> QED
            BY <1>1, ReachLeast, ReachGrows
    <2>3. x \in Reach(links, r) \/ y \in Reach(links, r)
        <3>1. CASE r \in Reach(links, x)
            BY <3>1, <1>2, ReachSame, ReachLeast
        <3>2. CASE r \in Reach(links, y)
            BY <3>2, <1>2, ReachSame, ReachLeast
        <3> QED
            BY <3>1, <3>2, <1>6
    <2>4. x \in Reach(new, r) /\ y \in Reach(new, r)
        BY <1>1, <2>2, <2>3 DEF Closed
    <2>5. Closed(links, Reach(new, r))
        BY <1>1, <2>2 DEF Closed
    <2>6. Reach(links, x) \subseteq Reach(new, r) /\ Reach(links, y) \subseteq Reach(new, r)
        BY <2>2, <2>4, <2>5, ReachLeast
    <2> QED
        BY <2>1, <2>6
<1> QED
    BY <1>5, <1>6 DEF Fused

-----------------------------------------------------------------------------
(* A repair of the separation rows alone, and one of the classes around a set. *)

LEMMA ReferencesRepaired ==
    ASSUME NEW D, Sound(D), D.closure = ClosureTable(TrueLinks(D)),
           NEW M \in SUBSET Assertions, D.separation = Keys(TrueLinks(D), M),
           NEW set \in SUBSET Refs,
           \A a \in Assertions : a.pair \cap set = {} => (a \in M <=> a \in Differents(D))
    PROVE  Repaired(D, ReplaceSeparationForReferences(D, set))
<1> DEFINE links == TrueLinks(D)
           area == ClassesOf(D, set)
           E == ReplaceSeparationForMembers(D, area)
           anchor == [r \in Refs |-> Least(Reach(links, r))]
<1>1. links \in SUBSET SUBSET Refs
    BY SoundLinks
<1>2. CASE set = {}
    <2>1. ReplaceSeparationForReferences(D, set) = D
        BY <1>2 DEF ReplaceSeparationForReferences
    <2>2. \A a \in Assertions : a \in M <=> a \in Differents(D)
        BY <1>2
    <2>3. Differents(D) \in SUBSET Assertions
        BY DEF Differents, Relating, Sound
    <2>4. M = Differents(D)
        BY <2>2, <2>3
    <2> QED
        BY <2>1, <2>4 DEF Repaired, Current
<1>3. CASE set # {}
    <2>1. ReplaceSeparationForReferences(D, set) = E
        BY <1>3 DEF ReplaceSeparationForReferences
    <2>2. area \in SUBSET Refs /\ set \subseteq area /\ Closed(links, area)
        <3> HIDE DEF area
        <3> QED
            BY <1>1, ClassesRead DEF area
    <2>3. \A r \in Refs : Reach(links, r) \in SUBSET Refs /\ r \in Reach(links, r)
                          /\ Least(Reach(links, r)) \in Reach(links, r)
        BY <1>1, ReachLeast, LabelsTellClasses
    <2> HIDE DEF links, area
    <2>4. \A r \in Refs : anchor[r] \in area <=> r \in area
        <3> TAKE r \in Refs
        <3> DEFINE rest == Refs \ area
        <3>1. Closed(links, rest) /\ rest \in SUBSET Refs
            BY <1>1, <2>2, ClosedComplement
        <3>2. r \in area => Reach(links, r) \subseteq area
            BY <1>1, <2>2, ReachLeast
        <3>3. r \in rest => Reach(links, r) \subseteq rest
            <4> HIDE DEF rest
            <4> QED
                BY <1>1, <3>1, ReachLeast
        <3> QED
            BY <2>3, <3>2, <3>3
    <2>5. D.separation = {{anchor[r] : r \in a.pair} : a \in M}
        <3>1. \A a \in M : a.pair \in SUBSET Refs
            BY PairForm DEF Assertions
        <3>2. \A a \in M : {anchor[r] : r \in a.pair} = {Least(Reach(links, r)) : r \in a.pair}
            BY <3>1
        <3>3. D.separation = Keys(links, M)
            BY DEF links
        <3> HIDE DEF anchor
        <3> QED
            BY <3>2, <3>3 DEF Keys
    <2>6. \A r \in Refs \ area : anchor[r] = Least(Reach(TrueLinks(D), r))
        BY DEF links
    <2> HIDE DEF anchor
    <2>7. Separates(D, anchor, M, area)
        BY <2>2, <2>4, <2>5, <2>6 DEF Separates, links
    <2>8. Rewritten(D, E, Mixed(D, M, area))
        BY <2>7, SeparationRepaired
    <2>9. \A a \in Assertions : a.pair \cap area = {} => (a \in M <=> a \in Differents(D))
        BY <2>2
    <2> HIDE DEF E
    <2>10. Repaired(D, E)
        BY <2>8, <2>9, RewrittenWhole
    <2> QED
        BY <2>1, <2>10
<1> QED
    BY <1>2, <1>3

LEMMA AffectedRepaired ==
    ASSUME NEW D, NEW old, NEW M, NEW set, NEW area, Closures(D, old, M, set, area),
           \A a \in Assertions : a.pair \cap area = {} => (a \in M <=> a \in Differents(D))
    PROVE  Repaired(D, ReplaceAffectedClosure(D, set))
<1>1. Rewritten(D, ReplaceAffectedClosure(D, set), Mixed(D, M, area))
    BY ClosureRepaired
<1>2. Sound(D) /\ M \in SUBSET Assertions
    BY DEF Closures
<1> QED
    BY <1>1, <1>2, RewrittenWhole

-----------------------------------------------------------------------------
(* One assertion. *)

Asserted(D, a) == [D EXCEPT !.ledger = @ \cup {a}]

\* Any change of the ledger between the nodes that are there.
LEMMA LedgerChanged ==
    ASSUME NEW D, Sound(D), NEW asserted \in SUBSET Assertions,
           \A a \in asserted : a.pair \subseteq Known(D)
    PROVE  LET W == [D EXCEPT !.ledger = asserted]
           IN  /\ Sound(W)
               /\ W.live = D.live /\ W.kinds = D.kinds /\ W.folds = D.folds
               /\ W.closure = D.closure /\ W.separation = D.separation /\ W.verdict = D.verdict
               /\ W.ledger = asserted /\ Known(W) = Known(D)
               /\ TrueLinks(W) = FoldLinks(Known(D), D.folds) \cup PairsOf(Relating(asserted, "same"))
               /\ Differents(W) = Relating(asserted, "different")
<1> DEFINE W == [D EXCEPT !.ledger = asserted]
<1>1. W = [live |-> D.live, kinds |-> D.kinds, ledger |-> asserted, folds |-> D.folds,
           closure |-> D.closure, separation |-> D.separation, verdict |-> D.verdict]
    BY Updates DEF Sound
<1> HIDE DEF W
<1>2. /\ W.live = D.live /\ W.kinds = D.kinds /\ W.folds = D.folds
      /\ W.closure = D.closure /\ W.separation = D.separation /\ W.verdict = D.verdict
      /\ W.ledger = asserted /\ IsDraft(W)
    BY <1>1 DEF IsDraft
<1>3. Known(W) = Known(D) /\ Differents(W) = Relating(asserted, "different")
    BY <1>2 DEF Known, Differents
<1>4. Sound(W)
    BY <1>2, <1>3 DEF Sound, Endpoints
<1>5. TrueLinks(W) = FoldLinks(Known(D), D.folds) \cup PairsOf(Relating(asserted, "same"))
    BY <1>2, <1>3, <1>4, SoundLinks
<1> QED
    BY <1>2, <1>3, <1>4, <1>5 DEF W

LEMMA AssertedForm ==
    ASSUME NEW D, Sound(D), NEW a \in Assertions, a.pair \subseteq Known(D)
    PROVE  LET W == Asserted(D, a)
           IN  /\ Sound(W)
               /\ W.live = D.live /\ W.kinds = D.kinds /\ W.folds = D.folds
               /\ W.closure = D.closure /\ W.separation = D.separation /\ W.verdict = D.verdict
               /\ W.ledger = D.ledger \cup {a} /\ Known(W) = Known(D)
               /\ a.rel = "same" => /\ TrueLinks(W) = TrueLinks(D) \cup {a.pair}
                                    /\ Differents(W) = Differents(D)
               /\ a.rel = "different" => /\ TrueLinks(W) = TrueLinks(D)
                                         /\ Differents(W) = Differents(D) \cup {a}
<1> DEFINE asserted == D.ledger \cup {a}
           W == [D EXCEPT !.ledger = asserted]
<1>1. asserted \in SUBSET Assertions /\ \A b \in asserted : b.pair \subseteq Known(D)
    BY SoundLinks DEF Sound
<1>2. W = Asserted(D, a)
    BY DEF Asserted
<1>3. a.rel = "same" => /\ Relating(asserted, "same") = Relating(D.ledger, "same") \cup {a}
                        /\ Relating(asserted, "different") = Relating(D.ledger, "different")
    BY DEF Relating
<1>4. a.rel = "different" =>
          /\ Relating(asserted, "different") = Relating(D.ledger, "different") \cup {a}
          /\ Relating(asserted, "same") = Relating(D.ledger, "same")
    BY DEF Relating
<1> HIDE DEF asserted
<1>5. /\ Sound(W)
      /\ W.live = D.live /\ W.kinds = D.kinds /\ W.folds = D.folds
      /\ W.closure = D.closure /\ W.separation = D.separation /\ W.verdict = D.verdict
      /\ W.ledger = asserted /\ Known(W) = Known(D)
      /\ TrueLinks(W) = FoldLinks(Known(D), D.folds) \cup PairsOf(Relating(asserted, "same"))
      /\ Differents(W) = Relating(asserted, "different")
    BY <1>1, LedgerChanged
<1>6. TrueLinks(D) = FoldLinks(Known(D), D.folds) \cup PairsOf(Relating(D.ledger, "same"))
    BY SoundLinks
<1> HIDE DEF W
<1>7. a.rel = "same" => TrueLinks(W) = TrueLinks(D) \cup {a.pair}
    BY <1>3, <1>5, <1>6 DEF PairsOf
<1>8. a.rel = "different" => TrueLinks(W) = TrueLinks(D)
    BY <1>4, <1>5, <1>6
<1> QED
    BY <1>2, <1>3, <1>4, <1>5, <1>7, <1>8 DEF asserted, Differents

LEMMA MergeRepaired ==
    ASSUME NEW D, Current(D), NEW a \in Assertions, a.rel = "same", a.pair \subseteq Known(D)
    PROVE  Repaired(Asserted(D, a), MergeClasses(Asserted(D, a), a.pair))
<1> DEFINE W == Asserted(D, a)
           links == TrueLinks(D)
           pair == a.pair
<1>1. Sound(D) /\ D.closure = ClosureTable(links) /\ D.separation = Keys(links, Differents(D))
    BY DEF Current
<1>2. /\ Sound(W) /\ W.closure = D.closure /\ W.separation = D.separation
      /\ TrueLinks(W) = links \cup {pair} /\ Differents(W) = Differents(D)
    BY <1>1, AssertedForm
<1>3. links \in SUBSET SUBSET Refs
    BY <1>1, SoundLinks
<1>4. PICK x \in Refs, y \in Refs : x # y /\ pair = {x, y}
    BY PairForm DEF Assertions
<1> HIDE DEF W, links, pair
<1> DEFINE new == links \cup {pair}
           fused == Reach(links, x) \cup Reach(links, y)
<1>5. new \in SUBSET SUBSET Refs
    BY <1>3, <1>4
<1>6. \A r \in Refs : Anchor(W, r) = Least(Reach(links, r)) /\ ClassOf(W, r) = Reach(links, r)
    BY <1>1, <1>2, <1>3, ClosureReads
<1>7. \A r \in Refs : Reach(new, r) = IF r \in fused THEN fused ELSE Reach(links, r)
    <2>1. new = links \cup {{x, y}}
        BY <1>4
    <2>2. fused = Fused(links, x, y)
        BY DEF Fused
    <2>3. Joined(links, x, y)
        BY <1>3, ReachJoin
    <2> HIDE DEF new, fused
    <2> QED
        BY <2>1, <2>2, <2>3 DEF Joined
<1>8. \A r \in Refs : /\ r \in Reach(links, r) /\ Reach(links, r) \in SUBSET Refs
                      /\ Closed(links, Reach(links, r))
    BY <1>3, ReachLeast
<1>9. \A r, s \in Refs : s \in Reach(links, r) <=> Reach(links, r) = Reach(links, s)
    BY <1>3, LabelsTellClasses
<1>10. \A r, s \in Refs : Least(Reach(links, r)) = Least(Reach(links, s))
                              <=> Reach(links, r) = Reach(links, s)
    BY <1>3, LabelsTellClasses
<1>11. Differents(D) \in SUBSET Assertions
    BY <1>1 DEF Sound, Differents, Relating
<1>12. (\E r \in pair : pair \subseteq ClassOf(W, r)) <=> Reach(links, x) = Reach(links, y)
    BY <1>4, <1>6, <1>8, <1>9
<1>13. CASE Reach(links, x) = Reach(links, y)
    <2>1. MergeClasses(W, pair) = W
        BY <1>12, <1>13 DEF MergeClasses
    <2>2. \A r \in Refs : Reach(links, r) = Reach(new, r)
        <3>1. \A r \in fused : r \in Refs /\ Reach(links, r) = fused
            BY <1>4, <1>8, <1>9, <1>13
        <3> QED
            BY <1>7, <3>1
    <2> HIDE DEF new
    <2>3. ClosureTable(links) = ClosureTable(new)
          /\ Keys(links, Differents(D)) = Keys(new, Differents(D))
        BY <2>2, <1>3, <1>5, <1>11, SameClasses
    <2> QED
        BY <2>1, <2>3, <1>1, <1>2 DEF Repaired, Current, new, W, pair
<1>14. CASE Reach(links, x) # Reach(links, y)
    <2> DEFINE classes == {ClassOf(W, r) : r \in pair}
               retired == {Least(C) : C \in {X \in classes : Cardinality(X) > 1}}
               added == UNION {C \in classes : Cardinality(C) = 1}
               relabelled == [r \in DOMAIN W.closure \cup added |->
                   IF r \in added \/ W.closure[r] \in retired THEN Least(fused) ELSE W.closure[r]]
               F == [W EXCEPT !.closure = relabelled]
               anchor == [r \in Refs |-> Least(Reach(links, r))]
    <2>1. classes = {Reach(links, x), Reach(links, y)}
        BY <1>4, <1>6
    <2>2. fused = UNION classes
        BY <2>1
    <2>3. fused \in SUBSET Refs /\ x \in fused /\ y \in fused
        BY <1>8
    <2>4. DOMAIN W.closure = {r \in Refs : Cardinality(Reach(links, r)) > 1}
          /\ \A r \in DOMAIN W.closure : W.closure[r] = Least(Reach(links, r))
        BY <1>1, <1>2 DEF ClosureTable
    <2>5. \A r \in Refs : Cardinality(Reach(links, r)) > 1 \/ Cardinality(Reach(links, r)) = 1
        <3> TAKE r \in Refs
        <3>1. Cardinality(Reach(links, r)) > 1 \/ Reach(links, r) = {r}
            BY <1>8, Sizes
        <3>2. Reach(links, r) = {r} => Cardinality(Reach(links, r)) = 1
            BY <1>8, Sizes
        <3>3. Cardinality(Reach(links, r)) \in Nat
            BY <1>8, Sizes
        <3> QED
            BY <3>1, <3>2, <3>3
    <2>6. \A r \in Refs : r \in added <=> r \in fused /\ Cardinality(Reach(links, r)) = 1
        BY <2>1, <1>4, <1>8, <1>9
    <2>7. added \subseteq fused
        BY <2>2
    <2>8. added \cap DOMAIN W.closure = {}
        <3>1. \A r \in Refs : ~(Cardinality(Reach(links, r)) > 1 /\ Cardinality(Reach(links, r)) = 1)
            <4> TAKE r \in Refs
            <4>1. Cardinality(Reach(links, r)) \in Nat
                BY <1>8, Sizes
            <4> QED
                BY <4>1
        <3> HIDE DEF added, fused
        <3> QED
            BY <2>3, <2>4, <2>6, <2>7, <3>1
    <2>9. \A r \in DOMAIN W.closure : W.closure[r] \in retired <=> r \in fused
        <3> TAKE r \in DOMAIN W.closure
        <3>1. r \in Refs /\ Cardinality(Reach(links, r)) > 1 /\ W.closure[r] = Least(Reach(links, r))
            BY <2>4
        <3>2. W.closure[r] \in retired <=>
                  \/ Cardinality(Reach(links, x)) > 1 /\ W.closure[r] = Least(Reach(links, x))
                  \/ Cardinality(Reach(links, y)) > 1 /\ W.closure[r] = Least(Reach(links, y))
            BY <2>1
        <3>3. r \in fused <=> Reach(links, r) = Reach(links, x) \/ Reach(links, r) = Reach(links, y)
            BY <1>4, <1>9, <3>1
        <3> HIDE DEF retired, fused
        <3> QED
            BY <1>4, <1>10, <3>1, <3>2, <3>3
    <2>10. \A r \in Refs : r \in DOMAIN W.closure \cup added <=> Cardinality(Reach(new, r)) > 1
        <3> TAKE r \in Refs
        <3>1. Cardinality(fused) > 1
            <4> HIDE DEF fused
            <4> QED
                BY <1>4, <2>3, Sizes
        <3> HIDE DEF added, fused, new
        <3> QED
            BY <1>7, <2>4, <2>5, <2>6, <3>1
    <2>11. \A r \in DOMAIN W.closure \cup added : r \in Refs /\
               (IF r \in added \/ W.closure[r] \in retired THEN Least(fused) ELSE W.closure[r])
                   = Least(Reach(new, r))
        <3> TAKE r \in DOMAIN W.closure \cup added
        <3> HIDE DEF added, fused, new, retired
        <3>1. r \in Refs
            BY <2>3, <2>4, <2>7
        <3>2. CASE r \in added
            BY <1>7, <2>7, <3>1, <3>2
        <3>3. CASE r \notin added
            BY <1>7, <2>4, <2>9, <3>1, <3>3
        <3> QED
            BY <3>1, <3>2, <3>3
    <2>12. relabelled = ClosureTable(new)
        <3> DEFINE S == DOMAIN W.closure \cup added
        <3>1. S = {r \in Refs : Cardinality(Reach(new, r)) > 1}
            <4> HIDE DEF added, fused, new, retired
            <4> QED
                BY <2>10, <2>11
        <3>2. relabelled = [r \in S |-> IF r \in added \/ W.closure[r] \in retired THEN Least(fused)
                                         ELSE W.closure[r]]
            OBVIOUS
        <3> HIDE DEF added, fused, new, retired, S, relabelled
        <3>3. \A r \in S : (IF r \in added \/ W.closure[r] \in retired THEN Least(fused)
                            ELSE W.closure[r]) = Least(Reach(new, r))
            BY <2>11 DEF S
        <3>4. relabelled = [r \in S |-> Least(Reach(new, r))]
            BY <3>2, <3>3, Zenon
        <3> QED
            BY <3>1, <3>4, Zenon DEF ClosureTable
    <2>13. MergeClasses(W, pair) = ReplaceSeparationForMembers(F, fused)
        BY <1>12, <1>14, <2>2, <2>8 DEF MergeClasses, Guarded
    <2> HIDE DEF classes, retired, added, relabelled, new
    <2>14. F = [live |-> W.live, kinds |-> W.kinds, ledger |-> W.ledger, folds |-> W.folds,
                closure |-> ClosureTable(new), separation |-> W.separation, verdict |-> W.verdict]
        BY <2>12, <1>2, Updates DEF Sound
    <2> HIDE DEF F
    <2>15. /\ F.live = W.live /\ F.kinds = W.kinds /\ F.ledger = W.ledger /\ F.folds = W.folds
           /\ F.closure = ClosureTable(new) /\ F.separation = W.separation
           /\ F.verdict = W.verdict /\ IsDraft(F)
        BY <2>14 DEF IsDraft
    <2>16. Sound(F) /\ TrueLinks(F) = TrueLinks(W) /\ Differents(F) = Differents(W)
        BY <1>2, <2>15 DEF Sound, TrueLinks, Differents, Known
    <2>17. TrueLinks(F) = new
        BY <1>2, <2>16 DEF new
    <2>18. Closed(new, fused)
        <3>1. new \in SUBSET SUBSET Refs /\ Reach(new, x) = fused
            BY <1>4, <1>5, <1>7, <2>3
        <3> HIDE DEF new, fused
        <3> QED
            BY <3>1, <1>4, ReachLeast
    <2>19. \A r \in Refs : anchor[r] \in fused <=> r \in fused
        <3> TAKE r \in Refs
        <3>1. Least(Reach(links, r)) \in Reach(links, r)
            BY <1>3, LabelsTellClasses
        <3>2. Least(Reach(links, r)) \in Refs
            BY <3>1, <1>8
        <3>3. Reach(links, Least(Reach(links, r))) = Reach(links, r)
            BY <3>1, <3>2, <1>9
        <3>4. \A s \in Refs : s \in fused <=> Reach(links, s) = Reach(links, x) \/ Reach(links, s) = Reach(links, y)
            BY <1>9
        <3> QED
            BY <3>2, <3>3, <3>4
    <2>20. \A r \in Refs \ fused : anchor[r] = Least(Reach(TrueLinks(F), r))
        BY <1>7, <2>17
    <2>21. F.separation = {{anchor[r] : r \in b.pair} : b \in Differents(D)}
        <3>1. \A b \in Differents(D) : b.pair \in SUBSET Refs
            BY <1>11, PairForm DEF Assertions
        <3>2. \A b \in Differents(D) :
                  {anchor[r] : r \in b.pair} = {Least(Reach(links, r)) : r \in b.pair}
            BY <3>1
        <3> HIDE DEF anchor
        <3> QED
            BY <1>1, <1>2, <2>15, <3>2 DEF Keys
    <2> HIDE DEF anchor, fused
    <2>22. F.closure = ClosureTable(TrueLinks(F)) /\ Closed(TrueLinks(F), fused)
        BY <2>15, <2>17, <2>18
    <2>23. Separates(F, anchor, Differents(D), fused)
        BY <2>3, <2>16, <2>19, <2>20, <2>21, <2>22, <1>11 DEF Separates
    <2>24. Rewritten(F, ReplaceSeparationForMembers(F, fused), Mixed(F, Differents(D), fused))
        BY <2>23, SeparationRepaired
    <2> DEFINE E == ReplaceSeparationForMembers(F, fused)
    <2>25. Rewritten(F, E, Mixed(F, Differents(D), fused))
        BY <2>24
    <2> HIDE DEF E
    <2>26. Repaired(F, E)
        BY <2>16, <2>25, <1>2, <1>11, RewrittenWhole
    <2> QED
        BY <2>13, <2>15, <2>16, <2>26 DEF Repaired, E, W, pair
<1> QED
    BY <1>13, <1>14 DEF W, pair

\* The separation rows of one assertion more.
LEMMA ApartRepaired ==
    ASSUME NEW D, Current(D), NEW a \in Assertions, a.rel = "different", a.pair \subseteq Known(D)
    PROVE  Repaired(Asserted(D, a), ReplaceSeparationForReferences(Asserted(D, a), a.pair))
<1> DEFINE W == Asserted(D, a)
           M == Differents(D)
           set == a.pair
<1>1. Sound(D) /\ D.closure = ClosureTable(TrueLinks(D)) /\ D.separation = Keys(TrueLinks(D), M)
    BY DEF Current
<1>2. /\ Sound(W) /\ W.closure = D.closure /\ W.separation = D.separation
      /\ TrueLinks(W) = TrueLinks(D) /\ Differents(W) = Differents(D) \cup {a}
    BY <1>1, AssertedForm
<1>3. M \in SUBSET Assertions
    BY <1>1 DEF Sound, Differents, Relating
<1>4. set \in SUBSET Refs /\ set # {}
    BY PairForm DEF Assertions
<1>5. \A b \in Assertions : b.pair \cap set = {} => (b \in M <=> b \in Differents(W))
    BY <1>2, <1>4
<1> HIDE DEF W, M, set
<1>6. Repaired(W, ReplaceSeparationForReferences(W, set))
    BY <1>1, <1>2, <1>3, <1>4, <1>5, ReferencesRepaired
<1> QED
    BY <1>6 DEF W, set

\* A step of the loop keeps the tables in step with what it wrote.
LEMMA AssertStepRepairs ==
    ASSUME NEW D, Current(D), NEW a \in Assertions, a.pair \subseteq Known(D)
    PROVE  LET E == AssertStep(D, a)
           IN  /\ Current(E)
               /\ E.live = D.live /\ E.kinds = D.kinds /\ E.folds = D.folds
               /\ \/ E = D
                  \/ /\ D.verdict = "done" /\ a \notin D.ledger /\ Contradicts(D, a)
                     /\ E.verdict = "refused" /\ E.ledger = D.ledger
                  \/ /\ D.verdict = "done" /\ a \notin D.ledger /\ ~Contradicts(D, a)
                     /\ E.ledger = D.ledger \cup {a}
                     /\ Repaired(Asserted(D, a), E)
<1> DEFINE E == AssertStep(D, a)
<1>1. CASE D.verdict # "done" \/ a \in D.ledger
    BY <1>1 DEF AssertStep
<1>2. CASE D.verdict = "done" /\ a \notin D.ledger /\ Contradicts(D, a)
    <2>1. E = [D EXCEPT !.verdict = "refused"]
        BY <1>2 DEF AssertStep
    <2>2. E = [live |-> D.live, kinds |-> D.kinds, ledger |-> D.ledger, folds |-> D.folds,
               closure |-> D.closure, separation |-> D.separation, verdict |-> "refused"]
        BY <2>1, Updates DEF Current, Sound
    <2> HIDE DEF E
    <2>3. /\ E.live = D.live /\ E.kinds = D.kinds /\ E.folds = D.folds /\ E.ledger = D.ledger
          /\ E.closure = D.closure /\ E.separation = D.separation /\ E.verdict = "refused"
          /\ IsDraft(E)
        BY <2>2 DEF IsDraft
    <2>4. Sound(E) /\ TrueLinks(E) = TrueLinks(D) /\ Differents(E) = Differents(D)
        BY <2>3 DEF Current, Sound, TrueLinks, Differents, Known
    <2>5. Current(E)
        BY <2>3, <2>4 DEF Current
    <2> QED
        BY <2>3, <2>5, <1>2 DEF E
<1>3. CASE D.verdict = "done" /\ a \notin D.ledger /\ ~Contradicts(D, a)
    <2>1. E = IF a.rel = "same" THEN MergeClasses(Asserted(D, a), a.pair)
              ELSE ReplaceSeparationForReferences(Asserted(D, a), a.pair)
        BY <1>3 DEF AssertStep, Asserted
    <2>2. a.rel = "same" \/ a.rel = "different"
        BY DEF Assertions
    <2> HIDE DEF E
    <2>3. Repaired(Asserted(D, a), E)
        BY <2>1, <2>2, MergeRepaired, ApartRepaired
    <2>4. /\ Asserted(D, a).live = D.live /\ Asserted(D, a).kinds = D.kinds
          /\ Asserted(D, a).folds = D.folds /\ Asserted(D, a).ledger = D.ledger \cup {a}
        BY AssertedForm DEF Current
    <2> QED
        BY <2>3, <2>4, <1>3 DEF Repaired, E
<1> QED
    BY <1>1, <1>2, <1>3

-----------------------------------------------------------------------------
(* Many assertions at once. *)

Ended(D, ended) == [D EXCEPT !.ledger = @ \ ended]
AssertedAll(D, created) == [D EXCEPT !.ledger = @ \cup created]

LEMMA EndedForm ==
    ASSUME NEW D, Sound(D), NEW ended \in SUBSET D.ledger
    PROVE  LET W == Ended(D, ended)
           IN  /\ Sound(W)
               /\ W.live = D.live /\ W.kinds = D.kinds /\ W.folds = D.folds
               /\ W.closure = D.closure /\ W.separation = D.separation /\ W.verdict = D.verdict
               /\ W.ledger = D.ledger \ ended /\ Known(W) = Known(D)
               /\ TrueLinks(W) \subseteq TrueLinks(D)
               /\ \A p \in TrueLinks(D) \ TrueLinks(W) : \E a \in ended : a.rel = "same" /\ p = a.pair
               /\ Differents(W) = Differents(D) \ ended
<1> DEFINE asserted == D.ledger \ ended
           W == [D EXCEPT !.ledger = asserted]
<1>1. asserted \in SUBSET Assertions /\ \A b \in asserted : b.pair \subseteq Known(D)
    BY SoundLinks DEF Sound
<1>2. W = Ended(D, ended)
    BY DEF Ended
<1>3. Relating(asserted, "different") = Relating(D.ledger, "different") \ ended
    BY DEF Relating
<1>4. PairsOf(Relating(asserted, "same")) \subseteq PairsOf(Relating(D.ledger, "same"))
    BY DEF Relating, PairsOf
<1>5. \A p \in PairsOf(Relating(D.ledger, "same")) : p \notin PairsOf(Relating(asserted, "same")) =>
          \E a \in ended : a.rel = "same" /\ p = a.pair
    BY DEF Relating, PairsOf
<1> HIDE DEF asserted
<1>6. /\ Sound(W)
      /\ W.live = D.live /\ W.kinds = D.kinds /\ W.folds = D.folds
      /\ W.closure = D.closure /\ W.separation = D.separation /\ W.verdict = D.verdict
      /\ W.ledger = asserted /\ Known(W) = Known(D)
      /\ TrueLinks(W) = FoldLinks(Known(D), D.folds) \cup PairsOf(Relating(asserted, "same"))
      /\ Differents(W) = Relating(asserted, "different")
    BY <1>1, LedgerChanged
<1>7. TrueLinks(D) = FoldLinks(Known(D), D.folds) \cup PairsOf(Relating(D.ledger, "same"))
    BY SoundLinks
<1> HIDE DEF W
<1>8. TrueLinks(W) \subseteq TrueLinks(D)
    BY <1>4, <1>6, <1>7
<1>9. \A p \in TrueLinks(D) \ TrueLinks(W) : \E a \in ended : a.rel = "same" /\ p = a.pair
    BY <1>5, <1>6, <1>7
<1> QED
    BY <1>2, <1>3, <1>6, <1>8, <1>9 DEF asserted, Differents

LEMMA AssertedAllForm ==
    ASSUME NEW D, Sound(D), NEW created \in SUBSET Assertions,
           \A a \in created : a.pair \subseteq Known(D)
    PROVE  LET W == AssertedAll(D, created)
           IN  /\ Sound(W)
               /\ W.live = D.live /\ W.kinds = D.kinds /\ W.folds = D.folds
               /\ W.closure = D.closure /\ W.separation = D.separation /\ W.verdict = D.verdict
               /\ W.ledger = D.ledger \cup created /\ Known(W) = Known(D)
               /\ TrueLinks(W) = TrueLinks(D) \cup PairsOf(Relating(created, "same"))
               /\ Differents(W) = Differents(D) \cup Relating(created, "different")
<1> DEFINE asserted == D.ledger \cup created
           W == [D EXCEPT !.ledger = asserted]
<1>1. asserted \in SUBSET Assertions /\ \A b \in asserted : b.pair \subseteq Known(D)
    BY SoundLinks DEF Sound
<1>2. W = AssertedAll(D, created)
    BY DEF AssertedAll
<1>3. Relating(asserted, "different") = Relating(D.ledger, "different") \cup Relating(created, "different")
    BY DEF Relating
<1>4. PairsOf(Relating(asserted, "same"))
          = PairsOf(Relating(D.ledger, "same")) \cup PairsOf(Relating(created, "same"))
    BY DEF Relating, PairsOf
<1> HIDE DEF asserted
<1>5. /\ Sound(W)
      /\ W.live = D.live /\ W.kinds = D.kinds /\ W.folds = D.folds
      /\ W.closure = D.closure /\ W.separation = D.separation /\ W.verdict = D.verdict
      /\ W.ledger = asserted /\ Known(W) = Known(D)
      /\ TrueLinks(W) = FoldLinks(Known(D), D.folds) \cup PairsOf(Relating(asserted, "same"))
      /\ Differents(W) = Relating(asserted, "different")
    BY <1>1, LedgerChanged
<1>6. TrueLinks(D) = FoldLinks(Known(D), D.folds) \cup PairsOf(Relating(D.ledger, "same"))
    BY SoundLinks
<1> HIDE DEF W
<1>7. TrueLinks(W) = TrueLinks(D) \cup PairsOf(Relating(created, "same"))
    BY <1>4, <1>5, <1>6
<1> QED
    BY <1>2, <1>3, <1>5, <1>7 DEF asserted, Differents

\* Classes read around known nodes hold known nodes only.
LEMMA ClassesKnown ==
    ASSUME NEW D, Current(D), NEW W, W.closure = D.closure,
           NEW set \in SUBSET Known(D)
    PROVE  /\ ClassesOf(W, set) \in SUBSET Refs
           /\ ClassesOf(W, set) \subseteq Known(D)
           /\ set \subseteq ClassesOf(W, set)
           /\ Closed(TrueLinks(D), ClassesOf(W, set))
<1> DEFINE links == TrueLinks(D)
           area == ClassesOf(W, set)
<1>1. /\ links \in SUBSET SUBSET Refs /\ Known(D) \in SUBSET Refs
      /\ Closed(links, Known(D)) /\ W.closure = ClosureTable(links) /\ set \in SUBSET Refs
    BY SoundLinks DEF Current
<1> HIDE DEF links
<1>2. /\ area \in SUBSET Refs /\ set \subseteq area /\ Closed(links, area)
      /\ \A around \in SUBSET Refs : set \subseteq around /\ Closed(links, around) => area \subseteq around
    BY <1>1, ClassesRead
<1> QED
    BY <1>1, <1>2 DEF links

\* Endings: the classes first, then what only kept classes apart.
LEMMA RetractRepairs ==
    ASSUME NEW D, Current(D), NEW ended \in SUBSET D.ledger
    PROVE  Repaired(Ended(D, ended), RetractStep(D, ended))
<1> DEFINE W == Ended(D, ended)
           S == Endpoints(Relating(ended, "same"))
           T == Endpoints(Relating(ended, "different"))
           F == ReplaceAffectedClosure(W, S)
           area == ClassesOf(W, S)
           old == TrueLinks(D)
           M == Differents(D)
           N == IF S = {} THEN M ELSE Mixed(W, M, area)
<1>1. Sound(D) /\ D.closure = ClosureTable(old) /\ D.separation = Keys(old, M)
    BY DEF Current
<1>2. /\ Sound(W)
      /\ W.live = D.live /\ W.kinds = D.kinds /\ W.folds = D.folds
      /\ W.closure = D.closure /\ W.separation = D.separation /\ W.verdict = D.verdict
      /\ W.ledger = D.ledger \ ended /\ Known(W) = Known(D)
      /\ TrueLinks(W) \subseteq old
      /\ \A p \in old \ TrueLinks(W) : \E a \in ended : a.rel = "same" /\ p = a.pair
      /\ Differents(W) = M \ ended
    BY <1>1, EndedForm
<1>3. /\ \A a \in ended : a \in Assertions /\ a.pair \in Pairs /\ a.pair \subseteq Known(D)
      /\ old \in SUBSET SUBSET Refs /\ Known(D) \in SUBSET Refs
    BY <1>1, SoundLinks DEF Sound
<1>4. M \in SUBSET Assertions
    BY <1>1 DEF Sound, Differents, Relating
<1>5. S \in SUBSET Known(D) /\ T \in SUBSET Known(D)
    BY <1>3 DEF Endpoints, Relating
<1>6. \A a \in ended : /\ a.rel = "same" => a.pair \subseteq S
                       /\ a.rel = "different" => a.pair \subseteq T
    BY DEF Endpoints, Relating
<1>7. \A a \in Assertions : a.pair # {}
    BY PairForm DEF Assertions
<1>8. \A a \in M : a.rel = "different"
    BY DEF Differents, Relating
<1> HIDE DEF W, S, T, M, old
<1>9. /\ Sound(F) /\ F.closure = ClosureTable(TrueLinks(F)) /\ F.separation = Keys(TrueLinks(F), N)
      /\ TrueLinks(F) = TrueLinks(W) /\ Differents(F) = Differents(W)
      /\ F.live = W.live /\ F.kinds = W.kinds /\ F.ledger = W.ledger /\ F.folds = W.folds
      /\ F.verdict \in {W.verdict, "aborted"}
      /\ ~Contra(TrueLinks(W), W.ledger) => F.verdict = W.verdict
      /\ N \in SUBSET Assertions
      /\ \A a \in Assertions : a.pair \cap T = {} => (a \in N <=> a \in Differents(W))
    <2>1. CASE S = {}
        <3>1. F = W
            BY <2>1 DEF ReplaceAffectedClosure
        <3>2. TrueLinks(W) = old
            BY <1>2, <1>3, <1>6, <1>7, <2>1
        <3>3. \A a \in Assertions : a.pair \cap T = {} => (a \in M <=> a \in Differents(W))
            BY <1>2, <1>6, <1>7, <1>8
        <3>4. N = M
            BY <2>1
        <3> HIDE DEF F, N
        <3> QED
            BY <1>1, <1>2, <1>4, <3>1, <3>2, <3>3, <3>4
    <2>2. CASE S # {}
        <3>1. /\ area \in SUBSET Refs /\ area \subseteq Known(D) /\ S \subseteq area
              /\ Closed(old, area)
            BY <1>2, <1>5, ClassesKnown DEF old
        <3>2. Closed(TrueLinks(W), area)
            BY <1>2, <3>1 DEF Closed
        <3>3. \A p \in SUBSET Refs : p # {} /\ p \cap area = {} => (p \in old <=> p \in TrueLinks(W))
            BY <1>2, <1>6, <3>1
        <3>4. Closures(W, old, M, S, area)
            <4>1. S \in SUBSET Refs /\ area \cap W.live \subseteq Known(W)
                BY <1>2, <1>3, <1>5, <3>1
            <4> QED
                BY <1>1, <1>2, <1>3, <1>4, <2>2, <3>1, <3>2, <3>3, <4>1 DEF Closures
        <3>5. Rewritten(W, F, Mixed(W, M, area))
            BY <3>4, ClosureRepaired
        <3>6. N = Mixed(W, M, area)
            BY <2>2
        <3>7. N \in SUBSET Assertions
            BY <1>2, <1>4, <3>6 DEF Mixed, Touching
        <3>8. ASSUME NEW a \in Assertions, a.pair \cap T = {} PROVE a \in N <=> a \in Differents(W)
            <4>1. a \in M <=> a \in Differents(W)
                BY <1>2, <1>6, <1>7, <1>8, <3>8
            <4> QED
                BY <3>6, <4>1 DEF Mixed, Touching
        <3> HIDE DEF F, N
        <3>9. TrueLinks(F) = TrueLinks(W) /\ Differents(F) = Differents(W)
            BY <3>5 DEF Rewritten, TrueLinks, Differents, Known
        <3> QED
            BY <3>5, <3>6, <3>7, <3>8, <3>9 DEF Rewritten
    <2> QED
        BY <2>1, <2>2
<1>10. T \in SUBSET Refs
    BY <1>3, <1>5
<1> HIDE DEF F, N
<1> DEFINE E == ReplaceSeparationForReferences(F, T)
<1>11. Repaired(F, E)
    BY <1>9, <1>10, ReferencesRepaired
<1>12. RetractStep(D, ended) = E
    BY DEF RetractStep, Ended, W, S, T, F
<1> HIDE DEF E
<1>13. Repaired(W, E)
    BY <1>9, <1>11 DEF Repaired
<1> QED
    BY <1>12, <1>13 DEF W

\* A bulk call repairs once.
LEMMA BulkRepairs ==
    ASSUME NEW D, Current(D), NEW created \in SUBSET Assertions,
           \A a \in created : a.pair \subseteq Known(D)
    PROVE  /\ (\A a \in created : a.rel = "same") =>
                  Repaired(AssertedAll(D, created),
                           ReplaceAffectedClosure(AssertedAll(D, created), Endpoints(created)))
           /\ (\A a \in created : a.rel = "different") =>
                  Repaired(AssertedAll(D, created),
                           ReplaceSeparationForReferences(AssertedAll(D, created), Endpoints(created)))
<1> DEFINE W == AssertedAll(D, created)
           S == Endpoints(created)
           old == TrueLinks(D)
           M == Differents(D)
<1>1. Sound(D) /\ D.closure = ClosureTable(old) /\ D.separation = Keys(old, M)
    BY DEF Current
<1>2. /\ Sound(W)
      /\ W.live = D.live /\ W.kinds = D.kinds /\ W.folds = D.folds
      /\ W.closure = D.closure /\ W.separation = D.separation /\ W.verdict = D.verdict
      /\ W.ledger = D.ledger \cup created /\ Known(W) = Known(D)
      /\ TrueLinks(W) = old \cup PairsOf(Relating(created, "same"))
      /\ Differents(W) = M \cup Relating(created, "different")
    BY <1>1, AssertedAllForm
<1>3. old \in SUBSET SUBSET Refs /\ Known(D) \in SUBSET Refs
    BY <1>1, SoundLinks
<1>4. M \in SUBSET Assertions
    BY <1>1 DEF Sound, Differents, Relating
<1>5. S \in SUBSET Known(D) /\ \A a \in created : a.pair \subseteq S /\ a.pair # {}
    <2>1. S \in SUBSET Known(D) /\ \A a \in created : a.pair \subseteq S
        BY DEF Endpoints
    <2>2. \A a \in created : a.pair # {}
        BY PairForm DEF Assertions
    <2> QED
        BY <2>1, <2>2
<1> HIDE DEF W, S, M, old
<1>6. ASSUME \A a \in created : a.rel = "same"
      PROVE  Repaired(W, ReplaceAffectedClosure(W, S))
    <2>1. Differents(W) = M
        BY <1>2, <1>6 DEF Relating
    <2>2. \A p \in TrueLinks(W) : p \in old \/ (p \subseteq S /\ p # {})
        BY <1>2, <1>5 DEF PairsOf, Relating
    <2>3. CASE S = {}
        <3>1. ReplaceAffectedClosure(W, S) = W
            BY <2>3 DEF ReplaceAffectedClosure
        <3>2. TrueLinks(W) = old
            BY <1>2, <2>2, <2>3
        <3> QED
            BY <1>1, <1>2, <2>1, <3>1, <3>2 DEF Repaired, Current
    <2>4. CASE S # {}
        <3> DEFINE area == ClassesOf(W, S)
        <3>1. /\ area \in SUBSET Refs /\ area \subseteq Known(D) /\ S \subseteq area
              /\ Closed(old, area)
            BY <1>2, <1>5, ClassesKnown DEF old
        <3>2. Closed(TrueLinks(W), area)
            BY <2>2, <3>1 DEF Closed
        <3>3. \A p \in SUBSET Refs : p # {} /\ p \cap area = {} => (p \in old <=> p \in TrueLinks(W))
            BY <1>2, <2>2, <3>1
        <3>4. Closures(W, old, M, S, area)
            <4>1. S \in SUBSET Refs /\ area \cap W.live \subseteq Known(W)
                BY <1>2, <1>3, <1>5, <3>1
            <4> QED
                BY <1>1, <1>2, <1>3, <1>4, <2>4, <3>1, <3>2, <3>3, <4>1 DEF Closures
        <3> QED
            BY <2>1, <3>4, AffectedRepaired
    <2> QED
        BY <2>3, <2>4
<1>7. ASSUME \A a \in created : a.rel = "different"
      PROVE  Repaired(W, ReplaceSeparationForReferences(W, S))
    <2>1. TrueLinks(W) = old
        BY <1>2, <1>7 DEF Relating, PairsOf
    <2>2. \A a \in Assertions : a.pair \cap S = {} => (a \in M <=> a \in Differents(W))
        BY <1>2, <1>5 DEF Relating
    <2>3. S \in SUBSET Refs
        BY <1>3, <1>5
    <2> QED
        BY <1>1, <1>2, <1>4, <2>1, <2>2, <2>3, ReferencesRepaired
<1> QED
    BY <1>6, <1>7 DEF W, S

-----------------------------------------------------------------------------
(* Nodes. *)

\* Pairs of live nodes of one id: what a change of the nodes does to the links.
LEMMA NodesChanged ==
    ASSUME NEW D, Sound(D), NEW W, Sound(W), W.folds = D.folds,
           W.ledger \subseteq D.ledger
    PROVE  /\ \A p \in TrueLinks(W) \ TrueLinks(D) :
                  p \in Pairs /\ W.folds /\ p \subseteq Known(W) /\ (\A r, s \in p : Id(r) = Id(s))
                  /\ ~(p \subseteq Known(D))
           /\ \A p \in TrueLinks(D) \ TrueLinks(W) :
                  \/ ~(p \subseteq Known(W))
                  \/ \E a \in D.ledger \ W.ledger : a.rel = "same" /\ p = a.pair
<1>1. TrueLinks(D) = FoldLinks(Known(D), D.folds) \cup PairsOf(Relating(D.ledger, "same"))
    BY SoundLinks
<1>2. TrueLinks(W) = FoldLinks(Known(W), D.folds) \cup PairsOf(Relating(W.ledger, "same"))
    BY SoundLinks
<1>3. PairsOf(Relating(W.ledger, "same")) \subseteq PairsOf(Relating(D.ledger, "same"))
    BY DEF PairsOf, Relating
<1>4. \A p \in PairsOf(Relating(D.ledger, "same")) \ PairsOf(Relating(W.ledger, "same")) :
          \E a \in D.ledger \ W.ledger : a.rel = "same" /\ p = a.pair
    BY DEF PairsOf, Relating
<1>5. \A p \in FoldLinks(Known(W), D.folds) \ FoldLinks(Known(D), D.folds) :
          p \in Pairs /\ W.folds /\ p \subseteq Known(W) /\ (\A r, s \in p : Id(r) = Id(s))
          /\ ~(p \subseteq Known(D))
    BY DEF FoldLinks
<1>6. \A p \in FoldLinks(Known(D), D.folds) \ FoldLinks(Known(W), D.folds) : ~(p \subseteq Known(W))
    BY DEF FoldLinks
<1> QED
    BY <1>1, <1>2, <1>3, <1>4, <1>5, <1>6

Added(D, created) == [D EXCEPT !.live = @ \cup created]

LEMMA AddedForm ==
    ASSUME NEW D, Sound(D), NEW created \in SUBSET OfKinds(Refs, D.kinds)
    PROVE  LET W == Added(D, created)
           IN  /\ Sound(W)
               /\ W.live = D.live \cup created
               /\ W.kinds = D.kinds /\ W.ledger = D.ledger /\ W.folds = D.folds
               /\ W.closure = D.closure /\ W.separation = D.separation /\ W.verdict = D.verdict
               /\ Known(W) = Known(D) \cup created /\ Differents(W) = Differents(D)
<1> DEFINE W == Added(D, created)
<1>1. IsDraft(D)
    BY DEF Sound
<1>2. W = [live |-> D.live \cup created, kinds |-> D.kinds, ledger |-> D.ledger, folds |-> D.folds,
           closure |-> D.closure, separation |-> D.separation, verdict |-> D.verdict]
    BY <1>1 DEF Added, IsDraft
<1> HIDE DEF W
<1>3. /\ W.live = D.live \cup created
      /\ W.kinds = D.kinds /\ W.ledger = D.ledger /\ W.folds = D.folds
      /\ W.closure = D.closure /\ W.separation = D.separation /\ W.verdict = D.verdict
      /\ IsDraft(W)
    BY <1>2 DEF IsDraft
<1>4. Known(W) = Known(D) \cup created /\ Differents(W) = Differents(D)
    BY <1>3 DEF Known, OfKinds, Differents
<1>5. Sound(W)
    BY <1>3, <1>4 DEF Sound, OfKinds
<1> QED
    BY <1>3, <1>4, <1>5 DEF W

Peers(D, r) == {s \in Known(D) : Id(s) = Id(r) /\ s # r}
FoldedNodes(D, created) == {r \in created : Peers(D, r) # {}}
FoldArea(D, created) == FoldedNodes(D, created) \cup UNION {Peers(D, r) : r \in FoldedNodes(D, created)}

FoldRefuses(D, created) ==
    D.folds /\ \E r \in FoldedNodes(D, created) : \E s \in Peers(D, r) :
                   Contradicts(D, [rel |-> "same", pair |-> {r, s}])

\* A fold of new nodes is refused, or repairs the classes of the nodes of one id.
LEMMA FoldRepairs ==
    ASSUME NEW D, Current(D), NEW created \in SUBSET OfKinds(Refs, D.kinds)
    PROVE  \/ /\ FoldRefuses(Added(D, created), created)
              /\ FoldNodes(Added(D, created), created).verdict = "refused"
           \/ /\ ~FoldRefuses(Added(D, created), created)
              /\ Repaired(Added(D, created), FoldNodes(Added(D, created), created))
<1> DEFINE W == Added(D, created)
           E == FoldNodes(W, created)
           old == TrueLinks(D)
           M == Differents(D)
           S == FoldArea(W, created)
           refused == \E r \in FoldedNodes(W, created) : \E s \in Peers(W, r) :
                          Contradicts(W, [rel |-> "same", pair |-> {r, s}])
<1>1. Sound(D) /\ D.closure = ClosureTable(old) /\ D.separation = Keys(old, M)
    BY DEF Current
<1>2. /\ Sound(W)
      /\ W.live = D.live \cup created
      /\ W.kinds = D.kinds /\ W.ledger = D.ledger /\ W.folds = D.folds
      /\ W.closure = D.closure /\ W.separation = D.separation /\ W.verdict = D.verdict
      /\ Known(W) = Known(D) \cup created /\ Differents(W) = M
    BY <1>1, AddedForm
<1>3. /\ old \in SUBSET SUBSET Refs /\ old \in SUBSET SUBSET Known(D)
      /\ Known(D) \in SUBSET Refs /\ Known(W) \in SUBSET Refs
      /\ \A p \in TrueLinks(W) : p # {}
    BY <1>1, <1>2, SoundLinks
<1>4. M \in SUBSET Assertions
    BY <1>1 DEF Sound, Differents, Relating
<1>5. old \subseteq TrueLinks(W)
    BY <1>1, <1>2, <1>3, NodesChanged
<1>6. \A p \in TrueLinks(W) \ old :
          p \in Pairs /\ W.folds /\ p \subseteq Known(W) /\ (\A r, s \in p : Id(r) = Id(s))
          /\ ~(p \subseteq Known(D))
    BY <1>1, <1>2, NodesChanged
<1>7. E = IF ~W.folds THEN W
          ELSE IF refused THEN [W EXCEPT !.verdict = "refused"]
          ELSE ReplaceAffectedClosure(W, S)
    BY DEF FoldNodes, Peers, FoldedNodes, FoldArea, Known
<1>8. \A p \in TrueLinks(W) \ old : p \subseteq S
    <2> SUFFICES ASSUME NEW p \in TrueLinks(W) \ old PROVE p \subseteq S
        OBVIOUS
    <2>1. PICK x \in Refs, y \in Refs : x # y /\ p = {x, y}
        BY <1>6, PairForm
    <2>2. x \in Known(W) /\ y \in Known(W) /\ Id(x) = Id(y) /\ (x \in created \/ y \in created)
        BY <1>2, <1>6, <2>1
    <2>3. x \in Peers(W, y) /\ y \in Peers(W, x)
        BY <2>1, <2>2 DEF Peers
    <2>4. CASE x \in created
        BY <2>1, <2>3, <2>4 DEF FoldedNodes, FoldArea
    <2>5. CASE y \in created
        BY <2>1, <2>3, <2>5 DEF FoldedNodes, FoldArea
    <2> QED
        BY <2>2, <2>4, <2>5
<1>9. S \in SUBSET Known(W)
    BY <1>2 DEF FoldArea, FoldedNodes, Peers
<1>a. FoldRefuses(W, created) <=> W.folds /\ refused
    BY DEF FoldRefuses
<1>b. S = {} => ~refused
    BY DEF FoldArea
<1> HIDE DEF W, old, M, S, refused
<1>10. CASE ~W.folds \/ S = {}
    <2>1. TrueLinks(W) = old
        BY <1>3, <1>5, <1>6, <1>8, <1>10
    <2>2. Repaired(W, W)
        BY <1>1, <1>2, <2>1 DEF Repaired, Current
    <2>3. S = {} => ReplaceAffectedClosure(W, S) = W
        BY DEF ReplaceAffectedClosure
    <2>4. E = W /\ ~FoldRefuses(W, created)
        BY <1>7, <1>10, <1>a, <1>b, <2>3
    <2> HIDE DEF E
    <2> QED
        BY <2>2, <2>4 DEF E, W
<1>11. CASE W.folds /\ S # {} /\ refused
    <2>1. E = [W EXCEPT !.verdict = "refused"]
        BY <1>7, <1>11
    <2>2. [W EXCEPT !.verdict = "refused"].verdict = "refused"
        BY <1>2, Updates DEF Sound
    <2> HIDE DEF E
    <2> QED
        BY <1>11, <1>a, <2>1, <2>2 DEF E, W
<1>12. CASE W.folds /\ S # {} /\ ~refused
    <2>1. E = ReplaceAffectedClosure(W, S)
        BY <1>7, <1>12
    <2> DEFINE area == ClassesOf(W, S)
    <2>2. Closed(old, Known(W))
        BY <1>2, <1>3 DEF Closed
    <2>3. /\ area \in SUBSET Refs /\ S \subseteq area /\ Closed(old, area) /\ area \subseteq Known(W)
        <3>1. W.closure = ClosureTable(old) /\ S \in SUBSET Refs
            BY <1>1, <1>2, <1>3, <1>9
        <3> QED
            BY <1>3, <1>9, <2>2, <3>1, ClassesRead
    <2>4. Closed(TrueLinks(W), area)
        BY <1>8, <2>3 DEF Closed
    <2>5. \A p \in SUBSET Refs : p # {} /\ p \cap area = {} => (p \in old <=> p \in TrueLinks(W))
        BY <1>5, <1>8, <2>3
    <2>6. Closures(W, old, M, S, area)
        <3>1. S \in SUBSET Refs /\ area \cap W.live \subseteq Known(W)
            BY <1>3, <1>9, <2>3
        <3> QED
            BY <1>1, <1>2, <1>3, <1>4, <1>12, <2>3, <2>4, <2>5, <3>1 DEF Closures
    <2>7. Repaired(W, E)
        BY <1>2, <2>1, <2>6, AffectedRepaired
    <2> QED
        BY <1>12, <1>a, <2>7 DEF W
<1> QED
    BY <1>10, <1>11, <1>12

Removed(D, r) == [D EXCEPT !.live = @ \ {r}, !.ledger = @ \ Touching(D.ledger, {r})]

LEMMA RemovedForm ==
    ASSUME NEW D, Sound(D), NEW r \in Known(D)
    PROVE  LET W == Removed(D, r)
           IN  /\ Sound(W)
               /\ W.live = D.live \ {r}
               /\ W.kinds = D.kinds /\ W.folds = D.folds
               /\ W.ledger = {a \in D.ledger : r \notin a.pair}
               /\ W.closure = D.closure /\ W.separation = D.separation /\ W.verdict = D.verdict
               /\ Known(W) = Known(D) \ {r}
<1> DEFINE W == Removed(D, r)
<1>1. IsDraft(D)
    BY DEF Sound
<1>2. W = [live |-> D.live \ {r}, kinds |-> D.kinds, ledger |-> D.ledger \ Touching(D.ledger, {r}),
           folds |-> D.folds,
           closure |-> D.closure, separation |-> D.separation, verdict |-> D.verdict]
    <2> DEFINE Row(x, y) == [live |-> x, kinds |-> D.kinds, ledger |-> y, folds |-> D.folds,
                             closure |-> D.closure, separation |-> D.separation,
                             verdict |-> D.verdict]
    <2> DEFINE F == [D EXCEPT !.live = @ \ {r}]
    <2>1. W = [F EXCEPT !.ledger = D.ledger \ Touching(D.ledger, {r})]
        BY DEF Removed
    <2>2. F = Row(D.live \ {r}, D.ledger)
        BY <1>1 DEF IsDraft
    <2>3. \A v, w, x : [Row(v, w) EXCEPT !.ledger = x] = Row(v, x)
        OBVIOUS
    <2> HIDE DEF Row, F, W
    <2>4. W = Row(D.live \ {r}, D.ledger \ Touching(D.ledger, {r}))
        BY <2>1, <2>2, <2>3
    <2> QED
        BY <2>4 DEF Row
<1>3. D.ledger \ Touching(D.ledger, {r}) = {a \in D.ledger : r \notin a.pair}
    BY DEF Touching
<1> HIDE DEF W
<1>4. /\ W.live = D.live \ {r}
      /\ W.kinds = D.kinds /\ W.ledger = {a \in D.ledger : r \notin a.pair} /\ W.folds = D.folds
      /\ W.closure = D.closure /\ W.separation = D.separation /\ W.verdict = D.verdict
      /\ IsDraft(W)
    BY <1>2, <1>3 DEF IsDraft
<1>5. Known(W) = Known(D) \ {r}
    BY <1>4 DEF Known, OfKinds
<1>6. Sound(W)
    BY <1>4, <1>5 DEF Sound, Endpoints
<1> QED
    BY <1>4, <1>5, <1>6 DEF W

\* A delete repairs the class of the node, if it ever took part in identity.
LEMMA DeleteRepairs ==
    ASSUME NEW D, Current(D), NEW r \in Known(D)
    PROVE  Repaired(Removed(D, r),
                    IF Touching(D.ledger, {r}) = {} /\ r \notin DOMAIN D.closure THEN Removed(D, r)
                    ELSE ReplaceAffectedClosure(Removed(D, r), {r}))
<1> DEFINE W == Removed(D, r)
           old == TrueLinks(D)
           M == Differents(D)
<1>1. Sound(D) /\ D.closure = ClosureTable(old) /\ D.separation = Keys(old, M)
    BY DEF Current
<1>2. /\ Sound(W)
      /\ W.live = D.live \ {r}
      /\ W.kinds = D.kinds /\ W.folds = D.folds
      /\ W.ledger = {a \in D.ledger : r \notin a.pair}
      /\ W.closure = D.closure /\ W.separation = D.separation /\ W.verdict = D.verdict
      /\ Known(W) = Known(D) \ {r}
    BY <1>1, RemovedForm
<1>3. /\ old \in SUBSET SUBSET Refs /\ old \in SUBSET SUBSET Known(D)
      /\ Known(D) \in SUBSET Refs
    BY <1>1, SoundLinks
<1>4. M \in SUBSET Assertions
    BY <1>1 DEF Sound, Differents, Relating
<1>5. \A p \in TrueLinks(W) : p \in old /\ r \notin p
    <2>1. TrueLinks(W) \in SUBSET SUBSET Known(W)
        BY <1>2, SoundLinks
    <2>2. \A p \in TrueLinks(W) \ old : ~(p \subseteq Known(D)) /\ p \subseteq Known(W)
        BY <1>1, <1>2, NodesChanged
    <2> QED
        BY <1>2, <2>1, <2>2
<1>6. \A p \in old \ TrueLinks(W) : r \in p
    <2>1. \A p \in old \ TrueLinks(W) :
              \/ ~(p \subseteq Known(W))
              \/ \E a \in D.ledger \ W.ledger : a.rel = "same" /\ p = a.pair
        BY <1>1, <1>2, NodesChanged
    <2> QED
        BY <1>2, <1>3, <2>1
<1>7. \A a \in Assertions : r \notin a.pair => (a \in M <=> a \in Differents(W))
    BY <1>2 DEF Differents, Relating
<1>8. r \in Refs
    BY <1>3
<1> HIDE DEF old, M, W
<1>9. CASE Touching(D.ledger, {r}) = {} /\ r \notin DOMAIN D.closure
    <2>1. \A p \in old : r \notin p
        <3> SUFFICES ASSUME NEW p \in old, r \in p PROVE FALSE
            OBVIOUS
        <3>1. ~(Cardinality(Reach(old, r)) > 1)
            BY <1>1, <1>8, <1>9 DEF ClosureTable
        <3>2. r \in Reach(old, r) /\ Closed(old, Reach(old, r)) /\ Reach(old, r) \in SUBSET Refs
            BY <1>3, <1>8, ReachLeast
        <3>3. p \in Pairs
            BY <1>1, SoundLinks DEF old
        <3>4. PICK x \in Refs, y \in Refs : x # y /\ p = {x, y}
            BY <3>3, PairForm
        <3>5. x \in Reach(old, r) /\ y \in Reach(old, r)
            BY <3>2, <3>4 DEF Closed
        <3> QED
            BY <3>1, <3>2, <3>4, <3>5, Sizes
    <2>2. TrueLinks(W) = old
        BY <1>5, <1>6, <2>1
    <2>3. W.ledger = D.ledger
        BY <1>2, <1>9 DEF Touching
    <2>4. Differents(W) = M
        BY <2>3 DEF Differents, M
    <2>5. Repaired(W, W)
        BY <1>1, <1>2, <2>2, <2>4 DEF Repaired, Current
    <2> QED
        BY <1>9, <2>5 DEF W
<1>10. CASE ~(Touching(D.ledger, {r}) = {} /\ r \notin DOMAIN D.closure)
    <2> DEFINE S == {r}
               area == ClassesOf(W, S)
    <2>1. S \in SUBSET Known(D) /\ S \in SUBSET Refs /\ S # {}
        BY <1>8
    <2>2. /\ area \in SUBSET Refs /\ area \subseteq Known(D) /\ S \subseteq area
          /\ Closed(old, area)
        <3> HIDE DEF S
        <3> QED
            BY <1>2, <2>1, ClassesKnown DEF old
    <2>3. r \in area
        BY <2>2
    <2>4. Closed(TrueLinks(W), area)
        BY <1>5, <2>2 DEF Closed
    <2>5. \A p \in SUBSET Refs : p # {} /\ p \cap area = {} => (p \in old <=> p \in TrueLinks(W))
        BY <1>5, <1>6, <2>3
    <2>6. area \cap W.live \subseteq Known(W)
        BY <1>2, <2>2
    <2>7. \A a \in Assertions : a.pair \cap area = {} => (a \in M <=> a \in Differents(W))
        BY <1>7, <2>3
    <2> HIDE DEF S
    <2>8. Closures(W, old, M, S, area)
        BY <1>1, <1>2, <1>3, <1>4, <2>1, <2>2, <2>4, <2>5, <2>6 DEF Closures
    <2>9. Repaired(W, ReplaceAffectedClosure(W, S))
        BY <2>7, <2>8, AffectedRepaired
    <2> QED
        BY <1>10, <2>9 DEF W, S
<1> QED
    BY <1>9, <1>10

-----------------------------------------------------------------------------
(* Rebuilding the tables whole. *)

LEMMA RebuildRepairs ==
    ASSUME NEW D, Sound(D)
    PROVE  Repaired(D, ReplaceClosure(D))
<1> DEFINE links == TrueLinks(D)
           nodes == Known(D)
           same == Relating(D.ledger, "same")
           within == nodes \cup Endpoints(same)
           local == FoldLinks(nodes, D.folds) \cup PairsOf(same)
           parts == Components(nodes, same, D.folds)
           classes == {P \in parts : Cardinality(P) > 1}
           rows == UNION classes
           empty == [D EXCEPT !.closure = <<>>, !.separation = {}]
           F == InsertClosure(empty, parts)
           keys == {{Least(PartOf(parts, r)) : r \in a.pair} : a \in Differents(D)}
           E == InsertSeparation(F, keys)
<1>1. /\ links \in SUBSET SUBSET Refs /\ links = local
      /\ nodes \in SUBSET Refs
      /\ \A a \in D.ledger : a.pair \in Pairs /\ a.pair \subseteq nodes /\ a.pair \subseteq Refs
    BY SoundLinks
<1>2. Snapshot(D).nodes = nodes /\ Snapshot(D).ledger = D.ledger
    <2>1. \A a \in D.ledger : a.pair = OfKinds(a.pair, D.kinds)
        BY <1>1 DEF OfKinds, Known
    <2> QED
        BY <2>1 DEF Snapshot, Known
<1>3. SnapshotParts(D) = parts
    BY <1>2 DEF SnapshotParts
<1>4. ReplaceClosure(D) = E
    BY <1>2, <1>3 DEF ReplaceClosure, Differents
<1>5. same \in SUBSET Assertions
    BY DEF Sound, Relating
<1>6. Covers(parts, local, within)
    <2> HIDE DEF nodes, same
    <2> QED
        BY <1>1, <1>5, ComponentsPartition
<1>7. /\ rows = {r \in Refs : Cardinality(Reach(links, r)) > 1}
      /\ \A r \in rows : PartOf(classes, r) = Reach(links, r)
    <2> HIDE DEF local, within, parts, links
    <2> QED
        BY <1>1, <1>6, RowsOfParts
<1>8. \A r \in Refs : PartOf(parts, r) = Reach(links, r)
    <2> HIDE DEF local, within, parts, links
    <2> QED
        BY <1>1, <1>6, PartsAreClasses
<1> HIDE DEF parts, links
<1> DEFINE table == [r \in DOMAIN <<>> \cup rows |->
                         IF r \in rows THEN Least(PartOf(classes, r)) ELSE <<>>[r]]
<1>9. DOMAIN <<>> = {}
    OBVIOUS
<1>10. table = ClosureTable(links)
    <2> HIDE DEF rows, classes
    <2>1. DOMAIN <<>> \cup rows = rows
        BY <1>9
    <2>2. \A r \in rows : (IF r \in rows THEN Least(PartOf(classes, r)) ELSE <<>>[r])
                              = Least(Reach(links, r))
        BY <1>7
    <2>3. table = [r \in rows |-> Least(Reach(links, r))]
        BY <2>1, <2>2, Zenon
    <2> QED
        BY <1>7, <2>3, Zenon DEF ClosureTable
<1>11. /\ IsDraft(empty) /\ empty.live = D.live /\ empty.kinds = D.kinds
       /\ empty.ledger = D.ledger /\ empty.folds = D.folds /\ empty.closure = <<>>
       /\ empty.separation = {} /\ empty.verdict = D.verdict
    <2> DEFINE Row(x, y) == [live |-> D.live, kinds |-> D.kinds, ledger |-> D.ledger,
                             folds |-> D.folds, closure |-> x, separation |-> y,
                             verdict |-> D.verdict]
               half == [D EXCEPT !.closure = <<>>]
    <2>1. empty = [half EXCEPT !.separation = {}]
        OBVIOUS
    <2>2. half = Row(<<>>, D.separation)
        BY Updates DEF Sound
    <2>3. \A x, y, z : [Row(x, y) EXCEPT !.separation = z] = Row(x, z)
        OBVIOUS
    <2> HIDE DEF Row, half, empty
    <2>4. empty = Row(<<>>, {})
        BY <2>1, <2>2, <2>3
    <2> QED
        BY <2>4 DEF Row, IsDraft
<1> HIDE DEF empty
<1>12. F = [live |-> empty.live, kinds |-> empty.kinds,
            ledger |-> empty.ledger, folds |-> empty.folds,
            closure |-> [r \in DOMAIN empty.closure \cup rows |->
                             IF r \in rows THEN Least(PartOf(classes, r)) ELSE empty.closure[r]],
            separation |-> empty.separation,
            verdict |-> IF rows \cap DOMAIN empty.closure = {} THEN empty.verdict ELSE "aborted"]
    <2>1. IsDraft(empty)
        BY <1>11
    <2> QED
        BY <2>1, InsertClosureForm
<1>13. F = [live |-> D.live, kinds |-> D.kinds, ledger |-> D.ledger, folds |-> D.folds,
            closure |-> ClosureTable(links), separation |-> {}, verdict |-> D.verdict]
    <2>1. rows \cap DOMAIN <<>> = {}
        BY <1>9
    <2> HIDE DEF rows, classes, F
    <2> QED
        BY <1>10, <1>11, <1>12, <2>1, Zenon
<1> HIDE DEF F
<1>14. keys = Keys(links, Differents(D))
    <2>1. \A a \in Differents(D) : a.pair \subseteq Refs
        BY <1>1 DEF Differents, Relating
    <2>2. \A a \in Differents(D) :
              {Least(PartOf(parts, r)) : r \in a.pair} = {Least(Reach(links, r)) : r \in a.pair}
        BY <1>8, <2>1
    <2> QED
        BY <2>2 DEF Keys
<1> HIDE DEF keys
<1> DEFINE Row(x, v) == [live |-> D.live, kinds |-> D.kinds, ledger |-> D.ledger, folds |-> D.folds,
                         closure |-> ClosureTable(links), separation |-> x, verdict |-> v]
           put == [F EXCEPT !.separation = @ \cup keys]
<1>15. E = IF \A p \in keys : Cardinality(p) = 2 THEN put ELSE [put EXCEPT !.verdict = "aborted"]
    BY DEF InsertSeparation, Guarded
<1>16. F = Row({}, D.verdict)
    BY <1>13
<1>17. put = Row(keys, D.verdict)
    <2>1. \A x, y : [Row(x, D.verdict) EXCEPT !.separation = y] = Row(y, D.verdict)
        OBVIOUS
    <2>2. F.separation = {}
        BY <1>13
    <2> HIDE DEF Row
    <2>3. put = [F EXCEPT !.separation = keys]
        BY <2>2
    <2> HIDE DEF put
    <2> QED
        BY <1>16, <2>1, <2>3
<1>18. [put EXCEPT !.verdict = "aborted"] = Row(keys, "aborted")
    <2>1. \A x, v, w : [Row(x, v) EXCEPT !.verdict = w] = Row(x, w)
        OBVIOUS
    <2> HIDE DEF put, Row
    <2> QED
        BY <1>17, <2>1
<1>19. E = Row(keys, IF \A p \in keys : Cardinality(p) = 2 THEN D.verdict ELSE "aborted")
    <2> HIDE DEF put, Row, E
    <2> QED
        BY <1>15, <1>17, <1>18
<1> HIDE DEF E
<1>20. /\ E.live = D.live /\ E.kinds = D.kinds /\ E.ledger = D.ledger /\ E.folds = D.folds
       /\ E.closure = ClosureTable(links) /\ E.separation = keys /\ IsDraft(E)
       /\ E.verdict = IF \A p \in keys : Cardinality(p) = 2 THEN D.verdict ELSE "aborted"
    BY <1>19 DEF IsDraft
<1>21. Sound(E) /\ TrueLinks(E) = links /\ Differents(E) = Differents(D)
    BY <1>20 DEF Sound, TrueLinks, Differents, Known, links
<1>22. Current(E)
    BY <1>14, <1>20, <1>21 DEF Current
<1>23. ASSUME ~Contra(links, D.ledger), NEW p \in keys PROVE Cardinality(p) = 2
    <2>1. PICK a \in Differents(D) : p = {Least(Reach(links, r)) : r \in a.pair}
        BY <1>14, <1>23 DEF Keys
    <2>2. a \in D.ledger /\ a.rel = "different" /\ a.pair \in Pairs
        BY <1>1, <2>1 DEF Differents, Relating
    <2>3. ~ \E r \in a.pair : a.pair \subseteq Reach(links, r)
        BY <1>23, <2>2 DEF Contra
    <2> QED
        BY <1>1, <2>1, <2>2, <2>3, KeyOfPair
<1> QED
    BY <1>4, <1>20, <1>22, <1>23 DEF Repaired, links

-----------------------------------------------------------------------------
(* The frames. *)

LEMMA DraftFields ==
    /\ IsDraft(Draft) /\ Draft.live = live /\ Draft.kinds = kinds /\ Draft.ledger = ledger
    /\ Draft.folds = folds /\ Draft.closure = closure /\ Draft.separation = separation
    /\ Draft.verdict = "done" /\ Known(Draft) = OfKinds(live, kinds)
BY DEF Draft, IsDraft, Known

\* The state a frame leaves, as a draft.
Left ==
    [live |-> live', kinds |-> kinds', ledger |-> ledger', folds |-> folds',
     closure |-> closure', separation |-> separation', verdict |-> "done"]

Stays == Current(Draft)

LEMMA LeftIsNext == Stays' <=> Current(Left)
BY DEF Stays, Left, Draft

LEMMA InstallKeeps ==
    ASSUME NEW E, Current(E), Install(E)
    PROVE  Stays'
<1>1. /\ Left.live = E.live /\ Left.kinds = E.kinds /\ Left.ledger = E.ledger
      /\ Left.folds = E.folds /\ Left.closure = E.closure /\ Left.separation = E.separation
      /\ IsDraft(Left)
    BY DEF Left, Install, IsDraft
<1>2. Sound(Left) /\ TrueLinks(Left) = TrueLinks(E) /\ Differents(Left) = Differents(E)
    BY <1>1 DEF Current, Sound, TrueLinks, Differents, Known
<1>3. Current(Left)
    BY <1>1, <1>2 DEF Current
<1> QED
    BY <1>3, LeftIsNext

LEMMA TablesKept ==
    ASSUME Stays, UNCHANGED tables
    PROVE  Stays'
<1>1. Left = Draft
    BY DEF Left, Draft, tables
<1> QED
    BY <1>1, LeftIsNext DEF Stays

LEMMA FrameKeeps ==
    ASSUME NEW E, Stays, Commit(E), E.verdict = "done" => Current(E)
    PROVE  Stays'
BY InstallKeeps, TablesKept DEF Commit

LEMMA AssertableForm ==
    ASSUME NEW a \in Assertable
    PROVE  a \in Assertions /\ a.pair \subseteq Known(Draft)
BY DraftFields DEF Assertable

\* The union-find of a bulk call: what it is made of, whatever it is asked.
IsBulk(B) == B = [parts |-> B.parts, known |-> B.known, created |-> B.created, refused |-> B.refused]

BulkRefuses(B, a) ==
    LET roots == {PartOf(B.parts, r) : r \in a.pair}
        apart == \E d \in Relating(B.known, "different") :
                     {PartOf(B.parts, r) : r \in d.pair} = roots
    IN  \/ a.rel = "different" /\ Cardinality(roots) = 1
        \/ a.rel = "same" /\ apart
        \/ /\ a.rel = "same"
           /\ \E r, s \in a.pair : r # s /\ DisjointKinds(PartOf(B.parts, r), PartOf(B.parts, s))

LEMMA BulkStepForm ==
    ASSUME NEW B, IsBulk(B), NEW a
    PROVE  LET C == BulkStep(B, a)
           IN  /\ IsBulk(C) /\ C.known = B.known
               /\ C.created = B.created \/ C.created = B.created \cup {a}
               /\ C.refused = B.refused \/ C.refused = TRUE
               /\ \/ (B.refused \/ a \in B.known \cup B.created) /\ C = B
                  \/ /\ ~B.refused /\ BulkRefuses(B, a)
                     /\ C.refused = TRUE /\ C.created = B.created
                  \/ /\ ~B.refused /\ ~BulkRefuses(B, a)
                     /\ C.refused = B.refused /\ C.created = B.created \cup {a}
                     /\ C.parts = IF a.rel = "same" THEN Union(a.pair, B.parts) ELSE B.parts
<1> DEFINE C == BulkStep(B, a)
           parts == IF a.rel = "same" THEN Union(a.pair, B.parts) ELSE B.parts
           created == B.created \cup {a}
           Row(p, c, f) == [parts |-> p, known |-> B.known, created |-> c, refused |-> f]
<1>1. \/ (B.refused \/ a \in B.known \cup B.created) /\ C = B
      \/ ~B.refused /\ BulkRefuses(B, a) /\ C = [B EXCEPT !.refused = TRUE]
      \/ ~B.refused /\ ~BulkRefuses(B, a)
         /\ C = [[B EXCEPT !.created = created] EXCEPT !.parts = parts]
    <2>1. CASE B.refused \/ a \in B.known \cup B.created
        BY <2>1 DEF BulkStep
    <2>2. CASE ~(B.refused \/ a \in B.known \cup B.created) /\ BulkRefuses(B, a)
        <3>1. C = [B EXCEPT !.refused = TRUE]
            BY <2>2 DEF BulkStep, BulkRefuses
        <3> QED
            BY <2>2, <3>1
    <2>3. CASE ~(B.refused \/ a \in B.known \cup B.created) /\ ~BulkRefuses(B, a)
        <3>1. C = [[B EXCEPT !.created = created] EXCEPT !.parts = parts]
            BY <2>3 DEF BulkStep, BulkRefuses
        <3> QED
            BY <2>3, <3>1
    <2> QED
        BY <2>1, <2>2, <2>3
<1>2. B = Row(B.parts, B.created, B.refused)
    BY DEF IsBulk
<1>3. /\ \A p, c, f, x : [Row(p, c, f) EXCEPT !.parts = x] = Row(x, c, f)
      /\ \A p, c, f, x : [Row(p, c, f) EXCEPT !.created = x] = Row(p, x, f)
    OBVIOUS
<1>4. [B EXCEPT !.refused = TRUE] = Row(B.parts, B.created, TRUE)
    <2>1. [Row(B.parts, B.created, B.refused) EXCEPT !.refused = TRUE] = Row(B.parts, B.created, TRUE)
        <3> DEFINE t == TRUE
        <3> HIDE DEF t
        <3>1. [Row(B.parts, B.created, B.refused) EXCEPT !.refused = t] = Row(B.parts, B.created, t)
            OBVIOUS
        <3> HIDE DEF Row
        <3> QED
            BY <3>1, Zenon DEF t
    <2> HIDE DEF Row
    <2> QED
        BY <1>2, <2>1, Zenon
<1>6. [[B EXCEPT !.created = created] EXCEPT !.parts = parts] = Row(parts, created, B.refused)
    <2>1. [Row(B.parts, B.created, B.refused) EXCEPT !.created = created]
              = Row(B.parts, created, B.refused)
        BY <1>3
    <2>2. [Row(B.parts, created, B.refused) EXCEPT !.parts = parts] = Row(parts, created, B.refused)
        BY <1>3
    <2> HIDE DEF Row, created, parts
    <2> QED
        BY <1>2, <2>1, <2>2, Zenon
<1> HIDE DEF C
<1>5. \/ (B.refused \/ a \in B.known \cup B.created) /\ C = B
      \/ ~B.refused /\ BulkRefuses(B, a) /\ C = Row(B.parts, B.created, TRUE)
      \/ ~B.refused /\ ~BulkRefuses(B, a) /\ C = Row(parts, created, B.refused)
    <2> HIDE DEF Row, created, parts
    <2> QED
        BY <1>1, <1>2, <1>4, <1>6
<1>7. CASE (B.refused \/ a \in B.known \cup B.created) /\ C = B
    BY <1>7 DEF C
<1>8. CASE ~B.refused /\ BulkRefuses(B, a) /\ C = Row(B.parts, B.created, TRUE)
    <2>1. C.refused = TRUE /\ C.created = B.created /\ C.known = B.known /\ IsBulk(C)
        BY <1>8 DEF IsBulk
    <2> QED
        BY <1>8, <2>1 DEF C
<1>9. CASE ~B.refused /\ ~BulkRefuses(B, a) /\ C = Row(parts, created, B.refused)
    <2>1. C.refused = B.refused /\ C.created = created /\ C.known = B.known /\ C.parts = parts
          /\ IsBulk(C)
        <3> HIDE DEF parts, created
        <3> QED
            BY <1>9 DEF IsBulk
    <2> HIDE DEF C
    <2> QED
        BY <1>9, <2>1 DEF C
<1> QED
    BY <1>5, <1>7, <1>8, <1>9

\* A request, as its elements.
LEMMA RequestForm ==
    ASSUME NEW request \in Requests
    PROVE  /\ \E n \in 1 .. MaxRequest :
                  DOMAIN request = 1 .. n /\ Range(request) = {request[i] : i \in 1 .. n}
           /\ \A i \in DOMAIN request : request[i] \in Assertable
           /\ 1 \in DOMAIN request
<1>1. PICK n \in 1 .. MaxRequest : request \in [1 .. n -> Assertable]
    BY DEF Requests
<1>2. DOMAIN request = 1 .. n /\ 1 \in 1 .. n
    BY <1>1, BoundsAssumption
<1>3. Range(request) = {request[i] : i \in 1 .. n}
    BY <1>2 DEF Range
<1> QED
    BY <1>1, <1>2, <1>3

LEMMA BulkCreates ==
    ASSUME NEW D, NEW request \in Requests
    PROVE  /\ Bulk(D, request).created \subseteq Range(request)
           /\ Bulk(D, request).refused \in BOOLEAN
<1>1. PICK n \in 1 .. MaxRequest :
          DOMAIN request = 1 .. n /\ Range(request) = {request[i] : i \in 1 .. n}
    BY RequestForm
<1>2. n \in Nat
    BY BoundsAssumption
<1> DEFINE structural == ClassesOf(D, Endpoints(Range(request)))
           known == Touching(D.ledger, structural)
           base == [parts |-> Components(structural, Relating(known, "same"), D.folds),
                    known |-> known, created |-> {}, refused |-> FALSE]
<1>3. Bulk(D, request) = BulkFolded(base, request)
    BY DEF Bulk, BulkFolded
<1>4. IsBulk(base) /\ base.created = {} /\ base.refused = FALSE
    BY DEF IsBulk
<1> HIDE DEF base
<1>5. PICK h : /\ h[0] = base
               /\ \A i \in 1 .. n : h[i] = BulkStep(h[i - 1], request[i])
               /\ BulkFolded(base, request) = h[n]
    BY <1>1, <1>2, BulkFold
<1> DEFINE Good(B) == IsBulk(B) /\ B.created \subseteq Range(request) /\ B.refused \in BOOLEAN
           N == {i \in Nat : i <= n => Good(h[i])}
<1>6. 0 \in N
    BY <1>4, <1>5
<1>7. ASSUME NEW i \in Nat, i \in N PROVE i + 1 \in N
    <2> SUFFICES ASSUME i + 1 <= n PROVE Good(h[i + 1])
        OBVIOUS
    <2>1. Good(h[i]) /\ i + 1 \in 1 .. n /\ (i + 1) - 1 = i
        BY <1>2, <1>7
    <2>2. h[i + 1] = BulkStep(h[i], request[i + 1]) /\ request[i + 1] \in Range(request)
        BY <1>1, <1>5, <2>1
    <2> DEFINE B == h[i]
               C == BulkStep(B, request[i + 1])
    <2>3. IsBulk(B)
        BY <2>1
    <2> HIDE DEF B
    <2>4. /\ IsBulk(C)
          /\ C.created = B.created \/ C.created = B.created \cup {request[i + 1]}
          /\ C.refused = B.refused \/ C.refused = TRUE
        BY <2>3, BulkStepForm
    <2> QED
        BY <2>1, <2>2, <2>4 DEF B
<1> HIDE DEF Good, N
<1>8. Nat \subseteq N
    BY <1>6, <1>7, Numbers
<1>9. Good(h[n])
    BY <1>2, <1>8 DEF N
<1> QED
    BY <1>3, <1>5, <1>9 DEF Good

LEMMA BulkAssertKeeps == Stays /\ BulkAssert => Stays'
<1> SUFFICES ASSUME Stays, BulkAssert PROVE Stays'
    OBVIOUS
<1>1. PICK request \in Requests :
          LET B == Bulk(Draft, request)
              written == [Draft EXCEPT !.ledger = @ \cup B.created]
          IN  /\ \A i, j \in DOMAIN request : request[i].rel = request[j].rel
              /\ Commit(CASE B.refused -> [Draft EXCEPT !.verdict = "refused"]
                          [] ~B.refused /\ request[1].rel = "same" ->
                                 ReplaceAffectedClosure(written, Endpoints(B.created))
                          [] OTHER ->
                                 ReplaceSeparationForReferences(written, Endpoints(B.created)))
    BY DEF BulkAssert
<1> DEFINE created == Bulk(Draft, request).created
           refused == Bulk(Draft, request).refused
           W == AssertedAll(Draft, created)
           E == IF refused THEN [Draft EXCEPT !.verdict = "refused"]
                ELSE IF request[1].rel = "same" THEN ReplaceAffectedClosure(W, Endpoints(created))
                ELSE ReplaceSeparationForReferences(W, Endpoints(created))
<1>2. created \subseteq Range(request) /\ refused \in BOOLEAN
    BY BulkCreates
<1>3. Commit(E)
    BY <1>1 DEF AssertedAll
<1>4. \A a \in created : /\ a \in Assertions /\ a.pair \subseteq Known(Draft)
                         /\ a.rel = request[1].rel
    <2>1. ASSUME NEW a \in created
          PROVE  \E i \in DOMAIN request : a = request[i] /\ request[i] \in Assertable
        <3>1. PICK n \in 1 .. MaxRequest :
                  DOMAIN request = 1 .. n /\ Range(request) = {request[i] : i \in 1 .. n}
            BY RequestForm
        <3>2. a \in {request[i] : i \in 1 .. n}
            BY <1>2, <3>1
        <3> QED
            BY <3>1, <3>2, RequestForm
    <2>2. 1 \in DOMAIN request
        BY RequestForm
    <2> QED
        BY <1>1, <2>1, <2>2, AssertableForm
<1>5. request[1].rel \in {"same", "different"}
    <2>1. 1 \in DOMAIN request /\ request[1] \in Assertions
        BY RequestForm, AssertableForm
    <2> QED
        BY <2>1 DEF Assertions
<1>6. Current(Draft)
    BY DEF Stays
<1>7. E.verdict = "done" => Current(E)
    <2>1. CASE refused
        <3>1. [Draft EXCEPT !.verdict = "refused"].verdict = "refused"
            BY DraftFields, Updates
        <3> QED
            BY <2>1, <3>1
    <2>2. CASE ~refused
        <3> HIDE DEF created, refused, W
        <3>1. created \in SUBSET Assertions /\ \A a \in created : a.pair \subseteq Known(Draft)
            BY <1>4
        <3>2. CASE request[1].rel = "same"
            <4>1. Repaired(W, ReplaceAffectedClosure(W, Endpoints(created)))
                BY <1>4, <1>6, <3>1, <3>2, BulkRepairs DEF W
            <4> QED
                BY <2>2, <3>2, <4>1 DEF Repaired
        <3>3. CASE request[1].rel = "different"
            <4>1. Repaired(W, ReplaceSeparationForReferences(W, Endpoints(created)))
                BY <1>4, <1>6, <3>1, <3>3, BulkRepairs DEF W
            <4> QED
                BY <2>2, <3>3, <4>1 DEF Repaired
        <3> QED
            BY <1>5, <3>2, <3>3
    <2> QED
        BY <1>2, <2>1, <2>2
<1> HIDE DEF E
<1> QED
    BY <1>3, <1>7, FrameKeeps

LEMMA ImportKeeps == Stays /\ ImportAssertions => Stays'
<1> SUFFICES ASSUME Stays, ImportAssertions PROVE Stays'
    OBVIOUS
<1>1. PICK request \in Requests :
          LET D == FoldLeft(AssertStep, Draft, request)
          IN  IF D.verdict = "aborted" THEN UNCHANGED tables ELSE Install(D)
    BY DEF ImportAssertions
<1>2. PICK n \in 1 .. MaxRequest :
          DOMAIN request = 1 .. n /\ Range(request) = {request[i] : i \in 1 .. n}
    BY RequestForm
<1>3. n \in Nat
    BY BoundsAssumption
<1>4. PICK h : /\ h[0] = Draft
               /\ \A i \in 1 .. n : h[i] = AssertStep(h[i - 1], request[i])
               /\ AssertFolded(Draft, request) = h[n]
    BY <1>2, <1>3, AssertFold
<1> DEFINE Good(D) == Current(D) /\ D.live = Draft.live /\ D.kinds = Draft.kinds
           N == {i \in Nat : i <= n => Good(h[i])}
<1>5. 0 \in N
    BY <1>4 DEF Stays
<1>6. ASSUME NEW i \in Nat, i \in N PROVE i + 1 \in N
    <2> SUFFICES ASSUME i + 1 <= n PROVE Good(h[i + 1])
        OBVIOUS
    <2>1. Good(h[i]) /\ i + 1 \in 1 .. n /\ (i + 1) - 1 = i
        BY <1>3, <1>6
    <2>2. h[i + 1] = AssertStep(h[i], request[i + 1])
        BY <1>4, <2>1
    <2>3. request[i + 1] \in Assertable
        BY <1>2, <2>1, RequestForm
    <2> DEFINE a == request[i + 1]
               D == h[i]
    <2>4. a \in Assertions /\ a.pair \subseteq Known(D) /\ Current(D)
        BY <2>1, <2>3, AssertableForm DEF Known
    <2> HIDE DEF a, D
    <2>5. LET E == AssertStep(D, a)
          IN  Current(E) /\ E.live = D.live /\ E.kinds = D.kinds
        BY <2>4, AssertStepRepairs
    <2> QED
        BY <2>1, <2>2, <2>5 DEF a, D
<1> HIDE DEF Good, N
<1>7. Nat \subseteq N
    BY <1>5, <1>6, Numbers
<1>8. Good(h[n])
    BY <1>3, <1>7 DEF N
<1> DEFINE E == AssertFolded(Draft, request)
<1>9. Current(E)
    BY <1>4, <1>8 DEF Good
<1>10. UNCHANGED tables \/ Install(E)
    BY <1>1 DEF AssertFolded
<1> HIDE DEF E
<1> QED
    BY <1>9, <1>10, InstallKeeps, TablesKept

LEMMA AssertPairKeeps == Stays /\ AssertPair => Stays'
<1> SUFFICES ASSUME Stays, AssertPair PROVE Stays'
    OBVIOUS
<1>1. PICK a \in Assertable : Commit(AssertStep(Draft, a))
    BY DEF AssertPair
<1>2. a \in Assertions /\ a.pair \subseteq Known(Draft) /\ Current(Draft)
    BY AssertableForm DEF Stays
<1> DEFINE E == AssertStep(Draft, a)
<1>3. Current(E)
    BY <1>2, AssertStepRepairs
<1> QED
    BY <1>1, <1>3, FrameKeeps

LEMMA RetractKeeps == Stays /\ Retract => Stays'
<1> SUFFICES ASSUME Stays, Retract PROVE Stays'
    OBVIOUS
<1>1. PICK ended \in SUBSET ledger : Commit(RetractStep(Draft, ended))
    BY DEF Retract
<1>2. ended \in SUBSET Draft.ledger /\ Current(Draft)
    BY DraftFields DEF Stays
<1> DEFINE E == RetractStep(Draft, ended)
<1>3. Repaired(Ended(Draft, ended), E)
    BY <1>2, RetractRepairs
<1>4. Current(E)
    BY <1>3 DEF Repaired
<1> HIDE DEF E
<1>5. Commit(E)
    BY <1>1 DEF E
<1> QED
    BY <1>4, <1>5, FrameKeeps

LEMMA CreateKeeps == Stays /\ CreateNodes => Stays'
<1> SUFFICES ASSUME Stays, CreateNodes PROVE Stays'
    OBVIOUS
<1>1. PICK created \in SUBSET (OfKinds(Refs, kinds) \ live) :
          Commit(FoldNodes([Draft EXCEPT !.live = @ \cup created], created))
    BY DEF CreateNodes
<1> DEFINE E == FoldNodes(Added(Draft, created), created)
<1>2. Commit(E)
    BY <1>1 DEF Added
<1>3. created \in SUBSET OfKinds(Refs, Draft.kinds) /\ Current(Draft)
    BY DraftFields DEF Stays
<1>4. E.verdict = "refused" \/ Repaired(Added(Draft, created), E)
    BY <1>3, FoldRepairs
<1> HIDE DEF E
<1>5. E.verdict = "done" => Current(E)
    BY <1>4 DEF Repaired
<1> QED
    BY <1>2, <1>5, FrameKeeps

LEMMA DeleteKeeps == Stays /\ DeleteNode => Stays'
<1> SUFFICES ASSUME Stays, DeleteNode PROVE Stays'
    OBVIOUS
<1>1. PICK r \in OfKinds(live, kinds) :
          LET ended == Touching(ledger, {r})
              written == [Draft EXCEPT !.live = @ \ {r}, !.ledger = @ \ ended]
          IN  Commit(IF ended = {} /\ r \notin DOMAIN closure THEN written
                     ELSE ReplaceAffectedClosure(written, {r}))
    BY DEF DeleteNode
<1> DEFINE W == Removed(Draft, r)
           E == IF Touching(Draft.ledger, {r}) = {} /\ r \notin DOMAIN Draft.closure THEN W
                ELSE ReplaceAffectedClosure(W, {r})
<1>2. Commit(E)
    BY <1>1, DraftFields DEF Removed
<1>3. r \in Known(Draft) /\ Current(Draft)
    BY DraftFields DEF Stays
<1>4. Repaired(W, E)
    BY <1>3, DeleteRepairs
<1>5. Current(E)
    BY <1>4 DEF Repaired
<1> HIDE DEF E
<1> QED
    BY <1>2, <1>5, FrameKeeps

LEMMA ApplyKeeps == Stays /\ ApplyIdentityChanges => Stays'
<1> SUFFICES ASSUME Stays, ApplyIdentityChanges PROVE Stays'
    OBVIOUS
<1>1. PICK ended \in SUBSET ledger, a \in Assertable :
          Commit(AssertStep(RetractStep(Draft, ended), a))
    BY DEF ApplyIdentityChanges
<1>2. ended \in SUBSET Draft.ledger /\ Current(Draft)
    BY DraftFields DEF Stays
<1> DEFINE F == RetractStep(Draft, ended)
           E == AssertStep(F, a)
<1>3. Repaired(Ended(Draft, ended), F)
    BY <1>2, RetractRepairs
<1>4. Known(Ended(Draft, ended)) = Known(Draft)
    BY <1>2, EndedForm DEF Current
<1> HIDE DEF F
<1>5. a \in Assertions /\ a.pair \subseteq Known(F) /\ Current(F)
    BY <1>3, <1>4, AssertableForm DEF Repaired, Known
<1>6. Current(E)
    BY <1>5, AssertStepRepairs
<1>7. Commit(E)
    BY <1>1 DEF F
<1> HIDE DEF E
<1> QED
    BY <1>6, <1>7, FrameKeeps

\* The assertions about a removed kind go with it.
KindRemoved(D, k) ==
    [D EXCEPT !.kinds = @ \ {k}, !.ledger = @ \ Touching(@, OfKinds(Refs, {k}))]

LEMMA KindRemovedForm ==
    ASSUME NEW D, Sound(D), NEW k
    PROVE  LET W == KindRemoved(D, k)
           IN  /\ Sound(W)
               /\ W.live = D.live /\ W.kinds = D.kinds \ {k} /\ W.folds = D.folds
               /\ W.ledger = D.ledger \ Touching(D.ledger, OfKinds(Refs, {k}))
               /\ W.verdict = D.verdict
<1> DEFINE asserted == D.ledger \ Touching(D.ledger, OfKinds(Refs, {k}))
           W == KindRemoved(D, k)
           F == [D EXCEPT !.kinds = @ \ {k}]
           Row(x, y) == [live |-> D.live, kinds |-> x, ledger |-> y, folds |-> D.folds,
                         closure |-> D.closure, separation |-> D.separation, verdict |-> D.verdict]
<1>1. W = Row(D.kinds \ {k}, asserted)
    <2>1. W = [F EXCEPT !.ledger = asserted]
        BY DEF KindRemoved
    <2>2. F = Row(D.kinds \ {k}, D.ledger)
        BY DEF Sound, IsDraft
    <2>3. \A v, w, x : [Row(v, w) EXCEPT !.ledger = x] = Row(v, x)
        OBVIOUS
    <2> HIDE DEF Row, F, W, asserted
    <2> QED
        BY <2>1, <2>2, <2>3
<1> HIDE DEF W
<1>2. /\ W.live = D.live /\ W.kinds = D.kinds \ {k} /\ W.ledger = asserted /\ W.folds = D.folds
      /\ W.verdict = D.verdict /\ IsDraft(W)
    BY <1>1 DEF IsDraft
<1>3. \A a \in D.ledger : a.pair \subseteq Known(D) /\ a.pair \subseteq Refs
    BY SoundLinks
<1>4. ASSUME NEW a \in asserted, NEW r \in a.pair PROVE r \in D.live /\ Kind(r) \in D.kinds \ {k}
    <2>1. r \in D.live /\ Kind(r) \in D.kinds /\ r \in Refs
        BY <1>3 DEF Known, OfKinds
    <2>2. Kind(r) # k
        BY <2>1 DEF Touching, OfKinds
    <2> QED
        BY <2>1, <2>2
<1>5. Endpoints(W.ledger) \subseteq Known(W)
    <2> HIDE DEF asserted
    <2> QED
        BY <1>2, <1>4 DEF Endpoints, Known, OfKinds
<1> QED
    BY <1>2, <1>5 DEF Sound, W

LEMMA RemoveKindKeeps == Stays /\ RemoveKind => Stays'
<1> SUFFICES ASSUME Stays, RemoveKind PROVE Stays'
    OBVIOUS
<1>1. PICK k \in Droppable \cap kinds :
          Commit(ReplaceClosure([Draft EXCEPT !.kinds = @ \ {k},
                                              !.ledger = @ \ Touching(@, OfKinds(Refs, {k}))]))
    BY DEF RemoveKind
<1> DEFINE W == KindRemoved(Draft, k)
           E == ReplaceClosure(W)
<1>2. Sound(W)
    BY KindRemovedForm DEF Stays, Current
<1> HIDE DEF W
<1>3. Repaired(W, E)
    BY <1>2, RebuildRepairs
<1>4. Current(E)
    BY <1>3 DEF Repaired
<1>5. Commit(E)
    BY <1>1 DEF W, KindRemoved
<1> HIDE DEF E
<1> QED
    BY <1>4, <1>5, FrameKeeps

LEMMA RebuiltForm ==
    ASSUME NEW D, Sound(D)
    PROVE  \/ IntegrityHolds(D) /\ Repaired(D, Rebuilt(D))
           \/ ~IntegrityHolds(D) /\ Rebuilt(D).verdict = "refused"
<1>1. CASE IntegrityHolds(D)
    BY <1>1, RebuildRepairs DEF Rebuilt
<1>2. CASE ~IntegrityHolds(D)
    <2>1. [D EXCEPT !.verdict = "refused"].verdict = "refused"
        BY Updates DEF Sound
    <2> QED
        BY <1>2, <2>1 DEF Rebuilt
<1> QED
    BY <1>1, <1>2

ProfileDraft == [Draft EXCEPT !.folds = ~@]

LEMMA ProfileSound ==
    ASSUME Stays
    PROVE  /\ Sound(ProfileDraft)
           /\ ProfileDraft.live = live /\ ProfileDraft.kinds = kinds /\ ProfileDraft.ledger = ledger
           /\ ProfileDraft.folds = ~folds /\ ProfileDraft.verdict = "done"
<1>1. ProfileDraft = [live |-> live, kinds |-> kinds, ledger |-> ledger, folds |-> ~folds,
                      closure |-> closure, separation |-> separation, verdict |-> "done"]
    BY DEF ProfileDraft, Draft
<1>2. /\ ProfileDraft.live = live /\ ProfileDraft.kinds = kinds /\ ProfileDraft.ledger = ledger
      /\ ProfileDraft.folds = ~folds /\ ProfileDraft.verdict = "done"
      /\ IsDraft(ProfileDraft)
    BY <1>1 DEF IsDraft
<1>3. Sound(Draft)
    BY DEF Stays, Current
<1>4. Sound(ProfileDraft)
    BY <1>2, <1>3, DraftFields DEF Sound, Known
<1> QED
    BY <1>2, <1>4

LEMMA ProfileKeeps == Stays /\ ChangeProfile => Stays'
<1> SUFFICES ASSUME Stays, ChangeProfile PROVE Stays'
    OBVIOUS
<1> DEFINE E == Rebuilt(ProfileDraft)
<1>1. Commit(E)
    BY DEF ChangeProfile, ProfileDraft
<1>2. Repaired(ProfileDraft, E) \/ E.verdict = "refused"
    BY ProfileSound, RebuiltForm
<1> HIDE DEF E
<1>3. E.verdict = "done" => Current(E)
    BY <1>2 DEF Repaired
<1> QED
    BY <1>1, <1>3, FrameKeeps

LEMMA RebuildKeeps == Stays /\ RebuildClosure => Stays'
<1> SUFFICES ASSUME Stays, RebuildClosure PROVE Stays'
    OBVIOUS
<1> DEFINE E == Rebuilt(Draft)
<1>1. Commit(E)
    BY DEF RebuildClosure
<1>2. Repaired(Draft, E) \/ E.verdict = "refused"
    BY RebuiltForm DEF Stays, Current
<1> HIDE DEF E
<1>3. E.verdict = "done" => Current(E)
    BY <1>2 DEF Repaired
<1> QED
    BY <1>1, <1>3, FrameKeeps

LEMMA InitStays == Init => Stays
<1> SUFFICES ASSUME Init PROVE Stays
    OBVIOUS
<1>1. /\ Draft.live = {} /\ Draft.ledger = {} /\ Draft.folds \in BOOLEAN /\ Draft.closure = <<>>
      /\ Draft.separation = {} /\ IsDraft(Draft)
    BY DraftFields DEF Init
<1>2. Sound(Draft)
    BY <1>1 DEF Sound, Endpoints
<1>3. TrueLinks(Draft) = {}
    <2>1. Known(Draft) = {}
        BY <1>1 DEF Known, OfKinds
    <2>2. TrueLinks(Draft) \in SUBSET SUBSET {} /\ \A p \in TrueLinks(Draft) : p # {}
        BY <1>2, <2>1, SoundLinks
    <2> QED
        BY <2>2
<1>4. ClosureTable({}) = <<>>
    <2>1. \A r \in Refs : Reach({}, r) = {r} /\ ~(Cardinality({r}) > 1)
        <3> TAKE r \in Refs
        <3>1. Reach({}, r) = {r}
            BY ReachAlone
        <3>2. {r} \in SUBSET Refs /\ ~ \E a, b \in {r} : a # b
            OBVIOUS
        <3> QED
            BY <3>1, <3>2, Sizes
    <2>2. {x \in Refs : Cardinality(Reach({}, x)) > 1} = {}
        BY <2>1
    <2>3. [r \in {} |-> Least(Reach({}, r))] = <<>>
        OBVIOUS
    <2> QED
        BY <2>2, <2>3, Zenon DEF ClosureTable
<1>5. Keys({}, Differents(Draft)) = {}
    BY <1>1 DEF Keys, Differents, Relating
<1> QED
    BY <1>1, <1>2, <1>3, <1>4, <1>5 DEF Stays, Current

LEMMA NextStays == Stays /\ [Next]_vars => Stays'
<1> SUFFICES ASSUME Stays, [Next]_vars PROVE Stays'
    OBVIOUS
<1>1. CASE UNCHANGED vars
    <2>1. UNCHANGED tables
        BY <1>1 DEF vars, tables
    <2> QED
        BY <2>1, TablesKept
<1> QED
    BY <1>1, AssertPairKeeps, BulkAssertKeeps, RetractKeeps, CreateKeeps, DeleteKeeps, ImportKeeps,
       ApplyKeeps, RemoveKindKeeps, ProfileKeeps, RebuildKeeps DEF Next

LEMMA StaysCurrent == Spec => []Stays
<1>1. Init => Stays
    BY InitStays
<1>2. Stays /\ [Next]_vars => Stays'
    BY NextStays
<1> QED
    BY <1>1, <1>2, PTL DEF Spec

LEMMA CurrentTables == Stays => TablesAreCurrent
<1> SUFFICES ASSUME Stays PROVE TablesAreCurrent
    OBVIOUS
<1> DEFINE links == TrueLinks(Draft)
<1>1. /\ closure = ClosureTable(links) /\ separation = Keys(links, Relating(ledger, "different"))
      /\ ledger \in SUBSET Assertions
    BY DraftFields DEF Stays, Current, Sound, Differents
<1>2. \A r : TrueClass(r) = Reach(links, r)
    BY DraftFields, ClassIsReach DEF TrueClass, TrueLinks
<1> HIDE DEF links
<1>3. ClosureIsCurrent
    <2> DEFINE S == {x \in Refs : Cardinality(TrueClass(x)) > 1}
    <2>1. S = {x \in Refs : Cardinality(Reach(links, x)) > 1}
        BY <1>2
    <2>2. \A r \in S : Least(TrueClass(r)) = Least(Reach(links, r))
        BY <1>2
    <2>3. closure = [r \in S |-> Least(Reach(links, r))]
        BY <1>1, <2>1, Zenon DEF ClosureTable
    <2> HIDE DEF S
    <2>4. closure = [r \in S |-> Least(TrueClass(r))]
        BY <2>2, <2>3, Zenon
    <2> QED
        BY <2>4 DEF ClosureIsCurrent, S
<1>4. SeparationIsCurrent
    <2>1. \A a \in Relating(ledger, "different") :
              {Least(TrueClass(r)) : r \in a.pair} = {Least(Reach(links, r)) : r \in a.pair}
        BY <1>2
    <2> QED
        BY <1>1, <2>1 DEF SeparationIsCurrent, Keys
<1> QED
    BY <1>3, <1>4 DEF TablesAreCurrent

(***************************************************************************)
(* Whatever sequence of partial repairs produced them, the closure and the *)
(* separation say what the nodes and the ledger say: no class is left      *)
(* unmerged, unsplit or under a retired label, also where batches of       *)
(* several kinds let a contradiction in.                                   *)
(***************************************************************************)
THEOREM TablesStayCurrent == Spec => []TablesAreCurrent
<1>1. Stays => TablesAreCurrent
    BY CurrentTables
<1> QED
    BY <1>1, StaysCurrent, PTL

-----------------------------------------------------------------------------
(* What one more link, or one more `different`, contradicts. *)

Clash(links, A, x, y) ==
    \/ DisjointKinds(Reach(links, x), Reach(links, y))
    \/ \E d \in A : /\ d.rel = "different"
                    /\ {Reach(links, r) : r \in d.pair} = {Reach(links, x), Reach(links, y)}

LEMMA ContraSame ==
    ASSUME NEW links \in SUBSET SUBSET Refs, NEW A \in SUBSET Assertions, ~Contra(links, A),
           NEW x \in Refs, NEW y \in Refs
    PROVE  Contra(links \cup {{x, y}}, A) <=> Clash(links, A, x, y)
<1>0. \A r \in Refs : Reach(links \cup {{x, y}}, r)
                          = IF r \in Fused(links, x, y) THEN Fused(links, x, y) ELSE Reach(links, r)
    <2>1. Joined(links, x, y)
        BY ReachJoin
    <2> QED
        BY <2>1 DEF Joined
<1> DEFINE new == links \cup {{x, y}}
           F == Fused(links, x, y)
           C(r) == Reach(links, r)
<1>1. \A r \in Refs : Reach(new, r) = IF r \in F THEN F ELSE C(r)
    BY <1>0
<1>2. \A r \in Refs : r \in C(r) /\ C(r) \in SUBSET Refs
    BY ReachLeast
<1>3. \A r, s \in Refs : s \in C(r) <=> C(r) = C(s)
    BY LabelsTellClasses
<1>4. F = C(x) \cup C(y)
    BY DEF Fused
<1>5. \A r \in Refs : r \in F <=> C(r) = C(x) \/ C(r) = C(y)
    BY <1>3, <1>4
<1>6. \A d \in A : \E u, v \in Refs : u # v /\ d.pair = {u, v}
    BY PairForm DEF Assertions
<1>7. /\ \A r \in Refs : \A s \in C(r) : {r[1], s[1]} \notin Disjoint
      /\ \A d \in A : d.rel = "different" => \A r \in d.pair : ~(d.pair \subseteq C(r))
    BY DEF Contra
<1>8. F \in SUBSET Refs
    BY <1>2, <1>4
<1>9. Contra(new, A) <=>
          \/ \E r \in Refs : \E s \in Reach(new, r) : {r[1], s[1]} \in Disjoint
          \/ \E d \in A : d.rel = "different" /\ \E r \in d.pair : d.pair \subseteq Reach(new, r)
    BY DEF Contra
<1>10. DisjointKinds(C(x), C(y)) <=> \E a \in C(x), b \in C(y) : {a[1], b[1]} \in Disjoint
    BY DEF DisjointKinds, Kind
<1> HIDE DEF new, F, C
<1>11. ASSUME DisjointKinds(C(x), C(y)) PROVE Contra(new, A)
    <2>1. PICK a \in C(x), b \in C(y) : {a[1], b[1]} \in Disjoint
        BY <1>10, <1>11
    <2>2. a \in Refs /\ a \in F /\ b \in F
        BY <1>4, <1>8
    <2>3. b \in Reach(new, a)
        BY <1>1, <2>2
    <2> QED
        BY <1>9, <2>1, <2>2, <2>3
<1>12. ASSUME NEW d \in A, d.rel = "different", {C(r) : r \in d.pair} = {C(x), C(y)}
       PROVE  Contra(new, A)
    <2>1. PICK u \in Refs, v \in Refs : u # v /\ d.pair = {u, v}
        BY <1>6
    <2>2. u \in F /\ v \in F
        BY <1>5, <1>12, <2>1
    <2>3. d.pair \subseteq Reach(new, u)
        BY <1>1, <2>1, <2>2
    <2> QED
        BY <1>9, <1>12, <2>1, <2>3
<1>13. ASSUME NEW r \in Refs, NEW s \in Reach(new, r), {r[1], s[1]} \in Disjoint
       PROVE  DisjointKinds(C(x), C(y))
    <2>1. r \in F
        BY <1>1, <1>7, <1>13
    <2>2. s \in F /\ s \in Refs
        BY <1>1, <1>8, <1>13, <2>1
    <2>3. ~(s \in C(r))
        BY <1>7, <1>13
    <2>4. \/ r \in C(x) /\ s \in C(y)
          \/ r \in C(y) /\ s \in C(x)
        BY <1>3, <1>4, <2>1, <2>2, <2>3
    <2>5. {r[1], s[1]} = {s[1], r[1]}
        OBVIOUS
    <2> QED
        BY <1>10, <1>13, <2>4, <2>5
<1>14. ASSUME NEW d \in A, d.rel = "different", NEW r \in d.pair, d.pair \subseteq Reach(new, r)
       PROVE  {C(q) : q \in d.pair} = {C(x), C(y)}
    <2>1. PICK u \in Refs, v \in Refs : u # v /\ d.pair = {u, v}
        BY <1>6
    <2>2. r \in F
        BY <1>1, <1>7, <1>14, <2>1
    <2>3. u \in F /\ v \in F
        BY <1>1, <1>14, <2>1, <2>2
    <2>4. C(u) # C(v)
        <3> SUFFICES ASSUME C(u) = C(v) PROVE FALSE
            OBVIOUS
        <3>1. d.pair \subseteq C(u)
            BY <1>2, <2>1
        <3> QED
            BY <1>7, <1>14, <2>1, <3>1
    <2>5. {C(q) : q \in d.pair} = {C(u), C(v)}
        BY <2>1
    <2>6. (C(u) = C(x) /\ C(v) = C(y)) \/ (C(u) = C(y) /\ C(v) = C(x))
        BY <1>5, <2>1, <2>3, <2>4
    <2> QED
        BY <2>5, <2>6
<1>15. Contra(new, A) <=>
           \/ DisjointKinds(C(x), C(y))
           \/ \E d \in A : d.rel = "different" /\ {C(r) : r \in d.pair} = {C(x), C(y)}
    BY <1>9, <1>11, <1>12, <1>13, <1>14
<1> QED
    BY <1>15 DEF new, C, Clash

LEMMA ContraDifferent ==
    ASSUME NEW links \in SUBSET SUBSET Refs, NEW A, ~Contra(links, A),
           NEW a, a.rel = "different", NEW x \in Refs, NEW y \in Refs, a.pair = {x, y}
    PROVE  Contra(links, A \cup {a}) <=> Reach(links, x) = Reach(links, y)
<1>1. \A r \in Refs : r \in Reach(links, r)
    BY ReachLeast
<1>2. \A r, s \in Refs : s \in Reach(links, r) <=> Reach(links, r) = Reach(links, s)
    BY LabelsTellClasses
<1>3. Contra(links, A \cup {a}) <=> \E r \in a.pair : a.pair \subseteq Reach(links, r)
    BY DEF Contra
<1> QED
    BY <1>1, <1>2, <1>3

\* The probes of the tables see exactly the contradictions of the links they
\* were made from.
Tables(D, links, A) ==
    /\ links \in SUBSET SUBSET Refs
    /\ A \in SUBSET Assertions
    /\ D.closure = ClosureTable(links)
    /\ D.separation = Keys(links, Relating(A, "different"))
    /\ ~Contra(links, A)

LEMMA ContradictsForm ==
    ASSUME NEW D, NEW links, NEW A, Tables(D, links, A),
           NEW a \in Assertions
    PROVE  /\ a.rel = "same" => (Contradicts(D, a) <=> Contra(links \cup {a.pair}, A))
           /\ a.rel = "different" => (Contradicts(D, a) <=> Contra(links, A \cup {a}))
<1>0. /\ links \in SUBSET SUBSET Refs
      /\ A \in SUBSET Assertions
      /\ D.closure = ClosureTable(links)
      /\ D.separation = Keys(links, Relating(A, "different"))
      /\ ~Contra(links, A)
    BY DEF Tables
<1>a. a.rel \in {"same", "different"} /\ a.pair \in Pairs
    BY DEF Assertions
<1>b. PICK x \in Refs, y \in Refs : x # y /\ a.pair = {x, y}
    BY <1>a, PairForm
<1> DEFINE C(r) == Reach(links, r)
<1>1. \A r \in Refs : ClassOf(D, r) = C(r)
    BY <1>0, ClosureReads
<1>2. \A r, s \in Refs : s \in C(r) <=> C(r) = C(s)
    BY <1>0, LabelsTellClasses
<1>3. \A r, s \in Refs : Least(C(r)) = Least(C(s)) <=> C(r) = C(s)
    BY <1>0, LabelsTellClasses
<1> HIDE DEF C
<1>4. ASSUME a.rel = "different" PROVE Contradicts(D, a) <=> C(x) = C(y)
    BY <1>b, <1>1, <1>2, <1>4 DEF Contradicts
<1>5. DisjointKinds(C(x), C(y)) <=> DisjointKinds(C(y), C(x))
    <2>1. \A r, s : {Kind(r), Kind(s)} = {Kind(s), Kind(r)}
        OBVIOUS
    <2> QED
        BY <2>1 DEF DisjointKinds
<1>6. {Least(C(x)), Least(C(y))} \in D.separation <=>
          \E d \in A : d.rel = "different" /\ {C(r) : r \in d.pair} = {C(x), C(y)}
    <2>1. {Least(C(x)), Least(C(y))} \in D.separation <=>
              \E d \in A : d.rel = "different" /\ {Least(C(x)), Least(C(y))} = {Least(C(r)) : r \in d.pair}
        BY <1>0 DEF Keys, Relating, C
    <2>2. ASSUME NEW d \in A
          PROVE  {Least(C(x)), Least(C(y))} = {Least(C(r)) : r \in d.pair} <=>
                     {C(r) : r \in d.pair} = {C(x), C(y)}
        <3>1. PICK u \in Refs, v \in Refs : u # v /\ d.pair = {u, v}
            BY <1>0, PairForm DEF Assertions
        <3>2. {Least(C(r)) : r \in d.pair} = {Least(C(u)), Least(C(v))}
              /\ {C(r) : r \in d.pair} = {C(u), C(v)}
            BY <3>1
        <3>3. {Least(C(x)), Least(C(y))} = {Least(C(u)), Least(C(v))} <=>
                  {C(u), C(v)} = {C(x), C(y)}
            <4> DEFINE l(r) == Least(C(r))
            <4>1. /\ l(x) = l(u) <=> C(x) = C(u)
                  /\ l(x) = l(v) <=> C(x) = C(v)
                  /\ l(y) = l(u) <=> C(y) = C(u)
                  /\ l(y) = l(v) <=> C(y) = C(v)
                BY <1>3
            <4>2. {l(x), l(y)} = {l(u), l(v)} <=>
                      /\ l(x) = l(u) \/ l(x) = l(v)
                      /\ l(y) = l(u) \/ l(y) = l(v)
                      /\ l(u) = l(x) \/ l(u) = l(y)
                      /\ l(v) = l(x) \/ l(v) = l(y)
                <5> HIDE DEF l
                <5> QED
                    OBVIOUS
            <4>3. {C(u), C(v)} = {C(x), C(y)} <=>
                      /\ C(x) = C(u) \/ C(x) = C(v)
                      /\ C(y) = C(u) \/ C(y) = C(v)
                      /\ C(u) = C(x) \/ C(u) = C(y)
                      /\ C(v) = C(x) \/ C(v) = C(y)
                OBVIOUS
            <4> HIDE DEF l
            <4>4. {l(x), l(y)} = {l(u), l(v)} <=> {C(u), C(v)} = {C(x), C(y)}
                BY <4>1, <4>2, <4>3
            <4> QED
                BY <4>4 DEF l
        <3> QED
            BY <3>2, <3>3
    <2> QED
        BY <2>1, <2>2
<1>7. ASSUME a.rel = "same"
      PROVE  Contradicts(D, a) <=>
                 \/ {Least(C(x)), Least(C(y))} \in D.separation
                 \/ DisjointKinds(C(x), C(y))
    <2>1. {Least(C(x)), Least(C(y))} = {Least(C(y)), Least(C(x))}
        OBVIOUS
    <2> DEFINE P(r, s) == \/ {Least(ClassOf(D, r)), Least(ClassOf(D, s))} \in D.separation
                          \/ DisjointKinds(ClassOf(D, r), ClassOf(D, s))
    <2>2. Contradicts(D, a) <=> \E r, s \in a.pair : r # s /\ P(r, s)
        BY <1>7 DEF Contradicts
    <2>3. /\ P(x, y) <=> \/ {Least(C(x)), Least(C(y))} \in D.separation
                         \/ DisjointKinds(C(x), C(y))
          /\ P(y, x) <=> \/ {Least(C(y)), Least(C(x))} \in D.separation
                         \/ DisjointKinds(C(y), C(x))
        <3>1. ClassOf(D, x) = C(x) /\ ClassOf(D, y) = C(y)
            BY <1>1
        <3> QED
            BY <3>1
    <2>4. x \in a.pair /\ y \in a.pair /\ \A r \in a.pair : r = x \/ r = y
        BY <1>b
    <2> HIDE DEF P
    <2>5. Contradicts(D, a) <=> P(x, y) \/ P(y, x)
        BY <1>b, <2>2, <2>4
    <2> QED
        BY <1>5, <2>1, <2>3, <2>5
<1>8. Contra(links \cup {{x, y}}, A) <=>
          \/ DisjointKinds(C(x), C(y))
          \/ \E d \in A : d.rel = "different" /\ {C(r) : r \in d.pair} = {C(x), C(y)}
    <2>1. Contra(links \cup {{x, y}}, A) <=> Clash(links, A, x, y)
        BY <1>0, ContraSame
    <2> QED
        BY <2>1 DEF C, Clash
<1>9. a.rel = "different" => (Contra(links, A \cup {a}) <=> C(x) = C(y))
    BY <1>0, <1>b, ContraDifferent DEF C
<1> QED
    BY <1>a, <1>b, <1>4, <1>6, <1>7, <1>8, <1>9

-----------------------------------------------------------------------------
(* What a frame's draft would contradict, were `asserted` what it asserts. *)

Bad(D, asserted) == Promise!Contradictory(Known(D), asserted, D.folds)

Holds(D) == ~Bad(D, D.ledger)

LEMMA BadForm ==
    ASSUME NEW D, Sound(D)
    PROVE  Bad(D, D.ledger) <=> Contra(TrueLinks(D), D.ledger)
<1>1. D.ledger \in SUBSET Assertions
    BY DEF Sound
<1> QED
    BY <1>1, ContradictoryForm DEF Bad, TrueLinks

LEMMA BadGrows ==
    ASSUME NEW D, Sound(D), NEW more \in SUBSET Assertions, NEW some \in SUBSET more, Bad(D, some)
    PROVE  Bad(D, more)
<1> DEFINE few == Promise!Links(Known(D), some, D.folds)
           many == Promise!Links(Known(D), more, D.folds)
<1>1. Known(D) \in SUBSET Refs /\ some \in SUBSET Assertions
    BY SoundLinks
<1>2. few \in SUBSET SUBSET Refs /\ many \in SUBSET SUBSET Refs
    BY <1>1, LinksForm
<1>3. few = FoldLinks(Known(D), D.folds) \cup PairsOf(Relating(some, "same"))
      /\ many = FoldLinks(Known(D), D.folds) \cup PairsOf(Relating(more, "same"))
    BY <1>1, LinksForm
<1>4. few \subseteq many
    BY <1>3 DEF PairsOf, Relating
<1>5. Contra(few, some)
    BY <1>1, ContradictoryForm DEF Bad
<1> HIDE DEF few, many
<1>6. Contra(many, more)
    BY <1>2, <1>4, <1>5, ContraGrows
<1> QED
    BY <1>6, ContradictoryForm DEF Bad, many

\* Drafts of the same nodes under the same profile are judged alike.
LEMMA BadAlike ==
    ASSUME NEW D, NEW E, E.live = D.live, E.kinds = D.kinds, E.folds = D.folds, NEW asserted
    PROVE  Bad(E, asserted) = Bad(D, asserted)
BY DEF Bad, Known

\* One assertion more.
LEMMA OneMore ==
    ASSUME NEW D, Sound(D), NEW a \in Assertions, a.pair \subseteq Known(D)
    PROVE  /\ a.rel = "same" =>
                  (Bad(D, D.ledger \cup {a}) <=> Contra(TrueLinks(D) \cup {a.pair}, D.ledger))
           /\ a.rel = "different" =>
                  (Bad(D, D.ledger \cup {a}) <=> Contra(TrueLinks(D), D.ledger \cup {a}))
<1> DEFINE W == Asserted(D, a)
           links == TrueLinks(D)
<1>1. /\ Sound(W) /\ W.live = D.live /\ W.kinds = D.kinds /\ W.folds = D.folds
      /\ W.ledger = D.ledger \cup {a}
      /\ a.rel = "same" => TrueLinks(W) = links \cup {a.pair}
      /\ a.rel = "different" => TrueLinks(W) = links
    BY AssertedForm
<1> HIDE DEF W, links
<1>2. Bad(D, D.ledger \cup {a}) <=> Contra(TrueLinks(W), D.ledger \cup {a})
    <2>1. Bad(W, W.ledger) <=> Contra(TrueLinks(W), W.ledger)
        BY <1>1, BadForm
    <2>2. Bad(W, D.ledger \cup {a}) = Bad(D, D.ledger \cup {a})
        BY <1>1, BadAlike
    <2> QED
        BY <1>1, <2>1, <2>2
<1>3. a.rel = "same" =>
          (Contra(links \cup {a.pair}, D.ledger) <=> Contra(links \cup {a.pair}, D.ledger \cup {a}))
    <2> DEFINE new == links \cup {a.pair}
    <2> HIDE DEF new
    <2>1. a.rel = "same" => (Contra(new, D.ledger) <=> Contra(new, D.ledger \cup {a}))
        BY DEF Contra
    <2> QED
        BY <2>1 DEF new
<1> QED
    BY <1>1, <1>2, <1>3 DEF links

\* The probes of the tables refuse what contradicts, and nothing else.
LEMMA ProbesExact ==
    ASSUME NEW D, Current(D), Holds(D), NEW a \in Assertions, a.pair \subseteq Known(D)
    PROVE  Contradicts(D, a) <=> Bad(D, D.ledger \cup {a})
<1> DEFINE links == TrueLinks(D)
<1>1. /\ Sound(D) /\ D.closure = ClosureTable(links) /\ D.separation = Keys(links, Differents(D))
      /\ D.ledger \in SUBSET Assertions
    BY DEF Current, Sound
<1>2. links \in SUBSET SUBSET Refs
    BY <1>1, SoundLinks
<1>3. ~Contra(links, D.ledger)
    BY <1>1, BadForm DEF Holds
<1>4. a.rel \in {"same", "different"}
    BY DEF Assertions
<1>5. /\ a.rel = "same" => (Bad(D, D.ledger \cup {a}) <=> Contra(links \cup {a.pair}, D.ledger))
      /\ a.rel = "different" => (Bad(D, D.ledger \cup {a}) <=> Contra(links, D.ledger \cup {a}))
    BY <1>1, OneMore
<1> HIDE DEF links
<1>6. Tables(D, links, D.ledger)
    BY <1>1, <1>2, <1>3 DEF Tables, Differents
<1>7. /\ a.rel = "same" => (Contradicts(D, a) <=> Contra(links \cup {a.pair}, D.ledger))
      /\ a.rel = "different" => (Contradicts(D, a) <=> Contra(links, D.ledger \cup {a}))
    BY <1>6, ContradictsForm
<1> QED
    BY <1>4, <1>5, <1>7

\* The same, by the classes of the two ends.
Parts(D, a) ==
    \A x, y \in Refs : a.pair = {x, y} =>
        /\ a.rel = "same" =>
               (Bad(D, D.ledger \cup {a}) <=> Clash(TrueLinks(D), D.ledger, x, y))
        /\ a.rel = "different" =>
               (Bad(D, D.ledger \cup {a}) <=> Reach(TrueLinks(D), x) = Reach(TrueLinks(D), y))

LEMMA OneMoreParted ==
    ASSUME NEW D, Sound(D), Holds(D), NEW a \in Assertions, a.pair \subseteq Known(D)
    PROVE  Parts(D, a)
<1> SUFFICES ASSUME NEW x \in Refs, NEW y \in Refs, a.pair = {x, y}
             PROVE  /\ a.rel = "same" =>
                           (Bad(D, D.ledger \cup {a}) <=> Clash(TrueLinks(D), D.ledger, x, y))
                    /\ a.rel = "different" =>
                           (Bad(D, D.ledger \cup {a}) <=>
                                Reach(TrueLinks(D), x) = Reach(TrueLinks(D), y))
    BY DEF Parts
<1> DEFINE links == TrueLinks(D)
<1>1. links \in SUBSET SUBSET Refs /\ D.ledger \in SUBSET Assertions
    BY SoundLinks DEF Sound
<1>2. ~Contra(links, D.ledger)
    BY BadForm DEF Holds
<1>3. /\ a.rel = "same" => (Bad(D, D.ledger \cup {a}) <=> Contra(links \cup {a.pair}, D.ledger))
      /\ a.rel = "different" => (Bad(D, D.ledger \cup {a}) <=> Contra(links, D.ledger \cup {a}))
    BY OneMore
<1> HIDE DEF links
<1>4. Contra(links \cup {{x, y}}, D.ledger) <=> Clash(links, D.ledger, x, y)
    BY <1>1, <1>2, ContraSame
<1>5. a.rel = "different" =>
          (Contra(links, D.ledger \cup {a}) <=> Reach(links, x) = Reach(links, y))
    BY <1>1, <1>2, ContraDifferent
<1> QED
    BY <1>3, <1>4, <1>5 DEF links

\* What a step of the loop may leave behind it.
Stepped(D, a, E) ==
    /\ Current(E) /\ Holds(E)
    /\ E.live = D.live /\ E.kinds = D.kinds /\ E.folds = D.folds
    /\ \/ E.verdict = "done" /\ E.ledger = D.ledger \cup {a}
       \/ /\ E.verdict = "refused" /\ E.ledger = D.ledger
          /\ Bad(D, D.ledger \cup {a})

LEMMA AssertStepExact ==
    ASSUME NEW D, Current(D), Holds(D), D.verdict = "done",
           NEW a \in Assertions, a.pair \subseteq Known(D)
    PROVE  Stepped(D, a, AssertStep(D, a))
<1> DEFINE E == AssertStep(D, a)
<1>1. /\ Current(E)
      /\ E.live = D.live /\ E.kinds = D.kinds /\ E.folds = D.folds
      /\ \/ E = D
         \/ /\ D.verdict = "done" /\ a \notin D.ledger /\ Contradicts(D, a)
            /\ E.verdict = "refused" /\ E.ledger = D.ledger
         \/ /\ D.verdict = "done" /\ a \notin D.ledger /\ ~Contradicts(D, a)
            /\ E.ledger = D.ledger \cup {a}
            /\ Repaired(Asserted(D, a), E)
    BY AssertStepRepairs
<1>2. Contradicts(D, a) <=> Bad(D, D.ledger \cup {a})
    BY ProbesExact
<1>3. \A asserted : Bad(E, asserted) = Bad(D, asserted)
    BY <1>1, BadAlike
<1>4. CASE a \in D.ledger
    <2>1. E = D /\ D.ledger = D.ledger \cup {a}
        BY <1>4 DEF AssertStep
    <2> QED
        BY <1>1, <2>1 DEF Stepped
<1>5. CASE a \notin D.ledger /\ Contradicts(D, a)
    <2>1. E = [D EXCEPT !.verdict = "refused"]
        BY <1>5 DEF AssertStep
    <2>2. E.verdict = "refused" /\ E.ledger = D.ledger
        BY <2>1, Updates DEF Current, Sound
    <2>3. Holds(E)
        BY <1>3, <2>2 DEF Holds
    <2> HIDE DEF E
    <2> QED
        BY <1>1, <1>2, <1>5, <2>2, <2>3 DEF Stepped, E
<1>6. CASE a \notin D.ledger /\ ~Contradicts(D, a)
    <2>1. E = IF a.rel = "same" THEN MergeClasses(Asserted(D, a), a.pair)
              ELSE ReplaceSeparationForReferences(Asserted(D, a), a.pair)
        BY <1>6 DEF AssertStep, Asserted
    <2>2. a.rel = "same" \/ a.rel = "different"
        BY DEF Assertions
    <2>3. /\ Sound(Asserted(D, a)) /\ Asserted(D, a).live = D.live /\ Asserted(D, a).kinds = D.kinds
          /\ Asserted(D, a).folds = D.folds /\ Asserted(D, a).ledger = D.ledger \cup {a}
          /\ Asserted(D, a).verdict = "done"
        BY AssertedForm DEF Current
    <2> HIDE DEF E
    <2>4. Repaired(Asserted(D, a), E)
        BY <2>1, <2>2, MergeRepaired, ApartRepaired
    <2>5. ~Bad(D, D.ledger \cup {a})
        BY <1>2, <1>6
    <2>6. Bad(Asserted(D, a), D.ledger \cup {a}) = Bad(D, D.ledger \cup {a})
        BY <2>3, BadAlike
    <2>7. ~Contra(TrueLinks(Asserted(D, a)), Asserted(D, a).ledger)
        BY <2>3, <2>5, <2>6, BadForm
    <2>8. E.verdict = "done" /\ E.ledger = D.ledger \cup {a}
        BY <2>3, <2>4, <2>7 DEF Repaired
    <2>9. Holds(E)
        BY <1>3, <2>5, <2>8 DEF Holds
    <2> QED
        BY <1>1, <2>8, <2>9 DEF Stepped, E
<1> QED
    BY <1>4, <1>5, <1>6

-----------------------------------------------------------------------------
(* New nodes of one kind, folded into the classes of the nodes of their ids. *)

Folding(old, new, A, nodes, created) ==
    /\ nodes \in SUBSET Refs
    /\ created \in SUBSET (Refs \ nodes)
    /\ \A r, s \in created : r[1] = s[1]
    /\ old \in SUBSET SUBSET nodes
    /\ new \in SUBSET SUBSET Refs
    /\ \A p \in new \ old : \E u \in created, v \in nodes : p = {u, v} /\ Id(u) = Id(v)
    /\ \A v, w \in nodes : Id(v) = Id(w) => w \in Reach(old, v)
    /\ A \in SUBSET Assertions
    /\ \A a \in A : a.pair \subseteq nodes
    /\ ~Contra(old, A)
    /\ \A u \in created, v \in nodes : Id(u) = Id(v) => ~DisjointKinds({u}, Reach(old, v))

\* The class of y, and the new nodes that share an id with one of it.
Gathered(old, nodes, created, y) ==
    Reach(old, y) \cup {u \in created : \E v \in nodes \cap Reach(old, y) : Id(u) = Id(v)}

LEMMA GatheredClosed ==
    ASSUME NEW old, NEW new, NEW A, NEW nodes, NEW created, Folding(old, new, A, nodes, created),
           NEW y \in Refs \ created
    PROVE  /\ Closed(new, Gathered(old, nodes, created, y))
           /\ Gathered(old, nodes, created, y) \in SUBSET Refs
           /\ y \in Gathered(old, nodes, created, y)
           /\ Reach(old, y) \cap created = {}
<1> DEFINE G == Gathered(old, nodes, created, y)
           C == Reach(old, y)
<1>0. /\ nodes \in SUBSET Refs
      /\ created \in SUBSET (Refs \ nodes)
      /\ old \in SUBSET SUBSET nodes
      /\ \A p \in new \ old : \E u \in created, v \in nodes : p = {u, v} /\ Id(u) = Id(v)
      /\ \A v, w \in nodes : Id(v) = Id(w) => w \in Reach(old, v)
    BY DEF Folding
<1>1. old \in SUBSET SUBSET Refs
    BY <1>0
<1>2. C \in SUBSET Refs /\ y \in C /\ Closed(old, C)
    BY <1>1, ReachLeast
<1>3. C \cap created = {}
    <2> DEFINE T == Refs \ created
    <2>1. T \in SUBSET Refs /\ Closed(old, T) /\ y \in T
        BY <1>0 DEF Closed
    <2> HIDE DEF T
    <2>2. C \subseteq T
        BY <1>1, <2>1, ReachLeast
    <2> QED
        BY <2>2 DEF T
<1>4. G = C \cup {u \in created : \E v \in nodes \cap C : Id(u) = Id(v)}
    BY DEF Gathered
<1>5. \A v, w \in nodes : v \in C /\ Id(v) = Id(w) => w \in C
    <2> SUFFICES ASSUME NEW v \in nodes, NEW w \in nodes, v \in C, Id(v) = Id(w) PROVE w \in C
        OBVIOUS
    <2>1. w \in Reach(old, v)
        BY <1>0
    <2>2. Reach(old, v) = C
        BY <1>1, ReachSame
    <2> QED
        BY <2>1, <2>2
<1> HIDE DEF G, C
<1>6. ASSUME NEW p \in new, p \cap G # {} PROVE p \subseteq G
    <2>1. CASE p \in old
        <3>1. p \subseteq nodes
            BY <1>0, <2>1
        <3>2. p \cap C # {}
            BY <1>0, <1>4, <1>6, <3>1
        <3>3. p \subseteq C
            BY <1>2, <2>1, <3>2 DEF Closed
        <3> QED
            BY <1>4, <3>3
    <2>2. CASE p \notin old
        <3>1. PICK u \in created, v \in nodes : p = {u, v} /\ Id(u) = Id(v)
            BY <1>0, <2>2
        <3>2. CASE v \in C
            BY <1>4, <3>1, <3>2
        <3>3. CASE v \notin C
            <4>1. v \notin G
                BY <1>0, <1>4, <3>1, <3>3
            <4>2. u \in G /\ u \notin C
                BY <1>3, <1>6, <3>1, <4>1
            <4>3. PICK w \in nodes : w \in C /\ Id(u) = Id(w)
                BY <1>4, <4>2
            <4>4. v \in C
                BY <1>5, <3>1, <4>3
            <4> QED
                BY <3>3, <4>4
        <3> QED
            BY <3>2, <3>3
    <2> QED
        BY <2>1, <2>2
<1>7. Closed(new, G)
    BY <1>6 DEF Closed
<1>8. G \in SUBSET Refs /\ y \in G
    BY <1>0, <1>2, <1>4
<1> QED
    BY <1>3, <1>7, <1>8 DEF G, C

LEMMA GatheredSound ==
    ASSUME NEW old, NEW new, NEW A, NEW nodes, NEW created, Folding(old, new, A, nodes, created),
           NEW y \in Refs \ created
    PROVE  /\ \A a, b \in Gathered(old, nodes, created, y) : {a[1], b[1]} \notin Disjoint
           /\ \A a \in A : a.rel = "different" => ~(a.pair \subseteq Gathered(old, nodes, created, y))
<1> DEFINE G == Gathered(old, nodes, created, y)
           C == Reach(old, y)
<1>0. /\ nodes \in SUBSET Refs
      /\ created \in SUBSET (Refs \ nodes)
      /\ \A r, s \in created : r[1] = s[1]
      /\ old \in SUBSET SUBSET nodes
      /\ A \in SUBSET Assertions
      /\ \A a \in A : a.pair \subseteq nodes
      /\ ~Contra(old, A)
      /\ \A u \in created, v \in nodes : Id(u) = Id(v) => ~DisjointKinds({u}, Reach(old, v))
    BY DEF Folding
<1>1. old \in SUBSET SUBSET Refs
    BY <1>0
<1>2. C \in SUBSET Refs /\ y \in C /\ Closed(old, C)
    BY <1>1, ReachLeast
<1>3. \A r \in C : r \in Refs /\ Reach(old, r) = C
    BY <1>1, ReachSame
<1>4. G = C \cup {u \in created : \E v \in nodes \cap C : Id(u) = Id(v)}
    BY DEF Gathered
<1>5. C \cap created = {}
    BY GatheredClosed
<1>6. /\ \A r \in Refs : \A s \in Reach(old, r) : {r[1], s[1]} \notin Disjoint
      /\ \A a \in A : a.rel = "different" => \A r \in a.pair : ~(a.pair \subseteq Reach(old, r))
    BY <1>0 DEF Contra
<1>7. \A u, v \in C : {u[1], v[1]} \notin Disjoint
    BY <1>3, <1>6
<1>8. ASSUME NEW u \in created, NEW v \in nodes \cap C, Id(u) = Id(v), NEW w \in C
      PROVE  {u[1], w[1]} \notin Disjoint
    <2>1. ~DisjointKinds({u}, C)
        BY <1>0, <1>3, <1>8
    <2> QED
        BY <2>1 DEF DisjointKinds, Kind
<1>9. \A u, v \in created : {u[1], v[1]} \notin Disjoint
    <2> SUFFICES ASSUME NEW u \in created, NEW v \in created PROVE {u[1], v[1]} \notin Disjoint
        OBVIOUS
    <2>1. u[1] = v[1] /\ u \in Refs
        BY <1>0
    <2>2. {u[1], v[1]} = {u[1]}
        BY <2>1
    <2> QED
        BY <2>1, <2>2, DisjointAssumption
<1>10. \A u, v : {u[1], v[1]} = {v[1], u[1]}
    OBVIOUS
<1> HIDE DEF G, C
<1>11. \A a, b \in G : {a[1], b[1]} \notin Disjoint
    <2> SUFFICES ASSUME NEW a \in G, NEW b \in G PROVE {a[1], b[1]} \notin Disjoint
        OBVIOUS
    <2>1. CASE a \in C /\ b \in C
        BY <1>7, <2>1
    <2>2. CASE a \in C /\ b \notin C
        <3>1. b \in created /\ \E v \in nodes \cap C : Id(b) = Id(v)
            BY <1>4, <2>2
        <3>2. {b[1], a[1]} \notin Disjoint
            BY <1>8, <2>2, <3>1
        <3> QED
            BY <1>10, <3>2
    <2>3. CASE a \notin C /\ b \in C
        <3>1. a \in created /\ \E v \in nodes \cap C : Id(a) = Id(v)
            BY <1>4, <2>3
        <3> QED
            BY <1>8, <2>3, <3>1
    <2>4. CASE a \notin C /\ b \notin C
        BY <1>4, <1>9, <2>4
    <2> QED
        BY <2>1, <2>2, <2>3, <2>4
<1>12. ASSUME NEW a \in A, a.rel = "different", a.pair \subseteq G PROVE FALSE
    <2>1. a.pair \subseteq C
        BY <1>0, <1>4, <1>12
    <2>2. \A r \in a.pair : a.pair \subseteq Reach(old, r)
        BY <1>3, <2>1
    <2>3. a.pair = {}
        BY <1>6, <1>12, <2>2
    <2>4. a.pair \in Pairs
        BY <1>0 DEF Assertions
    <2> QED
        BY <2>3, <2>4, PairForm
<1> QED
    BY <1>11, <1>12 DEF G

LEMMA FoldingSound ==
    ASSUME NEW old, NEW new, NEW A, NEW nodes, NEW created, Folding(old, new, A, nodes, created)
    PROVE  ~Contra(new, A)
<1>0. /\ nodes \in SUBSET Refs
      /\ created \in SUBSET (Refs \ nodes)
      /\ old \in SUBSET SUBSET nodes
      /\ new \in SUBSET SUBSET Refs
      /\ \A p \in new \ old : \E u \in created, v \in nodes : p = {u, v} /\ Id(u) = Id(v)
      /\ \A v, w \in nodes : Id(v) = Id(w) => w \in Reach(old, v)
      /\ A \in SUBSET Assertions
    BY DEF Folding
<1> DEFINE G(y) == Gathered(old, nodes, created, y)
<1>1. \A y \in Refs \ created : /\ Closed(new, G(y)) /\ G(y) \in SUBSET Refs /\ y \in G(y)
                                 /\ \A a, b \in G(y) : {a[1], b[1]} \notin Disjoint
                                 /\ \A d \in A : d.rel = "different" => ~(d.pair \subseteq G(y))
    BY GatheredClosed, GatheredSound
<1>2. \A u \in created, v \in nodes : Id(u) = Id(v) => u \in G(v)
    <2> SUFFICES ASSUME NEW u \in created, NEW v \in nodes, Id(u) = Id(v) PROVE u \in G(v)
        OBVIOUS
    <2>1. old \in SUBSET SUBSET Refs /\ v \in Refs
        BY <1>0
    <2>2. v \in Reach(old, v)
        BY <2>1, ReachLeast
    <2> QED
        BY <2>2 DEF Gathered
<1> HIDE DEF G
<1>3. ASSUME NEW x \in Refs
      PROVE  Reach(new, x) \subseteq {x} \/ \E y \in Refs \ created : Reach(new, x) \subseteq G(y)
    <2>1. ASSUME NEW y \in Refs \ created, x \in G(y) PROVE Reach(new, x) \subseteq G(y)
        BY <1>0, <1>1, <2>1, ReachLeast
    <2>2. CASE x \notin created
        BY <1>1, <2>1, <2>2
    <2>3. CASE x \in created /\ \E v \in nodes : Id(x) = Id(v)
        BY <1>0, <1>2, <2>1, <2>3
    <2>4. CASE x \in created /\ ~ \E v \in nodes : Id(x) = Id(v)
        <3>1. \A p \in new : x \notin p
            BY <1>0, <2>4
        <3> DEFINE T == {x}
        <3>2. T \in SUBSET Refs /\ x \in T /\ Closed(new, T)
            BY <3>1 DEF Closed
        <3> HIDE DEF T
        <3>3. Reach(new, x) \subseteq T
            BY <1>0, <3>2, ReachLeast
        <3> QED
            BY <3>3 DEF T
    <2> QED
        BY <2>2, <2>3, <2>4
<1>4. ASSUME NEW r \in Refs, NEW s \in Reach(new, r) PROVE {r[1], s[1]} \notin Disjoint
    <2>1. r \in Reach(new, r)
        BY <1>0, ReachLeast
    <2>2. CASE Reach(new, r) \subseteq {r}
        <3>1. s = r /\ {r[1], s[1]} = {r[1]}
            BY <1>4, <2>2
        <3> QED
            BY <3>1, DisjointAssumption
    <2>3. CASE \E y \in Refs \ created : Reach(new, r) \subseteq G(y)
        BY <1>1, <1>4, <2>1, <2>3
    <2> QED
        BY <1>3, <2>2, <2>3
<1>5. ASSUME NEW a \in A, a.rel = "different", NEW r \in a.pair PROVE ~(a.pair \subseteq Reach(new, r))
    <2>1. PICK u \in Refs, v \in Refs : u # v /\ a.pair = {u, v}
        BY <1>0, PairForm DEF Assertions
    <2> QED
        BY <1>1, <1>3, <1>5, <2>1
<1> QED
    BY <1>4, <1>5 DEF Contra

LEMMA RefTuple ==
    ASSUME NEW r \in Refs, NEW s \in Refs, Kind(r) = Kind(s), Id(r) = Id(s)
    PROVE  r = s
<1>1. r \in Nat \X Nat /\ s \in Nat \X Nat
    BY RefsAssumption
<1> QED
    BY <1>1 DEF Kind, Id

LEMMA AddedTables ==
    ASSUME NEW D, Current(D), Holds(D), NEW created \in SUBSET OfKinds(Refs, D.kinds)
    PROVE  Tables(Added(D, created), TrueLinks(D), D.ledger)
<1>1. /\ Sound(D) /\ D.closure = ClosureTable(TrueLinks(D))
      /\ D.separation = Keys(TrueLinks(D), Differents(D)) /\ D.ledger \in SUBSET Assertions
    BY DEF Current, Sound
<1>2. Added(D, created).closure = D.closure /\ Added(D, created).separation = D.separation
    BY <1>1, AddedForm
<1>3. TrueLinks(D) \in SUBSET SUBSET Refs /\ ~Contra(TrueLinks(D), D.ledger)
    BY <1>1, SoundLinks, BadForm DEF Holds
<1> QED
    BY <1>1, <1>2, <1>3 DEF Tables, Differents

\* A fold that validated every new node leaves no contradiction, provided the
\* nodes are of one kind.
LEMMA FoldHolds ==
    ASSUME NEW D, Current(D), Holds(D), NEW created \in SUBSET (OfKinds(Refs, D.kinds) \ D.live),
           \A r, s \in created : Kind(r) = Kind(s),
           ~FoldRefuses(Added(D, created), created)
    PROVE  ~Contra(TrueLinks(Added(D, created)), D.ledger)
<1> DEFINE W == Added(D, created)
           old == TrueLinks(D)
           new == TrueLinks(W)
<1>0. created \in SUBSET OfKinds(Refs, D.kinds)
    OBVIOUS
<1>1. Sound(D) /\ D.ledger \in SUBSET Assertions /\ D.folds \in BOOLEAN
    BY DEF Current, Sound
<1>2. /\ Sound(W) /\ W.ledger = D.ledger /\ W.folds = D.folds
      /\ Known(W) = Known(D) \cup created
    BY <1>0, <1>1, AddedForm
<1>3. /\ old \in SUBSET SUBSET Known(D) /\ old \in SUBSET SUBSET Refs /\ Known(D) \in SUBSET Refs
      /\ old = FoldLinks(Known(D), D.folds) \cup PairsOf(Relating(D.ledger, "same"))
      /\ \A a \in D.ledger : a.pair \subseteq Known(D)
    BY <1>1, SoundLinks
<1>4. new \in SUBSET SUBSET Refs
    BY <1>2, SoundLinks
<1>5. \A p \in new \ old :
          p \in Pairs /\ W.folds /\ p \subseteq Known(W) /\ (\A r, s \in p : Id(r) = Id(s))
          /\ ~(p \subseteq Known(D))
    BY <1>1, <1>2, NodesChanged
<1>6. ~Contra(old, D.ledger)
    BY <1>1, BadForm DEF Holds
<1>7. Tables(W, old, D.ledger)
    BY <1>0, AddedTables
<1>8. created \in SUBSET (Refs \ Known(D))
    BY DEF Known, OfKinds
<1>9. old \subseteq new
    BY <1>1, <1>2, <1>3, NodesChanged
<1>10. FoldRefuses(W, created) <=>
           W.folds /\ \E r \in FoldedNodes(W, created) : \E s \in Peers(W, r) :
                          Contradicts(W, [rel |-> "same", pair |-> {r, s}])
    BY DEF FoldRefuses
<1>11. ~FoldRefuses(W, created)
    OBVIOUS
<1> HIDE DEF W, old, new
<1>12. CASE ~W.folds
    <2>1. new = old
        BY <1>5, <1>9, <1>12
    <2> QED
        BY <1>6, <2>1 DEF new, W
<1>13. CASE W.folds
    <2>1. \A p \in new \ old : \E u \in created, v \in Known(D) : p = {u, v} /\ Id(u) = Id(v)
        <3> SUFFICES ASSUME NEW p \in new \ old
                     PROVE  \E u \in created, v \in Known(D) : p = {u, v} /\ Id(u) = Id(v)
            OBVIOUS
        <3>1. PICK x \in Refs, y \in Refs : x # y /\ p = {x, y}
            BY <1>5, PairForm
        <3>2. Id(x) = Id(y) /\ x \in Known(W) /\ y \in Known(W) /\ ~(x \in Known(D) /\ y \in Known(D))
            BY <1>5, <3>1
        <3>3. ~(x \in created /\ y \in created)
            BY <3>1, <3>2, RefTuple
        <3>4. {x, y} = {y, x}
            OBVIOUS
        <3> QED
            BY <1>2, <3>1, <3>2, <3>3, <3>4
    <2>2. \A v, w \in Known(D) : Id(v) = Id(w) => w \in Reach(old, v)
        <3> SUFFICES ASSUME NEW v \in Known(D), NEW w \in Known(D), Id(v) = Id(w)
                     PROVE  w \in Reach(old, v)
            OBVIOUS
        <3>1. v \in Refs /\ w \in Refs /\ v \in Reach(old, v) /\ Closed(old, Reach(old, v))
            BY <1>3, ReachLeast
        <3>2. CASE v # w
            <4>1. {v, w} \in Pairs
                BY <3>1, <3>2, PairForm
            <4>2. \A r, s \in {v, w} : Id(r) = Id(s)
                OBVIOUS
            <4>3. {v, w} \in FoldLinks(Known(D), D.folds)
                BY <1>2, <1>13, <4>1, <4>2 DEF FoldLinks
            <4>4. {v, w} \in old
                BY <1>3, <4>3
            <4>5. {v, w} \cap Reach(old, v) # {}
                BY <3>1
            <4>6. {v, w} \subseteq Reach(old, v)
                BY <3>1, <4>4, <4>5 DEF Closed
            <4> QED
                BY <4>6
        <3> QED
            BY <3>1, <3>2
    <2>3. \A u \in created, v \in Known(D) : Id(u) = Id(v) => ~DisjointKinds({u}, Reach(old, v))
        <3> SUFFICES ASSUME NEW u \in created, NEW v \in Known(D), Id(u) = Id(v)
                     PROVE  ~DisjointKinds({u}, Reach(old, v))
            OBVIOUS
        <3>1. u \in Refs /\ v \in Refs /\ u # v
            BY <1>3, <1>8
        <3>2. v \in Peers(W, u) /\ u \in FoldedNodes(W, created)
            BY <1>2, <3>1 DEF Peers, FoldedNodes
        <3> DEFINE a == [rel |-> "same", pair |-> {u, v}]
        <3>3. ~Contradicts(W, a)
            BY <1>10, <1>11, <1>13, <3>2
        <3>4. a \in Assertions /\ a.rel = "same" /\ a.pair = {u, v}
            BY <3>1, PairForm DEF Assertions
        <3> HIDE DEF a
        <3>5. ~Contra(old \cup {a.pair}, D.ledger)
            BY <1>7, <3>3, <3>4, ContradictsForm
        <3>6. Contra(old \cup {{u, v}}, D.ledger) <=> Clash(old, D.ledger, u, v)
            BY <1>1, <1>3, <1>6, <3>1, ContraSame
        <3>7. ~DisjointKinds(Reach(old, u), Reach(old, v))
            BY <3>4, <3>5, <3>6 DEF Clash
        <3>8. u \in Reach(old, u)
            BY <1>3, <3>1, ReachLeast
        <3> QED
            BY <3>7, <3>8 DEF DisjointKinds
    <2>4. \A r, s \in created : r[1] = s[1]
        BY DEF Kind
    <2>5. Folding(old, new, D.ledger, Known(D), created)
        BY <1>1, <1>3, <1>4, <1>6, <1>8, <2>1, <2>2, <2>3, <2>4 DEF Folding
    <2>6. ~Contra(new, D.ledger)
        BY <2>5, FoldingSound
    <2> QED
        BY <2>6 DEF new, W
<1> QED
    BY <1>12, <1>13

\* A fold is refused only if two nodes of one id cannot both be there.
LEMMA FoldRefusal ==
    ASSUME NEW D, Current(D), Holds(D), NEW created \in SUBSET OfKinds(Refs, D.kinds),
           FoldRefuses(Added(D, created), created)
    PROVE  \E r, s \in Refs : Promise!Contradictory(Known(D) \cup {r, s}, D.ledger, D.folds)
<1> DEFINE W == Added(D, created)
           old == TrueLinks(D)
<1>1. Sound(D) /\ D.ledger \in SUBSET Assertions /\ D.folds \in BOOLEAN
    BY DEF Current, Sound
<1>2. /\ Sound(W) /\ W.folds = D.folds /\ Known(W) = Known(D) \cup created
    BY <1>1, AddedForm
<1>3. /\ old \in SUBSET SUBSET Refs /\ Known(D) \in SUBSET Refs
      /\ old = FoldLinks(Known(D), D.folds) \cup PairsOf(Relating(D.ledger, "same"))
    BY <1>1, SoundLinks
<1>4. Tables(W, old, D.ledger)
    BY AddedTables
<1>5. created \in SUBSET Refs
    BY DEF OfKinds
<1>a. PICK r \in FoldedNodes(W, created) :
          W.folds /\ \E s \in Peers(W, r) : Contradicts(W, [rel |-> "same", pair |-> {r, s}])
    BY DEF FoldRefuses
<1>6. PICK s \in Peers(W, r) :
          W.folds /\ Contradicts(W, [rel |-> "same", pair |-> {r, s}])
    BY <1>a
<1> HIDE DEF W, old
<1> DEFINE a == [rel |-> "same", pair |-> {r, s}]
           nodes == Known(D) \cup {r, s}
           many == Promise!Links(nodes, D.ledger, D.folds)
<1>7. r \in Refs /\ s \in Refs /\ r # s /\ Id(r) = Id(s)
    BY <1>2, <1>3, <1>5 DEF FoldedNodes, Peers
<1>8. a \in Assertions /\ a.rel = "same" /\ a.pair = {r, s} /\ {r, s} \in Pairs
    BY <1>7, PairForm DEF Assertions
<1>9. Contradicts(W, a)
    BY <1>6
<1> HIDE DEF a
<1>10. Contra(old \cup {a.pair}, D.ledger)
    BY <1>4, <1>8, <1>9, ContradictsForm
<1>11. nodes \in SUBSET Refs
    BY <1>3, <1>7
<1> HIDE DEF nodes
<1>12. /\ many = FoldLinks(nodes, D.folds) \cup PairsOf(Relating(D.ledger, "same"))
       /\ many \in SUBSET SUBSET Refs
    BY <1>1, <1>11, LinksForm
<1> HIDE DEF many
<1>13. FoldLinks(Known(D), D.folds) \subseteq FoldLinks(nodes, D.folds)
    BY DEF FoldLinks, nodes
<1>14. {r, s} \in FoldLinks(nodes, D.folds)
    <2>1. \A x, y \in {r, s} : Id(x) = Id(y)
        BY <1>7
    <2>2. {r, s} \subseteq nodes
        BY DEF nodes
    <2> QED
        BY <1>2, <1>6, <1>8, <2>1, <2>2 DEF FoldLinks
<1> DEFINE few == old \cup {a.pair}
<1>15. few \subseteq many /\ few \in SUBSET SUBSET Refs
    <2>1. few = old \cup {{r, s}}
        BY <1>8
    <2>2. few \subseteq many
        BY <1>3, <1>12, <1>13, <1>14, <2>1
    <2> QED
        BY <1>12, <2>2
<1>16. Contra(few, D.ledger)
    BY <1>10
<1> HIDE DEF few
<1>17. Contra(many, D.ledger)
    BY <1>1, <1>12, <1>15, <1>16, ContraGrows
<1>18. Promise!Contradictory(nodes, D.ledger, D.folds)
    BY <1>1, <1>17, ContradictoryForm DEF many
<1> QED
    BY <1>7, <1>18 DEF nodes

-----------------------------------------------------------------------------
(* What leaves nodes and assertions out contradicts no more than before. *)

LEMMA FewerHold ==
    ASSUME NEW D, Sound(D), Holds(D), NEW W, Sound(W), W.folds = D.folds,
           Known(W) \subseteq Known(D), W.ledger \subseteq D.ledger
    PROVE  Holds(W)
<1>1. D.ledger \in SUBSET Assertions
    BY DEF Sound
<1>2. /\ TrueLinks(D) = FoldLinks(Known(D), D.folds) \cup PairsOf(Relating(D.ledger, "same"))
      /\ TrueLinks(D) \in SUBSET SUBSET Refs
    BY SoundLinks
<1>3. /\ TrueLinks(W) = FoldLinks(Known(W), W.folds) \cup PairsOf(Relating(W.ledger, "same"))
      /\ TrueLinks(W) \in SUBSET SUBSET Refs
    BY SoundLinks
<1>4. TrueLinks(W) \subseteq TrueLinks(D)
    BY <1>2, <1>3 DEF FoldLinks, PairsOf, Relating
<1>5. ~Contra(TrueLinks(D), D.ledger)
    BY BadForm DEF Holds
<1>6. ~Contra(TrueLinks(W), W.ledger)
    BY <1>1, <1>2, <1>3, <1>4, <1>5, ContraGrows
<1> QED
    BY <1>6, BadForm DEF Holds

\* A repair of rows that hold together is never stopped by a constraint.
LEMMA RepairCommits ==
    ASSUME NEW W, Sound(W), Holds(W), NEW E, Repaired(W, E)
    PROVE  /\ Current(E) /\ Holds(E) /\ E.verdict = W.verdict
           /\ E.live = W.live /\ E.kinds = W.kinds /\ E.ledger = W.ledger /\ E.folds = W.folds
<1>1. /\ Current(E) /\ E.live = W.live /\ E.kinds = W.kinds /\ E.ledger = W.ledger
      /\ E.folds = W.folds /\ (~Contra(TrueLinks(W), W.ledger) => E.verdict = W.verdict)
    BY DEF Repaired
<1>2. ~Contra(TrueLinks(W), W.ledger)
    BY BadForm DEF Holds
<1>3. \A asserted : Bad(E, asserted) = Bad(W, asserted)
    BY <1>1, BadAlike
<1>4. Holds(E)
    BY <1>1, <1>3 DEF Holds
<1> QED
    BY <1>1, <1>2, <1>4

LEMMA RetractExact ==
    ASSUME NEW D, Current(D), Holds(D), NEW ended \in SUBSET D.ledger
    PROVE  LET E == RetractStep(D, ended)
           IN  /\ Current(E) /\ Holds(E) /\ E.verdict = D.verdict
               /\ E.live = D.live /\ E.kinds = D.kinds /\ E.folds = D.folds
               /\ E.ledger = D.ledger \ ended
<1> DEFINE W == Ended(D, ended)
           E == RetractStep(D, ended)
<1>1. Sound(D)
    BY DEF Current
<1>2. /\ Sound(W)
      /\ W.live = D.live /\ W.kinds = D.kinds /\ W.folds = D.folds
      /\ W.verdict = D.verdict
      /\ W.ledger = D.ledger \ ended /\ Known(W) = Known(D)
    BY <1>1, EndedForm
<1>3. Repaired(W, E)
    BY RetractRepairs
<1> HIDE DEF W, E
<1>4. Holds(W)
    BY <1>1, <1>2, FewerHold
<1>5. /\ Current(E) /\ Holds(E) /\ E.verdict = W.verdict
      /\ E.live = W.live /\ E.kinds = W.kinds /\ E.ledger = W.ledger /\ E.folds = W.folds
    BY <1>2, <1>3, <1>4, RepairCommits
<1> QED
    BY <1>2, <1>5 DEF E

LEMMA DeleteExact ==
    ASSUME NEW D, Current(D), Holds(D), NEW r \in Known(D)
    PROVE  LET E == IF Touching(D.ledger, {r}) = {} /\ r \notin DOMAIN D.closure THEN Removed(D, r)
                    ELSE ReplaceAffectedClosure(Removed(D, r), {r})
           IN  /\ Current(E) /\ Holds(E) /\ E.verdict = D.verdict
               /\ E.live = D.live \ {r} /\ E.kinds = D.kinds /\ E.folds = D.folds
               /\ E.ledger = {a \in D.ledger : r \notin a.pair}
<1> DEFINE W == Removed(D, r)
           E == IF Touching(D.ledger, {r}) = {} /\ r \notin DOMAIN D.closure THEN W
                ELSE ReplaceAffectedClosure(W, {r})
<1>1. Sound(D)
    BY DEF Current
<1>2. /\ Sound(W)
      /\ W.live = D.live \ {r} /\ W.kinds = D.kinds /\ W.folds = D.folds
      /\ W.verdict = D.verdict
      /\ W.ledger = {a \in D.ledger : r \notin a.pair} /\ Known(W) = Known(D) \ {r}
    BY <1>1, RemovedForm
<1>3. Repaired(W, E)
    BY DeleteRepairs
<1> HIDE DEF W, E
<1>4. Holds(W)
    <2>1. W.ledger \subseteq D.ledger /\ Known(W) \subseteq Known(D)
        BY <1>2
    <2> QED
        BY <1>1, <1>2, <2>1, FewerHold
<1>5. /\ Current(E) /\ Holds(E) /\ E.verdict = W.verdict
      /\ E.live = W.live /\ E.kinds = W.kinds /\ E.ledger = W.ledger /\ E.folds = W.folds
    BY <1>2, <1>3, <1>4, RepairCommits
<1> QED
    BY <1>2, <1>5 DEF E, W

LEMMA RemoveKindExact ==
    ASSUME NEW D, Current(D), Holds(D), NEW k
    PROVE  LET E == ReplaceClosure(KindRemoved(D, k))
           IN  /\ Current(E) /\ Holds(E) /\ E.verdict = D.verdict
               /\ E.live = D.live /\ E.kinds = D.kinds \ {k} /\ E.folds = D.folds
               /\ E.ledger = D.ledger \ Touching(D.ledger, OfKinds(Refs, {k}))
<1> DEFINE W == KindRemoved(D, k)
           E == ReplaceClosure(W)
<1>1. Sound(D)
    BY DEF Current
<1>2. /\ Sound(W)
      /\ W.live = D.live /\ W.kinds = D.kinds \ {k} /\ W.folds = D.folds
      /\ W.verdict = D.verdict
      /\ W.ledger = D.ledger \ Touching(D.ledger, OfKinds(Refs, {k}))
    BY <1>1, KindRemovedForm
<1> HIDE DEF W
<1>3. Repaired(W, E)
    BY <1>2, RebuildRepairs
<1> HIDE DEF E
<1>4. Holds(W)
    <2>1. W.ledger \subseteq D.ledger /\ Known(W) \subseteq Known(D)
        BY <1>2 DEF Known, OfKinds
    <2> QED
        BY <1>1, <1>2, <2>1, FewerHold
<1>5. /\ Current(E) /\ Holds(E) /\ E.verdict = W.verdict
      /\ E.live = W.live /\ E.kinds = W.kinds /\ E.ledger = W.ledger /\ E.folds = W.folds
    BY <1>2, <1>3, <1>4, RepairCommits
<1> QED
    BY <1>2, <1>5 DEF E, W

-----------------------------------------------------------------------------
(* The validation of a rebuild sees the contradictions, and nothing else. *)

LEMMA IntegrityExact ==
    ASSUME NEW D, Sound(D)
    PROVE  IntegrityHolds(D) <=> Holds(D)
<1> DEFINE links == TrueLinks(D)
           nodes == Known(D)
           same == Relating(D.ledger, "same")
           parts == Components(nodes, same, D.folds)
<1>1. /\ links \in SUBSET SUBSET Refs /\ links \in SUBSET SUBSET nodes
      /\ links = FoldLinks(nodes, D.folds) \cup PairsOf(same)
      /\ nodes \in SUBSET Refs
      /\ \A a \in D.ledger : a.pair \in Pairs /\ a.pair \subseteq nodes /\ a.pair \subseteq Refs
    BY SoundLinks
<1>2. Snapshot(D).nodes = nodes /\ Snapshot(D).ledger = D.ledger
    <2>1. \A a \in D.ledger : a.pair = OfKinds(a.pair, D.kinds)
        BY <1>1 DEF OfKinds, Known
    <2> QED
        BY <2>1 DEF Snapshot, Known
<1>3. SnapshotParts(D) = parts
    BY <1>2 DEF SnapshotParts
<1>4. IntegrityHolds(D) <=>
          /\ \A a \in D.ledger : a.rel = "different" => \A P \in parts : ~(a.pair \subseteq P)
          /\ \A P \in parts : ~DisjointKinds(P, P)
    <2>1. Endpoints(D.ledger) \subseteq nodes
        BY DEF Sound
    <2> QED
        BY <1>2, <1>3, <2>1 DEF IntegrityHolds, Relating
<1>5. Covers(parts, links, nodes)
    <2>1. same \in SUBSET Assertions
        BY DEF Sound, Relating
    <2>2. nodes \cup Endpoints(same) = nodes
        BY <1>1 DEF Endpoints, Relating
    <2> HIDE DEF nodes, same
    <2>3. Covers(parts, FoldLinks(nodes, D.folds) \cup PairsOf(same), nodes \cup Endpoints(same))
        BY <1>1, <2>1, ComponentsPartition
    <2> HIDE DEF parts, links
    <2> QED
        BY <1>1, <2>2, <2>3
<1> HIDE DEF links, nodes, same, parts
<1>6. /\ \A r \in nodes : Reach(links, r) \in parts
      /\ \A P \in parts : \A r \in P : r \in nodes /\ P = Reach(links, r)
    BY <1>5, PartsAreClasses
<1>7. \A a \in D.ledger : (\E P \in parts : a.pair \subseteq P) <=>
                          (\E r \in a.pair : a.pair \subseteq Reach(links, r))
    <2> SUFFICES ASSUME NEW a \in D.ledger
                 PROVE  (\E P \in parts : a.pair \subseteq P) <=>
                        (\E r \in a.pair : a.pair \subseteq Reach(links, r))
        OBVIOUS
    <2>1. a.pair # {} /\ a.pair \subseteq nodes
        BY <1>1, PairForm
    <2> QED
        BY <1>6, <2>1
<1>8. (\E P \in parts : DisjointKinds(P, P)) <=>
      (\E r \in Refs : \E s \in Reach(links, r) : {r[1], s[1]} \in Disjoint)
    <2>1. ASSUME NEW P \in parts, DisjointKinds(P, P)
          PROVE  \E r \in Refs : \E s \in Reach(links, r) : {r[1], s[1]} \in Disjoint
        <3>1. PICK a \in P, b \in P : {a[1], b[1]} \in Disjoint
            BY <2>1 DEF DisjointKinds, Kind
        <3>2. a \in nodes /\ P = Reach(links, a)
            BY <1>6
        <3>3. a \in Refs /\ b \in Reach(links, a)
            BY <1>1, <3>2
        <3> QED
            BY <3>1, <3>3
    <2>2. ASSUME NEW r \in Refs, NEW s \in Reach(links, r), {r[1], s[1]} \in Disjoint
          PROVE  \E P \in parts : DisjointKinds(P, P)
        <3>1. CASE r \in nodes
            <4>1. Reach(links, r) \in parts /\ r \in Reach(links, r)
                BY <1>1, <1>6, <3>1, ReachLeast
            <4>2. DisjointKinds(Reach(links, r), Reach(links, r))
                BY <2>2, <4>1 DEF DisjointKinds, Kind
            <4> QED
                BY <4>1, <4>2
        <3>2. CASE r \notin nodes
            <4>0. \A p \in links : r \notin p
                BY <1>1, <3>2
            <4>1. Reach(links, r) = {r}
                BY <1>1, <4>0, ReachAlone
            <4>2. s = r /\ {r[1], s[1]} = {r[1]}
                BY <4>1
            <4> QED
                BY <2>2, <4>2, DisjointAssumption
        <3> QED
            BY <3>1, <3>2
    <2> QED
        BY <2>1, <2>2
<1>9. IntegrityHolds(D) <=> ~Contra(links, D.ledger)
    BY <1>4, <1>7, <1>8 DEF Contra
<1> QED
    BY <1>9, BadForm DEF Holds, links

-----------------------------------------------------------------------------
(* The union-find of a bulk call sees the classes it was asked about whole. *)

IsArea(D, S) == S \in SUBSET Known(D) /\ Closed(TrueLinks(D), S)

Local(D, S) == FoldLinks(S, D.folds) \cup PairsOf(Relating(Touching(D.ledger, S), "same"))

LEMMA LocalLinks ==
    ASSUME NEW D, Sound(D), NEW S, IsArea(D, S)
    PROVE  /\ Local(D, S) \in SUBSET SUBSET S
           /\ Local(D, S) \subseteq TrueLinks(D)
           /\ \A p \in TrueLinks(D) : p \cap S # {} => p \in Local(D, S)
           /\ Endpoints(Relating(Touching(D.ledger, S), "same")) \subseteq S
<1>1. /\ TrueLinks(D) = FoldLinks(Known(D), D.folds) \cup PairsOf(Relating(D.ledger, "same"))
      /\ \A a \in D.ledger : a.pair \in Pairs /\ a.pair \subseteq Known(D) /\ a.pair \subseteq Refs
    BY SoundLinks
<1>2. S \subseteq Known(D) /\ \A p \in TrueLinks(D) : p \cap S # {} => p \subseteq S
    BY DEF IsArea, Closed
<1>3. \A a \in Relating(Touching(D.ledger, S), "same") : a.pair \in TrueLinks(D) /\ a.pair \cap S # {}
    BY <1>1 DEF Relating, Touching, PairsOf
<1>4. FoldLinks(S, D.folds) \subseteq FoldLinks(Known(D), D.folds)
    BY <1>2 DEF FoldLinks
<1>5. \A p \in FoldLinks(S, D.folds) : p \subseteq S
    BY DEF FoldLinks
<1>6. Local(D, S) \in SUBSET SUBSET S
    BY <1>2, <1>3, <1>5 DEF Local, PairsOf
<1>7. Local(D, S) \subseteq TrueLinks(D)
    BY <1>1, <1>3, <1>4 DEF Local, PairsOf
<1>8. ASSUME NEW p \in TrueLinks(D), p \cap S # {} PROVE p \in Local(D, S)
    <2>1. p \subseteq S
        BY <1>2, <1>8
    <2>2. CASE p \in FoldLinks(Known(D), D.folds)
        BY <2>1, <2>2 DEF FoldLinks, Local
    <2>3. CASE p \in PairsOf(Relating(D.ledger, "same"))
        BY <1>8, <2>3 DEF PairsOf, Relating, Touching, Local
    <2> QED
        BY <1>1, <2>2, <2>3
<1>9. Endpoints(Relating(Touching(D.ledger, S), "same")) \subseteq S
    BY <1>2, <1>3 DEF Endpoints
<1> QED
    BY <1>6, <1>7, <1>8, <1>9

LEMMA LocalClasses ==
    ASSUME NEW D, Sound(D), NEW S, IsArea(D, S), NEW more \in SUBSET SUBSET S
    PROVE  /\ \A r \in S : /\ Reach(Local(D, S) \cup more, r) = Reach(TrueLinks(D) \cup more, r)
                           /\ Reach(TrueLinks(D) \cup more, r) \subseteq S
           /\ \A r \in Refs \ S : /\ Reach(Local(D, S) \cup more, r) = {r}
                                  /\ Reach(TrueLinks(D) \cup more, r) \cap S = {}
<1> DEFINE few == Local(D, S) \cup more
           many == TrueLinks(D) \cup more
<1>1. /\ Local(D, S) \in SUBSET SUBSET S /\ Local(D, S) \subseteq TrueLinks(D)
      /\ \A p \in TrueLinks(D) : p \cap S # {} => p \in Local(D, S)
    BY LocalLinks
<1>2. S \in SUBSET Refs /\ TrueLinks(D) \in SUBSET SUBSET Refs /\ Closed(TrueLinks(D), S)
    BY SoundLinks DEF IsArea
<1>3. /\ few \in SUBSET SUBSET S /\ few \in SUBSET SUBSET Refs /\ many \in SUBSET SUBSET Refs
      /\ Closed(few, S) /\ Closed(many, S)
    BY <1>1, <1>2 DEF Closed
<1>4. \A p : p \cap S # {} => (p \in few <=> p \in many)
    BY <1>1
<1> HIDE DEF few, many
<1>5. \A r \in S : Reach(few, r) = Reach(many, r) /\ Reach(few, r) \subseteq S
    BY <1>2, <1>3, <1>4, ReachWithin
<1>6. ASSUME NEW r \in Refs \ S PROVE Reach(few, r) = {r} /\ Reach(many, r) \cap S = {}
    <2>1. \A p \in few : r \notin p
        BY <1>3
    <2>2. Reach(few, r) = {r}
        BY <1>3, <2>1, ReachAlone
    <2> DEFINE rest == Refs \ S
    <2>3. rest \in SUBSET Refs /\ r \in rest /\ Closed(many, rest)
        BY <1>2, <1>3, ClosedComplement
    <2> HIDE DEF rest
    <2>4. Reach(many, r) \subseteq rest
        BY <1>3, <2>3, ReachLeast
    <2> QED
        BY <2>2, <2>4 DEF rest
<1> QED
    BY <1>5, <1>6 DEF few, many

\* A union-find in the middle of a bulk call, with what it has accepted.
BulkReady(D, S, B, created) ==
    /\ Sound(D)
    /\ IsArea(D, S)
    /\ created \in SUBSET Assertions
    /\ \A c \in created : c.pair \subseteq S
    /\ B.known = Touching(D.ledger, S)
    /\ Covers(B.parts, Local(D, S) \cup PairsOf(Relating(created, "same")), S)
    /\ ~Bad(D, D.ledger \cup created)

LEMMA TwoIsOne ==
    ASSUME NEW X, NEW Y
    PROVE  Cardinality({X, Y}) = 1 <=> X = Y
<1>1. IsFiniteSet({X, Y})
    <2>1. IsFiniteSet({X}) /\ {X, Y} = {X} \cup {Y}
        BY FS_Singleton
    <2> QED
        BY <2>1, FS_AddElement
<1>2. Cardinality({X, Y}) = 1 <=> \E z : {X, Y} = {z}
    BY <1>1, FS_Singleton
<1> QED
    BY <1>2

\* The classes of the union-find are the classes of the rows.
LEMMA BulkClasses ==
    ASSUME NEW D, NEW S, NEW B, NEW created, BulkReady(D, S, B, created)
    PROVE  LET V == AssertedAll(D, created)
               L == TrueLinks(V)
           IN  /\ Sound(V) /\ Holds(V)
               /\ V.live = D.live /\ V.kinds = D.kinds /\ V.folds = D.folds /\ Known(V) = Known(D)
               /\ V.ledger = D.ledger \cup created
               /\ S \in SUBSET Refs /\ S \subseteq Known(V)
               /\ \A r \in S : PartOf(B.parts, r) = Reach(L, r) /\ Reach(L, r) \subseteq S
               /\ \A r \in Refs \ S : PartOf(B.parts, r) = {r} /\ Reach(L, r) \cap S = {}
<1> DEFINE V == AssertedAll(D, created)
           more == PairsOf(Relating(created, "same"))
<1>1. /\ Sound(D) /\ IsArea(D, S) /\ created \in SUBSET Assertions
      /\ \A c \in created : c.pair \subseteq S
      /\ Covers(B.parts, Local(D, S) \cup more, S)
      /\ ~Bad(D, D.ledger \cup created)
    BY DEF BulkReady
<1>2. S \subseteq Known(D) /\ S \in SUBSET Refs
    BY <1>1, SoundLinks DEF IsArea
<1>3. \A c \in created : c.pair \subseteq Known(D)
    BY <1>1, <1>2
<1>4. /\ Sound(V)
      /\ V.live = D.live /\ V.kinds = D.kinds /\ V.folds = D.folds
      /\ V.ledger = D.ledger \cup created /\ Known(V) = Known(D)
      /\ TrueLinks(V) = TrueLinks(D) \cup more
    BY <1>1, <1>3, AssertedAllForm
<1>5. more \in SUBSET SUBSET S
    BY <1>1 DEF PairsOf, Relating
<1> HIDE DEF V, more
<1>6. Holds(V)
    <2>1. Bad(V, V.ledger) = Bad(D, V.ledger)
        BY <1>4, BadAlike
    <2> QED
        BY <1>1, <1>4, <2>1 DEF Holds
<1>7. \A r \in Refs : PartOf(B.parts, r) = Reach(Local(D, S) \cup more, r)
    <2> DEFINE few == Local(D, S) \cup more
    <2>1. Covers(B.parts, few, S)
        BY <1>1
    <2> HIDE DEF few
    <2>2. \A r \in Refs : PartOf(B.parts, r) = Reach(few, r)
        BY <2>1, PartsAreClasses
    <2> QED
        BY <2>2 DEF few
<1>8. /\ \A r \in S : /\ Reach(Local(D, S) \cup more, r) = Reach(TrueLinks(D) \cup more, r)
                      /\ Reach(TrueLinks(D) \cup more, r) \subseteq S
      /\ \A r \in Refs \ S : /\ Reach(Local(D, S) \cup more, r) = {r}
                             /\ Reach(TrueLinks(D) \cup more, r) \cap S = {}
    BY <1>1, <1>5, LocalClasses
<1> QED
    BY <1>2, <1>4, <1>6, <1>7, <1>8 DEF V

LEMMA BulkProbesExact ==
    ASSUME NEW D, NEW S, NEW B, NEW created, BulkReady(D, S, B, created),
           NEW a \in Assertions, a.pair \subseteq S, \A c \in created : c.rel = a.rel
    PROVE  BulkRefuses(B, a) <=> Bad(D, D.ledger \cup created \cup {a})
<1> DEFINE V == AssertedAll(D, created)
           C(r) == Reach(TrueLinks(V), r)
           part(r) == PartOf(B.parts, r)
<1>1. /\ Sound(V) /\ Holds(V)
      /\ V.live = D.live /\ V.kinds = D.kinds /\ V.folds = D.folds /\ Known(V) = Known(D)
      /\ V.ledger = D.ledger \cup created
      /\ S \in SUBSET Refs /\ S \subseteq Known(V)
      /\ \A r \in S : part(r) = C(r) /\ C(r) \subseteq S
      /\ \A r \in Refs \ S : part(r) = {r} /\ C(r) \cap S = {}
    BY BulkClasses
<1>2. PICK x \in Refs, y \in Refs : x # y /\ a.pair = {x, y}
    BY PairForm DEF Assertions
<1>3. x \in S /\ y \in S
    BY <1>2
<1>4. x \in C(x) /\ y \in C(y)
    <2>1. TrueLinks(V) \in SUBSET SUBSET Refs
        BY <1>1, SoundLinks
    <2> QED
        BY <1>2, <2>1, ReachLeast
<1>5. Bad(D, D.ledger \cup created \cup {a}) = Bad(V, V.ledger \cup {a})
    BY <1>1, BadAlike
<1>6. /\ a.rel = "same" =>
             (Bad(V, V.ledger \cup {a}) <=> Clash(TrueLinks(V), V.ledger, x, y))
      /\ a.rel = "different" =>
             (Bad(V, V.ledger \cup {a}) <=> C(x) = C(y))
    <2>1. a.pair \subseteq Known(V)
        BY <1>1
    <2> HIDE DEF V
    <2>2. Parts(V, a)
        BY <1>1, <2>1, OneMoreParted
    <2> QED
        BY <1>2, <2>2 DEF Parts
<1>7. B.known = Touching(D.ledger, S) /\ D.ledger \in SUBSET Assertions
    BY DEF BulkReady, Sound
<1>8. Clash(TrueLinks(V), V.ledger, x, y) <=>
          \/ DisjointKinds(C(x), C(y))
          \/ \E d \in V.ledger : d.rel = "different" /\ {C(r) : r \in d.pair} = {C(x), C(y)}
    BY DEF Clash
<1>9. {part(r) : r \in a.pair} = {C(x), C(y)}
    BY <1>1, <1>2, <1>3
<1>10. BulkRefuses(B, a) <=>
          \/ a.rel = "different" /\ Cardinality({C(x), C(y)}) = 1
          \/ /\ a.rel = "same"
             /\ \E d \in Relating(B.known, "different") : {part(r) : r \in d.pair} = {C(x), C(y)}
          \/ /\ a.rel = "same"
             /\ \E r, s \in a.pair : r # s /\ DisjointKinds(part(r), part(s))
    BY <1>9 DEF BulkRefuses
<1> HIDE DEF V, C, part
<1>11. CASE a.rel = "different"
    BY <1>5, <1>6, <1>10, <1>11, TwoIsOne
<1>12. CASE a.rel = "same"
    <2>1. \A d \in V.ledger : d.rel = "different" <=> d.rel = "different" /\ d \in D.ledger
        BY <1>1, <1>12
    <2>2. \A d \in D.ledger : d.pair \subseteq Refs /\ d.pair # {}
        BY <1>7, PairForm DEF Assertions
    <2>3. ASSUME NEW d \in D.ledger, {part(r) : r \in d.pair} = {C(x), C(y)}
          PROVE  d \in Touching(D.ledger, S) /\ {C(r) : r \in d.pair} = {C(x), C(y)}
        <3>1. ASSUME NEW r \in d.pair PROVE r \in S
            <4>1. part(r) = C(x) \/ part(r) = C(y)
                BY <2>3
            <4>2. part(r) \subseteq S
                BY <1>1, <1>3, <4>1
            <4> QED
                BY <1>1, <2>2, <4>2
        <3>2. \A r \in d.pair : part(r) = C(r)
            BY <1>1, <3>1
        <3>3. {C(r) : r \in d.pair} = {C(x), C(y)}
            BY <2>3, <3>2
        <3> QED
            BY <2>2, <3>1, <3>3 DEF Touching
    <2>4. ASSUME NEW d \in D.ledger, {C(r) : r \in d.pair} = {C(x), C(y)}
          PROVE  d \in Touching(D.ledger, S) /\ {part(r) : r \in d.pair} = {C(x), C(y)}
        <3>1. ASSUME NEW r \in d.pair PROVE r \in S
            <4>1. C(r) = C(x) \/ C(r) = C(y)
                BY <2>4
            <4>2. C(r) \cap S # {}
                BY <1>3, <1>4, <4>1
            <4> QED
                BY <1>1, <2>2, <4>2
        <3>2. \A r \in d.pair : part(r) = C(r)
            BY <1>1, <3>1
        <3>3. {part(r) : r \in d.pair} = {C(x), C(y)}
            BY <2>4, <3>2
        <3> QED
            BY <2>2, <3>1, <3>3 DEF Touching
    <2>5. (\E d \in Relating(B.known, "different") : {part(r) : r \in d.pair} = {C(x), C(y)}) <=>
          (\E d \in V.ledger : d.rel = "different" /\ {C(r) : r \in d.pair} = {C(x), C(y)})
        <3>1. Relating(B.known, "different") = {d \in D.ledger : d.rel = "different" /\ d \in Touching(D.ledger, S)}
            BY <1>7 DEF Relating, Touching
        <3>2. D.ledger \subseteq V.ledger
            BY <1>1
        <3> QED
            BY <2>1, <2>3, <2>4, <3>1, <3>2
    <2>6. (\E r, s \in a.pair : r # s /\ DisjointKinds(part(r), part(s))) <=> DisjointKinds(C(x), C(y))
        <3>1. part(x) = C(x) /\ part(y) = C(y)
            BY <1>1, <1>3
        <3>2. DisjointKinds(C(x), C(y)) <=> DisjointKinds(C(y), C(x))
            <4>1. \A r, s : {Kind(r), Kind(s)} = {Kind(s), Kind(r)}
                OBVIOUS
            <4> QED
                BY <4>1 DEF DisjointKinds
        <3>3. x \in a.pair /\ y \in a.pair /\ \A r \in a.pair : r = x \/ r = y
            BY <1>2
        <3> QED
            BY <1>2, <3>1, <3>2, <3>3
    <2> QED
        BY <1>5, <1>6, <1>8, <1>10, <1>12, <2>5, <2>6
<1>13. a.rel = "same" \/ a.rel = "different"
    BY DEF Assertions
<1> QED
    BY <1>11, <1>12, <1>13

\* What a bulk call has established once it was asked `asked`.
Validates(D, S, B, asked) ==
    /\ Sound(D) /\ IsArea(D, S)
    /\ IsBulk(B) /\ B.refused \in BOOLEAN
    /\ B.known = Touching(D.ledger, S)
    /\ asked \in SUBSET Assertions /\ \A c \in asked : c.pair \subseteq S
    /\ B.created \in SUBSET asked
    /\ B.refused => Bad(D, D.ledger \cup asked)
    /\ ~B.refused => /\ D.ledger \cup B.created = D.ledger \cup asked
                     /\ BulkReady(D, S, B, B.created)

LEMMA BulkStepExact ==
    ASSUME NEW D, NEW S, NEW B, NEW asked, Validates(D, S, B, asked),
           NEW a \in Assertions, a.pair \subseteq S, \A c \in asked : c.rel = a.rel
    PROVE  Validates(D, S, BulkStep(B, a), asked \cup {a})
<1> DEFINE E == BulkStep(B, a)
           more == asked \cup {a}
<1>1. /\ Sound(D) /\ IsArea(D, S)
      /\ IsBulk(B) /\ B.refused \in BOOLEAN
      /\ B.known = Touching(D.ledger, S)
      /\ asked \in SUBSET Assertions /\ \A c \in asked : c.pair \subseteq S
      /\ B.created \in SUBSET asked
      /\ B.refused => Bad(D, D.ledger \cup asked)
      /\ ~B.refused => /\ D.ledger \cup B.created = D.ledger \cup asked
                       /\ BulkReady(D, S, B, B.created)
    BY DEF Validates
<1>2. /\ IsBulk(E) /\ E.known = B.known
      /\ \/ (B.refused \/ a \in B.known \cup B.created) /\ E = B
         \/ /\ ~B.refused /\ BulkRefuses(B, a)
            /\ E.refused = TRUE /\ E.created = B.created
         \/ /\ ~B.refused /\ ~BulkRefuses(B, a)
            /\ E.refused = B.refused /\ E.created = B.created \cup {a}
            /\ E.parts = IF a.rel = "same" THEN Union(a.pair, B.parts) ELSE B.parts
    BY <1>1, BulkStepForm
<1>3. more \in SUBSET Assertions /\ \A c \in more : c.pair \subseteq S
    BY <1>1
<1>4. D.ledger \cup more \in SUBSET Assertions
    BY <1>1, <1>3 DEF Sound
<1>5. ~B.refused => (BulkRefuses(B, a) <=> Bad(D, D.ledger \cup more))
    <2> SUFFICES ASSUME ~B.refused PROVE BulkRefuses(B, a) <=> Bad(D, D.ledger \cup more)
        OBVIOUS
    <2>1. BulkReady(D, S, B, B.created) /\ \A c \in B.created : c.rel = a.rel
        BY <1>1
    <2>2. BulkRefuses(B, a) <=> Bad(D, D.ledger \cup B.created \cup {a})
        BY <2>1, BulkProbesExact
    <2>3. D.ledger \cup B.created \cup {a} = D.ledger \cup more
        BY <1>1
    <2> QED
        BY <2>2, <2>3
<1> HIDE DEF E, more
<1>6. CASE B.refused
    <2>1. E = B
        BY <1>2, <1>6
    <2>2. D.ledger \cup asked \in SUBSET (D.ledger \cup more)
        BY DEF more
    <2>3. Bad(D, D.ledger \cup more)
        BY <1>1, <1>4, <1>6, <2>2, BadGrows
    <2>4. B.created \in SUBSET more
        BY <1>1 DEF more
    <2> QED
        BY <1>1, <1>3, <1>6, <2>1, <2>3, <2>4 DEF Validates, E, more
<1>7. CASE ~B.refused /\ a \in B.known \cup B.created /\ E = B
    <2>1. D.ledger \cup more = D.ledger \cup asked
        BY <1>1, <1>7 DEF more, Touching
    <2>2. B.created \in SUBSET more
        BY <1>1 DEF more
    <2> QED
        BY <1>1, <1>3, <1>7, <2>1, <2>2 DEF Validates, E, more
<1>8. CASE ~B.refused /\ BulkRefuses(B, a) /\ E.refused = TRUE /\ E.created = B.created
    <2>1. B.created \in SUBSET more
        BY <1>1 DEF more
    <2>2. Bad(D, D.ledger \cup more)
        BY <1>5, <1>8
    <2>3. Validates(D, S, E, more)
        BY <1>1, <1>2, <1>3, <1>8, <2>1, <2>2 DEF Validates
    <2> QED
        BY <2>3 DEF E, more
<1>9. CASE /\ ~B.refused /\ ~BulkRefuses(B, a)
           /\ E.refused = B.refused /\ E.created = B.created \cup {a}
           /\ E.parts = IF a.rel = "same" THEN Union(a.pair, B.parts) ELSE B.parts
    <2> DEFINE new == B.created \cup {a}
               links == Local(D, S) \cup PairsOf(Relating(B.created, "same"))
    <2>1. new \in SUBSET more /\ D.ledger \cup new = D.ledger \cup more
        BY <1>1, <1>9 DEF more
    <2>2. ~Bad(D, D.ledger \cup new)
        BY <1>5, <1>9, <2>1
    <2>3. Covers(B.parts, links, S)
        BY <1>1, <1>9 DEF BulkReady
    <2>4. Covers(E.parts, Local(D, S) \cup PairsOf(Relating(new, "same")), S)
        <3>1. CASE a.rel = "same"
            <4>1. Local(D, S) \cup PairsOf(Relating(new, "same")) = links \cup {a.pair}
                BY <3>1 DEF PairsOf, Relating
            <4>2. a.pair # {} /\ a.pair \in SUBSET S
                BY PairForm DEF Assertions
            <4> HIDE DEF links, new
            <4>3. /\ S \in SUBSET Refs /\ links \in SUBSET SUBSET S
                  /\ Partition(B.parts, links, S)
                BY <2>3 DEF Covers
            <4>4. Partition(Union(a.pair, B.parts), links \cup {a.pair}, S)
                BY <4>2, <4>3, UnionPartition
            <4>5. Covers(Union(a.pair, B.parts), links \cup {a.pair}, S)
                BY <4>2, <4>3, <4>4 DEF Covers
            <4> QED
                BY <1>9, <3>1, <4>1, <4>5
        <3>2. CASE a.rel # "same"
            <4>1. Local(D, S) \cup PairsOf(Relating(new, "same")) = links
                BY <3>2 DEF PairsOf, Relating
            <4> HIDE DEF links, new
            <4> QED
                BY <1>9, <2>3, <3>2, <4>1
        <3> QED
            BY <3>1, <3>2
    <2> HIDE DEF new, links
    <2>5. E.created = new
        BY <1>9 DEF new
    <2>6. BulkReady(D, S, E, new)
        BY <1>1, <1>2, <1>3, <2>1, <2>2, <2>4 DEF BulkReady
    <2>7. Validates(D, S, E, more)
        BY <1>1, <1>2, <1>3, <1>9, <2>1, <2>5, <2>6 DEF Validates
    <2> QED
        BY <2>7 DEF E, more
<1> QED
    BY <1>2, <1>6, <1>7, <1>8, <1>9

\* The request of one call.
IsRequest(D, request, n) ==
    /\ n \in Nat
    /\ DOMAIN request = 1 .. n
    /\ \A i \in 1 .. n : request[i] \in Assertions /\ request[i].pair \subseteq Known(D)

Asked(request, n) == {request[i] : i \in 1 .. n}

LEMMA BulkExact ==
    ASSUME NEW D, Current(D), Holds(D), NEW request, NEW n, IsRequest(D, request, n),
           \A i, j \in 1 .. n : request[i].rel = request[j].rel
    PROVE  LET B == Bulk(D, request)
           IN  /\ B.refused \in BOOLEAN
               /\ B.refused <=> Bad(D, D.ledger \cup Asked(request, n))
               /\ B.created \in SUBSET Asked(request, n)
               /\ ~B.refused => D.ledger \cup B.created = D.ledger \cup Asked(request, n)
<1> DEFINE S == ClassesOf(D, Endpoints(Range(request)))
           known == Touching(D.ledger, S)
           base == [parts |-> Components(S, Relating(known, "same"), D.folds),
                    known |-> known, created |-> {}, refused |-> FALSE]
<1>1. /\ n \in Nat /\ DOMAIN request = 1 .. n
      /\ \A i \in 1 .. n : request[i] \in Assertions /\ request[i].pair \subseteq Known(D)
    BY DEF IsRequest
<1>2. Range(request) = Asked(request, n)
    BY <1>1 DEF Range, Asked
<1>3. Endpoints(Range(request)) \in SUBSET Known(D)
    BY <1>1, <1>2 DEF Endpoints, Asked
<1>4. S \subseteq Known(D) /\ Endpoints(Range(request)) \subseteq S /\ Closed(TrueLinks(D), S)
    BY <1>3, ClassesKnown
<1>5. \A i \in 1 .. n : request[i].pair \subseteq S
    BY <1>1, <1>2, <1>4 DEF Endpoints, Asked
<1>6. Bulk(D, request) = BulkFolded(base, request)
    BY DEF Bulk, BulkFolded
<1> HIDE DEF S
<1>7. Sound(D) /\ IsArea(D, S) /\ S \in SUBSET Refs
    BY <1>4, SoundLinks DEF Current, IsArea
<1>8. Validates(D, S, base, {})
    <2>1. IsBulk(base) /\ base.created = {} /\ base.refused = FALSE /\ base.known = known
          /\ base.parts = Components(S, Relating(known, "same"), D.folds)
        BY DEF IsBulk
    <2>2. Relating(known, "same") \in SUBSET Assertions
        BY <1>7 DEF Relating, Touching, Sound
    <2>3. Endpoints(Relating(known, "same")) \subseteq S
        BY <1>7, LocalLinks
    <2>4. S \cup Endpoints(Relating(known, "same")) = S
        BY <2>3
    <2>5. Covers(base.parts, FoldLinks(S, D.folds) \cup PairsOf(Relating(known, "same")),
                 S \cup Endpoints(Relating(known, "same")))
        BY <1>7, <2>1, <2>2, ComponentsPartition
    <2>6. Local(D, S) \cup PairsOf(Relating({}, "same"))
              = FoldLinks(S, D.folds) \cup PairsOf(Relating(known, "same"))
        BY DEF Local, PairsOf, Relating
    <2> HIDE DEF base, known
    <2>7. Covers(base.parts, Local(D, S) \cup PairsOf(Relating({}, "same")), S)
        BY <2>4, <2>5, <2>6
    <2>8. ~Bad(D, D.ledger \cup {})
        <3>1. D.ledger \cup {} = D.ledger
            OBVIOUS
        <3> QED
            BY <3>1 DEF Holds
    <2>9. base.known = Touching(D.ledger, S)
        BY <2>1 DEF known
    <2>10. BulkReady(D, S, base, {})
        BY <1>7, <2>7, <2>8, <2>9 DEF BulkReady
    <2> QED
        BY <1>7, <2>1, <2>9, <2>10 DEF Validates
<1> HIDE DEF base
<1>9. PICK h : /\ h[0] = base
               /\ \A i \in 1 .. n : h[i] = BulkStep(h[i - 1], request[i])
               /\ BulkFolded(base, request) = h[n]
    BY <1>1, BulkFold
<1> DEFINE Good(i) == Validates(D, S, h[i], Asked(request, i))
           N == {i \in Nat : i <= n => Good(i)}
<1>10. 0 \in N
    <2>1. Asked(request, 0) = {}
        BY DEF Asked
    <2> QED
        BY <1>8, <1>9, <2>1
<1>11. ASSUME NEW i \in Nat, i \in N PROVE i + 1 \in N
    <2> SUFFICES ASSUME i + 1 <= n PROVE Good(i + 1)
        OBVIOUS
    <2>1. Good(i) /\ i + 1 \in 1 .. n /\ (i + 1) - 1 = i
        BY <1>1, <1>11
    <2>2. h[i + 1] = BulkStep(h[i], request[i + 1])
        BY <1>9, <2>1
    <2>3. Asked(request, i + 1) = Asked(request, i) \cup {request[i + 1]}
        <3>1. 1 .. (i + 1) = (1 .. i) \cup {i + 1}
            OBVIOUS
        <3> QED
            BY <3>1 DEF Asked
    <2>4. \A c \in Asked(request, i) : c.rel = request[i + 1].rel
        <3>1. \A j \in 1 .. i : j \in 1 .. n
            BY <1>1, <2>1
        <3> QED
            BY <2>1, <3>1 DEF Asked
    <2>5. request[i + 1] \in Assertions /\ request[i + 1].pair \subseteq S
        BY <1>1, <1>5, <2>1
    <2>6. Validates(D, S, h[i], Asked(request, i))
        BY <2>1
    <2> HIDE DEF Good
    <2>7. Validates(D, S, BulkStep(h[i], request[i + 1]), Asked(request, i) \cup {request[i + 1]})
        BY <2>4, <2>5, <2>6, BulkStepExact
    <2> QED
        BY <2>2, <2>3, <2>7 DEF Good
<1> HIDE DEF N
<1>12. Nat \subseteq N
    BY <1>10, <1>11, Numbers
<1>13. Good(n)
    BY <1>1, <1>12 DEF N
<1> DEFINE B == Bulk(D, request)
<1>14. Validates(D, S, B, Asked(request, n))
    BY <1>6, <1>9, <1>13
<1> HIDE DEF B
<1>15. ~B.refused => ~Bad(D, D.ledger \cup B.created)
    BY <1>14 DEF Validates, BulkReady
<1>16. /\ B.refused \in BOOLEAN /\ B.created \in SUBSET Asked(request, n)
       /\ B.refused => Bad(D, D.ledger \cup Asked(request, n))
       /\ ~B.refused => D.ledger \cup B.created = D.ledger \cup Asked(request, n)
    BY <1>14 DEF Validates
<1> QED
    BY <1>15, <1>16 DEF B

-----------------------------------------------------------------------------
(* Steady states: the tables are current and the ledger does not contradict. *)

Steady == Stays /\ Holds(Draft)

LEMMA SteadyForm ==
    ASSUME Steady
    PROVE  /\ Current(Draft) /\ Holds(Draft) /\ Sound(Draft)
           /\ live \in SUBSET Refs /\ ledger \in SUBSET Assertions /\ folds \in BOOLEAN
           /\ \A a \in ledger : a.pair \subseteq OfKinds(live, kinds)
           /\ OfKinds(live, kinds) \in SUBSET Refs
           /\ ~Promise!Contradictory(OfKinds(live, kinds), ledger, folds)
<1>1. Current(Draft) /\ Holds(Draft) /\ Sound(Draft)
    BY DEF Steady, Stays, Current
<1>2. live \in SUBSET Refs /\ ledger \in SUBSET Assertions /\ folds \in BOOLEAN
      /\ Endpoints(ledger) \subseteq OfKinds(live, kinds)
    BY <1>1, DraftFields DEF Sound
<1>3. ~Promise!Contradictory(OfKinds(live, kinds), ledger, folds)
    BY <1>1, DraftFields DEF Holds, Bad
<1> QED
    BY <1>1, <1>2, <1>3 DEF Endpoints, OfKinds

LEMMA LeftFields ==
    /\ IsDraft(Left) /\ Left.live = live' /\ Left.kinds = kinds' /\ Left.ledger = ledger'
    /\ Left.folds = folds' /\ Left.closure = closure' /\ Left.separation = separation'
    /\ Left.verdict = "done" /\ Known(Left) = OfKinds(live', kinds')
BY DEF Left, IsDraft, Known

LEMMA SteadyLeft == Steady' <=> Current(Left) /\ Holds(Left)
<1>1. Holds(Draft)' <=> Holds(Left)
    BY DEF Holds, Bad, Draft, Left, Known
<1> QED
    BY <1>1, LeftIsNext DEF Steady

\* What a frame leaves when it installs a draft, and when it leaves nothing.
LEMMA InstallSteady ==
    ASSUME NEW E, Current(E), Holds(E), Install(E)
    PROVE  /\ Steady'
           /\ live' = E.live /\ kinds' = E.kinds /\ ledger' = E.ledger /\ folds' = E.folds
<1>1. live' = E.live /\ kinds' = E.kinds /\ ledger' = E.ledger /\ folds' = E.folds
      /\ Stays'
    BY InstallKeeps DEF Install
<1>2. Bad(Left, E.ledger) = Bad(E, E.ledger)
    BY <1>1, LeftFields, BadAlike
<1>3. Holds(Left)
    BY <1>1, <1>2, LeftFields DEF Holds
<1> QED
    BY <1>1, <1>3, LeftIsNext, SteadyLeft

LEMMA TablesSteady ==
    ASSUME Steady, UNCHANGED tables
    PROVE  Steady' /\ UNCHANGED <<live, kinds, ledger, folds>>
<1>1. Left = Draft /\ UNCHANGED <<live, kinds, ledger, folds>>
    BY DEF Left, Draft, tables
<1> QED
    BY <1>1, SteadyLeft DEF Steady, Stays

LEMMA PromiseForm ==
    /\ Promise!Assertions = Assertions
    /\ Assertable = {a \in Assertions : a.pair \subseteq OfKinds(live, kinds)}
BY PromisePairs DEF Assertable

LEMMA PromiseAsserts ==
    ASSUME Steady, Steady', ledger \subseteq ledger',
           UNCHANGED <<live, kinds, folds>>, answer' = "done"
    PROVE  Promise!Next
<1>1. /\ ledger' \in SUBSET Promise!Assertions
      /\ ~Promise!Contradictory(OfKinds(live', kinds'), ledger', folds')
    <2>1. Current(Left) /\ Holds(Left)
        BY SteadyLeft
    <2>2. ledger' \in SUBSET Assertions
        BY <2>1, LeftFields DEF Current, Sound
    <2>3. ~Promise!Contradictory(OfKinds(live', kinds'), ledger', folds')
        BY <2>1, LeftFields DEF Holds, Bad
    <2> QED
        BY <2>2, <2>3, PromiseForm
<1>2. OfKinds(live', kinds') = OfKinds(live, kinds)
    OBVIOUS
<1>3. \A a \in ledger' : a.pair \subseteq OfKinds(live, kinds)
    <2>1. Current(Left)
        BY SteadyLeft
    <2>2. Endpoints(ledger') \subseteq OfKinds(live', kinds')
        BY <2>1, LeftFields DEF Current, Sound
    <2> QED
        BY <1>2, <2>2 DEF Endpoints
<1>4. ~Promise!Contradictory(OfKinds(live, kinds), ledger', folds)
    BY <1>1, <1>2
<1>5. Promise!Assert
    BY <1>1, <1>2, <1>3, <1>4 DEF Promise!Assert, Promise!Answered
<1> QED
    BY <1>5 DEF Promise!Next

LEMMA PromiseRefuses ==
    ASSUME Steady, Steady', ledger \subseteq ledger',
           UNCHANGED <<live, kinds, folds>>, answer' = "refused",
           NEW n \in 1 .. MaxRequest, NEW request \in [1 .. n -> Assertable],
           ledger' \subseteq ledger \cup Asked(request, n),
           Bad(Draft, ledger' \cup Asked(request, n))
    PROVE  Promise!Next
<1>1. /\ ledger' \in SUBSET Promise!Assertions
      /\ ~Promise!Contradictory(OfKinds(live', kinds'), ledger', folds')
    <2>1. Current(Left) /\ Holds(Left)
        BY SteadyLeft
    <2>2. ledger' \in SUBSET Assertions
        BY <2>1, LeftFields DEF Current, Sound
    <2>3. ~Promise!Contradictory(OfKinds(live', kinds'), ledger', folds')
        BY <2>1, LeftFields DEF Holds, Bad
    <2> QED
        BY <2>2, <2>3, PromiseForm
<1>2. OfKinds(live', kinds') = OfKinds(live, kinds)
    OBVIOUS
<1>3. \A a \in ledger' \ ledger : a.pair \subseteq OfKinds(live, kinds)
    BY PromiseForm DEF Asked
<1>4. request \in [1 .. n -> {a \in Promise!Assertions : a.pair \subseteq OfKinds(live, kinds)}]
    BY PromiseForm
<1>5. /\ ledger' \subseteq ledger \cup {request[i] : i \in 1 .. n}
      /\ Promise!Contradictory(OfKinds(live, kinds), ledger' \cup {request[i] : i \in 1 .. n}, folds)
    BY DraftFields DEF Asked, Bad
<1>6. ~Promise!Contradictory(OfKinds(live, kinds), ledger', folds)
    BY <1>1, <1>2
<1>7. Promise!RefuseAssertions
    BY <1>1, <1>3, <1>4, <1>5, <1>6 DEF Promise!RefuseAssertions
<1> QED
    BY <1>2, <1>7 DEF Promise!Refuse, Promise!Next, Promise!Answered

\* A request of one assertion.
LEMMA PromiseRefusesOne ==
    ASSUME Steady, UNCHANGED tables, answer' = "refused",
           NEW a \in Assertable, Bad(Draft, ledger \cup {a})
    PROVE  Steady' /\ Promise!Next
<1>1. Steady' /\ UNCHANGED <<live, kinds, ledger, folds>>
    BY TablesSteady
<1> DEFINE request == [i \in 1 .. 1 |-> a]
<1>2. 1 \in 1 .. MaxRequest
    BY BoundsAssumption
<1>3. request \in [1 .. 1 -> Assertable]
    OBVIOUS
<1>4. Asked(request, 1) = {a}
    <2>1. \A i \in 1 .. 1 : request[i] = a
        OBVIOUS
    <2>2. 1 .. 1 = {1}
        OBVIOUS
    <2> HIDE DEF request
    <2> QED
        BY <2>1, <2>2 DEF Asked
<1> HIDE DEF request
<1>5. ledger' = ledger /\ ledger' \cup Asked(request, 1) = ledger \cup {a}
    BY <1>1, <1>4
<1>6. Promise!Next
    BY <1>1, <1>2, <1>3, <1>5, PromiseRefuses
<1> QED
    BY <1>1, <1>6

-----------------------------------------------------------------------------
(* Every frame takes a steady state to a steady state by a step of the promise. *)

LEMMA CommitSteady ==
    ASSUME Steady, NEW E, Commit(E), E.verdict = "done" => Current(E) /\ Holds(E)
    PROVE  /\ Steady' /\ answer' = E.verdict
           /\ E.verdict = "done" => /\ live' = E.live /\ kinds' = E.kinds
                                    /\ ledger' = E.ledger /\ folds' = E.folds
           /\ E.verdict # "done" => UNCHANGED tables
<1>1. CASE E.verdict = "done"
    <2>1. Install(E) /\ answer' = E.verdict
        BY <1>1 DEF Commit
    <2> QED
        BY <1>1, <2>1, InstallSteady
<1>2. CASE E.verdict # "done"
    <2>1. UNCHANGED tables /\ answer' = E.verdict
        BY <1>2 DEF Commit
    <2> QED
        BY <1>2, <2>1, TablesSteady
<1> QED
    BY <1>1, <1>2

\* A frame that only adds assertions, and is refused for one of them if at all.
LEMMA AssertingMoves ==
    ASSUME Steady, NEW E, Commit(E),
           E.verdict = "done" => /\ Current(E) /\ Holds(E) /\ ledger \subseteq E.ledger
                                 /\ E.live = live /\ E.kinds = kinds /\ E.folds = folds,
           \/ E.verdict = "done"
           \/ E.verdict = "refused" /\ \E a \in Assertable : Bad(Draft, ledger \cup {a})
    PROVE  Steady' /\ Promise!Next
<1>1. CASE E.verdict = "done"
    <2>1. /\ Steady' /\ answer' = "done"
          /\ live' = E.live /\ kinds' = E.kinds /\ ledger' = E.ledger /\ folds' = E.folds
        BY <1>1, CommitSteady
    <2>2. live' = live /\ kinds' = kinds /\ folds' = folds /\ ledger \subseteq ledger'
        BY <1>1, <2>1
    <2> QED
        BY <2>1, <2>2, PromiseAsserts
<1>2. CASE E.verdict # "done"
    <2>1. UNCHANGED tables /\ answer' = "refused"
        BY <1>2, CommitSteady
    <2>2. PICK a \in Assertable : Bad(Draft, ledger \cup {a})
        BY <1>2
    <2> QED
        BY <2>1, <2>2, PromiseRefusesOne
<1> QED
    BY <1>1, <1>2

LEMMA AssertPairMoves ==
    ASSUME Steady, AssertPair
    PROVE  Steady' /\ Promise!Next
<1>1. PICK a \in Assertable : Commit(AssertStep(Draft, a))
    BY DEF AssertPair
<1> DEFINE E == AssertStep(Draft, a)
<1>2. a \in Assertions /\ a.pair \subseteq Known(Draft) /\ Current(Draft) /\ Holds(Draft)
    BY AssertableForm, SteadyForm
<1>3. Stepped(Draft, a, E)
    BY <1>2, DraftFields, AssertStepExact
<1>4. Commit(E)
    BY <1>1
<1> HIDE DEF E
<1>5. /\ Current(E) /\ Holds(E) /\ E.live = live /\ E.kinds = kinds /\ E.folds = folds
      /\ \/ E.verdict = "done" /\ E.ledger = ledger \cup {a}
         \/ E.verdict = "refused" /\ Bad(Draft, ledger \cup {a})
    BY <1>3, DraftFields DEF Stepped
<1>6. E.verdict = "done" => ledger \subseteq E.ledger
    BY <1>5
<1>7. \/ E.verdict = "done"
      \/ E.verdict = "refused" /\ \E b \in Assertable : Bad(Draft, ledger \cup {b})
    BY <1>5
<1> QED
    BY <1>4, <1>5, <1>6, <1>7, AssertingMoves

LEMMA PromiseCounts == \A set : Promise!Cardinality(set) = Cardinality(set)
BY Zenon DEF Promise!Cardinality, Cardinality

\* There are finitely many assertions to make.
LEMMA FiniteLedger == \A set \in SUBSET Assertions : IsFiniteSet(set)
<1> DEFINE R == {"same", "different"}
           S == R \X SUBSET Refs
           T == [rel : R, pair : SUBSET Refs]
           f == [x \in S |-> [rel |-> x[1], pair |-> x[2]]]
<1>1. IsFiniteSet(R)
    <2>1. R = {"same"} \cup {"different"}
        OBVIOUS
    <2>2. IsFiniteSet({"same"}) /\ IsFiniteSet({"different"})
        BY FS_Singleton
    <2> HIDE DEF R
    <2> QED
        BY <2>1, <2>2, FS_Union
<1>2. IsFiniteSet(SUBSET Refs)
    BY RefsAssumption, FS_SUBSET
<1> HIDE DEF R
<1>3. IsFiniteSet(S)
    BY <1>1, <1>2, FS_Product
<1>4. f \in Surjection(S, T)
    <2>1. f \in [S -> T]
        OBVIOUS
    <2>2. ASSUME NEW t \in T PROVE \E x \in S : f[x] = t
        <3>1. <<t.rel, t.pair>> \in S /\ t = [rel |-> t.rel, pair |-> t.pair]
            OBVIOUS
        <3>2. f[<<t.rel, t.pair>>] = [rel |-> t.rel, pair |-> t.pair]
            BY <3>1
        <3> HIDE DEF f, S
        <3> QED
            BY <3>1, <3>2
    <2> HIDE DEF f, S, T
    <2> QED
        BY <2>1, <2>2 DEF Surjection
<1> HIDE DEF f, S
<1>5. IsFiniteSet(T)
    BY <1>3, <1>4, FS_Surjection
<1>6. Assertions \subseteq T
    BY PairForm DEF Assertions, R
<1> HIDE DEF T
<1> QED
    BY <1>5, <1>6, FS_Subset

\* The retraction and the assertion of a merge.
LEMMA ApplyMoves ==
    ASSUME Steady, ApplyIdentityChanges
    PROVE  Steady' /\ Promise!Next
<1>1. PICK ended \in SUBSET ledger, a \in Assertable :
          Cardinality(ended) = 1 /\ Commit(AssertStep(RetractStep(Draft, ended), a))
    BY DEF ApplyIdentityChanges
<1> DEFINE F == RetractStep(Draft, ended)
           E == AssertStep(F, a)
<1>2. Current(Draft) /\ Holds(Draft) /\ ended \in SUBSET Draft.ledger
    BY SteadyForm, DraftFields
<1>3. /\ Current(F) /\ Holds(F) /\ F.verdict = "done"
      /\ F.live = live /\ F.kinds = kinds /\ F.folds = folds /\ F.ledger = ledger \ ended
    BY <1>2, RetractExact, DraftFields
<1> HIDE DEF F
<1>4. a \in Assertions /\ a.pair \subseteq Known(F)
    BY <1>3, AssertableForm, DraftFields DEF Known
<1>5. Stepped(F, a, E)
    BY <1>3, <1>4, AssertStepExact
<1>6. Commit(E)
    BY <1>1 DEF F
<1> HIDE DEF E
<1>7. /\ Current(E) /\ Holds(E) /\ E.live = live /\ E.kinds = kinds /\ E.folds = folds
      /\ \/ E.verdict = "done" /\ E.ledger = (ledger \ ended) \cup {a}
         \/ E.verdict = "refused" /\ Bad(F, (ledger \ ended) \cup {a})
    BY <1>3, <1>5 DEF Stepped
<1>8. CASE E.verdict = "refused"
    <2>1. Bad(F, (ledger \ ended) \cup {a})
        BY <1>7, <1>8
    <2>2. Bad(Draft, (ledger \ ended) \cup {a})
        BY <1>3, <2>1, BadAlike, DraftFields
    <2>3. Sound(Draft) /\ ledger \cup {a} \in SUBSET Assertions
          /\ (ledger \ ended) \cup {a} \in SUBSET (ledger \cup {a})
        BY <1>4, SteadyForm
    <2>4. Bad(Draft, ledger \cup {a})
        BY <2>2, <2>3, BadGrows
    <2>5. UNCHANGED tables /\ answer' = "refused"
        BY <1>6, <1>8, CommitSteady
    <2> QED
        BY <2>4, <2>5, PromiseRefusesOne
<1>9. CASE E.verdict = "done"
    <2>1. /\ Steady' /\ answer' = "done"
          /\ live' = live /\ kinds' = kinds /\ folds' = folds /\ ledger' = (ledger \ ended) \cup {a}
        BY <1>6, <1>7, <1>9, CommitSteady
    <2>2. OfKinds(live', kinds') = OfKinds(live, kinds)
        BY <2>1
    <2>3. a \in Promise!Assertions /\ ledger \in SUBSET Promise!Assertions
          /\ a.pair \subseteq OfKinds(live, kinds)
        BY <1>4, SteadyForm, AssertableForm, DraftFields, PromiseForm
    <2>4. ledger' \in SUBSET Promise!Assertions /\ \A b \in ledger' \ ledger : b = a
        BY <2>1, <2>3
    <2>5. \A b \in ledger' \ ledger : b.pair \subseteq OfKinds(live, kinds)
        BY <2>3, <2>4
    <2>6. Cardinality(ledger \ ledger') <= 1
        <3>1. IsFiniteSet(ended)
            BY FiniteLedger, SteadyForm
        <3>2. Cardinality(ledger \ ledger') <= Cardinality(ended)
            BY <2>1, <3>1, FS_Subset
        <3>3. ledger \ ledger' \subseteq ended
            BY <2>1
        <3>4. Cardinality(ledger \ ledger') \in Nat
            BY <3>1, <3>3, FS_Subset, FS_CardinalityType
        <3> QED
            BY <1>1, <3>2, <3>4
    <2>7. Cardinality(ledger' \ ledger) <= 1
        <3>1. ledger' \ ledger \subseteq {a}
            BY <2>1
        <3>2. IsFiniteSet({a}) /\ Cardinality({a}) = 1
            BY FS_Singleton
        <3> QED
            BY <3>1, <3>2, FS_Subset
    <2>8. ~Promise!Contradictory(OfKinds(live, kinds), ledger', folds)
        <3>1. Steady'
            BY <2>1
        <3>2. ~Promise!Contradictory(OfKinds(live', kinds'), ledger', folds')
            BY <3>1, SteadyLeft, LeftFields DEF Holds, Bad
        <3> QED
            BY <2>1, <2>2, <3>2
    <2>9. Promise!Replace
        BY <2>1, <2>2, <2>4, <2>5, <2>6, <2>7, <2>8, PromiseCounts
           DEF Promise!Replace, Promise!Answered
    <2> QED
        BY <2>1, <2>9 DEF Promise!Next
<1> QED
    BY <1>7, <1>8, <1>9

LEMMA RetractMoves ==
    ASSUME Steady, Retract
    PROVE  Steady' /\ Promise!Next
<1>1. PICK ended \in SUBSET ledger : Commit(RetractStep(Draft, ended))
    BY DEF Retract
<1> DEFINE E == RetractStep(Draft, ended)
<1>2. Current(Draft) /\ Holds(Draft) /\ ended \in SUBSET Draft.ledger
    BY SteadyForm, DraftFields
<1>3. /\ Current(E) /\ Holds(E) /\ E.verdict = "done"
      /\ E.live = live /\ E.kinds = kinds /\ E.folds = folds /\ E.ledger = ledger \ ended
    BY <1>2, RetractExact, DraftFields
<1> HIDE DEF E
<1>4. Commit(E)
    BY <1>1 DEF E
<1>5. /\ Steady' /\ answer' = "done"
      /\ live' = live /\ kinds' = kinds /\ folds' = folds /\ ledger' = ledger \ ended
    BY <1>3, <1>4, CommitSteady
<1>6. OfKinds(live', kinds') = OfKinds(live, kinds)
    BY <1>5
<1>7. ledger' \in SUBSET ledger
    BY <1>5
<1>8. Promise!Retract
    BY <1>5, <1>6, <1>7 DEF Promise!Retract, Promise!Answered
<1> QED
    BY <1>5, <1>8 DEF Promise!Next

\* What holds of the rows a frame leaves.
LEMMA SteadyNext ==
    ASSUME Steady'
    PROVE  /\ ledger' \in SUBSET Assertions
           /\ OfKinds(live', kinds') \in SUBSET Refs
           /\ ~Promise!Contradictory(OfKinds(live', kinds'), ledger', folds')
<1>1. Current(Left) /\ Holds(Left)
    BY SteadyLeft
<1>2. Left.live \in SUBSET Refs /\ Left.ledger \in SUBSET Assertions
    BY <1>1 DEF Current, Sound
<1>3. ~Promise!Contradictory(OfKinds(live', kinds'), ledger', folds')
    BY <1>1, LeftFields DEF Holds, Bad
<1> QED
    BY <1>2, <1>3, LeftFields DEF OfKinds

LEMMA RequestIs ==
    ASSUME NEW request \in Requests
    PROVE  \E n \in 1 .. MaxRequest :
               /\ n \in Nat /\ request \in [1 .. n -> Assertable]
               /\ IsRequest(Draft, request, n)
               /\ Range(request) = Asked(request, n)
               /\ 1 \in 1 .. n /\ Asked(request, n) \in SUBSET Assertions
               /\ \A a \in Asked(request, n) : a.pair \subseteq Known(Draft)
<1>1. PICK n \in 1 .. MaxRequest : request \in [1 .. n -> Assertable]
    BY DEF Requests
<1>2. n \in Nat /\ DOMAIN request = 1 .. n /\ 1 \in 1 .. n
    BY <1>1, BoundsAssumption
<1>3. \A i \in 1 .. n : request[i] \in Assertable
    BY <1>1
<1>4. \A i \in 1 .. n : request[i] \in Assertions /\ request[i].pair \subseteq Known(Draft)
    BY <1>3, AssertableForm
<1>5. Range(request) = Asked(request, n)
    BY <1>2 DEF Range, Asked
<1>6. IsRequest(Draft, request, n)
    BY <1>2, <1>4 DEF IsRequest
<1>7. Asked(request, n) \in SUBSET Assertions
      /\ \A a \in Asked(request, n) : a.pair \subseteq Known(Draft)
    BY <1>4 DEF Asked
<1> QED
    BY <1>1, <1>2, <1>5, <1>6, <1>7

LEMMA BulkMoves ==
    ASSUME Steady, BulkAssert
    PROVE  Steady' /\ Promise!Next
<1>1. PICK request \in Requests :
          LET B == Bulk(Draft, request)
              written == [Draft EXCEPT !.ledger = @ \cup B.created]
          IN  /\ \A i, j \in DOMAIN request : request[i].rel = request[j].rel
              /\ Commit(CASE B.refused -> [Draft EXCEPT !.verdict = "refused"]
                          [] ~B.refused /\ request[1].rel = "same" ->
                                 ReplaceAffectedClosure(written, Endpoints(B.created))
                          [] OTHER ->
                                 ReplaceSeparationForReferences(written, Endpoints(B.created)))
    BY DEF BulkAssert
<1>2. PICK n \in 1 .. MaxRequest :
          /\ n \in Nat /\ request \in [1 .. n -> Assertable]
          /\ IsRequest(Draft, request, n)
          /\ Range(request) = Asked(request, n)
          /\ 1 \in 1 .. n /\ Asked(request, n) \in SUBSET Assertions
          /\ \A a \in Asked(request, n) : a.pair \subseteq Known(Draft)
    BY RequestIs
<1> DEFINE created == Bulk(Draft, request).created
           refused == Bulk(Draft, request).refused
           asked == Asked(request, n)
           W == AssertedAll(Draft, created)
           E == IF refused THEN [Draft EXCEPT !.verdict = "refused"]
                ELSE IF request[1].rel = "same" THEN ReplaceAffectedClosure(W, Endpoints(created))
                ELSE ReplaceSeparationForReferences(W, Endpoints(created))
<1>3. DOMAIN request = 1 .. n
    BY <1>2
<1>4. \A i, j \in 1 .. n : request[i].rel = request[j].rel
    BY <1>1, <1>3
<1>5. Current(Draft) /\ Holds(Draft) /\ Sound(Draft)
    BY SteadyForm
<1>6. /\ refused \in BOOLEAN
      /\ refused <=> Bad(Draft, ledger \cup asked)
      /\ created \in SUBSET asked
      /\ ~refused => ledger \cup created = ledger \cup asked
    BY <1>2, <1>4, <1>5, BulkExact, DraftFields
<1>7. Commit(E)
    BY <1>1, <1>6 DEF AssertedAll
<1>8. CASE refused
    <2>1. E = [Draft EXCEPT !.verdict = "refused"]
        BY <1>8
    <2>2. E.verdict = "refused"
        BY <2>1, DraftFields, Updates
    <2> HIDE DEF E, refused, asked
    <2>3. UNCHANGED tables /\ answer' = "refused"
        BY <1>7, <2>2, CommitSteady
    <2>4. Steady' /\ UNCHANGED <<live, kinds, ledger, folds>>
        BY <2>3, TablesSteady
    <2>5. ledger' \subseteq ledger \cup asked /\ Bad(Draft, ledger' \cup asked)
          /\ ledger \subseteq ledger'
        BY <1>6, <1>8, <2>4
    <2>6. Promise!Next
        BY <1>2, <2>3, <2>4, <2>5, PromiseRefuses DEF asked
    <2> QED
        BY <2>4, <2>6
<1>9. CASE ~refused
    <2>1. created \in SUBSET Assertions /\ \A a \in created : a.pair \subseteq Known(Draft)
        BY <1>2, <1>6
    <2>2. \A a \in created : a.rel = request[1].rel
        BY <1>2, <1>4, <1>6 DEF Asked
    <2>3. request[1].rel \in {"same", "different"}
        <3>1. request[1] \in Assertions
            BY <1>2, AssertableForm
        <3> QED
            BY <3>1 DEF Assertions
    <2>4. E = IF request[1].rel = "same" THEN ReplaceAffectedClosure(W, Endpoints(created))
              ELSE ReplaceSeparationForReferences(W, Endpoints(created))
        BY <1>9
    <2>5. ~Bad(Draft, ledger \cup created)
        BY <1>6, <1>9
    <2> HIDE DEF created, refused, asked, E
    <2>6. Repaired(W, E)
        BY <1>5, <2>1, <2>2, <2>3, <2>4, BulkRepairs
    <2>7. /\ Sound(W) /\ W.live = live /\ W.kinds = kinds /\ W.folds = folds
          /\ W.ledger = ledger \cup created /\ W.verdict = "done"
        BY <1>5, <2>1, AssertedAllForm, DraftFields
    <2> HIDE DEF W
    <2>8. Holds(W)
        BY <2>5, <2>7, BadAlike, DraftFields DEF Holds
    <2>9. /\ Current(E) /\ Holds(E) /\ E.verdict = "done" /\ ledger \subseteq E.ledger
          /\ E.live = live /\ E.kinds = kinds /\ E.folds = folds
        BY <2>6, <2>7, <2>8, RepairCommits
    <2> QED
        BY <1>7, <2>9, AssertingMoves
<1> QED
    BY <1>6, <1>8, <1>9

\* What an import has done after some of its assertions.
Imported(asked, E) ==
    /\ Current(E) /\ Holds(E)
    /\ E.live = live /\ E.kinds = kinds /\ E.folds = folds
    /\ ledger \subseteq E.ledger /\ E.ledger \subseteq ledger \cup asked
    /\ \/ E.verdict = "done"
       \/ E.verdict = "refused" /\ Bad(Draft, E.ledger \cup asked)

LEMMA ImportStep ==
    ASSUME Steady, NEW asked \in SUBSET Assertions, NEW E, Imported(asked, E), NEW a \in Assertable
    PROVE  Imported(asked \cup {a}, AssertStep(E, a))
<1> DEFINE F == AssertStep(E, a)
           more == asked \cup {a}
<1>1. /\ Current(E) /\ Holds(E)
      /\ E.live = live /\ E.kinds = kinds /\ E.folds = folds
      /\ ledger \subseteq E.ledger /\ E.ledger \subseteq ledger \cup asked
      /\ \/ E.verdict = "done"
         \/ E.verdict = "refused" /\ Bad(Draft, E.ledger \cup asked)
    BY DEF Imported
<1>2. a \in Assertions /\ a.pair \subseteq Known(E) /\ ledger \in SUBSET Assertions /\ Sound(Draft)
    BY <1>1, AssertableForm, DraftFields, SteadyForm DEF Known
<1>3. E.ledger \cup more \in SUBSET Assertions
    BY <1>1, <1>2
<1>4. CASE E.verdict = "refused"
    <2>1. F = E
        BY <1>4 DEF AssertStep
    <2>2. E.ledger \cup asked \in SUBSET (E.ledger \cup more) /\ Bad(Draft, E.ledger \cup asked)
        BY <1>1, <1>4
    <2> HIDE DEF F
    <2>3. Bad(Draft, E.ledger \cup more)
        BY <1>2, <1>3, <2>2, BadGrows
    <2>4. E.ledger \subseteq ledger \cup more
        BY <1>1
    <2> QED
        BY <1>1, <1>4, <2>1, <2>3, <2>4 DEF Imported, F
<1>5. CASE E.verdict = "done"
    <2>1. Stepped(E, a, F)
        BY <1>1, <1>2, <1>5, AssertStepExact
    <2> HIDE DEF F
    <2>2. /\ Current(F) /\ Holds(F) /\ F.live = live /\ F.kinds = kinds /\ F.folds = folds
          /\ \/ F.verdict = "done" /\ F.ledger = E.ledger \cup {a}
             \/ F.verdict = "refused" /\ F.ledger = E.ledger /\ Bad(E, E.ledger \cup {a})
        BY <1>1, <2>1 DEF Stepped
    <2>3. ledger \subseteq F.ledger /\ F.ledger \subseteq ledger \cup more
        BY <1>1, <2>2
    <2>4. F.verdict = "refused" => Bad(Draft, F.ledger \cup more)
        <3> SUFFICES ASSUME F.verdict = "refused" PROVE Bad(Draft, F.ledger \cup more)
            OBVIOUS
        <3>1. F.ledger = E.ledger /\ Bad(E, E.ledger \cup {a})
            BY <2>2
        <3>2. Bad(Draft, E.ledger \cup {a})
            BY <1>1, <3>1, BadAlike, DraftFields
        <3>3. E.ledger \cup {a} \in SUBSET (E.ledger \cup more)
            OBVIOUS
        <3>4. Bad(Draft, E.ledger \cup more)
            BY <1>2, <1>3, <3>2, <3>3, BadGrows
        <3> QED
            BY <3>1, <3>4
    <2> HIDE DEF more
    <2>5. \/ F.verdict = "done"
          \/ F.verdict = "refused" /\ Bad(Draft, F.ledger \cup more)
        BY <2>2, <2>4
    <2>6. Imported(more, F)
        BY <2>2, <2>3, <2>5 DEF Imported
    <2> QED
        BY <2>6 DEF more, F
<1> QED
    BY <1>1, <1>4, <1>5

LEMMA ImportMoves ==
    ASSUME Steady, ImportAssertions
    PROVE  Steady' /\ Promise!Next
<1>1. PICK request \in Requests :
          LET D == FoldLeft(AssertStep, Draft, request)
          IN  answer' = D.verdict /\ IF D.verdict = "aborted" THEN UNCHANGED tables ELSE Install(D)
    BY DEF ImportAssertions
<1>2. PICK n \in 1 .. MaxRequest :
          /\ n \in Nat /\ request \in [1 .. n -> Assertable]
          /\ IsRequest(Draft, request, n)
          /\ Range(request) = Asked(request, n)
          /\ 1 \in 1 .. n /\ Asked(request, n) \in SUBSET Assertions
          /\ \A a \in Asked(request, n) : a.pair \subseteq Known(Draft)
    BY RequestIs
<1>3. DOMAIN request = 1 .. n
    BY <1>2
<1>4. PICK h : /\ h[0] = Draft
               /\ \A i \in 1 .. n : h[i] = AssertStep(h[i - 1], request[i])
               /\ AssertFolded(Draft, request) = h[n]
    BY <1>2, <1>3, AssertFold
<1> DEFINE Good(i) == Imported(Asked(request, i), h[i])
           N == {i \in Nat : i <= n => Good(i)}
<1>5. 0 \in N
    <2>1. Asked(request, 0) = {}
        BY DEF Asked
    <2>2. Imported({}, Draft)
        BY SteadyForm, DraftFields DEF Imported
    <2> QED
        BY <1>4, <2>1, <2>2
<1>6. ASSUME NEW i \in Nat, i \in N PROVE i + 1 \in N
    <2> SUFFICES ASSUME i + 1 <= n PROVE Good(i + 1)
        OBVIOUS
    <2>1. Good(i) /\ i + 1 \in 1 .. n /\ (i + 1) - 1 = i
        BY <1>2, <1>6
    <2>2. h[i + 1] = AssertStep(h[i], request[i + 1])
        BY <1>4, <2>1
    <2>3. Asked(request, i + 1) = Asked(request, i) \cup {request[i + 1]}
        <3>1. 1 .. (i + 1) = (1 .. i) \cup {i + 1}
            OBVIOUS
        <3> QED
            BY <3>1 DEF Asked
    <2>4. request[i + 1] \in Assertable
        BY <1>2, <2>1
    <2>5. Asked(request, i) \in SUBSET Assertions
        <3>1. \A j \in 1 .. i : j \in 1 .. n
            BY <1>2, <2>1
        <3>2. \A j \in 1 .. n : request[j] \in Assertions
            BY <1>2 DEF Asked
        <3> QED
            BY <3>1, <3>2 DEF Asked
    <2>6. Imported(Asked(request, i), h[i])
        BY <2>1
    <2> HIDE DEF Good
    <2>7. Imported(Asked(request, i) \cup {request[i + 1]}, AssertStep(h[i], request[i + 1]))
        BY <2>4, <2>5, <2>6, ImportStep
    <2> QED
        BY <2>2, <2>3, <2>7 DEF Good
<1> HIDE DEF N
<1>7. Nat \subseteq N
    BY <1>5, <1>6, Numbers
<1>8. Good(n)
    BY <1>2, <1>7 DEF N
<1> DEFINE E == AssertFolded(Draft, request)
           asked == Asked(request, n)
<1>9. Imported(asked, E)
    BY <1>4, <1>8
<1>10. answer' = E.verdict /\ IF E.verdict = "aborted" THEN UNCHANGED tables ELSE Install(E)
    BY <1>1 DEF AssertFolded
<1> HIDE DEF E, asked, Good
<1>11. /\ Current(E) /\ Holds(E)
       /\ E.live = live /\ E.kinds = kinds /\ E.folds = folds
       /\ ledger \subseteq E.ledger /\ E.ledger \subseteq ledger \cup asked
       /\ \/ E.verdict = "done"
          \/ E.verdict = "refused" /\ Bad(Draft, E.ledger \cup asked)
    BY <1>9 DEF Imported
<1>12. Install(E) /\ answer' = E.verdict
    BY <1>10, <1>11
<1>13. /\ Steady'
       /\ live' = live /\ kinds' = kinds /\ folds' = folds /\ ledger' = E.ledger
    BY <1>11, <1>12, InstallSteady
<1>14. CASE E.verdict = "done"
    BY <1>11, <1>12, <1>13, <1>14, PromiseAsserts
<1>15. CASE E.verdict = "refused"
    <2>1. Bad(Draft, ledger' \cup asked) /\ ledger' \subseteq ledger \cup asked
          /\ ledger \subseteq ledger'
        BY <1>11, <1>13, <1>15
    <2>2. Promise!Next
        BY <1>2, <1>12, <1>13, <1>15, <2>1, PromiseRefuses DEF asked
    <2> QED
        BY <1>13, <2>2
<1> QED
    BY <1>11, <1>14, <1>15

LEMMA DeleteMoves ==
    ASSUME Steady, DeleteNode
    PROVE  Steady' /\ Promise!Next
<1>1. PICK r \in OfKinds(live, kinds) :
          LET ended == Touching(ledger, {r})
              written == [Draft EXCEPT !.live = @ \ {r}, !.ledger = @ \ ended]
          IN  Commit(IF ended = {} /\ r \notin DOMAIN closure THEN written
                     ELSE ReplaceAffectedClosure(written, {r}))
    BY DEF DeleteNode
<1> DEFINE E == IF Touching(Draft.ledger, {r}) = {} /\ r \notin DOMAIN Draft.closure
                THEN Removed(Draft, r) ELSE ReplaceAffectedClosure(Removed(Draft, r), {r})
<1>2. Commit(E)
    BY <1>1, DraftFields DEF Removed
<1>3. Current(Draft) /\ Holds(Draft) /\ r \in Known(Draft)
    BY SteadyForm, DraftFields
<1>4. /\ Current(E) /\ Holds(E) /\ E.verdict = "done"
      /\ E.live = live \ {r} /\ E.kinds = kinds /\ E.folds = folds
      /\ E.ledger = {a \in ledger : r \notin a.pair}
    <2>1. /\ Current(E) /\ Holds(E) /\ E.verdict = Draft.verdict
          /\ E.live = Draft.live \ {r} /\ E.kinds = Draft.kinds /\ E.folds = Draft.folds
          /\ E.ledger = {a \in Draft.ledger : r \notin a.pair}
        BY <1>3, DeleteExact
    <2> HIDE DEF E
    <2> QED
        BY <2>1, DraftFields
<1> HIDE DEF E
<1>5. /\ Steady' /\ answer' = "done"
      /\ live' = live \ {r} /\ kinds' = kinds /\ folds' = folds
      /\ ledger' = {a \in ledger : r \notin a.pair}
    BY <1>2, <1>4, CommitSteady
<1>6. OfKinds(live', kinds') = OfKinds(live, kinds) \ {r}
    BY <1>5 DEF OfKinds
<1>7. OfKinds(live, kinds) \ OfKinds(live', kinds') = {r}
    BY <1>6
<1>8. Promise!About(ledger, {r}) = {a \in ledger : r \in a.pair}
    BY DEF Promise!About
<1>9. ledger' = ledger \ Promise!About(ledger, OfKinds(live, kinds) \ OfKinds(live', kinds'))
    BY <1>5, <1>7, <1>8
<1>10. OfKinds(live', kinds') \in SUBSET OfKinds(live, kinds)
    BY <1>6
<1>11. Promise!Remove
    BY <1>5, <1>9, <1>10 DEF Promise!Remove, Promise!Answered
<1> QED
    BY <1>5, <1>11 DEF Promise!Next

LEMMA RemoveKindMoves ==
    ASSUME Steady, RemoveKind
    PROVE  Steady' /\ Promise!Next
<1>1. PICK k \in Droppable \cap kinds :
          Commit(ReplaceClosure([Draft EXCEPT !.kinds = @ \ {k},
                                              !.ledger = @ \ Touching(@, OfKinds(Refs, {k}))]))
    BY DEF RemoveKind
<1> DEFINE E == ReplaceClosure(KindRemoved(Draft, k))
           gone == OfKinds(live, kinds) \ OfKinds(live', kinds')
<1>2. Commit(E)
    BY <1>1 DEF KindRemoved
<1>3. Current(Draft) /\ Holds(Draft)
    BY SteadyForm
<1>4. /\ Current(E) /\ Holds(E) /\ E.verdict = "done"
      /\ E.live = live /\ E.kinds = kinds \ {k} /\ E.folds = folds
      /\ E.ledger = ledger \ Touching(ledger, OfKinds(Refs, {k}))
    BY <1>3, RemoveKindExact, DraftFields
<1> HIDE DEF E
<1>5. /\ Steady' /\ answer' = "done"
      /\ live' = live /\ kinds' = kinds \ {k} /\ folds' = folds
      /\ ledger' = ledger \ Touching(ledger, OfKinds(Refs, {k}))
    BY <1>2, <1>4, CommitSteady
<1>6. /\ live \in SUBSET Refs
      /\ \A a \in ledger : a.pair \subseteq OfKinds(live, kinds)
    BY SteadyForm
<1>7. \A r : r \in gone <=> r \in live /\ Kind(r) = k
    BY <1>1, <1>5 DEF OfKinds
<1> HIDE DEF gone
<1>8. \A a \in ledger : a.pair \cap gone # {} <=> a.pair \cap OfKinds(Refs, {k}) # {}
    <2> TAKE a \in ledger
    <2>1. \A r \in a.pair : r \in gone <=> r \in OfKinds(Refs, {k})
        BY <1>6, <1>7 DEF OfKinds
    <2> QED
        BY <2>1
<1>9. Promise!About(ledger, gone) = Touching(ledger, OfKinds(Refs, {k}))
    BY <1>8 DEF Promise!About, Touching
<1>10. ledger' = ledger \ Promise!About(ledger, OfKinds(live, kinds) \ OfKinds(live', kinds'))
    BY <1>5, <1>9 DEF gone
<1>11. OfKinds(live', kinds') \in SUBSET OfKinds(live, kinds)
    BY <1>5 DEF OfKinds
<1>12. Promise!Remove
    BY <1>5, <1>10, <1>11 DEF Promise!Remove, Promise!Answered
<1> QED
    BY <1>5, <1>12 DEF Promise!Next

\* A batch whose kinds count one is of one kind.
LEMMA OneKind ==
    ASSUME NEW created \in SUBSET Refs, Cardinality({Kind(r) : r \in created}) = 1
    PROVE  \A r, s \in created : Kind(r) = Kind(s)
<1> DEFINE T == {Kind(r) : r \in created}
           f == [r \in created |-> Kind(r)]
<1>1. IsFiniteSet(created)
    BY RefsAssumption, FS_Subset
<1>2. f \in Surjection(created, T)
    BY DEF Surjection
<1>3. \A r \in created : Kind(r) \in T
    OBVIOUS
<1> HIDE DEF f
<1>4. IsFiniteSet(T) /\ Cardinality(T) = 1
    BY <1>1, <1>2, FS_Surjection
<1> HIDE DEF T
<1>5. PICK k : T = {k}
    BY <1>4, FS_Singleton
<1> QED
    BY <1>3, <1>5

LEMMA CreateMoves ==
    ASSUME Steady, ~MixedBatches, CreateNodes
    PROVE  Steady' /\ Promise!Next
<1>1. PICK created \in SUBSET (OfKinds(Refs, kinds) \ live) :
          /\ MixedBatches \/ Cardinality({Kind(r) : r \in created}) = 1
          /\ Commit(FoldNodes([Draft EXCEPT !.live = @ \cup created], created))
    BY DEF CreateNodes
<1> DEFINE W == Added(Draft, created)
           E == FoldNodes(W, created)
<1>2. Commit(E)
    BY <1>1 DEF Added
<1>3. /\ Current(Draft) /\ Holds(Draft) /\ Sound(Draft)
      /\ created \in SUBSET (OfKinds(Refs, Draft.kinds) \ Draft.live)
      /\ created \in SUBSET OfKinds(Refs, Draft.kinds) /\ created \in SUBSET Refs
    BY SteadyForm, DraftFields DEF OfKinds
<1>4. \A r, s \in created : Kind(r) = Kind(s)
    BY <1>1, <1>3, OneKind
<1>5. \/ FoldRefuses(W, created) /\ E.verdict = "refused"
      \/ ~FoldRefuses(W, created) /\ Repaired(W, E)
    BY <1>3, FoldRepairs
<1>6. /\ Sound(W) /\ W.live = live \cup created /\ W.kinds = kinds /\ W.ledger = ledger
      /\ W.folds = folds /\ W.verdict = "done"
    BY <1>3, AddedForm, DraftFields
<1>7. FoldRefuses(W, created) =>
          \E r, s \in Refs : Promise!Contradictory(OfKinds(live, kinds) \cup {r, s}, ledger, folds)
    BY <1>3, FoldRefusal, DraftFields
<1>8. ~FoldRefuses(W, created) => ~Contra(TrueLinks(W), ledger)
    BY <1>3, <1>4, FoldHolds, DraftFields
<1> HIDE DEF W, E
<1>9. CASE FoldRefuses(W, created)
    <2>1. E.verdict = "refused"
        BY <1>5, <1>9
    <2>2. /\ Steady' /\ answer' = "refused" /\ UNCHANGED tables
        BY <1>2, <2>1, CommitSteady
    <2>3. UNCHANGED <<live, kinds, ledger, folds>>
        BY <2>2, TablesSteady
    <2>4. OfKinds(live', kinds') = OfKinds(live, kinds)
        BY <2>3
    <2>5. Promise!RefuseNodes
        BY <1>7, <1>9, <2>3 DEF Promise!RefuseNodes
    <2>6. Promise!Refuse
        BY <2>2, <2>3, <2>4, <2>5 DEF Promise!Refuse, Promise!Answered
    <2> QED
        BY <2>2, <2>6 DEF Promise!Next
<1>10. CASE ~FoldRefuses(W, created)
    <2>1. Repaired(W, E)
        BY <1>5, <1>10
    <2>2. Holds(W)
        BY <1>6, <1>8, <1>10, BadForm DEF Holds
    <2>3. /\ Current(E) /\ Holds(E) /\ E.verdict = "done"
          /\ E.live = live \cup created /\ E.kinds = kinds /\ E.ledger = ledger /\ E.folds = folds
        BY <1>6, <2>1, <2>2, RepairCommits
    <2>4. /\ Steady' /\ answer' = "done"
          /\ live' = live \cup created /\ kinds' = kinds /\ ledger' = ledger /\ folds' = folds
        BY <1>2, <2>3, CommitSteady
    <2>5. OfKinds(live, kinds) \subseteq OfKinds(live', kinds')
        BY <2>4 DEF OfKinds
    <2>6. OfKinds(live', kinds') \in SUBSET Refs
          /\ ~Promise!Contradictory(OfKinds(live', kinds'), ledger', folds')
        BY <2>4, SteadyNext
    <2>7. ~Promise!Contradictory(OfKinds(live', kinds'), ledger, folds)
        BY <2>4, <2>6
    <2>8. Promise!Add
        BY <2>4, <2>5, <2>6, <2>7 DEF Promise!Add, Promise!Answered
    <2> QED
        BY <2>4, <2>8 DEF Promise!Next
<1> QED
    BY <1>9, <1>10

LEMMA ProfileMoves ==
    ASSUME Steady, ChangeProfile
    PROVE  Steady' /\ Promise!Next
<1> DEFINE W == ProfileDraft
           E == Rebuilt(W)
<1>1. Commit(E)
    BY DEF ChangeProfile, ProfileDraft
<1>2. /\ Sound(W) /\ W.live = live /\ W.kinds = kinds /\ W.ledger = ledger
      /\ W.folds = ~folds /\ W.verdict = "done"
    BY ProfileSound DEF Steady
<1> HIDE DEF W
<1>3. \/ Holds(W) /\ Repaired(W, E)
      \/ ~Holds(W) /\ E.verdict = "refused"
    BY <1>2, RebuiltForm, IntegrityExact
<1> HIDE DEF E
<1>4. CASE Holds(W) /\ Repaired(W, E)
    <2>1. /\ Current(E) /\ Holds(E) /\ E.verdict = "done"
          /\ E.live = live /\ E.kinds = kinds /\ E.ledger = ledger /\ E.folds = ~folds
        BY <1>2, <1>4, RepairCommits
    <2>2. /\ Steady' /\ answer' = "done"
          /\ live' = live /\ kinds' = kinds /\ ledger' = ledger /\ folds' = ~folds
        BY <1>1, <2>1, CommitSteady
    <2>3. OfKinds(live', kinds') = OfKinds(live, kinds)
        BY <2>2
    <2>4. ~Promise!Contradictory(OfKinds(live', kinds'), ledger', folds')
        BY <2>2, SteadyNext
    <2>5. ~Promise!Contradictory(OfKinds(live, kinds), ledger, folds')
        BY <2>2, <2>3, <2>4
    <2>6. Promise!ChangeProfile
        BY <2>2, <2>3, <2>5 DEF Promise!ChangeProfile, Promise!Answered
    <2> QED
        BY <2>2, <2>6 DEF Promise!Next
<1>5. CASE ~Holds(W) /\ E.verdict = "refused"
    <2>1. Steady' /\ answer' = "refused" /\ UNCHANGED tables
        BY <1>1, <1>5, CommitSteady
    <2>2. UNCHANGED <<live, kinds, ledger, folds>>
        BY <2>1, TablesSteady
    <2>3. OfKinds(live', kinds') = OfKinds(live, kinds)
        BY <2>2
    <2>4. Promise!Contradictory(OfKinds(live, kinds), ledger, ~folds)
        BY <1>2, <1>5 DEF Holds, Bad, Known
    <2>5. Promise!RefuseProfile
        BY <2>2, <2>4 DEF Promise!RefuseProfile
    <2>6. Promise!Refuse
        BY <2>1, <2>2, <2>3, <2>5 DEF Promise!Refuse, Promise!Answered
    <2> QED
        BY <2>1, <2>6 DEF Promise!Next
<1> QED
    BY <1>3, <1>4, <1>5

LEMMA RebuildMoves ==
    ASSUME Steady, RebuildClosure
    PROVE  Steady' /\ Promise!Next
<1> DEFINE E == Rebuilt(Draft)
<1>1. Commit(E)
    BY DEF RebuildClosure
<1>2. Sound(Draft) /\ Holds(Draft)
    BY SteadyForm
<1>3. Repaired(Draft, E)
    BY <1>2, RebuiltForm, IntegrityExact
<1> HIDE DEF E
<1>4. /\ Current(E) /\ Holds(E) /\ E.verdict = "done"
      /\ E.live = live /\ E.kinds = kinds /\ E.ledger = ledger /\ E.folds = folds
    BY <1>2, <1>3, RepairCommits, DraftFields
<1>5. ledger \subseteq E.ledger
    BY <1>4
<1> QED
    BY <1>1, <1>4, <1>5, AssertingMoves

LEMMA InitSteady == Init => Steady /\ Promise!Init
<1> SUFFICES ASSUME Init PROVE Steady /\ Promise!Init
    OBVIOUS
<1>1. Stays
    BY InitStays
<1>2. live = {} /\ ledger = {} /\ folds \in BOOLEAN /\ answer = "done"
    BY DEF Init
<1>3. OfKinds(live, kinds) = {}
    BY <1>2 DEF OfKinds
<1>4. Sound(Draft) /\ Draft.ledger = {} /\ Known(Draft) = {}
    BY <1>1, <1>2, <1>3, DraftFields DEF Stays, Current
<1>5. TrueLinks(Draft) = {}
    <2>1. TrueLinks(Draft) \in SUBSET SUBSET {} /\ \A p \in TrueLinks(Draft) : p # {}
        BY <1>4, SoundLinks
    <2> QED
        BY <2>1
<1>6. ~Contra({}, {})
    <2>1. \A r \in Refs : Reach({}, r) = {r}
        BY ReachAlone
    <2> QED
        BY <2>1, DisjointAssumption DEF Contra
<1>7. Holds(Draft)
    BY <1>4, <1>5, <1>6, BadForm DEF Holds
<1>8. Promise!Init
    BY <1>2, <1>3 DEF Promise!Init
<1> QED
    BY <1>1, <1>7, <1>8 DEF Steady

-----------------------------------------------------------------------------
(* The service and its promise. *)

LEMMA NextSteady ==
    ASSUME Steady, ~MixedBatches, [Next]_vars
    PROVE  Steady' /\ [Promise!Next]_(Promise!vars)
<1>1. CASE UNCHANGED vars
    <2>1. UNCHANGED tables /\ answer' = answer
        BY <1>1 DEF vars, tables
    <2>2. Steady' /\ UNCHANGED <<live, kinds, ledger, folds>>
        BY <2>1, TablesSteady
    <2>3. OfKinds(live', kinds') = OfKinds(live, kinds)
        BY <2>2
    <2> QED
        BY <2>1, <2>2, <2>3 DEF Promise!vars
<1>2. CASE Next
    <2>1. Steady' /\ Promise!Next
        BY <1>2, AssertPairMoves, BulkMoves, RetractMoves, CreateMoves, DeleteMoves, ImportMoves,
           ApplyMoves, RemoveKindMoves, ProfileMoves, RebuildMoves DEF Next
    <2> QED
        BY <2>1
<1> QED
    BY <1>1, <1>2

LEMMA StaysSteady ==
    ASSUME ~MixedBatches
    PROVE  Spec => []Steady
<1>1. Init => Steady
    BY InitSteady
<1>2. Steady /\ [Next]_vars => Steady'
    BY NextSteady
<1> QED
    BY <1>1, <1>2, PTL DEF Spec

(***************************************************************************)
(* If a fold takes nodes of one kind only, as every call but an import     *)
(* does, no class ever holds two disjoint kinds and none is split by a     *)
(* `different` assertion.                                                  *)
(***************************************************************************)
THEOREM NeverContradicts ==
    ASSUME ~MixedBatches
    PROVE  Spec => []NeverContradictory
<1>1. Steady => NeverContradictory
    BY SteadyForm DEF NeverContradictory, Promise!Consistent
<1>2. Spec => []Steady
    BY StaysSteady
<1> QED
    BY <1>1, <1>2, PTL

(***************************************************************************)
(* Under the same condition the service implements the ledger it promises: *)
(* every frame that commits, and every one that is refused, is a step of   *)
(* the promise or changes nothing of it, and no constraint of the derived  *)
(* tables ever stops a repair (the promise has no such answer).            *)
(***************************************************************************)
THEOREM PromiseKept ==
    ASSUME ~MixedBatches
    PROVE  Spec => ImplementsLedger
<1>1. Init => Promise!Init
    BY InitSteady
<1>2. Steady /\ [Next]_vars => [Promise!Next]_(Promise!vars)
    BY NextSteady
<1>3. Spec => []Steady
    BY StaysSteady
<1> QED
    BY <1>1, <1>2, <1>3, PTL DEF Spec, Promise!Spec, ImplementsLedger

LEMMA StepVerdict ==
    ASSUME NEW D, Current(D), Holds(D), D.verdict = "done",
           NEW a \in Assertions, a.pair \subseteq Known(D)
    PROVE  (AssertStep(D, a).verdict = "refused") <=> Bad(D, D.ledger \cup {a})
<1> DEFINE E == AssertStep(D, a)
<1>1. Stepped(D, a, E)
    BY AssertStepExact
<1> HIDE DEF E
<1>2. CASE E.verdict = "refused"
    BY <1>1, <1>2 DEF Stepped, E
<1>3. CASE E.verdict # "refused"
    <2>1. E.ledger = D.ledger \cup {a} /\ Holds(E)
          /\ E.live = D.live /\ E.kinds = D.kinds /\ E.folds = D.folds
        BY <1>1, <1>3 DEF Stepped
    <2>2. ~Bad(D, D.ledger \cup {a})
        BY <2>1, BadAlike DEF Holds
    <2> QED
        BY <1>3, <2>2 DEF E
<1> QED
    BY <1>2, <1>3

LEMMA SteadyExact == Steady => RefusesContradictionsOnly
<1> SUFFICES ASSUME Steady PROVE RefusesContradictionsOnly
    OBVIOUS
<1> DEFINE bad == {a \in Assertable : Contradicting(ledger \cup {a})}
<1>1. \A asserted : Contradicting(asserted) <=> Bad(Draft, asserted)
    BY DraftFields DEF Contradicting, Bad
<1>2. Current(Draft) /\ Holds(Draft)
    BY SteadyForm
<1>3. \A a \in Assertable : (AssertStep(Draft, a).verdict = "refused") <=> (a \in bad)
    <2> TAKE a \in Assertable
    <2>1. a \in Assertions /\ a.pair \subseteq Known(Draft)
        BY AssertableForm
    <2>2. (AssertStep(Draft, a).verdict = "refused") <=> Bad(Draft, ledger \cup {a})
        BY <1>2, <2>1, StepVerdict, DraftFields
    <2> QED
        BY <1>1, <2>2
<1>4. \A request \in Requests :
          (\A i, j \in DOMAIN request : request[i].rel = request[j].rel) =>
              (Bulk(Draft, request).refused <=> Contradicting(ledger \cup Range(request)))
    <2> SUFFICES ASSUME NEW request \in Requests,
                        \A i, j \in DOMAIN request : request[i].rel = request[j].rel
                 PROVE  Bulk(Draft, request).refused <=> Contradicting(ledger \cup Range(request))
        OBVIOUS
    <2>1. PICK n \in 1 .. MaxRequest :
              /\ n \in Nat /\ request \in [1 .. n -> Assertable]
              /\ IsRequest(Draft, request, n)
              /\ Range(request) = Asked(request, n)
              /\ 1 \in 1 .. n /\ Asked(request, n) \in SUBSET Assertions
              /\ \A a \in Asked(request, n) : a.pair \subseteq Known(Draft)
        BY RequestIs
    <2>2. \A i, j \in 1 .. n : request[i].rel = request[j].rel
        BY <2>1
    <2> DEFINE refused == Bulk(Draft, request).refused
    <2>3. refused \in BOOLEAN /\ (refused <=> Bad(Draft, ledger \cup Asked(request, n)))
        BY <1>2, <2>1, <2>2, BulkExact, DraftFields
    <2> HIDE DEF refused
    <2>4. refused <=> Contradicting(ledger \cup Range(request))
        BY <1>1, <2>1, <2>3
    <2> QED
        BY <2>4 DEF refused
<1>5. \A d \in ledger : \A a \in Assertable :
          (AssertStep(RetractStep(Draft, {d}), a).verdict = "refused")
              <=> Contradicting((ledger \ {d}) \cup {a})
    <2> TAKE d \in ledger
    <2> TAKE a \in Assertable
    <2> DEFINE F == RetractStep(Draft, {d})
    <2>1. {d} \in SUBSET Draft.ledger
        BY DraftFields
    <2>2. /\ Current(F) /\ Holds(F) /\ F.verdict = "done"
          /\ F.live = live /\ F.kinds = kinds /\ F.folds = folds /\ F.ledger = ledger \ {d}
        BY <1>2, <2>1, RetractExact, DraftFields
    <2> HIDE DEF F
    <2>3. a \in Assertions /\ a.pair \subseteq Known(F)
        BY <2>2, AssertableForm, DraftFields DEF Known
    <2>4. (AssertStep(F, a).verdict = "refused") <=> Bad(F, (ledger \ {d}) \cup {a})
        BY <2>2, <2>3, StepVerdict
    <2>5. Bad(F, (ledger \ {d}) \cup {a}) = Bad(Draft, (ledger \ {d}) \cup {a})
        BY <2>2, BadAlike, DraftFields
    <2> QED
        BY <1>1, <2>4, <2>5 DEF F
<1> QED
    BY <1>3, <1>4, <1>5 DEF RefusesContradictionsOnly

(***************************************************************************)
(* A request is refused exactly when what it asks would contradict,        *)
(* whichever validation answers: the probes of the tables, the union-find  *)
(* of a bulk call, or the probes after a retraction of the same frame.     *)
(***************************************************************************)
THEOREM RefusalsAreExact ==
    ASSUME ~MixedBatches
    PROVE  Spec => []RefusesContradictionsOnly
<1>1. Steady => RefusesContradictionsOnly
    BY SteadyExact
<1>2. Spec => []Steady
    BY StaysSteady
<1> QED
    BY <1>1, <1>2, PTL

LEMMA SteadyEndpoints == Stays => Promise!EndpointsLive
<1> SUFFICES ASSUME Stays PROVE Promise!EndpointsLive
    OBVIOUS
<1>1. Endpoints(ledger) \subseteq OfKinds(live, kinds)
    BY DraftFields DEF Stays, Current, Sound
<1> QED
    BY <1>1 DEF Endpoints, Promise!EndpointsLive

(***************************************************************************)
(* Every assertion the service keeps is between live nodes of kinds the    *)
(* schema has: a deletion or a removed kind takes with it what was         *)
(* asserted of the node.                                                   *)
(***************************************************************************)
THEOREM EndpointsStayLive == Spec => []Promise!EndpointsLive
<1>1. Stays => Promise!EndpointsLive
    BY SteadyEndpoints
<1> QED
    BY <1>1, StaysCurrent, PTL

-----------------------------------------------------------------------------
(* The promise taken by itself: whoever keeps it never contradicts. *)

LEMMA ContradictionsGrow ==
    ASSUME NEW many \in SUBSET Refs, NEW few \in SUBSET many,
           NEW new \in SUBSET Assertions, NEW old \in SUBSET new, NEW fold,
           Promise!Contradictory(few, old, fold)
    PROVE  Promise!Contradictory(many, new, fold)
<1> DEFINE some == Promise!Links(few, old, fold)
           all == Promise!Links(many, new, fold)
<1>1. few \in SUBSET Refs /\ old \in SUBSET Assertions
    OBVIOUS
<1>2. /\ some = FoldLinks(few, fold) \cup PairsOf(Relating(old, "same"))
      /\ all = FoldLinks(many, fold) \cup PairsOf(Relating(new, "same"))
      /\ some \in SUBSET SUBSET Refs /\ all \in SUBSET SUBSET Refs
    BY <1>1, LinksForm
<1>3. some \subseteq all
    BY <1>2 DEF FoldLinks, PairsOf, Relating
<1>4. Contra(some, old)
    BY <1>1, ContradictoryForm
<1> HIDE DEF some, all
<1>5. Contra(all, new)
    BY <1>2, <1>3, <1>4, ContraGrows
<1> QED
    BY <1>5, ContradictoryForm DEF all

Promised ==
    /\ OfKinds(live, kinds) \in SUBSET Refs /\ ledger \in SUBSET Assertions
    /\ ~Promise!Contradictory(OfKinds(live, kinds), ledger, folds)

LEMMA PromisedNext ==
    ASSUME OfKinds(live', kinds') \in SUBSET Refs, ledger' \in SUBSET Assertions,
           ~Promise!Contradictory(OfKinds(live', kinds'), ledger', folds')
    PROVE  Promised'
BY DEF Promised, OfKinds

LEMMA PromisedStays == Promised /\ [Promise!Next]_(Promise!vars) => Promised'
<1> SUFFICES ASSUME Promised, [Promise!Next]_(Promise!vars) PROVE Promised'
    OBVIOUS
<1>1. /\ OfKinds(live, kinds) \in SUBSET Refs /\ ledger \in SUBSET Assertions
      /\ ~Promise!Contradictory(OfKinds(live, kinds), ledger, folds)
    BY DEF Promised
<1>2. ASSUME OfKinds(live', kinds') \in SUBSET OfKinds(live, kinds), ledger' \in SUBSET ledger,
             folds' = folds
      PROVE  Promised'
    <2>1. ~Promise!Contradictory(OfKinds(live', kinds'), ledger', folds)
        BY <1>1, <1>2, ContradictionsGrow
    <2>2. ~Promise!Contradictory(OfKinds(live', kinds'), ledger', folds')
        BY <1>2, <2>1
    <2>3. OfKinds(live', kinds') \in SUBSET Refs /\ ledger' \in SUBSET Assertions
        BY <1>1, <1>2
    <2> QED
        BY <2>2, <2>3, PromisedNext
<1>3. ASSUME OfKinds(live', kinds') = OfKinds(live, kinds), folds' = folds,
             ledger' \in SUBSET Promise!Assertions,
             ~Promise!Contradictory(OfKinds(live, kinds), ledger', folds)
      PROVE  Promised'
    <2>1. ~Promise!Contradictory(OfKinds(live', kinds'), ledger', folds')
        BY <1>3
    <2>2. OfKinds(live', kinds') \in SUBSET Refs /\ ledger' \in SUBSET Assertions
        BY <1>1, <1>3, PromiseForm
    <2> QED
        BY <2>1, <2>2, PromisedNext
<1>4. CASE Promise!Assert
    BY <1>3, <1>4 DEF Promise!Assert
<1>5. CASE Promise!Retract
    BY <1>2, <1>5 DEF Promise!Retract
<1>6. CASE Promise!Replace
    BY <1>3, <1>6 DEF Promise!Replace
<1>7. CASE Promise!Add
    <2>1. /\ OfKinds(live', kinds') \in SUBSET Refs /\ ledger' = ledger /\ folds' = folds
          /\ ~Promise!Contradictory(OfKinds(live', kinds'), ledger, folds)
        BY <1>7 DEF Promise!Add
    <2>2. ~Promise!Contradictory(OfKinds(live', kinds'), ledger', folds')
        BY <2>1
    <2> QED
        BY <1>1, <2>1, <2>2, PromisedNext
<1>8. CASE Promise!Remove
    BY <1>2, <1>8 DEF Promise!Remove
<1>9. CASE Promise!ChangeProfile
    <2>1. /\ OfKinds(live', kinds') = OfKinds(live, kinds) /\ ledger' = ledger
          /\ ~Promise!Contradictory(OfKinds(live, kinds), ledger, folds')
        BY <1>9 DEF Promise!ChangeProfile
    <2>2. ~Promise!Contradictory(OfKinds(live', kinds'), ledger', folds')
        BY <2>1
    <2> QED
        BY <1>1, <2>1, <2>2, PromisedNext
<1>10. CASE Promise!Refuse
    <2>1. OfKinds(live', kinds') = OfKinds(live, kinds) /\ folds' = folds
        BY <1>10 DEF Promise!Refuse
    <2>2. CASE Promise!RefuseAssertions
        BY <1>3, <2>1, <2>2 DEF Promise!RefuseAssertions
    <2>3. CASE Promise!RefuseNodes \/ Promise!RefuseProfile
        BY <1>2, <2>1, <2>3 DEF Promise!RefuseNodes, Promise!RefuseProfile
    <2> QED
        BY <1>10, <2>2, <2>3 DEF Promise!Refuse
<1>11. CASE UNCHANGED Promise!vars
    <2>1. OfKinds(live', kinds') = OfKinds(live, kinds) /\ ledger' = ledger /\ folds' = folds
        BY <1>11 DEF Promise!vars
    <2> QED
        BY <1>2, <2>1
<1> QED
    BY <1>4, <1>5, <1>6, <1>7, <1>8, <1>9, <1>10, <1>11 DEF Promise!Next

LEMMA PromisedInit == Promise!Init => Promised
<1> SUFFICES ASSUME Promise!Init PROVE Promised
    OBVIOUS
<1>1. OfKinds(live, kinds) = {} /\ ledger = {}
    BY DEF Promise!Init
<1> DEFINE links == Promise!Links({}, {}, folds)
<1>2. {} \in SUBSET Refs /\ {} \in SUBSET Assertions /\ Endpoints({}) \subseteq {}
    BY DEF Endpoints
<1>3. links \in SUBSET SUBSET {} /\ \A p \in links : p # {}
    BY <1>2, LinksForm
<1>4. links = {}
    BY <1>3
<1> HIDE DEF links
<1>5. ~Contra({}, {})
    <2>1. \A r \in Refs : Reach({}, r) = {r}
        BY ReachAlone
    <2> QED
        BY <2>1, DisjointAssumption DEF Contra
<1>6. ~Promise!Contradictory({}, {}, folds)
    BY <1>2, <1>4, <1>5, ContradictoryForm DEF links
<1> QED
    BY <1>1, <1>2, <1>6 DEF Promised

(***************************************************************************)
(* The promise is enough: a ledger all of whose steps are steps of the     *)
(* promise never contradicts itself, for a class can only shrink when      *)
(* nodes leave or assertions end, and every other step is admitted by its  *)
(* result (what validateIdentity would find it never does).                *)
(***************************************************************************)
THEOREM PromiseIsConsistent == Promise!Spec => []Promise!Consistent
<1>1. Promise!Init => Promised
    BY PromisedInit
<1>2. Promised /\ [Promise!Next]_(Promise!vars) => Promised'
    BY PromisedStays
<1>3. Promised => Promise!Consistent
    BY DEF Promised, Promise!Consistent
<1> QED
    BY <1>1, <1>2, <1>3, PTL DEF Promise!Spec
=============================================================================
