-------------------------- MODULE MergeCommitProofs --------------------------
(***************************************************************************)
(* What merging into a graph that tracks revisions guarantees for any      *)
(* writers, mergers, rows and number of attempts.                          *)
(***************************************************************************)
EXTENDS MergeCommit, TLAPS

\* What a merge has read: the fork, the target's rows, its plan's snapshot.
Resolved == {"planned", "locking", "guarding", "applying"}
Forked == {"branched", "fenced", "staging"} \cup Resolved
Snapped == {"locking", "guarding", "applying"}
Holding == {"guarding", "applying"}

\* The target holds a revision of every row and never gives one up.
Shaped(row) == row.version = 0 <=> ~Live(row)
Follows(old, new) == old.version <= new.version /\ (old.version = new.version => old = new)

\* The lock of the graph keeps commits apart.
LockInv ==
    /\ Tracked
    /\ \A w \in Writers : writer[w] = "writing" => graphLock = w
    /\ \A m \in Mergers : merger[m].at \in Holding => graphLock = m

\* How often a merge was tried and was applied.
CountInv ==
    \A m \in Mergers :
        /\ merged[m] <= faults + (IF merger[m].at = "done" THEN 1 ELSE 0)
        /\ merger[m].at = "planned" => merger[m].attempt < MaxAttempts

\* No row has the content of a branch that is not there yet, nor has its fork.
Authors(m) ==
    /\ merger[m].at \in {"idle", "stamped"} =>
          merged[m] = 0 /\ \A i \in Ids : rows[i].value # m
    /\ merger[m].at \in Forked => \A i \in Ids : merger[m].base[i].value # m

\* At the revision a branch was stamped with, the target is its fork.
AtTheFork(m) ==
    /\ merger[m].at \in Forked \cup {"stamped"} => merger[m].token.revision <= clock
    /\ merger[m].at \in Forked =>
          /\ \A i \in Ids : Follows(merger[m].base[i], rows[i])
          /\ merger[m].token.revision = clock => merger[m].base = rows

\* A reviewed plan was made at that revision, and is spent once it is applied.
Fenced(m) ==
    merger[m].kind = "plan" =>
        /\ merger[m].at \in {"stamped", "branched", "fenced", "staging"} => merged[m] = 0
        /\ merger[m].at = "fenced" =>
              merger[m].token.revision <= merger[m].fence /\ merger[m].fence <= clock
        /\ merger[m].at \in {"staging"} \cup Resolved => merger[m].fence = merger[m].token.revision
        /\ merger[m].at \in Resolved /\ merged[m] > 0 => merger[m].fence < clock

\* What was enumerated lies between the fork and the target as it is.
Seen(m) ==
    /\ merger[m].at \in {"staging"} \cup Resolved =>
          \A i \in merger[m].staged :
              /\ Follows(merger[m].base[i], merger[m].seen[i])
              /\ Follows(merger[m].seen[i], rows[i])
              /\ Shaped(merger[m].seen[i])
              /\ merger[m].token.revision = clock => merger[m].seen[i] = rows[i]
    /\ merger[m].at \in Resolved =>
          merger[m].staged = Ids /\ \A i \in merger[m].matched : Live(rows[i])

\* The snapshot of a commit is the target at its revision.
Snapshot(m) ==
    merger[m].at \in Snapped =>
        /\ merger[m].snapClock <= clock
        /\ merger[m].snapClock = clock => merger[m].snapRows = rows
        /\ merger[m].snapClock = merger[m].token.revision =>
              \A i \in Ids : merger[m].seen[i] = merger[m].base[i]

Checked(m) == merger[m].at = "applying" => Guarded(m)

MergerInv(m) == Authors(m) /\ AtTheFork(m) /\ Fenced(m) /\ Seen(m) /\ Snapshot(m) /\ Checked(m)

Inv ==
    /\ TypeOK /\ LockInv /\ CountInv
    /\ \A i \in Ids : Shaped(rows[i])
    /\ \A m \in Mergers : MergerInv(m)
-----------------------------------------------------------------------------
(* Types. *)

LEMMA AbsentTypes ==
    /\ Absent \in Row /\ Nothing \in [Ids -> Row] /\ None \in Values
    /\ \A rs \in [Ids -> Row] : Contents(rs) \in [Ids -> Values] /\ Matching(rs) \subseteq Ids
<1>1. Absent \in Row /\ None \in Values
  BY DEF Absent, Row, Values
<1>2. ASSUME NEW rs \in [Ids -> Row] PROVE Contents(rs) \in [Ids -> Values] /\ Matching(rs) \subseteq Ids
  <2>1. \A i \in Ids : rs[i].value \in Values
    BY DEF Row
  <2> QED
    BY <2>1 DEF Contents, Matching
<1> QED
  BY <1>1, <1>2 DEF Nothing

LEMMA TokenTypes ==
    ASSUME TypeOK
    PROVE  LiveToken \in Token /\ NoToken \in Token /\ (Tracked => LiveToken.revision = clock)
<1>1. Contents(Nothing) \in [Ids -> Values] /\ Contents(rows) \in [Ids -> Values]
  BY AbsentTypes DEF TypeOK
<1>2. NoToken \in Token
  BY <1>1 DEF NoToken, Token
<1>3. /\ [NoToken EXCEPT !.revision = clock] \in Token
      /\ [NoToken EXCEPT !.revision = clock].revision = clock
      /\ [NoToken EXCEPT !.contents = Contents(rows)] \in Token
  BY <1>1, <1>2 DEF TypeOK, Token
<1> QED
  BY <1>2, <1>3 DEF LiveToken

\* The fields of a merger have their types.
LEMMA FieldTypes ==
    ASSUME TypeOK, NEW m \in Mergers
    PROVE  /\ merger[m] \in Merger /\ merger[m].kind \in Kinds
           /\ merger[m].at \in {"idle", "stamped", "done"} \cup Forked
           /\ merger[m].token \in Token /\ merger[m].token.revision \in Nat
           /\ merger[m].base \in [Ids -> Row] /\ merger[m].edits \in SUBSET BranchIds
           /\ merger[m].fence \in Nat /\ merger[m].staged \in SUBSET Ids
           /\ merger[m].seen \in [Ids -> Row] /\ merger[m].matched \in SUBSET Ids
           /\ merger[m].snapRows \in [Ids -> Row] /\ merger[m].snapClock \in Nat
           /\ merger[m].attempt \in 0..MaxAttempts
<1>1. merger[m] \in Merger
  BY DEF TypeOK
<1>2. merger[m].token \in Token
  BY <1>1 DEF Merger
<1>3. merger[m].token.revision \in Nat
  BY <1>2 DEF Token
<1>4. merger[m].at \in {"idle", "stamped", "done"} \cup Forked
  BY <1>1 DEF Merger, Forked, Resolved
<1> QED
  BY <1>1, <1>2, <1>3, <1>4 DEF Merger

LEMMA NoMergeType == NoMerge \in Merger
<1>1. NoToken \in Token
  BY AbsentTypes DEF NoToken, Token
<1> QED
  BY <1>1, AbsentTypes, BoundsAssumption DEF NoMerge, Merger, Kinds

\* What an ended merge keeps.
LEMMA EndState ==
    ASSUME TypeOK, NEW m \in Mergers
    PROVE  /\ End(m) \in Merger
           /\ End(m).at = "done" /\ End(m).kind = merger[m].kind
           /\ End(m).base = merger[m].base /\ End(m).edits = merger[m].edits
<1>1. merger[m].kind \in Kinds /\ merger[m].base \in [Ids -> Row] /\ merger[m].edits \in SUBSET BranchIds
  BY FieldTypes
<1> QED
  BY <1>1, NoMergeType DEF End, Merger

LEMMA FollowsTwice ==
    ASSUME NEW a \in Row, NEW b \in Row, NEW c \in Row, Follows(a, b), Follows(b, c)
    PROVE  Follows(a, c) /\ Follows(a, a)
<1>1. a.version \in Nat /\ b.version \in Nat /\ c.version \in Nat
  BY DEF Row
<1> QED
  BY <1>1 DEF Follows

\* A written row follows the one it replaces.
LEMMA WrittenRow ==
    ASSUME NEW row \in Row, NEW value \in Values, NEW shared \in BOOLEAN
    PROVE  /\ Written(row, value, shared) \in Row
           /\ Written(row, value, shared).value = value
           /\ Written(row, value, shared).version # row.version
           /\ Follows(row, Written(row, value, shared))
           /\ value # None => Shaped(Written(row, value, shared))
<1>1. row.version \in Nat
  BY DEF Row
<1> QED
  BY <1>1 DEF Written, Row, Follows, Shaped, Live

LEMMA Chosen ==
    ASSUME NEW S, S # {}
    PROVE  (CHOOSE i \in S : TRUE) \in S
OBVIOUS

-----------------------------------------------------------------------------
(* The other mergers. *)

\* What a step of p may do to the target.
Moves(p) ==
    /\ tracking' = tracking /\ rows' \in [Ids -> Row] /\ clock' \in Nat /\ clock <= clock'
    /\ clock' = clock => rows' = rows
    /\ \A i \in Ids : /\ Follows(rows[i], rows'[i]) /\ Shaped(rows'[i])
                      /\ rows'[i].value \in {rows[i].value, p}

LEMMA QuietMoves ==
    ASSUME TypeOK, \A i \in Ids : Shaped(rows[i]), UNCHANGED <<tracking, rows, clock>>, NEW p
    PROVE  Moves(p)
<1>1. \A i \in Ids : Follows(rows[i], rows'[i])
  BY DEF TypeOK, Row, Follows
<1> QED
  BY <1>1 DEF TypeOK, Moves

\* The plan of a merger is a matter of its state.
LEMMA SamePlan ==
    ASSUME NEW m, merger'[m].kind = merger[m].kind, merger'[m].base = merger[m].base,
           merger'[m].edits = merger[m].edits, merger'[m].seen = merger[m].seen,
           merger'[m].matched = merger[m].matched
    PROVE  /\ Additions(m)' = Additions(m) /\ PlanWrites(m)' = PlanWrites(m)
           /\ \A i : PlannedValue(m, i)' = PlannedValue(m, i)
<1>1. Additions(m)' = Additions(m)
  BY DEF Additions
<1>2. IncrementalWrites(m)' = IncrementalWrites(m)
  BY <1>1 DEF IncrementalWrites
<1>3. \A i : BranchValue(m, i)' = BranchValue(m, i)
  BY DEF BranchValue
<1>4. PlanWrites(m)' = PlanWrites(m)
  BY <1>2, <1>3 DEF PlanWrites
<1>5. \A i : PlannedValue(m, i)' = PlannedValue(m, i)
  BY <1>3 DEF PlannedValue
<1> QED
  BY <1>1, <1>4, <1>5

LEMMA SameGuard ==
    ASSUME NEW m, merger'[m].kind = merger[m].kind, merger'[m].base = merger[m].base,
           merger'[m].edits = merger[m].edits, merger'[m].seen = merger[m].seen,
           merger'[m].matched = merger[m].matched, merger'[m].token = merger[m].token,
           merger'[m].fence = merger[m].fence, merger'[m].snapRows = merger[m].snapRows,
           merger'[m].snapClock = merger[m].snapClock, UNCHANGED <<tracking, rows, clock>>
    PROVE  Guarded(m)' = Guarded(m)
<1>1. Additions(m)' = Additions(m) /\ PlanWrites(m)' = PlanWrites(m)
  BY SamePlan
<1>2. View(m)' = View(m) /\ ViewClock(m)' = ViewClock(m) /\ Tracked' = Tracked
  BY DEF View, ViewClock, Serializable, Tracked
<1>3. TargetUnchanged(m)' = TargetUnchanged(m)
  BY <1>2 DEF TargetUnchanged, Contents
<1>4. BaseResolutionStable(m)' = BaseResolutionStable(m)
  BY <1>1, <1>2 DEF BaseResolutionStable, Matching
<1>5. InheritedTargetUnchanged(m)' = InheritedTargetUnchanged(m)
  BY <1>1, <1>2 DEF InheritedTargetUnchanged
<1> QED
  BY <1>3, <1>4, <1>5 DEF Guarded

\* A row stays read and stays live, whoever moves it on.
LEMMA FollowOn ==
    ASSUME TypeOK, NEW m \in Mergers, NEW p, Moves(p), NEW i \in Ids, Shaped(rows[i])
    PROVE  /\ Follows(merger[m].base[i], rows[i]) => Follows(merger[m].base[i], rows'[i])
           /\ Follows(merger[m].seen[i], rows[i]) => Follows(merger[m].seen[i], rows'[i])
           /\ Live(rows[i]) => Live(rows'[i])
<1>1. merger[m].base[i] \in Row /\ merger[m].seen[i] \in Row /\ rows[i] \in Row /\ rows'[i] \in Row
  BY FieldTypes DEF TypeOK, Moves
<1>2. rows[i].version \in Nat /\ rows'[i].version \in Nat /\ rows[i].version <= rows'[i].version
      /\ Follows(rows[i], rows'[i]) /\ Shaped(rows'[i])
  BY <1>1 DEF Row, Follows, Moves
<1>3. Live(rows[i]) => Live(rows'[i])
  BY <1>2 DEF Shaped
<1> QED
  BY <1>1, <1>2, <1>3, FollowsTwice

\* What a merger has read stays true of the target whatever another one does.
LEMMA OthersStand ==
    ASSUME TypeOK, \A i \in Ids : Shaped(rows[i]),
           NEW m \in Mergers, MergerInv(m), NEW p, p # m, Moves(p),
           merger'[m] = merger[m], merged'[m] = merged[m],
           merger[m].at \in Holding => UNCHANGED <<rows, clock>>
    PROVE  MergerInv(m)'
<1> USE DEF Moves
<1>1. Authors(m)'
  BY DEF MergerInv, Authors
<1>2. /\ clock \in Nat /\ clock' \in Nat /\ merger[m].token.revision \in Nat
      /\ merger[m].fence \in Nat /\ merger[m].snapClock \in Nat
      /\ merger[m].staged \subseteq Ids /\ merger[m].matched \subseteq Ids
  BY FieldTypes DEF TypeOK
<1>3. ASSUME NEW i \in Ids
      PROVE  /\ Follows(merger[m].base[i], rows[i]) => Follows(merger[m].base[i], rows'[i])
             /\ Follows(merger[m].seen[i], rows[i]) => Follows(merger[m].seen[i], rows'[i])
             /\ Live(rows[i]) => Live(rows'[i])
  BY FollowOn
<1>4. AtTheFork(m)'
  BY <1>2, <1>3 DEF MergerInv, AtTheFork
<1>5. Fenced(m)'
  BY <1>2 DEF MergerInv, Fenced
<1>6. Seen(m)'
  BY <1>2, <1>3 DEF MergerInv, Seen, AtTheFork, Forked
<1>7. Snapshot(m)'
  BY <1>2 DEF MergerInv, Snapshot
<1>8. Checked(m)'
  BY SameGuard DEF MergerInv, Checked, Holding
<1> QED
  BY <1>1, <1>4, <1>5, <1>6, <1>7, <1>8 DEF MergerInv

-----------------------------------------------------------------------------
(* The invariant, one part at a time. *)

\* What the invariant says of the target.
LEMMA TargetFacts ==
    ASSUME Inv
    PROVE  /\ TypeOK /\ Tracked /\ clock \in Nat /\ faults \in 0..MaxFaults
           /\ faults \in Nat /\ rows \in [Ids -> Row] /\ \A i \in Ids : Shaped(rows[i])
BY BoundsAssumption DEF Inv, LockInv, TypeOK

\* What a merger's invariant says, field by field.
LEMMA Facts ==
    ASSUME Inv, NEW m \in Mergers
    PROVE  /\ MergerInv(m) /\ TypeOK /\ Tracked /\ clock \in Nat /\ faults \in 0..MaxFaults
           /\ faults \in Nat /\ rows \in [Ids -> Row] /\ \A i \in Ids : Shaped(rows[i])
           /\ merged[m] \in Nat
BY BoundsAssumption DEF Inv, LockInv, TypeOK

\* The lock is kept, given back or taken when it is free.
LEMMA LockMoves ==
    ASSUME TypeOK, LockInv, NEW m \in Mergers, UNCHANGED <<tracking, writer>>,
           \A k \in Mergers \ {m} : merger'[k] = merger[k],
           \/ graphLock' = graphLock /\ (merger'[m].at \in Holding => merger[m].at \in Holding)
           \/ graphLock' = Released(m) /\ merger'[m].at \notin Holding
           \/ graphLock = Nobody /\ graphLock' = m
    PROVE  LockInv' /\ graphLock' \in Writers \cup Mergers \cup {Nobody}
<1>1. graphLock' \in Writers \cup Mergers \cup {Nobody}
  BY DEF TypeOK, Released
<1>2. Tracked' /\ \A w \in Writers : writer'[w] = "writing" => graphLock' = w
  BY AuthorsAssumption DEF LockInv, Tracked, Released
<1>3. ASSUME NEW k \in Mergers, merger'[k].at \in Holding PROVE graphLock' = k
  BY <1>3, AuthorsAssumption DEF LockInv, Released
<1> QED
  BY <1>1, <1>2, <1>3 DEF LockInv

\* A step of a merger leaves the others their invariant.
LEMMA MergerMoves ==
    ASSUME Inv, NEW m \in Mergers, Moves(m), TypeOK', LockInv', CountInv', MergerInv(m)',
           \A k \in Mergers \ {m} : merger'[k] = merger[k] /\ merged'[k] = merged[k],
           UNCHANGED <<rows, clock>> \/ \A k \in Mergers \ {m} : merger[k].at \notin Holding
    PROVE  Inv'
<1>1. ASSUME NEW k \in Mergers PROVE MergerInv(k)'
  <2>1. CASE k = m
    BY <2>1
  <2>2. CASE k # m
    BY <2>2, OthersStand DEF Inv
  <2> QED
    BY <2>1, <2>2
<1> QED
  BY <1>1 DEF Inv, Moves

\* A step that leaves the target alone.
LEMMA Quietly ==
    ASSUME Inv, NEW m \in Mergers, NEW s \in Merger, merger' = [merger EXCEPT ![m] = s],
           UNCHANGED <<tracking, rows, clock, writer, merged, writes>>,
           faults' \in 0..MaxFaults, faults <= faults',
           \/ graphLock' = graphLock /\ (s.at \in Holding => merger[m].at \in Holding)
           \/ graphLock' = Released(m) /\ s.at \notin Holding
           \/ graphLock = Nobody /\ graphLock' = m,
           s.at # "done" => merger[m].at # "done",
           s.at = "planned" => s.attempt < MaxAttempts,
           MergerInv(m)'
    PROVE  Inv'
<1>1. merger'[m] = s /\ \A k \in Mergers \ {m} : merger'[k] = merger[k]
  BY DEF Inv, TypeOK
<1>2. LockInv' /\ graphLock' \in Writers \cup Mergers \cup {Nobody}
  BY <1>1, LockMoves DEF Inv
<1>3. TypeOK'
  BY <1>2 DEF Inv, TypeOK
<1>4. CountInv'
  <2>1. ASSUME NEW k \in Mergers PROVE merged[k] \in Nat /\ faults \in Nat /\ faults' \in Nat
    BY BoundsAssumption DEF Inv, TypeOK
  <2>2. ASSUME NEW k \in Mergers
        PROVE merged'[k] <= faults' + (IF merger'[k].at = "done" THEN 1 ELSE 0)
    BY <1>1, <2>1 DEF Inv, CountInv
  <2> QED
    BY <1>1, <2>2 DEF Inv, CountInv
<1>5. Moves(m)
  BY QuietMoves DEF Inv
<1> QED
  BY <1>1, <1>2, <1>3, <1>4, <1>5, MergerMoves

\* Such a step outside the commit.
LEMMA Plainly ==
    ASSUME Inv, NEW m \in Mergers, NEW s \in Merger, merger' = [merger EXCEPT ![m] = s],
           UNCHANGED <<tracking, rows, clock, graphLock, writer, merged, writes, faults>>,
           s.at \notin Holding, merger[m].at # "done",
           s.at = "planned" => s.attempt < MaxAttempts,
           MergerInv(m)'
    PROVE  Inv'
<1>1. faults' \in 0..MaxFaults /\ faults <= faults'
  BY Facts
<1> QED
  BY <1>1, Quietly

\* An ended merge has nothing more to keep.
LEMMA EndedInv ==
    ASSUME NEW m, merger'[m].at = "done"
    PROVE  MergerInv(m)'
BY DEF MergerInv, Authors, AtTheFork, Fenced, Seen, Snapshot, Checked, Forked, Resolved, Snapped

LEMMA EndQuietly ==
    ASSUME Inv, NEW m \in Mergers, merger' = [merger EXCEPT ![m] = End(m)],
           UNCHANGED <<tracking, rows, clock, writer, merged, writes>>,
           faults' \in 0..MaxFaults, faults <= faults', graphLock' \in {graphLock, Released(m)}
    PROVE  Inv'
<1>1. End(m) \in Merger /\ End(m).at = "done"
  BY EndState DEF Inv
<1>2. merger'[m] = End(m)
  BY DEF Inv, TypeOK
<1>3. MergerInv(m)'
  BY <1>1, <1>2, EndedInv
<1> QED
  BY <1>1, <1>3, Quietly DEF Holding

LEMMA EndPlainly ==
    ASSUME Inv, NEW m \in Mergers, merger' = [merger EXCEPT ![m] = End(m)],
           UNCHANGED <<tracking, rows, clock, writer, merged, writes, faults>>,
           graphLock' \in {graphLock, Released(m)}
    PROVE  Inv'
<1>1. faults' \in 0..MaxFaults /\ faults <= faults'
  BY Facts
<1> QED
  BY <1>1, EndQuietly

LEMMA StampInv ==
    ASSUME Inv, NEW m \in Mergers, Stamp(m)
    PROVE  Inv'
<1>1. PICK kind \in Kinds :
          merger' = [merger EXCEPT ![m] =
              [NoMerge EXCEPT !.at = "stamped", !.kind = kind, !.token = LiveToken]]
  BY DEF Stamp, Go
<1> DEFINE s == [NoMerge EXCEPT !.at = "stamped", !.kind = kind, !.token = LiveToken]
<1>2. s \in Merger /\ s.at = "stamped" /\ s.kind = kind /\ s.token = LiveToken
  BY NoMergeType, TokenTypes DEF Inv, Merger
<1> HIDE DEF s
<1>3. merger[m].at = "idle" /\ UNCHANGED <<tracking, rows, clock, graphLock, writer, merged, writes, faults>>
  BY DEF Stamp, Unmoved
<1>4. merger'[m] = s
  BY <1>1 DEF Inv, TypeOK, s
<1>5. s.token.revision = clock /\ merged[m] = 0
  BY <1>2, <1>3, Facts, TokenTypes DEF MergerInv, Authors
<1>6. MergerInv(m)'
  <2>1. Authors(m)' /\ Fenced(m)' /\ AtTheFork(m)'
    BY <1>2, <1>3, <1>4, <1>5, Facts DEF MergerInv, Authors, AtTheFork, Fenced, Forked, Resolved
  <2> QED
    BY <1>2, <1>4, <2>1 DEF MergerInv, Seen, Snapshot, Checked, Resolved, Snapped
<1> QED
  <2>1. merger' = [merger EXCEPT ![m] = s]
    BY <1>1 DEF s
  <2> QED
    BY <1>2, <1>3, <1>6, <2>1, Plainly DEF Holding

LEMMA CloneInv ==
    ASSUME Inv, NEW m \in Mergers, Clone(m)
    PROVE  Inv'
<1>1. PICK edits \in SUBSET BranchIds :
          merger' = [merger EXCEPT ![m] = [merger[m] EXCEPT !.at = "branched", !.base = rows, !.edits = edits]]
  BY DEF Clone, Go
<1> DEFINE s == [merger[m] EXCEPT !.at = "branched", !.base = rows, !.edits = edits]
<1>2. /\ s \in Merger /\ s.at = "branched" /\ s.base = rows /\ s.kind = merger[m].kind
      /\ s.token = merger[m].token
  <2>1. merger[m] \in Merger /\ rows \in [Ids -> Row]
    BY DEF Inv, TypeOK
  <2>2. s \in Merger
    BY <2>1, Zenon DEF Merger
  <2> QED
    BY <2>1, <2>2 DEF Merger
<1> HIDE DEF s
<1>3. merger[m].at = "stamped" /\ UNCHANGED <<tracking, rows, clock, graphLock, writer, merged, writes, faults>>
  BY DEF Clone, Unmoved
<1>4. merger'[m] = s
  BY <1>1 DEF Inv, TypeOK, s
<1>5. MergerInv(m)'
  <2>1. \A i \in Ids : Follows(rows[i], rows[i])
    BY DEF Inv, TypeOK, Row, Follows
  <2>2. Authors(m)' /\ Fenced(m)' /\ AtTheFork(m)'
    BY <1>2, <1>3, <1>4, <2>1, Facts DEF MergerInv, Authors, AtTheFork, Fenced, Forked, Resolved
  <2> QED
    BY <1>2, <1>4, <2>2 DEF MergerInv, Seen, Snapshot, Checked, Resolved, Snapped
<1> QED
  <2>1. merger' = [merger EXCEPT ![m] = s]
    BY <1>1 DEF s
  <2> QED
    BY <1>2, <1>3, <1>5, <2>1, Plainly DEF Holding

LEMMA CaptureFenceInv ==
    ASSUME Inv, NEW m \in Mergers, CaptureFence(m)
    PROVE  Inv'
<1> DEFINE s == [merger[m] EXCEPT !.at = "fenced", !.fence = clock]
<1>1. /\ merger[m].at = "branched" /\ merger' = [merger EXCEPT ![m] = s]
      /\ UNCHANGED <<tracking, rows, clock, graphLock, writer, merged, writes, faults>>
  BY DEF CaptureFence, Go, Unmoved
<1>2. /\ s \in Merger /\ s.at = "fenced" /\ s.base = merger[m].base /\ s.kind = merger[m].kind
      /\ s.token = merger[m].token /\ s.fence = clock
  <2>1. merger[m] \in Merger /\ clock \in Nat
    BY DEF Inv, TypeOK
  <2>2. s \in Merger
    BY <2>1, Zenon DEF Merger
  <2> QED
    BY <2>1, <2>2 DEF Merger
<1> HIDE DEF s
<1>3. merger'[m] = s
  BY <1>1 DEF Inv, TypeOK
<1>4. MergerInv(m)'
  <2>1. Authors(m)' /\ Fenced(m)' /\ AtTheFork(m)'
    BY <1>1, <1>2, <1>3, Facts DEF MergerInv, Authors, AtTheFork, Fenced, Forked, Resolved
  <2> QED
    BY <1>2, <1>3, <2>1 DEF MergerInv, Seen, Snapshot, Checked, Resolved, Snapped
<1> QED
  BY <1>1, <1>2, <1>4, Plainly DEF Holding

LEMMA ValidateInv ==
    ASSUME Inv, NEW m \in Mergers, ValidateBaseVersions(m)
    PROVE  Inv'
<1> DEFINE s == [merger[m] EXCEPT !.at = "staging", !.staged = {}, !.seen = Nothing]
<1>1. /\ merger[m].at = IF merger[m].kind = "plan" THEN "fenced" ELSE "branched"
      /\ UNCHANGED <<tracking, rows, clock, graphLock, writer, merged, writes, faults>>
      /\ merger' = [merger EXCEPT ![m] = IF BaseHolds(m) THEN s ELSE End(m)]
  BY DEF ValidateBaseVersions, Go, Unmoved
<1>2. CASE ~BaseHolds(m)
  BY <1>1, <1>2, EndPlainly
<1>3. CASE BaseHolds(m)
  <2>1. /\ s \in Merger /\ s.at = "staging" /\ s.base = merger[m].base /\ s.kind = merger[m].kind
        /\ s.token = merger[m].token /\ s.fence = merger[m].fence /\ s.staged = {}
    <3>1. merger[m] \in Merger /\ Nothing \in [Ids -> Row]
      BY AbsentTypes DEF Inv, TypeOK
    <3>2. s \in Merger
      BY <3>1, Zenon DEF Merger
    <3> QED
      BY <3>1, <3>2 DEF Merger
  <2> HIDE DEF s
  <2>2. merger'[m] = s
    BY <1>1, <1>3 DEF Inv, TypeOK
  <2>3. merger[m].kind = "plan" => merger[m].token.revision = clock
    BY <1>3, Facts, TokenTypes DEF BaseHolds
  <2>4. merger[m].kind = "plan" => merger[m].fence = merger[m].token.revision /\ merged[m] = 0
    <3>1. merger[m].fence \in Nat /\ merger[m].token.revision \in Nat
      BY FieldTypes DEF Inv
    <3> QED
      BY <1>1, <2>3, <3>1, Facts DEF MergerInv, Fenced
  <2>5. MergerInv(m)'
    <3>1. Authors(m)' /\ AtTheFork(m)'
      BY <1>1, <2>1, <2>2, Facts DEF MergerInv, Authors, AtTheFork, Forked, Resolved
    <3>2. Fenced(m)' /\ Seen(m)'
      BY <1>1, <2>1, <2>2, <2>4 DEF Fenced, Seen, Resolved
    <3> QED
      BY <2>1, <2>2, <3>1, <3>2 DEF MergerInv, Snapshot, Checked, Snapped
  <2> QED
    BY <1>1, <1>3, <2>1, <2>5, Plainly DEF Holding
<1> QED
  BY <1>2, <1>3

LEMMA StageInv ==
    ASSUME Inv, NEW m \in Mergers, NEW i \in Ids, Stage(m, i)
    PROVE  Inv'
<1> DEFINE more == merger[m].staged \cup {i}
           seen == [merger[m].seen EXCEPT ![i] = rows[i]]
           s == [merger[m] EXCEPT !.staged = more, !.seen = seen]
<1>1. /\ merger[m].at = "staging" /\ merger' = [merger EXCEPT ![m] = s]
      /\ UNCHANGED <<tracking, rows, clock, graphLock, writer, merged, writes, faults>>
  BY DEF Stage, Go, Unmoved
<1>2. /\ s \in Merger /\ s.at = "staging" /\ s.base = merger[m].base /\ s.kind = merger[m].kind
      /\ s.token = merger[m].token /\ s.fence = merger[m].fence
      /\ s.staged = more /\ s.seen = seen
  <2>1. more \in SUBSET Ids /\ seen \in [Ids -> Row]
    BY FieldTypes DEF Inv, TypeOK
  <2>2. merger[m].at = "staging" /\ merger[m] \in Merger
    BY <1>1 DEF Inv, TypeOK
  <2> HIDE DEF more, seen
  <2>3. s \in Merger
    BY <2>1, <2>2, Zenon DEF Merger
  <2> QED
    BY <2>2, <2>3 DEF Merger
<1> HIDE DEF s
<1>3. merger'[m] = s
  BY <1>1 DEF Inv, TypeOK
<1>4. s.seen[i] = rows[i] /\ \A j \in Ids \ {i} : s.seen[j] = merger[m].seen[j]
  BY <1>2, FieldTypes DEF Inv
<1>5. MergerInv(m)'
  <2>1. Authors(m)' /\ AtTheFork(m)' /\ Fenced(m)'
    BY <1>1, <1>2, <1>3, Facts DEF MergerInv, Authors, AtTheFork, Fenced, Forked, Resolved
  <2>2. Follows(rows[i], rows[i]) /\ Follows(merger[m].base[i], rows[i]) /\ Shaped(rows[i])
    BY <1>1, Facts DEF MergerInv, AtTheFork, Forked, Follows, Row
  <2>3. Seen(m)'
    <3>1. ASSUME NEW j \in s.staged
          PROVE  /\ Follows(s.base[j], s.seen[j]) /\ Follows(s.seen[j], rows[j])
                 /\ Shaped(s.seen[j]) /\ (s.token.revision = clock => s.seen[j] = rows[j])
      <4>1. CASE j = i
        BY <1>2, <1>4, <2>2, <4>1
      <4>2. CASE j # i
        <5>1. j \in merger[m].staged /\ j \in Ids
          BY <1>2, <4>2, FieldTypes DEF Inv
        <5> QED
          BY <1>1, <1>2, <1>4, <4>2, <5>1, Facts DEF MergerInv, Seen
      <4> QED
        BY <4>1, <4>2
    <3> QED
      BY <1>1, <1>2, <1>3, <3>1 DEF Seen, Resolved
  <2> QED
    BY <1>2, <1>3, <2>1, <2>3 DEF MergerInv, Snapshot, Checked, Snapped
<1> QED
  BY <1>1, <1>2, <1>5, Plainly DEF Holding

LEMMA ResolveInv ==
    ASSUME Inv, NEW m \in Mergers, Resolve(m)
    PROVE  Inv'
<1> DEFINE found == IF merger[m].kind = "incremental" THEN Matching(rows) ELSE {}
           s == [merger[m] EXCEPT !.at = "planned", !.attempt = 0, !.matched = found]
<1>1. /\ merger[m].at = "staging" /\ merger[m].staged = Ids
      /\ UNCHANGED <<tracking, rows, clock, graphLock, writer, merged, writes, faults>>
  BY DEF Resolve, Unmoved
<1>4. merger' = [merger EXCEPT ![m] = End(m)] \/ merger' = [merger EXCEPT ![m] = s]
  BY DEF Resolve, Go
<1>2. CASE merger' = [merger EXCEPT ![m] = End(m)]
  BY <1>1, <1>2, EndPlainly
<1>3. CASE merger' = [merger EXCEPT ![m] = s]
  <2>1. found \in SUBSET Ids /\ \A i \in found : Live(rows[i])
    BY AbsentTypes, Facts DEF Matching
  <2> HIDE DEF found
  <2>2. /\ s \in Merger /\ s.at = "planned" /\ s.base = merger[m].base /\ s.kind = merger[m].kind
        /\ s.token = merger[m].token /\ s.fence = merger[m].fence /\ s.attempt = 0
        /\ s.staged = merger[m].staged /\ s.seen = merger[m].seen /\ s.matched = found
    <3>1. 0 \in 0..MaxAttempts /\ merger[m] \in Merger
      BY BoundsAssumption DEF Inv, TypeOK
    <3>2. s \in Merger
      BY <2>1, <3>1, Zenon DEF Merger
    <3> QED
      BY <3>1, <3>2 DEF Merger
  <2> HIDE DEF s
  <2>3. merger'[m] = s
    BY <1>3 DEF Inv, TypeOK
  <2>4. MergerInv(m)'
    <3>1. Authors(m)' /\ AtTheFork(m)'
      BY <1>1, <2>2, <2>3, Facts DEF MergerInv, Authors, AtTheFork, Forked, Resolved
    <3>2. Fenced(m)'
      <4>1. merger[m].kind = "plan" => merged[m] = 0 /\ merger[m].fence = merger[m].token.revision
        BY <1>1, Facts DEF MergerInv, Fenced
      <4> QED
        BY <1>1, <2>2, <2>3, <4>1 DEF Fenced, Resolved
    <3>3. Seen(m)'
      BY <1>1, <2>1, <2>2, <2>3, Facts DEF MergerInv, Seen, Resolved
    <3> QED
      BY <2>2, <2>3, <3>1, <3>2, <3>3 DEF MergerInv, Snapshot, Checked, Snapped
  <2>5. s.at \notin Holding /\ merger[m].at # "done" /\ s.attempt < MaxAttempts
    BY <1>1, <2>2, BoundsAssumption DEF Holding
  <2> QED
    BY <1>1, <1>3, <2>2, <2>4, <2>5, Plainly
<1> QED
  BY <1>2, <1>3, <1>4

LEMMA BeginInv ==
    ASSUME Inv, NEW m \in Mergers, Begin(m)
    PROVE  Inv'
<1> DEFINE s == [merger[m] EXCEPT !.at = "locking", !.attempt = @ + 1,
                                  !.snapRows = rows, !.snapClock = clock]
<1>1. /\ merger[m].at = "planned" /\ merger' = [merger EXCEPT ![m] = s]
      /\ UNCHANGED <<tracking, rows, clock, graphLock, writer, merged, writes, faults>>
  BY DEF Begin, Go, Unmoved
<1>2. /\ s \in Merger /\ s.at = "locking" /\ s.base = merger[m].base /\ s.kind = merger[m].kind
      /\ s.token = merger[m].token /\ s.fence = merger[m].fence
      /\ s.staged = merger[m].staged /\ s.seen = merger[m].seen /\ s.matched = merger[m].matched
      /\ s.snapRows = rows /\ s.snapClock = clock
  <2>1. merger[m].attempt + 1 \in 0..MaxAttempts
    BY <1>1, FieldTypes, BoundsAssumption DEF Inv, CountInv
  <2>2. merger[m] \in Merger /\ rows \in [Ids -> Row] /\ clock \in Nat
    BY DEF Inv, TypeOK
  <2>3. s \in Merger
    BY <2>1, <2>2, Zenon DEF Merger
  <2> QED
    BY <2>2, <2>3 DEF Merger
<1> HIDE DEF s
<1>3. merger'[m] = s
  BY <1>1 DEF Inv, TypeOK
<1>4. MergerInv(m)'
  <2>1. Authors(m)' /\ AtTheFork(m)'
    BY <1>1, <1>2, <1>3, Facts DEF MergerInv, Authors, AtTheFork, Forked, Resolved
  <2>2. Fenced(m)'
    BY <1>1, <1>2, <1>3, Facts DEF MergerInv, Fenced, Resolved
  <2>3. Seen(m)'
    BY <1>1, <1>2, <1>3, Facts DEF MergerInv, Seen, Resolved
  <2>4. Snapshot(m)'
    <3>1. clock = merger[m].token.revision => \A i \in Ids : merger[m].seen[i] = merger[m].base[i]
      BY <1>1, Facts DEF MergerInv, Seen, AtTheFork, Forked, Resolved
    <3> QED
      BY <1>1, <1>2, <1>3, <3>1, Facts DEF Snapshot
  <2> QED
    BY <1>2, <1>3, <2>1, <2>2, <2>3, <2>4 DEF MergerInv, Checked
<1> QED
  BY <1>1, <1>2, <1>4, Plainly DEF Holding

\* Waiting for the lock and checking move the merge on, and nothing else.
LEMMA OnwardInv ==
    ASSUME Inv, NEW m \in Mergers, NEW place \in Holding, merger[m].at \in Snapped,
           merger' = [merger EXCEPT ![m] = [merger[m] EXCEPT !.at = place]],
           UNCHANGED <<tracking, rows, clock, writer, merged, writes, faults>>,
           \/ graphLock' = graphLock /\ merger[m].at \in Holding
           \/ graphLock = Nobody /\ graphLock' = m,
           place = "applying" => Guarded(m)
    PROVE  Inv'
<1> DEFINE s == [merger[m] EXCEPT !.at = place]
<1>1. /\ s \in Merger /\ s.at = place /\ s.base = merger[m].base /\ s.kind = merger[m].kind
      /\ s.token = merger[m].token /\ s.fence = merger[m].fence /\ s.edits = merger[m].edits
      /\ s.staged = merger[m].staged /\ s.seen = merger[m].seen /\ s.matched = merger[m].matched
      /\ s.snapRows = merger[m].snapRows /\ s.snapClock = merger[m].snapClock
  BY FieldTypes DEF Inv, Merger, Holding
<1> HIDE DEF s
<1>2. merger'[m] = s
  BY DEF Inv, TypeOK, s
<1>3. MergerInv(m)'
  <2>1. Authors(m)' /\ AtTheFork(m)'
    BY <1>1, <1>2, Facts DEF MergerInv, Authors, AtTheFork, Forked, Resolved, Snapped, Holding
  <2>2. Fenced(m)'
    BY <1>1, <1>2, Facts DEF MergerInv, Fenced, Resolved, Snapped, Holding
  <2>3. Seen(m)'
    BY <1>1, <1>2, Facts DEF MergerInv, Seen, Resolved, Snapped, Holding
  <2>4. Snapshot(m)'
    BY <1>1, <1>2, Facts DEF MergerInv, Snapshot, Snapped, Holding
  <2>5. Checked(m)'
    BY <1>1, <1>2, SameGuard DEF Checked
  <2> QED
    BY <2>1, <2>2, <2>3, <2>4, <2>5 DEF MergerInv
<1>4. faults' \in 0..MaxFaults /\ faults <= faults'
  BY Facts
<1>5. merger' = [merger EXCEPT ![m] = s]
  BY DEF s
<1> QED
  BY <1>1, <1>3, <1>4, <1>5, Quietly DEF Snapped, Holding

LEMMA AcquireLockInv ==
    ASSUME Inv, NEW m \in Mergers, AcquireLock(m)
    PROVE  Inv'
<1>1. merger[m].at \in Snapped /\ "guarding" \in Holding
  BY DEF AcquireLock, Snapped, Holding
<1>2. /\ graphLock = Nobody /\ graphLock' = m
      /\ merger' = [merger EXCEPT ![m] = [merger[m] EXCEPT !.at = "guarding"]]
      /\ UNCHANGED <<tracking, rows, clock, writer, merged, writes, faults>>
  BY Facts DEF AcquireLock, Go
<1> QED
  BY <1>1, <1>2, OnwardInv

LEMMA GuardInv ==
    ASSUME Inv, NEW m \in Mergers, Guard(m)
    PROVE  Inv'
<1>1. merger[m].at = "guarding" /\ UNCHANGED <<tracking, rows, clock, writer, merged, writes, faults>>
  BY DEF Guard
<1>2. CASE Guarded(m)
  <2>1. /\ merger' = [merger EXCEPT ![m] = [merger[m] EXCEPT !.at = "applying"]]
        /\ graphLock' = graphLock
    BY <1>2 DEF Guard, Go
  <2>2. merger[m].at \in Snapped /\ merger[m].at \in Holding /\ "applying" \in Holding
    BY <1>1 DEF Snapped, Holding
  <2> QED
    BY <1>1, <1>2, <2>1, <2>2, OnwardInv
<1>3. CASE ~Guarded(m)
  <2>1. merger' = [merger EXCEPT ![m] = End(m)] /\ graphLock' = Released(m)
    BY <1>3 DEF Guard, Go
  <2> QED
    BY <1>1, <2>1, EndPlainly
<1> QED
  BY <1>2, <1>3

\* A refused transaction: from the plan again, or to the end.
LEMMA RetryInv ==
    ASSUME Inv, NEW m \in Mergers, Retry(m), merger[m].at \in Snapped,
           UNCHANGED <<tracking, rows, clock, writer, merged, writes>>,
           faults' \in 0..MaxFaults, faults <= faults'
    PROVE  Inv'
<1> DEFINE s == [merger[m] EXCEPT !.at = "planned", !.snapRows = Nothing, !.snapClock = 0]
<1>1. /\ graphLock' = Released(m)
      /\ merger' = [merger EXCEPT ![m] = IF merger[m].attempt < MaxAttempts THEN s ELSE End(m)]
  BY DEF Retry, Go, Attempts
<1>2. CASE ~(merger[m].attempt < MaxAttempts)
  BY <1>1, <1>2, EndQuietly
<1>3. CASE merger[m].attempt < MaxAttempts
  <2>1. /\ s \in Merger /\ s.at = "planned" /\ s.base = merger[m].base /\ s.kind = merger[m].kind
        /\ s.token = merger[m].token /\ s.fence = merger[m].fence /\ s.attempt = merger[m].attempt
        /\ s.staged = merger[m].staged /\ s.seen = merger[m].seen /\ s.matched = merger[m].matched
    <3>1. merger[m] \in Merger /\ Nothing \in [Ids -> Row] /\ 0 \in Nat
      BY AbsentTypes DEF Inv, TypeOK
    <3>2. s \in Merger
      BY <3>1, Zenon DEF Merger
    <3> QED
      BY <3>1, <3>2 DEF Merger
  <2> HIDE DEF s
  <2>2. merger'[m] = s
    BY <1>1, <1>3 DEF Inv, TypeOK
  <2>3. MergerInv(m)'
    <3>1. Authors(m)' /\ AtTheFork(m)'
      BY <2>1, <2>2, Facts DEF MergerInv, Authors, AtTheFork, Forked, Resolved, Snapped
    <3>2. Fenced(m)'
      BY <2>1, <2>2, Facts DEF MergerInv, Fenced, Resolved, Snapped
    <3>3. Seen(m)'
      BY <2>1, <2>2, Facts DEF MergerInv, Seen, Resolved, Snapped
    <3> QED
      BY <2>1, <2>2, <3>1, <3>2, <3>3 DEF MergerInv, Snapshot, Checked, Snapped
  <2>4. merger[m].at # "done" /\ s.at \notin Holding /\ s.attempt < MaxAttempts
    BY <1>3, <2>1 DEF Snapped, Holding
  <2>5. merger' = [merger EXCEPT ![m] = s]
    BY <1>1, <1>3
  <2> QED
    BY <1>1, <2>1, <2>3, <2>4, <2>5, Quietly
<1> QED
  BY <1>2, <1>3

LEMMA RefusedInv ==
    ASSUME Inv, NEW m \in Mergers, Conflict(m) \/ EngineAbort(m) \/ Duplicate(m)
    PROVE  Inv'
<1>1. CASE Conflict(m)
  <2>1. /\ Retry(m) /\ merger[m].at \in Snapped
        /\ UNCHANGED <<tracking, rows, clock, writer, merged, writes, faults>>
    BY <1>1 DEF Conflict, Snapped
  <2> QED
    BY <2>1, Facts, RetryInv
<1>2. CASE EngineAbort(m)
  <2>1. /\ Retry(m) /\ merger[m].at \in Snapped /\ faults' = faults + 1 /\ faults < MaxFaults
        /\ UNCHANGED <<tracking, rows, clock, writer, merged, writes>>
    BY <1>2 DEF EngineAbort, Snapped
  <2>2. faults' \in 0..MaxFaults /\ faults <= faults'
    BY <2>1, Facts, BoundsAssumption
  <2> QED
    BY <2>1, <2>2, RetryInv
<1>3. CASE Duplicate(m)
  <2>1. /\ merger' = [merger EXCEPT ![m] = End(m)] /\ graphLock' = Released(m)
        /\ UNCHANGED <<tracking, rows, clock, writer, merged, writes, faults>>
    BY <1>3 DEF Duplicate, Go
  <2> QED
    BY <2>1, EndPlainly
<1> QED
  BY <1>1, <1>2, <1>3

-----------------------------------------------------------------------------
(* Commits. *)

\* What the target is when a merge commits: for a plan of the whole graph the
\* fork, and for an incremental one the rows it will overwrite as they were seen.
LEMMA CommitSees ==
    ASSUME Inv, NEW m \in Mergers, Commit(m)
    PROVE  /\ merger[m].kind # "incremental" =>
                 /\ \A i \in Ids : merger[m].seen[i] = merger[m].base[i]
                 /\ Advances(m) => clock = merger[m].token.revision /\ merger[m].base = rows
           /\ merger[m].kind = "incremental" =>
                 /\ BaseResolutionStable(m)
                 /\ \A i \in PlanWrites(m) \cap Ids :
                       merger[m].seen[i].version # 0 => rows[i] = merger[m].seen[i]
           /\ Serializable /\ Advances(m) => merger[m].snapRows = rows
<1>1. /\ merger[m].at = "applying" /\ ~Conflicts(m) /\ Guarded(m) /\ Tracked
      /\ merger[m].at \in Resolved /\ merger[m].at \in Forked /\ merger[m].at \in Snapped
  BY Facts DEF Commit, MergerInv, Checked, Resolved, Forked, Snapped
<1>2. /\ \A i \in Ids : /\ Follows(merger[m].seen[i], rows[i])
                        /\ merger[m].token.revision = clock => merger[m].seen[i] = rows[i]
      /\ merger[m].token.revision = clock => merger[m].base = rows
      /\ merger[m].kind = "plan" => merger[m].fence = merger[m].token.revision
  BY <1>1, Facts DEF MergerInv, Seen, AtTheFork, Fenced
<1>3. /\ merger[m].snapClock = clock => merger[m].snapRows = rows
      /\ merger[m].snapClock = merger[m].token.revision =>
            \A i \in Ids : merger[m].seen[i] = merger[m].base[i]
  BY <1>1, Facts DEF MergerInv, Snapshot
<1>4. Serializable /\ Advances(m) => clock = merger[m].snapClock
  BY <1>1 DEF Conflicts
<1>5. ASSUME merger[m].kind # "incremental"
      PROVE  /\ \A i \in Ids : merger[m].seen[i] = merger[m].base[i]
             /\ Advances(m) => clock = merger[m].token.revision /\ merger[m].base = rows
  <2>1. ViewClock(m) = merger[m].token.revision
    BY <1>1, <1>2, <1>5 DEF Guarded, TargetUnchanged
  <2>2. CASE Serializable
    BY <1>2, <1>3, <1>4, <2>1, <2>2 DEF ViewClock
  <2>3. CASE ~Serializable
    BY <1>2, <2>1, <2>3 DEF ViewClock
  <2> QED
    BY <2>2, <2>3
<1>6. ASSUME merger[m].kind = "incremental", NEW i \in PlanWrites(m) \cap Ids,
             merger[m].seen[i].version # 0
      PROVE  rows[i] = merger[m].seen[i]
  <2>1. View(m)[i].version = merger[m].seen[i].version
    BY <1>1, <1>6 DEF Guarded, InheritedTargetUnchanged
  <2>2. View(m)[i] = rows[i]
    BY <1>1, <1>6 DEF View, Conflicts
  <2> QED
    BY <1>2, <1>6, <2>1, <2>2 DEF Follows
<1> QED
  BY <1>1, <1>3, <1>4, <1>5, <1>6 DEF Guarded

\* What an incremental plan writes beside the branch's edits.
LEMMA Rewritten ==
    ASSUME TypeOK, NEW m \in Mergers, merger[m].kind = "incremental", NEW i \in PlanWrites(m)
    PROVE  /\ i \in Ids
           /\ i \notin merger[m].edits =>
                 i \in merger[m].matched /\ \E a \in merger[m].edits : ~Live(merger[m].base[a])
           /\ i \in Additions(m) /\ ~Live(merger[m].seen[i]) => merger[m].matched \subseteq merger[m].edits
<1> DEFINE new == {j \in Additions(m) : ~Live(merger[m].seen[j])}
           twins == merger[m].matched \ merger[m].edits
<1>1. merger[m].edits \subseteq Ids /\ merger[m].matched \subseteq Ids
  BY FieldTypes, IdsAssumption
<1>2. PlanWrites(m) = IF new = {} \/ twins = {} THEN merger[m].edits
                      ELSE (merger[m].edits \ new) \cup {CHOOSE j \in twins : TRUE}
  BY DEF PlanWrites, IncrementalWrites
<1>3. twins # {} => (CHOOSE j \in twins : TRUE) \in twins
  <2> HIDE DEF twins
  <2> QED
    BY Chosen
<1>4. \A j \in new : j \in merger[m].edits /\ ~Live(merger[m].base[j])
  BY DEF Additions
<1>5. CASE new = {} \/ twins = {}
  <2>1. i \in merger[m].edits
    BY <1>2, <1>5
  <2>2. i \in Additions(m) /\ ~Live(merger[m].seen[i]) => twins = {}
    BY <1>5
  <2> QED
    BY <1>1, <2>1, <2>2
<1>6. CASE new # {} /\ twins # {}
  <2>1. i \in merger[m].edits \ new \/ i \in twins
    BY <1>2, <1>3, <1>6
  <2>2. \E a \in merger[m].edits : ~Live(merger[m].base[a])
    BY <1>4, <1>6
  <2>3. ~(i \in Additions(m) /\ ~Live(merger[m].seen[i]))
    BY <2>1 DEF Additions
  <2> QED
    BY <1>1, <2>1, <2>2, <2>3
<1> QED
  BY <1>5, <1>6

\* A committed merge gives a row the branch's content or leaves it its own.
LEMMA CommitWrites ==
    ASSUME Inv, NEW m \in Mergers, Commit(m), NEW i \in PlanWrites(m)
    PROVE  /\ i \in Ids /\ PlannedValue(m, i) \in Values \ {None}
           /\ PlannedValue(m, i) \in {m, rows[i].value}
           /\ merger[m].kind # "incremental" => PlannedValue(m, i) = m /\ i \in merger[m].edits
<1>1. merger[m].at \in Resolved /\ merger[m].staged = Ids
  BY Facts DEF Commit, Resolved, MergerInv, Seen
<1>2. m \in Values \ {None}
  BY AuthorsAssumption DEF Values
<1>3. CASE merger[m].kind # "incremental"
  <2>1. i \in Ids /\ PlannedValue(m, i) = BranchValue(m, i) /\ BranchValue(m, i) # merger[m].seen[i].value
    BY <1>3 DEF PlanWrites, PlannedValue
  <2>2. merger[m].seen[i] = merger[m].base[i]
    BY <1>3, <2>1, CommitSees
  <2> QED
    BY <1>2, <1>3, <2>1, <2>2 DEF BranchValue
<1>4. CASE merger[m].kind = "incremental"
  <2>1. i \in Ids
    BY <1>4, Rewritten DEF Inv
  <2>2. CASE PlannedValue(m, i) = m
    BY <1>2, <1>4, <2>1, <2>2
  <2>3. CASE PlannedValue(m, i) # m
    <3>1. /\ PlannedValue(m, i) = merger[m].seen[i].value
          /\ merger[m].seen[i].value # merger[m].base[i].value
      BY <1>4, <2>3 DEF PlannedValue
    <3>2. /\ Follows(merger[m].base[i], merger[m].seen[i]) /\ Shaped(merger[m].seen[i])
          /\ merger[m].base[i] \in Row /\ merger[m].seen[i] \in Row
      BY <1>1, <2>1, Facts, FieldTypes DEF MergerInv, Seen
    <3>3. merger[m].seen[i].version # 0
      <4>1. merger[m].base[i].version \in Nat
        BY <3>2 DEF Row
      <4> QED
        BY <3>1, <3>2, <4>1 DEF Follows
    <3>4. rows[i] = merger[m].seen[i]
      BY <1>4, <2>1, <3>3, CommitSees
    <3> QED
      BY <1>4, <2>1, <3>1, <3>2, <3>3, <3>4 DEF Shaped, Live, Row
  <2> QED
    BY <2>2, <2>3
<1> QED
  BY <1>3, <1>4

LEMMA CommitMoves ==
    ASSUME Inv, NEW m \in Mergers, Commit(m)
    PROVE  Moves(m)
<1>1. /\ rows' = Merge(m) /\ clock' = (IF Advances(m) THEN clock + 1 ELSE clock) /\ tracking' = tracking
  BY DEF Commit
<1>2. ASSUME NEW i \in Ids
      PROVE  /\ rows'[i] \in Row /\ Follows(rows[i], rows'[i]) /\ Shaped(rows'[i])
             /\ rows'[i].value \in {rows[i].value, m}
  <2>1. rows[i] \in Row /\ Shaped(rows[i])
    BY Facts
  <2>2. CASE i \in PlanWrites(m)
    <3> DEFINE shared == rows[i].shared \/ i \in Additions(m)
               value == PlannedValue(m, i)
    <3>1. rows'[i] = Written(rows[i], value, shared)
      BY <1>1, <2>2 DEF Merge
    <3>2. shared \in BOOLEAN /\ value \in Values \ {None} /\ value \in {m, rows[i].value}
      BY <2>1, <2>2, CommitWrites DEF Row
    <3> HIDE DEF shared, value
    <3> QED
      BY <2>1, <3>1, <3>2, WrittenRow
  <2>3. CASE i \notin PlanWrites(m)
    <3>1. rows'[i] = rows[i]
      BY <1>1, <2>3 DEF Merge
    <3> QED
      BY <2>1, <3>1, FollowsTwice DEF Follows, Row
  <2> QED
    BY <2>2, <2>3
<1>3. rows' \in [Ids -> Row]
  BY <1>1, <1>2 DEF Merge
<1>4. ~Advances(m) => rows' = rows
  <2>1. ~Advances(m) => PlanWrites(m) = {}
    BY DEF Advances
  <2> QED
    BY <1>1, <2>1, Facts DEF Merge
<1>5. clock' \in Nat /\ clock <= clock' /\ (clock' = clock => rows' = rows)
  BY <1>1, <1>4, Facts
<1> QED
  BY <1>1, <1>2, <1>3, <1>5 DEF Moves

\* The merger that committed: done, or back at its plan or its branch.
LEMMA CommittedState ==
    ASSUME Inv, NEW m \in Mergers, Commit(m), NEW s \in Merger, merger'[m] = s,
           s.base = merger[m].base, s.kind = merger[m].kind, s.token = merger[m].token,
           s.fence = merger[m].fence, s.staged = merger[m].staged, s.seen = merger[m].seen,
           s.matched = merger[m].matched,
           s.at = IF merger[m].kind = "plan" THEN "planned" ELSE "branched"
    PROVE  MergerInv(m)'
<1>1. Moves(m)
  BY CommitMoves
<1>2. /\ merger[m].at = "applying" /\ merger[m].at \in Resolved /\ merger[m].at \in Forked
      /\ merger[m].at \notin {"idle", "stamped"}
      /\ merger[m].kind = "plan" => clock' = clock + 1
  BY DEF Commit, Advances, Resolved, Forked
<1>3. /\ clock \in Nat /\ clock' \in Nat /\ clock <= clock' /\ (clock' = clock => rows' = rows)
      /\ merger[m].token.revision \in Nat /\ merger[m].token.revision <= clock
  BY <1>1, <1>2, Facts, FieldTypes DEF Moves, MergerInv, AtTheFork
<1>4. ASSUME NEW i \in Ids
      PROVE  /\ Follows(merger[m].base[i], rows[i]) => Follows(merger[m].base[i], rows'[i])
             /\ Follows(merger[m].seen[i], rows[i]) => Follows(merger[m].seen[i], rows'[i])
             /\ Live(rows[i]) => Live(rows'[i])
  BY <1>1, Facts, FollowOn
<1>5. Authors(m)'
  BY <1>2, Facts DEF MergerInv, Authors
<1>6. AtTheFork(m)'
  BY <1>2, <1>3, <1>4, Facts DEF MergerInv, AtTheFork
<1>7. Fenced(m)'
  <2>1. CASE merger[m].kind = "plan"
    <3>1. merger[m].fence = merger[m].token.revision
      BY <1>2, <2>1, Facts DEF MergerInv, Fenced
    <3> QED
      BY <1>2, <1>3, <2>1, <3>1 DEF Fenced
  <2> QED
    BY <2>1 DEF Fenced
<1>8. Seen(m)'
  <2>1. CASE merger[m].kind = "plan"
    <3>1. merger[m].staged \subseteq Ids /\ merger[m].matched \subseteq Ids
      BY FieldTypes DEF Inv
    <3>2. Seen(m)
      BY Facts DEF MergerInv
    <3>3. \A i \in merger[m].matched : Live(rows'[i])
      BY <1>2, <1>4, <3>1, <3>2 DEF Seen
    <3>4. merger[m].token.revision # clock'
      BY <1>2, <1>3, <2>1
    <3>5. ASSUME NEW i \in merger[m].staged
          PROVE  /\ Follows(merger[m].base[i], merger[m].seen[i])
                 /\ Follows(merger[m].seen[i], rows'[i]) /\ Shaped(merger[m].seen[i])
      BY <1>2, <1>4, <3>1, <3>2 DEF Seen
    <3> QED
      BY <1>2, <2>1, <3>2, <3>3, <3>4, <3>5 DEF Seen
  <2>2. CASE merger[m].kind # "plan"
    BY <2>2 DEF Seen, Resolved
  <2> QED
    BY <2>1, <2>2
<1>9. Snapshot(m)' /\ Checked(m)'
  BY DEF Snapshot, Checked, Snapped
<1> QED
  BY <1>5, <1>6, <1>7, <1>8, <1>9 DEF MergerInv

LEMMA CommitInv ==
    ASSUME Inv, NEW m \in Mergers, Commit(m)
    PROVE  Inv'
<1> DEFINE s == [merger[m] EXCEPT !.at = IF merger[m].kind = "plan" THEN "planned" ELSE "branched",
                                  !.attempt = 0]
<1>1. /\ merger[m].at = "applying" /\ graphLock' = Released(m)
      /\ merged' = [merged EXCEPT ![m] = @ + 1]
      /\ UNCHANGED <<tracking, writer, writes>>
  BY DEF Commit
<1>2. \/ merger' = [merger EXCEPT ![m] = End(m)] /\ faults' = faults
      \/ merger' = [merger EXCEPT ![m] = s] /\ faults < MaxFaults /\ faults' = faults + 1
  BY DEF Commit, Go, Again
<1>3. /\ s \in Merger /\ s.base = merger[m].base /\ s.kind = merger[m].kind
      /\ s.token = merger[m].token /\ s.fence = merger[m].fence /\ s.staged = merger[m].staged
      /\ s.seen = merger[m].seen /\ s.matched = merger[m].matched /\ s.attempt = 0
      /\ s.at = IF merger[m].kind = "plan" THEN "planned" ELSE "branched"
  <2>1. 0 \in 0..MaxAttempts /\ merger[m] \in Merger /\ merger[m].kind \in Kinds
    BY FieldTypes, BoundsAssumption DEF Inv, TypeOK
  <2>2. s \in Merger
    BY <2>1, Zenon DEF Merger
  <2> QED
    BY <2>1, <2>2 DEF Merger
<1> HIDE DEF s
<1>4. \E r \in {s, End(m)} : merger' = [merger EXCEPT ![m] = r]
  BY <1>2
<1>5. /\ merger'[m] \in {s, End(m)} /\ merger' \in [Mergers -> Merger]
      /\ \A k \in Mergers \ {m} : merger'[k] = merger[k] /\ merged'[k] = merged[k]
      /\ merger'[m].at \notin Holding
  BY <1>1, <1>3, <1>4, EndState DEF Inv, TypeOK, Holding
<1>6. LockInv' /\ graphLock' \in Writers \cup Mergers \cup {Nobody}
  BY <1>1, <1>5, LockMoves DEF Inv
<1>7. Moves(m)
  BY CommitMoves
<1>8. merged[m] \in Nat /\ merged[m] <= faults /\ merged'[m] = merged[m] + 1
  BY <1>1, Facts DEF Inv, CountInv, TypeOK
<1>9. TypeOK'
  <2>1. merged' \in [Mergers -> 0..(MaxFaults + 1)]
    BY <1>1, <1>8, Facts, BoundsAssumption DEF TypeOK
  <2>2. faults' \in 0..MaxFaults
    BY <1>2, Facts, BoundsAssumption
  <2> QED
    BY <1>1, <1>5, <1>6, <1>7, <2>1, <2>2 DEF Inv, TypeOK, Moves
<1>10. CountInv'
  <2>1. merged'[m] <= faults' + (IF merger'[m].at = "done" THEN 1 ELSE 0)
    <3>1. CASE faults' = faults + 1
      BY <1>8, <3>1, Facts
    <3>2. CASE faults' = faults /\ merger' = [merger EXCEPT ![m] = End(m)]
      <4>1. merger'[m].at = "done"
        BY <3>2, EndState DEF Inv, TypeOK
      <4> QED
        BY <1>8, <3>2, <4>1, Facts
    <3> QED
      BY <1>2, <3>1, <3>2
  <2>2. merger'[m].at = "planned" => merger'[m].attempt < MaxAttempts
    BY <1>3, <1>5, EndState, BoundsAssumption DEF Inv
  <2>3. ASSUME NEW k \in Mergers \ {m}
        PROVE  /\ merged'[k] <= faults' + (IF merger'[k].at = "done" THEN 1 ELSE 0)
               /\ merger'[k].at = "planned" => merger'[k].attempt < MaxAttempts
    <3>1. faults' \in Nat /\ faults <= faults' /\ merged[k] \in Nat
      BY <1>2, Facts DEF TypeOK
    <3> QED
      BY <1>5, <3>1, Facts DEF Inv, CountInv
  <2> QED
    BY <2>1, <2>2, <2>3 DEF CountInv
<1>11. MergerInv(m)'
  <2>1. CASE merger'[m] = s
    BY <1>3, <2>1, CommittedState
  <2>2. CASE merger'[m] = End(m)
    BY <2>2, EndState, EndedInv DEF Inv
  <2> QED
    BY <1>5, <2>1, <2>2
<1>12. \A k \in Mergers \ {m} : merger[k].at \notin Holding
  BY <1>1 DEF Inv, LockInv, Holding
<1> QED
  BY <1>5, <1>6, <1>7, <1>9, <1>10, <1>11, <1>12, MergerMoves

-----------------------------------------------------------------------------
(* The other writers. *)

LEMMA BeginWriteInv ==
    ASSUME Inv, NEW w \in Writers, BeginWrite(w)
    PROVE  Inv'
<1>1. /\ graphLock = Nobody /\ graphLock' = w /\ writer' = [writer EXCEPT ![w] = "writing"]
      /\ writes < MaxWrites /\ writes' = writes + 1
      /\ UNCHANGED <<tracking, rows, clock, merger, merged, faults>>
  BY TargetFacts DEF BeginWrite
<1>2. TypeOK'
  BY <1>1, BoundsAssumption DEF Inv, TypeOK
<1>3. LockInv'
  <2>1. Tracked'
    BY <1>1, TargetFacts DEF Tracked
  <2>2. \A v \in Writers : writer[v] # "writing"
    BY <1>1, AuthorsAssumption DEF Inv, LockInv
  <2>3. \A v \in Writers : writer'[v] = "writing" => graphLock' = v
    BY <1>1, <2>2 DEF Inv, TypeOK
  <2>4. \A m \in Mergers : merger'[m].at \notin Holding
    BY <1>1, AuthorsAssumption DEF Inv, LockInv
  <2> QED
    BY <2>1, <2>3, <2>4 DEF LockInv
<1>4. CountInv' /\ \A i \in Ids : Shaped(rows'[i])
  BY <1>1 DEF Inv, CountInv
<1>5. Moves(w)
  BY <1>1, QuietMoves DEF Inv
<1>6. ASSUME NEW m \in Mergers PROVE MergerInv(m)'
  BY <1>1, <1>5, AuthorsAssumption, OthersStand DEF Inv
<1> QED
  BY <1>2, <1>3, <1>4, <1>6 DEF Inv

LEMMA WriteMoves ==
    ASSUME Inv, NEW w \in Writers, CommitWrite(w)
    PROVE  Moves(w)
<1>1. PICK i \in Ids : Update(w, i) \/ Create(w, i)
  BY DEF CommitWrite
<1>2. PICK shared \in BOOLEAN : rows' = [rows EXCEPT ![i] = Written(rows[i], w, shared)]
  <2>1. rows[i].shared \in BOOLEAN /\ (i \in Twins) \in BOOLEAN
    BY TargetFacts DEF Row
  <2> QED
    BY <1>1, <2>1 DEF Update, Create
<1>3. w \in Values /\ w # None
  BY AuthorsAssumption DEF Values
<1> DEFINE row == Written(rows[i], w, shared)
<1>4. row \in Row /\ Follows(rows[i], row) /\ Shaped(row) /\ row.value = w
  BY <1>3, TargetFacts, WrittenRow
<1> HIDE DEF row
<1>5. rows' = [rows EXCEPT ![i] = row]
  BY <1>2 DEF row
<1>6. clock' = clock + 1 /\ tracking' = tracking
  BY TargetFacts DEF CommitWrite, Advanced
<1>7. ASSUME NEW j \in Ids
      PROVE  Follows(rows[j], rows'[j]) /\ Shaped(rows'[j]) /\ rows'[j].value \in {rows[j].value, w}
  <2>1. CASE j = i
    BY <1>4, <1>5, <2>1, TargetFacts
  <2>2. CASE j # i
    BY <1>5, <2>2, TargetFacts, FollowsTwice DEF Follows, Row
  <2> QED
    BY <2>1, <2>2
<1> QED
  BY <1>4, <1>5, <1>6, <1>7, TargetFacts DEF Moves

LEMMA CommitWriteInv ==
    ASSUME Inv, NEW w \in Writers, CommitWrite(w)
    PROVE  Inv'
<1>1. /\ writer[w] = "writing" /\ graphLock' = Released(w) /\ writer' = [writer EXCEPT ![w] = "idle"]
      /\ UNCHANGED <<tracking, merger, merged, writes, faults>>
  BY DEF CommitWrite
<1>2. Moves(w)
  BY WriteMoves
<1>3. TypeOK'
  BY <1>1, <1>2 DEF Inv, TypeOK, Released, Moves
<1>4. /\ graphLock = w /\ \A v \in Writers \ {w} : writer[v] # "writing"
      /\ \A m \in Mergers : merger[m].at \notin Holding
  BY <1>1, AuthorsAssumption DEF Inv, LockInv
<1>5. LockInv'
  <2>1. Tracked'
    BY <1>1, TargetFacts DEF Tracked
  <2>2. \A v \in Writers : writer'[v] # "writing"
    BY <1>1, <1>4 DEF Inv, TypeOK
  <2> QED
    BY <1>1, <1>4, <2>1, <2>2 DEF LockInv
<1>6. CountInv' /\ \A i \in Ids : Shaped(rows'[i])
  BY <1>1, <1>2 DEF Inv, CountInv, Moves
<1>7. ASSUME NEW m \in Mergers PROVE MergerInv(m)'
  BY <1>1, <1>2, <1>4, AuthorsAssumption, OthersStand DEF Inv
<1> QED
  BY <1>3, <1>5, <1>6, <1>7 DEF Inv

-----------------------------------------------------------------------------
(* The theorems. *)

LEMMA NextInv == Inv /\ [Next]_vars => Inv'
<1> SUFFICES ASSUME Inv, [Next]_vars PROVE Inv'
  OBVIOUS
<1>1. ASSUME NEW w \in Writers, BeginWrite(w) \/ CommitWrite(w) PROVE Inv'
  BY <1>1, BeginWriteInv, CommitWriteInv
<1>2. ASSUME NEW m \in Mergers, Stamp(m) \/ MergeStep(m) \/ EngineAbort(m) PROVE Inv'
  BY <1>2, StampInv, CloneInv, CaptureFenceInv, ValidateInv, ResolveInv, StageInv, BeginInv,
     AcquireLockInv, GuardInv, CommitInv, RefusedInv DEF MergeStep, Planning, Committing
<1>3. CASE UNCHANGED vars
  <2>1. TypeOK' /\ LockInv' /\ CountInv' /\ \A i \in Ids : Shaped(rows'[i])
    BY <1>3 DEF Inv, vars, TypeOK, LockInv, Tracked, CountInv
  <2>2. ASSUME NEW m \in Mergers PROVE MergerInv(m)'
    <3>1. Guarded(m)' = Guarded(m)
      BY <1>3, SameGuard DEF vars
    <3> QED
      BY <1>3, <3>1 DEF Inv, vars, MergerInv, Authors, AtTheFork, Fenced, Seen, Snapshot, Checked
  <2> QED
    BY <2>1, <2>2 DEF Inv
<1> QED
  BY <1>1, <1>2, <1>3 DEF Next

LEMMA InitInv ==
    ASSUME "none" \notin Targets
    PROVE  Init => Inv
<1> SUFFICES ASSUME Init PROVE Inv
  OBVIOUS
<1>1. \A m \in Mergers : merger[m] = NoMerge /\ NoMerge.at = "idle" /\ merged[m] = 0
  BY DEF Init, NoMerge
<1>2. \A i \in Ids : rows[i] \in Row /\ Shaped(rows[i]) /\ rows[i].value \in {Original, None}
  <2>1. ASSUME NEW i \in Ids PROVE rows[i] \in Row /\ Shaped(rows[i]) /\ rows[i].value \in {Original, None}
    <3>1. Absent \in Row /\ Shaped(Absent) /\ Absent.value = None
      BY AbsentTypes DEF Absent, Shaped, Live
    <3>2. Original \in Values /\ Original # None /\ (i \in Twins) \in BOOLEAN
      BY AuthorsAssumption DEF Values
    <3>3. CASE i \in Initially
      <4>1. PICK shared \in BOOLEAN : rows[i] = Written(Absent, Original, shared)
        BY <3>2, <3>3 DEF Init
      <4>2. /\ Written(Absent, Original, shared) \in Row
            /\ Shaped(Written(Absent, Original, shared))
            /\ Written(Absent, Original, shared).value = Original
        BY <3>1, <3>2, WrittenRow
      <4> QED
        BY <4>1, <4>2
    <3>4. CASE i \notin Initially
      BY <3>1, <3>4 DEF Init
    <3> QED
      BY <3>3, <3>4
  <2> QED
    BY <2>1
<1>3. TypeOK
  <2>1. rows \in [Ids -> Row]
    BY <1>2 DEF Init
  <2> QED
    BY <2>1, NoMergeType, BoundsAssumption DEF Init, TypeOK
<1>4. LockInv /\ CountInv
  <2>1. Tracked
    BY DEF Init, Tracked
  <2> QED
    BY <1>1, <2>1 DEF Init, LockInv, CountInv, Holding
<1>5. ASSUME NEW m \in Mergers PROVE MergerInv(m)
  <2>1. Authors(m)
    BY <1>1, <1>2, AuthorsAssumption DEF Authors, Forked, Resolved
  <2> QED
    BY <1>1, <2>1 DEF MergerInv, AtTheFork, Fenced, Seen, Snapshot, Checked, Forked, Resolved, Snapped
<1> QED
  BY <1>2, <1>3, <1>4, <1>5 DEF Inv

LEMMA InvHolds ==
    ASSUME "none" \notin Targets
    PROVE  Spec => []Inv
BY InitInv, NextInv, PTL DEF Spec

\* Where the target tracks revisions, every variable keeps its type; that a
\* merge is applied at most once more than answers are lost is part of it.
THEOREM TypeCorrect ==
    ASSUME "none" \notin Targets
    PROVE  Spec => []TypeOK
BY InvHolds, PTL DEF Inv

-----------------------------------------------------------------------------
(* An addition is resolved onto what matches it. *)

\* Only a commit of its plan counts as an application of a merge.
LEMMA Applies ==
    ASSUME TypeOK, [Next]_vars, NEW m \in Mergers, merged'[m] # merged[m]
    PROVE  Commit(m)
<1>1. ASSUME NEW k \in Mergers, merged' # merged, Stamp(k) \/ MergeStep(k) \/ EngineAbort(k)
      PROVE  Commit(k)
  BY <1>1 DEF Stamp, MergeStep, EngineAbort, Unmoved, Clone, Planning, CaptureFence,
     ValidateBaseVersions, Resolve, Stage, Committing, Begin, AcquireLock, Guard, Conflict, Duplicate
<1>2. ASSUME NEW w \in Writers, BeginWrite(w) \/ CommitWrite(w) PROVE merged' = merged
  BY <1>2 DEF BeginWrite, CommitWrite
<1>3. PICK k \in Mergers : Commit(k)
  BY <1>1, <1>2 DEF Next, vars
<1>4. k = m
  BY <1>3 DEF Commit, TypeOK
<1> QED
  BY <1>3, <1>4, Zenon

LEMMA CommitResolves ==
    ASSUME Inv, NEW m \in Mergers, Commit(m), merger[m].kind = "incremental",
           NEW i \in Ids, ~Live(rows[i]), Live(rows'[i])
    PROVE  Matching(rows) \subseteq merger[m].edits
<1>1. i \in PlanWrites(m)
  BY DEF Commit, Merge
<1>2. /\ merger[m].at \in Resolved /\ merger[m].staged = Ids
      /\ \A j \in merger[m].matched : Live(rows[j])
  BY Facts DEF Commit, Resolved, MergerInv, Seen
<1>3. /\ Follows(merger[m].base[i], merger[m].seen[i]) /\ Follows(merger[m].seen[i], rows[i])
      /\ Shaped(merger[m].seen[i]) /\ Shaped(rows[i])
      /\ merger[m].base[i] \in Row /\ merger[m].seen[i] \in Row /\ rows[i] \in Row
  BY <1>2, Facts, FieldTypes DEF MergerInv, Seen
<1>4. ~Live(merger[m].seen[i]) /\ ~Live(merger[m].base[i])
  <2>1. /\ rows[i].version = 0 /\ merger[m].seen[i].version \in Nat
        /\ merger[m].base[i].version \in Nat
    BY <1>3 DEF Shaped, Row
  <2>2. merger[m].seen[i].version = 0 /\ merger[m].base[i].version = 0
    BY <1>3, <2>1 DEF Follows
  <2> QED
    BY <1>3, <2>2 DEF Shaped, Follows
<1>5. i \in Additions(m)
  <2>1. i \in merger[m].edits
    BY <1>1, <1>2, Rewritten DEF Inv
  <2> QED
    BY <1>4, <2>1 DEF Additions
<1>6. merger[m].matched \subseteq merger[m].edits
  BY <1>1, <1>4, <1>5, Rewritten DEF Inv
<1>7. View(m) = rows
  <2>1. Advances(m)
    BY <1>1 DEF Advances
  <2> QED
    BY <2>1, CommitSees DEF View
<1>8. BaseResolutionStable(m)
  BY CommitSees
<1> QED
  BY <1>5, <1>6, <1>7, <1>8 DEF BaseResolutionStable

\* An incremental merge that creates a row of its own has every row that
\* matches an addition among its edits: assertBaseResolutionStable looks at
\* what the commit itself writes over, on the snapshot as well as without one.
THEOREM AdditionsResolved ==
    ASSUME "none" \notin Targets
    PROVE  Spec => AdditionsResolve
<1> DEFINE Resolves == \A m \in Mergers : IncrementalCommit(m) =>
                          \A i \in Ids : ~Live(rows[i]) /\ Live(rows'[i]) =>
                              Matching(rows) \subseteq merger[m].edits
<1>1. Inv /\ [Next]_vars => Resolves
  <2> SUFFICES ASSUME Inv, [Next]_vars, NEW m \in Mergers, IncrementalCommit(m),
                      NEW i \in Ids, ~Live(rows[i]), Live(rows'[i])
               PROVE  Matching(rows) \subseteq merger[m].edits
    OBVIOUS
  <2>1. merged'[m] # merged[m] /\ merger[m].kind = "incremental"
    <3>1. merged[m] \in Nat
      BY Facts
    <3> QED
      BY <3>1 DEF IncrementalCommit
  <2>2. Commit(m)
    BY <2>1, Applies DEF Inv
  <2> QED
    BY <2>1, <2>2, CommitResolves
<1>2. Inv /\ [Next]_vars => [Resolves]_vars
  BY <1>1
<1> QED
  BY <1>2, InvHolds, PTL DEF Spec, AdditionsResolve

-----------------------------------------------------------------------------
(* A merge is one step of what merging promises. *)

Early == {"idle", "stamped"}
Work == [m \in Mergers |-> WorkOf(m)]

\* What a merger was asked to do is settled when its branch is cloned.
KeepsWork(m, s) ==
    \/ merger[m].at \in Early /\ s.at \in Early
    \/ /\ merger[m].at \notin Early /\ s.at \notin Early
       /\ s.kind = merger[m].kind /\ s.base = merger[m].base /\ s.edits = merger[m].edits

LEMMA WorkKept ==
    ASSUME TypeOK, NEW m \in Mergers, NEW s, merger' = [merger EXCEPT ![m] = s], KeepsWork(m, s)
    PROVE  Work' = Work
<1>1. ASSUME NEW k \in Mergers PROVE WorkOf(k)' = WorkOf(k)
  <2>1. CASE k = m
    <3>1. merger'[m] = s
      BY DEF TypeOK
    <3> QED
      BY <2>1, <3>1 DEF KeepsWork, WorkOf, Early
  <2>2. CASE k # m
    <3>1. merger'[k] = merger[k]
      BY <2>2 DEF TypeOK
    <3> QED
      BY <3>1 DEF WorkOf
  <2> QED
    BY <2>1, <2>2
<1> QED
  BY <1>1 DEF Work

\* Whoever moves on with the same branch keeps what it was asked to do.
LEMMA SameBranch ==
    ASSUME TypeOK, NEW m \in Mergers, NEW s, merger' = [merger EXCEPT ![m] = s],
           merger[m].at \notin Early, s.at \notin Early, s.kind = merger[m].kind,
           s.base = merger[m].base, s.edits = merger[m].edits
    PROVE  Work' = Work
BY WorkKept DEF KeepsWork

LEMMA EndKeepsWork ==
    ASSUME TypeOK, NEW m \in Mergers, merger' = [merger EXCEPT ![m] = End(m)],
           merger[m].at \notin Early
    PROVE  Work' = Work
<1>1. End(m).at \notin Early
  BY EndState DEF Early
<1> QED
  BY <1>1, EndState, SameBranch

LEMMA RetryKeepsWork ==
    ASSUME TypeOK, NEW m \in Mergers, Retry(m), merger[m].at \notin Early
    PROVE  Work' = Work
<1> DEFINE s == [merger[m] EXCEPT !.at = "planned", !.snapRows = Nothing, !.snapClock = 0]
<1>1. CASE merger' = [merger EXCEPT ![m] = s]
  <2>1. /\ s.at = "planned" /\ s.kind = merger[m].kind /\ s.base = merger[m].base
        /\ s.edits = merger[m].edits
    BY FieldTypes DEF Merger
  <2> HIDE DEF s
  <2> QED
    BY <1>1, <2>1, SameBranch DEF Early
<1>2. CASE merger' = [merger EXCEPT ![m] = End(m)]
  BY <1>2, EndKeepsWork
<1> QED
  BY <1>1, <1>2 DEF Retry, Go

\* Until it commits, a merger that has branched changes neither the target nor
\* what it was asked to do.
LEMMA PlanningStutters ==
    ASSUME Inv, NEW m \in Mergers, Stamp(m) \/ Planning(m)
    PROVE  Work' = Work /\ UNCHANGED <<rows, merged>>
<1>1. TypeOK /\ merger[m] \in Merger
  BY FieldTypes DEF Inv
<1>2. CASE Stamp(m)
  <2>1. PICK kind \in Kinds :
           merger' = [merger EXCEPT ![m] = [NoMerge EXCEPT !.at = "stamped", !.kind = kind,
                                                           !.token = LiveToken]]
    BY <1>2 DEF Stamp, Go
  <2> DEFINE s == [NoMerge EXCEPT !.at = "stamped", !.kind = kind, !.token = LiveToken]
  <2>2. s.at = "stamped"
    BY DEF NoMerge
  <2> HIDE DEF s
  <2>3. merger' = [merger EXCEPT ![m] = s]
    BY <2>1 DEF s
  <2>4. KeepsWork(m, s)
    BY <1>2, <2>2 DEF Stamp, KeepsWork, Early
  <2> QED
    BY <1>1, <1>2, <2>3, <2>4, WorkKept DEF Stamp, Unmoved
<1>3. CASE CaptureFence(m)
  <2> DEFINE s == [merger[m] EXCEPT !.at = "fenced", !.fence = clock]
  <2>1. /\ s.at = "fenced" /\ s.kind = merger[m].kind /\ s.base = merger[m].base
        /\ s.edits = merger[m].edits
    BY <1>1 DEF Merger
  <2>2. merger' = [merger EXCEPT ![m] = s]
    BY <1>3 DEF CaptureFence, Go
  <2> HIDE DEF s
  <2> QED
    BY <1>1, <1>3, <2>1, <2>2, SameBranch DEF CaptureFence, Unmoved, Early
<1>4. CASE ValidateBaseVersions(m)
  <2> DEFINE s == [merger[m] EXCEPT !.at = "staging", !.staged = {}, !.seen = Nothing]
  <2>1. /\ s.at = "staging" /\ s.kind = merger[m].kind /\ s.base = merger[m].base
        /\ s.edits = merger[m].edits
    BY <1>1 DEF Merger
  <2>2. merger' = [merger EXCEPT ![m] = s] \/ merger' = [merger EXCEPT ![m] = End(m)]
    BY <1>4 DEF ValidateBaseVersions, Go
  <2> HIDE DEF s
  <2>3. merger[m].at \notin Early
    BY <1>4 DEF ValidateBaseVersions, Early
  <2>4. Work' = Work
    BY <1>1, <2>1, <2>2, <2>3, SameBranch, EndKeepsWork DEF Early
  <2> QED
    BY <1>4, <2>4 DEF ValidateBaseVersions, Unmoved
<1>5. ASSUME NEW i \in Ids, Stage(m, i) PROVE Work' = Work /\ UNCHANGED <<rows, merged>>
  <2> DEFINE s == [merger[m] EXCEPT !.staged = @ \cup {i}, !.seen[i] = rows[i]]
  <2>1. /\ s.at = merger[m].at /\ s.kind = merger[m].kind /\ s.base = merger[m].base
        /\ s.edits = merger[m].edits
    BY <1>1 DEF Merger
  <2>2. merger' = [merger EXCEPT ![m] = s] /\ merger[m].at = "staging"
    BY <1>5 DEF Stage, Go
  <2> HIDE DEF s
  <2> QED
    BY <1>1, <1>5, <2>1, <2>2, SameBranch DEF Stage, Unmoved, Early
<1>6. CASE Resolve(m)
  <2> DEFINE matches == IF merger[m].kind = "incremental" THEN Matching(rows) ELSE {}
             s == [merger[m] EXCEPT !.at = "planned", !.attempt = 0, !.matched = matches]
  <2>1. /\ s.at = "planned" /\ s.kind = merger[m].kind /\ s.base = merger[m].base
        /\ s.edits = merger[m].edits
    <3> HIDE DEF matches
    <3> QED
      BY <1>1 DEF Merger
  <2>2. merger' = [merger EXCEPT ![m] = s] \/ merger' = [merger EXCEPT ![m] = End(m)]
    BY <1>6 DEF Resolve, Go
  <2> HIDE DEF s
  <2>3. merger[m].at \notin Early
    BY <1>6 DEF Resolve, Early
  <2>4. Work' = Work
    BY <1>1, <2>1, <2>2, <2>3, SameBranch, EndKeepsWork DEF Early
  <2> QED
    BY <1>6, <2>4 DEF Resolve, Unmoved
<1> QED
  BY <1>2, <1>3, <1>4, <1>5, <1>6 DEF Planning

LEMMA CommittingStutters ==
    ASSUME Inv, NEW m \in Mergers,
           \/ Begin(m) \/ AcquireLock(m) \/ Guard(m)
           \/ Conflict(m) \/ Duplicate(m) \/ EngineAbort(m)
    PROVE  Work' = Work /\ UNCHANGED <<rows, merged>>
<1>1. TypeOK /\ merger[m] \in Merger
  BY FieldTypes DEF Inv
<1>2. CASE Begin(m)
  <2> DEFINE s == [merger[m] EXCEPT !.at = "locking", !.attempt = @ + 1,
                                    !.snapRows = rows, !.snapClock = clock]
  <2>1. /\ s.at = "locking" /\ s.kind = merger[m].kind /\ s.base = merger[m].base
        /\ s.edits = merger[m].edits
    BY <1>1 DEF Merger
  <2>2. merger' = [merger EXCEPT ![m] = s]
    BY <1>2 DEF Begin, Go
  <2> HIDE DEF s
  <2> QED
    BY <1>1, <1>2, <2>1, <2>2, SameBranch DEF Begin, Unmoved, Early
<1>3. ASSUME NEW at \in Holding, merger[m].at \notin Early,
             merger' = [merger EXCEPT ![m] = [merger[m] EXCEPT !.at = at]]
      PROVE  Work' = Work
  <2> DEFINE s == [merger[m] EXCEPT !.at = at]
  <2>1. /\ s.at = at /\ s.kind = merger[m].kind /\ s.base = merger[m].base
        /\ s.edits = merger[m].edits
    BY <1>1 DEF Merger
  <2> HIDE DEF s
  <2>2. s.at \notin Early
    BY <2>1 DEF Early, Holding
  <2>3. merger' = [merger EXCEPT ![m] = s]
    BY <1>3 DEF s
  <2> QED
    BY <1>1, <1>3, <2>1, <2>2, <2>3, SameBranch
<1>4. CASE AcquireLock(m)
  BY <1>3, <1>4 DEF AcquireLock, Go, Early, Holding
<1>5. CASE Guard(m)
  <2>1. /\ merger[m].at \notin Early /\ UNCHANGED <<rows, merged>>
        /\ \/ merger' = [merger EXCEPT ![m] = [merger[m] EXCEPT !.at = "applying"]]
           \/ merger' = [merger EXCEPT ![m] = End(m)]
    BY <1>5 DEF Guard, Go, Early
  <2> QED
    BY <1>1, <1>3, <2>1, EndKeepsWork DEF Holding
<1>6. CASE Duplicate(m)
  BY <1>1, <1>6, EndKeepsWork DEF Duplicate, Go, Early
<1>7. CASE Conflict(m) \/ EngineAbort(m)
  <2>1. Retry(m) /\ merger[m].at \notin Early /\ UNCHANGED <<rows, merged>>
    BY <1>7 DEF Conflict, EngineAbort, Early
  <2> QED
    BY <1>1, <2>1, RetryKeepsWork
<1> QED
  BY <1>2, <1>4, <1>5, <1>6, <1>7

LEMMA ContentsTypes ==
    ASSUME NEW rs \in [Ids -> Row]
    PROVE  /\ Contents(rs) \in [Ids -> Values]
           /\ \A i \in Ids : Contents(rs)[i] = rs[i].value
BY AbsentTypes DEF Contents

LEMMA InitPromises ==
    ASSUME Init
    PROVE  Promise!Init
<1>1. Contents(rows) \in [Ids -> Values]
  <2>1. \A i \in Ids : rows[i].value \in Values
    BY DEF Init, Written, Absent, Values
  <2> QED
    BY <2>1 DEF Contents
<1>2. ASSUME NEW m \in Mergers PROVE WorkOf(m) = Promise!NoWork
  <2>1. merger[m].at = "idle"
    BY DEF Init, NoMerge
  <2>2. Contents(Nothing) = [i \in Ids |-> None]
    BY DEF Contents, Nothing, Absent
  <2> QED
    BY <2>1, <2>2 DEF WorkOf, Promise!NoWork
<1>3. merged = [m \in Mergers |-> 0]
  BY DEF Init
<1> QED
  BY <1>1, <1>2, <1>3 DEF Promise!Init

LEMMA CloneForks ==
    ASSUME Inv, NEW m \in Mergers, Clone(m)
    PROVE  Promise!Fork(m)
<1>1. TypeOK /\ merger[m] \in Merger /\ merger[m].at = "stamped" /\ merger[m].kind \in Kinds
  BY FieldTypes DEF Inv, Clone
<1>2. PICK edits \in SUBSET BranchIds :
         merger' = [merger EXCEPT ![m] =
                       [merger[m] EXCEPT !.at = "branched", !.base = rows, !.edits = edits]]
  BY DEF Clone, Go
<1> DEFINE s == [merger[m] EXCEPT !.at = "branched", !.base = rows, !.edits = edits]
           work == [kind |-> merger[m].kind, base |-> Contents(rows), edits |-> edits]
<1>3. s.at = "branched" /\ s.kind = merger[m].kind /\ s.base = rows /\ s.edits = edits
  BY <1>1 DEF Merger
<1> HIDE DEF s
<1>4. merger' = [merger EXCEPT ![m] = s]
  BY <1>2 DEF s
<1>5. Work[m] = Promise!NoWork
  <2>1. Contents(Nothing) = [i \in Ids |-> None]
    BY DEF Contents, Nothing, Absent
  <2> QED
    BY <1>1, <2>1 DEF Work, WorkOf, Promise!NoWork
<1>6. Work' = [Work EXCEPT ![m] = work]
  <2>1. ASSUME NEW k \in Mergers PROVE WorkOf(k)' = IF k = m THEN work ELSE WorkOf(k)
    <3>1. CASE k = m
      <4>1. merger'[m] = s
        BY <1>1, <1>4 DEF TypeOK
      <4> QED
        BY <1>3, <3>1, <4>1 DEF WorkOf
    <3>2. CASE k # m
      <4>1. merger'[k] = merger[k]
        BY <1>1, <1>4, <3>2 DEF TypeOK
      <4> QED
        BY <3>2, <4>1 DEF WorkOf
    <3> QED
      BY <3>1, <3>2
  <2> HIDE DEF work
  <2> QED
    BY <2>1 DEF Work
<1>7. edits \in SUBSET Ids /\ merger[m].kind \in Promise!Kinds
  BY <1>1, IdsAssumption DEF Kinds, Promise!Kinds
<1>8. Contents(rows)' = Contents(rows) /\ merged' = merged
  BY DEF Clone, Unmoved, Contents
<1> QED
  BY <1>5, <1>6, <1>7, <1>8 DEF Promise!Fork, Work

LEMMA CommitKeepsWork ==
    ASSUME Inv, NEW m \in Mergers, Commit(m)
    PROVE  Work' = Work
<1>1. TypeOK /\ merger[m] \in Merger /\ merger[m].at \notin Early
  BY FieldTypes DEF Inv, Commit, Early
<1> DEFINE at == IF merger[m].kind = "plan" THEN "planned" ELSE "branched"
           s == [merger[m] EXCEPT !.at = at, !.attempt = 0]
<1>2. merger' = [merger EXCEPT ![m] = End(m)] \/ merger' = [merger EXCEPT ![m] = s]
  BY DEF Commit, Go, Again
<1>3. /\ s.at \notin Early /\ s.kind = merger[m].kind /\ s.base = merger[m].base
      /\ s.edits = merger[m].edits
  BY <1>1 DEF Merger, Early
<1> HIDE DEF s
<1> QED
  BY <1>1, <1>2, <1>3, EndKeepsWork, SameBranch

\* What a commit makes of the target's content.
LEMMA CommitContents ==
    ASSUME Inv, NEW m \in Mergers, Commit(m)
    PROVE  /\ Contents(rows)' \in [Ids -> Values]
           /\ \A i \in Ids : Contents(rows)'[i] =
                 IF i \in PlanWrites(m) THEN PlannedValue(m, i) ELSE rows[i].value
<1>1. rows' \in [Ids -> Row]
  BY CommitMoves DEF Moves
<1>2. ASSUME NEW i \in Ids
      PROVE  rows'[i].value = IF i \in PlanWrites(m) THEN PlannedValue(m, i) ELSE rows[i].value
  BY DEF Commit, Merge, Written
<1>3. Contents(rows)' = Contents(rows')
  BY DEF Contents
<1> QED
  BY <1>1, <1>2, <1>3, ContentsTypes

\* A snapshot merge or a reviewed plan that writes is applied to its fork; one
\* that writes nothing has nothing to apply.
LEMMA CommitOntoTheFork ==
    ASSUME Inv, NEW m \in Mergers, Commit(m), merger[m].kind # "incremental"
    PROVE  Promise!OntoTheFork(m) \/ (Work[m].edits = {} /\ Contents(rows)' = Contents(rows))
<1>1. /\ Work[m].base = Contents(merger[m].base) /\ Work[m].edits = merger[m].edits
      /\ merger[m].edits \subseteq Ids /\ merger[m].base \in [Ids -> Row] /\ rows \in [Ids -> Row]
  BY FieldTypes, Facts, IdsAssumption DEF Inv, Work, WorkOf, Commit
<1>2. \A i \in Ids : merger[m].base[i].value # m /\ merger[m].seen[i] = merger[m].base[i]
  BY Facts, CommitSees DEF MergerInv, Authors, Commit, Forked, Resolved
<1>3. \A i \in Ids : i \in PlanWrites(m) <=> i \in merger[m].edits
  BY <1>2 DEF PlanWrites, BranchValue
<1>4. CASE Advances(m)
  <2>1. merger[m].base = rows
    BY <1>4, CommitSees
  <2>2. \A i \in Ids : Contents(rows)'[i] = IF i \in merger[m].edits THEN m
                                             ELSE Contents(merger[m].base)[i]
    BY <1>1, <1>3, <2>1, CommitContents, ContentsTypes DEF PlannedValue, BranchValue
  <2>3. Contents(rows)' = [i \in Ids |-> IF i \in merger[m].edits THEN m
                                          ELSE Contents(merger[m].base)[i]]
    BY <2>2, CommitContents
  <2> QED
    BY <1>1, <2>1, <2>3 DEF Promise!OntoTheFork, Work
<1>5. CASE ~Advances(m)
  <2>1. PlanWrites(m) = {}
    BY <1>5 DEF Advances
  <2>2. merger[m].edits = {}
    BY <1>1, <1>3, <2>1
  <2>3. Contents(rows)' = Contents(rows)
    BY <1>1, <2>1, CommitContents, ContentsTypes
  <2> QED
    BY <1>1, <2>2, <2>3
<1> QED
  BY <1>4, <1>5

\* An incremental merge changes what still is as it was at the fork, or what an
\* addition matches.
LEMMA CommitOntoWhatItBecame ==
    ASSUME Inv, NEW m \in Mergers, Commit(m), merger[m].kind = "incremental"
    PROVE  Promise!OntoWhatItBecame(m)
<1>1. /\ Work[m].base = Contents(merger[m].base) /\ Work[m].edits = merger[m].edits
      /\ merger[m].edits \subseteq Ids /\ merger[m].base \in [Ids -> Row] /\ rows \in [Ids -> Row]
  BY FieldTypes, Facts, IdsAssumption DEF Inv, Work, WorkOf, Commit
<1>2. ASSUME NEW i \in Ids, Contents(rows)'[i] # Contents(rows)[i]
      PROVE  /\ Contents(rows)'[i] = m
             /\ IF i \in Work[m].edits
                THEN Work[m].base[i] # None => Contents(rows)[i] = Work[m].base[i]
                ELSE \E a \in Work[m].edits : Work[m].base[a] = None
  <2>1. i \in PlanWrites(m) /\ PlannedValue(m, i) # rows[i].value
    BY <1>1, <1>2, CommitContents, ContentsTypes
  <2>2. PlannedValue(m, i) = m /\ Contents(rows)'[i] = m
    BY <2>1, CommitContents, CommitWrites
  <2>3. CASE i \in merger[m].edits /\ merger[m].base[i].value # None
    <3>1. /\ Follows(merger[m].base[i], merger[m].seen[i]) /\ Shaped(merger[m].seen[i])
          /\ merger[m].base[i] \in Row /\ merger[m].seen[i] \in Row
      BY Facts, FieldTypes DEF Commit, Resolved, MergerInv, Seen, Inv
    <3>2. merger[m].seen[i].version # 0
      <4>1. merger[m].base[i].version \in Nat /\ merger[m].seen[i].version \in Nat
        BY <3>1 DEF Row
      <4>2. merger[m].seen[i].version = 0 => merger[m].seen[i] = merger[m].base[i]
        BY <3>1, <4>1 DEF Follows
      <4> QED
        BY <2>3, <3>1, <4>2 DEF Shaped, Live
    <3>3. rows[i] = merger[m].seen[i]
      BY <2>1, <3>2, CommitSees
    <3>4. merger[m].seen[i].value = merger[m].base[i].value
      BY <2>1, <2>2, <2>3, <3>3 DEF PlannedValue
    <3> QED
      BY <1>1, <2>2, <2>3, <3>3, <3>4, ContentsTypes
  <2>4. CASE i \in merger[m].edits /\ merger[m].base[i].value = None
    BY <1>1, <2>2, <2>4, ContentsTypes
  <2>5. CASE i \notin merger[m].edits
    <3>1. PICK a \in merger[m].edits : ~Live(merger[m].base[a])
      BY <2>1, <2>5, Rewritten DEF Inv
    <3>2. Work[m].base[a] = None
      BY <1>1, <3>1, ContentsTypes DEF Live
    <3> QED
      BY <1>1, <2>2, <2>5, <3>1, <3>2
  <2> QED
    BY <2>3, <2>4, <2>5
<1> QED
  BY <1>2, CommitContents DEF Promise!OntoWhatItBecame, Work

LEMMA CommitMerges ==
    ASSUME Inv, NEW m \in Mergers, Commit(m)
    PROVE  Promise!Merge(m)
<1>1. merger[m].kind \in Kinds /\ merger[m].at \notin Early
  BY FieldTypes DEF Inv, Commit, Early
<1>2. Work[m].kind = merger[m].kind /\ Work[m] # Promise!NoWork
  BY <1>1 DEF Work, WorkOf, Early, Kinds, Promise!NoWork
<1>3. merger[m].kind = "plan" => merged[m] = 0
  <2> SUFFICES ASSUME merger[m].kind = "plan" PROVE merged[m] = 0
    OBVIOUS
  <2>1. clock = merger[m].token.revision
    BY CommitSees DEF Advances
  <2>2. merged[m] > 0 => merger[m].fence < clock
    BY Facts DEF MergerInv, Fenced, Commit, Resolved
  <2>3. merger[m].fence = merger[m].token.revision
    BY Facts DEF MergerInv, Fenced, Commit, Resolved
  <2> QED
    BY <2>1, <2>2, <2>3, Facts
<1>4. Work' = Work
  BY CommitKeepsWork
<1>5. IF Work[m].kind = "incremental"
      THEN Promise!OntoWhatItBecame(m)
      ELSE Promise!OntoTheFork(m) \/ (Work[m].edits = {} /\ Contents(rows)' = Contents(rows))
  BY <1>2, CommitOntoTheFork, CommitOntoWhatItBecame
<1>6. merged' = [merged EXCEPT ![m] = @ + 1]
  BY DEF Commit
<1> QED
  BY <1>2, <1>3, <1>4, <1>5, <1>6 DEF Promise!Merge, Work

\* Every merge into a tracked target is the atomic merge it promises, whatever
\* commits between its reads, its snapshot, its wait for the lock and its
\* retries (assertTargetUnchanged, assertInheritedTargetUnchanged,
\* assertMergePlanFenceInsideTransaction), and however often an answer is lost.
THEOREM TargetImplemented ==
    ASSUME "none" \notin Targets
    PROVE  Spec => ImplementsTarget
<1> DEFINE Promised == [Promise!Next]_<<Contents(rows), [m \in Mergers |-> WorkOf(m)], merged>>
<1>1. Init => Promise!Init
  BY InitPromises
<1>2. Inv /\ [Next]_vars => Promised
  <2> SUFFICES ASSUME Inv, [Next]_vars PROVE Promised
    OBVIOUS
  <2>1. CASE Work' = Work /\ UNCHANGED <<rows, merged>>
    <3>1. Contents(rows)' = Contents(rows)
      BY <2>1 DEF Contents
    <3> QED
      BY <2>1, <3>1 DEF Work
  <2>2. ASSUME NEW w \in Writers, BeginWrite(w) PROVE Promised
    <3>1. Work' = Work /\ UNCHANGED <<rows, merged>>
      BY <2>2 DEF BeginWrite, Work, WorkOf
    <3> QED
      BY <2>1, <3>1
  <2>3. ASSUME NEW w \in Writers, CommitWrite(w) PROVE Promised
    <3>1. Work' = Work /\ merged' = merged
      BY <2>3 DEF CommitWrite, Work, WorkOf
    <3>2. Contents(rows)' \in [Ids -> Values]
      <4>1. rows' \in [Ids -> Row]
        BY <2>3, WriteMoves DEF Moves
      <4>2. Contents(rows)' = Contents(rows')
        BY DEF Contents
      <4> QED
        BY <4>1, <4>2, ContentsTypes
    <3>3. Promise!Write
      BY <3>1, <3>2 DEF Promise!Write, Work
    <3> QED
      BY <3>3 DEF Promise!Next
  <2>4. ASSUME NEW m \in Mergers, Clone(m) PROVE Promised
    BY <2>4, CloneForks DEF Promise!Next
  <2>5. ASSUME NEW m \in Mergers, Commit(m) PROVE Promised
    BY <2>5, CommitMerges DEF Promise!Next
  <2>6. ASSUME NEW m \in Mergers, Stamp(m) \/ Planning(m) PROVE Promised
    BY <2>1, <2>6, PlanningStutters
  <2>7. ASSUME NEW m \in Mergers,
               \/ Begin(m) \/ AcquireLock(m) \/ Guard(m)
               \/ Conflict(m) \/ Duplicate(m) \/ EngineAbort(m)
        PROVE  Promised
    BY <2>1, <2>7, CommittingStutters
  <2>8. CASE UNCHANGED vars
    <3>1. Work' = Work /\ UNCHANGED <<rows, merged>>
      BY <2>8 DEF vars, Work, WorkOf
    <3> QED
      BY <2>1, <3>1
  <2> HIDE DEF Promised
  <2> QED
    BY <2>2, <2>3, <2>4, <2>5, <2>6, <2>7, <2>8 DEF Next, MergeStep, Committing
<1> QED
  BY <1>1, <1>2, InvHolds, PTL DEF Spec, ImplementsTarget, Promise!Spec

=============================================================================
