-------------------------- MODULE KindRemovalProofs --------------------------
(***************************************************************************)
(* What kind removal guarantees for any kinds, admins, cleaners and        *)
(* bounds.                                                                 *)
(***************************************************************************)
EXTENDS KindRemoval, TLAPS

\* Without a rollback, the active version is the last one.
Linear == ~rolledBack => active = Len(history)

\* A row was written under a version that declares its kind.
Valid == \A r \in rows : r.kind \in history[r.version]

\* A row whose kind is not declared lost it in a version after its own.
Undeclared ==
    ~rolledBack => \A r \in rows : r.kind \notin history[active] =>
        \E d \in (r.version + 1)..active : r.kind \in DroppedBy(d)

\* The queue, and what the passes hold of it, names versions that exist.
Queued ==
    /\ \A r \in Removal : queue[r] # "absent" => r[2] \in Versions
    /\ \A c \in Cleaners : \A r \in cleaner[c].missing \cup cleaner[c].candidates :
          r[2] \in Versions
    /\ \A a \in Admins : admin[a].at = "recording" => admin[a].base + 1 \in Versions

\* Up to the marker, every drop is in the queue.
MarkerIsSound ==
    \A r \in Removal :
        (r[2] \in 1..marker /\ r[1] \in DroppedBy(r[2])) => queue[r] # "absent"

\* A pass that restores the queue has what the history lacks in it.
Restoring ==
    \A c \in Cleaners : cleaner[c].at = "restoring" =>
        \A r \in Removal :
            (r[2] \in 1..cleaner[c].base /\ r[1] \in DroppedBy(r[2]) /\ queue[r] = "absent")
                => r \in cleaner[c].missing

\* A removal that is done, or about to be recorded as done, left no older row.
Gone(removal) == \A r \in rows : r.kind = removal[1] => r.version >= removal[2]

DoneMeansGone ==
    ~rolledBack =>
        /\ \A r \in Removal : queue[r] = "done" => Gone(r)
        /\ \A c \in Cleaners : cleaner[c].at = "finishing" =>
              \A r \in cleaner[c].missing : Gone(r)

Inv ==
    /\ TypeOK /\ Linear /\ Valid /\ Undeclared
    /\ Queued /\ MarkerIsSound /\ Restoring /\ DoneMeansGone

USE DEF Document, Versions, RowOf

-----------------------------------------------------------------------------
\* The states at rest are well-formed.
LEMMA AtRest ==
    /\ NoAdmin \in Change /\ NoAdmin.base = 1 /\ NoAdmin.at = "idle"
    /\ NoPass \in Pass /\ NoPass.base = 1 /\ NoPass.at = "idle"
    /\ NoPass.missing = {} /\ NoPass.candidates = {}
<1>1. (CHOOSE k \in Kinds : TRUE) \in Kinds
  BY KindsAssumption
<1> QED
  BY <1>1 DEF NoAdmin, NoPass, Change, Pass, Operations

LEMMA InitInv == Init => Inv
<1> SUFFICES ASSUME Init PROVE Inv
  OBVIOUS
<1> USE BoundsAssumption, AtRest DEF Init
<1>1. PICK document \in Document : history = <<document>>
  OBVIOUS
<1>2. TypeOK
  <2>1. history \in Seq(Document) /\ Len(history) = 1
    BY <1>1
  <2>2. /\ admin \in [Admins -> Change] /\ \A a \in Admins : admin[a].base \in Versions
        /\ cleaner \in [Cleaners -> Pass] /\ \A c \in Cleaners : cleaner[c].base \in Versions
    BY <2>1
  <2>3. queue \in [Removal -> {"absent", "pending", "done"}]
    OBVIOUS
  <2>4. changes \in 0..MaxChanges /\ faults \in 0..MaxFaults
    OBVIOUS
  <2>6. rolledBack \in BOOLEAN
    BY Zenon
  <2>5. rows \subseteq [kind : Kinds, version : Versions] /\ marker \in Versions
    BY <2>1
  <2> QED
    BY <2>1, <2>2, <2>3, <2>4, <2>5, <2>6 DEF TypeOK
<1>3. Linear /\ Valid /\ Undeclared /\ DoneMeansGone
  BY <1>1 DEF Linear, Valid, Undeclared, DoneMeansGone, Removal
<1>4. Queued /\ Restoring
  BY DEF Queued, Restoring, Removal
<1>5. MarkerIsSound
  BY DEF MarkerIsSound, DroppedBy
<1> QED
  BY <1>2, <1>3, <1>4, <1>5 DEF Inv

\* Committed versions never change, and what they dropped does not either.
LEMMA HistoryGrows ==
    ASSUME TypeOK, NEW a \in Admins, CommitSchemaVersion(a)
    PROVE  /\ history' \in Seq(Document)
           /\ active' \in 1..Len(history')
           /\ Len(history) <= Len(history') /\ Len(history') <= MaxVersion
           /\ \A v \in Versions : history'[v] = history[v]
           /\ \A v \in Versions : DroppedBy(v)' = DroppedBy(v)
<1> USE BoundsAssumption DEF TypeOK, Change, CommitSchemaVersion
<1>1. admin[a].base \in Versions /\ admin[a].kind \in Kinds
  OBVIOUS
<1>2. Target(a) \in Document
  BY <1>1 DEF Target
<1>3. CASE ~Commits(a)
  BY <1>3 DEF schemaVars, DroppedBy
<1>4. CASE Commits(a)
  <2>1. admin[a].base + 1 <= MaxVersion /\ admin[a].base = active
    BY <1>4 DEF Commits
  <2>2. CASE admin[a].base + 1 \in Versions
    BY <1>4, <2>1, <2>2 DEF HistoryAfter, DroppedBy
  <2>3. CASE admin[a].base + 1 \notin Versions
    <3>1. history' = Append(history, Target(a)) /\ active' = admin[a].base + 1
      BY <1>4, <2>3 DEF HistoryAfter
    <3>2. admin[a].base = Len(history)
      BY <1>1, <2>3
    <3>3. /\ history' \in Seq(Document) /\ Len(history') = Len(history) + 1
          /\ \A v \in Versions : history'[v] = history[v]
      BY <1>2, <3>1
    <3>4. ASSUME NEW v \in Versions PROVE DroppedBy(v)' = DroppedBy(v)
      <4>1. v # 1 => v - 1 \in Versions
        OBVIOUS
      <4> QED
        BY <3>3, <4>1 DEF DroppedBy
    <3> QED
      BY <2>1, <3>1, <3>2, <3>3, <3>4
  <2> QED
    BY <2>2, <2>3
<1> QED
  BY <1>3, <1>4

-----------------------------------------------------------------------------
\* The queue only moves forward.
LEMMA PendForward ==
    ASSUME TypeOK, NEW removal \in Removal
    PROVE  /\ Pend(removal) \in [Removal -> {"absent", "pending", "done"}]
           /\ Pend(removal)[removal] # "absent"
           /\ \A r \in Removal : queue[r] # "absent" => Pend(removal)[r] # "absent"
           /\ \A r \in Removal : Pend(removal)[r] = "done" <=> queue[r] = "done"
           /\ \A r \in Removal : r # removal => Pend(removal)[r] = queue[r]
BY DEF TypeOK, Pend

LEMMA AdminTypes ==
    ASSUME Inv, NEW a \in Admins, Load(a) \/ ChangeStep(a) \/ CrashAdmin(a)
    PROVE  TypeOK'
<1> TypeOK /\ Queued
  BY DEF Inv
<1> USE BoundsAssumption DEF schemaVars
<1> DEFINE Changed == /\ admin' \in [Admins -> Change]
                     /\ \A x \in Admins : admin'[x].base \in Versions
<1>v. active \in Nat \ {0} /\ 1 \in Versions
  BY DEF TypeOK
<1>e. ASSUME EndChange(a) PROVE Changed
  BY <1>e, <1>v, AtRest DEF EndChange, TypeOK
<1>m. ASSUME NEW q \in Change, q.base \in Versions, admin' = [admin EXCEPT ![a] = q]
      PROVE  Changed
  BY <1>m DEF TypeOK
<1>s. ASSUME NEW at \in {"committing", "recording"}, admin' = [admin EXCEPT ![a].at = at]
      PROVE  Changed
  <2>1. [admin[a] EXCEPT !.at = at] \in Change
    BY DEF TypeOK, Change
  <2>2. [admin[a] EXCEPT !.at = at].base \in Versions
    BY DEF TypeOK, Change
  <2> QED
    BY <1>m, <1>s, <2>1, <2>2
<1>1. CASE Load(a)
  <2>1. PICK op \in Operations, k \in Kinds :
          admin' = [admin EXCEPT ![a] =
                      [at |-> IF op = "evolve" THEN "checking" ELSE "committing",
                       op |-> op, kind |-> k, base |-> active]]
    BY <1>1 DEF Load
  <2>2. [at |-> IF op = "evolve" THEN "checking" ELSE "committing",
         op |-> op, kind |-> k, base |-> active] \in Change
    BY <1>v DEF Change
  <2>3. Changed
    BY <1>m, <2>1, <2>2 DEF TypeOK
  <2> QED
    BY <1>1, <2>3 DEF Load, TypeOK
<1>2. CASE AssertNoPendingRemoval(a)
  <2>1. Changed
    BY <1>2, <1>e, <1>s DEF AssertNoPendingRemoval
  <2> QED
    BY <1>2, <2>1 DEF AssertNoPendingRemoval, TypeOK
<1>3. CASE CommitSchemaVersion(a)
  <2>1. /\ history' \in Seq(Document) /\ active' \in 1..Len(history')
        /\ Len(history) <= Len(history') /\ Len(history') <= MaxVersion
    BY <1>3, HistoryGrows
  <2>2. Versions \subseteq 1..Len(history')
    BY <2>1 DEF TypeOK
  <2>3. Changed
    BY <1>3, <1>e, <1>s DEF CommitSchemaVersion
  <2>4. /\ rows' \subseteq [kind : Kinds, version : 1..Len(history')]
        /\ marker' \in 1..Len(history')
        /\ \A x \in Admins : admin'[x].base \in 1..Len(history')
        /\ \A c \in Cleaners : cleaner'[c].base \in 1..Len(history')
    BY <1>3, <2>2, <2>3 DEF CommitSchemaVersion, TypeOK
  <2> QED
    BY <1>3, <2>1, <2>3, <2>4 DEF CommitSchemaVersion, TypeOK
<1>4. CASE SetActiveVersion(a)
  BY <1>4, <1>e DEF SetActiveVersion, TypeOK
<1>5. CASE RecordKindRemoval(a)
  <2>1. <<admin[a].kind, admin[a].base + 1>> \in Removal
    BY <1>5 DEF RecordKindRemoval, Queued, Removal, TypeOK, Change
  <2> QED
    BY <1>5, <1>e, <2>1, PendForward DEF RecordKindRemoval, TypeOK
<1>6. CASE CrashAdmin(a)
  <2>1. faults' \in 0..MaxFaults
    BY <1>6 DEF CrashAdmin, TypeOK
  <2>2. Changed
    BY <1>6, <1>e DEF CrashAdmin
  <2> QED
    BY <1>6, <2>1, <2>2 DEF CrashAdmin, TypeOK
<1> QED
  BY <1>1, <1>2, <1>3, <1>4, <1>5, <1>6 DEF ChangeStep

\* A pass that moves on to a well-formed state keeps the cleaners well-formed.
LEMMA GoTypes ==
    ASSUME TypeOK, NEW c \in Cleaners, NEW q, q \in Pass, q.base \in Versions, Go(c, q)
    PROVE  cleaner' \in [Cleaners -> Pass] /\ \A x \in Cleaners : cleaner'[x].base \in Versions
BY DEF TypeOK, Go

LEMMA CleanerTypes ==
    ASSUME Inv, NEW c \in Cleaners, PassStep(c) \/ FailOne(c) \/ CrashCleaner(c)
    PROVE  TypeOK'
<1> TypeOK
  BY DEF Inv
<1> DEFINE p == cleaner[c]
           Cleaned == /\ cleaner' \in [Cleaners -> Pass]
                      /\ \A x \in Cleaners : cleaner'[x].base \in Versions
<1>p. p \in Pass /\ p.base \in Versions
  BY DEF TypeOK
<1>n. NoPass \in Pass /\ NoPass.base \in Versions
  BY AtRest DEF TypeOK
<1>v. active \in Nat /\ active \in Versions
  BY DEF TypeOK
<1>1. CASE StartPass(c)
  <2>1. \A at \in {"scanning", "reconciling"} :
           [NoPass EXCEPT !.at = at, !.base = active] \in Pass
    BY <1>v DEF NoPass, Pass
  <2>2. Cleaned
    BY <1>1, <1>v, <2>1, GoTypes DEF StartPass, NoPass
  <2> QED
    BY <1>1, <2>2 DEF StartPass, TypeOK, schemaVars
<1>2. CASE ReadMarker(c)
  <2>1. Unrecorded(p.base, marker) \subseteq Removal
    BY DEF Unrecorded
  <2>2. /\ [p EXCEPT !.at = "scanning"] \in Pass
        /\ [p EXCEPT !.at = "restoring", !.missing = Unrecorded(p.base, marker)] \in Pass
    BY <1>p, <2>1 DEF Pass
  <2>3. Cleaned
    BY <1>2, <1>p, <2>2, GoTypes DEF ReadMarker, Pass
  <2> QED
    BY <1>2, <2>3 DEF ReadMarker, TypeOK, schemaVars
<1>3. CASE Restore(c)
  <2>1. PICK removal \in p.missing :
            queue' = Pend(removal) /\ Go(c, [p EXCEPT !.missing = @ \ {removal}])
    BY <1>3 DEF Restore
  <2>2. removal \in Removal /\ [p EXCEPT !.missing = @ \ {removal}] \in Pass
    BY <1>p, <2>1 DEF Pass
  <2>3. Cleaned
    BY <1>p, <2>1, <2>2, GoTypes DEF Pass
  <2> QED
    BY <1>3, <2>1, <2>2, <2>3, PendForward DEF Restore, TypeOK, schemaVars
<1>4. CASE SetMarker(c)
  <2>1. [p EXCEPT !.at = "scanning"] \in Pass
    BY <1>p DEF Pass
  <2>2. Cleaned
    BY <1>4, <1>p, <2>1, GoTypes DEF SetMarker, Pass
  <2> QED
    BY <1>4, <1>p, <2>2 DEF SetMarker, ReconciledTo, TypeOK, schemaVars
<1>5. CASE ReadActive(c)
  <2>1. [p EXCEPT !.at = "selecting", !.base = active] \in Pass
    BY <1>p, <1>v DEF Pass
  <2>2. Cleaned
    BY <1>5, <1>p, <2>1, GoTypes DEF ReadActive, Pass, TypeOK
  <2> QED
    BY <1>5, <2>2 DEF ReadActive, TypeOK, schemaVars
<1>6. CASE ReadPending(c)
  <2> DEFINE Selected == {r \in Removal : queue[r] = "pending" /\ r[1] \notin history[p.base]}
  <2>1. [p EXCEPT !.at = "cleaning", !.candidates = Selected] \in Pass
    BY <1>p DEF Pass
  <2>2. Cleaned
    BY <1>6, <1>p, <2>1, GoTypes DEF ReadPending, Pass
  <2> QED
    BY <1>6, <2>2 DEF ReadPending, TypeOK, schemaVars
<1>7. ASSUME NEW removal \in Removal, MaterializeOne(c, removal) PROVE TypeOK'
  <2>1. /\ [p EXCEPT !.candidates = @ \ {removal}] \in Pass
        /\ [p EXCEPT !.at = "finishing", !.missing = {removal},
                     !.candidates = @ \ {removal}] \in Pass
    BY <1>p DEF Pass
  <2>2. Cleaned
    BY <1>7, <1>p, <2>1, GoTypes DEF MaterializeOne, Pass
  <2>3. rows' \subseteq rows
    BY <1>7 DEF MaterializeOne
  <2> QED
    BY <1>7, <2>2, <2>3 DEF MaterializeOne, TypeOK, schemaVars
<1>8. CASE RecordRemoved(c)
  <2>1. [p EXCEPT !.at = "cleaning", !.missing = {}] \in Pass
    BY <1>p DEF Pass
  <2>2. Cleaned
    BY <1>8, <1>p, <2>1, GoTypes DEF RecordRemoved, Pass
  <2>3. queue' \in [Removal -> {"absent", "pending", "done"}]
    BY <1>8 DEF RecordRemoved, TypeOK
  <2> QED
    BY <1>8, <2>2, <2>3 DEF RecordRemoved, TypeOK, schemaVars
<1>9. CASE EndPass(c)
  BY <1>9, <1>n, GoTypes DEF EndPass, TypeOK, schemaVars
<1>10. CASE FailOne(c)
  <2>1. Cleaned /\ \E removal \in Removal : queue' = Pend(removal)
    <3>1. ASSUME NEW removal \in p.candidates, Go(c, [p EXCEPT !.candidates = @ \ {removal}])
          PROVE  Cleaned /\ removal \in Removal
      <4>1. [p EXCEPT !.candidates = @ \ {removal}] \in Pass /\ removal \in Removal
        BY <1>p DEF Pass
      <4> QED
        BY <1>p, <3>1, <4>1, GoTypes DEF Pass
    <3>2. ASSUME Go(c, [p EXCEPT !.at = "cleaning", !.missing = {}])
          PROVE  Cleaned
      <4>1. [p EXCEPT !.at = "cleaning", !.missing = {}] \in Pass
        BY <1>p DEF Pass
      <4> QED
        BY <1>p, <3>2, <4>1, GoTypes DEF Pass
    <3>3. p.missing \subseteq Removal
      BY <1>p DEF Pass
    <3> QED
      BY <1>10, <3>1, <3>2, <3>3 DEF FailOne
  <2>2. faults' \in 0..MaxFaults
    BY <1>10, BoundsAssumption DEF FailOne, TypeOK
  <2> QED
    BY <1>10, <2>1, <2>2, PendForward DEF FailOne, TypeOK, schemaVars
<1>11. CASE CrashCleaner(c)
  <2>1. faults' \in 0..MaxFaults
    BY <1>11, BoundsAssumption DEF CrashCleaner, TypeOK
  <2> QED
    BY <1>11, <2>1, <1>n, GoTypes DEF CrashCleaner, TypeOK, schemaVars
<1> QED
  BY <1>1, <1>2, <1>3, <1>4, <1>5, <1>6, <1>7, <1>8, <1>9, <1>10, <1>11 DEF PassStep

-----------------------------------------------------------------------------
Parts == Linear /\ Valid /\ Undeclared /\ Queued /\ MarkerIsSound /\ Restoring /\ DoneMeansGone

\* A removal taken up again moves the queue only forward.
LEMMA PendParts ==
    ASSUME TypeOK, Queued, MarkerIsSound, Restoring, DoneMeansGone,
           NEW removal \in Removal, removal[2] \in Versions, queue' = Pend(removal),
           UNCHANGED <<schemaVars, rows, marker, rolledBack>>,
           \A c \in Cleaners : /\ cleaner'[c].base = cleaner[c].base
                               /\ cleaner'[c].missing \subseteq cleaner[c].missing
                               /\ cleaner[c].missing \ {removal} \subseteq cleaner'[c].missing
                               /\ cleaner'[c].candidates \subseteq cleaner[c].candidates
                               /\ cleaner'[c].at = cleaner[c].at,
           \A a \in Admins : admin'[a].at = "recording" => admin'[a] = admin[a]
    PROVE  Queued' /\ MarkerIsSound' /\ Restoring' /\ DoneMeansGone'
<1> USE DEF schemaVars
<1>1. Queued'
  BY PendForward DEF Queued
<1>2. MarkerIsSound'
  BY PendForward DEF MarkerIsSound, DroppedBy
<1>3. Restoring'
  <2> SUFFICES ASSUME NEW c \in Cleaners, cleaner'[c].at = "restoring", NEW r \in Removal,
                      r[2] \in 1..cleaner'[c].base, r[1] \in DroppedBy(r[2]), queue'[r] = "absent"
               PROVE  r \in cleaner'[c].missing
    BY DEF Restoring, DroppedBy
  <2>1. queue[r] = "absent" /\ r # removal
    BY PendForward DEF TypeOK
  <2>2. r \in cleaner[c].missing
    BY <2>1 DEF Restoring
  <2> QED
    BY <2>1, <2>2
<1>4. DoneMeansGone'
  <2> SUFFICES ASSUME ~rolledBack
               PROVE  /\ \A r \in Removal : queue'[r] = "done" => Gone(r)
                      /\ \A c \in Cleaners : cleaner'[c].at = "finishing" =>
                            \A r \in cleaner'[c].missing : Gone(r)
    BY DEF DoneMeansGone, Gone
  <2>1. ASSUME NEW r \in Removal, queue'[r] = "done" PROVE Gone(r)
    BY <2>1, PendForward DEF DoneMeansGone
  <2>2. ASSUME NEW c \in Cleaners, cleaner'[c].at = "finishing", NEW r \in cleaner'[c].missing
        PROVE  Gone(r)
    BY <2>2 DEF DoneMeansGone
  <2> QED
    BY <2>1, <2>2
<1> QED
  BY <1>1, <1>2, <1>3, <1>4

\* A step that leaves the schema, the rows and the flag alone keeps what is
\* said of them.
LEMMA RowPartsKept ==
    ASSUME Linear, Valid, Undeclared, UNCHANGED <<schemaVars, rows, rolledBack>>
    PROVE  Linear' /\ Valid' /\ Undeclared'
BY DEF Linear, Valid, Undeclared, DroppedBy, schemaVars

\* A step of an admin that does not touch the schema, nor the queue.
LEMMA AdminPartsKept ==
    ASSUME Parts, UNCHANGED <<schemaVars, rows, queue, marker, cleaner, rolledBack>>,
           \A a \in Admins : admin'[a].at = "recording" => admin'[a] = admin[a]
    PROVE  Parts'
<1>1. Linear' /\ Valid' /\ Undeclared'
  BY RowPartsKept DEF Parts
<1>2. Queued' /\ MarkerIsSound' /\ Restoring' /\ DoneMeansGone'
  BY DEF Parts, Queued, MarkerIsSound, Restoring, DoneMeansGone, Gone, DroppedBy, schemaVars
<1> QED
  BY <1>1, <1>2 DEF Parts

LEMMA AdminStep ==
    ASSUME Inv, NEW a \in Admins, Load(a) \/ ChangeStep(a) \/ CrashAdmin(a)
    PROVE  Parts'
<1> TypeOK /\ Parts
  BY DEF Inv, Parts
<1>0. ASSUME EndChange(a), NEW x \in Admins, admin'[x].at = "recording"
      PROVE  admin'[x] = admin[x]
  BY <1>0, AtRest DEF EndChange, TypeOK
<1>1. CASE Load(a)
  <2>1. \A x \in Admins : admin'[x].at = "recording" => admin'[x] = admin[x]
    BY <1>1 DEF Load, TypeOK
  <2> QED
    BY <1>1, <2>1, AdminPartsKept DEF Load
<1>2. CASE AssertNoPendingRemoval(a)
  <2>1. ASSUME admin' = [admin EXCEPT ![a].at = "committing"], NEW x \in Admins,
               admin'[x].at = "recording"
        PROVE  admin'[x] = admin[x]
    BY <2>1 DEF TypeOK, Change
  <2>2. \A x \in Admins : admin'[x].at = "recording" => admin'[x] = admin[x]
    BY <1>0, <1>2, <2>1 DEF AssertNoPendingRemoval
  <2> QED
    BY <1>2, <2>2, AdminPartsKept DEF AssertNoPendingRemoval
<1>3. CASE CommitSchemaVersion(a)
  <2>1. CASE ~Commits(a)
    BY <1>0, <1>3, <2>1, AdminPartsKept DEF CommitSchemaVersion
  <2>2. CASE Commits(a)
    <3>1. /\ Len(history) <= Len(history') /\ history' \in Seq(Document)
          /\ \A v \in Versions : history'[v] = history[v]
          /\ \A v \in Versions : DroppedBy(v)' = DroppedBy(v)
      BY <1>3, HistoryGrows
    <3>2. /\ admin[a].base = active /\ active' = active + 1
          /\ admin[a].base + 1 \in 1..Len(history')
          /\ UNCHANGED <<rows, queue, marker, cleaner, rolledBack>>
      BY <1>3, <2>2, HistoryGrows DEF CommitSchemaVersion, Commits
    <3>3. Versions \subseteq 1..Len(history')
      BY <3>1 DEF TypeOK
    <3>4. Linear'
      BY <1>3, <2>2, <3>2 DEF CommitSchemaVersion, HistoryAfter, Parts, Linear, TypeOK
    <3>5. Valid'
      BY <3>1, <3>2 DEF Parts, Valid, TypeOK
    <3>6. Undeclared'
      <4> SUFFICES ASSUME ~rolledBack, NEW r \in rows, r.kind \notin history'[active']
                   PROVE  \E d \in (r.version + 1)..active' : r.kind \in DroppedBy(d)'
        BY <3>2 DEF Undeclared
      <4>0. active \in Versions /\ r.version \in Versions /\ active = Len(history)
        BY DEF TypeOK, Parts, Linear
      <4>1. CASE r.kind \in history[active]
        <5>1. r.kind \in DroppedBy(active)'
          <6>1. active' # 1 /\ active' - 1 = active /\ history'[active] = history[active]
            BY <3>1, <3>2, <4>0
          <6> QED
            BY <4>1, <6>1 DEF DroppedBy
        <5>2. active' \in (r.version + 1)..active'
          BY <3>2, <4>0
        <5> QED
          BY <5>1, <5>2
      <4>2. CASE r.kind \notin history[active]
        <5>1. PICK d \in (r.version + 1)..active : r.kind \in DroppedBy(d)
          BY <4>2 DEF Parts, Undeclared
        <5>2. d \in Versions /\ d \in (r.version + 1)..active'
          BY <3>2, <4>0, <5>1
        <5> QED
          BY <3>1, <5>1, <5>2
      <4> QED
        BY <4>1, <4>2
    <3>7. Queued'
      <4>1. ASSUME NEW x \in Admins, admin'[x].at = "recording"
            PROVE  admin'[x].base + 1 \in 1..Len(history')
        <5>1. CASE x = a
          <6>1. admin'[x].base = admin[a].base
            BY <1>3, <2>2, <4>1, <5>1, AtRest DEF CommitSchemaVersion, EndChange, TypeOK, Change
          <6> QED
            BY <3>2, <6>1
        <5>2. CASE x # a
          BY <1>3, <2>2, <3>3, <4>1, <5>2
          DEF CommitSchemaVersion, EndChange, TypeOK, Parts, Queued
        <5> QED
          BY <5>1, <5>2
      <4> QED
        BY <3>2, <3>3, <4>1 DEF Parts, Queued
    <3>8. MarkerIsSound'
      <4>1. 1..marker \subseteq Versions
        BY DEF TypeOK
      <4> QED
        BY <3>1, <3>2, <4>1 DEF Parts, MarkerIsSound
    <3>9. Restoring'
      <4>1. \A c \in Cleaners : 1..cleaner[c].base \subseteq Versions
        BY DEF TypeOK
      <4> QED
        BY <3>1, <3>2, <4>1 DEF Parts, Restoring
    <3>10. DoneMeansGone'
      BY <3>2 DEF Parts, DoneMeansGone, Gone
    <3> QED
      BY <3>4, <3>5, <3>6, <3>7, <3>8, <3>9, <3>10 DEF Parts
  <2> QED
    BY <2>1, <2>2
<1>4. CASE SetActiveVersion(a)
  <2>0. active \in Nat /\ active' \in Versions /\ (active' < active => rolledBack') /\ (rolledBack => rolledBack')
    BY <1>4 DEF SetActiveVersion, TypeOK
  <2>1. active' \in Versions /\ (~rolledBack' => ~rolledBack /\ active' >= active)
    BY <2>0
  <2>2. ~rolledBack' => ~rolledBack /\ active' = active
    BY <2>1 DEF Parts, Linear, TypeOK
  <2>3. UNCHANGED <<history, rows, queue, marker, cleaner>>
    BY <1>4 DEF SetActiveVersion
  <2>4. Linear' /\ Valid' /\ Undeclared' /\ DoneMeansGone'
    BY <2>2, <2>3 DEF Parts, Linear, Valid, Undeclared, DoneMeansGone, Gone, DroppedBy
  <2>5. MarkerIsSound' /\ Restoring'
    BY <2>3 DEF Parts, MarkerIsSound, Restoring, DroppedBy
  <2>6. Queued'
    BY <1>0, <1>4, <2>3 DEF SetActiveVersion, Parts, Queued
  <2> QED
    BY <2>4, <2>5, <2>6 DEF Parts
<1>5. CASE RecordKindRemoval(a)
  <2> DEFINE removal == <<admin[a].kind, admin[a].base + 1>>
  <2>1. removal \in Removal /\ removal[2] \in Versions
    <3>1. admin[a].kind \in Kinds /\ admin[a].base + 1 \in Versions
      BY <1>5 DEF RecordKindRemoval, Parts, Queued, TypeOK, Change
    <3>2. Versions \subseteq 1..MaxVersion
      BY BoundsAssumption DEF TypeOK
    <3> QED
      BY <3>1, <3>2 DEF Removal
  <2> HIDE DEF removal
  <2>2. queue' = Pend(removal) /\ UNCHANGED <<schemaVars, rows, marker, cleaner, rolledBack>>
    BY <1>5 DEF RecordKindRemoval, removal
  <2>3. Queued' /\ MarkerIsSound' /\ Restoring' /\ DoneMeansGone'
    BY <1>0, <1>5, <2>1, <2>2, PendParts DEF RecordKindRemoval, Parts
  <2> QED
    BY <2>2, <2>3, RowPartsKept DEF Parts
<1>6. CASE CrashAdmin(a)
  BY <1>0, <1>6, AdminPartsKept DEF CrashAdmin
<1> QED
  BY <1>1, <1>2, <1>3, <1>4, <1>5, <1>6 DEF ChangeStep

\* A pass that moves on without touching the queue, the rows or the marker.
LEMMA PassPartsKept ==
    ASSUME TypeOK, Parts, NEW c \in Cleaners, NEW q, Go(c, q),
           UNCHANGED <<schemaVars, rows, queue, marker, admin, rolledBack>>,
           \A r \in q.missing \cup q.candidates : r[2] \in Versions,
           q.at = "restoring" =>
              \A r \in Removal :
                 (r[2] \in 1..q.base /\ r[1] \in DroppedBy(r[2]) /\ queue[r] = "absent")
                     => r \in q.missing,
           q.at # "finishing"
    PROVE  Parts'
<1>1. cleaner' = [cleaner EXCEPT ![c] = q] /\ cleaner'[c] = q
  BY DEF Go, TypeOK
<1>2. Linear' /\ Valid' /\ Undeclared'
  BY RowPartsKept DEF Parts
<1>3. Queued'
  BY <1>1 DEF Parts, Queued, TypeOK, schemaVars
<1>4. MarkerIsSound'
  BY DEF Parts, MarkerIsSound, DroppedBy, schemaVars
<1>5. Restoring'
  BY <1>1 DEF Parts, Restoring, DroppedBy, TypeOK, schemaVars
<1>6. DoneMeansGone'
  BY <1>1 DEF Parts, DoneMeansGone, Gone, TypeOK
<1> QED
  BY <1>2, <1>3, <1>4, <1>5, <1>6 DEF Parts

LEMMA CleanerStep ==
    ASSUME Inv, NEW c \in Cleaners, PassStep(c) \/ FailOne(c) \/ CrashCleaner(c)
    PROVE  Parts'
<1> TypeOK /\ Parts
  BY DEF Inv, Parts
<1> DEFINE p == cleaner[c]
<1>p. p \in Pass /\ p.base \in Versions /\ p.missing \subseteq Removal /\ p.candidates \subseteq Removal
  BY DEF TypeOK, Pass
<1>q. \A r \in p.missing \cup p.candidates : r[2] \in Versions
  BY DEF Parts, Queued
<1>1. CASE StartPass(c)
  <2>1. PICK at \in {"scanning", "reconciling"} :
           Go(c, [NoPass EXCEPT !.at = at, !.base = active])
    BY <1>1 DEF StartPass
  <2> QED
    BY <1>1, <2>1, PassPartsKept DEF StartPass, NoPass
<1>2. CASE ReadMarker(c)
  <2> DEFINE lacking == Unrecorded(p.base, marker)
  <2>1. CASE Go(c, [p EXCEPT !.at = "scanning"])
    BY <1>2, <1>p, <1>q, <2>1, PassPartsKept DEF ReadMarker, Pass
  <2>2. CASE Go(c, [p EXCEPT !.at = "restoring", !.missing = lacking])
    <3>1. ASSUME NEW r \in Removal, r[2] \in 1..p.base, r[1] \in DroppedBy(r[2]),
                 queue[r] = "absent"
          PROVE  r \in lacking
      <4>1. r[2] \notin 1..marker
        BY <3>1 DEF Parts, MarkerIsSound
      <4>2. r[2] \in (marker + 1)..p.base
        BY <1>p, <3>1, <4>1 DEF TypeOK
      <4> QED
        BY <3>1, <4>2 DEF Unrecorded
    <3>2. \A r \in lacking : r[2] \in Versions
      <4>1. (marker + 1)..p.base \subseteq Versions
        BY <1>p DEF TypeOK
      <4> QED
        BY <4>1 DEF Unrecorded
    <3> DEFINE q == [p EXCEPT !.at = "restoring", !.missing = lacking]
    <3>3. q.at = "restoring" /\ q.base = p.base /\ q.missing = lacking /\ q.candidates = p.candidates
      BY <1>p DEF Pass
    <3> HIDE DEF q, lacking
    <3>4. Go(c, q)
      BY <2>2 DEF q
    <3>5. \A r \in q.missing \cup q.candidates : r[2] \in Versions
      BY <1>q, <3>2, <3>3
    <3> QED
      BY <1>2, <3>1, <3>3, <3>4, <3>5, PassPartsKept DEF ReadMarker
  <2> QED
    BY <1>2, <2>1, <2>2 DEF ReadMarker
<1>3. CASE Restore(c)
  <2>1. PICK removal \in p.missing :
            queue' = Pend(removal) /\ Go(c, [p EXCEPT !.missing = @ \ {removal}])
    BY <1>3 DEF Restore
  <2>2. removal \in Removal /\ removal[2] \in Versions
    BY <1>p, <1>q
  <2>3. ASSUME NEW x \in Cleaners
        PROVE  /\ cleaner'[x].base = cleaner[x].base
               /\ cleaner'[x].missing \subseteq cleaner[x].missing
               /\ cleaner[x].missing \ {removal} \subseteq cleaner'[x].missing
               /\ cleaner'[x].candidates \subseteq cleaner[x].candidates
               /\ cleaner'[x].at = cleaner[x].at
    BY <1>p, <2>1 DEF Go, TypeOK, Pass
  <2>4. UNCHANGED <<schemaVars, rows, marker, admin, rolledBack>>
    BY <1>3 DEF Restore
  <2>5. Queued' /\ MarkerIsSound' /\ Restoring' /\ DoneMeansGone'
    BY <2>1, <2>2, <2>3, <2>4, PendParts DEF Parts
  <2> QED
    BY <2>4, <2>5, RowPartsKept DEF Parts
<1>4. CASE SetMarker(c)
  <2>1. Go(c, [p EXCEPT !.at = "scanning"])
    BY <1>4 DEF SetMarker
  <2>2. cleaner' = [cleaner EXCEPT ![c].at = "scanning"]
    BY <2>1 DEF Go
  <2>3. Linear' /\ Valid' /\ Undeclared'
    BY <1>4, RowPartsKept DEF SetMarker, Parts
  <2>4. MarkerIsSound'
    <3>1. \A r \in Removal : (r[2] \in 1..p.base /\ r[1] \in DroppedBy(r[2])) => queue[r] # "absent"
      BY <1>4 DEF SetMarker, Parts, Restoring
    <3> QED
      BY <1>4, <3>1 DEF SetMarker, ReconciledTo, MarkerIsSound, DroppedBy, schemaVars
  <2>5. /\ UNCHANGED <<schemaVars, rows, queue, admin, rolledBack>>
        /\ \A x \in Cleaners : cleaner'[x] = IF x = c THEN [p EXCEPT !.at = "scanning"] ELSE cleaner[x]
        /\ LET q == [p EXCEPT !.at = "scanning"] IN
           q.at = "scanning" /\ q.missing = p.missing /\ q.candidates = p.candidates
    BY <1>4, <1>p, <2>1 DEF SetMarker, Go, TypeOK, Pass
  <2>6. Queued' /\ Restoring' /\ DoneMeansGone'
    BY <2>5 DEF Parts, Queued, Restoring, DoneMeansGone, Gone, DroppedBy, schemaVars
  <2> QED
    BY <2>3, <2>4, <2>6 DEF Parts
<1>5. CASE ReadActive(c)
  BY <1>5, <1>p, <1>q, PassPartsKept DEF ReadActive, Pass
<1>6. CASE ReadPending(c)
  <2> DEFINE found == {r \in Removal : queue[r] = "pending" /\ r[1] \notin history[p.base]}
  <2>1. \A r \in found : r[2] \in Versions
    BY DEF Parts, Queued
  <2> QED
    BY <1>6, <1>p, <1>q, <2>1, PassPartsKept DEF ReadPending, Pass
<1>7. ASSUME NEW removal \in Removal, MaterializeOne(c, removal) PROVE Parts'
  <2>1. CASE Live(c, removal[1])
    BY <1>7, <1>p, <1>q, <2>1, PassPartsKept DEF MaterializeOne, Pass
  <2>2. CASE ~Live(c, removal[1])
    <3> DEFINE q == [p EXCEPT !.at = "finishing", !.missing = {removal},
                              !.candidates = @ \ {removal}]
    <3>1. /\ q.at = "finishing" /\ q.missing = {removal} /\ q.candidates \subseteq p.candidates
      BY <1>p DEF Pass
    <3>2. cleaner' = [cleaner EXCEPT ![c] = q] /\ rows' = {r \in rows : r.kind # removal[1]}
      BY <1>7, <2>2 DEF MaterializeOne, Go
    <3> HIDE DEF q
    <3>3. cleaner'[c] = q /\ \A x \in Cleaners \ {c} : cleaner'[x] = cleaner[x]
      BY <3>2 DEF TypeOK
    <3>4. UNCHANGED <<schemaVars, queue, marker, admin, rolledBack>>
      BY <1>7 DEF MaterializeOne
    <3>5. Linear' /\ Valid' /\ Undeclared' /\ MarkerIsSound'
      BY <3>2, <3>4 DEF Parts, Linear, Valid, Undeclared, MarkerIsSound, DroppedBy, schemaVars
    <3>6. Queued'
      <4>1. removal[2] \in Versions
        BY <1>7, <1>q DEF MaterializeOne
      <4> QED
        BY <1>q, <3>1, <3>3, <3>4, <4>1 DEF Parts, Queued, schemaVars
    <3>7. Restoring'
      BY <3>1, <3>3, <3>4 DEF Parts, Restoring, DroppedBy, schemaVars
    <3>8. DoneMeansGone'
      BY <3>1, <3>2, <3>3, <3>4 DEF Parts, DoneMeansGone, Gone
    <3> QED
      BY <3>5, <3>6, <3>7, <3>8 DEF Parts
  <2> QED
    BY <2>1, <2>2
<1>8. CASE RecordRemoved(c)
  <2> DEFINE q == [p EXCEPT !.at = "cleaning", !.missing = {}]
  <2>1. q.at = "cleaning" /\ q.missing = {} /\ q.candidates = p.candidates
    BY <1>p DEF Pass
  <2>2. /\ cleaner' = [cleaner EXCEPT ![c] = q]
        /\ queue' = [r \in Removal |-> IF r \in p.missing THEN "done" ELSE queue[r]]
    BY <1>8 DEF RecordRemoved, Go
  <2> HIDE DEF q
  <2>3. cleaner'[c] = q /\ \A x \in Cleaners \ {c} : cleaner'[x] = cleaner[x]
    BY <2>2 DEF TypeOK
  <2>4. UNCHANGED <<schemaVars, rows, marker, admin, rolledBack>> /\ p.at = "finishing"
    BY <1>8 DEF RecordRemoved
  <2>5. Linear' /\ Valid' /\ Undeclared'
    BY <2>4, RowPartsKept DEF Parts
  <2>6. Queued'
    BY <1>q, <2>1, <2>2, <2>3, <2>4 DEF Parts, Queued, schemaVars
  <2>7. MarkerIsSound' /\ Restoring'
    BY <2>1, <2>2, <2>3, <2>4 DEF Parts, MarkerIsSound, Restoring, DroppedBy, schemaVars
  <2>8. DoneMeansGone'
    BY <2>1, <2>2, <2>3, <2>4 DEF Parts, DoneMeansGone, Gone
  <2> QED
    BY <2>5, <2>6, <2>7, <2>8 DEF Parts
<1>9. CASE EndPass(c)
  BY <1>9, AtRest, PassPartsKept DEF EndPass
<1>10. CASE FailOne(c)
  <2>1. PICK removal \in p.missing \cup p.candidates :
          /\ queue' = Pend(removal) /\ p.at \in {"cleaning", "finishing"}
          /\ \/ Go(c, [p EXCEPT !.candidates = @ \ {removal}])
             \/ Go(c, [p EXCEPT !.at = "cleaning", !.missing = {}]) /\ p.at = "finishing"
    BY <1>10 DEF FailOne
  <2>2. removal \in Removal /\ removal[2] \in Versions
    BY <1>p, <1>q, <2>1
  <2>3. UNCHANGED <<schemaVars, rows, marker, admin, rolledBack>>
    BY <1>10 DEF FailOne
  <2>4. Linear' /\ Valid' /\ Undeclared'
    BY <2>3, RowPartsKept DEF Parts
  <2>5. ASSUME NEW x \in Cleaners
        PROVE  /\ cleaner'[x].base = cleaner[x].base
               /\ cleaner'[x].missing \subseteq cleaner[x].missing
               /\ cleaner'[x].candidates \subseteq cleaner[x].candidates
               /\ cleaner'[x].at # cleaner[x].at => cleaner'[x].at = "cleaning"
               /\ cleaner'[x].at = "restoring" => cleaner'[x].missing = cleaner[x].missing
    <3>1. CASE Go(c, [p EXCEPT !.candidates = @ \ {removal}])
      BY <1>p, <3>1 DEF Go, TypeOK, Pass
    <3>2. CASE Go(c, [p EXCEPT !.at = "cleaning", !.missing = {}]) /\ p.at = "finishing"
      BY <1>p, <3>2 DEF Go, TypeOK, Pass
    <3> QED
      BY <2>1, <3>1, <3>2
  <2>6. Queued'
    BY <2>2, <2>1, <2>3, <2>5, PendForward DEF Parts, Queued, schemaVars
  <2>7. MarkerIsSound'
    BY <2>1, <2>2, <2>3, PendForward DEF Parts, MarkerIsSound, DroppedBy, schemaVars
  <2>8. Restoring'
    <3> SUFFICES ASSUME NEW x \in Cleaners, cleaner'[x].at = "restoring", NEW r \in Removal,
                        r[2] \in 1..cleaner[x].base, r[1] \in DroppedBy(r[2]), queue'[r] = "absent"
                 PROVE  r \in cleaner[x].missing
      BY <2>3, <2>5 DEF Restoring, DroppedBy, schemaVars
    <3>1. queue[r] = "absent" /\ cleaner[x].at = "restoring"
      BY <2>1, <2>2, <2>5, PendForward DEF TypeOK
    <3> QED
      BY <3>1 DEF Parts, Restoring
  <2>9. DoneMeansGone'
    BY <2>1, <2>2, <2>3, <2>5, PendForward DEF Parts, DoneMeansGone, Gone
  <2> QED
    BY <2>4, <2>6, <2>7, <2>8, <2>9 DEF Parts
<1>11. CASE CrashCleaner(c)
  BY <1>11, AtRest, PassPartsKept DEF CrashCleaner
<1> QED
  BY <1>1, <1>2, <1>3, <1>4, <1>5, <1>6, <1>7, <1>8, <1>9, <1>10, <1>11 DEF PassStep

LEMMA StepInv == Inv /\ [Next]_vars => Inv'
<1> SUFFICES ASSUME Inv, [Next]_vars PROVE TypeOK' /\ Parts'
  BY DEF Inv, Parts
<1> TypeOK /\ Parts
  BY DEF Inv, Parts
<1>1. CASE UNCHANGED vars
  <2>1. TypeOK'
    BY <1>1 DEF TypeOK, vars, schemaVars
  <2>2. Parts'
    BY <1>1, AdminPartsKept DEF vars, schemaVars
  <2> QED
    BY <2>1, <2>2
<1>2. CASE WriteRow
  <2>1. PICK k \in history[active] : rows' = rows \cup {RowOf(k, active)}
    BY <1>2 DEF WriteRow
  <2>2. UNCHANGED <<schemaVars, queue, marker, admin, cleaner, rolledBack, changes, faults>>
    BY <1>2 DEF WriteRow
  <2>3. active \in Versions /\ history[active] \in Document
    BY DEF TypeOK
  <2>4. RowOf(k, active) \in [kind : Kinds, version : Versions]
    BY <2>1, <2>3
  <2>5. TypeOK'
    BY <2>1, <2>2, <2>4 DEF TypeOK, schemaVars
  <2>6. Linear' /\ Valid'
    BY <2>1, <2>2 DEF Parts, Linear, Valid, schemaVars
  <2>7. Undeclared'
    BY <2>1, <2>2 DEF Parts, Undeclared, DroppedBy, schemaVars
  <2>8. Queued' /\ MarkerIsSound' /\ Restoring'
    BY <2>2 DEF Parts, Queued, MarkerIsSound, Restoring, DroppedBy, schemaVars
  <2>9. DoneMeansGone'
    <3> SUFFICES ASSUME ~rolledBack
                 PROVE  /\ \A r \in Removal : queue[r] = "done" => Gone(r)'
                        /\ \A c \in Cleaners : cleaner[c].at = "finishing" =>
                              \A r \in cleaner[c].missing : Gone(r)'
      BY <2>2 DEF DoneMeansGone
    <3>1. ASSUME NEW r, r[2] \in Versions, Gone(r) PROVE Gone(r)'
      <4>1. active >= r[2]
        BY <3>1 DEF Parts, Linear, TypeOK
      <4> QED
        BY <2>1, <3>1, <4>1 DEF Gone
    <3>2. \A r \in Removal : queue[r] = "done" => r[2] \in Versions
      BY DEF Parts, Queued
    <3>3. \A c \in Cleaners : \A r \in cleaner[c].missing : r[2] \in Versions
      BY DEF Parts, Queued
    <3> QED
      BY <3>1, <3>2, <3>3 DEF Parts, DoneMeansGone
  <2> QED
    BY <2>5, <2>6, <2>7, <2>8, <2>9 DEF Parts
<1>3. ASSUME NEW a \in Admins, Load(a) \/ ChangeStep(a) \/ CrashAdmin(a)
      PROVE  TypeOK' /\ Parts'
  BY <1>3, AdminTypes, AdminStep
<1>4. ASSUME NEW c \in Cleaners, PassStep(c) \/ FailOne(c) \/ CrashCleaner(c)
      PROVE  TypeOK' /\ Parts'
  BY <1>4, CleanerTypes, CleanerStep
<1> QED
  BY <1>1, <1>2, <1>3, <1>4 DEF Next

\* For any kinds, admins, cleaners and bounds, the invariant holds throughout.
LEMMA InvHolds == Spec => []Inv
<1>1. Init => Inv
  BY InitInv
<1>2. Inv /\ [Next]_vars => Inv'
  BY StepInv
<1> QED
  BY <1>1, <1>2, PTL DEF Spec

\* Every variable keeps its type.
THEOREM TypesHold == Spec => []TypeOK
<1>1. Inv => TypeOK
  BY DEF Inv
<1> QED
  BY <1>1, InvHolds, PTL

\* Unless the schema is rolled back, the rows of a kind that is not declared
\* are queued for deletion or will be found by the next reconciliation.
THEOREM NoRowIsForgotten == Spec => []NothingForgotten
<1>1. Inv => NothingForgotten
  <2> SUFFICES ASSUME Inv, ~rolledBack, NEW r \in rows, r.kind \notin history[active]
               PROVE  \E d \in (r.version + 1)..active :
                         /\ r.kind \in DroppedBy(d)
                         /\ \/ queue[<<r.kind, d>>] = "pending"
                            \/ queue[<<r.kind, d>>] = "absent" /\ marker < d
    BY DEF NothingForgotten, EveryDropIsFound
  <2>1. PICK d \in (r.version + 1)..active : r.kind \in DroppedBy(d)
    BY DEF Inv, Undeclared
  <2>2. r.kind \in Kinds /\ r.version \in Nat /\ active \in Nat /\ active <= MaxVersion
    BY BoundsAssumption DEF Inv, TypeOK
  <2> DEFINE rem == <<r.kind, d>>
  <2>3. d \in Nat \ {0} /\ d <= active /\ d <= MaxVersion /\ d > r.version
    BY <2>1, <2>2, BoundsAssumption
  <2>4. rem \in Removal /\ rem[1] = r.kind /\ rem[2] = d
    BY <2>2, <2>3, BoundsAssumption DEF Removal
  <2> HIDE DEF rem
  <2>5. queue[rem] # "done"
    <3>1. SUFFICES ASSUME Gone(rem) PROVE FALSE
      BY <2>4 DEF Inv, DoneMeansGone
    <3> QED
      BY <3>1, <2>2, <2>3, <2>4 DEF Gone
  <2>6. queue[rem] = "absent" => marker < d
    <3>1. marker \in Nat
      BY DEF Inv, TypeOK
    <3>2. d \in 1..marker => queue[rem] # "absent"
      BY <2>1, <2>4 DEF Inv, MarkerIsSound
    <3> QED
      BY <2>3, <3>1, <3>2
  <2>7. queue[rem] \in {"absent", "pending", "done"}
    BY <2>4 DEF Inv, TypeOK
  <2> QED
    BY <2>1, <2>5, <2>6, <2>7 DEF rem
<1> QED
  BY <1>1, InvHolds, PTL

\* Kind removal implements schema versioning: a cleanup deletes the rows of a
\* kind only while the active version does not declare it.
THEOREM RemovalImplementsHistory == Spec => ImplementsHistory
<1>1. Init => Promise!Init
  BY DEF Init, Promise!Init, Promise!Document
<1>2. Inv /\ [Next]_vars => [Promise!Next]_<<history, active, rows>>
  <2> SUFFICES ASSUME Inv, [Next]_vars PROVE [Promise!Next]_<<history, active, rows>>
    OBVIOUS
  <2> TypeOK
    BY DEF Inv
  <2>1. CASE WriteRow
    <3>1. PICK k \in history[active] : rows' = rows \cup {RowOf(k, active)}
      BY <2>1 DEF WriteRow
    <3>2. Promise!Admit({RowOf(k, active)})
      BY <2>1, <3>1 DEF WriteRow, Promise!Admit, schemaVars
    <3>3. {RowOf(k, active)} \in SUBSET {Promise!RowOf(x, active) : x \in history[active]}
      BY <3>1 DEF Promise!RowOf
    <3> QED
      BY <3>2, <3>3 DEF Promise!Next
  <2>2. ASSUME NEW a \in Admins, CommitSchemaVersion(a), Commits(a)
        PROVE  Promise!Next
    <3>1. /\ active' = admin[a].base + 1 /\ history' = HistoryAfter(a) /\ UNCHANGED rows
      BY <2>2 DEF CommitSchemaVersion
    <3>2. CASE admin[a].base + 1 \in Versions
      <4>1. Promise!Activate(admin[a].base + 1)
        BY <3>1, <3>2 DEF HistoryAfter, Promise!Activate
      <4> QED
        BY <3>2, <4>1 DEF Promise!Next
    <3>3. CASE admin[a].base + 1 \notin Versions
      <4>1. history' = Append(history, Target(a))
        BY <3>1, <3>3 DEF HistoryAfter
      <4>2. Target(a) \in Promise!Document
        <5>1. admin[a].base \in 1..Len(history) /\ admin[a].kind \in Kinds
          BY DEF TypeOK, Change
        <5>2. history[admin[a].base] \in SUBSET Kinds
          BY <5>1 DEF TypeOK
        <5> QED
          BY <5>1, <5>2 DEF Target, Promise!Document
      <4>3. admin[a].base + 1 = Len(history')
        <5>1. admin[a].base \in 1..Len(history) /\ history \in Seq(SUBSET Kinds)
          BY DEF TypeOK
        <5>2. admin[a].base = Len(history)
          BY <3>3, <5>1
        <5> QED
          BY <4>1, <4>2, <5>1, <5>2 DEF Promise!Document
      <4>4. Promise!Publish(Target(a))
        BY <3>1, <4>1, <4>3 DEF Promise!Publish
      <4> QED
        BY <4>2, <4>4 DEF Promise!Next
    <3> QED
      BY <3>2, <3>3
  <2>3. ASSUME NEW a \in Admins, SetActiveVersion(a)
        PROVE  [Promise!Next]_<<history, active, rows>>
    <3>1. active' \in Versions /\ Promise!Activate(active')
      BY <2>3 DEF SetActiveVersion, Promise!Activate, TypeOK
    <3> QED
      BY <3>1 DEF Promise!Next
  <2>4. ASSUME NEW c \in Cleaners, NEW removal \in Removal, MaterializeOne(c, removal),
               ~Live(c, removal[1])
        PROVE  Promise!Next
    <3>1. removal[1] \in Kinds /\ Promise!Reclaim(removal[1])
      BY <2>4 DEF MaterializeOne, Live, Removal, Promise!Reclaim, schemaVars
    <3> QED
      BY <3>1 DEF Promise!Next
  <2>5. ASSUME NEW a \in Admins, CommitSchemaVersion(a), ~Commits(a)
        PROVE  UNCHANGED <<history, active, rows>>
    BY <2>5 DEF CommitSchemaVersion, schemaVars
  <2>6. ASSUME NEW c \in Cleaners, NEW removal \in Removal, MaterializeOne(c, removal),
               Live(c, removal[1])
        PROVE  UNCHANGED <<history, active, rows>>
    BY <2>6 DEF MaterializeOne, schemaVars
  <2>7. ASSUME NEW a \in Admins,
               \/ Load(a) \/ AssertNoPendingRemoval(a) \/ RecordKindRemoval(a)
               \/ CrashAdmin(a)
        PROVE  UNCHANGED <<history, active, rows>>
    BY <2>7 DEF Load, AssertNoPendingRemoval, RecordKindRemoval, CrashAdmin, schemaVars
  <2>8. ASSUME NEW c \in Cleaners,
               \/ StartPass(c) \/ ReadMarker(c) \/ Restore(c) \/ SetMarker(c) \/ ReadActive(c)
               \/ ReadPending(c) \/ RecordRemoved(c) \/ EndPass(c) \/ FailOne(c)
               \/ CrashCleaner(c)
        PROVE  UNCHANGED <<history, active, rows>>
    BY <2>8 DEF StartPass, ReadMarker, Restore, SetMarker, ReadActive, ReadPending,
                RecordRemoved, EndPass, FailOne, CrashCleaner, schemaVars
  <2>9. CASE UNCHANGED vars
    BY <2>9 DEF vars, schemaVars
  <2> QED
    BY <2>1, <2>2, <2>3, <2>4, <2>5, <2>6, <2>7, <2>8, <2>9 DEF Next, ChangeStep, PassStep
<1> QED
  BY <1>1, <1>2, InvHolds, PTL DEF Spec, ImplementsHistory, Promise!Spec
=============================================================================
