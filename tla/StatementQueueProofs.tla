------------------------ MODULE StatementQueueProofs ------------------------
(***************************************************************************)
(* Safety of the statement queue, for any branches, units and settings.    *)
(***************************************************************************)
EXTENDS StatementQueue, FiniteSetTheorems, TLAPS

\* The unit at the head of the chain holds the connection alone, and the
\* boundary statement is sent only over an empty, shut queue.
Exclusive ==
    /\ \A b \in wire : HoldsSlot(b)
    /\ closed <=> frame # "running"
    /\ frame \in {"ending", "ended"} => queue = <<>>

\* A branch is chained at most once, and a unit behind the head has not begun.
Chain ==
    /\ \A i, j \in DOMAIN queue : queue[i] = queue[j] => i = j
    /\ \A b \in Queued : statement[b] # "none"
    /\ \A i \in DOMAIN queue : i # 1 => statement[queue[i]] = First(unit[queue[i]])

\* The search that holds the connection accounts for the setting.
SettingOf(b) ==
    IF unit[b] # Plain /\ statement[b] \in {"run", "restore"} THEN unit[b] ELSE Default

Accounted ==
    ~aborted =>
        /\ queue = <<>> => setting = Default
        /\ queue # <<>> =>
              /\ setting = SettingOf(Head(queue))
              /\ unit[Head(queue)] = Plain => statement[Head(queue)] = "run"
              /\ statement[Head(queue)] \in {"override", "restore"}
                    => snapshot[Head(queue)] = Default
              /\ unit[Head(queue)] # Plain /\ statement[Head(queue)] = "run"
                    => snapshot[Head(queue)] = Default

Inv == TypeOK /\ Exclusive /\ Chain /\ Accounted

USE UnitsAssumption, DefaultAssumption, BoundAssumption

-----------------------------------------------------------------------------
LEMMA InitInv == Init => Inv
  <1> SUFFICES ASSUME Init PROVE Inv
    OBVIOUS
  <1> USE DEF Init
  <1>1. DOMAIN queue = {} /\ queue \in Seq(Branches)
    OBVIOUS
  <1>2. TypeOK
    <2>1. /\ unit \in [Branches -> Units \cup {Plain}]
          /\ statement \in [Branches -> Statements \cup {"none"}]
          /\ snapshot \in [Branches -> Settings \cup {NotSaved}]
      OBVIOUS
    <2>2. submitted \in [Branches -> 0..MaxUnits] /\ wire \subseteq Branches
      OBVIOUS
    <2>3. /\ closed \in BOOLEAN /\ aborted \in BOOLEAN /\ setting \in Settings
          /\ frame \in {"running", "draining", "ending", "ended"}
      OBVIOUS
    <2> QED BY <1>1, <2>1, <2>2, <2>3 DEF TypeOK
  <1>3. Exclusive
    BY DEF Exclusive
  <1>4. Chain
    BY <1>1 DEF Chain, Queued
  <1>5. Accounted
    BY DEF Accounted
  <1> QED BY <1>2, <1>3, <1>4, <1>5 DEF Inv

LEMMA SubmitInv ==
  ASSUME Inv, NEW b \in Branches, Submit(b)
  PROVE  Inv'
  <1> USE DEF Inv, Submit
  <1>1. CASE closed
    BY <1>1 DEF TypeOK, Exclusive, Chain, Accounted, Statements, Queued,
                HoldsSlot, SettingOf
  <1>2. CASE ~closed
    <2>1. PICK u \in Units :
            /\ queue' = Append(queue, b)
            /\ unit' = [unit EXCEPT ![b] = u]
            /\ statement' = [statement EXCEPT ![b] = First(u)]
      BY <1>2
    <2>2. TypeOK'
      BY <2>1 DEF TypeOK, Statements, First
    <2>3. /\ Len(queue') = Len(queue) + 1
          /\ queue' # <<>>
          /\ queue'[Len(queue) + 1] = b
          /\ \A i \in 1..Len(queue) : queue'[i] = queue[i] /\ queue[i] # b
          /\ Head(queue') = IF queue = <<>> THEN b ELSE Head(queue)
      BY <2>1 DEF TypeOK, Queued
    <2>4. frame = "running"
      BY <1>2 DEF Exclusive, TypeOK
    <2>5. Exclusive'
      BY <2>1, <2>3, <2>4 DEF Exclusive, HoldsSlot, TypeOK
    <2>6. Chain'
      BY <2>1, <2>3 DEF Chain, Queued, TypeOK, First
    <2>7. Accounted'
      BY <2>1, <2>3 DEF Accounted, SettingOf, TypeOK, First, Queued
    <2> QED BY <2>2, <2>5, <2>6, <2>7
  <1> QED BY <1>1, <1>2

LEMMA SendInv ==
  ASSUME Inv, NEW b \in Branches, Send(b)
  PROVE  Inv'
  BY DEF Inv, Send, TypeOK, Exclusive, Chain, Accounted, Statements, Queued,
         HoldsSlot, SettingOf, First

\* What is left of the chain once its head has settled.
LEMMA HeadSettles ==
  ASSUME Inv, NEW b \in Branches, HoldsSlot(b), wire \subseteq {b},
         queue' = Tail(queue), wire' = wire \ {b}, unit' = unit,
         frame' = frame, closed' = closed,
         statement' = [statement EXCEPT ![b] = "none"]
  PROVE  Exclusive' /\ Chain' /\ queue' \in Seq(Branches)
         /\ (queue' # <<>> => statement'[Head(queue')] = First(unit'[Head(queue')]))
  <1> USE DEF Inv, HoldsSlot
  <1>1. /\ queue' \in Seq(Branches)
        /\ Len(queue') = Len(queue) - 1
        /\ \A i \in 1..Len(queue') : queue'[i] = queue[i + 1] /\ queue[i + 1] # b
    BY DEF TypeOK, Chain
  <1>2. Exclusive'
    BY <1>1 DEF Exclusive, TypeOK
  <1>3. DOMAIN queue' = 1..Len(queue') /\ DOMAIN queue = 1..Len(queue)
        /\ Len(queue) \in Nat
    BY <1>1 DEF TypeOK
  <1>4. ASSUME NEW i \in DOMAIN queue'
        PROVE  statement'[queue'[i]] = First(unit'[queue'[i]])
               /\ statement'[queue'[i]] # "none"
    <2>1. i + 1 \in DOMAIN queue /\ i + 1 # 1 /\ queue'[i] = queue[i + 1]
          /\ queue[i + 1] # b
      BY <1>1, <1>3
    <2>2. queue[i + 1] \in Branches
      BY <2>1 DEF TypeOK
    <2>3. statement'[queue'[i]] = statement[queue[i + 1]]
      BY <2>1, <2>2 DEF TypeOK
    <2>4. statement[queue[i + 1]] = First(unit[queue[i + 1]])
      BY <2>1 DEF Chain
    <2> QED BY <2>1, <2>3, <2>4 DEF First
  <1>6. \A i, j \in DOMAIN queue' : queue'[i] = queue'[j] => i = j
    <2> SUFFICES ASSUME NEW i \in DOMAIN queue', NEW j \in DOMAIN queue',
                        queue'[i] = queue'[j]
                 PROVE  i = j
      OBVIOUS
    <2>1. i + 1 \in DOMAIN queue /\ j + 1 \in DOMAIN queue
          /\ queue[i + 1] = queue[j + 1] /\ i \in Int /\ j \in Int
      BY <1>1, <1>3
    <2>2. i + 1 = j + 1
      BY <2>1 DEF Chain
    <2> QED BY <2>1, <2>2
  <1>7. Chain'
    BY <1>4, <1>6 DEF Chain, Queued
  <1>5. queue' # <<>> => Head(queue') = queue'[1] /\ 1 \in DOMAIN queue'
    BY <1>1
  <1> QED BY <1>1, <1>2, <1>4, <1>5, <1>7

LEMMA SucceedInv ==
  ASSUME Inv, NEW b \in Branches, Succeed(b)
  PROVE  Inv'
  <1> USE DEF Inv, Succeed
  <1>1. HoldsSlot(b) /\ b \in Queued /\ wire \subseteq {b} /\ b = Head(queue)
    BY DEF Exclusive, HoldsSlot, Queued, TypeOK
  <1>2. statement[b] \in Statements
    BY <1>1 DEF Chain, TypeOK
  <1>3. /\ setting = SettingOf(b)
        /\ unit[b] = Plain => statement[b] = "run"
        /\ statement[b] \in {"override", "restore"} => snapshot[b] = Default
        /\ unit[b] # Plain /\ statement[b] = "run" => snapshot[b] = Default
    BY <1>1 DEF Accounted, HoldsSlot
  <1>4. unit[b] # Plain => unit[b] \in Settings
    BY DEF TypeOK
  <1>5. CASE statement[b] = "snapshot"
    <2>1. /\ statement' = [statement EXCEPT ![b] = "override"]
          /\ queue' = queue /\ setting' = setting
          /\ snapshot' = [snapshot EXCEPT ![b] = Default]
      BY <1>3, <1>5 DEF After, TypeOK, SettingOf
    <2>2. TypeOK' /\ Exclusive'
      BY <2>1, <1>1 DEF TypeOK, Exclusive, HoldsSlot, Statements
    <2>3. Chain'
      BY <2>1, <1>1 DEF Chain, Queued, TypeOK, HoldsSlot
    <2>4. Accounted'
      BY <2>1, <1>1, <1>3, <1>5 DEF Accounted, SettingOf, TypeOK, HoldsSlot
    <2> QED BY <2>2, <2>3, <2>4
  <1>6. CASE statement[b] = "override"
    <2>1. /\ statement' = [statement EXCEPT ![b] = "run"]
          /\ queue' = queue /\ setting' = unit[b] /\ snapshot' = snapshot
      BY <1>6 DEF After, TypeOK
    <2>2. unit[b] # Plain
      BY <1>3, <1>6
    <2>3. TypeOK' /\ Exclusive'
      BY <2>1, <2>2, <1>1, <1>4 DEF TypeOK, Exclusive, HoldsSlot, Statements
    <2>4. Chain'
      BY <2>1, <1>1 DEF Chain, Queued, TypeOK, HoldsSlot
    <2>5. Accounted'
      BY <2>1, <2>2, <1>1, <1>3, <1>6 DEF Accounted, SettingOf, TypeOK, HoldsSlot
    <2> QED BY <2>3, <2>4, <2>5
  <1>7. CASE statement[b] = "run" /\ unit[b] # Plain
    <2>1. /\ statement' = [statement EXCEPT ![b] = "restore"]
          /\ queue' = queue /\ setting' = setting /\ snapshot' = snapshot
      BY <1>7 DEF After, TypeOK
    <2>2. TypeOK' /\ Exclusive'
      BY <2>1, <1>1 DEF TypeOK, Exclusive, HoldsSlot, Statements
    <2>3. Chain'
      BY <2>1, <1>1 DEF Chain, Queued, TypeOK, HoldsSlot
    <2>4. Accounted'
      BY <2>1, <1>1, <1>3, <1>7 DEF Accounted, SettingOf, TypeOK, HoldsSlot
    <2> QED BY <2>2, <2>3, <2>4
  <1>8. CASE statement[b] = "restore" \/ (statement[b] = "run" /\ unit[b] = Plain)
    <2>1. /\ statement' = [statement EXCEPT ![b] = "none"]
          /\ queue' = Tail(queue) /\ setting' = Default /\ snapshot' = snapshot
      BY <1>3, <1>8 DEF After, TypeOK, SettingOf, Successors
    <2>2. /\ Exclusive' /\ Chain' /\ queue' \in Seq(Branches)
          /\ queue' # <<>> => statement'[Head(queue')] = First(unit'[Head(queue')])
      BY <2>1, <1>1, HeadSettles
    <2>3. TypeOK'
      BY <2>1, <2>2 DEF TypeOK
    <2>4. Accounted'
      BY <2>1, <2>2 DEF Accounted, SettingOf, First
    <2> QED BY <2>2, <2>3, <2>4
  <1> QED BY <1>2, <1>5, <1>6, <1>7, <1>8 DEF Statements

LEMMA FailInv ==
  ASSUME Inv, NEW b \in Branches, Fail(b)
  PROVE  Inv'
  <1> USE DEF Inv, Fail
  <1>1. HoldsSlot(b) /\ wire \subseteq {b}
    BY DEF Exclusive, HoldsSlot
  <1>2. queue' = Tail(queue)
    BY DEF Successors
  <1>3. Exclusive' /\ Chain' /\ queue' \in Seq(Branches)
    BY <1>1, <1>2, HeadSettles
  <1>4. TypeOK'
    BY <1>3 DEF TypeOK
  <1> QED BY <1>3, <1>4 DEF Accounted

LEMMA BoundaryInv ==
  ASSUME Inv, Settle \/ SendControl \/ Release
  PROVE  Inv'
  <1>1. CASE Settle
    BY <1>1 DEF Inv, Settle, Close, TypeOK, Exclusive, Chain, Accounted, Queued,
                HoldsSlot, SettingOf
  <1>2. CASE SendControl
    BY <1>2 DEF Inv, SendControl, Drained, TypeOK, Exclusive, Chain, Accounted,
                Queued, HoldsSlot, SettingOf
  <1>3. CASE Release
    BY <1>3 DEF Inv, Release, TypeOK, Exclusive, Chain, Accounted, Queued,
                HoldsSlot, SettingOf
  <1> QED BY <1>1, <1>2, <1>3

LEMMA StutterInv ==
  ASSUME Inv, UNCHANGED vars
  PROVE  Inv'
  BY DEF Inv, vars, TypeOK, Exclusive, Chain, Accounted, Queued, HoldsSlot,
         SettingOf

\* The inductive invariant holds throughout.
THEOREM Invariance == Spec => []Inv
  <1>1. Inv /\ [Next]_vars => Inv'
    BY SubmitInv, SendInv, SucceedInv, FailInv, BoundaryInv, StutterInv DEF Next
  <1> QED BY InitInv, <1>1, PTL DEF Spec

-----------------------------------------------------------------------------
\* Every variable keeps its type; in particular a search only ever restores a
\* setting it has saved.
THEOREM TypeCorrectness == Spec => []TypeOK
  BY Invariance, PTL DEF Inv

\* The connection never has two statements in flight, the driver's COMMIT or
\* ROLLBACK included, and none once it went back to the pool.
THEOREM ConnectionIsExclusive == Spec => []OneInFlight
  <1>1. Inv => OneInFlight
    <2> SUFFICES ASSUME Inv PROVE OneInFlight
      OBVIOUS
    <2>1. frame \in {"ending", "ended"} => wire = {}
      BY DEF Inv, Exclusive, HoldsSlot
    <2>2. wire \subseteq {Head(queue)}
      BY DEF Inv, Exclusive, HoldsSlot
    <2>3. /\ wire = {} => Cardinality(wire) = 0
          /\ Cardinality(wire) \in {0, 1}
      <3>1. wire = {} \/ wire = {Head(queue)}
        BY <2>2
      <3>2. Cardinality({}) = 0 /\ Cardinality({Head(queue)}) = 1
        BY FS_EmptySet, FS_Singleton
      <3> QED BY <3>1, <3>2
    <2> QED BY <2>1, <2>3 DEF OneInFlight, ControlStatements
  <1> QED BY <1>1, Invariance, PTL

\* Concurrent searches of one transaction never run under each other's
\* setting, and a plain statement always runs under the default.
THEOREM SearchesAreIsolated == Spec => []RunsUnderOwnSetting
  <1>1. Inv => RunsUnderOwnSetting
    BY DEF Inv, Exclusive, Accounted, HoldsSlot, SettingOf, RunsUnderOwnSetting,
           Wanted
  <1> QED BY <1>1, Invariance, PTL
=============================================================================
