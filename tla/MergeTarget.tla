----------------------------- MODULE MergeTarget -----------------------------
(***************************************************************************)
(* What merging promises the graph a branch is merged into.  A merge is    *)
(* one step: a reviewed plan is applied once; a snapshot merge takes place *)
(* on the very graph its branch forked from; an incremental merge gives a  *)
(* row of the fork point its edit only while the row still is what it was  *)
(* there, and otherwise keeps the target's.                                *)
(***************************************************************************)
EXTENDS Naturals

CONSTANTS
    Mergers,    \* each merges one branch
    Ids,        \* row identities
    Values,     \* contents of a row, a merger being the content its branch authored
    None        \* the content of a row that is not there

VARIABLES
    contents,   \* the target's rows
    work,       \* per merger: what it was asked to merge, and from where
    merged      \* per merger: how often its merge was applied

Kinds == {"snapshot", "plan", "incremental"}
NoWork == [kind |-> "none", base |-> [i \in Ids |-> None], edits |-> {}]

Init ==
    /\ contents \in [Ids -> Values]
    /\ work = [m \in Mergers |-> NoWork]
    /\ merged = [m \in Mergers |-> 0]

Write ==
    /\ contents' \in [Ids -> Values]
    /\ UNCHANGED <<work, merged>>

Fork(m) ==
    /\ work[m] = NoWork
    /\ \E kind \in Kinds, edits \in SUBSET Ids :
          work' = [work EXCEPT ![m] = [kind |-> kind, base |-> contents, edits |-> edits]]
    /\ UNCHANGED <<contents, merged>>

\* The branch is its fork with the edits, and it is what the target becomes.
OntoTheFork(m) ==
    /\ contents = work[m].base
    /\ contents' = [i \in Ids |-> IF i \in work[m].edits THEN m ELSE work[m].base[i]]

\* An addition may be resolved onto a row the target has already.
OntoWhatItBecame(m) ==
    /\ contents' \in [Ids -> Values]
    /\ \A i \in Ids : contents'[i] # contents[i] =>
          /\ contents'[i] = m
          /\ IF i \in work[m].edits
             THEN work[m].base[i] # None => contents[i] = work[m].base[i]
             ELSE \E a \in work[m].edits : work[m].base[a] = None

Merge(m) ==
    /\ work[m] # NoWork
    /\ work[m].kind = "plan" => merged[m] = 0
    /\ IF work[m].kind = "incremental"
       THEN OntoWhatItBecame(m)
       ELSE OntoTheFork(m) \/ (work[m].edits = {} /\ UNCHANGED contents)
    /\ merged' = [merged EXCEPT ![m] = @ + 1]
    /\ UNCHANGED work

Next == Write \/ \E m \in Mergers : Fork(m) \/ Merge(m)

Spec == Init /\ [][Next]_<<contents, work, merged>>
=============================================================================
