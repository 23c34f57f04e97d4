--------------------------- MODULE Custody_proofs ---------------------------
(***************************************************************************)
(* The merge of put_case, for any number of cases, analysts, notes, tags,  *)
(* detections, edits, prunes, faults and restarts: no detection is lost,   *)
(* no accepted note, tag or link is lost, links stay mutual, and the SLA   *)
(* anchor moves exactly with the state.                                    *)
(*                                                                         *)
(* CountIsExact and the others are not inductive: a write of the agent     *)
(* puts the task's copy, so the invariant must say what a copy can hold.   *)
(* A copy counts no more detections than were accepted and names no link   *)
(* the stored row lacks; and a case that is not stored was never opened or *)
(* was pruned, so that no task inserts a row for it unseen.                *)
(*                                                                         *)
(* The swaps of a restore, for any number of runs of the writer, images,   *)
(* restores, stops and errors: no restored tree comes before a writer      *)
(* unpromoted, and no tree of the node is lost.  Both need to know what    *)
(* holds in the middle of a swap: the marker stands, a writer that is up   *)
(* has lost its databases, and each tree that was swapped out is aside,    *)
(* once.                                                                   *)
(***************************************************************************)
EXTENDS Cases, Backup, TLAPS

Step == {"none", "start", "loop", "predict", "notify"}

Types ==
    /\ db \in [Cases -> Case]
    /\ case \in [Tasks -> Case]
    /\ tpc \in [Tasks -> Step]
    /\ folded \in [Cases -> Nat]
    /\ pruned \subseteq Cases
    /\ notes \in [Cases -> SUBSET Notes]
    /\ tagged \in [Cases -> SUBSET Tags]
    /\ linked \in [Cases -> SUBSET Cases]
    /\ det \in [step : {"idle", "bump", "open", "mark", "spawn"}, id : Cases \cup {0}]
    /\ det.step # "idle" => det.id \in Cases

\* A case that was not opened has left no trace; a case that was opened is
\* stored or was pruned.
OpenedInv ==
    /\ \A i \in Cases : folded[i] = 0 =>
          /\ ~exists(i) /\ i \notin pruned
          /\ notes[i] = {} /\ tagged[i] = {} /\ linked[i] = {}
          /\ \A t \in Tasks : t[1] = i => tpc[t] = "none"
    /\ \A i \in Cases : ~exists(i) =>
          /\ i \notin pruned => folded[i] = 0
          /\ db[i].linked_cases = {}
    /\ det.step = "open" => folded[det.id] = 0
    /\ det.step = "spawn" => folded[det.id] >= 1

\* What the copy of a running task can hold.
CopyInv ==
    \A t \in Tasks : tpc[t] # "none" =>
        /\ case[t].state # "Absent"
        /\ t[1] \notin pruned => /\ case[t].event_count <= folded[t[1]]
                                 /\ case[t].linked_cases \subseteq db[t[1]].linked_cases

MergeInv == Types /\ OpenedInv /\ CopyInv /\ CountIsExact /\ AdditionsKept /\ LinksMutual

\* One step of AnchorFollowsState.
AnchorStep ==
    \A i \in Cases : exists(i) /\ exists(i)' /\ db[i].state # "Closed" =>
        (db'[i].state = db[i].state <=> db'[i].state_changed_at = db[i].state_changed_at)

-----------------------------------------------------------------------------

LEMMA AbsentIsCase == Absent \in Case /\ open \in Case
BY Zenon, CasesAssumption DEF Absent, open, Case, CaseState

\* The merged row is a row.
LEMMA MergedIsCase ==
    ASSUME NEW prev \in Case, NEW new \in Case
    PROVE  Merged(prev, new) \in Case
BY DEF Merged, Case, larger, stamped, kept

LEMMA TasksType == \A t \in Tasks : t[1] \in Cases /\ t = <<t[1], t[2]>>
BY DEF Tasks

LEMMA InitInv == Init => MergeInv
<1> SUFFICES ASSUME Init PROVE MergeInv
  BY Zenon
<1>1. \A i \in Cases : db[i] = Absent
  BY Zenon DEF Init
<1>2. Types
  BY Zenon, AbsentIsCase DEF Init, Types, Step
<1>3. OpenedInv
  BY Zenon, <1>1, TasksType DEF Init, OpenedInv, exists, Absent
<1>4. CopyInv
  BY Zenon DEF Init, CopyInv
<1>5. CountIsExact /\ AdditionsKept /\ LinksMutual
  BY <1>1 DEF CountIsExact, AdditionsKept, LinksMutual, exists, Absent
<1> QED BY Zenon, <1>2, <1>3, <1>4, <1>5 DEF MergeInv

\* A write of a task's copy, whatever state it writes and wherever it goes on.
LEMMA PutStep ==
    ASSUME MergeInv, NEW t \in Tasks, NEW s \in CaseState, NEW pc \in Step,
           tpc[t] # "none", Put(t, s, pc)
    PROVE  MergeInv' /\ AnchorStep
<1> DEFINE i == t[1]
           new == [case[t] EXCEPT !.state = s]
<1>1. i \in Cases
  BY Zenon, TasksType
<1>2. /\ new \in Case /\ new.state = s /\ new.state # "Absent"
      /\ new.event_count = case[t].event_count /\ new.linked_cases = case[t].linked_cases
  <2>1. case[t] \in Case
    BY Zenon DEF MergeInv, Types
  <2>2. s # "Absent"
    BY Zenon DEF CaseState
  <2> QED BY Zenon, <2>1, <2>2 DEF Case
<1>3. db' = [db EXCEPT ![i] = IF exists(i) THEN Merged(db[i], new) ELSE new]
  BY Zenon DEF Put, put_case
<1>4. UNCHANGED <<folded, pruned, notes, tagged, linked, det>>
  BY Zenon DEF Put, ghosts, additions, detector
<1>5. /\ tpc' = [tpc EXCEPT ![t] = pc]
      /\ case' = [case EXCEPT ![t] = IF pc = "none" THEN Absent ELSE new]
  BY Zenon DEF Put
<1>6. folded[i] # 0 /\ (i \notin pruned => exists(i))
  BY Zenon, <1>1 DEF MergeInv, OpenedInv
<1>7. \A k \in Cases : k # i => db'[k] = db[k]
  BY Zenon, <1>3, <1>1 DEF MergeInv, Types
<1>8. exists(i) => db'[i] = Merged(db[i], new)
  BY Zenon, <1>3, <1>1 DEF MergeInv, Types
<1>9. ~exists(i) => db'[i] = new
  BY Zenon, <1>3, <1>1 DEF MergeInv, Types
<1> HIDE DEF i, new
<1>10. db[i] \in Case /\ db'[i] \in Case
  <2>1. db[i] \in Case
    BY Zenon, <1>1 DEF MergeInv, Types
  <2>2. Merged(db[i], new) \in Case
    BY Zenon, <2>1, <1>2, MergedIsCase
  <2> QED BY Zenon, <2>1, <2>2, <1>2, <1>8, <1>9
<1>11. db'[i].state = s /\ s # "Absent"
  <2>1. Merged(db[i], new).state = s
    BY Zenon, <1>2 DEF Merged
  <2> QED BY Zenon, <2>1, <1>2, <1>8, <1>9
<1>12. ASSUME i \notin pruned
       PROVE  /\ db'[i].event_count = db[i].event_count
              /\ db'[i].linked_cases = db[i].linked_cases
              /\ db[i].transcript \subseteq db'[i].transcript
              /\ db[i].tags \subseteq db'[i].tags
  <2>0. case[t].event_count <= folded[i] /\ case[t].linked_cases \subseteq db[i].linked_cases
    BY Zenon, <1>12 DEF MergeInv, CopyInv, i
  <2>1. new.event_count <= db[i].event_count /\ new.linked_cases \subseteq db[i].linked_cases
    BY Zenon, <2>0, <1>1, <1>2, <1>6, <1>12 DEF MergeInv, CountIsExact
  <2>2. new.event_count \in Nat /\ db[i].event_count \in Nat
    BY Zenon, <1>2, <1>10 DEF Case
  <2>3. Merged(db[i], new).event_count = db[i].event_count
    BY <2>1, <2>2 DEF Merged, larger
  <2>4. /\ Merged(db[i], new).linked_cases = new.linked_cases \cup db[i].linked_cases
        /\ Merged(db[i], new).transcript = new.transcript \cup db[i].transcript
        /\ Merged(db[i], new).tags = new.tags \cup db[i].tags
    BY Zenon DEF Merged
  <2> QED BY Zenon, <1>6, <1>8, <1>12, <2>1, <2>3, <2>4
<1>13. Types'
  BY Zenon, <1>2, <1>3, <1>4, <1>5, <1>7, <1>10, AbsentIsCase DEF MergeInv, Types
<1>14. OpenedInv'
  BY <1>1, <1>4, <1>5, <1>6, <1>7, <1>11 DEF MergeInv, OpenedInv, exists, Types
<1>15. CopyInv'
  <2> SUFFICES ASSUME NEW u \in Tasks, tpc'[u] # "none"
               PROVE  /\ case'[u].state # "Absent"
                      /\ u[1] \notin pruned => /\ case'[u].event_count <= folded[u[1]]
                                               /\ case'[u].linked_cases \subseteq db'[u[1]].linked_cases
    BY Zenon, <1>4 DEF CopyInv
  <2>1. u[1] \in Cases /\ (u[1] \notin pruned => db'[u[1]].linked_cases = db[u[1]].linked_cases)
    BY Zenon, <1>7, <1>12, TasksType
  <2>2. CASE u = t
    BY Zenon, <2>1, <2>2, <1>2, <1>5 DEF MergeInv, CopyInv, Types
  <2>3. CASE u # t
    BY Zenon, <2>1, <2>3, <1>5 DEF MergeInv, CopyInv, Types
  <2> QED BY Zenon, <2>2, <2>3
<1>16. CountIsExact'
  BY Zenon, <1>4, <1>6, <1>7, <1>12 DEF MergeInv, CountIsExact, exists
<1>17. AdditionsKept'
  BY Zenon, <1>4, <1>6, <1>7, <1>12 DEF MergeInv, AdditionsKept, exists
<1>18. LinksMutual'
  BY <1>4, <1>7, <1>12 DEF MergeInv, LinksMutual
<1>19. AnchorStep
  <2>1. Merged(db[i], new).state_changed_at = stamped(db[i], new)
    BY Zenon DEF Merged
  <2>2. db[i].state_changed_at \in {0, 1}
    BY Zenon, <1>10 DEF Case
  <2>3. exists(i) => (db'[i].state = db[i].state
                         <=> db'[i].state_changed_at = db[i].state_changed_at)
    BY <2>1, <2>2, <1>2, <1>8, <1>11 DEF stamped
  <2> QED BY Zenon, <2>3, <1>7 DEF AnchorStep
<1> QED BY Zenon, <1>13, <1>14, <1>15, <1>16, <1>17, <1>18, <1>19 DEF MergeInv

-----------------------------------------------------------------------------

\* An edit of one stored row that keeps its count and its links.
LEMMA EditStep ==
    ASSUME MergeInv, NEW i \in Cases, exists(i), NEW new \in Case,
           new.state # "Absent", new.event_count = db[i].event_count,
           new.linked_cases = db[i].linked_cases,
           db' = [db EXCEPT ![i] = new],
           UNCHANGED <<tpc, case, folded, pruned, linked, det>>,
           notes' \in [Cases -> SUBSET Notes], tagged' \in [Cases -> SUBSET Tags],
           \A k \in Cases : k # i => notes'[k] = notes[k] /\ tagged'[k] = tagged[k],
           i \notin pruned => notes'[i] \subseteq new.transcript /\ tagged'[i] \subseteq new.tags
    PROVE  MergeInv'
<1>1. db'[i] = new /\ \A k \in Cases : k # i => db'[k] = db[k]
  BY Zenon DEF MergeInv, Types
<1>2. \A k \in Cases : exists(k)' <=> exists(k)
  BY Zenon, <1>1 DEF exists
<1>3. folded[i] # 0
  BY Zenon DEF MergeInv, OpenedInv
<1>4. \A k \in Cases : db'[k].linked_cases = db[k].linked_cases
                       /\ db'[k].event_count = db[k].event_count
  BY Zenon, <1>1
<1>5. Types'
  BY Zenon, <1>1 DEF MergeInv, Types
<1>6. OpenedInv'
  <2>1. ASSUME NEW k \in Cases, folded[k] = 0
        PROVE  notes'[k] = notes[k] /\ tagged'[k] = tagged[k]
    BY Zenon, <2>1, <1>3
  <2> QED BY ZenonT(60), <1>2, <1>4, <2>1 DEF MergeInv, OpenedInv
<1>7. CopyInv'
  BY Zenon, <1>4, TasksType DEF MergeInv, CopyInv
<1>8. CountIsExact' /\ LinksMutual'
  BY ZenonT(60), <1>2, <1>4 DEF MergeInv, CountIsExact, LinksMutual
<1>9. AdditionsKept'
  BY ZenonT(60), <1>1, <1>2, <1>4 DEF MergeInv, AdditionsKept
<1> QED BY Zenon, <1>5, <1>6, <1>7, <1>8, <1>9 DEF MergeInv

\* Analysts: assignment, comment, tags and closing.
LEMMA AnalystStep ==
    ASSUME MergeInv, NEW i \in Cases,
           \/ \E who \in Analysts \cup {Nobody} : assign_case(i, who)
           \/ \E n \in Notes : comment_case(i, n)
           \/ \E add, remove \in SUBSET Tags : tag_case(i, add, remove)
           \/ Resolve(i)
    PROVE  MergeInv' /\ AnchorStep
<1> USE DEF ghosts, additions, detector, triage
<1>1. db[i] \in Case /\ notes[i] \in SUBSET Notes /\ tagged[i] \in SUBSET Tags
  BY Zenon DEF MergeInv, Types
<1>2. exists(i) /\ i \notin pruned => notes[i] \subseteq db[i].transcript /\ tagged[i] \subseteq db[i].tags
  BY Zenon DEF MergeInv, AdditionsKept
<1>3. ASSUME NEW who \in Analysts \cup {Nobody}, assign_case(i, who)
      PROVE  MergeInv' /\ AnchorStep
  <2> DEFINE new == [db[i] EXCEPT !.assignee = who]
  <2>1. /\ new \in Case /\ new.state = db[i].state /\ new.event_count = db[i].event_count
        /\ new.linked_cases = db[i].linked_cases /\ new.transcript = db[i].transcript
        /\ new.tags = db[i].tags /\ new.state_changed_at = db[i].state_changed_at
    BY Zenon, <1>1 DEF Case
  <2>2. exists(i) /\ db' = [db EXCEPT ![i] = new]
    BY Zenon, <1>3 DEF assign_case, Edit, mutate_case
  <2>3. UNCHANGED <<tpc, case, folded, pruned, linked, det, notes, tagged>>
    BY Zenon, <1>3 DEF assign_case
  <2> HIDE DEF new
  <2>4. MergeInv'
    BY Zenon, <1>2, <2>1, <2>2, <2>3, EditStep DEF exists, MergeInv, Types
  <2>5. AnchorStep
    BY Zenon, <2>1, <2>2 DEF AnchorStep, MergeInv, Types
  <2> QED BY Zenon, <2>4, <2>5
<1>4. ASSUME NEW n \in Notes, comment_case(i, n)
      PROVE  MergeInv' /\ AnchorStep
  <2> DEFINE new == [db[i] EXCEPT !.transcript = @ \cup {n}]
  <2>1. /\ new \in Case /\ new.state = db[i].state /\ new.event_count = db[i].event_count
        /\ new.linked_cases = db[i].linked_cases /\ new.transcript = db[i].transcript \cup {n}
        /\ new.tags = db[i].tags /\ new.state_changed_at = db[i].state_changed_at
    BY Zenon, <1>1 DEF Case
  <2>2. exists(i) /\ db' = [db EXCEPT ![i] = new]
    BY Zenon, <1>4 DEF comment_case, Edit, mutate_case
  <2>3. /\ UNCHANGED <<tpc, case, folded, pruned, linked, det, tagged>>
        /\ notes' = [notes EXCEPT ![i] = @ \cup {n}]
    BY Zenon, <1>4 DEF comment_case
  <2>4. /\ notes' \in [Cases -> SUBSET Notes] /\ notes'[i] = notes[i] \cup {n}
        /\ \A k \in Cases : k # i => notes'[k] = notes[k]
    BY Zenon, <2>3 DEF MergeInv, Types
  <2> HIDE DEF new
  <2>5. MergeInv'
    BY Zenon, <1>2, <2>1, <2>2, <2>3, <2>4, EditStep DEF exists, MergeInv, Types
  <2>6. AnchorStep
    BY Zenon, <2>1, <2>2 DEF AnchorStep, MergeInv, Types
  <2> QED BY Zenon, <2>5, <2>6
<1>5. ASSUME NEW add \in SUBSET Tags, NEW remove \in SUBSET Tags, tag_case(i, add, remove)
      PROVE  MergeInv' /\ AnchorStep
  <2> DEFINE new == [db[i] EXCEPT !.tags = (@ \cup add) \ remove]
  <2>1. /\ new \in Case /\ new.state = db[i].state /\ new.event_count = db[i].event_count
        /\ new.linked_cases = db[i].linked_cases /\ new.transcript = db[i].transcript
        /\ new.tags = (db[i].tags \cup add) \ remove
        /\ new.state_changed_at = db[i].state_changed_at
    BY Zenon, <1>1 DEF Case
  <2>2. exists(i) /\ db' = [db EXCEPT ![i] = new]
    BY Zenon, <1>5 DEF tag_case, Edit, mutate_case
  <2>3. /\ UNCHANGED <<tpc, case, folded, pruned, linked, det, notes>>
        /\ tagged' = [tagged EXCEPT ![i] = (@ \cup add) \ remove]
    BY Zenon, <1>5 DEF tag_case
  <2>4. /\ tagged' \in [Cases -> SUBSET Tags] /\ tagged'[i] = (tagged[i] \cup add) \ remove
        /\ \A k \in Cases : k # i => tagged'[k] = tagged[k]
    BY Zenon, <2>3 DEF MergeInv, Types
  <2> HIDE DEF new
  <2>5. MergeInv'
    BY Zenon, <1>2, <2>1, <2>2, <2>3, <2>4, EditStep DEF exists, MergeInv, Types
  <2>6. AnchorStep
    BY Zenon, <2>1, <2>2 DEF AnchorStep, MergeInv, Types
  <2> QED BY Zenon, <2>5, <2>6
<1>6. CASE Resolve(i) /\ exists(i)
  <2> DEFINE new == closed(db[i])
  <2>0. db[i].state_changed_at \in {0, 1} /\ 1 - db[i].state_changed_at \in {0, 1}
    BY <1>1 DEF Case
  <2>1. /\ new.state = "Closed" /\ new.event_count = db[i].event_count
        /\ new.linked_cases = db[i].linked_cases /\ new.transcript = db[i].transcript
        /\ new.tags = db[i].tags /\ new.state_changed_at = 1 - db[i].state_changed_at
    BY Zenon DEF closed
  <2>6. new \in Case
    BY Zenon, <1>1, <2>0 DEF Case, CaseState, closed
  <2>7. new.state_changed_at # db[i].state_changed_at
    BY <2>0, <2>1
  <2>2. db' = [db EXCEPT ![i] = new]
    BY Zenon, <1>6 DEF Resolve, mutate_case
  <2>3. UNCHANGED <<tpc, case, folded, pruned, linked, det, notes, tagged>>
    BY Zenon, <1>6 DEF Resolve
  <2> HIDE DEF new
  <2>4. MergeInv'
    BY Zenon, <1>2, <1>6, <2>1, <2>2, <2>3, <2>6, EditStep DEF MergeInv, Types
  <2>5. AnchorStep
    BY Zenon, <2>1, <2>2, <2>7 DEF AnchorStep, MergeInv, Types
  <2> QED BY Zenon, <2>4, <2>5
<1>7. CASE Resolve(i) /\ ~exists(i)
  <2>1. db' = db
    BY Zenon, <1>7 DEF Resolve, mutate_case, MergeInv, Types
  <2>2. UNCHANGED <<tpc, case, folded, pruned, linked, det, notes, tagged>>
    BY Zenon, <1>7 DEF Resolve
  <2> QED BY <2>1, <2>2 DEF MergeInv, Types, OpenedInv, CopyInv, CountIsExact, AdditionsKept,
                            LinksMutual, AnchorStep, exists
<1> QED BY Zenon, <1>3, <1>4, <1>5, <1>6, <1>7

\* A link is written on both sides.
LEMMA LinkStep ==
    ASSUME MergeInv, NEW a \in Cases, NEW b \in Cases, link_cases(a, b)
    PROVE  MergeInv' /\ AnchorStep
<1> DEFINE other(i) == CASE i = a -> {b} [] i = b -> {a} [] OTHER -> {}
<1>1. /\ exists(a) /\ exists(b) /\ a # b
      /\ UNCHANGED <<tpc, case, folded, pruned, det, notes, tagged>>
  BY Zenon DEF link_cases, Edit, ghosts, additions, detector, triage
<1>2. /\ db' = [i \in Cases |-> [db[i] EXCEPT !.linked_cases = @ \cup other(i)]]
      /\ linked' = [i \in Cases |-> linked[i] \cup other(i)]
  BY Zenon DEF link_cases
<1>3. \A i \in Cases : other(i) \subseteq Cases
  BY Zenon, <1>1
<1>4. ASSUME NEW i \in Cases
      PROVE  /\ db'[i] \in Case
             /\ db'[i].state = db[i].state /\ db'[i].event_count = db[i].event_count
             /\ db'[i].state_changed_at = db[i].state_changed_at
             /\ db'[i].transcript = db[i].transcript /\ db'[i].tags = db[i].tags
             /\ db'[i].linked_cases = db[i].linked_cases \cup other(i)
             /\ linked'[i] = linked[i] \cup other(i) /\ linked'[i] \in SUBSET Cases
  <2> HIDE DEF other
  <2>1. db[i] \in Case /\ other(i) \subseteq Cases /\ linked[i] \in SUBSET Cases
    BY Zenon, <1>3 DEF MergeInv, Types
  <2>2. db'[i] = [db[i] EXCEPT !.linked_cases = @ \cup other(i)]
    BY Zenon, <1>2
  <2>3. linked'[i] = linked[i] \cup other(i)
    BY Zenon, <1>2
  <2> QED BY ZenonT(60), <2>1, <2>2, <2>3 DEF Case
<1>5. \A i, j \in Cases : j \in other(i) <=> i \in other(j)
  BY Zenon, <1>1
<1>6. \A i \in Cases : ~exists(i) => other(i) = {}
  BY Zenon, <1>1
<1>7. \A i \in Cases : exists(i)' <=> exists(i)
  BY Zenon, <1>4 DEF exists
<1> HIDE DEF other
<1>8. Types'
  <2>1. db' \in [Cases -> Case]
    BY Zenon, <1>2, <1>4
  <2>2. linked' \in [Cases -> SUBSET Cases]
    BY Zenon, <1>2, <1>4
  <2> QED BY Zenon, <1>1, <2>1, <2>2 DEF MergeInv, Types
<1>9. OpenedInv'
  <2>1. \A i \in Cases : folded[i] = 0 => linked'[i] = {}
    BY ZenonT(60), <1>4, <1>6 DEF MergeInv, OpenedInv
  <2>2. \A i \in Cases : ~exists(i) => db'[i].linked_cases = {}
    BY ZenonT(60), <1>4, <1>6 DEF MergeInv, OpenedInv
  <2> QED BY Zenon, <1>1, <1>7, <2>1, <2>2 DEF MergeInv, OpenedInv
<1>10. CopyInv'
  BY <1>1, <1>4, TasksType DEF MergeInv, CopyInv
<1>11. CountIsExact' /\ AdditionsKept'
  BY ZenonT(60), <1>1, <1>4, <1>7 DEF MergeInv, CountIsExact, AdditionsKept
<1>12. LinksMutual'
  BY <1>1, <1>4, <1>5 DEF MergeInv, LinksMutual
<1>13. AnchorStep
  BY Zenon, <1>4 DEF AnchorStep
<1> QED BY Zenon, <1>8, <1>9, <1>10, <1>11, <1>12, <1>13 DEF MergeInv

\* A prune exempts its case, and leaves the others.
LEMMA PruneStep ==
    ASSUME MergeInv, NEW i \in Cases, delete_cases(i)
    PROVE  MergeInv' /\ AnchorStep
<1>1. /\ exists(i) /\ db' = [db EXCEPT ![i] = Absent] /\ pruned' = pruned \cup {i}
      /\ UNCHANGED <<tpc, case, folded, det, notes, tagged, linked>>
  BY Zenon DEF delete_cases, additions, detector, triage
<1>2. db'[i] = Absent /\ \A k \in Cases : k # i => db'[k] = db[k]
  BY Zenon, <1>1 DEF MergeInv, Types
<1>3. ~exists(i)' /\ folded[i] # 0 /\ db'[i].linked_cases = {}
  BY <1>1, <1>2 DEF exists, Absent, MergeInv, OpenedInv
<1>4. Types'
  BY Zenon, <1>1, AbsentIsCase DEF MergeInv, Types
<1>5. OpenedInv'
  BY <1>1, <1>2, <1>3 DEF MergeInv, OpenedInv, exists
<1>6. CopyInv'
  BY Zenon, <1>1, <1>2, TasksType DEF MergeInv, CopyInv
<1>7. CountIsExact' /\ AdditionsKept' /\ LinksMutual'
  BY <1>1, <1>2, <1>3 DEF MergeInv, CountIsExact, AdditionsKept, LinksMutual, exists
<1>8. AnchorStep
  BY Zenon, <1>2, <1>3 DEF AnchorStep
<1> QED BY Zenon, <1>4, <1>5, <1>6, <1>7, <1>8 DEF MergeInv

\* Steps that touch no row and no accepted addition: tasks end, or nothing the
\* invariant speaks of changes.
LEMMA QuietStep ==
    ASSUME MergeInv,
           UNCHANGED <<db, folded, pruned, notes, tagged, linked>>,
           tpc' \in [Tasks -> Step], case' \in [Tasks -> Case],
           \A t \in Tasks : tpc'[t] # "none" => tpc[t] # "none" /\ case'[t] = case[t],
           \/ UNCHANGED det
           \/ det' = [step |-> "idle", id |-> 0]
    PROVE  MergeInv' /\ AnchorStep
<1>1. Types'
  BY DEF MergeInv, Types
<1>2. OpenedInv'
  BY DEF MergeInv, OpenedInv, exists
<1>3. CopyInv'
  BY SMTT(30) DEF MergeInv, CopyInv
<1>4. CountIsExact' /\ AdditionsKept' /\ LinksMutual' /\ AnchorStep
  BY Zenon DEF MergeInv, CountIsExact, AdditionsKept, LinksMutual, exists, AnchorStep
<1> QED BY Zenon, <1>1, <1>2, <1>3, <1>4 DEF MergeInv


\* The detection loop.
LEMMA DetectStep ==
    ASSUME MergeInv, handle_detection \/ bump_event_count \/ OpenCase \/ suppression_mark
    PROVE  MergeInv' /\ AnchorStep
<1> USE DEF ghosts, additions, detector, triage
<1>1. CASE handle_detection
  <2>1. UNCHANGED <<db, folded, pruned, notes, tagged, linked, tpc, case>>
    BY Zenon, <1>1 DEF handle_detection
  <2>2. \/ det' = det
        \/ /\ det' \in [step : {"bump", "open"}, id : Cases]
           /\ det'.step = "open" => folded[det'.id] = 0
    <3>1. \/ det' = det
          \/ \E i \in Newest(OpenCases) : det' = [step |-> "bump", id |-> i]
          \/ \E i \in Unopened : det' = [step |-> "open", id |-> i]
      BY Zenon, <1>1 DEF handle_detection
    <3>2. CASE \E i \in Newest(OpenCases) : det' = [step |-> "bump", id |-> i]
      BY <3>2 DEF OpenCases, Newest
    <3>3. CASE \E i \in Unopened : det' = [step |-> "open", id |-> i]
      BY <3>3 DEF Unopened
    <3> QED BY Zenon, <3>1, <3>2, <3>3
  <2>3. Types' /\ OpenedInv'
    BY SMTT(30), <2>1, <2>2 DEF MergeInv, Types, OpenedInv, exists
  <2>4. CopyInv' /\ CountIsExact' /\ AdditionsKept' /\ LinksMutual' /\ AnchorStep
    BY Zenon, <2>1 DEF MergeInv, CopyInv, CountIsExact, AdditionsKept, LinksMutual, exists, AnchorStep
  <2> QED BY Zenon, <2>3, <2>4 DEF MergeInv
<1>2. CASE bump_event_count
  <2> DEFINE i == det.id
             new == [db[i] EXCEPT !.event_count = @ + 1]
  <2>1. /\ i \in Cases /\ det.step = "bump"
        /\ UNCHANGED <<tpc, case, pruned, notes, tagged, linked>>
        /\ det' = [det EXCEPT !.step = "mark"]
    BY Zenon, <1>2 DEF bump_event_count, MergeInv, Types
  <2>0. db[i] \in Case
    BY Zenon, <2>1 DEF MergeInv, Types
  <2>2. /\ new \in Case /\ new.state = db[i].state /\ new.event_count = db[i].event_count + 1
        /\ new.linked_cases = db[i].linked_cases /\ new.transcript = db[i].transcript
        /\ new.tags = db[i].tags /\ new.state_changed_at = db[i].state_changed_at
    BY <2>0 DEF Case
  <2>3. /\ db' = [db EXCEPT ![i] = IF exists(i) THEN new ELSE db[i]]
        /\ folded' = [folded EXCEPT ![i] = IF exists(i) THEN @ + 1 ELSE @]
    BY Zenon, <1>2 DEF bump_event_count, mutate_case
  <2> HIDE DEF i, new
  <2>4. \A k \in Cases : /\ k # i => db'[k] = db[k] /\ folded'[k] = folded[k]
                         /\ k = i /\ ~exists(i) => db'[k] = db[k] /\ folded'[k] = folded[k]
                         /\ k = i /\ exists(i) => db'[k] = new /\ folded'[k] = folded[k] + 1
    BY Zenon, <2>1, <2>3 DEF MergeInv, Types
  <2>5. /\ det' \in [step : {"mark"}, id : Cases]
        /\ folded \in [Cases -> Nat] /\ db \in [Cases -> Case]
    BY Zenon, <2>1 DEF MergeInv, Types, i
  <2>6. /\ db' \in [Cases -> Case] /\ folded' \in [Cases -> Nat]
        /\ \A k \in Cases : folded[k] <= folded'[k]
    <3>1. db' \in [Cases -> Case]
      BY Zenon, <2>1, <2>2, <2>3, <2>5
    <3>2. folded' \in [Cases -> Nat]
      <4>1. folded[i] \in Nat /\ folded[i] + 1 \in Nat
        BY <2>1, <2>5 DEF i
      <4>2. (IF exists(i) THEN folded[i] + 1 ELSE folded[i]) \in Nat
        BY Zenon, <4>1
      <4> HIDE DEF exists
      <4> QED BY Zenon, <4>2, <2>3, <2>5
    <3>3. \A k \in Cases : folded[k] \in Nat
      BY Zenon, <2>5
    <3>4. \A k \in Cases : folded'[k] = folded[k] \/ folded'[k] = folded[k] + 1
      BY Zenon, <2>4
    <3> QED BY <3>1, <3>2, <3>3, <3>4
  <2>7. \A k \in Cases : /\ db'[k].state = db[k].state
                         /\ db'[k].linked_cases = db[k].linked_cases
                         /\ db'[k].transcript = db[k].transcript /\ db'[k].tags = db[k].tags
                         /\ db'[k].state_changed_at = db[k].state_changed_at
    BY Zenon, <2>2, <2>4
  <2>8. Types'
    BY Zenon, <2>1, <2>5, <2>6 DEF MergeInv, Types
  <2>9. OpenedInv'
    BY <2>1, <2>4, <2>5, <2>6, <2>7 DEF MergeInv, OpenedInv, exists
  <2>10. CopyInv'
    <3> SUFFICES ASSUME NEW t \in Tasks, tpc[t] # "none"
                 PROVE  /\ case[t].state # "Absent"
                        /\ t[1] \notin pruned => /\ case[t].event_count <= folded'[t[1]]
                                                 /\ case[t].linked_cases \subseteq db'[t[1]].linked_cases
      BY Zenon, <2>1 DEF CopyInv
    <3>1. case[t].event_count \in Nat /\ t[1] \in Cases
      BY Zenon, TasksType DEF MergeInv, Types, Case
    <3>2. folded[t[1]] \in Nat /\ folded'[t[1]] \in Nat /\ folded[t[1]] <= folded'[t[1]]
      BY Zenon, <3>1, <2>5, <2>6
    <3> QED BY <3>1, <3>2, <2>7 DEF MergeInv, CopyInv
  <2>11. CountIsExact'
    BY ZenonT(60), <2>1, <2>2, <2>4, <2>7 DEF MergeInv, CountIsExact, exists
  <2>12. AdditionsKept' /\ LinksMutual' /\ AnchorStep
    BY ZenonT(60), <2>1, <2>7 DEF MergeInv, AdditionsKept, LinksMutual, exists, AnchorStep
  <2> QED BY Zenon, <2>8, <2>9, <2>10, <2>11, <2>12 DEF MergeInv
<1>3. CASE OpenCase
  <2> DEFINE i == det.id
  <2>1. /\ i \in Cases /\ det.step = "open" /\ folded[i] = 0
        /\ UNCHANGED <<tpc, case, pruned, notes, tagged, linked>>
        /\ det' = [det EXCEPT !.step = "spawn"]
        /\ folded' = [folded EXCEPT ![i] = 1]
    BY Zenon, <1>3 DEF OpenCase, MergeInv, Types, OpenedInv
  <2>2. /\ ~exists(i) /\ i \notin pruned /\ notes[i] = {} /\ tagged[i] = {} /\ linked[i] = {}
        /\ db[i].linked_cases = {} /\ \A t \in Tasks : t[1] = i => tpc[t] = "none"
    BY Zenon, <2>1 DEF MergeInv, OpenedInv
  <2>3. db' = [db EXCEPT ![i] = open]
    BY Zenon, <1>3, <2>2 DEF OpenCase, put_case
  <2> HIDE DEF i
  <2>4. open.state = "New" /\ open.event_count = 1 /\ open.linked_cases = {}
    BY Zenon DEF open, Absent
  <2>5. /\ db'[i] = open /\ folded'[i] = 1
        /\ \A k \in Cases : k # i => db'[k] = db[k] /\ folded'[k] = folded[k]
    BY Zenon, <2>1, <2>3 DEF MergeInv, Types
  <2>6. det' \in [step : {"spawn"}, id : Cases] /\ det'.id = i
    BY Zenon, <2>1 DEF MergeInv, Types, i
  <2>7. Types'
    BY Zenon, <2>1, <2>3, <2>6, AbsentIsCase DEF MergeInv, Types
  <2>8. OpenedInv'
    BY <2>1, <2>4, <2>5, <2>6 DEF MergeInv, OpenedInv, exists
  <2>9. CopyInv'
    BY ZenonT(60), <2>1, <2>2, <2>5, TasksType DEF MergeInv, CopyInv
  <2>10. CountIsExact' /\ AdditionsKept'
    BY <2>1, <2>2, <2>4, <2>5 DEF MergeInv, CountIsExact, AdditionsKept, exists
  <2>11. \A k \in Cases : db'[k].linked_cases = db[k].linked_cases
    BY Zenon, <2>2, <2>4, <2>5
  <2>12. LinksMutual'
    BY Zenon, <2>1, <2>11 DEF MergeInv, LinksMutual
  <2>13. AnchorStep
    BY Zenon, <2>2, <2>5 DEF AnchorStep
  <2> QED BY Zenon, <2>7, <2>8, <2>9, <2>10, <2>12, <2>13 DEF MergeInv
<1>4. CASE suppression_mark
  <2>1. /\ UNCHANGED <<db, folded, pruned, notes, tagged, linked>>
        /\ det' = [step |-> "idle", id |-> 0]
        /\ det.step = "spawn" => /\ det.id \in Cases /\ folded[det.id] >= 1
                                 /\ tpc' = [tpc EXCEPT ![<<det.id, "opened">>] = "start"]
                                 /\ case' = [case EXCEPT ![<<det.id, "opened">>] = open]
        /\ det.step # "spawn" => UNCHANGED <<tpc, case>>
    BY Zenon, <1>4 DEF suppression_mark, MergeInv, Types, OpenedInv
  <2>2. CASE det.step # "spawn"
    BY Zenon, <2>1, <2>2, QuietStep DEF MergeInv, Types
  <2>3. CASE det.step = "spawn"
    <3> DEFINE u == <<det.id, "opened">>
    <3>1. u \in Tasks /\ u[1] = det.id
      BY Zenon, <2>1, <2>3 DEF Tasks
    <3>2. /\ tpc'[u] = "start" /\ case'[u] = open
          /\ \A t \in Tasks : t # u => tpc'[t] = tpc[t] /\ case'[t] = case[t]
      BY Zenon, <2>1, <2>3, <3>1 DEF MergeInv, Types
    <3>3. open.state = "New" /\ open.event_count = 1 /\ open.linked_cases = {}
      BY Zenon DEF open, Absent
    <3>4. Types'
      <4>1. tpc' \in [Tasks -> Step] /\ case' \in [Tasks -> Case]
        BY ZenonT(60), <2>1, <2>3, <3>1, AbsentIsCase DEF MergeInv, Types, Step
      <4>2. /\ det' \in [step : {"idle", "bump", "open", "mark", "spawn"}, id : Cases \cup {0}]
            /\ det'.step = "idle"
        BY Zenon, <2>1
      <4> QED BY Zenon, <2>1, <4>1, <4>2 DEF MergeInv, Types
    <3> HIDE DEF u
    <3>5. OpenedInv'
      BY <2>1, <2>3, <3>1, <3>2 DEF MergeInv, OpenedInv, exists
    <3>6. CopyInv'
      BY ZenonT(60), <2>1, <2>3, <3>1, <3>2, <3>3 DEF MergeInv, CopyInv
    <3>7. CountIsExact' /\ AdditionsKept' /\ LinksMutual' /\ AnchorStep
      BY Zenon, <2>1 DEF MergeInv, CountIsExact, AdditionsKept, LinksMutual, exists, AnchorStep
    <3> QED BY Zenon, <3>4, <3>5, <3>6, <3>7 DEF MergeInv
  <2> QED BY Zenon, <2>2, <2>3
<1> QED BY Zenon, <1>1, <1>2, <1>3, <1>4

\* Startup recovery copies the stored rows.
LEMMA ResumeStep ==
    ASSUME MergeInv, triage_pending
    PROVE  MergeInv' /\ AnchorStep
<1> DEFINE todo == {i \in Cases : db[i].state \in Pending}
           Resumes(t) == t[2] = "resumed" /\ t[1] \in todo
<1>1. /\ UNCHANGED <<db, folded, pruned, notes, tagged, linked, det>>
      /\ tpc' = [t \in Tasks |-> IF Resumes(t) THEN "start" ELSE tpc[t]]
      /\ case' = [t \in Tasks |-> IF Resumes(t) THEN db[t[1]] ELSE case[t]]
  BY Zenon DEF triage_pending, ghosts, additions, detector
<1>2. \A i \in todo : i \in Cases /\ exists(i)
  BY Zenon DEF exists, Pending
<1>3. \A t \in Tasks : /\ Resumes(t) => /\ tpc'[t] = "start" /\ case'[t] = db[t[1]]
                                        /\ t[1] \in Cases /\ exists(t[1])
                       /\ ~Resumes(t) => tpc'[t] = tpc[t] /\ case'[t] = case[t]
  BY Zenon, <1>1, <1>2
<1> HIDE DEF todo, Resumes
<1>4. Types'
  <2>1. \A t \in Tasks : tpc'[t] \in Step /\ case'[t] \in Case
    <3> SUFFICES ASSUME NEW t \in Tasks
                 PROVE  tpc'[t] \in Step /\ case'[t] \in Case
      BY Zenon
    <3>1. tpc[t] \in Step /\ case[t] \in Case /\ (t[1] \in Cases => db[t[1]] \in Case)
      BY Zenon DEF MergeInv, Types
    <3>2. "start" \in Step
      BY Zenon DEF Step
    <3>3. CASE Resumes(t)
      BY Zenon, <1>3, <3>1, <3>2, <3>3
    <3>4. CASE ~Resumes(t)
      BY Zenon, <1>3, <3>1, <3>4
    <3> QED BY Zenon, <3>3, <3>4
  <2>2. tpc' \in [Tasks -> Step] /\ case' \in [Tasks -> Case]
    BY Zenon, <1>1, <2>1
  <2> QED BY Zenon, <1>1, <2>2 DEF MergeInv, Types
<1>5. OpenedInv'
  BY <1>1, <1>3 DEF MergeInv, OpenedInv, exists
<1>6. CopyInv'
  <2> SUFFICES ASSUME NEW t \in Tasks, tpc'[t] # "none"
               PROVE  /\ case'[t].state # "Absent"
                      /\ t[1] \notin pruned => /\ case'[t].event_count <= folded[t[1]]
                                               /\ case'[t].linked_cases \subseteq db[t[1]].linked_cases
    BY Zenon, <1>1 DEF CopyInv
  <2>1. CASE Resumes(t)
    <3>1. t[1] \notin pruned => db[t[1]].event_count = folded[t[1]]
      BY Zenon, <1>3, <2>1 DEF MergeInv, CountIsExact
    <3>2. t[1] \in Cases /\ folded[t[1]] \in Nat
      BY Zenon, <1>3, <2>1 DEF MergeInv, Types
    <3> QED BY <1>3, <2>1, <3>1, <3>2 DEF exists
  <2>2. CASE ~Resumes(t)
    BY Zenon, <1>3, <2>2 DEF MergeInv, CopyInv
  <2> QED BY Zenon, <2>1, <2>2
<1>7. CountIsExact' /\ AdditionsKept' /\ LinksMutual' /\ AnchorStep
  BY Zenon, <1>1 DEF MergeInv, CountIsExact, AdditionsKept, LinksMutual, exists, AnchorStep
<1> QED BY Zenon, <1>4, <1>5, <1>6, <1>7 DEF MergeInv

\* The steps of a triage task.
LEMMA TaskStep ==
    ASSUME MergeInv, NEW t \in Tasks, Triage(t) \/ Round(t) \/ TriageFails(t)
    PROVE  MergeInv' /\ AnchorStep
<1> USE DEF Step, CaseState
<1>1. CASE Start(t)
  BY Zenon, <1>1, PutStep DEF Start
<1>2. CASE needs_human(t) \/ Round(t)
  BY Zenon, <1>2, PutStep DEF needs_human, Round
<1>3. CASE finish(t)
  BY Zenon, <1>3, PutStep DEF finish
<1>4. CASE Notify(t) /\ Put(t, case[t].state, "none")
  <2>1. tpc[t] # "none" /\ case[t].state \in CaseState
    <3>1. tpc[t] # "none"
      BY Zenon, <1>4 DEF Notify
    <3>2. case[t].state # "Absent"
      BY Zenon, <3>1 DEF MergeInv, CopyInv
    <3>3. case[t] \in Case
      BY SMTT(20) DEF MergeInv, Types
    <3> QED BY Zenon, <3>1, <3>2, <3>3 DEF Case
  <2> QED BY Zenon, <1>4, <2>1, PutStep
<1>5. CASE append_prediction(t)
  <2>1. /\ UNCHANGED <<db, folded, pruned, notes, tagged, linked, det, case>>
        /\ tpc' = [tpc EXCEPT ![t] = "notify"] /\ tpc[t] = "predict"
    BY Zenon, <1>5 DEF append_prediction, ghosts, additions, detector
  <2> QED BY Zenon, <2>1, QuietStep DEF MergeInv, Types
<1>6. ASSUME /\ UNCHANGED <<db, folded, pruned, notes, tagged, linked, det>>
             /\ tpc' = [tpc EXCEPT ![t] = "none"]
             /\ case' = [case EXCEPT ![t] = Absent]
      PROVE  MergeInv' /\ AnchorStep
  BY Zenon, <1>6, QuietStep, AbsentIsCase DEF MergeInv, Types
<1>7. CASE TriageFails(t)
  BY Zenon, <1>6, <1>7 DEF TriageFails, ghosts, additions, detector
<1>8. CASE Notify(t) /\ ~Put(t, case[t].state, "none")
  BY Zenon, <1>6, <1>8 DEF Notify, ghosts, additions, detector
<1> QED BY Zenon, <1>1, <1>2, <1>3, <1>4, <1>5, <1>7, <1>8 DEF Triage

\* Every step keeps the invariant and moves the anchor with the state.
LEMMA NextStep == MergeInv /\ [Next]_vars => MergeInv' /\ AnchorStep
<1> SUFFICES ASSUME MergeInv, [Next]_vars PROVE MergeInv' /\ AnchorStep
  BY Zenon
<1> USE DEF ghosts, additions, detector, triage
<1>1. CASE handle_detection \/ bump_event_count \/ OpenCase \/ suppression_mark
  BY Zenon, <1>1, DetectStep
<1>2. CASE DetectionFails \/ Expire
  <2>1. /\ UNCHANGED <<db, folded, pruned, notes, tagged, linked, tpc, case>>
        /\ UNCHANGED det \/ det' = [step |-> "idle", id |-> 0]
    BY Zenon, <1>2 DEF DetectionFails, Expire
  <2> QED BY Zenon, <2>1, QuietStep DEF MergeInv, Types
<1>3. CASE triage_pending
  BY Zenon, <1>3, ResumeStep
<1>4. CASE \E t \in Tasks : Triage(t) \/ Round(t) \/ TriageFails(t)
  BY Zenon, <1>4, TaskStep
<1>5. ASSUME NEW i \in Cases, submit_decision(i)
      PROVE  MergeInv' /\ AnchorStep
  <2>1. UNCHANGED <<db, folded, pruned, notes, tagged, linked, det, tpc, case>>
    BY Zenon, <1>5 DEF submit_decision
  <2> QED BY Zenon, <2>1, QuietStep DEF MergeInv, Types
<1>6. CASE Restart
  <2>1. /\ UNCHANGED <<db, folded, pruned, notes, tagged, linked>>
        /\ det' = [step |-> "idle", id |-> 0]
        /\ tpc' = [t \in Tasks |-> "none"] /\ case' = [t \in Tasks |-> Absent]
    BY Zenon, <1>6 DEF Restart
  <2>2. tpc' \in [Tasks -> Step] /\ case' \in [Tasks -> Case]
    BY Zenon, <2>1, AbsentIsCase DEF Step
  <2> QED BY Zenon, <2>1, <2>2, QuietStep
<1>7. CASE UNCHANGED vars
  <2>1. UNCHANGED <<db, folded, pruned, notes, tagged, linked, det, tpc, case>>
    BY Zenon, <1>7 DEF vars
  <2> QED BY Zenon, <2>1, QuietStep DEF MergeInv, Types
<1>8. ASSUME NEW i \in Cases,
             \/ \E who \in Analysts \cup {Nobody} : assign_case(i, who)
             \/ \E n \in Notes : comment_case(i, n)
             \/ \E add, remove \in SUBSET Tags : tag_case(i, add, remove)
             \/ \E j \in Cases : link_cases(i, j)
             \/ Resolve(i) \/ delete_cases(i)
      PROVE  MergeInv' /\ AnchorStep
  BY Zenon, <1>8, AnalystStep, LinkStep, PruneStep
<1> QED BY Zenon, <1>1, <1>2, <1>3, <1>4, <1>5, <1>6, <1>7, <1>8 DEF Next

LEMMA AlwaysMerge == Spec => []MergeInv
<1>1. MergeInv /\ [Next]_vars => MergeInv'
  BY Zenon, NextStep
<1> QED BY InitInv, <1>1, PTL DEF Spec

-----------------------------------------------------------------------------

\* The count of a stored case is the number of detections accepted into it:
\* put_case's maximum loses no bump_event_count.
THEOREM NoDetectionLost == Spec => []CountIsExact
<1>1. MergeInv => CountIsExact
  BY Zenon DEF MergeInv
<1> QED BY AlwaysMerge, <1>1, PTL

\* What an analyst added and did not remove stays in the row, through every
\* write of a stale copy by put_case.
THEOREM AnalystAdditionsSurvive == Spec => []AdditionsKept
<1>1. MergeInv => AdditionsKept
  BY Zenon DEF MergeInv
<1> QED BY AlwaysMerge, <1>1, PTL

\* Links made by link_cases stay mutual between cases that were not pruned.
THEOREM LinksStayMutual == Spec => []LinksMutual
<1>1. MergeInv => LinksMutual
  BY Zenon DEF MergeInv
<1> QED BY AlwaysMerge, <1>1, PTL

\* put_case and submit_decision stamp the SLA anchor of an open case exactly
\* when they change its state.
THEOREM AnchorMovesWithState == Spec => AnchorFollowsState
<1>1. MergeInv /\ [Next]_vars => [AnchorStep]_vars
  BY Zenon, NextStep
<1>2. AnchorFollowsState <=> [][AnchorStep]_vars
  BY PTL DEF AnchorFollowsState, AnchorStep
<1> QED BY AlwaysMerge, <1>1, <1>2, PTL DEF Spec

-----------------------------------------------------------------------------
(* Backup, restore and promote *)

\* What is on disk.
RecordType == {"serve", "backup", "restore", "promote"} \X Nat
TreeType == [point : Nat, image : Nat, opens : BOOLEAN, recs : SUBSET RecordType,
             signed : SUBSET Nat, key : SUBSET Nat, pub : SUBSET Nat]
NodeType == [Trees -> SUBSET TreeType]
ImageType == [trees : NodeType, signer : Nat, damaged : BOOLEAN, degraded : BOOLEAN]

\* What a restore swaps, and where it is when the marker has to stand.
Plans == {<<"warehouse", "state">>, <<"warehouse", "state", "ledger">>}
Swapping == {"move", "place", "rollback"}
Restoring == Swapping \cup {"stage", "mark"}
One(S) == \A c, d \in S : c = d

\* The types of the node, the images and the command that runs.
BackupTypes ==
    /\ live \in NodeType /\ staging \in NodeType
    /\ aside \subseteq [tree : Trees, ts : Nat, was : TreeType]
    /\ marker \subseteq Nat
    /\ images \in Seq(ImageType)
    /\ task \in [image : Nat, plan : {<<>>} \cup Plans, done : Nat, prior : SUBSET Nat]
    /\ own \subseteq Trees \X Nat
    /\ unpromoted \subseteq Nat \ {0}
    /\ points \in Nat /\ restores \in Nat /\ keys \in Nat

\* A path holds one tree; a restore moves a tree aside once.
SingleInv ==
    /\ \A t \in Trees : One(live[t]) /\ One(staging[t])
    /\ \A i \in DOMAIN images : \A t \in Trees : One(images[i].trees[t])
    /\ \A a, b \in aside : a.ts = b.ts /\ a.tree = b.tree => a = b
    /\ \A a \in aside : a.ts <= restores
    /\ cli \in {"stage", "mark"} => \A a \in aside : a.ts # restores
    /\ cli \in {"move", "place"} =>
          \A a \in aside : a.ts = restores =>
             \E n \in 1 .. (IF cli = "place" THEN task.done + 1 ELSE task.done) : a.tree = task.plan[n]

\* A tree of the node that is moved aside.
AsideHas(o) == \E a \in aside : a.tree = o[1] /\ a.was.image = 0 /\ a.was.point = o[2]

\* While trees are swapped the marker stands, a writer that is up lost its
\* databases, and what was swapped out is aside.
SwapInv ==
    /\ cli \in Restoring => task.plan \in Plans /\ task.image \in 1 .. Len(images)
    /\ cli \in {"stage", "mark"} => task.done = 0
    /\ cli \in Swapping =>
          /\ task.done <= Len(task.plan) /\ (cli = "place" => task.done < Len(task.plan))
          /\ marker # {}
          /\ task.prior = {} => unpromoted \subseteq {task.image}
          /\ (cli = "place" \/ task.done > 0) /\ serve = "up" => moved
          /\ \A n \in 1 .. (IF cli = "place" THEN task.done + 1 ELSE task.done) :
                \A o \in own : o[1] = task.plan[n] => AsideHas(o)

\* What no promotion confirmed is marked.
MarkedInv == unpromoted # {} => marker # {}

\* What every step keeps.
BackupInv == BackupTypes /\ SingleInv /\ SwapInv /\ MarkedInv /\ RestoredIsFenced /\ NothingDeleted

\* A step that leaves on each path what the node's writer left there.
LiveKept ==
    /\ live' \in NodeType
    /\ \A t \in Trees : One(live'[t])
    /\ \A t \in Trees : \A c \in live[t] : \E d \in live'[t] : d.point = c.point /\ d.image = c.image

\* The order of the swaps: databases first, no tree twice.
LEMMA PlanFacts ==
    ASSUME NEW p \in Plans
    PROVE  /\ p # <<>> /\ DOMAIN p = 1 .. Len(p) /\ Len(p) \in Nat /\ Len(p) > 0
           /\ p[1] = "warehouse" /\ \A n \in 1 .. Len(p) : p[n] \in Trees
           /\ \A m, n \in 1 .. Len(p) : p[m] = p[n] => m = n
<1>1. CASE p = <<"warehouse", "state">>
  <2>1. p \in Seq(Trees) /\ Len(p) = 2 /\ p[1] = "warehouse" /\ p[2] = "state"
    BY <1>1 DEF Trees
  <2>2. \A n \in 1 .. Len(p) : n \in {1, 2}
    BY <2>1
  <2> QED BY <2>1, <2>2 DEF Trees
<1>2. CASE p = <<"warehouse", "state", "ledger">>
  <2>1. p \in Seq(Trees) /\ Len(p) = 3 /\ p[1] = "warehouse" /\ p[2] = "state" /\ p[3] = "ledger"
    BY <1>2 DEF Trees
  <2>2. \A n \in 1 .. Len(p) : n \in {1, 2, 3}
    BY <2>1
  <2> QED BY <2>1, <2>2 DEF Trees
<1> QED BY Zenon, <1>1, <1>2 DEF Plans

\* What a fresh database is.
LEMMA FreshTree == Tree(1) \in TreeType /\ Tree(1).image = 0
  BY DEF Tree, TreeType

\* The one tree on a path is the one that Only finds.
LEMMA OnlyOne == ASSUME NEW S, One(S), S # {} PROVE Only(S) \in S /\ \A c \in S : c = Only(S)
  BY Zenon DEF One, Only

\* A record appended to the ledger, and a key made in its directory, leave the
\* ledger where it was.
LEMMA LedgerFacts ==
    ASSUME live \in NodeType, One(live["ledger"]), keys \in Nat
    PROVE  /\ LedgerDir \in TreeType
           /\ \A c \in live["ledger"] : c = LedgerDir
           /\ SigningKey(LedgerDir) \in Nat
<1>1. "ledger" \in Trees
  BY Zenon DEF Trees
<1>2. LedgerDir \in TreeType /\ \A c \in live["ledger"] : c = LedgerDir
  BY Zenon, <1>1, FreshTree, OnlyOne DEF LedgerDir, NodeType
<1>3. LedgerDir.key \subseteq Nat
  BY Zenon, <1>2 DEF TreeType
<1>4. SigningKey(LedgerDir) \in Nat
  <2>1. 0 \in Nat /\ keys + 1 \in Nat
    OBVIOUS
  <2>2. LedgerDir.key # {} => Only(LedgerDir.key) \in LedgerDir.key
    BY Zenon DEF Only
  <2> QED BY Zenon, <1>3, <2>1, <2>2 DEF SigningKey
<1> QED BY Zenon, <1>2, <1>4

\* One tree is written over the ledger, of the same point and image.
LEMMA LedgerWritten ==
    ASSUME live \in NodeType, \A t \in Trees : One(live[t]), NEW r \in TreeType,
           \A c \in live["ledger"] : c.point = r.point /\ c.image = r.image,
           live' = [live EXCEPT !["ledger"] = {r}]
    PROVE  LiveKept /\ \A t \in Databases : live'[t] = live[t]
<1>1. "ledger" \in Trees /\ Databases \subseteq Trees /\ "ledger" \notin Databases
  BY DEF Trees, Databases
<1>2. live'["ledger"] = {r} /\ \A t \in Trees : t # "ledger" => live'[t] = live[t]
  BY Zenon, <1>1 DEF NodeType
<1>3. live' \in NodeType
  BY Zenon, <1>1 DEF NodeType
<1>4. \A t \in Trees : One(live'[t])
  <2>1. One({r})
    BY DEF One
  <2> QED BY Zenon, <1>2, <2>1
<1>5. \A t \in Trees : \A c \in live[t] : \E d \in live'[t] : d.point = c.point /\ d.image = c.image
  BY Zenon, <1>2
<1> QED BY Zenon, <1>1, <1>2, <1>3, <1>4, <1>5 DEF LiveKept

\* Nothing is written.
LEMMA LiveSame ==
    ASSUME live \in NodeType, \A t \in Trees : One(live[t]), live' = live
    PROVE  LiveKept /\ \A t \in Databases : live'[t] = live[t]
  BY Zenon DEF LiveKept

\* The append of a command's record.
LEMMA RecordFacts ==
    ASSUME live \in NodeType, \A t \in Trees : One(live[t]), keys \in Nat, NEW rec \in RecordType,
           live' = IF audited THEN [live EXCEPT !["ledger"] = Recorded(rec)] ELSE live,
           keys' = IF audited /\ MintsKey(LedgerDir) THEN keys + 1 ELSE keys
    PROVE  LiveKept /\ keys' \in Nat /\ \A t \in Databases : live'[t] = live[t]
<1>1. "ledger" \in Trees
  BY Zenon DEF Trees
<1>2. LedgerDir \in TreeType /\ (\A c \in live["ledger"] : c = LedgerDir) /\ SigningKey(LedgerDir) \in Nat
  BY Zenon, <1>1, LedgerFacts
<1> DEFINE l == LedgerDir
           s == SigningKey(LedgerDir)
           r == [l EXCEPT !.recs = @ \cup {rec}, !.signed = @ \cup {s},
                          !.key = IF keyOutside THEN @ ELSE {s}, !.pub = {s}]
<1>3. Recorded(rec) = {r}
  BY Zenon DEF Recorded
<1>4. l \in TreeType /\ s \in Nat
  BY Zenon, <1>2
<1> HIDE DEF l, s
<1>5. r \in TreeType /\ r.point = l.point /\ r.image = l.image
  BY <1>4 DEF TreeType
<1> HIDE DEF r
<1>6. keys' \in Nat
  OBVIOUS
<1>7. \A c \in live["ledger"] : c.point = r.point /\ c.image = r.image
  BY Zenon, <1>2, <1>5 DEF l
<1> QED BY Zenon, <1>3, <1>5, <1>6, <1>7, LedgerWritten, LiveSame

\* A node that was never restored.
LEMMA BackupInitial == BackupInit => BackupInv
<1> SUFFICES ASSUME BackupInit PROVE BackupInv
  BY Zenon
<1>1. One({}) /\ One({Tree(1)}) /\ {Tree(1)} \subseteq TreeType
  BY FreshTree DEF One
<1>2. live \in NodeType /\ staging \in NodeType /\ \A t \in Trees : One(live[t]) /\ One(staging[t])
  BY Zenon, <1>1 DEF BackupInit, NodeType
<1>3. "state" \in Trees
  BY Zenon DEF Trees
<1>4. own \subseteq Trees \X Nat
  <2>1. \A c \in live["state"] : c.point \in Nat
    <3>1. live["state"] \subseteq TreeType
      BY Zenon, <1>2, <1>3 DEF NodeType
    <3> QED BY <3>1 DEF TreeType
  <2> QED BY <2>1 DEF BackupInit
<1>5. BackupTypes
  <2>1. images \in Seq(ImageType) /\ points \in Nat /\ restores \in Nat /\ keys \in Nat
    BY DEF BackupInit
  <2>2. task \in [image : Nat, plan : {<<>>} \cup Plans, done : Nat, prior : SUBSET Nat]
    BY DEF BackupInit, NoTask
  <2> QED BY Zenon, <1>2, <1>4, <2>1, <2>2 DEF BackupTypes, BackupInit
<1>6. SingleInv
  <2>1. DOMAIN images = {} /\ cli \notin {"stage", "mark", "move", "place"}
    BY DEF BackupInit
  <2> QED BY Zenon, <1>2, <2>1 DEF BackupInit, SingleInv
<1>7. SwapInv
  BY DEF BackupInit, SwapInv, Restoring, Swapping
<1>8. MarkedInv /\ RestoredIsFenced
  BY DEF BackupInit, MarkedInv, RestoredIsFenced
<1>9. NothingDeleted
  <2> SUFFICES ASSUME NEW o \in own PROVE \E c \in live[o[1]] : c.image = 0 /\ c.point = o[2]
    BY Zenon DEF NothingDeleted
  <2>1. PICK t \in Trees, c \in live["state"] : o = <<t, c.point>>
    BY DEF BackupInit
  <2>2. o[1] = t /\ o[2] = c.point
    BY <2>1
  <2>3. c = Tree(1) /\ c \in live[t]
    BY ZenonT(60), <1>3 DEF BackupInit
  <2> QED BY Zenon, <2>2, <2>3, FreshTree
<1> QED BY Zenon, <1>5, <1>6, <1>7, <1>8, <1>9 DEF BackupInv

\* No command.
LEMMA NoTaskType == NoTask \in [image : Nat, plan : {<<>>} \cup Plans, done : Nat, prior : SUBSET Nat]
  BY DEF NoTask

\* A step of the writer, or of a command that swaps nothing: the trees of the node
\* stay, and where the writer comes up or stays up no restored tree is put before it.
LEMMA CalmStep ==
    ASSUME BackupInv, LiveKept, UNCHANGED <<staging, aside, history, restores, points>>,
           cli' = cli \/ cli' \in {"idle", "create", "promote"},
           task' = task \/ (cli' = "idle" /\ task' = NoTask),
           marker' = marker \/ (cli' = "idle" /\ marker' # {} /\ marker' \subseteq Nat),
           images' \in Seq(ImageType), Len(images') >= Len(images),
           \A i \in DOMAIN images' : \A t \in Trees : One(images'[i].trees[t]),
           keys' \in Nat,
           \/ serve' # "up"
           \/ serve' = serve /\ moved' = moved /\ \A t \in Databases : live'[t] = live[t]
           \/ marker = {}
    PROVE  BackupInv'
<1>0. BackupTypes /\ SingleInv /\ SwapInv /\ MarkedInv /\ RestoredIsFenced /\ NothingDeleted
  BY Zenon DEF BackupInv
<1>1. cli' \in Restoring \cup {"stage", "mark", "move", "place"} => cli' = cli /\ task' = task /\ marker' = marker
  BY DEF Restoring, Swapping
<1>2. BackupTypes'
  BY Zenon, <1>0, NoTaskType DEF BackupTypes, LiveKept, history
<1>3. SingleInv'
  BY ZenonT(60), <1>0, <1>1 DEF SingleInv, LiveKept
<1>4. RestoredIsFenced'
  BY Zenon, <1>0 DEF RestoredIsFenced, MarkedInv, history
<1>5. MarkedInv'
  BY Zenon, <1>0 DEF MarkedInv, history
<1>6. NothingDeleted'
  <2>1. \A o \in own : o[1] \in Trees
    BY Zenon, <1>0 DEF BackupTypes
  <2>2. ASSUME NEW o \in own, NEW c \in live[o[1]], c.image = 0, c.point = o[2]
        PROVE  \E d \in live'[o[1]] : d.image = 0 /\ d.point = o[2]
    <3>1. PICK d \in live'[o[1]] : d.point = c.point /\ d.image = c.image
      BY Zenon, <2>1, <2>2 DEF LiveKept
    <3> QED BY Zenon, <2>2, <3>1
  <2> QED BY Zenon, <1>0, <2>2 DEF NothingDeleted, history
<1>7. SwapInv'
  <2>1. cli' \in Restoring => cli' = cli /\ task' = task /\ marker' = marker /\ task.image \in 1 .. Len(images')
    <3>1. Len(images) \in Nat /\ Len(images') \in Nat /\ task.image \in Nat
      BY <1>0 DEF BackupTypes
    <3>2. cli' \in Restoring => task.image \in 1 .. Len(images)
      BY Zenon, <1>0, <1>1 DEF SwapInv
    <3> QED BY <1>1, <3>1, <3>2
  <2>2. cli' \in Swapping => cli' \in Restoring /\ marker # {}
    BY Zenon, <1>0, <2>1 DEF Restoring, SwapInv
  <2>3. cli' \in {"stage", "mark", "place"} => cli' = cli /\ task' = task
    BY Zenon, <1>1
  <2>4. cli' \in Swapping /\ serve' = "up" => serve = "up" /\ moved' = moved
    BY Zenon, <2>2
  <2>5. \A o : AsideHas(o)' <=> AsideHas(o)
    BY Zenon DEF AsideHas
  <2> QED BY Zenon, <1>0, <2>1, <2>2, <2>3, <2>4, <2>5 DEF SwapInv, history
<1> QED BY Zenon, <1>2, <1>3, <1>4, <1>5, <1>6, <1>7 DEF BackupInv

\* The step of a writer, or of a command that is not a restore.
LEMMA WriterStep ==
    ASSUME BackupInv,
           \/ ServeCheck \/ ServeOpen \/ ServeRecheck \/ ServeStop \/ create \/ CreateImage
           \/ promote \/ CrashCommand \/ (\E i \in 1 .. Len(images) : DamageImage(i)) \/ DamageWarehouse
    PROVE  BackupInv'
<1>0. BackupTypes /\ SingleInv
  BY Zenon DEF BackupInv
<1>1. /\ live \in NodeType /\ keys \in Nat /\ images \in Seq(ImageType) /\ Len(images) \in Nat
      /\ \A t \in Trees : One(live[t])
      /\ \A i \in DOMAIN images : \A t \in Trees : One(images[i].trees[t])
  BY <1>0 DEF BackupTypes, SingleInv
<1>2. Len(images) >= Len(images)
  BY <1>1
<1>3. live' = live => LiveKept /\ \A t \in Databases : live'[t] = live[t]
  BY Zenon, <1>1, LiveSame
<1>4. CASE ServeCheck \/ ServeStop \/ CrashCommand
  BY Zenon, <1>1, <1>2, <1>3, <1>4, CalmStep
     DEF ServeCheck, ServeStop, CrashCommand, disk, command, history, writer, counts
<1>5. CASE ServeOpen
  <2>1. LiveKept
    <3>1. CASE fenced = {}
      <4>1. live' = [t \in Trees |-> IF t \in Databases /\ live[t] = {} THEN {Tree(1)} ELSE live[t]]
        BY Zenon, <1>5, <3>1 DEF ServeOpen
      <4>2. One({Tree(1)}) /\ {Tree(1)} \subseteq TreeType
        BY FreshTree DEF One
      <4>3. \A t \in Trees : live'[t] = IF t \in Databases /\ live[t] = {} THEN {Tree(1)} ELSE live[t]
        BY Zenon, <4>1
      <4>4. live' \in NodeType
        BY Zenon, <1>1, <4>1, <4>2 DEF NodeType
      <4> QED BY Zenon, <1>1, <4>2, <4>3, <4>4 DEF LiveKept
    <3>2. CASE fenced # {}
      BY Zenon, <1>3, <1>5, <3>2 DEF ServeOpen
    <3> QED BY Zenon, <3>1, <3>2
  <2>2. serve' # "up"
    BY <1>5 DEF ServeOpen
  <2> QED BY Zenon, <1>1, <1>2, <1>5, <2>1, <2>2, CalmStep DEF ServeOpen, command, history, counts
<1>6. CASE ServeRecheck
  <2>1. <<"serve", 0>> \in RecordType /\ "down" # "up"
    BY DEF RecordType
  <2>2. marker = {} => LiveKept /\ keys' \in Nat
    BY Zenon, <1>1, <1>6, <2>1, RecordFacts DEF ServeRecheck
  <2>3. marker # {} => LiveKept /\ keys' \in Nat /\ serve' = "down"
    BY Zenon, <1>1, <1>3, <1>6 DEF ServeRecheck
  <2> QED BY Zenon, <1>1, <1>2, <1>6, <2>1, <2>2, <2>3, CalmStep DEF ServeRecheck, command, history
<1>7. CASE create \/ promote
  <2>1. PICK rec \in RecordType : Record(rec)
    <3>1. <<"backup", Len(images) + 1>> \in RecordType
      BY <1>1 DEF RecordType
    <3>2. marker # {} => <<"promote", Only(marker)>> \in RecordType
      <4>1. marker # {} => Only(marker) \in marker
        BY Zenon DEF Only
      <4>2. marker # {} => Only(marker) \in Nat
        BY Zenon, <1>0, <4>1 DEF BackupTypes
      <4> QED BY <4>2 DEF RecordType
    <3> QED BY Zenon, <1>7, <3>1, <3>2 DEF create, promote
  <2>2. LiveKept /\ keys' \in Nat /\ \A t \in Databases : live'[t] = live[t]
    BY Zenon, <1>1, <2>1, RecordFacts DEF Record
  <2> QED BY Zenon, <1>1, <1>2, <1>7, <2>2, CalmStep DEF create, promote, writer, history
<1>9. CASE \E i \in 1 .. Len(images) : DamageImage(i)
  <2>1. PICK i \in 1 .. Len(images) : DamageImage(i)
    BY Zenon, <1>9
  <2>2. images' = [images EXCEPT ![i] = [@ EXCEPT !.damaged = TRUE]] /\ images[i] \in ImageType
    BY <1>1, <2>1 DEF DamageImage
  <2>3. /\ [images[i] EXCEPT !.damaged = TRUE] \in ImageType
        /\ [images[i] EXCEPT !.damaged = TRUE].trees = images[i].trees
    BY <2>2 DEF ImageType
  <2> DEFINE e == [images[i] EXCEPT !.damaged = TRUE]
  <2> HIDE DEF e
  <2>4. /\ images' \in Seq(ImageType) /\ Len(images') = Len(images) /\ DOMAIN images' = DOMAIN images
        /\ \A j \in DOMAIN images : images'[j] = IF j = i THEN e ELSE images[j]
    BY <1>1, <2>2, <2>3 DEF e
  <2>5. \A j \in DOMAIN images' : \A t \in Trees : One(images'[j].trees[t])
    BY Zenon, <1>1, <2>3, <2>4 DEF e
  <2> QED BY Zenon, <1>1, <1>2, <1>3, <2>1, <2>4, <2>5, CalmStep
         DEF DamageImage, disk, writer, command, history
<1>10. CASE DamageWarehouse
  <2>1. live' = [live EXCEPT !["warehouse"] = {[c EXCEPT !.opens = FALSE] : c \in live["warehouse"]}]
    BY Zenon, <1>10 DEF DamageWarehouse
  <2>2. "warehouse" \in Trees
    BY Zenon DEF Trees
  <2>3. \A c \in live["warehouse"] : LET d == [c EXCEPT !.opens = FALSE]
                                     IN  d \in TreeType /\ d.point = c.point /\ d.image = c.image
    <3>1. live["warehouse"] \subseteq TreeType
      BY Zenon, <1>1, <2>2 DEF NodeType
    <3> QED BY <3>1 DEF TreeType
  <2>4. /\ live'["warehouse"] = {[c EXCEPT !.opens = FALSE] : c \in live["warehouse"]}
        /\ \A t \in Trees : t # "warehouse" => live'[t] = live[t]
    BY Zenon, <1>1, <2>1, <2>2 DEF NodeType
  <2>5. live' \in NodeType
    <3>1. {[c EXCEPT !.opens = FALSE] : c \in live["warehouse"]} \in SUBSET TreeType
      BY Zenon, <2>3
    <3> QED BY Zenon, <1>1, <2>1, <3>1 DEF NodeType
  <2>6. One(live'["warehouse"])
    <3>1. \A c, d \in live["warehouse"] : c = d
      BY Zenon, <1>1, <2>2 DEF One
    <3> QED BY <2>4, <3>1 DEF One
  <2>7. \A c \in live["warehouse"] : \E d \in live'["warehouse"] : d.point = c.point /\ d.image = c.image
    BY Zenon, <2>3, <2>4
  <2>8. LiveKept
    BY Zenon, <1>1, <2>4, <2>5, <2>6, <2>7 DEF LiveKept
  <2>9. serve' # "up"
    BY <1>10 DEF DamageWarehouse, writer
  <2> QED BY Zenon, <1>1, <1>2, <1>10, <2>8, <2>9, CalmStep DEF DamageWarehouse, writer, command, history
<1>11. CASE CreateImage
  <2> DEFINE l == LedgerDir
             k == SigningKey(LedgerDir)
             copy == [t \in Trees |-> {[c EXCEPT !.image = Len(images) + 1, !.key = {}] : c \in live[t]}]
             img == [trees |-> copy, signer |-> k, damaged |-> FALSE,
                     degraded |-> \E c \in live["warehouse"] : ~ c.opens]
  <2>1. /\ images' = Append(images, img)
        /\ live' = IF MintsKey(LedgerDir) THEN [live EXCEPT !["ledger"] = {[l EXCEPT !.key = {k}]}] ELSE live
        /\ keys' = IF MintsKey(LedgerDir) THEN keys + 1 ELSE keys
    BY Zenon, <1>11 DEF CreateImage
  <2>2. "ledger" \in Trees
    BY Zenon DEF Trees
  <2>3. l \in TreeType /\ k \in Nat /\ \A c \in live["ledger"] : c = l
    BY Zenon, <1>1, <2>2, LedgerFacts
  <2>4. keys' \in Nat
    <3>1. keys + 1 \in Nat
      BY <1>1
    <3> QED BY Zenon, <1>1, <2>1, <3>1
  <2>5. copy \in NodeType /\ \A t \in Trees : One(copy[t])
    <3>1. ASSUME NEW t \in Trees PROVE copy[t] \subseteq TreeType /\ One(copy[t])
      <4>1. live[t] \subseteq TreeType /\ Len(images) + 1 \in Nat
        BY <1>1 DEF NodeType
      <4>2. \A c \in TreeType : [c EXCEPT !.image = Len(images) + 1, !.key = {}] \in TreeType
        BY <4>1 DEF TreeType
      <4>3. \A c, d \in live[t] : c = d
        BY Zenon, <1>1 DEF One
      <4>4. copy[t] = {[c EXCEPT !.image = Len(images) + 1, !.key = {}] : c \in live[t]}
        BY Zenon
      <4> HIDE DEF copy
      <4> QED BY <4>1, <4>2, <4>3, <4>4 DEF One
    <3> QED BY Zenon, <3>1 DEF NodeType
  <2>6. img \in ImageType /\ img.trees = copy
    <3> HIDE DEF copy, k
    <3> QED BY <2>3, <2>5 DEF ImageType
  <2> HIDE DEF copy, img
  <2>7. /\ images' \in Seq(ImageType) /\ Len(images') >= Len(images)
        /\ \A i \in DOMAIN images' : images'[i] = img \/ (i \in DOMAIN images /\ images'[i] = images[i])
    BY <1>1, <2>1, <2>6
  <2>8. \A i \in DOMAIN images' : \A t \in Trees : One(images'[i].trees[t])
    BY Zenon, <1>1, <2>5, <2>6, <2>7
  <2> DEFINE r == [l EXCEPT !.key = {k}]
  <2>9. LiveKept /\ \A t \in Databases : live'[t] = live[t]
    <3> HIDE DEF l, k
    <3>1. r \in TreeType /\ l.point = r.point /\ l.image = r.image
      BY <2>3 DEF TreeType
    <3> HIDE DEF r
    <3> QED BY Zenon, <1>1, <1>3, <2>1, <2>3, <3>1, LedgerWritten DEF r
  <2> QED BY Zenon, <1>1, <1>11, <2>4, <2>7, <2>8, <2>9, CalmStep DEF CreateImage, writer, history
<1> QED BY Zenon, <1>4, <1>5, <1>6, <1>7, <1>9, <1>10, <1>11

\* The writer brings its trees to a new point, and leaves nothing behind it.
LEMMA WorkStep == ASSUME BackupInv, ServeWork PROVE BackupInv'
<1>0. BackupTypes /\ SingleInv /\ SwapInv /\ MarkedInv /\ NothingDeleted
  BY Zenon DEF BackupInv
<1> DEFINE p == points + 1
           new(c) == [c EXCEPT !.point = p, !.image = 0]
<1>1. /\ live' = [t \in Trees |-> {new(c) : c \in live[t]}]
      /\ own' = (own \ {o \in own : \E c \in live[o[1]] : c.image = 0 /\ c.point = o[2]})
                    \cup {<<t, p>> : t \in {u \in Trees : live[u] # {}}}
      /\ points' = p /\ serve = "up" /\ ~moved
      /\ UNCHANGED <<staging, aside, marker, images, serve, moved, cli, task, unpromoted, restores, keys>>
  BY Zenon DEF ServeWork, writer, command
<1>2. p \in Nat /\ 0 \in Nat /\ 0 \notin unpromoted
  BY <1>0 DEF BackupTypes
<1> HIDE DEF p
<1>3. ASSUME NEW t \in Trees
      PROVE  /\ live'[t] \subseteq TreeType /\ One(live'[t])
             /\ \A c \in live'[t] : c.image = 0 /\ c.point = p
             /\ live[t] # {} => live'[t] # {}
  <2>1. live'[t] = {new(c) : c \in live[t]} /\ live[t] \subseteq TreeType
    BY Zenon, <1>0, <1>1 DEF BackupTypes, NodeType
  <2>2. \A c \in TreeType : new(c) \in TreeType /\ new(c).image = 0 /\ new(c).point = p
    BY <1>2 DEF TreeType
  <2>3. \A c, d \in live[t] : c = d
    BY Zenon, <1>0 DEF SingleInv, One
  <2> HIDE DEF new
  <2> QED BY <2>1, <2>2, <2>3 DEF One
<1>4. live' \in NodeType
  BY Zenon, <1>1, <1>3 DEF NodeType
<1>5. \A o \in own' : \/ o \in own /\ AsideHas(o)
                      \/ \E t \in Trees : o = <<t, p>> /\ live[t] # {}
  BY Zenon, <1>0, <1>1 DEF NothingDeleted, AsideHas
<1>6. BackupTypes'
  <2>1. own' \subseteq Trees \X Nat
    <3>1. own \subseteq Trees \X Nat
      BY Zenon, <1>0 DEF BackupTypes
    <3> QED BY <1>2, <1>5, <3>1
  <2> QED BY Zenon, <1>0, <1>1, <1>2, <1>4, <2>1 DEF BackupTypes
<1>7. SingleInv'
  BY Zenon, <1>0, <1>1, <1>3 DEF SingleInv
<1>8. SwapInv'
  <2>1. cli \in Swapping => cli # "place" /\ ~ task.done > 0
    BY Zenon, <1>0, <1>1 DEF SwapInv
  <2>2. cli \in Swapping => \A n \in 1 .. task.done : FALSE
    <3>1. task.done \in Nat
      BY Zenon, <1>0 DEF BackupTypes
    <3> QED BY <2>1, <3>1
  <2> QED BY Zenon, <1>0, <1>1, <2>1, <2>2 DEF SwapInv
<1>9. MarkedInv' /\ RestoredIsFenced'
  <2>1. Databases \subseteq Trees
    BY DEF Databases, Trees
  <2> QED BY Zenon, <1>0, <1>1, <1>2, <1>3, <2>1 DEF MarkedInv, RestoredIsFenced
<1>10. NothingDeleted'
  <2>1. ASSUME NEW t \in Trees, live[t] # {}, NEW o, o = <<t, p>>
        PROVE  \E c \in live'[o[1]] : c.image = 0 /\ c.point = o[2]
    <3>1. o[1] = t /\ o[2] = p
      BY <2>1
    <3> QED BY Zenon, <1>3, <2>1, <3>1
  <2>2. ASSUME NEW o, AsideHas(o)
        PROVE  \E a \in aside' : a.tree = o[1] /\ a.was.image = 0 /\ a.was.point = o[2]
    BY Zenon, <1>1, <2>2 DEF AsideHas
  <2> QED BY Zenon, <1>5, <2>1, <2>2 DEF NothingDeleted
<1> QED BY Zenon, <1>6, <1>7, <1>8, <1>9, <1>10 DEF BackupInv

\* The restore begins: its stamp is new.
LEMMA RestoreBegins ==
    ASSUME BackupInv, NEW i \in 1 .. Len(images), NEW k, NEW accept, restore(i, k, accept)
    PROVE  BackupInv'
<1>0. BackupTypes /\ SingleInv /\ MarkedInv /\ NothingDeleted
  BY Zenon DEF BackupInv
<1> DEFINE plan == IF images[i].trees["ledger"] = {} THEN <<"warehouse", "state">>
                                                     ELSE <<"warehouse", "state", "ledger">>
<1>1. /\ Record(<<"restore", i>>) /\ restores' = restores + 1 /\ cli' = "stage"
      /\ task' = [NoTask EXCEPT !.image = i, !.plan = plan]
      /\ serve \notin {"opened", "up"}
      /\ UNCHANGED <<staging, aside, marker, images, serve, moved, own, unpromoted, points>>
  BY Zenon DEF restore, Fence, writer, history
<1>2. i \in Nat /\ <<"restore", i>> \in RecordType /\ restores \in Nat /\ restores + 1 \in Nat
  BY <1>0 DEF BackupTypes, RecordType
<1>3. LiveKept /\ keys' \in Nat
  BY Zenon, <1>0, <1>1, <1>2, RecordFacts DEF BackupTypes, SingleInv, Record
<1>4. plan \in Plans
  BY Zenon DEF Plans
<1> HIDE DEF plan
<1>5. /\ task' = [image |-> i, plan |-> plan, done |-> 0, prior |-> {}]
      /\ task'.plan = plan /\ task'.done = 0 /\ task'.image = i
  BY <1>1 DEF NoTask
<1>6. BackupTypes'
  <2>1. task' \in [image : Nat, plan : {<<>>} \cup Plans, done : Nat, prior : SUBSET Nat]
    BY <1>2, <1>4, <1>5
  <2> QED BY Zenon, <1>0, <1>1, <1>2, <1>3, <2>1 DEF BackupTypes, LiveKept
<1>7. SingleInv'
  <2>1. \A a \in aside : a.ts <= restores + 1 /\ a.ts # restores + 1
    <3>1. \A a \in aside : a.ts \in Nat /\ a.ts <= restores
      BY Zenon, <1>0 DEF BackupTypes, SingleInv
    <3> QED BY <1>2, <3>1
  <2>2. "stage" \notin {"move", "place"}
    OBVIOUS
  <2> QED BY Zenon, <1>0, <1>1, <1>3, <2>1, <2>2 DEF SingleInv, LiveKept
<1>8. SwapInv'
  <2>1. cli' \notin Swapping
    BY <1>1 DEF Swapping
  <2> QED BY Zenon, <1>1, <1>4, <1>5, <2>1 DEF SwapInv
<1>9. MarkedInv' /\ RestoredIsFenced'
  BY Zenon, <1>0, <1>1 DEF MarkedInv, RestoredIsFenced
<1>10. NothingDeleted'
  <2>1. \A o \in own : o[1] \in Trees
    BY Zenon, <1>0 DEF BackupTypes
  <2>2. ASSUME NEW o \in own, NEW c \in live[o[1]], c.image = 0, c.point = o[2]
        PROVE  \E d \in live'[o[1]] : d.image = 0 /\ d.point = o[2]
    <3>1. PICK d \in live'[o[1]] : d.point = c.point /\ d.image = c.image
      BY Zenon, <1>3, <2>1, <2>2 DEF LiveKept
    <3> QED BY Zenon, <2>2, <3>1
  <2> QED BY Zenon, <1>0, <1>1, <2>2 DEF NothingDeleted
<1> QED BY Zenon, <1>6, <1>7, <1>8, <1>9, <1>10 DEF BackupInv

\* The trees are staged.
LEMMA StageStep == ASSUME BackupInv, RestoreStage PROVE BackupInv'
<1>0. BackupTypes /\ SingleInv /\ SwapInv /\ MarkedInv /\ RestoredIsFenced /\ NothingDeleted
  BY Zenon DEF BackupInv
<1>1. /\ cli = "stage" /\ UNCHANGED <<live, aside, marker, images, serve, moved, own, unpromoted, points, restores, keys>>
  BY Zenon DEF RestoreStage, writer, history
<1>2. /\ images \in Seq(ImageType) /\ Len(images) \in Nat /\ live \in NodeType /\ staging \in NodeType /\ keys \in Nat
      /\ \A i \in DOMAIN images : \A t \in Trees : One(images[i].trees[t])
      /\ \A t \in Trees : One(live[t]) /\ One(staging[t])
  BY <1>0 DEF BackupTypes, SingleInv
<1>3. CASE cli' = "idle" /\ task' = NoTask /\ UNCHANGED staging
  <2>1. LiveKept /\ \A t \in Databases : live'[t] = live[t]
    BY Zenon, <1>1, <1>2, LiveSame
  <2>2. Len(images) >= Len(images)
    BY <1>2
  <2> QED BY Zenon, <1>1, <1>2, <1>3, <2>1, <2>2, CalmStep DEF history
<1>4. CASE /\ staging' = [t \in Trees |-> IF t \in Planned THEN images[task.image].trees[t] ELSE staging[t]]
           /\ cli' = "mark" /\ UNCHANGED task
  <2>1. task.plan \in Plans /\ task.image \in 1 .. Len(images) /\ task.done = 0 /\ \A a \in aside : a.ts # restores
    BY Zenon, <1>0, <1>1 DEF SwapInv, SingleInv, Restoring
  <2>2. task.image \in DOMAIN images /\ images[task.image].trees \in NodeType
    <3>1. task.image \in DOMAIN images /\ images[task.image] \in ImageType
      BY <1>2, <2>1
    <3> QED BY Zenon, <3>1 DEF ImageType
  <2>3. staging' \in NodeType /\ \A t \in Trees : One(staging'[t])
    BY Zenon, <1>2, <1>4, <2>2 DEF NodeType
  <2>4. BackupTypes'
    BY Zenon, <1>0, <1>1, <1>4, <2>3 DEF BackupTypes
  <2>5. cli' \notin Swapping /\ cli' \notin {"move", "place"}
    BY <1>4 DEF Swapping
  <2>6. SingleInv'
    BY Zenon, <1>0, <1>1, <1>4, <2>1, <2>3, <2>5 DEF SingleInv
  <2>7. SwapInv'
    BY Zenon, <1>1, <1>4, <2>1, <2>5 DEF SwapInv
  <2>8. MarkedInv' /\ RestoredIsFenced' /\ NothingDeleted'
    BY Zenon, <1>0, <1>1 DEF MarkedInv, RestoredIsFenced, NothingDeleted
  <2> QED BY Zenon, <2>4, <2>6, <2>7, <2>8 DEF BackupInv
<1> QED BY Zenon, <1>3, <1>4 DEF RestoreStage

\* The marker is written before anything is moved.
LEMMA MarkStep == ASSUME BackupInv, RestoreMark PROVE BackupInv'
<1>0. BackupTypes /\ SingleInv /\ SwapInv /\ MarkedInv /\ RestoredIsFenced /\ NothingDeleted
  BY Zenon DEF BackupInv
<1>1. /\ cli = "mark"
      /\ UNCHANGED <<live, staging, aside, images, serve, moved, own, unpromoted, points, restores, keys>>
  BY Zenon DEF RestoreMark, writer, history
<1>2. /\ images \in Seq(ImageType) /\ Len(images) \in Nat /\ live \in NodeType /\ keys \in Nat
      /\ \A i \in DOMAIN images : \A t \in Trees : One(images[i].trees[t])
      /\ \A t \in Trees : One(live[t])
  BY <1>0 DEF BackupTypes, SingleInv
<1>3. CASE cli' = "idle" /\ task' = NoTask /\ marker' = {Blank}
  <2>1. LiveKept /\ \A t \in Databases : live'[t] = live[t]
    BY Zenon, <1>1, <1>2, LiveSame
  <2>2. Len(images) >= Len(images) /\ marker' # {} /\ marker' \subseteq Nat
    BY <1>2, <1>3 DEF Blank
  <2> QED BY Zenon, <1>1, <1>2, <1>3, <2>1, <2>2, CalmStep DEF history
<1>4. CASE marker' = {task.image} /\ cli' = "move" /\ task' = [task EXCEPT !.prior = marker]
  <2>1. task.plan \in Plans /\ task.image \in 1 .. Len(images) /\ task.done = 0 /\ \A a \in aside : a.ts # restores
    BY Zenon, <1>0, <1>1 DEF SwapInv, SingleInv, Restoring
  <2>2. /\ task' \in [image : Nat, plan : {<<>>} \cup Plans, done : Nat, prior : SUBSET Nat]
        /\ task'.plan = task.plan /\ task'.image = task.image /\ task'.done = 0 /\ task'.prior = marker
    BY Zenon, <1>0, <1>4, <2>1 DEF BackupTypes
  <2>3. marker' \subseteq Nat
    BY Zenon, <1>0, <1>4 DEF BackupTypes
  <2>4. BackupTypes'
    BY Zenon, <1>0, <1>1, <2>2, <2>3 DEF BackupTypes
  <2>5. cli' \notin {"stage", "mark"} /\ cli' # "place" /\ cli' \in Restoring
    BY <1>4 DEF Swapping, Restoring
  <2>6. SingleInv'
    BY Zenon, <1>0, <1>1, <1>4, <2>1, <2>5 DEF SingleInv
  <2>7. SwapInv'
    <3>1. 0 <= Len(task.plan) /\ ~(0 > 0) /\ \A n \in 1 .. 0 : FALSE
      <4>1. Len(task.plan) \in Nat
        BY Zenon, <2>1, PlanFacts
      <4> QED BY <4>1
    <3>2. marker = {} => unpromoted = {}
      BY Zenon, <1>0 DEF MarkedInv
    <3> QED BY Zenon, <1>1, <1>4, <2>1, <2>2, <2>5, <3>1, <3>2 DEF SwapInv
  <2>8. MarkedInv' /\ RestoredIsFenced' /\ NothingDeleted'
    BY Zenon, <1>0, <1>1, <1>4 DEF MarkedInv, RestoredIsFenced, NothingDeleted
  <2> QED BY Zenon, <2>4, <2>6, <2>7, <2>8 DEF BackupInv
<1> QED BY Zenon, <1>3, <1>4 DEF RestoreMark

\* The swaps that are done are of the first trees of the plan; the next is another.
LEMMA SwapFacts ==
    ASSUME BackupTypes, SwapInv, cli \in Swapping
    PROVE  /\ task.plan \in Plans /\ task.image \in 1 .. Len(images) /\ task.image \in Nat \ {0}
           /\ task.done \in Nat /\ Len(task.plan) \in Nat /\ task.done <= Len(task.plan)
           /\ cli = "place" => task.done < Len(task.plan)
           /\ marker # {} /\ (task.prior = {} => unpromoted \subseteq {task.image})
           /\ (cli = "place" \/ task.done > 0) /\ serve = "up" => moved
<1>1. cli \in Restoring
  BY Zenon DEF Restoring
<1>2. task.plan \in Plans /\ task.image \in 1 .. Len(images) /\ task.done \in Nat
  BY Zenon, <1>1 DEF BackupTypes, SwapInv
<1>3. task.image \in Nat \ {0}
  BY <1>2
<1> QED BY Zenon, <1>2, <1>3, PlanFacts DEF SwapInv

\* The tree that is swapped next is none of those that were.
LEMMA NextTreeFacts ==
    ASSUME NEW p \in Plans, NEW n \in Nat, n < Len(p)
    PROVE  /\ p[n + 1] \in Trees /\ n + 1 \in 1 .. Len(p)
           /\ \A m \in 1 .. n : p[m] # p[n + 1]
           /\ n = 0 => p[n + 1] \in Databases
           /\ \A m \in 1 .. (n + 1) : m \in 1 .. n \/ m = n + 1
           /\ \A m \in 1 .. n : m \in 1 .. (n + 1)
<1>1. /\ Len(p) \in Nat /\ p[1] = "warehouse" /\ \A m \in 1 .. Len(p) : p[m] \in Trees
      /\ \A k, m \in 1 .. Len(p) : p[k] = p[m] => k = m
  BY Zenon, PlanFacts
<1>2. n + 1 \in 1 .. Len(p) /\ \A m \in 1 .. n : m \in 1 .. Len(p) /\ m # n + 1
  BY <1>1
<1>3. n = 0 => p[n + 1] \in Databases
  BY <1>1 DEF Databases
<1>4. (\A m \in 1 .. (n + 1) : m \in 1 .. n \/ m = n + 1) /\ \A m \in 1 .. n : m \in 1 .. (n + 1)
  OBVIOUS
<1> QED BY Zenon, <1>1, <1>2, <1>3, <1>4

\* A rename of the live tree out of the way.
LEMMA MoveStep == ASSUME BackupInv, MoveAside PROVE BackupInv'
<1>0. BackupTypes /\ SingleInv /\ SwapInv /\ MarkedInv /\ RestoredIsFenced /\ NothingDeleted
  BY Zenon DEF BackupInv
<1> DEFINE t == NextTree(task)
<1>1. /\ cli = "move" /\ task.done < Len(task.plan)
      /\ UNCHANGED <<staging, marker, images, serve, task, own, unpromoted, points, restores, keys>>
      /\ \/ /\ aside' = aside \cup SetAside(t)
            /\ live' = [live EXCEPT ![t] = {}]
            /\ moved' = (moved \/ (t \in Databases /\ serve \in {"opened", "up"}))
            /\ cli' = "place"
         \/ cli' = "rollback" /\ UNCHANGED <<aside, live, moved>>
  BY Zenon DEF MoveAside, history
<1>2. cli \in Swapping /\ cli \in Restoring
  BY <1>1 DEF Swapping, Restoring
<1>3. /\ task.plan \in Plans /\ task.image \in 1 .. Len(images) /\ task.done \in Nat
      /\ Len(task.plan) \in Nat /\ task.done <= Len(task.plan) /\ marker # {}
      /\ (task.prior = {} => unpromoted \subseteq {task.image})
      /\ task.done > 0 /\ serve = "up" => moved
  BY Zenon, <1>0, <1>2, SwapFacts
<1>4. CASE cli' = "rollback" /\ UNCHANGED <<aside, live, moved>>
  <2>1. cli' \in Swapping /\ cli' \notin {"stage", "mark", "move", "place"} /\ cli # "place"
    BY <1>1, <1>4 DEF Swapping
  <2>2. BackupTypes' /\ SingleInv'
    BY Zenon, <1>0, <1>1, <1>4, <2>1 DEF BackupTypes, SingleInv
  <2>3. SwapInv'
    BY Zenon, <1>0, <1>1, <1>2, <1>3, <1>4, <2>1 DEF SwapInv, AsideHas
  <2>4. MarkedInv' /\ RestoredIsFenced' /\ NothingDeleted'
    BY Zenon, <1>0, <1>1, <1>4 DEF MarkedInv, RestoredIsFenced, NothingDeleted
  <2> QED BY Zenon, <2>2, <2>3, <2>4 DEF BackupInv
<1>5. CASE /\ aside' = aside \cup SetAside(t)
           /\ live' = [live EXCEPT ![t] = {}]
           /\ moved' = (moved \/ (t \in Databases /\ serve \in {"opened", "up"}))
           /\ cli' = "place"
  <2>1. /\ t = task.plan[task.done + 1] /\ t \in Trees
        /\ task.done + 1 \in 1 .. (task.done + 1)
        /\ \A m \in 1 .. task.done : task.plan[m] # t /\ m \in 1 .. (task.done + 1)
        /\ \A m \in 1 .. (task.done + 1) : m \in 1 .. task.done \/ m = task.done + 1
        /\ task.done = 0 => t \in Databases
    <3>1. task.done + 1 \in 1 .. (task.done + 1)
      BY <1>3
    <3> QED BY Zenon, <1>1, <1>3, <3>1, NextTreeFacts DEF NextTree
  <2> HIDE DEF t
  <2>2. cli' # "move" /\ cli' \notin {"stage", "mark"} /\ cli # "place" /\ cli' \in Swapping /\ cli' \in Restoring
    BY <1>1, <1>5 DEF Swapping, Restoring
  <2>3. live'[t] = {} /\ \A u \in Trees : u # t => live'[u] = live[u]
    BY Zenon, <1>0, <1>5, <2>1 DEF BackupTypes, NodeType
  <2>4. \A a \in SetAside(t) : /\ a \in [tree : Trees, ts : Nat, was : TreeType]
                               /\ a.tree = t /\ a.ts = restores /\ a.was \in live[t]
    <3>1. live[t] \subseteq TreeType /\ restores \in Nat
      BY Zenon, <1>0, <2>1 DEF BackupTypes, NodeType
    <3> QED BY <2>1, <3>1 DEF SetAside
  <2>5. \A c \in live[t] : \E a \in SetAside(t) : a.tree = t /\ a.was = c
    <3> TAKE c \in live[t]
    <3> DEFINE a == [tree |-> t, ts |-> restores, was |-> c]
    <3>1. a \in SetAside(t)
      BY Zenon DEF SetAside
    <3>2. a.tree = t /\ a.was = c
      BY Zenon
    <3> HIDE DEF a
    <3> QED BY Zenon, <3>1, <3>2
  <2>6. \A a \in aside : a.ts = restores => a.tree # t /\ \E n \in 1 .. task.done : a.tree = task.plan[n]
    BY Zenon, <1>0, <1>1, <2>1, <2>2 DEF SingleInv
  <2>7. BackupTypes'
    <3>1. live' \in NodeType
      BY Zenon, <1>0, <1>5 DEF BackupTypes, NodeType
    <3>2. aside' \subseteq [tree : Trees, ts : Nat, was : TreeType]
      BY Zenon, <1>0, <1>5, <2>4 DEF BackupTypes
    <3> QED BY Zenon, <1>0, <1>1, <3>1, <3>2 DEF BackupTypes
  <2>8. SingleInv'
    <3>1. One({})
      BY Zenon DEF One
    <3>2. \A u \in Trees : One(live'[u])
      BY Zenon, <1>0, <2>3, <3>1 DEF SingleInv
    <3>3. \A a, b \in SetAside(t) : a = b
      <4>1. \A c, d \in live[t] : c = d
        BY Zenon, <1>0, <2>1 DEF SingleInv, One
      <4> QED BY <4>1 DEF SetAside
    <3>4. \A a, b \in aside' : a.ts = b.ts /\ a.tree = b.tree => a = b
      BY ZenonT(60), <1>0, <1>5, <2>4, <2>6, <3>3 DEF SingleInv
    <3>5. \A a \in aside' : a.ts <= restores
      <4>1. restores <= restores
        BY <1>0 DEF BackupTypes
      <4> QED BY Zenon, <1>0, <1>5, <2>4, <4>1 DEF SingleInv
    <3>6. \A a \in aside' : a.ts = restores => \E n \in 1 .. (task.done + 1) : a.tree = task.plan[n]
      BY Zenon, <1>5, <2>1, <2>4, <2>6
    <3> QED BY Zenon, <1>0, <1>1, <1>5, <2>2, <3>2, <3>4, <3>5, <3>6 DEF SingleInv
  <2>9. \A o \in own : o[1] = t \/ AsideHas(o) => AsideHas(o)'
    <3>1. \A o \in own : AsideHas(o) => AsideHas(o)'
      BY Zenon, <1>5 DEF AsideHas
    <3>2. \A o \in own : o[1] = t /\ ~AsideHas(o) => \E c \in live[t] : c.image = 0 /\ c.point = o[2]
      BY Zenon, <1>0 DEF NothingDeleted, AsideHas
    <3>3. ASSUME NEW o \in own, o[1] = t, ~AsideHas(o) PROVE AsideHas(o)'
      <4>1. PICK c \in live[t] : c.image = 0 /\ c.point = o[2]
        BY Zenon, <3>2, <3>3
      <4>2. PICK a \in SetAside(t) : a.tree = t /\ a.was = c
        BY Zenon, <2>5
      <4> QED BY Zenon, <1>5, <3>3, <4>1, <4>2 DEF AsideHas
    <3> QED BY Zenon, <3>1, <3>3
  <2>10. SwapInv'
    <3>1. \A n \in 1 .. (task.done + 1) : \A o \in own : o[1] = task.plan[n] => AsideHas(o)'
      <4>1. \A n \in 1 .. task.done : \A o \in own : o[1] = task.plan[n] => AsideHas(o)
        BY Zenon, <1>0, <1>2, <2>2 DEF SwapInv
      <4> QED BY Zenon, <2>1, <2>9, <4>1
    <3>2. serve = "up" => moved'
      <4>1. task.done = 0 \/ task.done > 0
        BY <1>3
      <4> QED BY Zenon, <1>3, <1>5, <2>1, <4>1
    <3> QED BY Zenon, <1>1, <1>3, <1>5, <2>2, <3>1, <3>2 DEF SwapInv
  <2>11. MarkedInv' /\ RestoredIsFenced'
    <3>1. Databases \subseteq Trees
      BY DEF Databases, Trees
    <3> QED BY Zenon, <1>0, <1>1, <1>5, <2>3, <3>1 DEF MarkedInv, RestoredIsFenced
  <2>12. NothingDeleted'
    <3>1. \A o \in own : o[1] \in Trees
      BY Zenon, <1>0 DEF BackupTypes
    <3>2. \A o \in own : \/ AsideHas(o)'
                         \/ \E c \in live'[o[1]] : c.image = 0 /\ c.point = o[2]
      BY Zenon, <1>0, <2>3, <2>9, <3>1 DEF NothingDeleted, AsideHas
    <3> QED BY Zenon, <1>1, <3>2 DEF NothingDeleted, AsideHas
  <2> QED BY Zenon, <2>7, <2>8, <2>10, <2>11, <2>12 DEF BackupInv
<1> QED BY Zenon, <1>1, <1>4, <1>5

\* What a failed restore moves back: the tree of this restore, once; trees that
\* stay aside stay.
LEMMA MoveBackFacts ==
    ASSUME BackupTypes, SingleInv, NothingDeleted, NEW t \in Trees, MoveBack(t), own' = own,
           \A o \in own : o[1] = t => AsideHas(o)
    PROVE  /\ live' \in NodeType /\ (\A u \in Trees : One(live'[u])) /\ aside' \subseteq aside
           /\ \A u \in Trees : u # t => live'[u] = live[u]
           /\ \A o \in own : o[1] # t /\ AsideHas(o) => AsideHas(o)'
           /\ NothingDeleted'
<1>1. /\ live' = [live EXCEPT ![t] = MovedBy(restores, t)]
      /\ aside' = {a \in aside : ~ (a.ts = restores /\ a.tree = t)}
  BY Zenon DEF MoveBack
<1>2. live'[t] = MovedBy(restores, t) /\ \A u \in Trees : u # t => live'[u] = live[u]
  BY Zenon, <1>1 DEF BackupTypes, NodeType
<1>3. /\ MovedBy(restores, t) \subseteq TreeType /\ One(MovedBy(restores, t))
      /\ \A a \in aside : a.ts = restores /\ a.tree = t => a.was \in MovedBy(restores, t)
  <2>1. aside \subseteq [tree : Trees, ts : Nat, was : TreeType]
    BY Zenon DEF BackupTypes
  <2>2. \A a, b \in aside : a.ts = b.ts /\ a.tree = b.tree => a = b
    BY Zenon DEF SingleInv
  <2> QED BY <2>1, <2>2 DEF MovedBy, One
<1>4. live' \in NodeType /\ (\A u \in Trees : One(live'[u]))
  BY Zenon, <1>1, <1>2, <1>3 DEF BackupTypes, NodeType, SingleInv
<1>5. ASSUME NEW o \in own, o[1] # t, AsideHas(o) PROVE AsideHas(o)'
  BY Zenon, <1>1, <1>5 DEF AsideHas
<1>6. ASSUME NEW o \in own, o[1] = t
      PROVE  AsideHas(o)' \/ \E c \in live'[t] : c.image = 0 /\ c.point = o[2]
  BY Zenon, <1>1, <1>2, <1>3, <1>6 DEF AsideHas
<1>7. NothingDeleted'
  <2>1. \A o \in own : o[1] \in Trees
    BY Zenon DEF BackupTypes
  <2>2. \A o \in own : AsideHas(o)' \/ \E c \in live'[o[1]] : c.image = 0 /\ c.point = o[2]
    BY Zenon, <1>2, <1>5, <1>6, <2>1 DEF NothingDeleted, AsideHas
  <2> QED BY Zenon, <2>2 DEF NothingDeleted, AsideHas
<1> QED BY Zenon, <1>1, <1>2, <1>4, <1>5, <1>7

\* The staged tree takes its place, or what was there is moved back.
LEMMA PlaceStep == ASSUME BackupInv, Place PROVE BackupInv'
<1>0. BackupTypes /\ SingleInv /\ SwapInv /\ MarkedInv /\ RestoredIsFenced /\ NothingDeleted
  BY Zenon DEF BackupInv
<1> DEFINE t == NextTree(task)
<1>1. /\ cli = "place"
      /\ UNCHANGED <<marker, images, serve, own, points, restores, keys>>
      /\ (moved => moved')
      /\ \/ /\ live' = [live EXCEPT ![t] = staging[t]] /\ staging' = [staging EXCEPT ![t] = {}]
            /\ task' = [task EXCEPT !.done = @ + 1]
            /\ cli' = "move" /\ unpromoted' = unpromoted \cup {task.image} /\ UNCHANGED aside
         \/ MoveBack(t) /\ cli' = "rollback" /\ UNCHANGED <<staging, task, unpromoted>>
  BY Zenon DEF Place
<1>2. cli \in Swapping /\ cli \in Restoring
  BY <1>1 DEF Swapping, Restoring
<1>3. /\ task.plan \in Plans /\ task.image \in 1 .. Len(images) /\ task.image \in Nat \ {0} /\ task.done \in Nat
      /\ Len(task.plan) \in Nat /\ task.done < Len(task.plan) /\ task.done <= Len(task.plan) /\ marker # {}
      /\ (task.prior = {} => unpromoted \subseteq {task.image})
      /\ serve = "up" => moved
  BY Zenon, <1>0, <1>1, <1>2, SwapFacts
<1>4. /\ t = task.plan[task.done + 1] /\ t \in Trees
      /\ task.done + 1 \in 1 .. (task.done + 1)
      /\ \A m \in 1 .. task.done : task.plan[m] # t /\ m \in 1 .. (task.done + 1)
  <2>1. task.done + 1 \in 1 .. (task.done + 1)
    BY <1>3
  <2> QED BY Zenon, <1>3, <2>1, NextTreeFacts DEF NextTree
<1>5. \A n \in 1 .. (task.done + 1) : \A o \in own : o[1] = task.plan[n] => AsideHas(o)
  BY Zenon, <1>0, <1>1, <1>2 DEF SwapInv
<1>6. \A o \in own : o[1] = t => AsideHas(o)
  BY Zenon, <1>4, <1>5
<1> HIDE DEF t
<1>7. CASE MoveBack(t) /\ cli' = "rollback" /\ UNCHANGED <<staging, task, unpromoted>>
  <2>1. /\ live' \in NodeType /\ (\A u \in Trees : One(live'[u])) /\ aside' \subseteq aside
        /\ \A o \in own : o[1] # t /\ AsideHas(o) => AsideHas(o)'
        /\ NothingDeleted'
    BY Zenon, <1>0, <1>1, <1>4, <1>6, <1>7, MoveBackFacts
  <2>2. cli' \in Swapping /\ cli' \in Restoring /\ cli' \notin {"stage", "mark", "move", "place"}
    BY <1>7 DEF Swapping, Restoring
  <2>3. BackupTypes'
    BY Zenon, <1>0, <1>1, <1>7, <2>1 DEF BackupTypes
  <2>4. SingleInv'
    BY Zenon, <1>0, <1>1, <1>7, <2>1, <2>2 DEF SingleInv
  <2>5. \A n \in 1 .. task.done : \A o \in own : o[1] = task.plan[n] => AsideHas(o)'
    BY Zenon, <1>4, <1>5, <2>1
  <2>6. SwapInv'
    BY Zenon, <1>1, <1>3, <1>7, <2>2, <2>5 DEF SwapInv
  <2>7. MarkedInv' /\ RestoredIsFenced'
    BY Zenon, <1>1, <1>3 DEF MarkedInv, RestoredIsFenced
  <2> QED BY Zenon, <2>1, <2>3, <2>4, <2>6, <2>7 DEF BackupInv
<1>8. CASE /\ live' = [live EXCEPT ![t] = staging[t]] /\ staging' = [staging EXCEPT ![t] = {}]
           /\ task' = [task EXCEPT !.done = @ + 1]
           /\ cli' = "move" /\ unpromoted' = unpromoted \cup {task.image} /\ UNCHANGED aside
  <2>1. cli' \in Swapping /\ cli' \in Restoring /\ cli' \notin {"stage", "mark"} /\ cli' # "place"
    BY <1>8 DEF Swapping, Restoring
  <2>2. /\ live'[t] = staging[t] /\ staging'[t] = {} /\ \A u \in Trees : u # t => live'[u] = live[u] /\ staging'[u] = staging[u]
        /\ live' \in NodeType /\ staging' \in NodeType
    BY Zenon, <1>0, <1>4, <1>8 DEF BackupTypes, NodeType
  <2>3. task.done + 1 \in Nat /\ task.done + 1 <= Len(task.plan)
    BY <1>3
  <2>4. /\ task' \in [image : Nat, plan : {<<>>} \cup Plans, done : Nat, prior : SUBSET Nat]
        /\ task'.plan = task.plan /\ task'.done = task.done + 1 /\ task'.image = task.image /\ task'.prior = task.prior
    BY Zenon, <1>0, <1>8, <2>3 DEF BackupTypes
  <2>5. BackupTypes'
    BY Zenon, <1>0, <1>1, <1>3, <1>8, <2>2, <2>4 DEF BackupTypes
  <2>6. SingleInv'
    <3>1. One({})
      BY Zenon DEF One
    <3>2. \A u \in Trees : One(live'[u]) /\ One(staging'[u])
      BY Zenon, <1>0, <1>4, <2>2, <3>1 DEF SingleInv
    <3>3. \A a \in aside : a.ts = restores => \E n \in 1 .. (task.done + 1) : a.tree = task.plan[n]
      BY Zenon, <1>0, <1>1 DEF SingleInv
    <3> QED BY Zenon, <1>0, <1>1, <1>8, <2>1, <2>4, <3>2, <3>3 DEF SingleInv
  <2>7. SwapInv'
    <3>1. \A n \in 1 .. (task.done + 1) : \A o \in own : o[1] = task.plan[n] => AsideHas(o)'
      BY Zenon, <1>5, <1>8 DEF AsideHas
    <3>2. task.prior = {} => unpromoted' \subseteq {task.image}
      BY Zenon, <1>3, <1>8
    <3> QED BY Zenon, <1>1, <1>3, <2>1, <2>3, <2>4, <3>1, <3>2 DEF SwapInv
  <2>8. MarkedInv' /\ RestoredIsFenced'
    BY Zenon, <1>1, <1>3 DEF MarkedInv, RestoredIsFenced
  <2>9. NothingDeleted'
    <3>1. \A o \in own : o[1] \in Trees
      BY Zenon, <1>0 DEF BackupTypes
    <3>2. \A o \in own : AsideHas(o)' \/ \E c \in live'[o[1]] : c.image = 0 /\ c.point = o[2]
      BY Zenon, <1>0, <1>6, <1>8, <2>2, <3>1 DEF NothingDeleted, AsideHas
    <3> QED BY Zenon, <1>1, <3>2 DEF NothingDeleted, AsideHas
  <2> QED BY Zenon, <2>5, <2>6, <2>7, <2>8, <2>9 DEF BackupInv
<1> QED BY Zenon, <1>1, <1>7, <1>8

\* The restored node is probed.
LEMMA ProbeStep == ASSUME BackupInv, resolvability_probe PROVE BackupInv'
<1>0. BackupTypes /\ SingleInv /\ SwapInv /\ MarkedInv /\ RestoredIsFenced /\ NothingDeleted
  BY Zenon DEF BackupInv
<1>1. /\ cli = "move"
      /\ UNCHANGED <<live, staging, aside, marker, images, serve, moved, own, unpromoted, points, restores, keys>>
      /\ \/ cli' = "idle" /\ task' = NoTask
         \/ cli' = "rollback" /\ task' = task
  BY Zenon DEF resolvability_probe, disk, writer, history
<1>2. CASE cli' = "idle" /\ task' = NoTask
  <2>1. LiveKept /\ \A t \in Databases : live'[t] = live[t]
    BY Zenon, <1>0, <1>1, LiveSame DEF BackupTypes, SingleInv
  <2>2. images \in Seq(ImageType) /\ Len(images) >= Len(images)
    BY <1>0 DEF BackupTypes
  <2> QED BY Zenon, <1>0, <1>1, <1>2, <2>1, <2>2, CalmStep DEF history, BackupTypes, SingleInv
<1>3. CASE cli' = "rollback" /\ task' = task
  <2>1. cli' \in Swapping /\ cli \in Swapping /\ cli \in Restoring /\ cli' \notin {"stage", "mark", "move", "place"} /\ cli # "place"
    BY <1>1, <1>3 DEF Swapping, Restoring
  <2>2. BackupTypes' /\ SingleInv'
    BY Zenon, <1>0, <1>1, <1>3, <2>1 DEF BackupTypes, SingleInv
  <2>3. SwapInv'
    BY Zenon, <1>0, <1>1, <1>3, <2>1 DEF SwapInv, AsideHas
  <2>4. MarkedInv' /\ RestoredIsFenced' /\ NothingDeleted'
    BY Zenon, <1>0, <1>1 DEF MarkedInv, RestoredIsFenced, NothingDeleted
  <2> QED BY Zenon, <2>2, <2>3, <2>4 DEF BackupInv
<1> QED BY Zenon, <1>1, <1>2, <1>3

\* One swap is undone, as far as its renames succeed.
LEMMA RollbackStep == ASSUME BackupInv, RollbackOne PROVE BackupInv'
<1>0. BackupTypes /\ SingleInv /\ SwapInv /\ MarkedInv /\ RestoredIsFenced /\ NothingDeleted
  BY Zenon DEF BackupInv
<1> DEFINE t == task.plan[task.done]
<1>1. /\ cli = "rollback" /\ cli' = cli /\ task.done > 0 /\ task' = [task EXCEPT !.done = @ - 1]
      /\ UNCHANGED <<marker, images, serve, own, unpromoted, points, restores, keys>>
      /\ (moved => moved')
      /\ \/ MoveBack(t) /\ staging' = [staging EXCEPT ![t] = live[t]]
         \/ UNCHANGED <<live, staging, aside>>
         \/ live' = [live EXCEPT ![t] = {}] /\ staging' = [staging EXCEPT ![t] = live[t]] /\ UNCHANGED aside
  BY Zenon DEF RollbackOne, history
<1>2. cli \in Swapping /\ cli \in Restoring /\ cli # "place" /\ cli \notin {"stage", "mark", "move", "place"}
  BY <1>1 DEF Swapping, Restoring
<1>3. /\ task.plan \in Plans /\ task.image \in 1 .. Len(images) /\ task.done \in Nat
      /\ Len(task.plan) \in Nat /\ task.done <= Len(task.plan) /\ marker # {}
      /\ (task.prior = {} => unpromoted \subseteq {task.image})
      /\ serve = "up" => moved
  BY Zenon, <1>0, <1>1, <1>2, SwapFacts
<1> DEFINE n == task.done - 1
<1>4. /\ n \in Nat /\ n <= Len(task.plan) /\ n < Len(task.plan) /\ n + 1 = task.done
      /\ task.done \in 1 .. task.done /\ \A m \in 1 .. n : m \in 1 .. task.done
  BY <1>1, <1>3
<1>5. /\ task' \in [image : Nat, plan : {<<>>} \cup Plans, done : Nat, prior : SUBSET Nat]
      /\ task'.plan = task.plan /\ task'.done = n /\ task'.image = task.image /\ task'.prior = task.prior
  BY Zenon, <1>0, <1>1, <1>4 DEF BackupTypes
<1> HIDE DEF n
<1>6. t \in Trees /\ \A m \in 1 .. n : task.plan[m] # t
  BY Zenon, <1>3, <1>4, NextTreeFacts
<1>7. \A m \in 1 .. task.done : \A o \in own : o[1] = task.plan[m] => AsideHas(o)
  BY Zenon, <1>0, <1>2 DEF SwapInv
<1>8. \A o \in own : o[1] = t => AsideHas(o)
  BY Zenon, <1>4, <1>7
<1> HIDE DEF t
<1>9. /\ live' \in NodeType /\ (\A u \in Trees : One(live'[u])) /\ aside' \subseteq aside
      /\ \A o \in own : o[1] # t /\ AsideHas(o) => AsideHas(o)'
      /\ NothingDeleted'
  <2>1. CASE MoveBack(t)
    BY Zenon, <1>0, <1>1, <1>6, <1>8, <2>1, MoveBackFacts
  <2>2. CASE UNCHANGED <<live, aside>>
    BY Zenon, <1>0, <1>1, <2>2 DEF NothingDeleted, BackupTypes, SingleInv, AsideHas
  <2>3. CASE live' = [live EXCEPT ![t] = {}] /\ UNCHANGED aside
    <3>1. /\ live'[t] = {} /\ \A u \in Trees : u # t => live'[u] = live[u]
          /\ live' \in NodeType
      BY Zenon, <1>0, <1>6, <2>3 DEF BackupTypes, NodeType
    <3>2. One({})
      BY Zenon DEF One
    <3>3. \A u \in Trees : One(live'[u])
      BY Zenon, <1>0, <3>1, <3>2 DEF SingleInv
    <3>4. \A o \in own : o[1] \in Trees
      BY Zenon, <1>0 DEF BackupTypes
    <3>5. \A o \in own : AsideHas(o) \/ \E c \in live'[o[1]] : c.image = 0 /\ c.point = o[2]
      BY Zenon, <1>0, <1>8, <3>1, <3>4 DEF NothingDeleted, AsideHas
    <3> QED BY Zenon, <1>1, <2>3, <3>1, <3>3, <3>5 DEF NothingDeleted, AsideHas
  <2> QED BY Zenon, <1>1, <2>1, <2>2, <2>3
<1>10. staging' \in NodeType /\ \A u \in Trees : One(staging'[u])
  <2>1. CASE staging' = [staging EXCEPT ![t] = live[t]]
    <3>1. staging'[t] = live[t] /\ \A u \in Trees : u # t => staging'[u] = staging[u]
      BY Zenon, <1>0, <1>6, <2>1 DEF BackupTypes, NodeType
    <3>2. staging' \in NodeType
      BY Zenon, <1>0, <1>6, <2>1 DEF BackupTypes, NodeType
    <3> QED BY Zenon, <1>0, <1>6, <3>1, <3>2 DEF SingleInv
  <2>2. CASE UNCHANGED staging
    BY Zenon, <1>0, <2>2 DEF BackupTypes, SingleInv
  <2> QED BY Zenon, <1>1, <2>1, <2>2
<1>11. BackupTypes'
  BY Zenon, <1>0, <1>1, <1>5, <1>9, <1>10 DEF BackupTypes
<1>12. SingleInv'
  BY Zenon, <1>0, <1>1, <1>2, <1>9, <1>10 DEF SingleInv
<1>13. SwapInv'
  <2>1. \A m \in 1 .. n : \A o \in own : o[1] = task.plan[m] => AsideHas(o)'
    BY Zenon, <1>4, <1>6, <1>7, <1>9
  <2> QED BY Zenon, <1>1, <1>2, <1>3, <1>4, <1>5, <2>1 DEF SwapInv
<1>14. MarkedInv' /\ RestoredIsFenced'
  BY Zenon, <1>1, <1>3 DEF MarkedInv, RestoredIsFenced
<1> QED BY Zenon, <1>9, <1>11, <1>12, <1>13, <1>14 DEF BackupInv

\* A rollback ends, or the operator promotes: the marker goes with what it marked.
LEMMA EndStep == ASSUME BackupInv, restore_prior_marker \/ PromoteClear PROVE BackupInv'
<1>0. BackupTypes /\ SingleInv /\ SwapInv /\ RestoredIsFenced /\ NothingDeleted
  BY Zenon DEF BackupInv
<1>1. /\ cli' = "idle" /\ task' \in {task, NoTask}
      /\ UNCHANGED <<live, staging, aside, images, serve, moved, own, points, restores, keys>>
      /\ \/ PromoteClear /\ marker' = {} /\ unpromoted' = {}
         \/ restore_prior_marker /\ cli = "rollback" /\ marker' \in {marker, task.prior} /\ unpromoted' = unpromoted \ {task.image}
  BY Zenon DEF restore_prior_marker, PromoteClear, writer, counts
<1>2. cli' \notin Restoring /\ cli' \notin Swapping /\ cli' \notin {"stage", "mark", "move", "place"}
  BY <1>1 DEF Restoring, Swapping
<1>3. unpromoted' \subseteq unpromoted /\ marker' \subseteq Nat /\ MarkedInv'
  <2>1. CASE PromoteClear /\ marker' = {} /\ unpromoted' = {}
    BY Zenon, <2>1 DEF MarkedInv
  <2>2. CASE cli = "rollback" /\ marker' \in {marker, task.prior} /\ unpromoted' = unpromoted \ {task.image}
    <3>1. cli \in Swapping
      BY <2>2 DEF Swapping
    <3>2. marker # {} /\ (task.prior = {} => unpromoted \subseteq {task.image})
      BY Zenon, <1>0, <3>1, SwapFacts
    <3>3. marker \subseteq Nat /\ task.prior \subseteq Nat
      BY Zenon, <1>0 DEF BackupTypes
    <3>4. unpromoted' # {} => task.prior # {}
      BY <2>2, <3>2
    <3> QED BY Zenon, <2>2, <3>2, <3>3, <3>4 DEF MarkedInv
  <2> QED BY Zenon, <1>1, <2>1, <2>2
<1>4. BackupTypes'
  BY Zenon, <1>0, <1>1, <1>3, NoTaskType DEF BackupTypes
<1>5. SingleInv' /\ SwapInv'
  BY Zenon, <1>0, <1>1, <1>2 DEF SingleInv, SwapInv
<1>6. RestoredIsFenced' /\ NothingDeleted'
  BY Zenon, <1>0, <1>1, <1>3 DEF RestoredIsFenced, NothingDeleted
<1> QED BY Zenon, <1>3, <1>4, <1>5, <1>6 DEF BackupInv

\* Every step keeps the invariant.
LEMMA BackupStep == BackupInv /\ [BackupNext]_backupVars => BackupInv'
<1> SUFFICES ASSUME BackupInv, [BackupNext]_backupVars PROVE BackupInv'
  BY Zenon
<1>1. CASE UNCHANGED backupVars
  <2>1. UNCHANGED <<live, staging, aside, marker, images, serve, moved, cli, task, own, unpromoted, points, restores, keys>>
    BY Zenon, <1>1 DEF backupVars, disk, writer, command, history, counts
  <2> QED BY ZenonT(60), <2>1 DEF BackupInv, BackupTypes, SingleInv, SwapInv, MarkedInv, RestoredIsFenced, NothingDeleted, AsideHas
<1>2. CASE \E i \in 1 .. Len(images), accept \in BOOLEAN, k \in 0 .. keys : restore(i, k, accept)
  BY Zenon, <1>2, RestoreBegins
<1>3. CASE BackupNext
  BY Zenon, <1>2, <1>3, WriterStep, WorkStep, StageStep, MarkStep, MoveStep, PlaceStep, ProbeStep, RollbackStep, EndStep
     DEF BackupNext
<1> QED BY Zenon, <1>1, <1>3

\* The invariant of backup, restore and promote (garmr-cli/src/backup.rs), however
\* often the commands are stopped, fail or meet a writer that starts.
THEOREM BackupInvariance == BackupSpec => []BackupInv
  BY BackupInitial, BackupStep, PTL DEF BackupSpec

\* "a restored node never silently becomes a writer": RestoredIsFenced of Backup, for
\* every number of runs, images, restores, stops and errors.
THEOREM RestoredStaysFenced == BackupSpec => []RestoredIsFenced
<1>1. BackupInv => RestoredIsFenced
  BY Zenon DEF BackupInv
<1> QED BY <1>1, BackupInvariance, PTL

\* "garmr never hard-deletes": NothingDeleted of Backup, whatever a restore and its
\* rollback leave undone (apply_swaps, rollback_swaps).
THEOREM NoTreeDeleted == BackupSpec => []NothingDeleted
<1>1. BackupInv => NothingDeleted
  BY Zenon DEF BackupInv
<1> QED BY <1>1, BackupInvariance, PTL

=============================================================================
