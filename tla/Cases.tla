------------------------------- MODULE Cases -------------------------------
(***************************************************************************)
(* The case table and its concurrent writers.  The detection loop opens a  *)
(* case for a dedup key, or counts a repeat on the open one; the triage    *)
(* agent keeps a private copy of the case from its first to its last write *)
(* and every write of it is merged with the stored row; analysts edit the  *)
(* stored row meanwhile; `cases prune' deletes rows.  At startup the agent *)
(* takes up the cases that are still New or Investigating.                 *)
(*                                                                         *)
(* One dedup key: keys do not share rows or suppression windows.  Cases    *)
(* are numbered in the order they open.  The transcript is the set of its  *)
(* entries that carry an entry_id.  state_changed_at is a bit that a new   *)
(* stamp flips.  The audit record that precedes an analyst's edit is the   *)
(* subject of AuditLedger.                                                 *)
(***************************************************************************)
EXTENDS Naturals, FiniteSets

CONSTANTS
    MaxCases,       \* cases that can open
    Analysts,       \* owners a case can be assigned to
    Notes,          \* analyst comments, each with its entry_id
    Tags,           \* tags an analyst can set
    MaxDetections,  \* bound on detections of the key
    MaxEdits,       \* bound on analyst edits
    MaxCrashes,     \* bound on process stops
    Prunes,         \* cases that a prune may match
    Faults          \* "llm": a model call fails; "store": a write fails

Cases == 1 .. MaxCases
Nobody == "nobody"

ASSUME CasesAssumption ==
    /\ MaxCases \in Nat /\ MaxDetections \in Nat /\ MaxEdits \in Nat /\ MaxCrashes \in Nat
    /\ Prunes \subseteq Cases
    /\ Nobody \notin Analysts
    /\ Faults \subseteq {"llm", "store"}

\* The two ways a triage task starts: spawned when its case opens, or from the
\* list of pending cases at startup.
Tasks == Cases \X {"opened", "resumed"}

CaseState == {"New", "Investigating", "Triaged", "Escalated", "Closed", "NeedsHuman"}

Case == [state : CaseState \cup {"Absent"}, event_count : Nat,
         assignee : Analysts \cup {Nobody}, tags : SUBSET Tags,
         linked_cases : SUBSET Cases, transcript : SUBSET Notes,
         state_changed_at : {0, 1}]

Absent == [state |-> "Absent", event_count |-> 0, assignee |-> Nobody, tags |-> {},
           linked_cases |-> {}, transcript |-> {}, state_changed_at |-> 0]

open == [Absent EXCEPT !.state = "New", !.event_count = 1]

VARIABLES
    db,             \* the stored rows
    predictions,    \* cases with a stored prediction
    decisions,      \* cases with a stored analyst decision
    recent,         \* the suppression window of the key is running
    det,            \* the detection being handled: its step and its case
    tpc,            \* the step of every triage task
    case,           \* the private copy of every triage task
    boot,           \* startup recovery has not listed the cases yet
    failed,         \* cases whose handling ended with an error since the start
    closing,        \* decisions stored, their cases not closed yet
    folded,         \* detections accepted into each case
    notes, tagged, linked,  \* analyst additions accepted and not removed
    owner,          \* the last accepted assignment
    resolved,       \* cases an analyst closed
    pruned,         \* cases a prune deleted
    budget          \* detections, edits and stops so far

records == <<predictions, decisions>>
detector == <<recent, det>>
triage == <<tpc, case, boot, failed>>
additions == <<notes, tagged, linked>>
ghosts == <<folded, additions, owner, resolved, pruned>>
vars == <<db, records, detector, triage, closing, ghosts, budget>>

exists(i) == db[i].state # "Absent"

Spend(what, max) ==
    /\ budget[what] < max
    /\ budget' = [budget EXCEPT ![what] = @ + 1]

Init ==
    /\ db = [i \in Cases |-> Absent]
    /\ predictions = {} /\ decisions = {}
    /\ recent = FALSE
    /\ det = [step |-> "idle", id |-> 0]
    /\ tpc = [t \in Tasks |-> "none"]
    /\ case = [t \in Tasks |-> Absent]
    /\ boot = TRUE /\ failed = {}
    /\ closing = {}
    /\ folded = [i \in Cases |-> 0]
    /\ notes = [i \in Cases |-> {}]
    /\ tagged = [i \in Cases |-> {}]
    /\ linked = [i \in Cases |-> {}]
    /\ owner = [i \in Cases |-> Nobody]
    /\ resolved = {} /\ pruned = {}
    /\ budget = [detections |-> 0, edits |-> 0, crashes |-> 0]

-----------------------------------------------------------------------------
(* StateStore: one write transaction each. *)

larger(m, n) == IF m > n THEN m ELSE n

\* The time of the last change of state.
stamped(prev, new) ==
    IF new.state = prev.state THEN prev.state_changed_at ELSE 1 - prev.state_changed_at

\* The copy's owner counts when it has one.
kept(prev, new) == IF new.assignee = Nobody THEN prev.assignee ELSE new.assignee

\* Mutant of Merged: the snapshot's count replaces the stored one.
MergedCount(prev, new) ==
    [new EXCEPT !.assignee = kept(prev, new),
                !.tags = @ \cup prev.tags, !.linked_cases = @ \cup prev.linked_cases,
                !.transcript = @ \cup prev.transcript, !.state_changed_at = stamped(prev, new)]

\* Mutant of Merged: the tags of the snapshot replace the stored ones.
MergedTags(prev, new) ==
    [new EXCEPT !.assignee = kept(prev, new),
                !.event_count = larger(prev.event_count, @),
                !.linked_cases = @ \cup prev.linked_cases,
                !.transcript = @ \cup prev.transcript, !.state_changed_at = stamped(prev, new)]

\* Mutant of Merged: the links of the snapshot replace the stored ones.
MergedLinks(prev, new) ==
    [new EXCEPT !.assignee = kept(prev, new),
                !.event_count = larger(prev.event_count, @), !.tags = @ \cup prev.tags,
                !.transcript = @ \cup prev.transcript, !.state_changed_at = stamped(prev, new)]

\* A stale copy against the stored row, field by field.
Merged(prev, new) ==
    [state |-> new.state,
     event_count |-> larger(prev.event_count, new.event_count),
     assignee |-> kept(prev, new),
     tags |-> new.tags \cup prev.tags,
     linked_cases |-> new.linked_cases \cup prev.linked_cases,
     transcript |-> new.transcript \cup prev.transcript,
     state_changed_at |-> stamped(prev, new)]

put_case(i, new) ==
    db' = [db EXCEPT ![i] = IF exists(i) THEN Merged(db[i], new) ELSE new]

mutate_case(i, new) ==
    db' = [db EXCEPT ![i] = IF exists(i) THEN new ELSE db[i]]

-----------------------------------------------------------------------------
(* handle_detection: the window is read, then a repeat is counted or a case
   is opened, then the window is marked and the triage task spawned. *)

OpenCases == {i \in Cases : exists(i) /\ db[i].state # "Closed"}
Newest(S) == {i \in S : \A j \in S : j <= i}
Unopened == {i \in Cases : folded[i] = 0}

\* A detection finds the window running and an open case, or the window
\* running and no open case (it is suppressed), or a fresh incident.
handle_detection ==
    /\ det.step = "idle"
    /\ Spend("detections", MaxDetections)
    /\ \/ /\ recent /\ OpenCases # {}
          /\ \E i \in Newest(OpenCases) : det' = [step |-> "bump", id |-> i]
       \/ /\ recent /\ OpenCases = {}
          /\ UNCHANGED det
       \/ /\ ~recent
          /\ \E i \in Unopened : /\ \A j \in Unopened : i <= j
                                  /\ det' = [step |-> "open", id |-> i]
    /\ UNCHANGED <<db, records, recent, triage, closing, ghosts>>

bump_event_count ==
    /\ det.step = "bump"
    /\ mutate_case(det.id, [db[det.id] EXCEPT !.event_count = @ + 1])
    /\ folded' = [folded EXCEPT ![det.id] = IF exists(det.id) THEN @ + 1 ELSE @]
    /\ det' = [det EXCEPT !.step = "mark"]
    /\ UNCHANGED <<records, recent, triage, closing, additions, owner, resolved, pruned, budget>>

OpenCase ==
    /\ det.step = "open"
    /\ put_case(det.id, open)
    /\ folded' = [folded EXCEPT ![det.id] = 1]
    /\ det' = [det EXCEPT !.step = "spawn"]
    /\ UNCHANGED <<records, recent, triage, closing, additions, owner, resolved, pruned, budget>>

suppression_mark ==
    /\ det.step \in {"mark", "spawn"}
    /\ recent' = TRUE
    /\ det' = [step |-> "idle", id |-> 0]
    /\ IF det.step = "spawn"
       THEN /\ tpc' = [tpc EXCEPT ![<<det.id, "opened">>] = "start"]
            /\ case' = [case EXCEPT ![<<det.id, "opened">>] = open]
       ELSE UNCHANGED <<tpc, case>>
    /\ UNCHANGED <<db, records, boot, failed, closing, ghosts, budget>>

\* A failed write ends the handling of the detection.
DetectionFails ==
    /\ "store" \in Faults
    /\ det.step # "idle"
    /\ det' = [step |-> "idle", id |-> 0]
    /\ failed' = failed \cup {det.id}
    /\ UNCHANGED <<db, records, recent, tpc, case, boot, closing, ghosts, budget>>

\* realert_secs pass without a repeat.
Expire ==
    /\ recent
    /\ recent' = FALSE
    /\ UNCHANGED <<db, records, det, triage, closing, ghosts, budget>>

-----------------------------------------------------------------------------
(* Agent: triage.  Every write puts the task's own copy. *)

\* Mutant of Pending: only the cases nobody has started on.
PendingNew == {"New"}

Pending == {"New", "Investigating"}

\* Startup recovery lists the pending cases once, and takes them in turn.
triage_pending ==
    /\ boot
    /\ boot' = FALSE
    /\ LET todo == {i \in Cases : db[i].state \in Pending} IN
       /\ tpc' = [t \in Tasks |-> IF t[2] = "resumed" /\ t[1] \in todo THEN "start" ELSE tpc[t]]
       /\ case' = [t \in Tasks |-> IF t[2] = "resumed" /\ t[1] \in todo THEN db[t[1]] ELSE case[t]]
    /\ UNCHANGED <<db, records, detector, failed, closing, ghosts, budget>>

\* The resumed cases are triaged one after the other.
MyTurn(t) ==
    t[2] = "resumed" => \A i \in Cases : tpc[<<i, "resumed">>] \in {"none", "start"}

\* The task writes its copy in state s and goes on at step pc.
Put(t, s, pc) ==
    /\ put_case(t[1], [case[t] EXCEPT !.state = s])
    /\ tpc' = [tpc EXCEPT ![t] = pc]
    /\ case' = [case EXCEPT ![t] = IF pc = "none" THEN Absent ELSE [case[t] EXCEPT !.state = s]]
    /\ UNCHANGED <<records, detector, boot, failed, closing, ghosts, budget>>

\* The budget gate, then the first write.
Start(t) ==
    /\ tpc[t] = "start" /\ MyTurn(t)
    /\ Put(t, "NeedsHuman", "none") \/ Put(t, "Investigating", "loop")

\* A round of tool calls.
Round(t) ==
    /\ tpc[t] = "loop"
    /\ Put(t, "Investigating", "loop")

\* A refusal, a truncated answer, no verdict, the budget or the iteration limit.
needs_human(t) ==
    /\ tpc[t] = "loop"
    /\ Put(t, "NeedsHuman", "none")

\* A verdict decides the state.
finish(t) ==
    /\ tpc[t] = "loop"
    /\ \E s \in {"Closed", "Escalated", "Triaged"} : Put(t, s, "predict")

append_prediction(t) ==
    /\ tpc[t] = "predict"
    /\ predictions' = predictions \cup {t[1]}
    /\ tpc' = [tpc EXCEPT ![t] = "notify"]
    /\ UNCHANGED <<db, decisions, detector, case, boot, failed, closing, ghosts, budget>>

\* A suppressed notification goes on the record: the copy is put once more.
Notify(t) ==
    /\ tpc[t] = "notify"
    /\ \/ Put(t, case[t].state, "none")
       \/ /\ tpc' = [tpc EXCEPT ![t] = "none"]
          /\ case' = [case EXCEPT ![t] = Absent]
          /\ UNCHANGED <<db, records, detector, boot, failed, closing, ghosts, budget>>

\* A failed model call or a failed write ends the triage with an error.
TriageFails(t) ==
    /\ \/ "llm" \in Faults /\ tpc[t] = "loop"
       \/ "store" \in Faults /\ tpc[t] \in {"start", "loop", "notify"} /\ MyTurn(t)
    /\ tpc' = [tpc EXCEPT ![t] = "none"]
    /\ case' = [case EXCEPT ![t] = Absent]
    /\ failed' = failed \cup {t[1]}
    /\ UNCHANGED <<db, records, detector, boot, closing, ghosts, budget>>

-----------------------------------------------------------------------------
(* Analysts, through the API. *)

Edit(i) == exists(i) /\ Spend("edits", MaxEdits)

assign_case(i, who) ==
    /\ Edit(i)
    /\ mutate_case(i, [db[i] EXCEPT !.assignee = who])
    /\ owner' = [owner EXCEPT ![i] = who]
    /\ UNCHANGED <<records, detector, triage, closing, folded, additions, resolved, pruned>>

comment_case(i, n) ==
    /\ Edit(i)
    /\ mutate_case(i, [db[i] EXCEPT !.transcript = @ \cup {n}])
    /\ notes' = [notes EXCEPT ![i] = @ \cup {n}]
    /\ UNCHANGED <<records, detector, triage, closing, folded, tagged, linked, owner, resolved, pruned>>

\* Tags are added first, then removed.
tag_case(i, add, remove) ==
    /\ Edit(i)
    /\ add \cup remove # {}
    /\ mutate_case(i, [db[i] EXCEPT !.tags = (@ \cup add) \ remove])
    /\ tagged' = [tagged EXCEPT ![i] = (@ \cup add) \ remove]
    /\ UNCHANGED <<records, detector, triage, closing, folded, notes, linked, owner, resolved, pruned>>

\* Both directions in one transaction; both cases must exist.
link_cases(a, b) ==
    /\ Edit(a) /\ exists(b) /\ a # b
    /\ b \notin db[a].linked_cases \/ a \notin db[b].linked_cases
    /\ LET other(i) == CASE i = a -> {b} [] i = b -> {a} [] OTHER -> {} IN
       /\ db' = [i \in Cases |-> [db[i] EXCEPT !.linked_cases = @ \cup other(i)]]
       /\ linked' = [i \in Cases |-> linked[i] \cup other(i)]
    /\ UNCHANGED <<records, detector, triage, closing, folded, notes, tagged, owner, resolved, pruned>>

\* The decision is stored (whether or not the case exists), then the case closed.
submit_decision(i) ==
    /\ Spend("edits", MaxEdits)
    /\ folded[i] > 0
    /\ decisions' = decisions \cup {i}
    /\ closing' \in {closing, closing \cup {i}}
    /\ UNCHANGED <<db, predictions, detector, triage, ghosts>>

\* The row with its state closed and its anchor stamped.
closed(c) ==
    [state |-> "Closed", event_count |-> c.event_count, assignee |-> c.assignee,
     tags |-> c.tags, linked_cases |-> c.linked_cases, transcript |-> c.transcript,
     state_changed_at |-> 1 - c.state_changed_at]

Resolve(i) ==
    /\ i \in closing
    /\ closing' = closing \ {i}
    /\ mutate_case(i, closed(db[i]))
    /\ resolved' = IF exists(i) THEN resolved \cup {i} ELSE resolved
    /\ UNCHANGED <<records, detector, triage, folded, additions, owner, pruned, budget>>

\* The case and its records go in one transaction.
delete_cases(i) ==
    /\ i \in Prunes /\ exists(i)
    /\ Spend("edits", MaxEdits)
    /\ db' = [db EXCEPT ![i] = Absent]
    /\ predictions' = predictions \ {i}
    /\ decisions' = decisions \ {i}
    /\ pruned' = pruned \cup {i}
    /\ UNCHANGED <<detector, triage, closing, folded, additions, owner, resolved>>

\* The process stops and starts again: what was in memory is gone.
Restart ==
    /\ Spend("crashes", MaxCrashes)
    /\ det' = [step |-> "idle", id |-> 0]
    /\ tpc' = [t \in Tasks |-> "none"]
    /\ case' = [t \in Tasks |-> Absent]
    /\ boot' = TRUE
    /\ failed' = {}
    /\ closing' = {}
    /\ UNCHANGED <<db, records, recent, ghosts>>

-----------------------------------------------------------------------------
Triage(t) ==
    Start(t) \/ needs_human(t) \/ finish(t) \/ append_prediction(t) \/ Notify(t)

Next ==
    \/ handle_detection \/ bump_event_count \/ OpenCase \/ suppression_mark
    \/ DetectionFails \/ Expire \/ triage_pending
    \/ \E t \in Tasks : Triage(t) \/ Round(t) \/ TriageFails(t)
    \/ \E i \in Cases :
          \/ \E who \in Analysts \cup {Nobody} : assign_case(i, who)
          \/ \E n \in Notes : comment_case(i, n)
          \/ \E add, remove \in SUBSET Tags : tag_case(i, add, remove)
          \/ \E j \in Cases : link_cases(i, j)
          \/ submit_decision(i) \/ Resolve(i) \/ delete_cases(i)
    \/ Restart

\* The runtime runs every task; the tool loop ends at max_iterations.
Fairness ==
    /\ WF_vars(bump_event_count \/ OpenCase \/ suppression_mark)
    /\ WF_vars(triage_pending)
    /\ \A t \in Tasks : WF_vars(Triage(t))

Spec == Init /\ [][Next]_vars /\ Fairness

-----------------------------------------------------------------------------
(* Properties *)

\* Every variable has its type, and a task has a copy exactly while it runs.
TypeOK ==
    /\ db \in [Cases -> Case]
    /\ predictions \subseteq Cases /\ decisions \subseteq Cases
    /\ recent \in BOOLEAN /\ boot \in BOOLEAN
    /\ det \in [step : {"idle", "bump", "open", "mark", "spawn"}, id : Cases \cup {0}]
    /\ tpc \in [Tasks -> {"none", "start", "loop", "predict", "notify"}]
    /\ case \in [Tasks -> Case]
    /\ \A t \in Tasks : tpc[t] = "none" <=> case[t].state = "Absent"
    /\ failed \subseteq Cases /\ closing \subseteq Cases /\ resolved \subseteq Cases /\ pruned \subseteq Cases

\* No detection is lost: the count of a case is the number of detections
\* accepted into it, whatever stale copies the agent wrote meanwhile
\* (put_case, bump_event_count).
CountIsExact ==
    \A i \in Cases : exists(i) /\ i \notin pruned => db[i].event_count = folded[i]

\* An analyst's note, tag or link that was accepted and not removed is in the
\* stored row, whatever copy the agent started from (put_case's merge).
AdditionsKept ==
    \A i \in Cases : exists(i) /\ i \notin pruned =>
        /\ notes[i] \subseteq db[i].transcript
        /\ tagged[i] \subseteq db[i].tags
        /\ linked[i] \subseteq db[i].linked_cases

\* Of two cases that were never pruned, one names the other exactly when the
\* other names it (link_cases, and the union of links in put_case).
LinksMutual ==
    \A a, b \in Cases \ pruned : b \in db[a].linked_cases <=> a \in db[b].linked_cases

\* A write that leaves an open case in its state leaves its SLA anchor, and a
\* write that changes the state moves it (put_case, submit_decision).
AnchorFollowsState ==
    [][\A i \in Cases : exists(i) /\ exists(i)' /\ db[i].state # "Closed" =>
          (db'[i].state = db[i].state <=> db'[i].state_changed_at = db[i].state_changed_at)]_vars

\* Every case leaves the agent's hands: it is triaged, escalated, closed, with
\* a human or deleted in the end, though the process stops in between
\* (triage_pending), unless the model or the store failed on it since the start.
CaseSettles ==
    \A i \in Cases : (db[i].state \in {"New", "Investigating"})
                        ~> (db[i].state \notin {"New", "Investigating"} \/ i \in failed)

\* The merge keeps what the analyst did while the agent ran: a case an analyst
\* closed stays closed (put_case).
ClosedStaysClosed ==
    \A i \in resolved : exists(i) => db[i].state = "Closed"

=============================================================================
