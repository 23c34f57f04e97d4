-------------------------------- MODULE Sla --------------------------------
(***************************************************************************)
(* The SLA clocks of the case queue: sla_loop (garmr-cli/src/pipeline.rs), *)
(* apply_sla_breaches (garmr-store/src/state/cases.rs) and sla_status      *)
(* (garmr-core/src/sla.rs).  A sweep lists the cases, then marks the ones  *)
(* that newly breached a clock, one transaction each, and at its end sends *)
(* one digest of them.  Triage, analysts and a prune write the same rows   *)
(* between its steps: triage puts a copy that it took before, which        *)
(* put_case merges with the row.                                           *)
(*                                                                         *)
(* A row is reduced to what the clocks read.  `waiting' is NeedsHuman or   *)
(* Escalated, `agent' is any other open state.                             *)
(***************************************************************************)
EXTENDS Naturals, FiniteSets

CONSTANTS
    SlaCases,       \* the cases, numbered in the order they open
    ack_minutes, resolve_minutes,   \* the limits; 0 is off
    MaxMinutes,     \* bound on the clock
    MaxSlaEdits,    \* bound on writes by triage, analysts and prunes
    MaxSlaTrouble   \* bound on store errors, undelivered digests and stops

Clock == {"sla:ack", "sla:resolve"}

ASSUME SlaAssumption ==
    /\ SlaCases \subseteq Nat /\ IsFiniteSet(SlaCases)
    /\ ack_minutes \in Nat /\ resolve_minutes \in Nat /\ MaxMinutes \in Nat
    /\ MaxSlaEdits \in Nat /\ MaxSlaTrouble \in Nat

VARIABLES
    minute,         \* the time
    row,            \* the stored cases; a case that is not there is NoRow
    copy,           \* the copy a running triage holds of a case, or NoRow
    sweep,          \* the tick being applied: its time, the listed rows still
                    \* to look at, and what it will announce
    told,           \* the digests that listed a case, and the clocks they named
    untagged,       \* marks that an analyst took off
    born,           \* cases that ever opened
    recreated,      \* cases a copy was put over after they were deleted
    slaTally        \* edits and trouble so far

slaVars == <<minute, row, copy, sweep, told, untagged, born, recreated, slaTally>>

NoRow == [state |-> "none", owned |-> FALSE, opened_at |-> 0, state_changed_at |-> 0, tags |-> {}]
Asleep == [on |-> FALSE, now |-> 0, listed |-> [i \in SlaCases |-> NoRow], newly |-> {}]

SlaInit ==
    /\ minute = 0
    /\ row = [i \in SlaCases |-> NoRow] /\ copy = row
    /\ sweep = Asleep
    /\ told = [i \in SlaCases |-> [digests |-> 0, named |-> {}]]
    /\ untagged = {} /\ born = {} /\ recreated = {}
    /\ slaTally = [edits |-> 0, trouble |-> 0]

rowStored(i) == row[i].state # "none"
SlaEdit == slaTally.edits < MaxSlaEdits /\ slaTally' = [slaTally EXCEPT !.edits = @ + 1]
SlaTrouble == slaTally.trouble < MaxSlaTrouble /\ slaTally' = [slaTally EXCEPT !.trouble = @ + 1]

-----------------------------------------------------------------------------
(* The clocks. *)

ack_breached(c, now) ==
    /\ ack_minutes > 0 /\ c.state = "waiting" /\ ~c.owned
    /\ now >= c.state_changed_at + ack_minutes

resolve_breached(c, now) ==
    /\ resolve_minutes > 0 /\ c.state # "closed"
    /\ now >= c.opened_at + resolve_minutes

\* sla_status: the clocks of a case that have run out.
sla_status(c, now) ==
    {k \in Clock : c.state # "none" /\ (IF k = "sla:ack" THEN ack_breached(c, now)
                                        ELSE resolve_breached(c, now))}

-----------------------------------------------------------------------------
(* The other writers of the rows. *)

\* A case opens and its triage starts, with a copy of it.
SlaOpen(i) ==
    /\ i \notin born /\ \A j \in SlaCases : j < i => j \in born
    /\ born' = born \cup {i}
    /\ SlaEdit
    /\ LET new == [NoRow EXCEPT !.state = "agent", !.opened_at = minute, !.state_changed_at = minute]
       IN  row' = [row EXCEPT ![i] = new] /\ copy' = [copy EXCEPT ![i] = new]
    /\ UNCHANGED <<minute, sweep, told, untagged, recreated>>

\* Mutant of slaMerged: the tags of the copy replace the stored ones.
slaMergedOver(prev, new) ==
    [new EXCEPT !.owned = @ \/ prev.owned,
                !.state_changed_at = IF prev.state = new.state THEN prev.state_changed_at ELSE minute]

\* put_case: the copy against the stored row.
slaMerged(prev, new) ==
    [state |-> new.state, owned |-> new.owned \/ prev.owned, opened_at |-> new.opened_at,
     state_changed_at |-> IF prev.state = new.state THEN prev.state_changed_at ELSE minute,
     tags |-> new.tags \cup prev.tags]

\* Triage puts its copy, as it goes on or in the state it came to.
SlaTriage(i) ==
    /\ copy[i] # NoRow
    /\ SlaEdit
    /\ \E s \in {"agent", "waiting", "closed"} :
          LET new == [copy[i] EXCEPT !.state = s] IN
          /\ row' = [row EXCEPT ![i] = IF rowStored(i) THEN slaMerged(@, new) ELSE new]
          /\ \/ s = "agent" /\ copy' = [copy EXCEPT ![i] = new]
             \/ copy' = [copy EXCEPT ![i] = NoRow]
    /\ recreated' = IF rowStored(i) THEN recreated ELSE recreated \cup {i}
    /\ UNCHANGED <<minute, sweep, told, untagged, born>>

\* An analyst takes the case or gives it back, removes a mark, or closes the case.
SlaAnalyst(i) ==
    /\ rowStored(i)
    /\ SlaEdit
    /\ \/ row' = [row EXCEPT ![i].owned = ~@] /\ UNCHANGED untagged
       \/ \E k \in row[i].tags : /\ row' = [row EXCEPT ![i].tags = @ \ {k}]
                                 /\ untagged' = untagged \cup {<<i, k>>}
       \/ /\ row' = [row EXCEPT ![i] = slaMerged(@, [@ EXCEPT !.state = "closed"])]
          /\ UNCHANGED untagged
    /\ UNCHANGED <<minute, copy, sweep, told, born, recreated>>

\* delete_cases
SlaPrune(i) ==
    /\ rowStored(i)
    /\ SlaEdit
    /\ row' = [row EXCEPT ![i] = NoRow]
    /\ UNCHANGED <<minute, copy, sweep, told, untagged, born, recreated>>

-----------------------------------------------------------------------------
(* sla_loop *)

\* apply_sla_breaches lists the cases.
SweepList ==
    /\ ~sweep.on
    /\ ack_minutes > 0 \/ resolve_minutes > 0
    /\ sweep' = [on |-> TRUE, now |-> minute, listed |-> row, newly |-> {}]
    /\ UNCHANGED <<minute, row, copy, told, untagged, born, recreated, slaTally>>

\* The clocks of a listed case that have run out and are not marked.
Want(i) == sla_status(sweep.listed[i], sweep.now) \ sweep.listed[i].tags

Todo == {i \in SlaCases : Want(i) # {}}

\* What the digest says of a case that was marked: all its clocks that have run
\* out, those an earlier digest named among them.
Listed(i) == {i} \X sla_status(sweep.listed[i], sweep.now)

\* mutate_case: the newest case first; the mark goes on the row as it is now.
SweepMark ==
    /\ sweep.on
    /\ \E i \in Todo :
       /\ \A j \in Todo : j <= i
       /\ row' = [row EXCEPT ![i].tags = IF rowStored(i) THEN @ \cup Want(i) ELSE @]
       /\ sweep' = [sweep EXCEPT !.listed[i] = NoRow, !.newly = @ \cup Listed(i)]
    /\ UNCHANGED <<minute, copy, told, untagged, born, recreated, slaTally>>

\* A store error ends the tick; what it had collected is dropped with it.
SweepFails ==
    /\ sweep.on /\ Todo # {}
    /\ SlaTrouble
    /\ sweep' = Asleep
    /\ UNCHANGED <<minute, row, copy, told, untagged, born, recreated>>

\* The digest of the cases collected.
Announced ==
    told' = [i \in SlaCases |->
               LET clocks == {k \in Clock : <<i, k>> \in sweep.newly}
               IN  IF clocks = {} THEN told[i]
                   ELSE [digests |-> told[i].digests + 1, named |-> told[i].named \cup clocks]]

\* The digest goes out, or is not delivered and only logged.
SweepEnd ==
    /\ sweep.on /\ Todo = {}
    /\ \/ Announced /\ UNCHANGED slaTally
       \/ sweep.newly # {} /\ SlaTrouble /\ UNCHANGED told
    /\ sweep' = Asleep
    /\ UNCHANGED <<minute, row, copy, untagged, born, recreated>>

-----------------------------------------------------------------------------

SlaTick ==
    /\ minute < MaxMinutes
    /\ minute' = minute + 1
    /\ UNCHANGED <<row, copy, sweep, told, untagged, born, recreated, slaTally>>

\* The process stops and starts again: the tick is gone, and triage_pending
\* takes up the cases whose triage had not ended.
SlaStop ==
    /\ SlaTrouble
    /\ sweep' = Asleep
    /\ copy' = [i \in SlaCases |-> IF row[i].state = "agent" THEN row[i] ELSE NoRow]
    /\ UNCHANGED <<minute, row, told, untagged, born, recreated>>

Sweep == SweepList \/ SweepMark \/ SweepEnd

SlaNext ==
    \/ Sweep \/ SweepFails \/ SlaTick \/ SlaStop
    \/ \E i \in SlaCases : SlaOpen(i) \/ SlaTriage(i) \/ SlaAnalyst(i) \/ SlaPrune(i)

\* The loop wakes every minute as long as the process runs.
SlaSpec == SlaInit /\ [][SlaNext]_slaVars /\ WF_slaVars(Sweep)

-----------------------------------------------------------------------------
(* Properties *)

SlaRow == [state : {"none", "agent", "waiting", "closed"}, owned : BOOLEAN,
           opened_at : 0 .. MaxMinutes, state_changed_at : 0 .. MaxMinutes, tags : SUBSET Clock]

\* Every variable has its type; nothing is collected between two ticks.
SlaTypeOK ==
    /\ minute \in 0 .. MaxMinutes
    /\ row \in [SlaCases -> SlaRow] /\ copy \in [SlaCases -> SlaRow]
    /\ sweep \in [on : BOOLEAN, now : 0 .. MaxMinutes, listed : [SlaCases -> SlaRow],
                  newly : SUBSET (SlaCases \X Clock)]
    /\ ~sweep.on => sweep = Asleep
    /\ told \in [SlaCases -> [digests : Nat, named : SUBSET Clock]]
    /\ untagged \subseteq SlaCases \X Clock
    /\ born \subseteq SlaCases /\ recreated \subseteq SlaCases

\* A breach is announced once: a digest lists a case only when it names a clock
\* of it that no digest named before, whatever stale copy of the case triage
\* put meanwhile, unless an analyst takes a mark off or the case is deleted
\* under its triage (apply_sla_breaches, put_case).
ToldOnce(i) ==
    \/ told'[i].digests = told[i].digests
    \/ told'[i].named # told[i].named
    \/ i \in recreated \/ \E k \in Clock : <<i, k>> \in untagged
BreachToldOnce == [][\A i \in SlaCases : ToldOnce(i)]_slaVars

=============================================================================
