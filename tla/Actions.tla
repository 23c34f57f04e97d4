------------------------------- MODULE Actions -------------------------------
(***************************************************************************)
(* Response actions: the agent proposes, a human decides, the executor     *)
(* re-validates and acts (crates/garmr-core/src/action.rs, garmr-store     *)
(* state/actions.rs, garmr-agent executor.rs, the admin API and the CLI).  *)
(*                                                                         *)
(* Humans decide through concurrent API requests, each of which first      *)
(* records the decision in the audit ledger; the executor's tick runs      *)
(* beside them and reads the case, claims the action and runs the command  *)
(* in separate steps.  The process may stop between any two.               *)
(*                                                                         *)
(* Abstractions.  All actions belong to one case.  Whether an argument is  *)
(* well-formed, off the never-block list and attested by the case does not *)
(* change: those actions are Attested.  Of a list of decisions or outcomes *)
(* only the newest counts, so each is its current member.                  *)
(***************************************************************************)
EXTENDS Naturals, FiniteSets

CONSTANTS
    Ids,           \* the actions
    Attested,      \* those whose argument passes revalidate
    Templated,     \* those with an operator command template
    ActionFaults,  \* "store": a state write fails; "start": the command cannot start
    MaxRequests,   \* bound: decisions under way at the same time
    MaxJudgements, \* bound: verdicts, decisions and outcomes given
    MaxCrashes     \* bound: process stops

ASSUME ActionsAssumption ==
    /\ Attested \subseteq Ids /\ Templated \subseteq Ids
    /\ ActionFaults \subseteq {"store", "start"}
    /\ MaxRequests \in Nat /\ MaxJudgements \in Nat /\ MaxCrashes \in Nat

VARIABLES
    state,      \* per action, its ActionState, "Absent" before it is proposed
    ran,        \* per action, how often its command was started
    ledger,     \* <<action, entry>> for every audit record
    pending,    \* recorded decisions whose transition is still to come
    verdict, decision, outcome,  \* the case's current judgements
    judgements, \* judgements given so far
    pc,         \* where the executor's tick is
    batch,      \* the approved actions the tick has still to process
    cur,        \* the action in hand, or None
    done,       \* <<action, Outcome>> of this tick, not yet in the ledger
    crashes     \* process stops so far

humans == <<ledger, pending>>
case == <<verdict, decision, outcome, judgements>>
tick == <<pc, batch, cur, done, crashes>>
actionVars == <<state, ran, ledger, pending, verdict, decision, outcome, judgements,
                pc, batch, cur, done, crashes>>

None == "None"
Disposition == {"Benign", "Malicious"}
ActionState == {"Absent", "Proposed", "Approved", "Denied", "Executing", "Executed", "Failed"}
Terminal == {"Denied", "Executed", "Failed"}

-----------------------------------------------------------------------------
(* Proposals and judgements. *)

\* A new proposal is Proposed, under an id that does not exist.
put_action_proposal(a) ==
    /\ state[a] = "Absent"
    /\ state' = [state EXCEPT ![a] = "Proposed"]

\* The agent's tool: a proposal is the only write it can make.
propose_action(a) ==
    /\ pc # "down"
    /\ put_action_proposal(a)
    /\ UNCHANGED <<ran, humans, case, tick>>

\* `garmr action propose', while the daemon is stopped.
ActionPropose(a) ==
    /\ pc = "down"
    /\ put_action_proposal(a)
    /\ UNCHANGED <<ran, humans, case, tick>>

Judging ==
    /\ pc # "down"
    /\ judgements < MaxJudgements
    /\ judgements' = judgements + 1

\* The agent concludes its triage.
finish(d) ==
    /\ Judging
    /\ verdict' = d
    /\ UNCHANGED <<state, ran, humans, decision, outcome, tick>>

\* An analyst decides the case.
submit_decision(d) ==
    /\ Judging
    /\ decision' = d
    /\ UNCHANGED <<state, ran, humans, verdict, outcome, tick>>

\* An admin records the outcome of the incident.
submit_incident(d) ==
    /\ Judging
    /\ outcome' = d
    /\ UNCHANGED <<state, ran, humans, verdict, decision, tick>>

-----------------------------------------------------------------------------
(* The human gate: the API handlers, and the CLI while the daemon is down. *)

\* Nothing changes unless the record lands.
record_admin(a, d) == ledger' = ledger \cup {<<a, d>>}

\* The API handlers, first half: the decision is recorded.
admin_action(a, d) ==
    /\ pc # "down"
    /\ Cardinality(pending) < MaxRequests
    /\ state[a] # "Absent"
    /\ record_admin(a, d)
    /\ pending' = pending \cup {<<a, d>>}
    /\ UNCHANGED <<state, ran, case, tick>>

\* The same on the command line, while the daemon is stopped; the exclusive
\* lock on the state database admits one process at a time.
action_cmd(a, d) ==
    /\ pc = "down"
    /\ pending = {}
    /\ state[a] # "Absent"
    /\ record_admin(a, d)
    /\ pending' = pending \cup {<<a, d>>}
    /\ UNCHANGED <<state, ran, case, tick>>

\* The from-state is checked inside the write transaction; a transition that
\* comes too late is an error to its caller.
transition_action(a, from, to) ==
    state' = IF state[a] \in from THEN [state EXCEPT ![a] = to] ELSE state

\* The states a decision is accepted in: a denial also recalls an approval.
DecidesFrom(d) ==
    IF d = "approved" THEN {"Proposed"} ELSE {"Proposed", "Approved"}

\* Second half: the action changes state, or the caller gets an error.
DecideApply(a, d) ==
    /\ <<a, d>> \in pending
    /\ pending' = pending \ {<<a, d>>}
    /\ transition_action(a, DecidesFrom(d), IF d = "approved" THEN "Approved" ELSE "Denied")
    /\ UNCHANGED <<ran, ledger, case, tick>>

-----------------------------------------------------------------------------
(* The executor: run_once and execute. *)

\* run_once: the approved actions of this tick.
Poll ==
    /\ pc = "idle"
    /\ batch' = { a \in Ids : state[a] = "Approved" }
    /\ batch' # {}
    /\ pc' = "next"
    /\ UNCHANGED <<state, ran, humans, case, cur, done, crashes>>

\* The next action of the batch, or the end of the tick.
NextAction ==
    /\ pc = "next"
    /\ \/ /\ batch = {}
          /\ pc' = "audit"
          /\ UNCHANGED <<batch, cur>>
       \/ \E a \in batch :
             /\ cur' = a
             /\ batch' = batch \ {a}
             /\ pc' = "revalidate"
    /\ UNCHANGED <<state, ran, humans, case, done, crashes>>

\* The judgement that counts: outcome before decision before verdict.
effective ==
    IF outcome # None THEN outcome ELSE IF decision # None THEN decision ELSE verdict

\* The executor's own check of the argument, the evidence and the judgement.
revalidate(a) == a \in Attested /\ effective \notin {None, "Benign"}

\* Mutant of execute: a refused action is passed over and stays approved.
ExecuteSkips ==
    /\ pc = "revalidate"
    /\ IF revalidate(cur) /\ cur \in Templated
       THEN pc' = "claim" /\ UNCHANGED cur
       ELSE pc' = "next" /\ cur' = None
    /\ UNCHANGED <<state, ran, humans, case, batch, done, crashes>>

\* Without a template, or when the check fails, the action fails unrun.
execute ==
    /\ pc = "revalidate"
    /\ pc' = IF revalidate(cur) /\ cur \in Templated THEN "claim" ELSE "fail"
    /\ UNCHANGED <<state, ran, humans, case, batch, cur, done, crashes>>

Finished(o) == done' = done \cup {<<cur, o>>} /\ cur' = None /\ pc' = "next"

\* fail: the transition's error is ignored.
fail ==
    /\ pc = "fail"
    /\ \/ transition_action(cur, {"Approved"}, "Failed")
       \/ "store" \in ActionFaults /\ UNCHANGED state
    /\ Finished("Refused")
    /\ UNCHANGED <<ran, humans, case, batch, crashes>>

\* Approved -> Executing, persisted before the command runs; when another
\* transition came first, or the write fails, the command does not run.
Claim ==
    /\ pc = "claim"
    /\ \/ /\ state[cur] = "Approved"
          /\ transition_action(cur, {"Approved"}, "Executing")
          /\ pc' = "run"
          /\ UNCHANGED <<cur, done>>
       \/ /\ state[cur] # "Approved" \/ "store" \in ActionFaults
          /\ Finished("Failed")
          /\ UNCHANGED state
    /\ UNCHANGED <<ran, humans, case, batch, crashes>>

\* Mutant of Run: a command that fails is tried again.
RunRetries ==
    /\ pc = "run"
    /\ pc' \in {"run", "executed", "finish_failed"}
    /\ \/ ran' = [ran EXCEPT ![cur] = @ + 1]
       \/ "start" \in ActionFaults /\ pc' # "executed" /\ UNCHANGED ran
    /\ UNCHANGED <<state, humans, case, batch, cur, done, crashes>>

\* The command runs, and succeeds, fails or is killed after CMD_TIMEOUT.
Run ==
    /\ pc = "run"
    /\ pc' \in {"executed", "finish_failed"}
    /\ \/ ran' = [ran EXCEPT ![cur] = @ + 1]
       \/ "start" \in ActionFaults /\ pc' = "finish_failed" /\ UNCHANGED ran
    /\ UNCHANGED <<state, humans, case, batch, cur, done, crashes>>

\* The terminal transition; its failure leaves the action in Executing.
Finish ==
    /\ pc \in {"executed", "finish_failed"}
    /\ \/ transition_action(cur, {"Executing"}, IF pc = "executed" THEN "Executed" ELSE "Failed")
       \/ "store" \in ActionFaults /\ UNCHANGED state
    /\ Finished(IF pc = "executed" /\ state' # state THEN "Executed" ELSE "Failed")
    /\ UNCHANGED <<ran, humans, case, batch, crashes>>

\* executor_loop, execute_cmd: the outcomes of the whole tick are recorded after
\* its last command.
record_execute ==
    /\ pc = "audit"
    /\ ledger' = ledger \cup done
    /\ done' = {}
    /\ pc' = "idle"
    /\ UNCHANGED <<state, ran, pending, case, batch, cur, crashes>>

-----------------------------------------------------------------------------
(* Process stop and start. *)

Crash ==
    /\ pc # "down"
    /\ crashes < MaxCrashes
    /\ crashes' = crashes + 1
    /\ pc' = "down"
    /\ batch' = {}
    /\ cur' = None
    /\ done' = {}
    /\ pending' = {}
    /\ UNCHANGED <<state, ran, ledger, case>>

\* The database lock keeps the daemon from starting while a CLI decides.
Restart ==
    /\ pc = "down"
    /\ pending = {}
    /\ pc' = "idle"
    /\ UNCHANGED <<state, ran, humans, case, batch, cur, done, crashes>>

ActionInit ==
    /\ state = [a \in Ids |-> "Absent"]
    /\ ran = [a \in Ids |-> 0]
    /\ ledger = {} /\ pending = {}
    /\ verdict = None /\ decision = None /\ outcome = None
    /\ judgements = 0
    /\ pc = "idle" /\ batch = {} /\ cur = None /\ done = {}
    /\ crashes = 0

Executor ==
    \/ Poll \/ NextAction \/ execute \/ fail \/ Claim \/ Run \/ Finish \/ record_execute

ActionNext ==
    \/ \E a \in Ids : propose_action(a) \/ ActionPropose(a)
    \/ \E a \in Ids, d \in {"approved", "denied"} :
          admin_action(a, d) \/ action_cmd(a, d) \/ DecideApply(a, d)
    \/ \E d \in Disposition : finish(d) \/ submit_decision(d) \/ submit_incident(d)
    \/ Executor
    \/ Crash \/ Restart

\* The executor's loop runs while the daemon does, and a supervisor keeps trying
\* to restart it; a request that recorded its decision goes on to apply it; a
\* store that is tried again and again does not fail for ever.
ActionFairness ==
    /\ WF_actionVars(Executor) /\ SF_actionVars(Restart)
    /\ \A a \in Ids :
          /\ \A d \in {"approved", "denied"} : WF_actionVars(DecideApply(a, d))
          /\ SF_actionVars((Claim \/ fail) /\ state'[a] # state[a])

ActionSpec == ActionInit /\ [][ActionNext]_actionVars /\ ActionFairness

-----------------------------------------------------------------------------
(* Properties. *)

\* Every variable has its type.
ActionTypeOK ==
    /\ state \in [Ids -> ActionState]
    /\ ran \in [Ids -> Nat]
    /\ ledger \subseteq Ids \X {"approved", "denied", "Executed", "Refused", "Failed"}
    /\ pending \subseteq Ids \X {"approved", "denied"}
    /\ {verdict, decision, outcome} \subseteq Disposition \cup {None}
    /\ judgements \in Nat /\ crashes \in Nat
    /\ pc \in {"down", "idle", "next", "revalidate", "fail", "claim", "run", "executed",
               "finish_failed", "audit"}
    /\ batch \subseteq Ids
    /\ cur \in Ids \cup {None} /\ (cur = None <=> pc \in {"down", "idle", "next", "audit"})
    /\ done \subseteq Ids \X {"Executed", "Refused", "Failed"}

\* What the human gate promises, although commands fail or time out, state writes
\* are lost, decisions race with the executor and the process stops and starts in
\* the middle of a command: the command of an action is started once at most, a
\* human's approval of it is in the ledger by then, and an action whose denial was
\* accepted, before or after its approval, has not run and never will.
OnlyApprovedRuns ==
    \A a \in Ids :
        /\ ran[a] <= 1
        /\ ran[a] > 0 => <<a, "approved">> \in ledger
        /\ state[a] = "Denied" => ran[a] = 0

\* Denied, Executed and Failed are final: a late decision, a second executor
\* pass or a delayed transition never revives an action.
TerminalIsFinal ==
    [][ \A a \in Ids : state[a] \in Terminal => state'[a] = state[a] ]_actionVars

\* An approved action is claimed, refused or recalled: whatever fails or stops,
\* it does not stay in the executor's queue.
ApprovedSettles ==
    \A a \in Ids : (state[a] = "Approved") ~> (state[a] # "Approved")

=============================================================================
