------------------------------- MODULE Spend -------------------------------
(***************************************************************************)
(* The daily model budget (garmr-store/src/state/budget.rs) and everything *)
(* that spends it.  Hunts, questions and rule drafts reserve the worst     *)
(* case of every call and settle to what it cost; a reservation dropped    *)
(* unsettled is refunded.  Triage reads the ledger before a call and adds *)
(* the cost after it.  The hunt loop runs the scheduled hunts in turn, one *)
(* at a time, each under a time limit.                                     *)
(*                                                                         *)
(* Money is counted in units; a day is DayLength ticks; a task charges the *)
(* day on which it started.  One task of each kind of the API at a time.   *)
(* What a model says is abstracted to whether the task goes on.            *)
(***************************************************************************)
EXTENDS Naturals, FiniteSets

CONSTANTS
    Hunts,          \* how many hunts are scheduled
    schedule_secs,  \* the time between two runs of a hunt
    Api,            \* the API's spenders: "hunt" (ad hoc), "ask", "author"
    Triages,        \* triage tasks that can run at the same time
    Cap,            \* daily_budget_usd
    Worst,          \* the reservation of one call
    Costs,          \* what a call can cost
    MaxCost,        \* the most of it
    max_iterations, \* calls of one task
    DayLength, MaxTime,     \* ticks of a day, bound on the time
    MaxStarts,      \* bound on tasks started beside the hunt loop
    MaxTrouble      \* bound on stops of the process and on failed reads and
                    \* writes of the state store

Reservers == Api \cup {"loop"}
Spenders == Reservers \cup Triages

ASSUME SpendAssumption ==
    /\ Hunts \in Nat \ {0} /\ schedule_secs \in Nat \ {0} /\ DayLength \in Nat \ {0}
    /\ Cap \in Nat /\ Worst \in Nat /\ MaxCost \in Nat /\ max_iterations \in Nat /\ MaxTime \in Nat
    /\ MaxStarts \in Nat /\ MaxTrouble \in Nat
    /\ Costs \subseteq 0 .. MaxCost
    /\ Api \subseteq {"hunt", "ask", "author"}
    /\ IsFiniteSet(Triages) /\ Triages \cap Reservers = {}

Day(at) == at \div DayLength
Days == {Day(at) : at \in 0 .. MaxTime}

VARIABLES
    hour,           \* the time
    spent,          \* the ledger: micro-USD by day, as stored
    billed,         \* what the answered calls of a day's tasks cost
    missed,         \* the part of it that failed to be stored
    spender,           \* every spender: its step, its start, calls made, reservation
    reports,        \* the stored hunt reports: which hunt, when it started
    last_run,       \* when the loop last started a hunt: {} or one time
    turn,           \* the hunt whose turn it is
    blind,          \* a start could not list the reports
    tally           \* starts, and stops and faults, so far

money == <<spent, billed, missed>>
schedule == <<reports, last_run, turn, blind>>
spendVars == <<hour, money, spender, schedule, tally>>

Step == {"idle", "gate", "call", "prefilter", "report"}
Resting == [step |-> "idle", at |-> 0, calls |-> 0, held |-> 0]
NewTask == [step |-> "gate", at |-> hour, calls |-> 0, held |-> 0]

\* A new deployment has no reports; one that ran before has some.
SpendInit ==
    /\ hour = 0
    /\ spent = [d \in Days |-> 0]
    /\ billed = [d \in Days |-> 0] /\ missed = [d \in Days |-> 0]
    /\ spender = [t \in Spenders |-> Resting]
    /\ \E ran \in SUBSET (1 .. Hunts) :
          /\ reports = {[hunt |-> h, at |-> 0] : h \in ran}
          /\ last_run = [h \in 1 .. Hunts |-> IF h \in ran THEN {0} ELSE {}]
    /\ blind = FALSE
    /\ turn = 1
    /\ tally = [starts |-> 0, trouble |-> 0]

day(t) == Day(spender[t].at)
Started == tally.starts < MaxStarts /\ tally' = [tally EXCEPT !.starts = @ + 1]
Faulty == tally.trouble < MaxTrouble /\ tally' = [tally EXCEPT !.trouble = @ + 1]
Sound == UNCHANGED tally

-----------------------------------------------------------------------------
(* StateStore: one write transaction each, on the day of the task. *)

\* The reservation is taken back, never below zero, and the cost put on.
budget_settle_micros(t, actual) ==
    spent' = [spent EXCEPT ![day(t)] =
                  (IF @ > spender[t].held THEN @ - spender[t].held ELSE 0) + actual]

budget_add_micros(t, add) == spent' = [spent EXCEPT ![day(t)] = @ + add]

Bill(t, cost) == billed' = [billed EXCEPT ![day(t)] = @ + cost]

-----------------------------------------------------------------------------
(* Tasks *)

\* The loop goes on with the next hunt when one ends.
EndTask(t) ==
    /\ spender' = [spender EXCEPT ![t] = Resting]
    /\ turn' = IF t = "loop" THEN (turn % Hunts) + 1 ELSE turn

GoOn(t, step) ==
    /\ spender' = [spender EXCEPT ![t] = [@ EXCEPT !.step = step, !.held = 0]]
    /\ UNCHANGED turn

\* The next call of a task is made, with what it holds of the budget.
StartCall(t, reservation) ==
    /\ spender' = [spender EXCEPT ![t] = [step |-> "call", at |-> @.at, calls |-> @.calls + 1, held |-> reservation]]
    /\ UNCHANGED turn

\* run_hunt stores a report however the run ended; the others return.
Finish(t) == IF t \in {"loop", "hunt"} THEN GoOn(t, "report") ELSE EndTask(t)

\* A question is a plan and an answer; the others go on up to max_iterations.
Limit(t) == IF t = "ask" THEN 2 ELSE max_iterations

\* Has the time of a hunt come?
Due(h) == \A at \in last_run[h] : hour - at >= schedule_secs

\* hunt_loop: the next hunt of the book is started when it is due.
Visit ==
    /\ spender["loop"].step = "idle"
    /\ IF Due(turn)
       THEN /\ last_run' = [last_run EXCEPT ![turn] = {hour}]
            /\ spender' = [spender EXCEPT !["loop"] = NewTask]
            /\ UNCHANGED turn
       ELSE /\ turn' = (turn % Hunts) + 1
            /\ UNCHANGED <<last_run, spender>>
    /\ UNCHANGED <<hour, money, reports, blind, tally>>

\* POST /api/hunt, GET /api/ask, POST /api/rules/propose.
SpendRequest(t) ==
    /\ t \in Api /\ spender[t].step = "idle"
    /\ Started
    /\ spender' = [spender EXCEPT ![t] = NewTask]
    /\ UNCHANGED <<hour, money, schedule>>

\* budget_reserve: the worst case is put on the ledger if it fits under the
\* cap, and the call is made; otherwise the budget is exhausted.
budget_reserve(t) ==
    /\ t \in Reservers /\ spender[t].step = "gate" /\ spender[t].calls < Limit(t)
    /\ IF spent[day(t)] + Worst <= Cap
       THEN /\ spent' = [spent EXCEPT ![day(t)] = @ + Worst]
            /\ StartCall(t, Worst)
       ELSE Finish(t) /\ UNCHANGED spent
    /\ UNCHANGED <<hour, billed, missed, reports, last_run, blind, tally>>

\* The iterations are used up, or the reservation could not be written.
StopCalling(t) ==
    /\ t \in Reservers /\ spender[t].step = "gate"
    /\ \/ spender[t].calls = Limit(t) /\ Sound
       \/ spender[t].calls < Limit(t) /\ Faulty
    /\ Finish(t)
    /\ UNCHANGED <<hour, money, reports, last_run, blind>>

\* The model answers: the reservation is settled.  The task goes on to its
\* next call, or this was the last (a report, a refusal, a truncated answer).
\* A settlement that fails leaves the reservation on the ledger, and misses
\* what the call cost beyond it.
ModelAnswers(t) ==
    /\ t \in Reservers /\ spender[t].step = "call"
    /\ \E cost \in Costs :
          /\ Bill(t, cost)
          /\ \/ budget_settle_micros(t, cost) /\ (GoOn(t, "gate") \/ Finish(t)) /\ UNCHANGED <<missed, tally>>
             \/ /\ UNCHANGED spent /\ Finish(t) /\ Faulty
                /\ missed' = [missed EXCEPT ![day(t)] = @ + (IF cost > spender[t].held THEN cost - spender[t].held ELSE 0)]
    /\ UNCHANGED <<hour, reports, last_run, blind>>

\* Mutant of Refund: a dropped guard does nothing.
RefundNever(t) == UNCHANGED <<spent, tally>>

\* Drop: an armed guard takes its reservation back; a failure is logged.
Refund(t) ==
    \/ budget_settle_micros(t, 0) /\ Sound
    \/ spender[t].held > 0 /\ UNCHANGED spent /\ Faulty

\* The provider answers with an error.
CallFails(t) ==
    /\ t \in Reservers /\ spender[t].step = "call"
    /\ Refund(t) /\ Finish(t)
    /\ UNCHANGED <<hour, billed, missed, reports, last_run, blind>>

\* In a call, or in the tools between two calls.
AtAwait(t) == spender[t].step = "call" \/ (spender[t].step = "gate" /\ spender[t].calls > 0)

\* Mutant of Cancel: a scheduled run has no time limit.
CancelAsk(t) ==
    /\ t = "ask" /\ t \in Reservers
    /\ AtAwait(t)
    /\ Refund(t) /\ EndTask(t)
    /\ UNCHANGED <<hour, billed, missed, reports, last_run, blind>>

\* The time limit of a scheduled hunt or of a question, or its client goes
\* away: the future is dropped at an await.  Ad-hoc hunts and drafts run on
\* tasks of their own, which nothing cancels.
Cancel(t) ==
    /\ t \in {"loop", "ask"} \cap Reservers
    /\ AtAwait(t)
    /\ Refund(t) /\ EndTask(t)
    /\ UNCHANGED <<hour, billed, missed, reports, last_run, blind>>

\* put_hunt_report
Report(t) ==
    /\ spender[t].step = "report"
    /\ LET hunt == IF t = "loop" THEN turn ELSE 0 IN
       \/ reports' = reports \cup {[hunt |-> hunt, at |-> spender[t].at]} /\ Sound
       \/ UNCHANGED reports /\ Faulty
    /\ EndTask(t)
    /\ UNCHANGED <<hour, money, last_run, blind>>

-----------------------------------------------------------------------------
(* Agent::triage: the ledger is read before a call and charged after it. *)

Affordable(t) == spent[day(t)] < Cap

\* The budget gate at the entry, then the prefilter's call where there is one.
\* A case that meets an exhausted budget is queued for a human.
StartTriage(t) ==
    /\ t \in Triages /\ spender[t].step = "idle"
    /\ spent[Day(hour)] < Cap
    /\ Started
    /\ \E step \in {"prefilter", "gate"} : spender' = [spender EXCEPT ![t] = [NewTask EXCEPT !.step = step]]
    /\ UNCHANGED <<hour, money, schedule>>

\* Mutant of Check: the budget is looked at only when the triage starts.
CheckOnce(t) ==
    /\ t \in Triages /\ spender[t].step = "gate"
    /\ IF spender[t].calls < max_iterations
       THEN StartCall(t, 0)
       ELSE EndTask(t)
    /\ UNCHANGED <<hour, money, reports, last_run, blind, tally>>

\* The budget is read again before every call of the loop.
Check(t) ==
    /\ t \in Triages /\ spender[t].step = "gate"
    /\ IF spender[t].calls < max_iterations /\ Affordable(t)
       THEN StartCall(t, 0)
       ELSE EndTask(t)
    /\ UNCHANGED <<hour, money, reports, last_run, blind, tally>>

\* charge_budget.  The triage goes on, or the case is settled.  A charge that
\* fails ends the triage with an error.
TriageAnswer(t) ==
    /\ t \in Triages /\ spender[t].step \in {"call", "prefilter"}
    /\ \E cost \in Costs :
          /\ Bill(t, cost)
          /\ \/ budget_add_micros(t, cost) /\ (GoOn(t, "gate") \/ EndTask(t)) /\ UNCHANGED <<missed, tally>>
             \/ /\ cost > 0 /\ UNCHANGED spent /\ EndTask(t) /\ Faulty
                /\ missed' = [missed EXCEPT ![day(t)] = @ + cost]
    /\ UNCHANGED <<hour, reports, last_run, blind>>

\* A failed call ends the triage; a failed prefilter leads to the full loop.
TriageCallFails(t) ==
    /\ t \in Triages /\ spender[t].step \in {"call", "prefilter"}
    /\ IF spender[t].step = "call" THEN EndTask(t) ELSE GoOn(t, "gate")
    /\ UNCHANGED <<hour, money, reports, last_run, blind, tally>>

-----------------------------------------------------------------------------

\* The schedule a new process starts from: the latest stored run of each hunt.
ScheduleSeed == [h \in 1 .. Hunts |->
           LET runs == {r.at : r \in {s \in reports : s.hunt = h}}
           IN  {at \in runs : \A other \in runs : other <= at}]

\* The process is killed and started again: no guard is dropped.
Restarted ==
    /\ Faulty
    /\ spender' = [t \in Spenders |-> Resting]
    /\ turn' = 1
    /\ \/ last_run' = ScheduleSeed /\ UNCHANGED blind
       \/ last_run' = [h \in 1 .. Hunts |-> {}] /\ blind' = TRUE   \* list_hunt_reports failed
    /\ UNCHANGED <<hour, money, reports>>

Tick ==
    /\ hour < MaxTime
    /\ hour' = hour + 1
    /\ UNCHANGED <<money, spender, schedule, tally>>

SpendNext ==
    \/ Visit \/ Restarted \/ Tick
    \/ \E t \in Spenders :
          \/ SpendRequest(t) \/ budget_reserve(t) \/ StopCalling(t) \/ ModelAnswers(t) \/ CallFails(t) \/ Cancel(t) \/ Report(t)
          \/ StartTriage(t) \/ Check(t) \/ TriageAnswer(t) \/ TriageCallFails(t)

\* The hunt loop's own steps, and its timer.  Nothing says that a model
\* answers.
HuntLoop == Visit \/ budget_reserve("loop") \/ StopCalling("loop") \/ Cancel("loop") \/ Report("loop")

SpendSpec == SpendInit /\ [][SpendNext]_spendVars /\ WF_spendVars(HuntLoop)

-----------------------------------------------------------------------------
(* Properties *)

Task == [step : Step, at : 0 .. MaxTime, calls : Nat, held : {0, Worst}]

\* Every variable has its type; a task holds a reservation exactly in a call.
SpendTypeOK ==
    /\ hour \in 0 .. MaxTime
    /\ spent \in [Days -> Nat] /\ billed \in [Days -> Nat] /\ missed \in [Days -> Nat]
    /\ spender \in [Spenders -> Task]
    /\ \A t \in Spenders :
          spender[t].held = IF t \in Reservers /\ spender[t].step = "call" THEN Worst ELSE 0
    /\ reports \subseteq [hunt : 0 .. Hunts, at : 0 .. MaxTime]
    /\ last_run \in [1 .. Hunts -> SUBSET (0 .. MaxTime)]
    /\ turn \in 1 .. Hunts /\ blind \in BOOLEAN
    /\ tally \in [starts : 0 .. MaxStarts, trouble : 0 .. MaxTrouble]

\* The calls that run on the ledger of a day, and what they hold of it.
Reading(d) == {t \in Triages : spender[t].step \in {"call", "prefilter"} /\ day(t) = d}
Calling(d) == {t \in Reservers : spender[t].step = "call" /\ day(t) = d}
Reserved(d) == Worst * Cardinality(Calling(d))

\* The ledger of a day is never below what its answered calls cost and its
\* running ones hold, but for costs that could not be stored; and with
\* nothing failed or killed it is exactly that, whatever was cancelled, refused
\* or carried past midnight (budget_settle_micros, BudgetReservation).
LedgerCovers ==
    \A d \in Days :
       /\ spent[d] + missed[d] >= billed[d] + Reserved(d)
       /\ tally.trouble = 0 => spent[d] = billed[d] + Reserved(d)

Overrun == IF MaxCost > Worst THEN MaxCost - Worst ELSE 0

\* A day's ledger goes past the cap by no more than one call of each triage
\* task that runs at the same time, and by what the calls of the others cost
\* beyond their reservation (triage re-checks before every call;
\* budget_try_reserve_micros).
CapBound ==
    \A d \in Days :
       spent[d] + MaxCost * Cardinality(Reading(d)) + Overrun * Cardinality(Calling(d))
          <= Cap + MaxCost * Cardinality(Triages) + Overrun * Cardinality(Reservers)

\* Two reported runs of a scheduled hunt are schedule_secs apart, restarts in
\* between or not: a restart does not replay the hunt book (hunt_loop), as long
\* as it could list the reports.
HuntsSpaced ==
    blind \/ \A r, s \in reports :
                r.hunt = s.hunt /\ r.hunt > 0 /\ r.at < s.at => s.at - r.at >= schedule_secs

\* A hunt that is due gets its run, whatever the model does in the run of
\* another: a call that hangs does not stall the schedule (hunt_loop).
DueHuntRuns == \A h \in 1 .. Hunts : Due(h) ~> ~Due(h)
=============================================================================
