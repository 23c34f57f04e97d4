---------------------------- MODULE Spend_proofs ----------------------------
(***************************************************************************)
(* The day's budget for every number of hunts, questions and triages, every *)
(* cap, price and clock.  The ledger of a day covers what was answered and *)
(* what is held, and goes past the cap by a known amount at most: both     *)
(* rest on the invariant that every reservation is on the ledger until it  *)
(* is settled.  The hunt book is not replayed, because the schedule a      *)
(* process starts from knows every report.                                 *)
(***************************************************************************)
EXTENDS Integers, Spend, FiniteSetTheorems, WellFoundedInduction, TLAPS

-----------------------------------------------------------------------------
(* Counting *)

\* A set of numbers has a least element.
LEMMA NatMin ==
    ASSUME NEW T, T \subseteq Nat, T # {}
    PROVE  \E x \in T : \A y \in T : x <= y
<1> DEFINE R == OpToRel(<, Nat)
<1>1. IsWellFoundedOn(R, Nat)
  BY Zenon, NatLessThanWellFounded
<1>2. PICK x \in T : \A y \in T : ~ (<<y, x>> \in R)
  BY Zenon, <1>1, WFMin
<1>3. R = {ss \in Nat \X Nat : ss[1] < ss[2]}
  BY Zenon DEF OpToRel
<1> HIDE DEF R
<1>4. \A y \in T : x <= y
  <2> TAKE y \in T
  <2>1. ~ (<<y, x>> \in {ss \in Nat \X Nat : ss[1] < ss[2]})
    BY Zenon, <1>2, <1>3
  <2> QED BY <2>1
<1> QED BY Zenon, <1>4

\* A finite set of numbers has a greatest element.
LEMMA FiniteMax ==
    ASSUME NEW S, S \subseteq Int, S # {}, IsFiniteSet(S)
    PROVE  \E x \in S : \A y \in S : y <= x
<1> DEFINE Bad == {n \in Nat : \E T \in SUBSET S : T # {} /\ Cardinality(T) = n /\ \A x \in T : \E y \in T : ~(y <= x)}
<1>1. Bad = {}
  <2> SUFFICES ASSUME Bad # {} PROVE FALSE
    BY Zenon
  <2>1. PICK n \in Bad : \A k \in Bad : n <= k
    BY Zenon, NatMin, Bad \subseteq Nat
  <2>2. PICK T \in SUBSET S : T # {} /\ Cardinality(T) = n /\ \A x \in T : \E y \in T : ~(y <= x)
    BY Zenon, <2>1
  <2>3. PICK a \in T : TRUE
    BY Zenon, <2>2
  <2>4. IsFiniteSet(T)
    BY Zenon, FS_Subset
  <2>5. IsFiniteSet(T \ {a}) /\ Cardinality(T \ {a}) = n - 1 /\ n \in Nat
    BY Zenon, <2>4, <2>2, <2>3, FS_RemoveElement, FS_CardinalityType
  <2>6. T \ {a} # {}
    BY <2>2, <2>3
  <2>7. n - 1 \in Nat
    BY Zenon, <2>5, FS_CardinalityType
  <2>8. n - 1 \notin Bad
    BY <2>1, <2>5
  <2>9. PICK m \in T \ {a} : \A y \in T \ {a} : y <= m
    BY Zenon, <2>8, <2>7, <2>6, <2>5
  <2>10. m \in Int /\ a \in Int /\ T \subseteq Int
    BY Zenon
  <2> QED BY <2>2, <2>9, <2>10
<1>2. Cardinality(S) \in Nat /\ Cardinality(S) \notin Bad
  BY Zenon, <1>1, FS_CardinalityType
<1> HIDE DEF Bad
<1>3. SUFFICES ASSUME ~ \E x \in S : \A y \in S : y <= x PROVE FALSE
  BY Zenon
<1> QED BY Zenon, <1>2, <1>3 DEF Bad

\* Products with a count, one element more, one less, or bounded.
LEMMA Scaled ==
    ASSUME NEW w \in Nat, NEW n \in Nat, NEW k \in Nat
    PROVE  /\ w * n \in Nat
           /\ w * (n + 1) = w * n + w
           /\ n <= k => w * n <= w * k
<1>1. w * n \in Nat /\ w * (n + 1) = w * n + w
  OBVIOUS
<1>2. ASSUME n <= k PROVE w * n <= w * k
  <2>1. PICK m \in Nat : k = n + m
    BY <1>2, k - n \in Nat, k = n + (k - n)
  <2>2. w * k = w * n + w * m /\ w * m \in Nat
    BY <2>1
  <2> QED BY <2>2
<1> QED BY Zenon, <1>1, <1>2

Share(w, t, S) == IF t \in S THEN w ELSE 0

\* What one element does to the weighted count of a set.
LEMMA Weighed ==
    ASSUME NEW S, NEW T, NEW t, NEW w \in Nat, IsFiniteSet(S), T \ {t} = S \ {t}
    PROVE  /\ IsFiniteSet(T)
           /\ w * Cardinality(S) \in Nat /\ w * Cardinality(T) \in Nat
           /\ w * Cardinality(T) = w * Cardinality(S) - Share(w, t, S) + Share(w, t, T)
<1> DEFINE R == S \ {t}
<1>1. IsFiniteSet(R) /\ t \notin R /\ Cardinality(R) \in Nat
  BY Zenon, FS_Subset, FS_CardinalityType
<1>2. IsFiniteSet(R \cup {t}) /\ Cardinality(R \cup {t}) = Cardinality(R) + 1
  BY Zenon, <1>1, FS_AddElement
<1>3. w * Cardinality(R) \in Nat /\ w * (Cardinality(R) + 1) = w * Cardinality(R) + w
  BY Zenon, <1>1, Scaled
<1>4. S = (IF t \in S THEN R \cup {t} ELSE R) /\ T = (IF t \in T THEN R \cup {t} ELSE R)
  BY Zenon
<1> HIDE DEF R
<1>6. CASE t \in S /\ t \in T
  <2>1. S = R \cup {t} /\ T = S
    BY Zenon, <1>4, <1>6
  <2>2. w * Cardinality(S) \in Nat
    BY <1>2, <1>3, <2>1
  <2> QED BY <1>6, <2>1, <2>2 DEF Share
<1>7. CASE t \in S /\ t \notin T
  <2>1. S = R \cup {t} /\ T = R
    BY Zenon, <1>4, <1>7
  <2>2. w * Cardinality(S) = w * Cardinality(T) + w
    BY Zenon, <1>2, <1>3, <2>1
  <2> QED BY <1>1, <1>3, <1>7, <2>1, <2>2 DEF Share
<1>8. CASE t \notin S /\ t \in T
  <2>1. S = R /\ T = R \cup {t}
    BY Zenon, <1>4, <1>8
  <2>2. w * Cardinality(T) = w * Cardinality(S) + w
    BY Zenon, <1>2, <1>3, <2>1
  <2>3. IsFiniteSet(T)
    BY Zenon, <1>2, <2>1
  <2> QED BY <1>1, <1>3, <1>8, <2>1, <2>2, <2>3 DEF Share
<1>9. CASE t \notin S /\ t \notin T
  BY <1>1, <1>2, <1>3, <1>4, <1>9 DEF Share
<1> QED BY Zenon, <1>6, <1>7, <1>8, <1>9

-----------------------------------------------------------------------------
(* The tasks that spend *)

\* The turn goes round the hunts.
LEMMA TurnsRound == turn \in 1 .. Hunts => (turn % Hunts) + 1 \in 1 .. Hunts
  BY SpendAssumption

\* How a step of a task leaves it, whichever way it ends.
LEMMA TaskMoves ==
    ASSUME SpendTypeOK, NEW t \in Spenders, NEW step \in Step \ {"call"},
           EndTask(t) \/ GoOn(t, step) \/ (GoOn(t, "gate") \/ Finish(t))
    PROVE  /\ turn' \in 1 .. Hunts
           /\ \E x \in Task : /\ spender' = [spender EXCEPT ![t] = x]
                              /\ x.step # "call" /\ x.held = 0
                              /\ x.step = step \/ x.step \in {"idle", "gate", "report"}
<1> USE SpendAssumption DEF SpendTypeOK, Step
<1>1. ASSUME NEW s \in Step \ {"call"}, GoOn(t, s)
      PROVE  \E x \in Task : /\ spender' = [spender EXCEPT ![t] = x]
                             /\ x.step = s /\ x.held = 0
  <2> DEFINE x == [spender[t] EXCEPT !.step = s, !.held = 0]
  <2>1. x \in Task /\ x.step = s /\ x.held = 0
    BY ZenonT(60) DEF Task
  <2>2. spender' = [spender EXCEPT ![t] = x]
    BY Zenon, <1>1 DEF GoOn
  <2> QED BY Zenon, <2>1, <2>2
<1>2. ASSUME EndTask(t)
      PROVE  \E x \in Task : spender' = [spender EXCEPT ![t] = x] /\ x.step = "idle" /\ x.held = 0
  <2>1. Resting \in Task /\ Resting.step = "idle" /\ Resting.held = 0
    BY DEF Resting, Task
  <2> QED BY Zenon, <1>2, <2>1 DEF EndTask
<1>3. turn' \in 1 .. Hunts
  BY Zenon, TurnsRound DEF EndTask, GoOn, Finish
<1>4. CASE EndTask(t)
  BY Zenon, <1>2, <1>3, <1>4
<1>5. CASE GoOn(t, step)
  BY Zenon, <1>1, <1>3, <1>5
<1>6. CASE GoOn(t, "gate")
  BY Zenon, <1>1, <1>3, <1>6
<1>7. CASE Finish(t)
  BY Zenon, <1>1, <1>2, <1>3, <1>7 DEF Finish
<1> QED BY Zenon, <1>4, <1>5, <1>6, <1>7

\* How a call leaves its task.
LEMMA CallMoves ==
    ASSUME SpendTypeOK, NEW t \in Spenders, NEW w \in {0, Worst}, StartCall(t, w)
    PROVE  /\ UNCHANGED turn
           /\ \E x \in Task : /\ spender' = [spender EXCEPT ![t] = x]
                              /\ x.step = "call" /\ x.held = w /\ x.at = spender[t].at
<1> DEFINE x == [step |-> "call", at |-> spender[t].at, calls |-> spender[t].calls + 1, held |-> w]
<1>1. spender[t].at \in 0 .. MaxTime /\ spender[t].calls + 1 \in Nat
  BY DEF SpendTypeOK, Task
<1>2. x \in Task
  BY Zenon, <1>1 DEF Task, Step
<1>3. UNCHANGED turn /\ spender' = [spender EXCEPT ![t] = x]
  BY Zenon DEF StartCall
<1> QED BY Zenon, <1>2, <1>3

\* The time is on a day of the ledger, and so is every task.
LEMMA OnADay == SpendTypeOK => Day(hour) \in Days /\ \A t \in Spenders : day(t) \in Days
  BY Zenon DEF SpendTypeOK, Task, Days, day

\* What is left of the types when one task has moved.
LEMMA TaskTyped ==
    ASSUME SpendTypeOK, NEW t \in Spenders, NEW x \in Task,
           spender' = [spender EXCEPT ![t] = x],
           x.held = IF t \in Reservers /\ x.step = "call" THEN Worst ELSE 0
    PROVE  /\ spender' \in [Spenders -> Task]
           /\ \A u \in Spenders :
                 spender'[u].held = IF u \in Reservers /\ spender'[u].step = "call" THEN Worst ELSE 0
<1>1. spender' \in [Spenders -> Task]
  BY Zenon DEF SpendTypeOK
<1>2. ASSUME NEW u \in Spenders
      PROVE  spender'[u].held = IF u \in Reservers /\ spender'[u].step = "call" THEN Worst ELSE 0
  <2>1. CASE u = t
    BY Zenon, <2>1 DEF SpendTypeOK
  <2>2. CASE u # t
    BY Zenon, <2>2 DEF SpendTypeOK
  <2> QED BY Zenon, <2>1, <2>2
<1> QED BY Zenon, <1>1, <1>2

\* The count of starts and troubles keeps its type.
LEMMA TallyTyped ==
    ASSUME SpendTypeOK, Started \/ Faulty \/ Sound
    PROVE  tally' \in [starts : 0 .. MaxStarts, trouble : 0 .. MaxTrouble]
<1>0. /\ tally \in [starts : 0 .. MaxStarts, trouble : 0 .. MaxTrouble]
      /\ MaxStarts \in Nat /\ MaxTrouble \in Nat
  BY Zenon, SpendAssumption DEF SpendTypeOK
<1>1. CASE Started
  <2>1. tally.starts \in 0 .. MaxStarts /\ tally.starts < MaxStarts
    BY Zenon, <1>0, <1>1 DEF Started
  <2>2. tally.starts + 1 \in 0 .. MaxStarts
    BY <1>0, <2>1
  <2> QED BY Zenon, <1>0, <1>1, <2>2 DEF Started
<1>2. CASE Faulty
  <2>1. tally.trouble \in 0 .. MaxTrouble /\ tally.trouble < MaxTrouble
    BY Zenon, <1>0, <1>2 DEF Faulty
  <2>2. tally.trouble + 1 \in 0 .. MaxTrouble
    BY <1>0, <2>1
  <2> QED BY Zenon, <1>0, <1>2, <2>2 DEF Faulty
<1> QED BY Zenon, <1>0, <1>1, <1>2 DEF Sound


\* Every step keeps the types.
LEMMA SpendTypeStep ==
    SpendTypeOK /\ [SpendNext]_spendVars => SpendTypeOK'
<1> SUFFICES ASSUME SpendTypeOK, [SpendNext]_spendVars PROVE SpendTypeOK'
  BY Zenon
<1> USE SpendAssumption
<1> DEFINE Rest == /\ hour \in 0 .. MaxTime
                   /\ reports \subseteq [hunt : 0 .. Hunts, at : 0 .. MaxTime]
                   /\ last_run \in [1 .. Hunts -> SUBSET (0 .. MaxTime)]
                   /\ blind \in BOOLEAN
           Money == spent \in [Days -> Nat] /\ billed \in [Days -> Nat] /\ missed \in [Days -> Nat]
           Tasks == /\ spender \in [Spenders -> Task]
                    /\ \A t \in Spenders :
                         spender[t].held = IF t \in Reservers /\ spender[t].step = "call" THEN Worst ELSE 0
           Tally == tally \in [starts : 0 .. MaxStarts, trouble : 0 .. MaxTrouble]
           Turn == turn \in 1 .. Hunts
<1>0. Rest /\ Money /\ Tasks /\ Tally /\ Turn
  BY Zenon DEF SpendTypeOK
<1>g. SUFFICES Rest' /\ Money' /\ Tasks' /\ Tally' /\ Turn'
  BY Zenon DEF SpendTypeOK
<1>n. /\ Resting \in Task /\ Resting.step = "idle" /\ Resting.held = 0
      /\ NewTask \in Task /\ NewTask.step = "gate" /\ NewTask.held = 0
  BY <1>0 DEF Resting, NewTask, Task, Step
<1>1. CASE Visit
  <2>1. Rest' /\ Money' /\ Tally' /\ Turn'
    <3>1. {hour} \in SUBSET (0 .. MaxTime)
      BY Zenon, <1>0
    <3>2. [last_run EXCEPT ![turn] = {hour}] \in [1 .. Hunts -> SUBSET (0 .. MaxTime)]
      BY Zenon, <1>0, <3>1
    <3> QED BY Zenon, <1>0, <1>1, <3>2, TurnsRound DEF Visit, money
  <2>2. CASE spender' = spender
    BY Zenon, <1>0, <2>1, <2>2
  <2>3. CASE spender' = [spender EXCEPT !["loop"] = NewTask]
    BY Zenon, <1>n, <2>1, <2>3, TaskTyped DEF Spenders, Reservers
  <2> QED BY Zenon, <1>1, <2>2, <2>3 DEF Visit
<1>2. CASE Restarted
  <2>1. Rest'
    <3>1. ASSUME NEW h \in 1 .. Hunts PROVE ScheduleSeed[h] \in SUBSET (0 .. MaxTime)
      <4>1. \A r \in reports : r.at \in 0 .. MaxTime
        BY Zenon, <1>0
      <4> QED BY Zenon, <4>1 DEF ScheduleSeed
    <3>2. ScheduleSeed \in [1 .. Hunts -> SUBSET (0 .. MaxTime)]
      BY Zenon, <3>1 DEF ScheduleSeed
    <3>3. [h \in 1 .. Hunts |-> {}] \in [1 .. Hunts -> SUBSET (0 .. MaxTime)]
      BY Zenon
    <3> QED BY Zenon, <1>0, <1>2, <3>2, <3>3 DEF Restarted
  <2>2. Money' /\ Turn'
    BY <1>0, <1>2 DEF Restarted, money
  <2>3. Tally'
    BY Zenon, <1>2, TallyTyped DEF Restarted
  <2>4. Tasks'
    BY Zenon, <1>2, <1>n DEF Restarted
  <2> QED BY Zenon, <2>1, <2>2, <2>3, <2>4
<1>3. CASE Tick
  BY <1>0, <1>3 DEF Tick, money, schedule
<1>4. ASSUME NEW t \in Spenders, SpendRequest(t) PROVE Rest' /\ Money' /\ Tasks' /\ Tally' /\ Turn'
  BY Zenon, <1>0, <1>4, <1>n, TaskTyped, TallyTyped DEF SpendRequest, money, schedule
<1>5. ASSUME NEW t \in Spenders, budget_reserve(t) PROVE Rest' /\ Money' /\ Tasks' /\ Tally' /\ Turn'
  <2>1. Rest' /\ Tally'
    BY Zenon, <1>0, <1>5 DEF budget_reserve
  <2>2. CASE spent[day(t)] + Worst <= Cap
    <3>1. StartCall(t, Worst) /\ t \in Reservers
      BY Zenon, <1>5, <2>2 DEF budget_reserve
    <3>2. PICK x \in Task : spender' = [spender EXCEPT ![t] = x] /\ x.step = "call" /\ x.held = Worst
      BY Zenon, <3>1, CallMoves
    <3>3. Tasks'
      BY Zenon, <3>1, <3>2, TaskTyped
    <3>4. Money' /\ Turn'
      <4>1. spent' = [spent EXCEPT ![day(t)] = @ + Worst] /\ UNCHANGED <<billed, missed, turn>>
        BY Zenon, <1>5, <2>2 DEF budget_reserve, StartCall
      <4>2. spent' \in [Days -> Nat]
        <5>1. day(t) \in Days /\ spent[day(t)] \in Nat /\ Worst \in Nat
          BY Zenon, <1>0, OnADay
        <5>2. spent[day(t)] + Worst \in Nat
          BY <5>1
        <5> QED BY Zenon, <1>0, <4>1, <5>1, <5>2
      <4> QED BY Zenon, <1>0, <4>1, <4>2
    <3> QED BY Zenon, <2>1, <3>3, <3>4
  <2>3. CASE ~(spent[day(t)] + Worst <= Cap)
    <3>1. Finish(t) /\ Money'
      BY Zenon, <1>0, <1>5, <2>3 DEF budget_reserve
    <3>2. Tasks' /\ Turn'
      BY <3>1, TaskMoves, TaskTyped, "gate" \in Step \ {"call"} DEF Step
    <3> QED BY Zenon, <2>1, <3>1, <3>2
  <2> QED BY Zenon, <2>2, <2>3
<1>6. ASSUME NEW t \in Spenders, StopCalling(t) PROVE Rest' /\ Money' /\ Tasks' /\ Tally' /\ Turn'
  <2>1. Rest' /\ Money'
    BY Zenon, <1>0, <1>6 DEF StopCalling, money
  <2>2. Tally'
    BY Zenon, <1>6, TallyTyped DEF StopCalling
  <2>3. Tasks' /\ Turn'
    BY <1>6, TaskMoves, TaskTyped DEF StopCalling, Step
  <2> QED BY Zenon, <2>1, <2>2, <2>3
<1>s. ASSUME NEW t \in Spenders, NEW c \in Nat, budget_settle_micros(t, c) \/ budget_add_micros(t, c)
      PROVE  spent' \in [Days -> Nat]
  <2>1. day(t) \in Days /\ spender[t].held \in Nat /\ spent[day(t)] \in Nat
    <3>1. day(t) \in Days /\ spender[t].held \in {0, Worst} /\ Worst \in Nat
      BY Zenon, <1>0, OnADay DEF Task
    <3>2. spender[t].held \in Nat
      BY <3>1
    <3> QED BY Zenon, <1>0, <3>1, <3>2
  <2>2. CASE budget_settle_micros(t, c)
    <3> DEFINE v == (IF spent[day(t)] > spender[t].held THEN spent[day(t)] - spender[t].held ELSE 0) + c
    <3>1. v \in Nat
      BY <2>1
    <3>2. spent' = [spent EXCEPT ![day(t)] = v]
      BY Zenon, <2>2 DEF budget_settle_micros
    <3> QED BY Zenon, <1>0, <3>1, <3>2
  <2>3. CASE budget_add_micros(t, c)
    BY <1>0, <2>1, <2>3 DEF budget_add_micros
  <2> QED BY Zenon, <1>s, <2>2, <2>3
<1>b. ASSUME NEW t \in Spenders, NEW c \in Costs, Bill(t, c)
      PROVE  billed' \in [Days -> Nat] /\ c \in Nat
  <2>1. day(t) \in Days /\ billed[day(t)] \in Nat /\ c \in 0 .. MaxCost /\ MaxCost \in Nat
    BY Zenon, <1>0, OnADay
  <2>2. c \in Nat /\ billed[day(t)] + c \in Nat
    BY <2>1
  <2> QED BY Zenon, <1>0, <1>b, <2>1, <2>2 DEF Bill
<1>7. ASSUME NEW t \in Spenders, ModelAnswers(t) PROVE Rest' /\ Money' /\ Tasks' /\ Tally' /\ Turn'
  <2>1. Rest'
    BY Zenon, <1>0, <1>7 DEF ModelAnswers
  <2>2. Tasks' /\ Turn'
    BY <1>7, TaskMoves, TaskTyped DEF ModelAnswers, Step
  <2>3. PICK cost \in Costs :
          /\ Bill(t, cost)
          /\ \/ budget_settle_micros(t, cost) /\ UNCHANGED <<missed, tally>>
             \/ /\ UNCHANGED spent /\ Faulty
                /\ missed' = [missed EXCEPT ![day(t)] = @ + (IF cost > spender[t].held THEN cost - spender[t].held ELSE 0)]
    BY Zenon, <1>7 DEF ModelAnswers
  <2>4. cost \in Nat /\ billed' \in [Days -> Nat]
    BY Zenon, <1>b, <2>3
  <2>5. spender[t].held \in Nat
    BY <1>0 DEF Task
  <2>6. spent' \in [Days -> Nat]
    BY Zenon, <1>0, <1>s, <2>3, <2>4
  <2>8. missed' \in [Days -> Nat]
    <3> DEFINE v == IF cost > spender[t].held THEN cost - spender[t].held ELSE 0
    <3>1. v \in Nat
      BY <2>4, <2>5
    <3>2. UNCHANGED missed \/ missed' = [missed EXCEPT ![day(t)] = @ + v]
      BY Zenon, <2>3
    <3> HIDE DEF v
    <3>3. missed \in [Days -> Nat] /\ day(t) \in Days
      BY Zenon, <1>0, OnADay
    <3>4. [missed EXCEPT ![day(t)] = @ + v] \in [Days -> Nat]
      BY <3>1, <3>3
    <3> QED BY Zenon, <3>2, <3>3, <3>4
  <2>7. Tally'
    BY Zenon, <1>0, <2>3, TallyTyped
  <2> QED BY Zenon, <2>1, <2>2, <2>4, <2>6, <2>7, <2>8
<1>r. ASSUME NEW t \in Spenders, Refund(t)
      PROVE  Tally' /\ spent' \in [Days -> Nat]
  BY Zenon, <1>0, <1>r, <1>s, TallyTyped DEF Refund
<1>8. ASSUME NEW t \in Spenders, CallFails(t) \/ Cancel(t) PROVE Rest' /\ Money' /\ Tasks' /\ Tally' /\ Turn'
  <2>1. Rest' /\ Money' /\ Tally'
    BY Zenon, <1>0, <1>8, <1>r DEF CallFails, Cancel
  <2>2. Tasks' /\ Turn'
    BY <1>8, TaskMoves, TaskTyped DEF CallFails, Cancel, Step
  <2> QED BY Zenon, <2>1, <2>2
<1>9. ASSUME NEW t \in Spenders, Report(t) PROVE Rest' /\ Money' /\ Tasks' /\ Tally' /\ Turn'
  <2>1. Money'
    BY Zenon, <1>0, <1>9 DEF Report, money
  <2>2. Rest'
    <3>1. ASSUME NEW h \in 0 .. Hunts PROVE [hunt |-> h, at |-> spender[t].at] \in [hunt : 0 .. Hunts, at : 0 .. MaxTime]
      BY Zenon, <1>0 DEF Task
    <3>2. (IF t = "loop" THEN turn ELSE 0) \in 0 .. Hunts
      BY <1>0
    <3>3. reports' = reports \/ reports' = reports \cup {[hunt |-> IF t = "loop" THEN turn ELSE 0, at |-> spender[t].at]}
      BY Zenon, <1>9 DEF Report
    <3>4. UNCHANGED <<hour, last_run, blind>>
      BY Zenon, <1>9 DEF Report
    <3> QED BY Zenon, <1>0, <3>1, <3>2, <3>3, <3>4
  <2>3. Tally'
    BY Zenon, <1>9, TallyTyped DEF Report
  <2>4. Tasks' /\ Turn'
    BY <1>9, TaskMoves, TaskTyped DEF Report, Step
  <2> QED BY Zenon, <2>1, <2>2, <2>3, <2>4
<1>10. ASSUME NEW t \in Spenders, StartTriage(t) PROVE Rest' /\ Money' /\ Tasks' /\ Tally' /\ Turn'
  <2>1. Rest' /\ Money' /\ Turn'
    BY Zenon, <1>0, <1>10 DEF StartTriage, money, schedule
  <2>2. Tally'
    BY Zenon, <1>10, TallyTyped DEF StartTriage
  <2>3. PICK step \in {"prefilter", "gate"} : spender' = [spender EXCEPT ![t] = [NewTask EXCEPT !.step = step]]
    BY Zenon, <1>10 DEF StartTriage
  <2> DEFINE x == [NewTask EXCEPT !.step = step]
  <2>4. x \in Task /\ x.step # "call" /\ x.held = 0
    BY Zenon, <1>n, <2>3 DEF Task, Step
  <2>5. Tasks'
    <3> HIDE DEF x
    <3>1. spender' = [spender EXCEPT ![t] = x]
      BY Zenon, <2>3 DEF x
    <3> QED BY Zenon, <2>4, <3>1, TaskTyped
  <2> QED BY Zenon, <2>1, <2>2, <2>5
<1>11. ASSUME NEW t \in Spenders, Check(t) PROVE Rest' /\ Money' /\ Tasks' /\ Tally' /\ Turn'
  <2>1. Rest' /\ Money' /\ Tally'
    BY Zenon, <1>0, <1>11 DEF Check, money
  <2>2. CASE EndTask(t)
    <3>1. Tasks' /\ Turn'
      BY <2>2, TaskMoves, TaskTyped, "gate" \in Step \ {"call"} DEF Step
    <3> QED BY Zenon, <2>1, <3>1
  <2>3. CASE StartCall(t, 0)
    <3>1. t \notin Reservers
      BY Zenon, <1>11 DEF Check
    <3>2. PICK x \in Task : spender' = [spender EXCEPT ![t] = x] /\ x.held = 0
      BY Zenon, <2>3, CallMoves
    <3>3. Tasks' /\ Turn'
      BY Zenon, <1>0, <2>3, <3>1, <3>2, TaskTyped, CallMoves
    <3> QED BY Zenon, <2>1, <3>3
  <2> QED BY Zenon, <1>11, <2>2, <2>3 DEF Check
<1>12. ASSUME NEW t \in Spenders, TriageAnswer(t) PROVE Rest' /\ Money' /\ Tasks' /\ Tally' /\ Turn'
  <2>1. Rest'
    BY Zenon, <1>0, <1>12 DEF TriageAnswer
  <2>2. Tasks' /\ Turn'
    BY <1>12, TaskMoves, TaskTyped DEF TriageAnswer, Step
  <2>3. PICK cost \in Costs :
          /\ Bill(t, cost)
          /\ \/ budget_add_micros(t, cost) /\ UNCHANGED <<missed, tally>>
             \/ /\ UNCHANGED spent /\ Faulty
                /\ missed' = [missed EXCEPT ![day(t)] = @ + cost]
    BY Zenon, <1>12 DEF TriageAnswer
  <2>4. cost \in Nat /\ billed' \in [Days -> Nat]
    BY Zenon, <1>b, <2>3
  <2>5. spent' \in [Days -> Nat]
    BY Zenon, <1>0, <1>s, <2>3, <2>4
  <2>8. missed' \in [Days -> Nat]
    <3>1. missed \in [Days -> Nat] /\ day(t) \in Days
      BY Zenon, <1>0, OnADay
    <3>2. [missed EXCEPT ![day(t)] = @ + cost] \in [Days -> Nat]
      BY <2>4, <3>1
    <3> QED BY Zenon, <2>3, <3>1, <3>2
  <2>6. Tally'
    BY Zenon, <1>0, <2>3, TallyTyped
  <2> QED BY Zenon, <2>1, <2>2, <2>4, <2>5, <2>6, <2>8
<1>13. ASSUME NEW t \in Spenders, TriageCallFails(t) PROVE Rest' /\ Money' /\ Tasks' /\ Tally' /\ Turn'
  <2>1. Rest' /\ Money' /\ Tally'
    BY Zenon, <1>0, <1>13 DEF TriageCallFails, money
  <2>2. Tasks' /\ Turn'
    BY <1>13, TaskMoves, TaskTyped DEF TriageCallFails, Step
  <2> QED BY Zenon, <2>1, <2>2
<1>14. CASE UNCHANGED spendVars
  BY Zenon, <1>0, <1>14 DEF spendVars, money, schedule
<1> HIDE DEF Rest, Money, Tasks, Tally, Turn
<1> QED
  BY Zenon, <1>1, <1>2, <1>3, <1>4, <1>5, <1>6, <1>7, <1>8, <1>9, <1>10, <1>11, <1>12, <1>13, <1>14
  DEF SpendNext

-----------------------------------------------------------------------------
(* The ledger of a day *)

Reads(d) == MaxCost * Cardinality(Reading(d))
Overruns(d) == Overrun * Cardinality(Calling(d))
MaxReads == MaxCost * Cardinality(Triages)
MaxOverruns == Overrun * Cardinality(Reservers)

\* The invariant of one day: the reservations are on the ledger, which makes
\* the subtraction of a settlement exact; with it the two properties.
DayInv(d) ==
    /\ Reserved(d) <= spent[d]
    /\ spent[d] + missed[d] >= billed[d] + Reserved(d)
    /\ tally.trouble = 0 => spent[d] = billed[d] + Reserved(d)
    /\ spent[d] + Reads(d) + Overruns(d) <= Cap + MaxReads + MaxOverruns

BudgetInv == \A d \in Days : DayInv(d)

\* The weights of a day are numbers, and those of its calls are bounded.
LEMMA Weights ==
    ASSUME NEW d
    PROVE  /\ IsFiniteSet(Reading(d)) /\ IsFiniteSet(Calling(d))
           /\ Reserved(d) \in Nat /\ Reads(d) \in Nat /\ Overruns(d) \in Nat
           /\ Overrun \in Nat /\ MaxReads \in Nat /\ MaxOverruns \in Nat
           /\ Reads(d) <= MaxReads /\ Overruns(d) <= MaxOverruns
<1>1. IsFiniteSet(Reservers)
  <2>1. IsFiniteSet({"hunt"} \cup ({"ask"} \cup ({"author"} \cup {"loop"})))
    BY Zenon, FS_Singleton, FS_Union
  <2>2. Reservers \subseteq {"hunt"} \cup ({"ask"} \cup ({"author"} \cup {"loop"}))
    BY Zenon, SpendAssumption DEF Reservers
  <2> QED BY Zenon, <2>1, <2>2, FS_Subset
<1>2. Reading(d) \subseteq Triages /\ Calling(d) \subseteq Reservers
  BY Zenon DEF Reading, Calling
<1>3. /\ IsFiniteSet(Reading(d)) /\ Cardinality(Reading(d)) <= Cardinality(Triages)
      /\ IsFiniteSet(Calling(d)) /\ Cardinality(Calling(d)) <= Cardinality(Reservers)
  BY Zenon, <1>1, <1>2, FS_Subset, SpendAssumption
<1>4. /\ Cardinality(Reading(d)) \in Nat /\ Cardinality(Triages) \in Nat
      /\ Cardinality(Calling(d)) \in Nat /\ Cardinality(Reservers) \in Nat
  BY Zenon, <1>1, <1>3, FS_CardinalityType, SpendAssumption
<1>5. Overrun \in Nat /\ Worst \in Nat /\ MaxCost \in Nat
  BY SpendAssumption DEF Overrun
<1> QED BY Zenon, <1>3, <1>4, <1>5, Scaled DEF Reserved, Reads, Overruns, MaxReads, MaxOverruns

\* What the move of one task does to the weights of a day.
LEMMA Moved ==
    ASSUME SpendTypeOK, NEW t \in Spenders, NEW x \in Task, NEW d,
           spender' = [spender EXCEPT ![t] = x]
    PROVE  /\ Reserved(d)' = Reserved(d) - Share(Worst, t, Calling(d)) + Share(Worst, t, Calling(d)')
           /\ Overruns(d)' = Overruns(d) - Share(Overrun, t, Calling(d)) + Share(Overrun, t, Calling(d)')
           /\ Reads(d)' = Reads(d) - Share(MaxCost, t, Reading(d)) + Share(MaxCost, t, Reading(d)')
           /\ t \in Calling(d)' <=> t \in Reservers /\ x.step = "call" /\ Day(x.at) = d
           /\ t \in Reading(d)' <=> t \in Triages /\ x.step \in {"call", "prefilter"} /\ Day(x.at) = d
           /\ Reserved(d)' \in Nat /\ Overruns(d)' \in Nat /\ Reads(d)' \in Nat
<1>1. Calling(d)' = {u \in Reservers : spender'[u].step = "call" /\ Day(spender'[u].at) = d}
  BY Zenon DEF Calling, day
<1>2. Reading(d)' = {u \in Triages : spender'[u].step \in {"call", "prefilter"} /\ Day(spender'[u].at) = d}
  BY Zenon DEF Reading, day
<1>3. spender'[t] = x /\ \A u \in Spenders : u # t => spender'[u] = spender[u]
  BY Zenon DEF SpendTypeOK
<1>4. Calling(d)' \ {t} = Calling(d) \ {t} /\ Reading(d)' \ {t} = Reading(d) \ {t}
  BY Zenon, <1>1, <1>2, <1>3 DEF Calling, Reading, day, Spenders
<1>5. t \in Calling(d)' <=> t \in Reservers /\ x.step = "call" /\ Day(x.at) = d
  BY Zenon, <1>1, <1>3
<1>6. t \in Reading(d)' <=> t \in Triages /\ x.step \in {"call", "prefilter"} /\ Day(x.at) = d
  BY Zenon, <1>2, <1>3
<1>7. Worst \in Nat /\ Overrun \in Nat /\ MaxCost \in Nat /\ IsFiniteSet(Reading(d)) /\ IsFiniteSet(Calling(d))
  BY Zenon, Weights, SpendAssumption
<1>8. /\ Worst * Cardinality(Calling(d)') = Worst * Cardinality(Calling(d)) - Share(Worst, t, Calling(d)) + Share(Worst, t, Calling(d)')
      /\ Worst * Cardinality(Calling(d)') \in Nat
  BY <1>4, <1>7, Weighed
<1>9. /\ Overrun * Cardinality(Calling(d)') = Overrun * Cardinality(Calling(d)) - Share(Overrun, t, Calling(d)) + Share(Overrun, t, Calling(d)')
      /\ Overrun * Cardinality(Calling(d)') \in Nat
  BY <1>4, <1>7, Weighed
<1>10. /\ MaxCost * Cardinality(Reading(d)') = MaxCost * Cardinality(Reading(d)) - Share(MaxCost, t, Reading(d)) + Share(MaxCost, t, Reading(d)')
       /\ MaxCost * Cardinality(Reading(d)') \in Nat
  BY <1>4, <1>7, Weighed
<1> QED
  BY Zenon, <1>5, <1>6, <1>8, <1>9, <1>10 DEF Reserved, Overruns, Reads, Overrun

\* The bounds of the weights hold in the next state as well.
LEMMA NextWeights ==
    ASSUME NEW d
    PROVE  Reads(d)' <= MaxReads /\ Overruns(d)' <= MaxOverruns
<1>1. (Reads(d) <= MaxReads /\ Overruns(d) <= MaxOverruns)'
  BY Weights, PTL
<1> QED BY Zenon, <1>1 DEF MaxReads, MaxOverruns, Overrun

\* Trouble is counted, and nothing takes it back.
LEMMA Troubles ==
    ASSUME SpendTypeOK
    PROVE  /\ Faulty => tally'.trouble # 0
           /\ Started \/ Sound \/ UNCHANGED tally => tally'.trouble = tally.trouble
           /\ tally.trouble \in Nat
  BY DEF SpendTypeOK, Faulty, Started, Sound

\* The numbers of a day.
LEMMA DayTyped ==
    ASSUME SpendTypeOK, NEW d \in Days
    PROVE  spent[d] \in Nat /\ billed[d] \in Nat /\ missed[d] \in Nat
  BY Zenon DEF SpendTypeOK

\* A move that is not about a reservation leaves a day as it was, but for what
\* a triage no longer risks.
LEMMA QuietMove ==
    ASSUME SpendTypeOK, NEW t \in Spenders, NEW x \in Task, NEW d \in Days, DayInv(d),
           spender' = [spender EXCEPT ![t] = x],
           x.step \notin {"call", "prefilter"}, t \notin Calling(d),
           spent'[d] = spent[d], billed'[d] = billed[d], missed'[d] = missed[d],
           tally'.trouble = 0 => tally.trouble = 0
    PROVE  DayInv(d)'
<1>1. Share(MaxCost, t, Reading(d)) \in Nat
  BY Zenon, SpendAssumption DEF Share
<1>2. t \notin Calling(d)' /\ t \notin Reading(d)'
  BY Zenon, Moved
<1>3. /\ Share(Worst, t, Calling(d)) = 0 /\ Share(Worst, t, Calling(d)') = 0
      /\ Share(Overrun, t, Calling(d)) = 0 /\ Share(Overrun, t, Calling(d)') = 0
      /\ Share(MaxCost, t, Reading(d)') = 0
  BY Zenon, <1>2 DEF Share
<1>w. Reserved(d) \in Nat /\ Overruns(d) \in Nat /\ Reads(d) \in Nat /\ MaxReads \in Nat /\ MaxOverruns \in Nat
  BY Zenon, Weights
<1>m. /\ Reserved(d)' = Reserved(d) - Share(Worst, t, Calling(d)) + Share(Worst, t, Calling(d)')
      /\ Overruns(d)' = Overruns(d) - Share(Overrun, t, Calling(d)) + Share(Overrun, t, Calling(d)')
      /\ Reads(d)' = Reads(d) - Share(MaxCost, t, Reading(d)) + Share(MaxCost, t, Reading(d)')
      /\ Reads(d)' \in Nat
  BY ZenonT(60), Moved
<1>4. Reserved(d)' = Reserved(d) /\ Overruns(d)' = Overruns(d) /\ Reads(d)' <= Reads(d) /\ Reads(d)' \in Nat
  BY <1>1, <1>3, <1>w, <1>m
<1>5. MaxReads' = MaxReads /\ MaxOverruns' = MaxOverruns
  BY Zenon DEF MaxReads, MaxOverruns, Overrun
<1>6. spent[d] \in Nat /\ billed[d] \in Nat /\ missed[d] \in Nat /\ Cap \in Nat
  BY Zenon, DayTyped, SpendAssumption
<1> QED BY <1>4, <1>5, <1>6, <1>w DEF DayInv

\* The end of a call that had a reservation: what it leaves of the weights.
LEMMA CallEnds ==
    ASSUME SpendTypeOK, NEW t \in Reservers, NEW x \in Task, NEW d \in Days,
           spender' = [spender EXCEPT ![t] = x],
           x.step # "call", spender[t].step = "call"
    PROVE  /\ Reads(d)' = Reads(d)
           /\ d = day(t) => Reserved(d)' = Reserved(d) - Worst /\ Overruns(d)' = Overruns(d) - Overrun
           /\ d # day(t) => Reserved(d)' = Reserved(d) /\ Overruns(d)' = Overruns(d)
           /\ Reserved(d)' \in Nat /\ Overruns(d)' \in Nat
           /\ MaxReads' = MaxReads /\ MaxOverruns' = MaxOverruns
<1>1. t \in Spenders /\ t \notin Triages
  BY Zenon, SpendAssumption DEF Spenders
<1>2. t \notin Calling(d)' /\ t \notin Reading(d)' /\ t \notin Reading(d)
  BY Zenon, <1>1, Moved DEF Reading
<1>3. t \in Calling(d) <=> d = day(t)
  BY Zenon DEF Calling
<1>4. MaxReads' = MaxReads /\ MaxOverruns' = MaxOverruns
  BY Zenon DEF MaxReads, MaxOverruns, Overrun
<1>w. Reserved(d) \in Nat /\ Overruns(d) \in Nat /\ Reads(d) \in Nat /\ Worst \in Nat /\ Overrun \in Nat
  BY Zenon, Weights, SpendAssumption
<1>m. /\ Reserved(d)' = Reserved(d) - Share(Worst, t, Calling(d)) + Share(Worst, t, Calling(d)')
      /\ Overruns(d)' = Overruns(d) - Share(Overrun, t, Calling(d)) + Share(Overrun, t, Calling(d)')
      /\ Reads(d)' = Reads(d) - Share(MaxCost, t, Reading(d)) + Share(MaxCost, t, Reading(d)')
      /\ Reserved(d)' \in Nat /\ Overruns(d)' \in Nat
  BY Zenon, <1>1, Moved
<1>5. /\ Share(Worst, t, Calling(d)') = 0 /\ Share(Overrun, t, Calling(d)') = 0
      /\ Share(MaxCost, t, Reading(d)) = 0 /\ Share(MaxCost, t, Reading(d)') = 0
      /\ d = day(t) => Share(Worst, t, Calling(d)) = Worst /\ Share(Overrun, t, Calling(d)) = Overrun
      /\ d # day(t) => Share(Worst, t, Calling(d)) = 0 /\ Share(Overrun, t, Calling(d)) = 0
  BY Zenon, <1>2, <1>3 DEF Share
<1> QED BY <1>4, <1>5, <1>w, <1>m

\* A settlement: the reservation is exchanged for the cost.
LEMMA Settles ==
    ASSUME SpendTypeOK, NEW t \in Reservers, NEW x \in Task, NEW d \in Days, DayInv(d),
           spender' = [spender EXCEPT ![t] = x],
           x.step # "call", spender[t].step = "call",
           NEW c \in 0 .. MaxCost, budget_settle_micros(t, c),
           billed'[d] = billed[d] + (IF d = day(t) THEN c ELSE 0), missed'[d] = missed[d],
           tally'.trouble = 0 => tally.trouble = 0
    PROVE  DayInv(d)'
<1>w. /\ Reserved(d) \in Nat /\ Overruns(d) \in Nat /\ Reads(d) \in Nat /\ MaxReads \in Nat /\ MaxOverruns \in Nat
      /\ spent[d] \in Nat /\ billed[d] \in Nat /\ missed[d] \in Nat /\ Cap \in Nat
  BY Zenon, Weights, DayTyped, SpendAssumption
<1>e. /\ Reads(d)' = Reads(d)
      /\ d = day(t) => Reserved(d)' = Reserved(d) - Worst /\ Overruns(d)' = Overruns(d) - Overrun
      /\ d # day(t) => Reserved(d)' = Reserved(d) /\ Overruns(d)' = Overruns(d)
      /\ Reserved(d)' \in Nat /\ Overruns(d)' \in Nat
      /\ MaxReads' = MaxReads /\ MaxOverruns' = MaxOverruns
  BY Zenon, CallEnds
<1>1. spender[t].held = Worst /\ day(t) \in Days
  BY Zenon, OnADay DEF SpendTypeOK, Spenders
<1>2. CASE d = day(t)
  <2>1. Reserved(d)' = Reserved(d) - Worst /\ Reserved(d)' \in Nat
    BY Zenon, <1>2, CallEnds
  <2>2. spent[d] \in Nat /\ Worst \in Nat /\ Reserved(d) \in Nat /\ c \in Nat /\ c <= MaxCost /\ MaxCost \in Nat
    BY DayTyped, SpendAssumption, Weights
  <2>3. Worst <= spent[d]
    BY <2>1, <2>2 DEF DayInv
  <2>4. spent'[d] = (IF spent[d] > Worst THEN spent[d] - Worst ELSE 0) + c
    BY Zenon, <1>1, <1>2 DEF budget_settle_micros, SpendTypeOK
  <2>5. spent'[d] = spent[d] - Worst + c
    BY <2>2, <2>3, <2>4
  <2>6. c - Worst <= Overrun /\ Overrun \in Nat
    BY <2>2 DEF Overrun
  <2> QED BY <1>2, <1>w, <1>e, <2>2, <2>5, <2>6 DEF DayInv
<1>3. CASE d # day(t)
  <2>1. spent'[d] = spent[d]
    BY Zenon, <1>1, <1>3 DEF budget_settle_micros, SpendTypeOK
  <2>2. spent[d] \in Nat /\ Reserved(d) \in Nat
    BY Zenon, DayTyped, Weights
  <2>3. billed'[d] = billed[d] /\ missed'[d] = missed[d]
    BY <1>3, DayTyped
  <2> QED BY Zenon, <1>3, <2>1, <2>2, <2>3, <1>w, <1>e DEF DayInv
<1> QED BY Zenon, <1>2, <1>3

\* A settlement that fails: the reservation stays on the ledger for good.
LEMMA SettleFails ==
    ASSUME SpendTypeOK, NEW t \in Reservers, NEW x \in Task, NEW d \in Days, DayInv(d),
           spender' = [spender EXCEPT ![t] = x],
           x.step # "call", spender[t].step = "call",
           NEW c \in 0 .. MaxCost, spent' = spent,
           billed'[d] = billed[d] + (IF d = day(t) THEN c ELSE 0),
           missed'[d] = missed[d] + (IF d = day(t) /\ c > Worst THEN c - Worst ELSE 0),
           tally'.trouble # 0
    PROVE  DayInv(d)'
<1>w. /\ Reserved(d) \in Nat /\ Overruns(d) \in Nat /\ Reads(d) \in Nat /\ MaxReads \in Nat /\ MaxOverruns \in Nat
      /\ spent[d] \in Nat /\ billed[d] \in Nat /\ missed[d] \in Nat /\ Cap \in Nat
  BY Zenon, Weights, DayTyped, SpendAssumption
<1>e. /\ Reads(d)' = Reads(d)
      /\ d = day(t) => Reserved(d)' = Reserved(d) - Worst /\ Overruns(d)' = Overruns(d) - Overrun
      /\ d # day(t) => Reserved(d)' = Reserved(d) /\ Overruns(d)' = Overruns(d)
      /\ Reserved(d)' \in Nat /\ Overruns(d)' \in Nat
      /\ MaxReads' = MaxReads /\ MaxOverruns' = MaxOverruns
  BY Zenon, CallEnds
<1>1. Worst \in Nat /\ c \in Nat /\ Overrun \in Nat
  BY DayTyped, SpendAssumption, Weights
<1>2. CASE d = day(t)
  BY <1>1, <1>2, <1>w, <1>e DEF DayInv
<1>3. CASE d # day(t)
  BY <1>1, <1>3, <1>w, <1>e DEF DayInv
<1> QED BY Zenon, <1>2, <1>3

\* A call that starts under the cap, with its reservation or with none: the
\* bound of the cap holds whatever the other calls may still cost.
LEMMA CallStarts ==
    ASSUME SpendTypeOK, NEW t \in Spenders, NEW x \in Task, NEW d \in Days, DayInv(d),
           spender' = [spender EXCEPT ![t] = x], t \notin Calling(d),
           x.step \in {"call", "prefilter"}, t \in Reservers => x.step = "call",
           spent'[d] = spent[d] + (IF t \in Reservers /\ Day(x.at) = d THEN Worst ELSE 0),
           Day(x.at) = d => spent'[d] <= Cap,
           billed' = billed, missed' = missed, tally'.trouble = tally.trouble
    PROVE  DayInv(d)'
<1>w. /\ Reserved(d) \in Nat /\ Overruns(d) \in Nat /\ Reads(d) \in Nat /\ MaxReads \in Nat /\ MaxOverruns \in Nat
      /\ spent[d] \in Nat /\ billed[d] \in Nat /\ missed[d] \in Nat /\ Cap \in Nat /\ Worst \in Nat
      /\ MaxReads' = MaxReads /\ MaxOverruns' = MaxOverruns
  BY Zenon, Weights, DayTyped, SpendAssumption DEF MaxReads, MaxOverruns, Overrun
<1>m. /\ Reserved(d)' = Reserved(d) - Share(Worst, t, Calling(d)) + Share(Worst, t, Calling(d)')
      /\ Overruns(d)' = Overruns(d) - Share(Overrun, t, Calling(d)) + Share(Overrun, t, Calling(d)')
      /\ Reads(d)' = Reads(d) - Share(MaxCost, t, Reading(d)) + Share(MaxCost, t, Reading(d)')
      /\ t \in Calling(d)' <=> t \in Reservers /\ x.step = "call" /\ Day(x.at) = d
      /\ t \in Reading(d)' <=> t \in Triages /\ x.step \in {"call", "prefilter"} /\ Day(x.at) = d
      /\ Reserved(d)' \in Nat /\ Overruns(d)' \in Nat /\ Reads(d)' \in Nat
  BY Zenon, Moved
<1>n. Reads(d)' <= MaxReads /\ Overruns(d)' <= MaxOverruns
  BY Zenon, NextWeights
<1>s. /\ Share(Worst, t, Calling(d)) = 0 /\ Share(Overrun, t, Calling(d)) = 0
      /\ Share(Worst, t, Calling(d)') = IF t \in Reservers /\ Day(x.at) = d THEN Worst ELSE 0
  BY Zenon, <1>m DEF Share
<1>1. Reserved(d)' = Reserved(d) + (IF t \in Reservers /\ Day(x.at) = d THEN Worst ELSE 0)
  BY <1>w, <1>m, <1>s
<1>2. CASE Day(x.at) = d
  BY <1>w, <1>m, <1>n, <1>1, <1>2 DEF DayInv
<1>3. CASE Day(x.at) # d
  <2>1. Share(Overrun, t, Calling(d)') = 0 /\ Share(MaxCost, t, Reading(d)') = 0 /\ Share(MaxCost, t, Reading(d)) \in Nat
    BY Zenon, <1>m, <1>3, SpendAssumption DEF Share
  <2>2. Overruns(d)' = Overruns(d) /\ Reads(d)' <= Reads(d) /\ Reserved(d)' = Reserved(d) /\ spent'[d] = spent[d]
    BY <1>w, <1>m, <1>s, <1>1, <1>3, <2>1
  <2> QED BY <1>w, <1>m, <2>2 DEF DayInv
<1> QED BY Zenon, <1>2, <1>3

\* A triage call is answered: its cost is charged, or missed.
LEMMA TriageCharged ==
    ASSUME SpendTypeOK, NEW t \in Triages, NEW x \in Task, NEW d \in Days, DayInv(d),
           spender' = [spender EXCEPT ![t] = x],
           spender[t].step \in {"call", "prefilter"}, x.step \notin {"call", "prefilter"},
           NEW c \in 0 .. MaxCost,
           billed'[d] = billed[d] + (IF d = day(t) THEN c ELSE 0),
           \/ /\ spent'[d] = spent[d] + (IF d = day(t) THEN c ELSE 0) /\ missed'[d] = missed[d]
              /\ tally'.trouble = tally.trouble
           \/ /\ missed'[d] = missed[d] + (IF d = day(t) THEN c ELSE 0) /\ spent'[d] = spent[d]
              /\ tally'.trouble # 0
    PROVE  DayInv(d)'
<1>w. /\ Reserved(d) \in Nat /\ Overruns(d) \in Nat /\ Reads(d) \in Nat /\ MaxReads \in Nat /\ MaxOverruns \in Nat
      /\ spent[d] \in Nat /\ billed[d] \in Nat /\ missed[d] \in Nat /\ Cap \in Nat /\ MaxCost \in Nat
      /\ MaxReads' = MaxReads /\ MaxOverruns' = MaxOverruns
  BY Zenon, Weights, DayTyped, SpendAssumption DEF MaxReads, MaxOverruns, Overrun
<1>t. t \in Spenders /\ t \notin Reservers
  BY Zenon, SpendAssumption DEF Spenders
<1>m. /\ Reserved(d)' = Reserved(d) - Share(Worst, t, Calling(d)) + Share(Worst, t, Calling(d)')
      /\ Overruns(d)' = Overruns(d) - Share(Overrun, t, Calling(d)) + Share(Overrun, t, Calling(d)')
      /\ Reads(d)' = Reads(d) - Share(MaxCost, t, Reading(d)) + Share(MaxCost, t, Reading(d)')
      /\ t \notin Calling(d)' /\ t \notin Reading(d)'
      /\ Reserved(d)' \in Nat /\ Overruns(d)' \in Nat /\ Reads(d)' \in Nat
  BY ZenonT(60), <1>t, Moved
<1>s. /\ Share(Worst, t, Calling(d)) = 0 /\ Share(Overrun, t, Calling(d)) = 0
      /\ Share(Worst, t, Calling(d)') = 0 /\ Share(Overrun, t, Calling(d)') = 0
      /\ Share(MaxCost, t, Reading(d)') = 0
      /\ Share(MaxCost, t, Reading(d)) = IF d = day(t) THEN MaxCost ELSE 0
  BY Zenon, <1>t, <1>m DEF Share, Calling, Reading
<1>1. /\ Reserved(d)' = Reserved(d) /\ Overruns(d)' = Overruns(d)
      /\ Reads(d)' = Reads(d) - (IF d = day(t) THEN MaxCost ELSE 0)
  BY <1>w, <1>m, <1>s
<1>2. CASE d = day(t)
  BY <1>w, <1>m, <1>1, <1>2 DEF DayInv
<1>3. CASE d # day(t)
  BY <1>w, <1>m, <1>1, <1>3 DEF DayInv
<1> QED BY Zenon, <1>2, <1>3

\* What a charge writes, day by day.
LEMMA Charged ==
    ASSUME SpendTypeOK, NEW t \in Spenders, NEW d \in Days, NEW c \in Costs
    PROVE  /\ c \in 0 .. MaxCost /\ c \in Nat
           /\ Bill(t, c) => billed'[d] = billed[d] + (IF d = day(t) THEN c ELSE 0)
           /\ budget_add_micros(t, c) => spent'[d] = spent[d] + (IF d = day(t) THEN c ELSE 0)
<1>1. c \in 0 .. MaxCost /\ c \in Nat
  BY SpendAssumption
<1>2. spent[d] \in Nat /\ billed[d] \in Nat
  BY Zenon, DayTyped
<1>3. Bill(t, c) => billed'[d] = billed[d] + (IF d = day(t) THEN c ELSE 0)
  BY <1>1, <1>2 DEF Bill, SpendTypeOK
<1>4. budget_add_micros(t, c) => spent'[d] = spent[d] + (IF d = day(t) THEN c ELSE 0)
  BY <1>1, <1>2 DEF budget_add_micros, SpendTypeOK
<1> QED BY Zenon, <1>1, <1>3, <1>4

\* A reservation that is dropped: the call ends, or there was none.
LEMMA Refunds ==
    ASSUME SpendTypeOK, NEW t \in Reservers, NEW x \in Task, NEW d \in Days, DayInv(d),
           spender' = [spender EXCEPT ![t] = x], x.step \notin {"call", "prefilter"},
           Refund(t), UNCHANGED <<billed, missed>>
    PROVE  DayInv(d)'
<1>0. /\ spent[d] \in Nat /\ billed[d] \in Nat /\ missed[d] \in Nat /\ Worst \in Nat /\ MaxCost \in Nat
      /\ t \in Spenders /\ 0 \in 0 .. MaxCost
  BY DayTyped, SpendAssumption DEF Spenders
<1>1. /\ billed'[d] = billed[d] + (IF d = day(t) THEN 0 ELSE 0) /\ billed'[d] = billed[d]
      /\ missed'[d] = missed[d] + (IF d = day(t) /\ 0 > Worst THEN 0 - Worst ELSE 0) /\ missed'[d] = missed[d]
  BY <1>0
<1>2. CASE spender[t].step = "call" /\ budget_settle_micros(t, 0) /\ Sound
  <2>1. tally'.trouble = 0 => tally.trouble = 0
    BY Zenon, <1>2, Troubles
  <2> QED BY Zenon, <1>0, <1>1, <1>2, <2>1, Settles
<1>3. CASE spender[t].step = "call" /\ UNCHANGED spent /\ Faulty
  <2>1. tally'.trouble # 0
    BY Zenon, <1>3, Troubles
  <2> QED BY Zenon, <1>0, <1>1, <1>3, <2>1, SettleFails
<1>4. CASE spender[t].step # "call"
  <2>1. spender[t].held = 0 /\ t \notin Calling(d)
    BY Zenon, <1>0, <1>4 DEF SpendTypeOK, Calling
  <2>2. budget_settle_micros(t, 0) /\ Sound
    BY <2>1 DEF Refund
  <2>3. spent'[d] = spent[d]
    BY <1>0, <2>1, <2>2 DEF budget_settle_micros, SpendTypeOK
  <2>4. tally'.trouble = 0 => tally.trouble = 0
    BY Zenon, <2>2, Troubles
  <2> QED BY Zenon, <1>0, <1>1, <2>1, <2>3, <2>4, QuietMove
<1> QED BY Zenon, <1>2, <1>3, <1>4 DEF Refund

\* A step of a task that reserves.
LEMMA ReserverStep ==
    ASSUME SpendTypeOK, NEW t \in Spenders, NEW d \in Days, DayInv(d),
           \/ SpendRequest(t) \/ budget_reserve(t) \/ StopCalling(t) \/ ModelAnswers(t)
           \/ CallFails(t) \/ Cancel(t) \/ Report(t)
    PROVE  DayInv(d)'
<1>i. "gate" \in Step \ {"call"} /\ "report" \in Step \ {"call"}
  BY Zenon DEF Step
<1>n. NewTask \in Task /\ NewTask.step = "gate"
  BY Zenon DEF NewTask, Task, Step, SpendTypeOK
<1>1. CASE SpendRequest(t)
  <2>1. t \notin Calling(d) /\ spender' = [spender EXCEPT ![t] = NewTask] /\ UNCHANGED <<spent, billed, missed>>
    BY Zenon, <1>1 DEF SpendRequest, money, Calling
  <2>2. tally'.trouble = tally.trouble
    BY Zenon, <1>1, Troubles DEF SpendRequest
  <2> QED BY Zenon, <1>n, <2>1, <2>2, QuietMove
<1>2. CASE budget_reserve(t) /\ spent[day(t)] + Worst <= Cap
  <2>1. /\ t \in Reservers /\ StartCall(t, Worst) /\ t \notin Calling(d)
        /\ spent' = [spent EXCEPT ![day(t)] = @ + Worst]
        /\ UNCHANGED <<billed, missed, tally>>
    BY Zenon, <1>2 DEF budget_reserve, Calling
  <2>2. PICK x \in Task : spender' = [spender EXCEPT ![t] = x] /\ x.step = "call" /\ x.at = spender[t].at
    BY Zenon, <2>1, CallMoves
  <2>3. day(t) = Day(x.at) /\ spent[d] \in Nat /\ Worst \in Nat
    BY Zenon, <2>2, DayTyped, SpendAssumption DEF day
  <2>4. /\ spent'[d] = spent[d] + (IF t \in Reservers /\ Day(x.at) = d THEN Worst ELSE 0)
        /\ Day(x.at) = d => spent'[d] <= Cap
    BY <1>2, <2>1, <2>3 DEF SpendTypeOK
  <2>5. tally'.trouble = tally.trouble
    BY Zenon, <2>1, Troubles
  <2> QED BY Zenon, <2>1, <2>2, <2>4, <2>5, CallStarts
<1>3. CASE (budget_reserve(t) /\ ~(spent[day(t)] + Worst <= Cap)) \/ StopCalling(t) \/ Report(t)
  <2>1. /\ t \notin Calling(d) /\ UNCHANGED <<spent, billed, missed>>
        /\ Finish(t) \/ EndTask(t)
        /\ Faulty \/ Sound
    BY Zenon, <1>3 DEF budget_reserve, StopCalling, Report, money, Calling, Sound
  <2>2. PICK x \in Task : spender' = [spender EXCEPT ![t] = x] /\ x.step \notin {"call", "prefilter"}
    BY Zenon, <1>i, <2>1, TaskMoves
  <2>3. tally'.trouble = 0 => tally.trouble = 0
    BY Zenon, <2>1, Troubles
  <2> QED BY Zenon, <2>1, <2>2, <2>3, QuietMove
<1>4. CASE ModelAnswers(t)
  <2>1. t \in Reservers /\ spender[t].step = "call"
    BY Zenon, <1>4 DEF ModelAnswers
  <2>2. PICK cost \in Costs :
          /\ Bill(t, cost)
          /\ \/ budget_settle_micros(t, cost) /\ (GoOn(t, "gate") \/ Finish(t)) /\ UNCHANGED <<missed, tally>>
             \/ /\ UNCHANGED spent /\ Finish(t) /\ Faulty
                /\ missed' = [missed EXCEPT ![day(t)] = @ + (IF cost > spender[t].held THEN cost - spender[t].held ELSE 0)]
    BY Zenon, <1>4 DEF ModelAnswers
  <2>3. PICK x \in Task : spender' = [spender EXCEPT ![t] = x] /\ x.step # "call"
    BY Zenon, <1>i, <2>2, TaskMoves
  <2>4. cost \in 0 .. MaxCost /\ billed'[d] = billed[d] + (IF d = day(t) THEN cost ELSE 0)
    BY Zenon, <2>2, Charged
  <2>5. CASE budget_settle_micros(t, cost) /\ UNCHANGED <<missed, tally>>
    <3>1. missed'[d] = missed[d] /\ (tally'.trouble = 0 => tally.trouble = 0)
      BY Zenon, <2>5
    <3> QED BY Zenon, <2>1, <2>3, <2>4, <2>5, <3>1, Settles
  <2>6. CASE /\ UNCHANGED spent /\ Faulty
             /\ missed' = [missed EXCEPT ![day(t)] = @ + (IF cost > spender[t].held THEN cost - spender[t].held ELSE 0)]
    <3>1. spender[t].held = Worst /\ missed[d] \in Nat /\ Worst \in Nat /\ cost \in Nat
      <4>1. spender[t].held = Worst /\ missed[d] \in Nat /\ Worst \in Nat /\ MaxCost \in Nat
        BY Zenon, <2>1, DayTyped, SpendAssumption DEF SpendTypeOK
      <4>2. cost \in Nat
        BY <2>4, <4>1
      <4> QED BY Zenon, <4>1, <4>2
    <3>2. missed'[d] = missed[d] + (IF d = day(t) /\ cost > Worst THEN cost - Worst ELSE 0)
      BY <2>6, <3>1 DEF SpendTypeOK
    <3>3. tally'.trouble # 0
      BY Zenon, <2>6, Troubles
    <3> QED BY Zenon, <2>1, <2>3, <2>4, <2>6, <3>2, <3>3, SettleFails
  <2> QED BY Zenon, <2>2, <2>5, <2>6
<1>5. CASE CallFails(t) \/ Cancel(t)
  <2>1. t \in Reservers /\ Refund(t) /\ (Finish(t) \/ EndTask(t)) /\ UNCHANGED <<billed, missed>>
    BY Zenon, <1>5 DEF CallFails, Cancel
  <2>2. PICK x \in Task : spender' = [spender EXCEPT ![t] = x] /\ x.step \notin {"call", "prefilter"}
    BY Zenon, <1>i, <2>1, TaskMoves
  <2> QED BY Zenon, <2>1, <2>2, Refunds
<1> QED BY Zenon, <1>1, <1>2, <1>3, <1>4, <1>5

\* A step of a triage.
LEMMA TriageStep ==
    ASSUME SpendTypeOK, NEW t \in Spenders, NEW d \in Days, DayInv(d),
           StartTriage(t) \/ Check(t) \/ TriageAnswer(t) \/ TriageCallFails(t)
    PROVE  DayInv(d)'
<1>t. t \in Triages /\ t \notin Reservers /\ t \notin Calling(d)
  BY Zenon, SpendAssumption DEF StartTriage, Check, TriageAnswer, TriageCallFails, Calling
<1>i. "gate" \in Step \ {"call"} /\ "report" \in Step \ {"call"}
  BY Zenon DEF Step
<1>c. Cap \in Nat /\ spent[d] \in Nat
  BY Zenon, SpendAssumption, DayTyped
<1>1. CASE StartTriage(t)
  <2>1. PICK step \in {"prefilter", "gate"} : spender' = [spender EXCEPT ![t] = [NewTask EXCEPT !.step = step]]
    BY Zenon, <1>1 DEF StartTriage
  <2> DEFINE x == [NewTask EXCEPT !.step = step]
  <2>2. x \in Task /\ x.step = step /\ x.at = hour
    BY Zenon DEF NewTask, Task, Step, SpendTypeOK
  <2>3. spender' = [spender EXCEPT ![t] = x]
    BY Zenon, <2>1
  <2>4. UNCHANGED <<spent, billed, missed>> /\ spent[Day(hour)] < Cap
    BY Zenon, <1>1 DEF StartTriage, money
  <2>5. tally'.trouble = tally.trouble
    BY Zenon, <1>1, Troubles DEF StartTriage
  <2> HIDE DEF x
  <2>6. CASE step = "gate"
    BY Zenon, <1>t, <2>2, <2>3, <2>4, <2>5, <2>6, QuietMove
  <2>7. CASE step = "prefilter"
    <3>1. /\ spent'[d] = spent[d] + (IF t \in Reservers /\ Day(x.at) = d THEN Worst ELSE 0)
          /\ Day(x.at) = d => spent'[d] <= Cap
      BY <1>t, <1>c, <2>2, <2>4
    <3> QED BY Zenon, <1>t, <2>2, <2>3, <2>4, <2>5, <2>7, <3>1, CallStarts
  <2> QED BY Zenon, <2>6, <2>7
<1>2. CASE Check(t) /\ StartCall(t, 0)
  <2>1. PICK x \in Task : spender' = [spender EXCEPT ![t] = x] /\ x.step = "call" /\ x.at = spender[t].at
    BY Zenon, <1>2, CallMoves
  <2>2. UNCHANGED <<spent, billed, missed, tally>>
    BY Zenon, <1>2 DEF Check, money
  <2>3. spent[day(t)] < Cap \/ EndTask(t)
    BY Zenon, <1>2 DEF Check, Affordable
  <2>4. ~EndTask(t)
    BY Zenon, <1>2 DEF EndTask, StartCall, Resting, SpendTypeOK
  <2>5. /\ spent'[d] = spent[d] + (IF t \in Reservers /\ Day(x.at) = d THEN Worst ELSE 0)
        /\ Day(x.at) = d => spent'[d] <= Cap
    BY <1>t, <1>c, <2>1, <2>2, <2>3, <2>4 DEF day
  <2> QED BY Zenon, <1>t, <2>1, <2>2, <2>5, CallStarts
<1>3. CASE (Check(t) /\ EndTask(t)) \/ TriageCallFails(t)
  <2>1. UNCHANGED <<spent, billed, missed, tally>> /\ (EndTask(t) \/ GoOn(t, "gate"))
    BY Zenon, <1>3 DEF Check, TriageCallFails, money
  <2>2. PICK x \in Task : spender' = [spender EXCEPT ![t] = x] /\ x.step \notin {"call", "prefilter"}
    BY Zenon, <1>i, <2>1, TaskMoves
  <2> QED BY Zenon, <1>t, <2>1, <2>2, QuietMove
<1>4. CASE TriageAnswer(t)
  <2>1. spender[t].step \in {"call", "prefilter"}
    BY Zenon, <1>4 DEF TriageAnswer
  <2>2. PICK cost \in Costs :
          /\ Bill(t, cost)
          /\ \/ budget_add_micros(t, cost) /\ (GoOn(t, "gate") \/ EndTask(t)) /\ UNCHANGED <<missed, tally>>
             \/ /\ UNCHANGED spent /\ EndTask(t) /\ Faulty
                /\ missed' = [missed EXCEPT ![day(t)] = @ + cost]
    BY Zenon, <1>4 DEF TriageAnswer
  <2>3. PICK x \in Task : spender' = [spender EXCEPT ![t] = x] /\ x.step \notin {"call", "prefilter"}
    BY Zenon, <1>i, <2>2, TaskMoves
  <2>4. /\ cost \in 0 .. MaxCost /\ cost \in Nat
        /\ billed'[d] = billed[d] + (IF d = day(t) THEN cost ELSE 0)
        /\ budget_add_micros(t, cost) => spent'[d] = spent[d] + (IF d = day(t) THEN cost ELSE 0)
    BY Zenon, <2>2, Charged
  <2>5. CASE budget_add_micros(t, cost) /\ UNCHANGED <<missed, tally>>
    <3>1. missed'[d] = missed[d] /\ tally'.trouble = tally.trouble
      BY Zenon, <2>5
    <3> QED BY Zenon, <1>t, <2>1, <2>3, <2>4, <2>5, <3>1, TriageCharged
  <2>6. CASE UNCHANGED spent /\ Faulty /\ missed' = [missed EXCEPT ![day(t)] = @ + cost]
    <3>1. missed[d] \in Nat
      BY Zenon, DayTyped
    <3>2. missed'[d] = missed[d] + (IF d = day(t) THEN cost ELSE 0) /\ spent'[d] = spent[d]
      BY <2>4, <2>6, <3>1 DEF SpendTypeOK
    <3>3. tally'.trouble # 0
      BY Zenon, <2>6, Troubles
    <3> QED BY Zenon, <1>t, <2>1, <2>3, <2>4, <3>2, <3>3, TriageCharged
  <2> QED BY Zenon, <2>2, <2>5, <2>6
<1> QED BY Zenon, <1>1, <1>2, <1>3, <1>4 DEF Check

\* Every step keeps the invariant of every day.
LEMMA BudgetStep ==
    SpendTypeOK /\ BudgetInv /\ [SpendNext]_spendVars => BudgetInv'
<1> SUFFICES ASSUME SpendTypeOK, BudgetInv, [SpendNext]_spendVars, NEW d \in Days PROVE DayInv(d)'
  BY Zenon DEF BudgetInv, Days, Day
<1>0. DayInv(d)
  BY Zenon DEF BudgetInv
<1>c. "loop" \in Spenders /\ MaxReads' = MaxReads /\ MaxOverruns' = MaxOverruns
  BY Zenon DEF Spenders, Reservers, MaxReads, MaxOverruns, Overrun
<1>w. /\ Reserved(d) \in Nat /\ Overruns(d) \in Nat /\ Reads(d) \in Nat /\ MaxReads \in Nat /\ MaxOverruns \in Nat
      /\ spent[d] \in Nat /\ billed[d] \in Nat /\ missed[d] \in Nat /\ Cap \in Nat
  BY Zenon, Weights, DayTyped, SpendAssumption
<1>1. CASE UNCHANGED <<money, spender, tally>>
  BY Zenon, <1>0, <1>c, <1>1 DEF DayInv, Reserved, Reads, Overruns, Calling, Reading, day, money, Overrun
<1>2. CASE Visit
  <2>1. UNCHANGED <<money, spender, tally>> \/ spender' = [spender EXCEPT !["loop"] = NewTask]
    BY Zenon, <1>2 DEF Visit
  <2>2. NewTask \in Task /\ NewTask.step = "gate"
    BY Zenon DEF NewTask, Task, Step, SpendTypeOK
  <2>3. "loop" \notin Calling(d) /\ UNCHANGED <<spent, billed, missed, tally>>
    BY Zenon, <1>2 DEF Visit, Calling, money
  <2> QED BY Zenon, <1>0, <1>1, <1>c, <2>1, <2>2, <2>3, QuietMove
<1>3. CASE Restarted
  <2>1. Calling(d)' = {} /\ Reading(d)' = {}
    BY Zenon, <1>3 DEF Restarted, Calling, Reading, Resting, Spenders
  <2>2. Reserved(d)' = 0 /\ Overruns(d)' = 0 /\ Reads(d)' = 0
    <3>1. Cardinality({}) = 0
      BY Zenon, FS_EmptySet
    <3>2. Worst * 0 = 0 /\ Overrun * 0 = 0 /\ MaxCost * 0 = 0
      BY SpendAssumption DEF Overrun
    <3> QED BY Zenon, <2>1, <3>1, <3>2 DEF Reserved, Overruns, Reads, Overrun
  <2>3. tally'.trouble # 0 /\ UNCHANGED <<spent, billed, missed>>
    BY Zenon, <1>3, Troubles DEF Restarted, money
  <2> QED BY <1>0, <1>c, <1>w, <2>2, <2>3 DEF DayInv
<1>4. CASE Tick \/ UNCHANGED spendVars
  BY Zenon, <1>1, <1>4 DEF Tick, spendVars
<1> QED BY Zenon, <1>0, <1>2, <1>3, <1>4, ReserverStep, TriageStep DEF SpendNext

\* Nothing is spent or held at first.
LEMMA BudgetFirst == SpendInit => SpendTypeOK /\ BudgetInv
<1> SUFFICES ASSUME SpendInit PROVE SpendTypeOK /\ BudgetInv
  BY Zenon
<1> USE SpendAssumption
<1>1. Resting \in Task /\ Resting.step = "idle" /\ Resting.held = 0
  BY DEF Resting, Task, Step
<1>2. spender = [t \in Spenders |-> Resting] /\ turn = 1 /\ blind = FALSE /\ hour = 0
  BY Zenon DEF SpendInit
<1>3. \A d \in Days : spent[d] = 0 /\ billed[d] = 0 /\ missed[d] = 0
  BY Zenon DEF SpendInit
<1>4. SpendTypeOK
  <2>1. spent \in [Days -> Nat] /\ billed \in [Days -> Nat] /\ missed \in [Days -> Nat]
    BY Zenon DEF SpendInit
  <2>2. PICK ran \in SUBSET (1 .. Hunts) :
          /\ reports = {[hunt |-> h, at |-> 0] : h \in ran}
          /\ last_run = [h \in 1 .. Hunts |-> IF h \in ran THEN {0} ELSE {}]
    BY Zenon DEF SpendInit
  <2>3. reports \subseteq [hunt : 0 .. Hunts, at : 0 .. MaxTime] /\ last_run \in [1 .. Hunts -> SUBSET (0 .. MaxTime)]
    BY <2>2
  <2>4. tally \in [starts : 0 .. MaxStarts, trouble : 0 .. MaxTrouble]
    BY DEF SpendInit
  <2>5. /\ spender \in [Spenders -> Task]
        /\ \A t \in Spenders : spender[t].held = 0 /\ spender[t].step # "call"
    BY Zenon, <1>1, <1>2
  <2>6. hour \in 0 .. MaxTime /\ turn \in 1 .. Hunts
    BY <1>2
  <2>7. blind \in BOOLEAN
    BY Zenon, <1>2
  <2> QED BY Zenon, <2>1, <2>3, <2>4, <2>5, <2>6, <2>7 DEF SpendTypeOK
<1>5. ASSUME NEW d \in Days PROVE DayInv(d)
  <2>1. Calling(d) = {} /\ Reading(d) = {}
    BY Zenon, <1>1, <1>2 DEF Calling, Reading, Spenders
  <2>2. Cardinality({}) = 0
    BY Zenon, FS_EmptySet
  <2>3. Worst * 0 = 0 /\ Overrun * 0 = 0 /\ MaxCost * 0 = 0
    BY DEF Overrun
  <2>4. Reserved(d) = 0 /\ Overruns(d) = 0 /\ Reads(d) = 0
    BY Zenon, <2>1, <2>2, <2>3 DEF Reserved, Overruns, Reads
  <2>5. Cap \in Nat /\ MaxReads \in Nat /\ MaxOverruns \in Nat
    BY Zenon, Weights
  <2> QED BY <1>3, <2>4, <2>5 DEF DayInv
<1> QED BY Zenon, <1>4, <1>5 DEF BudgetInv

\* The invariant holds in every state.
THEOREM BudgetHolds == SpendSpec => [](SpendTypeOK /\ BudgetInv)
  BY BudgetFirst, SpendTypeStep, BudgetStep, PTL DEF SpendSpec

\* However many hunts, questions and triages spend at the same time, are
\* cancelled, fail or are killed, the ledger of a day is never below what its
\* answered calls cost and its running ones hold, but for costs that could not
\* be stored, and is exactly that while nothing failed (budget_settle_micros,
\* BudgetReservation).
THEOREM LedgerIsSound == SpendSpec => []LedgerCovers
<1>1. SpendTypeOK /\ BudgetInv => LedgerCovers
  BY Zenon DEF BudgetInv, DayInv, LedgerCovers
<1> QED BY <1>1, BudgetHolds, PTL

\* A day's ledger goes past daily_budget_usd by no more than a call of each
\* concurrent triage and what reserved calls cost beyond their reservation.
THEOREM CapIsBounded == SpendSpec => []CapBound
<1>1. SpendTypeOK /\ BudgetInv => CapBound
  BY Zenon DEF BudgetInv, DayInv, CapBound, Reads, Overruns, MaxReads, MaxOverruns
<1> QED BY <1>1, BudgetHolds, PTL

-----------------------------------------------------------------------------
(* The hunt schedule *)

\* The schedule knows every report, and the run under way is far enough from
\* the reported ones.
HuntInv ==
    /\ \A h \in 1 .. Hunts : \A x \in last_run[h] : x <= hour
    /\ \A r \in reports : r.hunt > 0 => r.at <= hour
    /\ spender["loop"].step # "idle" => last_run[turn] = {spender["loop"].at}
    /\ ~blind =>
          /\ \A r \in reports : r.hunt > 0 => \E x \in last_run[r.hunt] : r.at <= x
          /\ spender["loop"].step # "idle" =>
                \A r \in reports : r.hunt = turn => spender["loop"].at - r.at >= schedule_secs
    /\ HuntsSpaced

\* The loop's run ends or goes on as the same one.
LoopKept ==
    \/ spender'["loop"].step = "idle"
    \/ turn' = turn /\ spender'["loop"].at = spender["loop"].at /\ spender["loop"].step # "idle"

\* What a task's step is to the loop.
LEMMA LoopMoves ==
    ASSUME SpendTypeOK, NEW t \in Spenders, t = "loop" => spender[t].step # "idle",
           \/ EndTask(t) \/ Finish(t) \/ \E s \in Step : GoOn(t, s) \/ \E w \in {0, Worst} : StartCall(t, w)
    PROVE  LoopKept
<1>1. "loop" \in Spenders
  BY Zenon DEF Spenders, Reservers
<1>2. CASE t = "loop"
  <2>1. ASSUME EndTask("loop") PROVE LoopKept
    BY Zenon, <1>1, <2>1 DEF SpendTypeOK, LoopKept, EndTask, Resting
  <2>2. ASSUME NEW s, GoOn("loop", s) PROVE LoopKept
    <3>1. spender'["loop"] = [spender["loop"] EXCEPT !.step = s, !.held = 0]
      BY Zenon, <1>1, <2>2 DEF SpendTypeOK, GoOn
    <3>2. spender["loop"] \in Task
      BY Zenon, <1>1 DEF SpendTypeOK
    <3>3. spender'["loop"].at = spender["loop"].at
      BY Zenon, <3>1, <3>2 DEF Task
    <3> QED BY Zenon, <1>2, <2>2, <3>3 DEF LoopKept, GoOn
  <2>3. ASSUME NEW w, StartCall("loop", w) PROVE LoopKept
    BY Zenon, <1>1, <1>2, <2>3 DEF SpendTypeOK, LoopKept, StartCall
  <2> QED BY Zenon, <1>2, <2>1, <2>2, <2>3 DEF Finish
<1>3. CASE t # "loop"
  BY Zenon, <1>1, <1>3 DEF SpendTypeOK, LoopKept, EndTask, Finish, GoOn, StartCall, Resting
<1> QED BY Zenon, <1>2, <1>3

\* The latest of the stored runs.
LEMMA Latest ==
    ASSUME SpendTypeOK, NEW h \in 1 .. Hunts
    PROVE  /\ \A x \in ScheduleSeed[h] : \E r \in reports : r.hunt = h /\ r.at = x
           /\ \A r \in reports : r.hunt = h => \E x \in ScheduleSeed[h] : r.at <= x
<1> DEFINE runs == {r.at : r \in {s \in reports : s.hunt = h}}
<1>1. runs \subseteq 0 .. MaxTime
  BY Zenon DEF SpendTypeOK
<1>2. ScheduleSeed[h] = {at \in runs : \A other \in runs : other <= at}
  BY Zenon DEF ScheduleSeed
<1>3. IsFiniteSet(0 .. MaxTime)
  BY FS_Interval, SpendAssumption
<1>4. runs # {} => \E x \in runs : \A y \in runs : y <= x
  <2> HIDE DEF runs
  <2>1. IsFiniteSet(runs)
    BY Zenon, <1>1, <1>3, FS_Subset
  <2>2. runs \subseteq Int
    BY <1>1
  <2> QED BY Zenon, <2>1, <2>2, FiniteMax
<1> QED BY Zenon, <1>2, <1>4

\* Every step keeps the spacing.
LEMMA HuntStep ==
    SpendTypeOK /\ HuntInv /\ [SpendNext]_spendVars => HuntInv'
<1> SUFFICES ASSUME SpendTypeOK, HuntInv, [SpendNext]_spendVars PROVE HuntInv'
  BY Zenon
<1>0. /\ hour \in Nat /\ schedule_secs \in Nat \ {0} /\ turn \in 1 .. Hunts /\ "loop" \in Spenders
      /\ Hunts \in Nat \ {0}
      /\ \A r \in reports : r.at \in Nat /\ r.hunt \in 0 .. Hunts
      /\ \A h \in 1 .. Hunts : last_run[h] \subseteq Nat
      /\ last_run \in [1 .. Hunts -> SUBSET Nat]
      /\ spender["loop"].at \in Nat /\ blind \in BOOLEAN
  BY SpendAssumption DEF SpendTypeOK, Task, Spenders, Reservers
<1>1. ASSUME LoopKept, UNCHANGED <<hour, reports, last_run, blind>> PROVE HuntInv'
  BY Zenon, <1>0, <1>1 DEF HuntInv, LoopKept, HuntsSpaced
<1>2. CASE Visit
  <2>1. UNCHANGED <<hour, reports, blind>> /\ spender["loop"].step = "idle"
    BY Zenon, <1>2 DEF Visit
  <2>2. CASE Due(turn)
    <3>1. last_run' = [last_run EXCEPT ![turn] = {hour}] /\ turn' = turn /\ spender'["loop"].at = hour
      BY <1>0, <1>2, <2>2 DEF Visit, NewTask, SpendTypeOK
    <3>2. last_run'[turn] = {hour} /\ \A h \in 1 .. Hunts : h # turn => last_run'[h] = last_run[h]
      BY Zenon, <1>0, <3>1
    <3>3. ASSUME NEW r \in reports, ~blind, r.hunt = turn PROVE hour - r.at >= schedule_secs
      <4>1. PICK x \in last_run[turn] : r.at <= x
        BY <1>0, <3>3 DEF HuntInv
      <4>2. hour - x >= schedule_secs
        BY Zenon, <2>2, <4>1 DEF Due
      <4> QED BY <1>0, <4>1, <4>2
    <3>4. ASSUME NEW r \in reports, ~blind, r.hunt > 0 PROVE \E x \in last_run'[r.hunt] : r.at <= x
      <4>1. CASE r.hunt = turn
        BY Zenon, <1>0, <3>2, <3>4, <4>1 DEF HuntInv
      <4>2. CASE r.hunt # turn
        BY <1>0, <3>2, <3>4, <4>2 DEF HuntInv
      <4> QED BY Zenon, <4>1, <4>2
    <3>5. \A h \in 1 .. Hunts : \A x \in last_run'[h] : x <= hour
      BY <1>0, <3>2 DEF HuntInv
    <3>6. HuntsSpaced'
      BY Zenon, <2>1 DEF HuntInv, HuntsSpaced
    <3> QED BY Zenon, <1>0, <2>1, <3>1, <3>2, <3>3, <3>4, <3>5, <3>6 DEF HuntInv
  <2>3. CASE ~Due(turn)
    <3>1. LoopKept /\ UNCHANGED last_run
      BY Zenon, <1>2, <2>3 DEF Visit, LoopKept
    <3> QED BY Zenon, <1>1, <2>1, <3>1
  <2> QED BY Zenon, <2>2, <2>3
<1>3. CASE Restarted
  <2>1. spender'["loop"].step = "idle" /\ UNCHANGED <<hour, reports>>
    BY Zenon, <1>0, <1>3 DEF Restarted, Resting
  <2>2. CASE last_run' = ScheduleSeed /\ UNCHANGED blind
    <3>1. \A h \in 1 .. Hunts : \A x \in last_run'[h] : x <= hour
      BY <2>2, Latest DEF HuntInv
    <3>2. \A r \in reports : r.hunt > 0 => \E x \in last_run'[r.hunt] : r.at <= x
      BY <1>0, <2>2, Latest
    <3> QED BY Zenon, <2>1, <2>2, <3>1, <3>2 DEF HuntInv, HuntsSpaced
  <2>3. CASE last_run' = [h \in 1 .. Hunts |-> {}] /\ blind' = TRUE
    BY Zenon, <2>1, <2>3 DEF HuntInv, HuntsSpaced
  <2> QED BY Zenon, <1>3, <2>2, <2>3 DEF Restarted
<1>4. CASE Tick
  BY <1>0, <1>4 DEF Tick, schedule, HuntInv, HuntsSpaced
<1>5. ASSUME NEW t \in Spenders, Report(t) PROVE HuntInv'
  <2>1. LoopKept
    BY Zenon, <1>5, LoopMoves DEF Report
  <2>2. UNCHANGED <<hour, last_run, blind>>
    BY Zenon, <1>5 DEF Report
  <2>3. CASE UNCHANGED reports
    BY Zenon, <1>1, <2>1, <2>2, <2>3
  <2>4. CASE t # "loop" /\ reports' = reports \cup {[hunt |-> 0, at |-> spender[t].at]}
    <3>1. turn' = turn /\ spender'["loop"] = spender["loop"]
      BY Zenon, <1>0, <1>5, <2>4 DEF Report, EndTask, SpendTypeOK
    <3> QED BY <1>0, <2>2, <2>4, <3>1 DEF HuntInv, HuntsSpaced
  <2>5. CASE t = "loop" /\ reports' = reports \cup {[hunt |-> turn, at |-> spender["loop"].at]}
    <3>1. spender'["loop"].step = "idle" /\ spender["loop"].step # "idle"
      BY Zenon, <1>0, <1>5, <2>5 DEF Report, EndTask, Resting, SpendTypeOK
    <3>2. last_run[turn] = {spender["loop"].at} /\ spender["loop"].at <= hour
      BY Zenon, <1>0, <3>1 DEF HuntInv
    <3>3. HuntsSpaced'
      BY <1>0, <2>2, <2>5, <3>1 DEF HuntInv, HuntsSpaced
    <3>4. ~blind => \A r \in reports' : r.hunt > 0 => \E x \in last_run[r.hunt] : r.at <= x
      BY <1>0, <2>5, <3>2 DEF HuntInv
    <3> QED BY <1>0, <2>2, <2>5, <3>1, <3>2, <3>3, <3>4 DEF HuntInv
  <2> QED BY Zenon, <1>5, <2>3, <2>4, <2>5 DEF Report
<1>6. ASSUME NEW t \in Spenders, SpendRequest(t) \/ StartTriage(t) PROVE HuntInv'
  <2>1. t # "loop" /\ UNCHANGED <<hour, schedule>>
    BY Zenon, <1>6, SpendAssumption DEF SpendRequest, StartTriage, Reservers
  <2>2. spender'["loop"] = spender["loop"]
    BY Zenon, <1>0, <1>6, <2>1 DEF SpendRequest, StartTriage, SpendTypeOK
  <2> QED BY Zenon, <1>1, <2>1, <2>2 DEF LoopKept, schedule
<1>7. ASSUME NEW t \in Spenders,
             \/ budget_reserve(t) \/ StopCalling(t) \/ ModelAnswers(t) \/ CallFails(t) \/ Cancel(t)
             \/ Check(t) \/ TriageAnswer(t) \/ TriageCallFails(t)
      PROVE  HuntInv'
  <2>1. UNCHANGED <<hour, reports, last_run, blind>>
    BY Zenon, <1>7 DEF budget_reserve, StopCalling, ModelAnswers, CallFails, Cancel, Check, TriageAnswer, TriageCallFails
  <2>2. spender[t].step # "idle"
    BY Zenon, <1>7 DEF budget_reserve, StopCalling, ModelAnswers, CallFails, Cancel, Check, TriageAnswer, TriageCallFails, AtAwait
  <2>3. EndTask(t) \/ Finish(t) \/ GoOn(t, "gate") \/ StartCall(t, 0) \/ StartCall(t, Worst)
    BY Zenon, <1>7 DEF budget_reserve, StopCalling, ModelAnswers, CallFails, Cancel, Check, TriageAnswer, TriageCallFails
  <2>4. LoopKept
    BY Zenon, <2>2, <2>3, LoopMoves DEF Step
  <2> QED BY Zenon, <1>1, <2>1, <2>4
<1>8. CASE UNCHANGED spendVars
  BY Zenon, <1>8 DEF spendVars, schedule, HuntInv, HuntsSpaced
<1> QED BY Zenon, <1>2, <1>3, <1>4, <1>5, <1>6, <1>7, <1>8 DEF SpendNext

\* The reports there are at first are all of one time, which the schedule knows.
LEMMA HuntFirst == SpendInit => HuntInv
<1> SUFFICES ASSUME SpendInit PROVE HuntInv
  BY Zenon
<1>1. PICK ran \in SUBSET (1 .. Hunts) :
          /\ reports = {[hunt |-> h, at |-> 0] : h \in ran}
          /\ last_run = [h \in 1 .. Hunts |-> IF h \in ran THEN {0} ELSE {}]
  BY Zenon DEF SpendInit
<1>2. spender["loop"].step = "idle" /\ hour = 0
  BY Zenon DEF SpendInit, Resting, Spenders, Reservers
<1>3. \A r \in reports : r.at = 0 /\ r.hunt \in ran
  BY <1>1
<1>4. \A h \in 1 .. Hunts : last_run[h] \subseteq {0} /\ (h \in ran => last_run[h] = {0})
  BY Zenon, <1>1
<1>5. HuntsSpaced
  BY <1>3 DEF HuntsSpaced
<1>6. ASSUME NEW r \in reports PROVE \E x \in last_run[r.hunt] : r.at <= x
  <2>1. r.at = 0 /\ r.hunt \in 1 .. Hunts /\ last_run[r.hunt] = {0}
    BY Zenon, <1>3, <1>4
  <2> QED BY <2>1
<1>7. \A h \in 1 .. Hunts : \A x \in last_run[h] : x <= hour
  <2> SUFFICES ASSUME NEW h \in 1 .. Hunts, NEW x \in last_run[h] PROVE x <= hour
    BY Zenon
  <2>1. x = 0
    BY Zenon, <1>4
  <2> QED BY <1>2, <2>1
<1>8. \A r \in reports : r.at <= hour
  BY <1>2, <1>3
<1> QED BY Zenon, <1>2, <1>5, <1>6, <1>7, <1>8 DEF HuntInv

\* Two reported runs of a scheduled hunt are schedule_secs apart, whatever was
\* killed, timed out or restarted in between, as long as every start could list
\* the reports (hunt_loop's seeding of last_run).
THEOREM HuntBookNotReplayed == SpendSpec => []HuntsSpaced
<1>1. HuntInv => HuntsSpaced
  BY Zenon DEF HuntInv
<1> QED BY <1>1, HuntFirst, HuntStep, BudgetHolds, PTL DEF SpendSpec
=============================================================================
