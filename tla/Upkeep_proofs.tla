--------------------------- MODULE Upkeep_proofs ---------------------------
(***************************************************************************)
(* What the environment model, the loops that feed it and the recovery     *)
(* images may not do, for every set of facts, events, writers and stops.   *)
(*                                                                         *)
(* The facts: a protected fact stays with the value a transition blessed,  *)
(* and what was observed before an instant is settled by then.  Both rest  *)
(* on the invariant that a transition blesses a row that is there.         *)
(*                                                                         *)
(* The loops: what the cursor has reached and not taken in is in the page  *)
(* in hand, and the detector's page lies ahead of the durable watermark,   *)
(* so that a stop forgets nothing the watermark has gone by.               *)
(*                                                                         *)
(* The recovery images: the directory a capture started from was in use    *)
(* then, so that a capture within the grace finds it; the newest image is  *)
(* the one a prune never takes.                                            *)
(***************************************************************************)
EXTENDS Environment, EnvCursor, Capture, FiniteSetTheorems, NaturalsInduction, TLAPS


-----------------------------------------------------------------------------
(* The environment model *)

Blessing(x) ==
    \E r \in observations :
        r.fact = x.fact /\ x.blessed = {[source |-> r.source, value |-> r.value]}

\* There is one row for each content, a transition blesses a row that is
\* there, and a row under way carries the time its writer began at.
OneRow ==
    \A r, q \in observations :
        r.fact = q.fact /\ r.source = q.source /\ r.value = q.value => r = q
RowAt(a) ==
    job[a].step = "blessed" => Blessing(job[a].row) /\ job[a].row.at = job[a].at
EnvInv ==
    /\ OneRow
    /\ \A t \in transitions : Blessing(t)
    /\ DOMAIN job = Actors
    /\ \A a \in Actors : RowAt(a)
    /\ envNow \in Nat /\ began \in [Batches -> Nat]
    /\ \A a \in Actors : job[a].at \in Nat

\* More rows do not move a protected fact whose transitions bless a row.
LEMMA ProtectedIsPinned ==
    ASSUME NEW Q, NEW R \in SUBSET Q, NEW T, NEW last1, NEW now1, NEW last2, NEW now2,
           is_protected(Transition(newest_transition(T))),
           \A t \in T : \E r \in R : t.blessed = {[source |-> r.source, value |-> r.value]},
           \A r, q \in Q : r.source = q.source /\ r.value = q.value => r = q
    PROVE  /\ materialize_fact(R, T, last1, now1).state = materialize_fact(Q, T, last2, now2).state
           /\ materialize_fact(R, T, last1, now1).value = materialize_fact(Q, T, last2, now2).value
<1> DEFINE cur == newest_transition(T)
           blessed(X) == UNION {BlessedRow(X, t) : t \in cur}
           shown(X) == CHOOSE r \in blessed(X) : TRUE
<1>1. cur \subseteq T /\ cur # {}
  BY Zenon DEF newest_transition, is_protected, Transition
<1> HIDE DEF cur
<1>2. \A t \in cur : BlessedRow(R, t) = BlessedRow(Q, t) /\ BlessedRow(R, t) # {}
  <2> SUFFICES ASSUME NEW t \in cur
               PROVE  BlessedRow(R, t) = BlessedRow(Q, t) /\ BlessedRow(R, t) # {}
    BY Zenon
  <2>1. PICK r \in R : t.blessed = {[source |-> r.source, value |-> r.value]}
    BY Zenon, <1>1
  <2>2. \A q \in Q : [source |-> q.source, value |-> q.value] \in t.blessed
                     <=> q.source = r.source /\ q.value = r.value
    BY Zenon, <2>1
  <2>3. \A q \in Q : [source |-> q.source, value |-> q.value] \in t.blessed <=> q = r
    BY Zenon, <2>2
  <2> QED BY ZenonT(60), <2>3 DEF BlessedRow
<1>3. blessed(R) = blessed(Q) /\ blessed(R) # {}
  <2>1. {BlessedRow(R, t) : t \in cur} = {BlessedRow(Q, t) : t \in cur}
    BY Zenon, <1>2
  <2>2. PICK t \in cur : TRUE
    BY Zenon, <1>1
  <2>3. PICK r : r \in BlessedRow(R, t)
    BY Zenon, <1>2, <2>2
  <2>4. r \in blessed(R)
    BY Zenon, <2>2, <2>3
  <2> QED BY Zenon, <2>1, <2>4
<1>4. is_protected(Transition(cur))
  BY Zenon DEF cur
<1>5. ASSUME NEW X, NEW l, NEW n, blessed(X) # {}
      PROVE  /\ materialize_fact(X, T, l, n).state = Transition(cur)
             /\ materialize_fact(X, T, l, n).value = shown(X).value
  BY Zenon, <1>4, <1>5 DEF materialize_fact, cur
<1>6. /\ materialize_fact(R, T, last1, now1).state = Transition(cur)
      /\ materialize_fact(R, T, last1, now1).value = shown(R).value
  BY Zenon, <1>3, <1>5
<1>7. /\ materialize_fact(Q, T, last2, now2).state = Transition(cur)
      /\ materialize_fact(Q, T, last2, now2).value = shown(Q).value
  BY Zenon, <1>3, <1>5
<1>8. shown(R) = shown(Q)
  BY Zenon, <1>3
<1> HIDE DEF shown
<1> QED BY Zenon, <1>6, <1>7, <1>8

LEMMA EnvInvInit == EnvInit => EnvInv
BY DEF EnvInit, EnvInv, OneRow, RowAt, NoJob

\* A row stays, so what was blessed stays blessed.
LEMMA BlessingStays ==
    ASSUME NEW x, Blessing(x), observations \subseteq observations'
    PROVE  Blessing(x)'
BY Zenon DEF Blessing

\* A step of one writer that leaves the streams alone and puts no row together.
LEMMA JobMoves ==
    ASSUME EnvInv, NEW a \in Actors, NEW j, j.step # "blessed", j.at \in Nat, Goes(a, j),
           UNCHANGED <<envNow, began, observations, transitions>>
    PROVE  EnvInv'
<1>1. DOMAIN job' = Actors /\ job'[a] = j /\ \A b \in Actors \ {a} : job'[b] = job[b]
  BY Zenon DEF Goes, EnvInv
<1>2. OneRow' /\ \A t \in transitions' : Blessing(t)'
  BY Zenon DEF EnvInv, OneRow, Blessing
<1>3. \A b \in Actors : RowAt(b)'
  BY <1>1 DEF EnvInv, RowAt, Blessing
<1>4. envNow' \in Nat /\ began' \in [Batches -> Nat] /\ \A b \in Actors : job'[b].at \in Nat
  BY Zenon, <1>1 DEF EnvInv
<1> QED BY Zenon, <1>1, <1>2, <1>3, <1>4 DEF EnvInv

LEMMA EnvInvStep == EnvInv /\ [EnvNext]_envVars => EnvInv'
<1> SUFFICES ASSUME EnvInv, [EnvNext]_envVars PROVE EnvInv'
  BY Zenon
<1>l. "loop" \in Actors /\ Analysts \subseteq Actors
  BY Zenon DEF Actors
<1>r. \A j : Rest(j).step # "blessed" /\ (j.at \in Nat => Rest(j).at \in Nat)
  BY Zenon DEF Rest, NoJob, Job
<1>n. envNow \in Nat /\ began \in [Batches -> Nat] /\ \A a \in Actors : job[a].at \in Nat
  BY Zenon DEF EnvInv
<1>1. ASSUME UNCHANGED <<observations, transitions, job>>, envNow' \in Nat, began' \in [Batches -> Nat]
      PROVE  EnvInv'
  BY Zenon, <1>1 DEF EnvInv, OneRow, Blessing, RowAt
<1>2. ASSUME NEW b \in Batches, NEW f \in Facts, NEW s \in Sources, NEW v \in Values, Observe(b, f, s, v)
      PROVE  EnvInv'
  <2> DEFINE new == [fact |-> f, source |-> s, value |-> v, at |-> began[b]]
  <2>1. /\ \/ observations' = observations
           \/ /\ \A r \in observations : ~ (r.fact = f /\ r.source = s /\ r.value = v)
              /\ observations' = observations \cup {new}
        /\ transitions' = transitions /\ job' = job
        /\ envNow' = envNow /\ began' = began
    BY Zenon, <1>2 DEF Observe
  <2>2. observations \subseteq observations'
    BY Zenon, <2>1
  <2>3. new.fact = f /\ new.source = s /\ new.value = v
    BY Zenon
  <2> HIDE DEF new
  <2>4. OneRow'
    BY ZenonT(60), <2>1, <2>3 DEF EnvInv, OneRow
  <2>5. \A x : Blessing(x) => Blessing(x)'
    BY Zenon, <2>2, BlessingStays
  <2> QED BY Zenon, <2>1, <2>4, <2>5 DEF EnvInv, RowAt
<1>3. ASSUME NEW cases, NEW window, PromoteTick(cases, window) PROVE EnvInv'
  <2>1. PICK todo : Goes("loop", Job(envNow, todo)) /\ UNCHANGED <<envNow, began, observations, transitions>>
    BY Zenon, <1>3 DEF PromoteTick
  <2> QED BY Zenon, <1>l, <1>n, <2>1, JobMoves DEF Job
<1>4. ASSUME PromoteNext PROVE EnvInv'
  <2>0. job["loop"].at \in Nat
    BY Zenon, <1>l, <1>n
  <2>1. PICK j : Goes("loop", j) /\ j.step # "blessed" /\ j.at \in Nat
    BY <1>4, <1>r, <2>0 DEF PromoteNext, Gated, Job
  <2>2. UNCHANGED <<envNow, began, observations, transitions>>
    BY Zenon, <1>4 DEF PromoteNext
  <2> QED BY Zenon, <1>l, <2>1, <2>2, JobMoves
<1>5. ASSUME NEW a \in Analysts, NEW f, NEW to, NEW cases, do_env_transition(a, f, to, cases) PROVE EnvInv'
  <2>1. PICK j : Goes(a, j) /\ j.step # "blessed" /\ j.at \in Nat
    BY <1>5, <1>n DEF do_env_transition, Gated, Job
  <2>2. UNCHANGED <<envNow, began, observations, transitions>>
    BY Zenon, <1>5 DEF do_env_transition
  <2> QED BY Zenon, <1>l, <2>1, <2>2, JobMoves
<1>6. ASSUME NEW a \in Actors, Bless(a) PROVE EnvInv'
  <2>1. UNCHANGED <<envNow, began, observations, transitions>>
    BY Zenon, <1>6 DEF Bless
  <2>2. CASE Goes(a, Rest(job[a]))
    BY Zenon, <1>r, <1>n, <2>1, <2>2, JobMoves
  <2>3. CASE ~ Goes(a, Rest(job[a]))
    <3> DEFINE R == {r \in OfFact(job[a].fact, observations) : r.value = job[a].value}
               row(r) == [fact |-> job[a].fact, to |-> job[a].to, at |-> job[a].at,
                          blessed |-> {[source |-> r.source, value |-> r.value]},
                          sup |-> {t.id : t \in newest_transition(OfFact(job[a].fact, transitions))}]
    <3>1. PICK r \in NewestRows(R) :
             Goes(a, [step |-> "blessed", at |-> job[a].at, todo |-> job[a].todo, row |-> row(r)])
      BY Zenon, <1>6, <2>3 DEF Bless
    <3>2. r \in observations /\ r.fact = job[a].fact
      BY Zenon DEF NewestRows, OfFact
    <3>3. /\ DOMAIN job' = Actors /\ job'[a].row.at = job'[a].at /\ job'[a].at = job[a].at
          /\ job'[a].row.fact = r.fact
          /\ job'[a].row.blessed = {[source |-> r.source, value |-> r.value]}
          /\ \A b \in Actors \ {a} : job'[b] = job[b]
      BY Zenon, <3>1, <3>2 DEF Goes, EnvInv
    <3>4. RowAt(a)'
      BY Zenon, <2>1, <3>2, <3>3 DEF RowAt, Blessing
    <3>5. OneRow' /\ \A t \in transitions' : Blessing(t)'
      BY Zenon, <2>1 DEF EnvInv, OneRow, Blessing
    <3>6. \A b \in Actors \ {a} : RowAt(b)'
      BY <2>1, <3>3 DEF EnvInv, RowAt, Blessing
    <3>7. \A b \in Actors : job'[b].at \in Nat
      BY Zenon, <1>n, <3>3
    <3> QED BY Zenon, <1>n, <2>1, <3>3, <3>4, <3>5, <3>6, <3>7 DEF EnvInv
  <2> QED BY Zenon, <2>2, <2>3
<1>7. ASSUME NEW a \in Actors, append_transition(a) PROVE EnvInv'
  <2>1. PICK id : transitions' = transitions \cup
                 {[fact |-> job[a].row.fact, to |-> job[a].row.to, at |-> job[a].row.at,
                   blessed |-> job[a].row.blessed, sup |-> job[a].row.sup, id |-> id]}
    BY Zenon, <1>7 DEF append_transition
  <2>2. job[a].step = "blessed" /\ UNCHANGED <<envNow, began, observations>> /\ Goes(a, Rest(job[a]))
    BY Zenon, <1>7 DEF append_transition
  <2>3. \A x : Blessing(x)' <=> Blessing(x)
    BY Zenon, <2>2 DEF Blessing
  <2>4. \A t \in transitions' : Blessing(t)
    BY <2>1, <2>2 DEF EnvInv, RowAt, Blessing
  <2>5. DOMAIN job' = Actors /\ job'[a].step # "blessed" /\ job'[a].at \in Nat /\ \A b \in Actors \ {a} : job'[b] = job[b]
    BY Zenon, <1>r, <1>n, <2>2 DEF Goes, EnvInv
  <2>6. OneRow'
    BY Zenon, <2>2 DEF EnvInv, OneRow
  <2>7. \A b \in Actors : RowAt(b)'
    BY Zenon, <2>3, <2>5 DEF EnvInv, RowAt
  <2>8. \A b \in Actors : job'[b].at \in Nat
    BY Zenon, <1>n, <2>5
  <2> QED BY Zenon, <1>n, <2>2, <2>3, <2>4, <2>5, <2>6, <2>7, <2>8 DEF EnvInv
<1>8. ASSUME NEW b \in Batches, BeginBatch(b) \/ EndBatch(b) PROVE EnvInv'
  BY <1>n, <1>1, <1>8 DEF BeginBatch, EndBatch
<1>9. CASE EnvPasses \/ UNCHANGED envVars
  BY <1>n, <1>1, <1>9 DEF EnvPasses, envVars
<1> QED
  BY Zenon, <1>2, <1>3, <1>4, <1>5, <1>6, <1>7, <1>8, <1>9 DEF EnvNext

\* A fact that was trusted, flagged or retired keeps its state and its value
\* until another transition, for any facts, sources, values and trusts and
\* however many rows later evidence adds: materialize_fact shows the row the
\* transition blessed, and expires only candidates.
THEOREM ProtectedFactsStay == EnvSpec => PinnedUntilTransition
<1> DEFINE Pin(f) ==
      /\ is_protected(Transition(newest_transition(OfFact(f, transitions))))
      /\ OfFact(f, transitions)' = OfFact(f, transitions)
      => /\ Fact(f, envNow)'.state = Fact(f, envNow).state
         /\ Fact(f, envNow)'.value = Fact(f, envNow).value
<1>1. EnvInv /\ EnvInv' /\ [EnvNext]_envVars => [\A f \in Observed : Pin(f)]_envVars
  <2> SUFFICES ASSUME EnvInv, EnvInv', EnvNext, NEW f \in Observed,
                      is_protected(Transition(newest_transition(OfFact(f, transitions)))),
                      OfFact(f, transitions)' = OfFact(f, transitions)
               PROVE  /\ Fact(f, envNow)'.state = Fact(f, envNow).state
                      /\ Fact(f, envNow)'.value = Fact(f, envNow).value
    BY Zenon
  <2> DEFINE T == OfFact(f, transitions)
             R == OfFact(f, observations)
             Q == OfFact(f, observations')
  <2>1. observations \subseteq observations'
    BY ZenonT(60) DEF EnvNext, BeginBatch, EndBatch, Observe, PromoteTick, PromoteNext, do_env_transition, Bless,
           append_transition, EnvPasses
  <2>2. R \in SUBSET Q
    BY Zenon, <2>1 DEF OfFact
  <2>3. \A t \in T : \E r \in R : t.blessed = {[source |-> r.source, value |-> r.value]}
    BY Zenon DEF EnvInv, Blessing, OfFact
  <2>4. \A r, q \in Q : r.source = q.source /\ r.value = q.value => r = q
    BY Zenon DEF EnvInv, OneRow, OfFact
  <2>5. /\ Fact(f, envNow) = materialize_fact(R, T, sightings[f].last, envNow)
        /\ Fact(f, envNow)' = materialize_fact(Q, T, sightings'[f].last, envNow')
    BY Zenon DEF Fact, OfFact
  <2>6. is_protected(Transition(newest_transition(T)))
    BY Zenon
  <2> HIDE DEF T, R, Q
  <2>7. \A l1, n1, l2, n2 :
          /\ materialize_fact(R, T, l1, n1).state = materialize_fact(Q, T, l2, n2).state
          /\ materialize_fact(R, T, l1, n1).value = materialize_fact(Q, T, l2, n2).value
    BY <2>2, <2>3, <2>4, <2>6, ProtectedIsPinned
  <2>8. /\ materialize_fact(R, T, sightings[f].last, envNow).state
            = materialize_fact(Q, T, sightings'[f].last, envNow').state
        /\ materialize_fact(R, T, sightings[f].last, envNow).value
            = materialize_fact(Q, T, sightings'[f].last, envNow').value
    BY <2>7
  <2> QED BY Zenon, <2>5, <2>8
<1> QED BY <1>1, EnvInvInit, EnvInvStep, PTL DEF EnvSpec, PinnedUntilTransition

\* What was believed at a past instant stays, once every writer that began by
\* then is done, for any writers and streams: rows are only added, and carry
\* the time at which their writer began (materialize_fact_asof).
THEOREM PastIsSettled == EnvSpec => AsOfIsSettled
<1> DEFINE Done(t) == /\ t < envNow
                      /\ \A b \in Batches : began[b] = 0 \/ began[b] > t
                      /\ \A a \in Actors : job[a].step = "idle" \/ job[a].at > t
<1>1. EnvInv /\ [EnvNext]_envVars =>
        [\A f \in Facts, t \in 1 .. MaxNow :
            Done(t) => materialize_fact_asof(f, t)' = materialize_fact_asof(f, t)]_envVars
  <2> SUFFICES ASSUME EnvInv, EnvNext, NEW f \in Facts, NEW t \in 1 .. MaxNow, Done(t)
               PROVE  materialize_fact_asof(f, t)' = materialize_fact_asof(f, t)
    BY Zenon
  <2> DEFINE Old(S) == {r \in OfFact(f, S) : r.at <= t}
  <2>1. Old(observations') = Old(observations)
    <3>1. CASE observations' = observations
      BY Zenon, <3>1
    <3>2. ASSUME NEW b \in Batches, NEW g \in Facts, NEW s \in Sources, NEW v \in Values, Observe(b, g, s, v)
          PROVE  Old(observations') = Old(observations)
      <4> DEFINE new == [fact |-> g, source |-> s, value |-> v, at |-> began[b]]
      <4>1. observations' \subseteq observations \cup {new} /\ observations \subseteq observations'
        BY Zenon, <3>2 DEF Observe
      <4>2. new.at \in Nat /\ ~ (new.at <= t)
        BY <3>2 DEF Observe, EnvInv
      <4> HIDE DEF new
      <4> QED BY Zenon, <4>1, <4>2 DEF OfFact
    <3> QED BY Zenon, <3>1, <3>2 DEF EnvNext, BeginBatch, EndBatch, PromoteTick, PromoteNext, do_env_transition,
                              Bless, append_transition, EnvPasses
  <2>2. Old(transitions') = Old(transitions)
    <3>1. CASE transitions' = transitions
      BY Zenon, <3>1
    <3>2. ASSUME NEW a \in Actors, append_transition(a) PROVE Old(transitions') = Old(transitions)
      <4>1. PICK id : transitions' = transitions \cup
                 {[fact |-> job[a].row.fact, to |-> job[a].row.to, at |-> job[a].row.at,
                   blessed |-> job[a].row.blessed, sup |-> job[a].row.sup, id |-> id]}
        BY Zenon, <3>2 DEF append_transition
      <4> DEFINE new == [fact |-> job[a].row.fact, to |-> job[a].row.to, at |-> job[a].row.at,
                         blessed |-> job[a].row.blessed, sup |-> job[a].row.sup, id |-> id]
      <4>2. job[a].step = "blessed" /\ job[a].row.at = job[a].at /\ job[a].at \in Nat
        BY Zenon, <3>2 DEF append_transition, EnvInv, RowAt
      <4>3. ~ (new.at <= t)
        BY <4>2
      <4>4. transitions' = transitions \cup {new}
        BY Zenon, <4>1
      <4> HIDE DEF new
      <4> QED BY Zenon, <4>3, <4>4 DEF OfFact
    <3> QED BY ZenonT(60), <3>1, <3>2 DEF EnvNext, BeginBatch, EndBatch, PromoteTick, PromoteNext, do_env_transition,
                              Bless, Observe, EnvPasses
  <2> QED BY Zenon, <2>1, <2>2 DEF materialize_fact_asof
<1> QED BY <1>1, EnvInvInit, EnvInvStep, PTL DEF EnvSpec, AsOfIsSettled


\* A set of numbers that is not empty has a least element.
LEMMA NatMin ==
    ASSUME NEW T, T \subseteq Nat, T # {}
    PROVE  \E x \in T : \A y \in T : x <= y
<1> DEFINE R == OpToRel(<, Nat)
<1>1. IsWellFoundedOn(R, Nat)
  BY Zenon, NatLessThanWellFounded
<1>2. PICK x \in T : \A y \in T : ~ (<<y, x>> \in R)
  BY Zenon, <1>1, WFMin
<1>3. R = {ss \in Nat \X Nat : ss[1] < ss[2]}
  BY Zenon DEF OpToRel
<1> HIDE DEF R
<1>4. \A y \in T : x <= y
  <2> TAKE y \in T
  <2>1. ~ (<<y, x>> \in {ss \in Nat \X Nat : ss[1] < ss[2]})
    BY Zenon, <1>2, <1>3
  <2> QED BY <2>1
<1> QED BY Zenon, <1>4

-----------------------------------------------------------------------------
(* The environment loops *)

\* Of some events one is the newest: max_event_ts_us has a value.
LEMMA NewestExists ==
    ASSUME NEW S \in SUBSET CursorEvents, S # {}
    PROVE  \E e \in S : \A d \in S : Stamp[d] <= Stamp[e]
<1> DEFINE Bad == {n \in Nat : \E T \in SUBSET S :
                      T # {} /\ Cardinality(T) = n /\ \A e \in T : \E d \in T : ~ (Stamp[d] <= Stamp[e])}
<1>0. IsFiniteSet(S) /\ \A e \in S : Stamp[e] \in Nat
  BY Zenon, FS_Subset, CursorAssumption
<1>1. Bad = {}
  <2> SUFFICES ASSUME Bad # {} PROVE FALSE
    BY Zenon
  <2>1. PICK n \in Bad : \A k \in Bad : n <= k
    BY Zenon, NatMin, Bad \subseteq Nat
  <2>2. PICK T \in SUBSET S : T # {} /\ Cardinality(T) = n /\ \A e \in T : \E d \in T : ~ (Stamp[d] <= Stamp[e])
    BY Zenon, <2>1
  <2>3. PICK a \in T : TRUE
    BY Zenon, <2>2
  <2>4. IsFiniteSet(T)
    BY Zenon, <1>0, FS_Subset
  <2>5. IsFiniteSet(T \ {a}) /\ Cardinality(T \ {a}) = n - 1 /\ n \in Nat
    BY Zenon, <2>4, <2>2, <2>3, FS_RemoveElement, FS_CardinalityType
  <2>6. T \ {a} # {}
    BY <1>0, <2>2, <2>3
  <2>7. n - 1 \in Nat
    BY <2>5, FS_CardinalityType
  <2>8. n - 1 \notin Bad
    BY <2>1, <2>5
  <2>9. PICK m \in T \ {a} : \A d \in T \ {a} : Stamp[d] <= Stamp[m]
    BY Zenon, <2>8, <2>7, <2>6, <2>5
  <2>10. m \in T /\ Stamp[m] \in Nat /\ Stamp[a] \in Nat /\ \A d \in T : Stamp[d] \in Nat
    BY Zenon, <1>0
  <2> HIDE DEF Bad
  <2> QED BY <2>2, <2>3, <2>9, <2>10
<1>2. Cardinality(S) \in Nat /\ Cardinality(S) \notin Bad
  BY Zenon, <1>0, <1>1, FS_CardinalityType
<1> HIDE DEF Bad
<1> SUFFICES ASSUME ~ \E e \in S : \A d \in S : Stamp[d] <= Stamp[e] PROVE FALSE
  BY Zenon
<1> QED BY Zenon, <1>2 DEF Bad

LEMMA MaxStampIsMax ==
    ASSUME NEW S \in SUBSET CursorEvents, S # {}
    PROVE  /\ MaxStamp(S) \in Nat \ {0}
           /\ \A e \in S : Stamp[e] <= MaxStamp(S)
           /\ \E e \in S : Stamp[e] = MaxStamp(S)
<1>1. \E e \in S : \A d \in S : Stamp[d] <= Stamp[e]
  BY Zenon, NewestExists
<1> DEFINE m == CHOOSE e \in S : \A d \in S : Stamp[d] <= Stamp[e]
<1>2. m \in S /\ \A d \in S : Stamp[d] <= Stamp[m]
  BY Zenon, <1>1
<1>3. MaxStamp(S) = Stamp[m]
  BY Zenon DEF MaxStamp
<1> HIDE DEF m
<1>4. Stamp[m] \in Nat \ {0}
  BY Zenon, <1>2, CursorAssumption
<1> QED BY Zenon, <1>2, <1>3, <1>4

Untaken == {e \in arrived \ late : taken[e] = 0}

CursorTypes ==
    /\ loop \in {"learn", "detect"}
    /\ phase \in {"asleep", "saving", "taking"}
    /\ arrived \subseteq CursorEvents /\ late \subseteq arrived /\ page \subseteq arrived
    /\ taken \in [CursorEvents -> Nat]
    /\ reach \in Nat /\ halts \in Nat
    /\ wm = {} \/ \E w \in Nat : wm = {w}

\* The watermark is behind what the last page reached, a loop with no page in
\* hand holds no event, and the detector's page is ahead of its watermark.
Behind == \A w \in wm : w <= reach
EmptyHanded == phase = "asleep" \/ (loop = "detect" /\ phase = "saving") => page = {}
Seeded == phase # "asleep" => wm # {}
PageAhead == loop = "detect" => \A e \in page, w \in wm : Stamp[e] > w

\* What the cursor has reached and not taken in is in the page in hand.
ReachedIsInHand == wm # {} => \A e \in Untaken : Stamp[e] <= reach => e \in page
Forgot == loop = "learn" /\ halts > 0

CursorInv ==
    CursorTypes /\ Behind /\ EmptyHanded /\ PageAhead /\ Seeded /\ (Forgot \/ ReachedIsInHand)

\* A page holds everything up to the watermark it leaves behind.
LEMMA PageIsWhole ==
    ASSUME NEW w \in Nat, arrived \subseteq CursorEvents, NEW P \in SUBSET arrived,
           P # {}, IsPage(P, After(w)),
           NEW e \in arrived, Stamp[e] > w,
           Stamp[e] <= IF NextWatermark(P) > w THEN NextWatermark(P) ELSE w
    PROVE  e \in P
<1>1. SUFFICES ASSUME e \notin P PROVE FALSE
  BY Zenon
<1>2. e \in After(w) /\ After(w) \subseteq CursorEvents
  BY Zenon DEF After
<1>3. MaxStamp(P) \in Nat \ {0} /\ \E d \in P : Stamp[d] = MaxStamp(P)
  BY Zenon, MaxStampIsMax
<1>4. Stamp[e] \in Nat /\ MaxStamp(P) <= Stamp[e]
  BY Zenon, <1>1, <1>2, <1>3, CursorAssumption DEF IsPage
<1>5. IsFiniteSet(After(w)) /\ IsFiniteSet(P)
  BY Zenon, <1>2, FS_Subset, CursorAssumption
<1>6. Cardinality(After(w)) \in Nat /\ Cardinality(P) \in Nat
  BY Zenon, <1>5, FS_CardinalityType
<1>7. Cardinality(P) # Cardinality(After(w))
  BY Zenon, <1>1, <1>2, <1>5, FS_Subset DEF IsPage
<1>8. Cardinality(P) >= SCAN
  BY <1>6, <1>7, CursorAssumption DEF IsPage
<1>9. NextWatermark(P) = MaxStamp(P) - 1
  BY Zenon, <1>8 DEF NextWatermark
<1> QED BY <1>3, <1>4, <1>9

LEMMA NextWatermarkIsNat ==
    ASSUME NEW P \in SUBSET CursorEvents, P # {}
    PROVE  NextWatermark(P) \in Nat
<1>1. MaxStamp(P) \in Nat \ {0}
  BY Zenon, MaxStampIsMax
<1>2. MaxStamp(P) \in Nat /\ MaxStamp(P) - 1 \in Nat
  BY <1>1
<1> QED BY Zenon, <1>2 DEF NextWatermark

LEMMA CursorInvInit == CursorInit => CursorInv
BY DEF CursorInit, CursorInv, CursorTypes, Behind, EmptyHanded, PageAhead, Seeded, ReachedIsInHand, Untaken, Forgot

LEMMA CursorInvStep == CursorInv /\ [CursorNext]_cursorVars => CursorInv'
<1> SUFFICES ASSUME CursorInv, [CursorNext]_cursorVars PROVE CursorInv'
  BY Zenon
<1> USE DEF CursorInv
<1>s. \A e \in CursorEvents : Stamp[e] \in Nat \ {0}
  BY Zenon, CursorAssumption
<1>w. \A w \in wm : w \in Nat /\ wm = {w}
  BY Zenon DEF CursorTypes
<1>e. Seeded'
  <2>1. SetWatermark(reach) => wm' # {}
    BY Zenon DEF SetWatermark, CursorTypes
  <2> QED BY <2>1, Zenon DEF Seeded, CursorNext, LoopStep, Arrive, Seed, Scan, Save, Take, CursorCrash, cursorVars
<1> HIDE DEF Seeded
<1>1. ASSUME NEW e \in CursorEvents, Arrive(e) PROVE CursorInv'
  <2>1. CursorTypes'
    BY Zenon, <1>1 DEF CursorTypes, Arrive
  <2>2. Behind' /\ EmptyHanded' /\ PageAhead' /\ (Forgot => Forgot')
    BY Zenon, <1>1 DEF Arrive, Behind, EmptyHanded, PageAhead, Forgot
  <2>3. ReachedIsInHand => ReachedIsInHand'
    BY Zenon, <1>1 DEF Arrive, ReachedIsInHand, Untaken
  <2> QED BY Zenon, <1>e, <2>1, <2>2, <2>3
<1>2. ASSUME Seed PROVE CursorInv'
  <2>1. arrived \in SUBSET CursorEvents /\ arrived # {}
    BY Zenon, <1>2 DEF Seed, CursorTypes
  <2>2. MaxStamp(arrived) \in Nat
    BY Zenon, <2>1, MaxStampIsMax
  <2>3. wm' = {MaxStamp(arrived)} /\ reach' = MaxStamp(arrived) /\ page = {} /\ late' = arrived
    BY Zenon, <1>2 DEF Seed, SetWatermark, EmptyHanded
  <2>4. CursorTypes'
    BY Zenon, <1>2, <2>2, <2>3 DEF CursorTypes, Seed
  <2>5. Behind' /\ EmptyHanded' /\ PageAhead'
    BY <1>2, <2>2, <2>3 DEF Behind, EmptyHanded, PageAhead, Seed
  <2>6. ReachedIsInHand'
    BY Zenon, <1>2, <2>3 DEF ReachedIsInHand, Untaken, Seed
  <2> QED BY Zenon, <1>e, <2>4, <2>5, <2>6
<1>3. ASSUME Scan PROVE CursorInv'
  <2>1. PICK w \in wm, P \in SUBSET arrived :
          /\ P # {} /\ IsPage(P, After(w)) /\ page' = P
          /\ reach' = IF NextWatermark(P) > w THEN NextWatermark(P) ELSE w
    BY Zenon, <1>3 DEF Scan
  <2>2. w \in Nat /\ wm = {w} /\ page = {} /\ P \in SUBSET CursorEvents /\ arrived \subseteq CursorEvents
    BY Zenon, <1>3, <1>w DEF Scan, EmptyHanded, CursorTypes
  <2>3. NextWatermark(P) \in Nat
    BY Zenon, <2>1, <2>2, NextWatermarkIsNat
  <2>4. reach' \in Nat /\ w <= reach'
    BY <2>1, <2>2, <2>3
  <2>5. CursorTypes'
    BY Zenon, <1>3, <2>1, <2>4 DEF CursorTypes, Scan
  <2>6. Behind' /\ EmptyHanded'
    BY Zenon, <1>3, <2>2, <2>4 DEF Behind, EmptyHanded, Scan, CursorTypes
  <2>7. PageAhead'
    BY Zenon, <1>3, <2>1, <2>2 DEF PageAhead, Scan, IsPage, After
  <2>8. ASSUME ReachedIsInHand PROVE ReachedIsInHand'
    <3>1. Untaken' = Untaken /\ wm' = wm
      BY Zenon, <1>3 DEF Scan, Untaken
    <3>2. SUFFICES ASSUME NEW e \in Untaken, Stamp[e] <= reach' PROVE e \in P
      BY Zenon, <2>1, <3>1 DEF ReachedIsInHand
    <3>3. e \in arrived /\ Stamp[e] \in Nat
      BY Zenon, <1>s, <2>2 DEF Untaken
    <3>4. Stamp[e] > w
      BY <2>2, <2>8, <3>3 DEF ReachedIsInHand, Behind, CursorTypes
    <3> QED BY Zenon, <2>1, <2>2, <3>2, <3>3, <3>4, PageIsWhole
  <2>9. Forgot => Forgot'
    BY Zenon, <1>3 DEF Scan, Forgot
  <2> QED BY Zenon, <1>e, <2>5, <2>6, <2>7, <2>8, <2>9
<1>4. ASSUME Save PROVE CursorInv'
  <2>1. reach' = reach /\ (wm' = wm \/ wm' = {reach}) /\ wm # {}
    BY Zenon, <1>4 DEF Save, SetWatermark, Seeded
  <2>2. CursorTypes'
    BY Zenon, <1>4, <2>1 DEF CursorTypes, Save
  <2>3. Behind' /\ EmptyHanded'
    <3>1. Behind'
      BY <2>1 DEF Behind, CursorTypes
    <3>2. EmptyHanded'
      BY Zenon, <1>4 DEF EmptyHanded, Save, CursorTypes
    <3> QED BY Zenon, <3>1, <3>2
  <2>4. PageAhead'
    BY Zenon, <1>4 DEF PageAhead, EmptyHanded, Save
  <2>5. (Forgot => Forgot') /\ (ReachedIsInHand => ReachedIsInHand')
    <3>1. Untaken' = Untaken /\ page' = page /\ Forgot' = Forgot
      BY Zenon, <1>4 DEF Untaken, Forgot, Save
    <3> QED BY Zenon, <2>1, <3>1 DEF ReachedIsInHand
  <2> QED BY Zenon, <1>e, <2>2, <2>3, <2>4, <2>5
<1>5. ASSUME NEW e \in CursorEvents, Take(e) PROVE CursorInv'
  <2>1. taken' = [taken EXCEPT ![e] = @ + 1] /\ page' = page \ {e} /\ taken[e] \in Nat
    BY Zenon, <1>5 DEF Take, CursorTypes
  <2>2. CursorTypes'
    BY <1>5, <2>1 DEF CursorTypes, Take
  <2>3. Behind' /\ EmptyHanded' /\ PageAhead' /\ (Forgot => Forgot')
    BY Zenon, <1>5, <2>1 DEF Behind, EmptyHanded, PageAhead, Take, CursorTypes, Forgot
  <2>4. taken'[e] # 0 /\ \A d \in CursorEvents : d # e => taken'[d] = taken[d]
    BY <2>1 DEF CursorTypes
  <2>5. Untaken' \subseteq Untaken \ {e}
    BY Zenon, <1>5, <2>4 DEF Untaken, Take, CursorTypes
  <2>6. ReachedIsInHand => ReachedIsInHand'
    BY Zenon, <1>5, <2>1, <2>5 DEF ReachedIsInHand, Take
  <2> QED BY Zenon, <1>e, <2>2, <2>3, <2>6
<1>6. ASSUME CursorCrash PROVE CursorInv'
  <2>1. reach' \in Nat /\ \A w \in wm : w = reach'
    BY <1>6, <1>w DEF CursorCrash
  <2>2. CursorTypes'
    BY <1>6, <2>1 DEF CursorTypes, CursorCrash
  <2>3. Behind' /\ EmptyHanded' /\ PageAhead'
    BY <1>6, <2>1 DEF Behind, EmptyHanded, PageAhead, CursorCrash
  <2>4. CASE loop = "learn"
    BY <1>e, <1>6, <2>2, <2>3, <2>4 DEF Forgot, CursorCrash, CursorTypes
  <2>5. CASE loop = "detect"
    <3>1. ReachedIsInHand /\ Untaken' = Untaken /\ wm' = wm
      BY Zenon, <1>6, <2>5 DEF Forgot, CursorCrash, Untaken
    <3>2. ASSUME NEW d \in Untaken, NEW w \in wm, Stamp[d] <= w PROVE FALSE
      <4>1. Stamp[d] \in Nat /\ w \in Nat /\ w <= reach /\ reach \in Nat
        BY Zenon, <1>s, <1>w DEF Untaken, Behind, CursorTypes
      <4>2. d \in page
        BY <3>1, <3>2, <4>1 DEF ReachedIsInHand
      <4> QED BY <2>5, <3>2, <4>1, <4>2 DEF PageAhead
    <3>3. ReachedIsInHand'
      BY Zenon, <2>1, <3>1, <3>2 DEF ReachedIsInHand
    <3> QED BY Zenon, <1>e, <2>2, <2>3, <3>3
  <2> QED BY Zenon, <2>4, <2>5 DEF CursorTypes
<1>7. CASE UNCHANGED cursorVars
  BY Zenon, <1>e, <1>7 DEF cursorVars, CursorTypes, Behind, EmptyHanded, PageAhead, Seeded, ReachedIsInHand, Untaken, Forgot
<1> QED BY Zenon, <1>1, <1>2, <1>3, <1>4, <1>5, <1>6, <1>7 DEF CursorNext, LoopStep

\* Neither of the loops passes an event over, whatever the size of a page and
\* of a group of events with one timestamp, however often the daemon stops or
\* a watermark fails to save: what the durable watermark has gone by was taken
\* in or is in the page in hand, but for events that arrived behind the cursor
\* and, with the learner, for what a stop took from its hands.
THEOREM CursorPassesNothingOver == CursorSpec => []NothingPassedOver
<1>1. CursorInv => NothingPassedOver
  <2> SUFFICES ASSUME CursorInv, ReachedIsInHand PROVE PassedOver \subseteq page
    BY Zenon DEF CursorInv, NothingPassedOver, Forgot
  <2> SUFFICES ASSUME NEW e \in PassedOver PROVE e \in page
    BY Zenon
  <2>1. PICK w \in wm : e \in Untaken /\ Stamp[e] <= w
    BY Zenon DEF PassedOver, Untaken
  <2>2. Stamp[e] \in Nat /\ w \in Nat /\ w <= reach /\ reach \in Nat
    BY <2>1, CursorAssumption DEF CursorInv, CursorTypes, Behind, Untaken
  <2>3. Stamp[e] <= reach
    BY <2>1, <2>2
  <2> QED BY Zenon, <2>1, <2>3 DEF ReachedIsInHand
<1> QED BY <1>1, CursorInvInit, CursorInvStep, PTL DEF CursorSpec

-----------------------------------------------------------------------------
(* The recovery images *)

\* A capture that runs.
Taking == [id : Nat, first : Dirs \X Nat, listed : SUBSET Dirs, copied : [Dirs -> Nat], pin : {<<>>} \cup (Dirs \X Nat)]

\* The types of the warehouse, of the capture that runs and of the images.
CaptureTypes ==
    /\ now \in Nat
    /\ catalog \in Dirs \X Nat
    /\ dirs \in [Dirs -> Nat]
    /\ retired \in [Dirs -> SUBSET Nat]
    /\ gone \subseteq Dirs
    /\ taking \subseteq Taking
    /\ kept \subseteq [id : Nat, whole : BOOLEAN]

\* The directory the catalog names has the files it lists and is in use; a
\* directory is deleted a grace after it was retired.
StoreInv ==
    /\ dirs[catalog[1]] >= catalog[2] /\ catalog[2] > 0
    /\ \A d \in Dirs : d >= catalog[1] => retired[d] = {}
    /\ \A d \in gone : \E t \in retired[d] : now >= t + Grace

\* One capture runs.  The directory it started from was in use, so that it was
\* retired later if at all; it was listed unless it was gone, and its copy has
\* what the first snapshot had.
TakingInv ==
    /\ \A c, d \in taking : c = d
    /\ \A c \in taking :
          /\ c.id <= now
          /\ dirs[c.first[1]] >= c.first[2] /\ c.first[2] > 0
          /\ c.first[1] <= catalog[1]
          /\ \A t \in retired[c.first[1]] : t >= c.id
          /\ c.listed # {} => c.first[1] \in c.listed \cup gone
          /\ c.copied[c.first[1]] = 0 \/ c.copied[c.first[1]] >= c.first[2]
          /\ \A i \in kept : i.id <= c.id /\ (i.id = c.id => ~i.whole)

CaptureInv == CaptureTypes /\ StoreInv /\ TakingInv

\* A warehouse that has one directory, no capture and no image.
LEMMA CaptureInitial == CaptureInit => CaptureInv
<1> SUFFICES ASSUME CaptureInit PROVE CaptureInv
  BY Zenon
<1>1. 1 \in Dirs /\ 0 \in Nat /\ 1 \in Nat
  BY CaptureAssumption DEF Dirs
<1>2. CaptureTypes
  BY <1>1 DEF CaptureInit, CaptureTypes
<1>3. StoreInv
  BY <1>1 DEF CaptureInit, StoreInv
<1> QED BY Zenon, <1>2, <1>3 DEF CaptureInv, CaptureInit, TakingInv

\* Every step of the warehouse and of the capture keeps the invariant.
LEMMA CaptureStep == CaptureInv /\ [CaptureNext]_captureVars => CaptureInv'
<1> SUFFICES ASSUME CaptureInv, [CaptureNext]_captureVars PROVE CaptureInv'
  BY Zenon
<1>0. CaptureTypes /\ StoreInv /\ TakingInv
  BY Zenon DEF CaptureInv
<1> DEFINE k == catalog[1]
           n == catalog[2]
<1>k. /\ k \in Dirs /\ n \in Nat /\ k \in Nat /\ catalog = <<k, n>> /\ MaxDirs \in Nat
      /\ dirs[k] >= n /\ n > 0 /\ dirs[k] \in Nat
  BY <1>0, CaptureAssumption DEF CaptureTypes, StoreInv, Dirs
<1> HIDE DEF k, n
<1>1. CASE AppendFile
  <2>1. /\ catalog' = <<k, n + 1>> /\ dirs' = [dirs EXCEPT ![k] = @ + 1]
        /\ UNCHANGED <<now, retired, gone, taking, kept>>
    BY Zenon, <1>1, <1>k DEF AppendFile, k, n
  <2>2. catalog'[1] = k /\ catalog'[2] = n + 1
    BY <2>1
  <2>3. dirs[k] + 1 \in Nat /\ n + 1 \in Nat /\ dirs[k] + 1 >= n + 1 /\ n + 1 > 0
    BY <1>k
  <2>4. CaptureTypes'
    BY Zenon, <1>0, <1>k, <2>1, <2>3 DEF CaptureTypes
  <2>5. dirs'[k] = dirs[k] + 1 /\ \A d \in Dirs : d # k => dirs'[d] = dirs[d]
    BY Zenon, <1>0, <1>k, <2>1 DEF CaptureTypes
  <2>6. StoreInv'
    BY Zenon, <1>0, <1>k, <2>1, <2>2, <2>3, <2>5 DEF StoreInv, k
  <2>7. \A c \in taking : dirs'[c.first[1]] >= c.first[2]
    <3> TAKE c \in taking
    <3>1. c.first[1] \in Dirs /\ c.first[2] \in Nat /\ dirs[c.first[1]] \in Nat /\ dirs[c.first[1]] >= c.first[2]
      BY Zenon, <1>0 DEF CaptureTypes, Taking, TakingInv
    <3>2. dirs[c.first[1]] + 1 >= c.first[2]
      BY <3>1
    <3> QED BY Zenon, <2>5, <3>1, <3>2
  <2>8. TakingInv'
    BY Zenon, <1>0, <1>k, <2>1, <2>2, <2>7 DEF TakingInv, k
  <2> QED BY Zenon, <2>4, <2>6, <2>8 DEF CaptureInv
<1>2. CASE run_compaction
  <2>1. /\ catalog' = <<k + 1, 1>> /\ dirs' = [dirs EXCEPT ![k + 1] = 1] /\ k < MaxDirs
        /\ retired' = [retired EXCEPT ![k] = {now}]
        /\ UNCHANGED <<now, gone, taking, kept>>
    BY Zenon, <1>2, <1>k DEF run_compaction, k, n
  <2>2. catalog'[1] = k + 1 /\ catalog'[2] = 1 /\ k + 1 \in Dirs /\ 1 \in Nat /\ k # k + 1 /\ 1 >= 1 /\ 1 > 0
    BY <1>k, <2>1 DEF Dirs
  <2>3. CaptureTypes'
    BY Zenon, <1>0, <1>k, <2>1, <2>2 DEF CaptureTypes
  <2>4. /\ dirs'[k + 1] = 1 /\ \A d \in Dirs : d # k + 1 => dirs'[d] = dirs[d]
        /\ retired'[k] = {now} /\ \A d \in Dirs : d # k => retired'[d] = retired[d]
    BY Zenon, <1>0, <1>k, <2>1, <2>2 DEF CaptureTypes
  <2>5. StoreInv'
    <3>1. ASSUME NEW d \in Dirs, d >= k + 1 PROVE retired'[d] = {}
      <4>1. d >= k /\ d # k
        BY <1>k, <3>1 DEF Dirs
      <4> QED BY Zenon, <1>0, <2>4, <4>1 DEF StoreInv, k
    <3>2. \A d \in gone : d # k /\ d \in Dirs
      <4>1. k >= k
        BY <1>k
      <4> QED BY Zenon, <1>0, <1>k, <4>1 DEF StoreInv, CaptureTypes, k
    <3>3. \A d \in gone : \E t \in retired'[d] : now >= t + Grace
      BY Zenon, <1>0, <2>4, <3>2 DEF StoreInv
    <3> QED BY Zenon, <2>1, <2>2, <2>4, <3>1, <3>3 DEF StoreInv
  <2>6. ASSUME NEW c \in taking
        PROVE  /\ dirs'[c.first[1]] >= c.first[2] /\ c.first[1] <= k + 1
               /\ \A t \in retired'[c.first[1]] : t >= c.id
    <3>1. /\ c.first[1] \in Dirs /\ c.first[1] <= k /\ c.id \in Nat /\ now \in Nat /\ c.id <= now
          /\ dirs[c.first[1]] >= c.first[2] /\ \A t \in retired[c.first[1]] : t >= c.id
      BY Zenon, <1>0 DEF CaptureTypes, Taking, TakingInv, k
    <3>2. c.first[1] # k + 1 /\ c.first[1] <= k + 1 /\ now >= c.id
      BY <1>k, <3>1 DEF Dirs
    <3> QED BY ZenonT(60), <2>4, <3>1, <3>2
  <2>7. TakingInv'
    BY Zenon, <1>0, <2>1, <2>2, <2>6 DEF TakingInv
  <2> QED BY Zenon, <2>3, <2>5, <2>7 DEF CaptureInv
<1>3. ASSUME NEW d \in Dirs, DeleteRetired(d) PROVE CaptureInv'
  <2>1. /\ gone' = gone \cup {d} /\ \E t \in retired[d] : now >= t + Grace
        /\ UNCHANGED <<now, catalog, dirs, retired, taking, kept>>
    BY Zenon, <1>3 DEF DeleteRetired
  <2> QED BY Zenon, <1>0, <2>1 DEF CaptureInv, CaptureTypes, StoreInv, TakingInv
<1>4. CASE PassTime
  <2>1. now \in Nat /\ now' = now + 1 /\ UNCHANGED <<catalog, dirs, retired, gone, taking, kept>>
    BY Zenon, <1>0, <1>4 DEF PassTime, CaptureTypes
  <2>2. CaptureTypes'
    <3>1. now' \in Nat
      BY <2>1
    <3> QED BY Zenon, <1>0, <2>1, <3>1 DEF CaptureTypes
  <2>3. StoreInv'
    <3>1. \A d \in gone : \E t \in retired[d] : now' >= t + Grace
      <4> TAKE d \in gone
      <4>1. PICK t \in retired[d] : now >= t + Grace
        BY Zenon, <1>0 DEF StoreInv
      <4>2. t \in Nat /\ Grace \in Nat
        BY Zenon, <1>0, CaptureAssumption DEF CaptureTypes
      <4>3. now' >= t + Grace
        BY <2>1, <4>1, <4>2
      <4> QED BY Zenon, <4>3
    <3> QED BY Zenon, <1>0, <2>1, <3>1 DEF StoreInv
  <2>4. \A c \in taking : c.id <= now'
    <3> TAKE c \in taking
    <3>1. c.id \in Nat /\ c.id <= now
      BY Zenon, <1>0 DEF CaptureTypes, Taking, TakingInv
    <3> QED BY <2>1, <3>1
  <2>5. TakingInv'
    BY Zenon, <1>0, <2>1, <2>4 DEF TakingInv
  <2> QED BY Zenon, <2>2, <2>3, <2>5 DEF CaptureInv
<1>5. CASE BeginCapture
  <2> DEFINE c == [id |-> now, first |-> catalog, listed |-> {}, copied |-> [d \in Dirs |-> 0], pin |-> <<>>]
  <2>1. /\ \A i \in kept : i.id < now
        /\ taking' = {c} /\ kept' = kept \cup {[id |-> now, whole |-> FALSE]}
        /\ UNCHANGED <<now, catalog, dirs, retired, gone>>
    BY Zenon, <1>5 DEF BeginCapture
  <2>2. /\ c.id = now /\ c.first = catalog /\ c.listed = {} /\ \A d \in Dirs : c.copied[d] = 0
        /\ c.copied = [d \in Dirs |-> 0] /\ c.pin = <<>>
    BY Zenon
  <2>3. c \in Taking
    BY <1>0 DEF Taking, CaptureTypes
  <2> HIDE DEF c
  <2>4. CaptureTypes'
    <3>1. [id |-> now, whole |-> FALSE] \in [id : Nat, whole : BOOLEAN]
      BY <1>0 DEF CaptureTypes
    <3> QED BY Zenon, <1>0, <2>1, <2>3, <3>1 DEF CaptureTypes
  <2>5. StoreInv'
    BY Zenon, <1>0, <2>1 DEF StoreInv
  <2>6. now \in Nat /\ now <= now /\ k <= k /\ k >= k /\ \A i \in kept' : i.id <= now /\ (i.id = now => ~i.whole)
    <3>1. now \in Nat /\ \A i \in kept : i.id \in Nat
      BY Zenon, <1>0 DEF CaptureTypes
    <3> QED BY <1>k, <2>1, <3>1
  <2>7. retired[k] = {}
    BY Zenon, <1>0, <1>k, <2>6 DEF StoreInv, k
  <2>8. TakingInv'
    <3>1. c.id = now' /\ c.first[1] = k /\ c.first[2] = n /\ c.listed = {} /\ c.copied[k] = 0
      BY Zenon, <1>k, <2>1, <2>2 DEF k, n
    <3>2. \A t \in retired[k] : t >= c.id
      BY Zenon, <2>7
    <3>3. /\ c.id <= now' /\ dirs'[c.first[1]] >= c.first[2] /\ c.first[2] > 0 /\ c.first[1] <= catalog'[1]
          /\ \A t \in retired'[c.first[1]] : t >= c.id
          /\ c.listed # {} => c.first[1] \in c.listed \cup gone'
          /\ c.copied[c.first[1]] = 0 \/ c.copied[c.first[1]] >= c.first[2]
      BY Zenon, <1>k, <2>1, <2>6, <3>1, <3>2 DEF k
    <3>4. \A i \in kept' : i.id <= c.id /\ (i.id = c.id => ~i.whole)
      BY Zenon, <2>1, <2>6, <3>1
    <3> QED BY Zenon, <2>1, <3>3, <3>4 DEF TakingInv
  <2> QED BY Zenon, <2>4, <2>5, <2>8 DEF CaptureInv
<1>t. ASSUME NEW c \in taking, NEW e \in Taking, taking' = {e}, e.id = c.id, e.first = c.first,
             e.listed # {} => e.first[1] \in e.listed \cup gone,
             e.copied[e.first[1]] = 0 \/ e.copied[e.first[1]] >= e.first[2],
             UNCHANGED <<now, catalog, dirs, retired, gone, kept>>
      PROVE  CaptureInv'
  <2>1. CaptureTypes' /\ StoreInv'
    BY Zenon, <1>0, <1>t DEF CaptureTypes, StoreInv
  <2>2. TakingInv'
    BY ZenonT(60), <1>0, <1>t DEF TakingInv
  <2> QED BY Zenon, <2>1, <2>2 DEF CaptureInv
<1>6. CASE ListWarehouse
  <2>1. PICK c \in taking : /\ taking' = {[c EXCEPT !.listed = {d \in Dirs : Exists(d)}]}
                            /\ UNCHANGED <<now, catalog, dirs, retired, gone, kept>>
    BY Zenon, <1>6 DEF ListWarehouse
  <2> DEFINE e == [c EXCEPT !.listed = {d \in Dirs : Exists(d)}]
  <2>2. /\ e \in Taking /\ e.id = c.id /\ e.first = c.first /\ e.copied = c.copied
        /\ e.listed = {d \in Dirs : Exists(d)}
    BY Zenon, <1>0 DEF CaptureTypes, Taking
  <2> HIDE DEF e
  <2>3. /\ c.first[1] \in Dirs /\ c.first[2] \in Nat /\ dirs[c.first[1]] \in Nat
        /\ dirs[c.first[1]] >= c.first[2] /\ c.first[2] > 0
    BY Zenon, <1>0 DEF CaptureTypes, Taking, TakingInv
  <2>4. dirs[c.first[1]] > 0
    BY <2>3
  <2>5. e.first[1] \in e.listed \cup gone
    BY Zenon, <2>2, <2>3, <2>4 DEF Exists
  <2> QED BY Zenon, <1>0, <1>t, <2>1, <2>2, <2>5 DEF e, TakingInv
<1>7. ASSUME NEW d \in Dirs, CopyDir(d) PROVE CaptureInv'
  <2>1. PICK c \in taking : /\ taking' = {[c EXCEPT !.copied[d] = dirs[d]]} /\ d \in c.listed
                            /\ UNCHANGED <<now, catalog, dirs, retired, gone, kept>>
    BY Zenon, <1>7 DEF CopyDir
  <2> DEFINE e == [c EXCEPT !.copied[d] = dirs[d]]
  <2>2. c \in Taking /\ dirs[d] \in Nat /\ c.copied \in [Dirs -> Nat]
    BY Zenon, <1>0 DEF CaptureTypes, Taking
  <2>3. /\ e \in Taking /\ e.id = c.id /\ e.first = c.first /\ e.listed = c.listed
        /\ e.copied = [c.copied EXCEPT ![d] = dirs[d]]
    BY Zenon, <2>2 DEF Taking
  <2> HIDE DEF e
  <2>4. c.first[1] \in Dirs
    BY Zenon, <2>2 DEF Taking
  <2>5. e.copied[c.first[1]] = IF c.first[1] = d THEN dirs[d] ELSE c.copied[c.first[1]]
    BY Zenon, <2>2, <2>3, <2>4
  <2> QED BY ZenonT(60), <1>0, <1>t, <2>1, <2>3, <2>5 DEF e, TakingInv
<1>8. CASE CopyCatalog
  <2>1. PICK c \in taking : /\ taking' = {[c EXCEPT !.pin = catalog]}
                            /\ UNCHANGED <<now, catalog, dirs, retired, gone, kept>>
    BY Zenon, <1>8 DEF CopyCatalog
  <2> DEFINE e == [c EXCEPT !.pin = catalog]
  <2>2. /\ e \in Taking /\ e.id = c.id /\ e.first = c.first /\ e.copied = c.copied /\ e.listed = c.listed
    BY Zenon, <1>0 DEF CaptureTypes, Taking
  <2> HIDE DEF e
  <2> QED BY Zenon, <1>0, <1>t, <2>1, <2>2 DEF e, TakingInv
<1>9. ASSUME taking' = {}, kept' \subseteq [id : Nat, whole : BOOLEAN],
             UNCHANGED <<now, catalog, dirs, retired, gone>>
      PROVE  CaptureInv'
  BY Zenon, <1>0, <1>9 DEF CaptureInv, CaptureTypes, StoreInv, TakingInv
<1>10. CASE CaptureFails
  BY Zenon, <1>0, <1>9, <1>10 DEF CaptureFails, CaptureTypes
<1>11. CASE EndCapture
  <2>1. PICK c \in taking : kept' \subseteq kept \cup {[id |-> c.id, whole |-> TRUE]}
    BY Zenon, <1>11 DEF EndCapture
  <2>2. kept' \subseteq [id : Nat, whole : BOOLEAN]
    <3>1. c.id \in Nat /\ kept \subseteq [id : Nat, whole : BOOLEAN]
      BY Zenon, <1>0 DEF CaptureTypes, Taking
    <3>2. [id |-> c.id, whole |-> TRUE] \in [id : Nat, whole : BOOLEAN]
      BY <3>1
    <3> QED BY Zenon, <2>1, <3>1, <3>2
  <2> QED BY Zenon, <1>9, <1>11, <2>2 DEF EndCapture
<1>12. CASE UNCHANGED captureVars
  BY Zenon, <1>0, <1>12 DEF captureVars, CaptureInv, CaptureTypes, StoreInv, TakingInv
<1> QED BY Zenon, <1>1, <1>2, <1>3, <1>4, <1>5, <1>6, <1>7, <1>8, <1>10, <1>11, <1>12 DEF CaptureNext

\* The invariant of the captures, beside every course of appends, compactions and
\* deletions (run_compaction, delete_retired and the capture of recovery.rs).
THEOREM CaptureInvariance == CaptureSpec => []CaptureInv
  BY CaptureInitial, CaptureStep, PTL DEF CaptureSpec

\* Which step puts up a whole image, and what it leaves of the others.
LEMMA EndOfCapture ==
    ASSUME CaptureInv, EndCapture
    PROVE  \E c \in taking :
             /\ taking = {c} /\ Copied(c)
             /\ LET others == {i \in kept : i.id # c.id}
                    all == others \cup {[id |-> c.id, whole |-> TRUE]}
                IN  IF within_safety_window(now - c.id)
                    THEN \E removed \in SUBSET plan_prune(all) : kept' = all \ removed
                    ELSE kept' \in {others, kept}
  BY ZenonT(60) DEF EndCapture, CaptureInv, TakingInv

\* "That grace IS the pin": SnapshotCaptured of Capture, for every grace and
\* every course of the compactions beside the capture.
THEOREM SnapshotIsCaptured == CaptureSpec => SnapshotCaptured
<1>1. ASSUME CaptureInv, [CaptureNext]_captureVars, NEW c \in taking,
             [id |-> c.id, whole |-> TRUE] \in kept' \ kept
      PROVE  c.copied[c.first[1]] >= c.first[2]
  <2>1. EndCapture
    <3>1. \A x : [id |-> x, whole |-> TRUE] # [id |-> now, whole |-> FALSE]
      OBVIOUS
    <3> QED BY Zenon, <1>1, <3>1 DEF CaptureNext, captureVars, AppendFile, run_compaction, DeleteRetired, PassTime,
              BeginCapture, ListWarehouse, CopyDir, CopyCatalog, CaptureFails
  <2>2. within_safety_window(now - c.id) /\ Copied(c)
    BY Zenon, <1>1, <2>1, EndOfCapture
  <2>3. /\ c.id \in Nat /\ now \in Nat /\ c.id <= now /\ Grace \in Nat
        /\ c.first[1] \in Dirs /\ c.copied \in [Dirs -> Nat]
        /\ \A t \in retired[c.first[1]] : t \in Nat /\ t >= c.id
    BY Zenon, <1>1, CaptureAssumption DEF CaptureInv, CaptureTypes, Taking, TakingInv
  <2>4. now < c.id + Grace
    BY <2>2, <2>3 DEF within_safety_window
  <2>5. \A t \in retired[c.first[1]] : ~(now >= t + Grace)
    BY <2>3, <2>4
  <2>6. c.first[1] \in c.listed
    BY Zenon, <1>1, <2>2, <2>5 DEF CaptureInv, StoreInv, TakingInv, Copied
  <2>7. c.copied[c.first[1]] > 0 /\ c.copied[c.first[1]] \in Nat
    BY Zenon, <2>2, <2>3, <2>6 DEF Copied
  <2>8. c.copied[c.first[1]] # 0
    BY <2>7
  <2> QED BY Zenon, <1>1, <2>8 DEF CaptureInv, TakingInv
<1>2. CaptureInv /\ [CaptureNext]_captureVars
        => [\A c \in taking : [id |-> c.id, whole |-> TRUE] \in kept' \ kept
                 => c.copied[c.first[1]] >= c.first[2]]_captureVars
  BY Zenon, <1>1
<1> QED BY <1>2, CaptureInvariance, PTL DEF CaptureSpec, SnapshotCaptured

\* "a prune that gets it wrong destroys the thing you would use to recover":
\* RecoveryPointKept of Capture, for every number of images that are kept.
THEOREM RecoveryPointStays == CaptureSpec => RecoveryPointKept
<1>1. ASSUME CaptureInv, [CaptureNext]_captureVars,
             \/ \E i \in kept : i.whole
             \/ EndCapture /\ \E c \in taking : within_safety_window(now - c.id)
      PROVE  \E i \in kept' : i.whole
  <2>1. CASE EndCapture
    <3> DEFINE others(c) == {i \in kept : i.id # c.id}
               all(c) == others(c) \cup {[id |-> c.id, whole |-> TRUE]}
    <3>1. PICK c \in taking :
             /\ taking = {c}
             /\ within_safety_window(now - c.id) =>
                   \E removed \in SUBSET plan_prune(all(c)) : kept' = all(c) \ removed
             /\ ~within_safety_window(now - c.id) => kept' \in {others(c), kept}
      BY Zenon, <1>1, <2>1, EndOfCapture
    <3>2. CASE within_safety_window(now - c.id)
      <4> DEFINE i == [id |-> c.id, whole |-> TRUE]
      <4>1. i.whole /\ i.id = c.id /\ i \in all(c)
        BY Zenon
      <4>2. {j \in all(c) : j.id > i.id} = {}
        <5>1. c.id \in Nat /\ \A j \in all(c) : j.id \in Nat /\ j.id <= c.id
          <6>1. c.id \in Nat /\ \A j \in kept : j.id \in Nat /\ j.id <= c.id
            BY Zenon, <1>1 DEF CaptureInv, CaptureTypes, Taking, TakingInv
          <6> QED BY <6>1
        <5> QED BY <4>1, <5>1
      <4>3. i \notin plan_prune(all(c))
        <5>1. Cardinality({j \in all(c) : j.id > i.id}) = 0
          BY Zenon, <4>2, FS_EmptySet
        <5>2. Keep \in Nat
          BY Zenon, CaptureAssumption
        <5> HIDE DEF i, all
        <5> QED BY <5>1, <5>2 DEF plan_prune
      <4> HIDE DEF i, all
      <4> QED BY Zenon, <3>1, <3>2, <4>1, <4>3
    <3>3. CASE ~within_safety_window(now - c.id)
      <4>1. PICK i \in kept : i.whole
        BY Zenon, <1>1, <3>1, <3>3
      <4>2. i \in others(c)
        BY Zenon, <1>1, <4>1 DEF CaptureInv, TakingInv
      <4> QED BY Zenon, <3>1, <3>3, <4>1, <4>2
    <3> QED BY Zenon, <3>2, <3>3
  <2>2. CASE ~EndCapture
    <3>1. kept \subseteq kept'
      BY Zenon, <1>1, <2>2 DEF CaptureNext, captureVars, AppendFile, run_compaction, DeleteRetired, PassTime,
              BeginCapture, ListWarehouse, CopyDir, CopyCatalog, CaptureFails
    <3> QED BY Zenon, <1>1, <2>2, <3>1
  <2> QED BY Zenon, <2>1, <2>2
<1> QED BY <1>1, CaptureInvariance, PTL DEF CaptureSpec, RecoveryPointKept

=============================================================================
