---------------------------- MODULE Environment ----------------------------
(***************************************************************************)
(* The environment model: what garmr holds to be normal about the hosts it *)
(* watches (garmr-core/src/environment.rs and its store and HTTP surface). *)
(* A fact is never stored.  Evidence is an append-only stream of           *)
(* observations, governance an append-only stream of transitions, and the  *)
(* state and value of a fact are folded from the two.  Several writers     *)
(* work at once: the learner and the inventory import append observations, *)
(* the auto-promote loop and the analysts append transitions, and each     *)
(* stamps its rows with the time at which it BEGAN.                        *)
(***************************************************************************)
EXTENDS Naturals, FiniteSets, Functions

CONSTANTS Facts,         \* fact ids, all about one entity
          HighImpact,    \* those that only an analyst may promote
          Values,        \* the values they may have
          Sources,       \* bounded source ids
          Asserted,      \* the sources that are inventories
          Trust,         \* the trust of each source, as a percentage
          Quarantine,    \* how long a candidate must age
          AssertedQuarantine, \* ... when it comes from an inventory
          MinObservations, MinSources,
          MaxShare,      \* the influence cap, as a percentage
          Ttl,           \* after which a candidate that is not seen expires
          Analysts,
          Batches,       \* the writers of observations: "learner", "import"
          MaxNow,        \* bound on the clock
          MaxSightings,  \* bound on the sightings of a fact
          MaxTransitions \* bound on the transitions

VARIABLES envNow,      \* the clock
          observations, \* ENV_OBSERVATIONS: one row per fact, source and value
          sightings,   \* ENV_SIGHTINGS: first and last time, count per source
          transitions, \* ENV_TRANSITIONS
          began,       \* began[b]: the time a writer of observations began at
          job          \* job[a]: how far a writer of transitions has got

envVars == <<envNow, observations, sightings, transitions, began, job>>

Actors == Analysts \cup {"loop"}
NoJob == [step |-> "idle", at |-> 0, todo |-> {}]

EnvInit ==
    /\ envNow = 1
    /\ observations = {}
    /\ sightings = [f \in Facts |-> [first |-> 0, last |-> 0, count |-> [s \in Sources |-> 0]]]
    /\ transitions = {}
    /\ began = [b \in Batches |-> 0]
    /\ job = [a \in Actors |-> NoJob]

(* "compromised" stands for both Suspicious and KnownMalicious.            *)
is_protected(state) == state \in {"trusted", "compromised", "retired"}

-----------------------------------------------------------------------------
(* The folds.                                                              *)

(* The newest transition no other one supersedes, as a set of at most one. *)
(* Transition ids are random, so they break ties either way.               *)
newest_transition(T) ==
    LET live == {t \in T : \A u \in T : t.id \notin u.sup}
    IN  {t \in live : \A u \in live : u.at < t.at \/ (u.at = t.at /\ u.id <= t.id)}

OfFact(f, S) == {r \in S : r.fact = f}

NewestRows(R) == {r \in R : \A q \in R : q.at <= r.at}

(* The observation that wins among competing values: highest trust, then   *)
(* newest.  Several may win; the key order then decides.                   *)
Winners(R) ==
    {r \in R : \A q \in R : \/ Trust[q.source] < Trust[r.source]
                            \/ Trust[q.source] = Trust[r.source] /\ q.at <= r.at}

resolve_value(R) == CHOOSE r \in Winners(R) : TRUE

Tied(R) == \E q \in Winners(R) : q.value # resolve_value(R).value

BlessedRow(R, t) == {r \in R : [source |-> r.source, value |-> r.value] \in t.blessed}

Transition(T) == IF T = {} THEN "candidate" ELSE (CHOOSE t \in T : TRUE).to

(* Mutant of materialize_fact: the newest observation is shown.            *)
FollowNewest(R, T, last, now) ==
    LET state == Transition(newest_transition(T))
        shown == CHOOSE r \in NewestRows(R) : TRUE
    IN  [state |-> state, value |-> shown.value, mode |-> "observed", tie |-> FALSE]

(* The current view of a fact that has observations.  A protected fact     *)
(* carries the value its transition blessed; a candidate the one that wins *)
(* now, and only a candidate expires.                                      *)
materialize_fact(R, T, last, now) ==
    LET cur == newest_transition(T)
        state == Transition(cur)
        blessed == UNION {BlessedRow(R, t) : t \in cur}
        shown == IF ~is_protected(state) THEN resolve_value(R)
                 ELSE CHOOSE r \in (IF blessed # {} THEN blessed ELSE NewestRows(R)) : TRUE
    IN  [state |-> IF ~is_protected(state) /\ now > last + Ttl THEN "retired" ELSE state,
         value |-> shown.value,
         mode  |-> IF shown.source \in Asserted THEN "asserted" ELSE "observed",
         tie   |-> ~is_protected(state) /\ Tied(R)]

(* get_env_fact                                                            *)
Fact(f, now) ==
    materialize_fact(OfFact(f, observations), OfFact(f, transitions), sightings[f].last, now)

(* What was believed about a fact at t: both streams cut at t, the last    *)
(* sighting scalar left out, and no expiry.                                *)
materialize_fact_asof(f, t) ==
    LET R == {r \in OfFact(f, observations) : r.at <= t}
    IN  IF R = {} THEN {}
        ELSE {materialize_fact(R, {u \in OfFact(f, transitions) : u.at <= t}, t, t)}

-----------------------------------------------------------------------------
(* The gate.                                                               *)

(* compromised_entity_set, from the transitions themselves, so that no     *)
(* expiry can clear it.                                                    *)
Compromised ==
    \E f \in Facts : \E t \in newest_transition(OfFact(f, transitions)) :
        t.to = "compromised"

(* The two blocks no promotion may pass, an analyst's included: a case     *)
(* about the entity that is open or was adjudged suspicious or worse, and  *)
(* a compromised entity.                                                   *)
hard_blocks(cases) == cases \/ Compromised

(* No source may carry more than its share of the evidence.                *)
Weight(f, s) == sightings[f].count[s] * Trust[s]
influence_cap_exceeded(f) ==
    LET total == FoldFunction(+, 0, [s \in Sources |-> Weight(f, s)])
    IN  total = 0 \/ \E s \in Sources : 100 * Weight(f, s) > MaxShare * total

(* The blocks that stop the loop and that an analyst may lift; the         *)
(* influence cap is one more.                                              *)
auto_blocks(f, fact, now, window) ==
    LET count == FoldFunction(+, 0, sightings[f].count)
        age == IF fact.mode = "asserted" THEN AssertedQuarantine ELSE Quarantine
    IN  \/ now < sightings[f].first + age /\ ~window
        \/ count < MinObservations
        \/ Cardinality({r.source : r \in OfFact(f, observations)}) < MinSources
        \/ f \in HighImpact
        \/ fact.tie

-----------------------------------------------------------------------------
(* The writers of observations.                                            *)

(* A tick of the learner, or a request of env_import, fixes its time.      *)
BeginBatch(b) ==
    /\ began[b] = 0
    /\ began' = [began EXCEPT ![b] = envNow]
    /\ UNCHANGED <<envNow, observations, sightings, transitions, job>>

EndBatch(b) ==
    /\ began[b] # 0
    /\ began' = [began EXCEPT ![b] = 0]
    /\ UNCHANGED <<envNow, observations, sightings, transitions, job>>

(* append_observation stores a row only for new content; bump_sighting     *)
(* counts a repeat as well.                                                *)
Observe(b, f, s, v) ==
    LET at == began[b]
        sight == sightings[f]
    IN  /\ at # 0
        /\ (s \in Asserted) = (b = "import")
        /\ sight.count[s] < MaxSightings
        /\ observations' = IF \E r \in observations : r.fact = f /\ r.source = s /\ r.value = v THEN observations
                   ELSE observations \cup {[fact |-> f, source |-> s, value |-> v, at |-> at]}
        /\ sightings' = [sightings EXCEPT ![f] =
              [first |-> IF sight.first = 0 \/ at < sight.first THEN at ELSE sight.first,
               last  |-> IF at > sight.last THEN at ELSE sight.last,
               count |-> [sight.count EXCEPT ![s] = @ + 1]]]
        /\ UNCHANGED <<envNow, transitions, began, job>>

-----------------------------------------------------------------------------
(* The writers of transitions.                                             *)

Job(at, todo) == [step |-> "choosing", at |-> at, todo |-> todo]
Gated(j, f, to, v) ==
    [step |-> "gated", at |-> j.at, todo |-> j.todo, fact |-> f, to |-> to, value |-> v]
Goes(a, j) == job' = [job EXCEPT ![a] = j]
Room == Cardinality(transitions) + Cardinality({a \in Actors : job[a].step # "idle"})
           < MaxTransitions
Observed == {f \in Facts : OfFact(f, observations) # {}}

(* What the loop has still to do, or the end of the tick or the request.   *)
Rest(j) == IF j.todo = {} THEN NoJob ELSE Job(j.at, j.todo)

(* A tick of env_promote_loop: the guards and the facts are read once for  *)
(* all the candidates of the tick.  The cases may block, and a change      *)
(* window may excuse the quarantine.                                       *)
PromoteTick(cases, window) ==
    LET ready == {f \in Observed : /\ Fact(f, envNow).state = "candidate"
                                   /\ ~auto_blocks(f, Fact(f, envNow), envNow, window)}
    IN  /\ job["loop"].step = "idle" /\ Room
        /\ ~hard_blocks(cases) /\ ready # {}
        /\ Goes("loop", Job(envNow, {<<f, Fact(f, envNow).value>> : f \in ready}))
        /\ UNCHANGED <<envNow, observations, sightings, transitions, began>>

(* Its next candidate: only the counts per source are read afresh.         *)
PromoteNext ==
    LET j == job["loop"]
    IN  /\ j.step = "choosing"
        /\ \E c \in j.todo :
              LET left == Job(j.at, j.todo \ {c})
              IN  Goes("loop", IF influence_cap_exceeded(c[1]) THEN Rest(left)
                               ELSE Gated(left, c[1], "trusted", c[2]))
        /\ UNCHANGED <<envNow, observations, sightings, transitions, began>>

(* do_env_transition up to the audit: the fact must exist, and a promotion *)
(* must pass the hard blocks, which are read here.                         *)
do_env_transition(a, f, to, cases) ==
    /\ job[a].step = "idle" /\ Room
    /\ f \in Observed
    /\ to = "trusted" => ~hard_blocks(cases)
    /\ Goes(a, Gated(Job(envNow, {}), f, to, Fact(f, envNow).value))
    /\ UNCHANGED <<envNow, observations, sightings, transitions, began>>

(* The transition is audited; then the newest observation of the fact's    *)
(* value is blessed and the transition in force is the one to supersede.   *)
(* An audit that fails ends the request, or skips the candidate.           *)
Bless(a) ==
    LET j == job[a]
        R == {r \in OfFact(j.fact, observations) : r.value = j.value}
    IN  /\ j.step = "gated"
        /\ \/ Goes(a, Rest(j))
           \/ \E r \in NewestRows(R) :
                 Goes(a, [step |-> "blessed", at |-> j.at, todo |-> j.todo,
                          row |-> [fact |-> j.fact, to |-> j.to, at |-> j.at,
                                   blessed |-> {[source |-> r.source, value |-> r.value]},
                                   sup |-> {t.id : t \in newest_transition(
                                                       OfFact(j.fact, transitions))}]])
        /\ UNCHANGED <<envNow, observations, sightings, transitions, began>>

(* append_transition, under a random id.                                   *)
append_transition(a) ==
    LET j == job[a]
    IN  /\ j.step = "blessed"
        /\ \E id \in 1..MaxTransitions \ {t.id : t \in transitions} :
              transitions' = transitions \cup
                 {[fact |-> j.row.fact, to |-> j.row.to, at |-> j.row.at,
                   blessed |-> j.row.blessed, sup |-> j.row.sup, id |-> id]}
        /\ Goes(a, Rest(j))
        /\ UNCHANGED <<envNow, observations, sightings, began>>

-----------------------------------------------------------------------------
EnvPasses ==
    /\ envNow < MaxNow
    /\ envNow' = envNow + 1
    /\ UNCHANGED <<observations, sightings, transitions, began, job>>

EnvNext ==
    \/ \E b \in Batches : BeginBatch(b) \/ EndBatch(b)
    \/ \E b \in Batches, f \in Facts, s \in Sources, v \in Values : Observe(b, f, s, v)
    \/ \E cases, window \in BOOLEAN : PromoteTick(cases, window)
    \/ PromoteNext
    \/ \E a \in Analysts, f \in Facts, to \in {"trusted", "compromised", "retired"},
         cases \in BOOLEAN : do_env_transition(a, f, to, cases)
    \/ \E a \in Actors : Bless(a) \/ append_transition(a)
    \/ EnvPasses

EnvSpec == EnvInit /\ [][EnvNext]_envVars

-----------------------------------------------------------------------------
(* A fact that was trusted, flagged or retired keeps its state and its     *)
(* value until another transition says otherwise: neither later evidence,  *)
(* from whatever source, nor the passing of time moves it.  The value is   *)
(* pinned by the blessed observation and materialize_fact expires only     *)
(* candidates.                                                             *)
PinnedUntilTransition ==
    [][\A f \in Observed :
          /\ is_protected(Transition(newest_transition(OfFact(f, transitions))))
          /\ OfFact(f, transitions)' = OfFact(f, transitions)
          => /\ Fact(f, envNow)'.state = Fact(f, envNow).state
             /\ Fact(f, envNow)'.value = Fact(f, envNow).value]_envVars

(* What was believed at a past instant does not change any more once every *)
(* writer that began by then is done.  materialize_fact_asof says it cuts  *)
(* immutable streams and never races a writer; rows carry the time their   *)
(* writer began at, so until it is done the past is still open.            *)
AsOfIsSettled ==
    [][\A f \in Facts, t \in 1..MaxNow :
          (/\ t < envNow
           /\ \A b \in Batches : began[b] = 0 \/ began[b] > t
           /\ \A a \in Actors : job[a].step = "idle" \/ job[a].at > t)
          => materialize_fact_asof(f, t)' = materialize_fact_asof(f, t)]_envVars
=============================================================================
