------------------------------- MODULE Ingest -------------------------------
(***************************************************************************)
(* The intake of `garmr serve': senders push batches of events to the      *)
(* receivers (garmr-ingest/src/server.rs, flight.rs), the pipeline task     *)
(* (garmr-cli/src/pipeline.rs) coalesces them into one group commit, the    *)
(* writer actor of the events store (garmr-store/src/events/mod.rs) drops   *)
(* what its window of recent ids has seen and appends the rest, and the     *)
(* pipeline acknowledges every push before it evaluates the detections.     *)
(*                                                                          *)
(* An event is its event_id: a sender that repeats a push with its own      *)
(* timestamps repeats the ids.                                              *)
(***************************************************************************)
EXTENDS Naturals, Sequences, FiniteSets

CONSTANTS
    Events,         \* event ids
    Pushes,         \* what the senders have to deliver
    Rows,           \* Rows[p]: the events of a push, in order
    Via,            \* Via[p]: "native", "syslog" or "flight"
    DedupSizes,     \* the values of [ingest].dedup_recent
    ChannelCap,     \* capacity of the ingest channel (256)
    MaxCoalesce,    \* MAX_COALESCE_EVENTS
    MaxRequests,    \* bound: requests of the senders
    MaxFaults       \* bound: failed appends and crashes

ASSUME IngestAssumption ==
    /\ Rows \in [Pushes -> Seq(Events) \ {<<>>}] /\ IsFiniteSet(Events)
    /\ Via \in [Pushes -> {"native", "syslog", "flight"}]
    /\ DedupSizes \subseteq Nat
    /\ {ChannelCap, MaxCoalesce, MaxRequests} \subseteq Nat \ {0}
    /\ MaxFaults \in Nat

VARIABLES
    dedup_recent,   \* configuration
    sent,           \* the sender's view of each push
    attempt,        \* requests made for each push
    place,          \* rows of a Flight stream already appended
    chan,           \* the ingest channel: <<push, attempt>>
    pipe,           \* where the pipeline task is
    held,           \* the pushes of the group commit
    events,         \* their events
    outcome,        \* of the group commit
    cmds,           \* commands to the writer actor
    answers,        \* answers a request or the pipeline awaits
    window,         \* Dedup.order of the actor; Dedup.seen is its range
    stored,         \* copies of each event in the table
    failed,         \* history: events of an append that failed
    evaluated,      \* events the rules were evaluated on
    requests, faults, restarts

table == <<stored, failed, evaluated>>
bounds == <<requests, faults, restarts>>
pipeline == <<pipe, held, events, outcome>>
actor == <<cmds, window>>
ingestVars == <<dedup_recent, sent, attempt, place, chan, pipe, held, events, outcome, cmds, answers,
                window, stored, failed, evaluated, requests, faults, restarts>>

Request(p) == <<p, attempt[p]>>
Loop == <<"pipeline", 0>>
Ids(s) == {s[i] : i \in DOMAIN s}

IngestInit ==
    /\ dedup_recent \in DedupSizes
    /\ sent = [p \in Pushes |-> "idle"] /\ attempt = [p \in Pushes |-> 0]
    /\ place = [p \in Pushes |-> 0]
    /\ chan = <<>> /\ cmds = <<>> /\ window = <<>> /\ answers = {}
    /\ pipe = "recv" /\ held = <<>> /\ events = <<>> /\ outcome = "ok"
    /\ stored = [e \in Events |-> 0] /\ failed = {} /\ evaluated = {}
    /\ requests = 0 /\ faults = 0 /\ restarts = 0

-----------------------------------------------------------------------------
(* The senders and the receivers. *)

\* A sender makes a request for what is not acknowledged yet, again and again. A
\* request that is refused (no collector resolves, the body does not decode or
\* holds nothing, a source may not be asserted) leaves everything as it is.
Send(p) ==
    /\ sent[p] = "idle" /\ requests < MaxRequests
    /\ requests' = requests + 1
    /\ attempt' = [attempt EXCEPT ![p] = @ + 1]

\* An IngestBatch for the pipeline; a full channel holds the request back.
Enqueue(p, next) ==
    /\ Send(p) /\ Len(chan) < ChannelCap
    /\ chan' = Append(chan, <<p, attempt'[p]>>)
    /\ sent' = [sent EXCEPT ![p] = next]
    /\ UNCHANGED <<dedup_recent, place, pipeline, actor, answers, table, faults, restarts>>

\* The native endpoint, and Loki's push, await the acknowledgement; ...
ingest_events(p) == Via[p] = "native" /\ Enqueue(p, "waiting")

\* ... nobody awaits a line of syslog.
run_syslog(p) == Via[p] = "syslog" /\ Enqueue(p, "gone")

\* ingest_events and push after the acknowledgement: 200, or 500 and the sender retries.
Respond(p) ==
    /\ sent[p] = "waiting" /\ Via[p] = "native"
    /\ \E o \in {"ok", "err"} :
          /\ <<Request(p), o>> \in answers
          /\ answers' = answers \ {<<Request(p), o>>}
          /\ sent' = [sent EXCEPT ![p] = IF o = "ok" THEN "acked" ELSE "idle"]
    /\ UNCHANGED <<dedup_recent, attempt, place, chan, pipeline, actor, table, bounds>>

\* do_put, one batch of the stream: one row here.
Put(p, n, i) == cmds' = Append(cmds, [from |-> <<p, n>>, rows |-> <<Rows[p][i]>>])

do_put(p) ==
    /\ Send(p) /\ Via[p] = "flight"
    /\ Put(p, attempt'[p], 1)
    /\ sent' = [sent EXCEPT ![p] = "waiting"] /\ place' = [place EXCEPT ![p] = 1]
    /\ UNCHANGED <<dedup_recent, chan, pipeline, window, answers, table, faults, restarts>>

\* Each append is awaited before the next batch is taken, and an error ends the
\* stream. So does a batch that is over the limits, comes too late or comes with
\* a credential revoked since: the sender starts over.
PutReply(p) ==
    /\ sent[p] = "waiting" /\ Via[p] = "flight"
    /\ \E o \in {"ok", "err"} :
          /\ <<Request(p), o>> \in answers
          /\ answers' = answers \ {<<Request(p), o>>}
          /\ \/ /\ o = "err" \/ place[p] < Len(Rows[p])
                /\ sent' = [sent EXCEPT ![p] = "idle"] /\ UNCHANGED <<place, cmds>>
             \/ /\ o = "ok" /\ place[p] < Len(Rows[p])
                /\ Put(p, attempt[p], place[p] + 1)
                /\ place' = [place EXCEPT ![p] = @ + 1] /\ UNCHANGED sent
             \/ /\ o = "ok" /\ place[p] = Len(Rows[p])
                /\ sent' = [sent EXCEPT ![p] = "acked"] /\ UNCHANGED <<place, cmds>>
    /\ UNCHANGED <<dedup_recent, attempt, chan, pipeline, window, table, bounds>>

\* The request times out or its connection is lost; what it queued goes on.
GiveUp(p) ==
    /\ sent[p] = "waiting" /\ requests < MaxRequests
    /\ sent' = [sent EXCEPT ![p] = "idle"]
    /\ answers' = {a \in answers : a[1] # Request(p)}
    /\ UNCHANGED <<dedup_recent, attempt, place, chan, pipeline, actor, table, bounds>>

-----------------------------------------------------------------------------
(* The writer actor of the events store. *)

\* Somebody still waits for the answer to r.
Awaited(r) == r = Loop \/ (sent[r[1]] = "waiting" /\ attempt[r[1]] = r[2])
Answer(rs, o) == {<<r, o>> : r \in {q \in rs : Awaited(q)}}

\* Mutant of admit: the window is taken for full one id too early.
AdmitShort(w, id) == Append(IF Len(w) + 1 >= dedup_recent THEN Tail(w) ELSE w, id)

\* Dedup::admit for an id that is not in the window.
admit(w, id) == Append(IF Len(w) >= dedup_recent THEN Tail(w) ELSE w, id)

\* The rows that are new so far, and the window after them.
AdmitRow(acc, id) ==
    IF id \in Ids(acc.window) THEN acc
    ELSE [window |-> admit(acc.window, id), kept |-> Append(acc.kept, id)]
AdmitRows(w, rows) ==
    LET d[n \in 0 .. Len(rows)] ==
          IF n = 0 THEN [window |-> w, kept |-> <<>>] ELSE AdmitRow(d[n - 1], rows[n])
    IN  d

dedup_batch(w, rows) == AdmitRows(w, rows)[Len(rows)]

\* actor_loop, one command. The ids are admitted before the append is tried, and
\* a batch of nothing but known ids is answered Ok(0).
actor_loop ==
    /\ cmds # <<>>
    /\ LET c == Head(cmds)
           d == IF dedup_recent = 0 THEN [window |-> window, kept |-> c.rows] ELSE dedup_batch(window, c.rows)
       IN  /\ window' = d.window
           /\ \/ /\ stored' = [e \in Events |-> stored[e] + Cardinality({i \in DOMAIN d.kept : d.kept[i] = e})]
                 /\ answers' = answers \cup Answer({c.from}, "ok")
                 /\ UNCHANGED <<failed, faults>>
              \/ /\ d.kept # <<>> /\ faults < MaxFaults
                 /\ faults' = faults + 1
                 /\ failed' = failed \cup Ids(d.kept)
                 /\ answers' = answers \cup Answer({c.from}, "err")
                 /\ UNCHANGED stored
    /\ cmds' = Tail(cmds)
    /\ UNCHANGED <<dedup_recent, sent, attempt, place, chan, pipeline, evaluated, requests, restarts>>

-----------------------------------------------------------------------------
(* The pipeline task: pipeline::run. *)

Recv ==
    /\ pipe = "recv" /\ chan # <<>>
    /\ held' = <<Head(chan)>> /\ events' = Rows[Head(chan)[1]] /\ chan' = Tail(chan)
    /\ pipe' = "coalesce"
    /\ UNCHANGED <<dedup_recent, sent, attempt, place, outcome, actor, answers, table, bounds>>

\* What is queued is drained before the window is looked at.
Coalesce ==
    /\ pipe = "coalesce" /\ chan # <<>>
    /\ Len(events) < MaxCoalesce
    /\ held' = Append(held, Head(chan)) /\ events' = events \o Rows[Head(chan)[1]] /\ chan' = Tail(chan)
    /\ UNCHANGED <<dedup_recent, sent, attempt, place, pipe, outcome, actor, answers, table, bounds>>

\* The window is over, or the batch is full: one append for everything held.
Commit ==
    /\ pipe = "coalesce"
    /\ chan = <<>> \/ Len(events) >= MaxCoalesce
    /\ cmds' = Append(cmds, [from |-> Loop, rows |-> events])
    /\ pipe' = "append"
    /\ UNCHANGED <<dedup_recent, sent, attempt, place, chan, held, events, outcome, window, answers, table, bounds>>

\* Mutants of Acknowledge: the outcome is not passed on; the first push of the
\* group commit is acknowledged for all.
AcknowledgeOk ==
    /\ pipe = "append"
    /\ \E o \in {"ok", "err"} :
          /\ <<Loop, o>> \in answers
          /\ outcome' = o
          /\ answers' = (answers \ {<<Loop, o>>}) \cup Answer(Ids(held), "ok")
    /\ pipe' = "detect"
    /\ UNCHANGED <<dedup_recent, sent, attempt, place, chan, held, events, actor, table, bounds>>
AcknowledgeFirst ==
    /\ pipe = "append"
    /\ \E o \in {"ok", "err"} :
          /\ <<Loop, o>> \in answers
          /\ outcome' = o
          /\ answers' = (answers \ {<<Loop, o>>}) \cup Answer({Head(held)}, o)
    /\ pipe' = "detect"
    /\ UNCHANGED <<dedup_recent, sent, attempt, place, chan, held, events, actor, table, bounds>>

\* The append is answered, the full-text index is written (a failure there is
\* only logged) and every push is acknowledged with the outcome.
Acknowledge ==
    /\ pipe = "append"
    /\ \E o \in {"ok", "err"} :
          /\ <<Loop, o>> \in answers
          /\ outcome' = o
          /\ answers' = (answers \ {<<Loop, o>>}) \cup Answer(Ids(held), o)
    /\ pipe' = "detect"
    /\ UNCHANGED <<dedup_recent, sent, attempt, place, chan, held, events, actor, table, bounds>>

\* Mutant of Detect: the pushes behind the first are not evaluated.
DetectFirst ==
    /\ pipe = "detect"
    /\ evaluated' = IF outcome = "ok" THEN evaluated \cup Ids(Rows[Head(held)[1]]) ELSE evaluated
    /\ held' = <<>> /\ events' = <<>> /\ pipe' = "recv"
    /\ UNCHANGED <<dedup_recent, sent, attempt, place, chan, outcome, actor, answers, stored, failed, bounds>>

\* The events of one push are evaluated; nothing is when the append failed.
Detect ==
    /\ pipe = "detect"
    /\ IF outcome = "ok" /\ held # <<>>
       THEN /\ evaluated' = evaluated \cup Ids(Rows[Head(held)[1]])
            /\ held' = Tail(held) /\ UNCHANGED <<events, pipe>>
       ELSE /\ held' = <<>> /\ events' = <<>> /\ pipe' = "recv" /\ UNCHANGED evaluated
    /\ UNCHANGED <<dedup_recent, sent, attempt, place, chan, outcome, actor, answers, stored, failed, bounds>>

\* The process dies and is started again: the table is all that is left, and
\* every open request fails.
IngestCrash ==
    /\ faults < MaxFaults
    /\ faults' = faults + 1 /\ restarts' = restarts + 1
    /\ chan' = <<>> /\ cmds' = <<>> /\ window' = <<>> /\ answers' = {}
    /\ pipe' = "recv" /\ held' = <<>> /\ events' = <<>> /\ outcome' = "ok"
    /\ sent' = [p \in Pushes |-> IF sent[p] = "waiting" THEN "idle" ELSE sent[p]]
    /\ UNCHANGED <<dedup_recent, attempt, place, table, requests>>

-----------------------------------------------------------------------------

Receiver(p) == Respond(p) \/ PutReply(p)
Pipeline == Recv \/ Coalesce \/ Commit \/ Acknowledge \/ Detect

IngestNext ==
    \/ \E p \in Pushes : ingest_events(p) \/ run_syslog(p) \/ do_put(p) \/ Receiver(p) \/ GiveUp(p)
    \/ actor_loop \/ Pipeline \/ IngestCrash

\* The tasks of the process go on, and a request that is open reaches its handler.
IngestFairness ==
    /\ \A p \in Pushes : WF_ingestVars(Receiver(p))
    /\ WF_ingestVars(actor_loop) /\ WF_ingestVars(Pipeline)

IngestSpec == IngestInit /\ [][IngestNext]_ingestVars /\ IngestFairness

-----------------------------------------------------------------------------
(* Properties. *)

Stored == {e \in Events : stored[e] > 0}

\* "The HTTP paths acknowledge after persistence" (server.rs), and a Flight
\* stream is answered after its last append: every event of an acknowledged push
\* is in the table while the window of recent ids is off. With the window on, the
\* only events acknowledged and not stored are those of an append that failed:
\* their ids stay in the window, and the retry is taken for a duplicate.
AckedUnlessForgotten ==
    \A p \in Pushes : sent[p] = "acked" =>
        Ids(Rows[p]) \subseteq Stored \cup (IF dedup_recent = 0 THEN {} ELSE failed)

\* With a window that holds every id, retries, pushes of the same event over
\* both transports and requests that went on after their sender gave up store an
\* event once for every life of the process.
StoredOnce ==
    dedup_recent >= Cardinality(Events) => \A e \in Events : stored[e] <= 1 + restarts

\* Every request is answered, whatever else is queued: neither the full channel,
\* the group commit nor the actor's queue keeps one waiting for ever.
RequestAnswered ==
    \A p \in Pushes : sent[p] = "waiting" ~> sent[p] # "waiting"

\* What is acknowledged over the pipeline is evaluated, also when the window
\* dropped all of it, unless the process dies in between: the acknowledgement
\* is sent first, and nothing evaluates the event after a restart.
AckedIsEvaluated ==
    \A p \in Pushes :
        sent[p] = "acked" /\ Via[p] = "native" ~> Ids(Rows[p]) \subseteq evaluated \/ restarts > 0

=============================================================================
