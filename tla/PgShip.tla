------------------------------- MODULE PgShip -------------------------------
(***************************************************************************)
(* garmr pgaudit-ship (garmr-cli/src/cmd/pgaudit.rs): the collector that    *)
(* follows the newest csvlog of a PostgreSQL server, puts each audit record *)
(* in a spool on disk and ships the spool to the ingest endpoint, removing  *)
(* a batch only after a 2xx.                                                *)
(*                                                                          *)
(* A record is a number, in the order the server logs them; a file is the   *)
(* sequence of its records, and the newest file is the last. A record stays *)
(* open until the next one begins. TornFrame stands for the frame of a      *)
(* spool append that a stop cut short: decode_frames reads nothing behind.  *)
(***************************************************************************)
EXTENDS Naturals, Sequences, FiniteSets, Functions

CONSTANTS
    LogRecords,     \* records 1 .. LogRecords are logged
    AuditRecords,   \* those that contain AUDIT:
    Batch,          \* cfg.batch
    MaxAttempts,    \* attempts for a batch with --once (8)
    MaxLogs,        \* bound: log files
    MaxStops,       \* bound: times the collector is stopped
    MaxRuns,        \* bound: times it is run with --once
    MaxRefusals     \* bound: POSTs that are not answered 2xx

ASSUME PgAssumption ==
    /\ {LogRecords, MaxStops, MaxRefusals} \subseteq Nat
    /\ {Batch, MaxAttempts, MaxLogs, MaxRuns} \subseteq Nat \ {0}
    /\ AuditRecords \subseteq 1 .. LogRecords

VARIABLES
    once,           \* the collector is run with --once
    logs,           \* the csvlog directory
    step,           \* where the collector is; "down" when it does not run
    cur_file, offset, partial,      \* locals of pgaudit_ship
    records,        \* what reassemble returned and is not in the spool yet
    unsent, spool,  \* Spool: the mirror in memory, and the frames on disk
    epoch, seq, tries,
    received,       \* the receiver: <<epoch, seq, batch>> it persisted
    spooled,        \* history: records appended to the spool
    swallowed,      \* history: those appended behind a torn frame
    stops, runs, refusals

reader == <<cur_file, offset, partial, records>>
sender == <<epoch, seq, tries>>
pgCounts == <<stops, runs, refusals>>
pgVars == <<once, logs, step, reader, unsent, spool, sender, received, spooled, swallowed, pgCounts>>

TornFrame == 0
decode_frames(frames) ==
    LET torn == {i \in DOMAIN frames : frames[i] = TornFrame}
    IN  IF torn = {} THEN frames
        ELSE SubSeq(frames, 1, (CHOOSE i \in torn : \A j \in torn : i <= j) - 1)

Logged == UNION {Range(f) : f \in Range(logs)}
Delivered == UNION {Range(m[3]) : m \in received}
Newest == logs[Len(logs)]

PgInit ==
    /\ once \in BOOLEAN /\ logs = <<<<>>>> /\ step = "down"
    /\ cur_file = 0 /\ offset = 0 /\ partial = <<>> /\ records = <<>>
    /\ unsent = <<>> /\ spool = <<>>
    /\ epoch = 0 /\ seq = 0 /\ tries = 0
    /\ received = {} /\ spooled = {} /\ swallowed = {}
    /\ stops = 0 /\ runs = 0 /\ refusals = 0

-----------------------------------------------------------------------------
(* The PostgreSQL server. *)

WriteLog ==
    /\ Cardinality(Logged) < LogRecords
    /\ logs' = [logs EXCEPT ![Len(logs)] = Append(@, Cardinality(Logged) + 1)]
    /\ UNCHANGED <<once, step, reader, unsent, spool, sender, received, spooled, swallowed, pgCounts>>

RotateLog ==
    /\ Len(logs) < MaxLogs /\ Newest # <<>>
    /\ logs' = Append(logs, <<>>)
    /\ UNCHANGED <<once, step, reader, unsent, spool, sender, received, spooled, swallowed, pgCounts>>

-----------------------------------------------------------------------------
(* The collector. *)

\* pgaudit_ship is started: Spool::open reloads what was not delivered. The
\* epoch is the second it starts in, which a quick restart shares.
StartShip ==
    /\ step = "down" /\ (once => runs < MaxRuns)
    /\ runs' = IF once THEN runs + 1 ELSE runs
    /\ step' = "backlog"
    /\ unsent' = decode_frames(spool)
    /\ epoch' \in {epoch, stops + runs + 1} /\ seq' = 0 /\ tries' = 0
    /\ cur_file' = 0 /\ offset' = 0 /\ partial' = <<>> /\ records' = <<>>
    /\ UNCHANGED <<once, logs, spool, received, spooled, swallowed, stops, refusals>>

\* The read of the newest file: a file that is not the current one is read from
\* the top and the open record of the last one is dropped; the last record
\* stays open, with --once it is taken as it is.
ReadNewest ==
    /\ step = "poll"
    /\ LET rotated == cur_file # Len(logs)
           from == IF rotated THEN 0 ELSE offset
           combined == (IF rotated THEN <<>> ELSE partial) \o SubSeq(Newest, from + 1, Len(Newest))
           closed == IF once \/ combined = <<>> THEN Len(combined) ELSE Len(combined) - 1
       IN  /\ cur_file' = Len(logs) /\ offset' = Len(Newest)
           /\ records' = SubSeq(combined, 1, closed)
           /\ partial' = SubSeq(combined, closed + 1, Len(combined))
    /\ step' = "spool"
    /\ UNCHANGED <<once, logs, unsent, spool, sender, received, spooled, swallowed, pgCounts>>

\* Spool::append of the next audit record, on disk and in memory.
append ==
    /\ step = "spool" /\ records # <<>> /\ Head(records) \in AuditRecords
    /\ spool' = Append(spool, Head(records))
    /\ unsent' = Append(unsent, Head(records))
    /\ spooled' = spooled \cup {Head(records)}
    /\ swallowed' = IF TornFrame \in Range(spool) THEN swallowed \cup {Head(records)} ELSE swallowed
    /\ records' = Tail(records)
    /\ UNCHANGED <<once, logs, step, cur_file, offset, partial, sender, received, pgCounts>>

SkipRecord ==
    /\ step = "spool" /\ records # <<>> /\ Head(records) \notin AuditRecords
    /\ records' = Tail(records)
    /\ UNCHANGED <<once, logs, step, cur_file, offset, partial, unsent, spool, sender, received, spooled, swallowed, pgCounts>>

StartDrain ==
    /\ step = "spool" /\ records = <<>>
    /\ step' = "drain"
    /\ UNCHANGED <<once, logs, reader, unsent, spool, sender, received, spooled, swallowed, pgCounts>>

\* ship_batch: the receiver persists the batch or not, the answer comes back or
\* not; without a 2xx the same batch is sent again under the same number, with
\* --once a limited number of times.
ship_batch(persisted, ok) ==
    /\ step \in {"backlog", "drain"} /\ unsent # <<>>
    /\ ok => persisted
    /\ received' = IF persisted
                   THEN received \cup {<<epoch, seq, SubSeq(unsent, 1, IF Len(unsent) < Batch THEN Len(unsent) ELSE Batch)>>}
                   ELSE received
    /\ IF ok
       THEN /\ step' = IF step = "backlog" THEN "commit_backlog" ELSE "commit"
            /\ tries' = 0 /\ UNCHANGED refusals
       ELSE /\ refusals < MaxRefusals /\ refusals' = refusals + 1
            /\ tries' = IF once THEN tries + 1 ELSE 0
            /\ step' = IF once /\ tries + 1 >= MaxAttempts THEN "down" ELSE step
    /\ UNCHANGED <<once, logs, reader, unsent, spool, epoch, seq, spooled, swallowed, stops, runs>>

\* Mutant of commit: a batch more than was sent is taken off.
CommitLong ==
    /\ step \in {"commit_backlog", "commit"}
    /\ LET rest == SubSeq(unsent, Batch + 2, Len(unsent))
       IN  unsent' = rest /\ spool' = rest
    /\ step' = IF step = "commit" THEN "drain" ELSE "backlog"
    /\ seq' = seq + 1
    /\ UNCHANGED <<once, logs, reader, epoch, tries, received, spooled, swallowed, pgCounts>>

\* Spool::commit: the batch is taken off and the file is replaced by what remains.
commit ==
    /\ step \in {"commit_backlog", "commit"}
    /\ LET rest == SubSeq(unsent, Batch + 1, Len(unsent))
       IN  unsent' = rest /\ spool' = rest
    /\ step' = IF step = "commit" THEN "drain" ELSE "backlog"
    /\ seq' = seq + 1
    /\ UNCHANGED <<once, logs, reader, epoch, tries, received, spooled, swallowed, pgCounts>>

\* Mutant of Drained: it returns with records left.
DrainedEarly ==
    /\ step \in {"backlog", "drain"}
    /\ step' = IF once /\ step = "drain" THEN "down" ELSE "poll"
    /\ UNCHANGED <<once, logs, reader, unsent, spool, sender, received, spooled, swallowed, pgCounts>>

\* drain returns: the loop goes on, or ends with --once.
Drained ==
    /\ step \in {"backlog", "drain"} /\ unsent = <<>>
    /\ step' = IF once /\ step = "drain" THEN "down" ELSE "poll"
    /\ UNCHANGED <<once, logs, reader, unsent, spool, sender, received, spooled, swallowed, pgCounts>>

\* The collector is stopped, or an I/O error ends it; in an append that can
\* leave a part of the frame.
StopShip ==
    /\ step # "down" /\ stops < MaxStops
    /\ stops' = stops + 1 /\ step' = "down"
    /\ \/ UNCHANGED spool
       \/ /\ step = "spool" /\ records # <<>> /\ Head(records) \in AuditRecords
          /\ spool' = Append(spool, TornFrame)
    /\ UNCHANGED <<once, logs, reader, unsent, sender, received, spooled, swallowed, runs, refusals>>

-----------------------------------------------------------------------------

ShipStep ==
    \/ StartShip \/ ReadNewest \/ append \/ SkipRecord \/ StartDrain \/ commit \/ Drained
    \/ \E persisted, ok \in BOOLEAN : ship_batch(persisted, ok)

PgNext == WriteLog \/ RotateLog \/ ShipStep \/ StopShip

\* The collector is a service that is started again, and runs; the receiver
\* refuses MaxRefusals POSTs and answers then.
PgSpec == PgInit /\ [][PgNext]_pgVars /\ WF_pgVars(ShipStep)

-----------------------------------------------------------------------------
(* Properties. *)

\* "removed only after a confirmed 2xx": a record that was put in the spool is
\* at the receiver or still in the spool a restart reads, whatever stops in
\* between, unless it was appended behind a torn frame.
SpooledIsKept == spooled \ swallowed \subseteq Delivered \cup Range(decode_frames(spool))

\* "seq advances per delivered batch": of every epoch the receiver has the
\* numbers from 0 on without a hole, which its gap detection rests on.
EpochWithoutHoles ==
    \A m \in received : \A s \in 0 .. m[2] : \E n \in received : n[1] = m[1] /\ n[2] = s

\* A record in the spool of the service arrives in the end, through refusals,
\* lost answers and restarts.
SpooledArrives ==
    \A r \in AuditRecords : (~ once /\ r \in spooled \ swallowed) ~> (r \in Delivered)
=============================================================================
