------------------------------ MODULE MCDurable -----------------------------
(* Instances for TLC of what is written down and acknowledged: the audit   *)
(* ledger, the intake of events, the collector's spool and the cursors     *)
(* over the warehouse.  They share no state, so a behaviour follows one of *)
(* them, `part', and the others stay as they begin.                        *)
EXTENDS AuditLedger, Ingest, PgShip, EnvCursor, TLC

CONSTANTS e1, e2, native, line, stream, v1, v2, v3, v4

VARIABLE part

MCRows == (native :> <<e1>>) @@ (line :> <<e2>>) @@ (stream :> <<e1, e2>>)
MCVia == (native :> "native") @@ (line :> "syslog") @@ (stream :> "flight")
MCStamp == (v1 :> 1) @@ (v2 :> 1) @@ (v3 :> 2) @@ (v4 :> 2)

durableVars == <<part, vars, ingestVars, pgVars, cursorVars>>

DurableInit ==
    /\ part \in {"ledger", "ingest", "pg", "cursor"}
    /\ Init
    /\ IngestInit /\ (part # "ingest" => dedup_recent = 0)
    /\ PgInit /\ (part # "pg" => once)
    /\ CursorInit /\ (part # "cursor" => loop = "learn" /\ wm = {})

DurableNext ==
    \/ part = "ledger" /\ Next /\ UNCHANGED <<part, ingestVars, pgVars, cursorVars>>
    \/ part = "ingest" /\ IngestNext /\ UNCHANGED <<part, vars, pgVars, cursorVars>>
    \/ part = "pg" /\ PgNext /\ UNCHANGED <<part, vars, ingestVars, cursorVars>>
    \/ part = "cursor" /\ CursorNext /\ UNCHANGED <<part, vars, ingestVars, pgVars>>
    \/ part # "ledger" /\ UNCHANGED durableVars   \* these may come to an end

(* What each part is fair to; the part is fixed, so that the disjunctions  *)
(* are those of the one that runs.                                         *)
IngestStep(A) == part = "ingest" /\ A /\ UNCHANGED <<part, vars, pgVars, cursorVars>>
ShipOrLoop ==
    \/ part = "pg" /\ ShipStep /\ UNCHANGED <<part, vars, ingestVars, cursorVars>>
    \/ part = "cursor" /\ LoopStep /\ UNCHANGED <<part, vars, ingestVars, pgVars>>

DurableSpec ==
    /\ DurableInit /\ [][DurableNext]_durableVars
    /\ \A p \in Pushes : WF_durableVars(IngestStep(Receiver(p)))
    /\ WF_durableVars(IngestStep(actor_loop))
    /\ WF_durableVars(IngestStep(Pipeline) \/ ShipOrLoop)
=============================================================================
