------------------------------- MODULE AuditLog -------------------------------
(***************************************************************************)
(* What the audit ledger promises a caller, without files or checkpoints:  *)
(* a log that only grows at its end, receipts that are only given for      *)
(* entries of the log and stay valid, and refusals that leave no entry.    *)
(***************************************************************************)
EXTENDS Naturals, Sequences

CONSTANT Hash   \* the identities a recorded entry can have

VARIABLES
    log,        \* the recorded entries, in order
    receipts,   \* what append returned: a place in the log and the entry there
    refused     \* entries whose append returned an error

logvars == <<log, receipts, refused>>

Recorded == { log[i] : i \in 1..Len(log) }

LogInit == log = << >> /\ receipts = {} /\ refused = {}

\* A new entry is recorded, and acknowledged at once, later or never.
RecordEntry(h) ==
    /\ h \notin Recorded \cup refused
    /\ log' = Append(log, h)
    /\ \/ receipts' = receipts
       \/ receipts' = receipts \cup {[global_sequence |-> Len(log) + 1, record_hash |-> h]}
    /\ UNCHANGED refused

AcknowledgeEntry(i) ==
    /\ receipts' = receipts \cup {[global_sequence |-> i, record_hash |-> log[i]]}
    /\ UNCHANGED <<log, refused>>

RefuseEntry(h) ==
    /\ h \notin Recorded
    /\ refused' = refused \cup {h}
    /\ UNCHANGED <<log, receipts>>

LogNext ==
    \/ \E h \in Hash : RecordEntry(h) \/ RefuseEntry(h)
    \/ \E i \in 1..Len(log) : AcknowledgeEntry(i)

LogSpec == LogInit /\ [][LogNext]_logvars

=============================================================================
