---------------------------- MODULE MCAuditLedger ----------------------------
(* Model checking of the audit ledger on a small instance. *)
EXTENDS AuditLedger

=============================================================================
