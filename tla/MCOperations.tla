---------------------------- MODULE MCOperations ----------------------------
(* Instances for TLC, for safety only: what runs beside the pipeline, and  *)
(* the audit ledger under every file fault.  They share no state, so a     *)
(* behaviour follows one of them, `part', and the others stay as they      *)
(* begin.                                                                  *)
EXTENDS IngestSeq, Backup, Capture, Environment, Registry, ConfigStore, TLC

CONSTANTS Garbage, f1, low, inv, va, vb, an, r1, r2, da, db, ad1, ad2, none, c1, c2, b1, b2, ed1, ed2

VARIABLES part,
          chain, start, torn, ckpts, pc, op, inner, stamps, ledgerCrashes, acked, refused

MCTrust == (low :> 40) @@ (inv :> 60)
MCAccepts == (b1 :> {none, c1, c2}) @@ (b2 :> {none, c2})
MCSymmetry == Permutations({da, db}) \cup Permutations({ad1, ad2}) \cup Permutations({ed1, ed2})

Ledger == INSTANCE AuditLedger WITH
    segment_max_records <- 2, checkpoint_every <- 2,
    Ops <- {"append", "checkpoint", "seal"},
    Faults <- {"roll", "write_none", "write_partial", "write_sync", "ckpt", "ckpt_torn"},
    MaxStamps <- 4, MaxCrashes <- 1,
    lines <- chain, crashes <- ledgerCrashes

ledgerVars == <<chain, start, torn, ckpts, pc, op, inner, stamps, ledgerCrashes, acked, refused>>
operationsVars == <<part, ledgerVars, seqVars, backupVars, captureVars, envVars, regVars, configVars>>

OperationsInit ==
    /\ part \in {"ledger", "seq", "backup", "capture", "env", "registry", "config"}
    /\ Ledger!Init /\ SeqInit /\ CaptureInit /\ EnvInit
    /\ BackupInit
    /\ part # "backup" => ~audited /\ ~keyOutside /\ live = [t \in Trees |-> {}]
    /\ RegInit /\ (part # "registry" => ~auditing)
    /\ ConfigInit /\ (part # "config" => base = b1)

OperationsNext ==
    \/ /\ part = "ledger" /\ Ledger!Next
       /\ UNCHANGED <<part, seqVars, backupVars, captureVars, envVars, regVars, configVars>>
    \/ /\ part = "seq" /\ SeqNext
       /\ UNCHANGED <<part, ledgerVars, backupVars, captureVars, envVars, regVars, configVars>>
    \/ /\ part = "backup" /\ BackupNext
       /\ UNCHANGED <<part, ledgerVars, seqVars, captureVars, envVars, regVars, configVars>>
    \/ /\ part = "capture" /\ CaptureNext
       /\ UNCHANGED <<part, ledgerVars, seqVars, backupVars, envVars, regVars, configVars>>
    \/ /\ part = "env" /\ EnvNext
       /\ UNCHANGED <<part, ledgerVars, seqVars, backupVars, captureVars, regVars, configVars>>
    \/ /\ part = "registry" /\ RegNext
       /\ UNCHANGED <<part, ledgerVars, seqVars, backupVars, captureVars, envVars, configVars>>
    \/ /\ part = "config" /\ ConfigNext
       /\ UNCHANGED <<part, ledgerVars, seqVars, backupVars, captureVars, envVars, regVars>>
    \/ part # "ledger" /\ UNCHANGED operationsVars   \* these may come to an end

OperationsSpec == OperationsInit /\ [][OperationsNext]_operationsVars

(* DamageIsVisible of AuditLedger on this instance.                        *)
DamageIsVisible == Ledger!DamageIsVisible
=============================================================================
