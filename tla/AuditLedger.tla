----------------------------- MODULE AuditLedger -----------------------------
(***************************************************************************)
(* The tamper-evident audit ledger of crates/garmr-audit: one writer       *)
(* behind a mutex appends hash-chained records to segment files, commits   *)
(* the chain head in signed checkpoints, and recovers its state from the   *)
(* last segment when it is opened again.                                   *)
(*                                                                         *)
(* A call holds the mutex from start to end, so two calls never interleave *)
(* and `pc' is the place the one running call has reached.  Every file     *)
(* operation is a step of its own: the process may stop between any two of *)
(* them, and each may fail.  `Faults' says which failures the environment  *)
(* produces.                                                               *)
(*                                                                         *)
(* Abstractions.  A record is its sequence number and its two hashes; the  *)
(* audit id inside the hashed body is random, so every stamped record has  *)
(* a hash of its own, drawn here from a counter.  Signatures are those of  *)
(* the one honest key and always verify.                                   *)
(***************************************************************************)
EXTENDS Integers, Sequences, FiniteSets, FiniteSetsExt

CONSTANTS
    segment_max_records,  \* LedgerConfig: seal and roll at this many records
    checkpoint_every,     \* LedgerConfig: checkpoint after this many appends
    Ops,                  \* the entry points the deployment calls
    Faults,               \* the failures the environment produces
    Garbage,              \* a complete line, or a checkpoint, that fails to parse
    MaxStamps,            \* bound: records stamped in one behaviour
    MaxCrashes            \* bound: process stops in one behaviour

AllOps == {"append", "checkpoint", "seal"}

AllFaults ==
    { "roll",           \* creating the next segment file fails
      "write_none",     \* write_line fails and nothing reaches the file
      "write_partial",  \* write_line fails after part of the line was written
      "write_sync",     \* the whole line is written and the fsync fails
      "ckpt",           \* writing a checkpoint fails and leaves no file
      "ckpt_torn" }     \* writing a checkpoint is cut short, by an error or a stop

Record == [global_sequence: Nat \ {0}, previous_hash: Nat, record_hash: Nat \ {0}]

Checkpoint == [segment_id: Nat \ {0}, global_sequence: Nat, record_hash: Nat,
               segment_record_count: Nat, sealed: BOOLEAN]

ASSUME ConfigAssumption ==
    /\ segment_max_records \in Nat \ {0}
    /\ checkpoint_every \in Nat \ {0}
    /\ Ops \subseteq AllOps
    /\ Faults \subseteq AllFaults
    /\ Garbage \notin Record
    /\ Garbage \notin Checkpoint
    /\ MaxStamps \in Nat
    /\ MaxCrashes \in Nat

VARIABLES
    lines,    \* the complete lines of all segment files, in file order
    start,    \* start[k]: how many of them precede segment k; Len(start) files exist
    torn,     \* the segments whose file ends in a partial line
    ckpts,    \* checkpoint files by name, the sequence they cover
    pc,       \* where the running call is; "down" when no process is
    op,       \* the running call
    inner,    \* the writer state behind the mutex
    stamps,   \* records stamped so far, the source of fresh hashes
    crashes,  \* process stops so far
    acked,    \* records whose append returned a receipt
    refused   \* records whose append returned an error

disk == <<lines, start, torn, ckpts>>
hist == <<acked, refused>>
vars == <<lines, start, torn, ckpts, pc, op, inner, stamps, crashes, acked, refused>>

ZERO == 0

Receipt(seq, hash) == [global_sequence |-> seq, record_hash |-> hash]

-----------------------------------------------------------------------------
(* Reading the directory. *)

\* The places in `ls' of the lines of segment k, the files being cut at `st'.
SegmentLines(ls, st, k) ==
    { i \in 1..Len(ls) : k \in 1..Len(st) /\ st[k] < i /\ (k < Len(st) => i <= st[k + 1]) }

Parsed(ls) == { i \in 1..Len(ls) : ls[i] # Garbage }

\* The chain head before line i: the last record before it, or genesis.
HeadBefore(ls, i) ==
    LET prior == { j \in Parsed(ls) : j < i }
    IN  IF prior = {} THEN Receipt(0, ZERO)
        ELSE Receipt(ls[Max(prior)].global_sequence, ls[Max(prior)].record_hash)

FindingKind == {"ParseError", "ChainBreak", "SequenceGap", "Truncated", "CheckpointMismatch"}

\* Mutant of Truncated: only sealed segments are compared.
TruncatedWhenSealed(ls, st, cp) ==
    LET counted_upto == { i \in SegmentLines(ls, st, cp.segment_id) \cap Parsed(ls) :
                              ls[i].global_sequence <= cp.global_sequence }
    IN  cp.sealed /\ Cardinality(counted_upto) < cp.segment_record_count

\* A checkpoint commits a sequence, or a sealed count, the segments fall short of.
Truncated(ls, st, cp) ==
    LET counted_upto == { i \in SegmentLines(ls, st, cp.segment_id) \cap Parsed(ls) :
                              ls[i].global_sequence <= cp.global_sequence }
    IN  \/ ~ \E i \in Parsed(ls) : ls[i].global_sequence = cp.global_sequence
        \/ cp.sealed /\ Cardinality(counted_upto) < cp.segment_record_count

\* The hash at the committed sequence differs, or a sealed segment has grown.
CheckpointMismatch(ls, st, cp) ==
    LET at == { i \in Parsed(ls) : ls[i].global_sequence = cp.global_sequence }
    IN  \/ at # {} /\ ls[Max(at)].record_hash # cp.record_hash
        \/ /\ cp.sealed
           /\ Cardinality(SegmentLines(ls, st, cp.segment_id) \cap Parsed(ls))
                > cp.segment_record_count

\* Mutant of verify_dir: a line that does not parse is skipped without a finding.
VerifySkipsGarbage(ls, st, tn, cs) ==
    LET readable == { cs[s] : s \in { t \in DOMAIN cs : cs[t] # Garbage } }
    IN  { k \in FindingKind :
            \/ k = "ParseError" /\ \E s \in DOMAIN cs : cs[s] = Garbage
            \/ k = "ChainBreak" /\ \E i \in Parsed(ls) :
                  ls[i].previous_hash # HeadBefore(ls, i).record_hash
            \/ k = "Truncated" /\ \E cp \in readable : Truncated(ls, st, cp) }

\* verify_dir: the kinds of finding the offline verifier reports.
verify_dir(ls, st, tn, cs) ==
    LET readable == { cs[s] : s \in { t \in DOMAIN cs : cs[t] # Garbage } }
    IN  { k \in FindingKind :
            \/ /\ k = "ParseError"
               /\ \/ tn # {}
                  \/ Parsed(ls) # 1..Len(ls)
                  \/ \E s \in DOMAIN cs : cs[s] = Garbage
            \/ /\ k = "ChainBreak"
               /\ \E i \in Parsed(ls) : ls[i].previous_hash # HeadBefore(ls, i).record_hash
            \/ /\ k = "SequenceGap"
               /\ \E i \in Parsed(ls) :
                     ls[i].global_sequence # HeadBefore(ls, i).global_sequence + 1
            \/ k = "Truncated" /\ \E cp \in readable : Truncated(ls, st, cp)
            \/ k = "CheckpointMismatch" /\ \E cp \in readable : CheckpointMismatch(ls, st, cp) }

-----------------------------------------------------------------------------
(* Opening. *)

last_id == Len(start)

\* The lines of the segment the writer recovers from, and of the one before it.
Recovered == SubSeq(lines, start[last_id] + 1, Len(lines))

BeforeRecovered ==
    IF last_id = 1 THEN << >> ELSE SubSeq(lines, start[last_id - 1] + 1, start[last_id])

\* read_segment succeeds: every complete line parses.
Readable(ls) == \A i \in 1..Len(ls) : ls[i] # Garbage

verify_recovered_chain(records) ==
    \A i \in 1..Len(records) :
        /\ records[i].previous_hash = (IF i = 1 THEN ZERO ELSE records[i - 1].record_hash)
        /\ i > 1 => records[i].global_sequence = records[i - 1].global_sequence + 1

\* Everything `open' requires of what it reads.
CanOpen ==
    \/ start = << >>
    \/ /\ start # << >>
       /\ Readable(Recovered)
       /\ verify_recovered_chain(Recovered)
       /\ Recovered = << >> => Readable(BeforeRecovered)

\* The chain head a non-empty directory implies.
RecoveredHead ==
    LET from == IF Recovered # << >> THEN Recovered ELSE BeforeRecovered
    IN  IF from = << >> THEN Receipt(0, ZERO)
        ELSE Receipt(from[Len(from)].global_sequence, from[Len(from)].record_hash)

InnerAt(segment_id, head, count) ==
    [segment_id |-> segment_id, next_seq |-> head.global_sequence + 1,
     prev_hash |-> head.record_hash, records_in_segment |-> count, records_since_ckpt |-> 0]

Fresh == InnerAt(1, Receipt(0, ZERO), 0)

\* Mutant of Open: cutting the torn tail takes the record before it along.
OpenCutsRecord ==
    /\ pc = "down"
    /\ CanOpen
    /\ LET cut == start # << >> /\ last_id \in torn /\ Recovered # << >>
           kept == IF cut THEN SubSeq(lines, 1, Len(lines) - 1) ELSE lines
           head == HeadBefore(kept, Len(kept) + 1)
       IN  /\ lines' = kept
           /\ inner' = IF start = << >> THEN Fresh
                       ELSE InnerAt(last_id, head, Len(kept) - start[last_id])
    /\ torn' = torn \ {last_id}
    /\ start' = IF start = << >> THEN <<0>> ELSE start
    /\ pc' = "idle"
    /\ UNCHANGED <<ckpts, op, stamps, crashes, acked, refused>>

\* Mutant of Open: the last record of the segment is dropped as if it were torn.
OpenDropsLast ==
    /\ pc = "down"
    /\ CanOpen
    /\ LET cut == start # << >> /\ Recovered # << >>
           kept == IF cut THEN SubSeq(lines, 1, Len(lines) - 1) ELSE lines
           head == HeadBefore(kept, Len(kept) + 1)
       IN  /\ lines' = kept
           /\ inner' = IF start = << >> THEN Fresh
                       ELSE InnerAt(last_id, head, Len(kept) - start[last_id])
    /\ torn' = torn \ {last_id}
    /\ start' = IF start = << >> THEN <<0>> ELSE start
    /\ pc' = "idle"
    /\ UNCHANGED <<ckpts, op, stamps, crashes, acked, refused>>

Open ==
    /\ pc = "down"
    /\ CanOpen
    /\ torn' = torn \ {last_id}
    /\ start' = IF start = << >> THEN <<0>> ELSE start
    /\ inner' = IF start = << >> THEN Fresh ELSE InnerAt(last_id, RecoveredHead, Len(Recovered))
    /\ pc' = "idle"
    /\ UNCHANGED <<lines, ckpts, op, stamps, crashes, acked, refused>>

\* The open is refused.  The torn tail was cut off before the chain was checked.
OpenFails ==
    /\ pc = "down"
    /\ ~CanOpen
    /\ torn' = IF Readable(Recovered) THEN torn \ {last_id} ELSE torn
    /\ UNCHANGED <<lines, start, ckpts, pc, op, inner, stamps, crashes, acked, refused>>

-----------------------------------------------------------------------------
(* Calls.  append seals and rolls a full segment before it stamps a record. *)

SegmentFull == inner.records_in_segment >= segment_max_records

Call(o) ==
    /\ pc = "idle"
    /\ o \in Ops
    /\ o = "append" => stamps < MaxStamps
    /\ o = "checkpoint" => inner.next_seq # 1
    /\ o = "seal" => inner.records_in_segment # 0
    /\ op' = o
    /\ pc' = CASE o = "append" -> IF SegmentFull THEN "seal" ELSE "write"
               [] o = "checkpoint" -> "ckpt"
               [] o = "seal" -> "seal"
    /\ UNCHANGED <<disk, inner, stamps, crashes, hist>>

\* The early returns of checkpoint and seal: there is nothing to commit.
CallReturns(o) ==
    /\ pc = "idle"
    /\ o \in Ops
    /\ \/ o = "checkpoint" /\ inner.next_seq = 1
       \/ o = "seal" /\ inner.records_in_segment = 0
    /\ UNCHANGED vars

\* The checkpoint write_checkpoint_locked writes for the current head.
HeadCheckpoint(sealed) ==
    [segment_id |-> inner.segment_id, global_sequence |-> inner.next_seq - 1,
     record_hash |-> inner.prev_hash, segment_record_count |-> inner.records_in_segment,
     sealed |-> sealed]

\* A checkpoint file is named by the sequence it covers; writing replaces it.
PutCheckpoint(cp) ==
    LET name == inner.next_seq - 1
    IN  ckpts' = [s \in DOMAIN ckpts \cup {name} |-> IF s = name THEN cp ELSE ckpts[s]]

seal_locked ==
    /\ pc = "seal"
    /\ PutCheckpoint(HeadCheckpoint(TRUE))
    /\ inner' = [inner EXCEPT !.records_since_ckpt = 0]
    /\ pc' = "roll"
    /\ UNCHANGED <<lines, start, torn, op, stamps, crashes, hist>>

\* Mutant of roll_locked: every segment starts a chain of its own.
RollResetsHead ==
    /\ pc = "roll"
    /\ start' = Append(start, Len(lines))
    /\ inner' = [inner EXCEPT !.segment_id = @ + 1, !.records_in_segment = 0, !.prev_hash = ZERO]
    /\ pc' = IF op = "append" THEN "write" ELSE "idle"
    /\ UNCHANGED <<lines, torn, ckpts, op, stamps, crashes, hist>>

roll_locked ==
    /\ pc = "roll"
    /\ start' = Append(start, Len(lines))
    /\ inner' = [segment_id |-> inner.segment_id + 1, next_seq |-> inner.next_seq,
                 prev_hash |-> inner.prev_hash, records_in_segment |-> 0,
                 records_since_ckpt |-> inner.records_since_ckpt]
    /\ pc' = IF op = "append" THEN "write" ELSE "idle"
    /\ UNCHANGED <<lines, torn, ckpts, op, stamps, crashes, hist>>

\* The new file cannot be created: nothing of the writer state has changed yet.
RollFails ==
    /\ pc = "roll"
    /\ "roll" \in Faults
    /\ pc' = "idle"
    /\ UNCHANGED <<disk, op, inner, stamps, crashes, hist>>

-----------------------------------------------------------------------------
(* Writing the record. *)

Stamped ==
    [global_sequence |-> inner.next_seq, previous_hash |-> inner.prev_hash,
     record_hash |-> stamps + 1]

\* The bytes of one whole line reach the current file.  After a partial line
\* they complete that line, which then holds a fragment and a record.
LandLine ==
    /\ lines' = Append(lines, IF inner.segment_id \in torn THEN Garbage ELSE Stamped)
    /\ torn' = torn \ {inner.segment_id}

Advanced ==
    [segment_id |-> inner.segment_id, next_seq |-> inner.next_seq + 1,
     prev_hash |-> Stamped.record_hash,
     records_in_segment |-> inner.records_in_segment + 1,
     records_since_ckpt |-> inner.records_since_ckpt + 1]

write_line ==
    /\ pc = "write"
    /\ LandLine
    /\ inner' = Advanced
    /\ stamps' = stamps + 1
    /\ IF Advanced.records_since_ckpt >= checkpoint_every
       THEN pc' = "ckpt" /\ UNCHANGED acked
       ELSE /\ pc' = "idle"
            /\ acked' = acked \cup {Receipt(Stamped.global_sequence, Stamped.record_hash)}
    /\ UNCHANGED <<start, ckpts, op, crashes, refused>>

\* write_line returns an error: the writer state stays as it was.
WriteFails ==
    /\ pc = "write"
    /\ \/ /\ "write_none" \in Faults
          /\ UNCHANGED <<lines, torn>>
       \/ /\ "write_partial" \in Faults
          /\ torn' = torn \cup {inner.segment_id}
          /\ UNCHANGED lines
       \/ /\ "write_sync" \in Faults
          /\ LandLine
    /\ stamps' = stamps + 1
    /\ refused' = refused \cup {Stamped.record_hash}
    /\ pc' = "idle"
    /\ UNCHANGED <<start, ckpts, op, inner, crashes, acked>>

-----------------------------------------------------------------------------
(* Checkpoints: periodic, at the end of an append, or asked for. *)

write_checkpoint ==
    /\ pc = "ckpt"
    /\ PutCheckpoint(HeadCheckpoint(FALSE))
    /\ inner' = [inner EXCEPT !.records_since_ckpt = 0]
    /\ acked' = IF op = "append" THEN acked \cup {Receipt(inner.next_seq - 1, inner.prev_hash)}
                                 ELSE acked
    /\ pc' = "idle"
    /\ UNCHANGED <<lines, start, torn, op, stamps, crashes, refused>>

\* std::fs::write fails, before or after it truncated the file.  At the end of
\* an append the error is returned for a record that is already in the chain.
CheckpointFails ==
    /\ pc \in {"seal", "ckpt"}
    /\ \/ "ckpt" \in Faults /\ UNCHANGED ckpts
       \/ "ckpt_torn" \in Faults /\ PutCheckpoint(Garbage)
    /\ refused' = IF pc = "ckpt" /\ op = "append" THEN refused \cup {inner.prev_hash} ELSE refused
    /\ pc' = "idle"
    /\ UNCHANGED <<lines, start, torn, op, inner, stamps, crashes, acked>>

-----------------------------------------------------------------------------
(* The process stops at any point, in the middle of a write too. *)

Crash ==
    /\ pc # "down"
    /\ crashes < MaxCrashes
    /\ crashes' = crashes + 1
    /\ \/ UNCHANGED <<lines, torn, ckpts, stamps>>
       \/ /\ pc = "write"
          /\ torn' = torn \cup {inner.segment_id}
          /\ UNCHANGED <<lines, ckpts, stamps>>
       \/ /\ pc = "write"
          /\ LandLine
          /\ stamps' = stamps + 1
          /\ UNCHANGED ckpts
       \/ /\ pc \in {"seal", "ckpt"}
          /\ "ckpt_torn" \in Faults
          /\ PutCheckpoint(Garbage)
          /\ UNCHANGED <<lines, torn, stamps>>
    /\ pc' = "down"
    /\ inner' = Fresh
    /\ UNCHANGED <<start, op, hist>>

Init ==
    /\ lines = << >>
    /\ start = << >>
    /\ torn = {}
    /\ ckpts = [s \in {} |-> Garbage]
    /\ pc = "down"
    /\ op = "append"
    /\ inner = Fresh
    /\ stamps = 0
    /\ crashes = 0
    /\ acked = {}
    /\ refused = {}

Next ==
    \/ Open \/ OpenFails
    \/ \E o \in AllOps : Call(o) \/ CallReturns(o)
    \/ seal_locked \/ roll_locked \/ RollFails
    \/ write_line \/ WriteFails
    \/ write_checkpoint \/ CheckpointFails
    \/ Crash

Spec == Init /\ [][Next]_vars

-----------------------------------------------------------------------------
(* Properties. *)

\* Every variable has its type.
TypeOK ==
    /\ lines \in Seq(Record \cup {Garbage})
    /\ start \in Seq(Nat)
    /\ torn \subseteq 1..Len(start)
    /\ DOMAIN ckpts \subseteq Nat
    /\ \A s \in DOMAIN ckpts : ckpts[s] \in Checkpoint \cup {Garbage}
    /\ pc \in {"down", "idle", "seal", "roll", "write", "ckpt"}
    /\ op \in AllOps
    /\ inner \in [segment_id: Nat \ {0}, next_seq: Nat \ {0}, prev_hash: Nat,
                  records_in_segment: Nat, records_since_ckpt: Nat]
    /\ stamps \in Nat
    /\ crashes \in Nat
    /\ acked \subseteq [global_sequence: Nat, record_hash: Nat]
    /\ refused \subseteq Nat

Findings == verify_dir(lines, start, torn, ckpts)

\* A ledger nobody tampered with passes the chain checks of the offline
\* verifier (verify_dir) at every instant: while calls run, after a stop at any
\* point, after recovery.  The only parse error it may report is the partial
\* line a stop left behind.
ChainVerifies ==
    /\ Findings \cap {"ChainBreak", "SequenceGap"} = {}
    /\ torn = {} => "ParseError" \notin Findings

\* A receipt proves the record landed: every acknowledged append is in the
\* segments, under its sequence number and hash, from then on.
AckedDurable ==
    \A r \in acked : \E i \in Parsed(lines) :
        Receipt(lines[i].global_sequence, lines[i].record_hash) = r

\* Whatever fails, nothing goes wrong in silence: when an acknowledged record is
\* not in the segments the verifier reports a finding, and two readable records
\* that share a sequence number are reported as a break of the chain.
DamageIsVisible ==
    /\ AckedDurable \/ Findings # {}
    /\ (\E i, j \in Parsed(lines) : i # j /\ lines[i].global_sequence = lines[j].global_sequence)
          => Findings \cap {"ChainBreak", "SequenceGap"} # {}

\* append is fail-closed: a record whose append returned an error is not in the
\* chain, so the caller that aborted its change left no record of it.
FailClosed == \A i \in Parsed(lines) : lines[i].record_hash \notin refused

\* Losing any tail that reaches below a checkpoint is reported by the verifier
\* as a truncation.
LossBelowCheckpointDetected ==
    \A n \in 0..Len(lines) :
        (\E s \in DOMAIN ckpts : ckpts[s] # Garbage /\ n < s) =>
            "Truncated" \in verify_dir(SubSeq(lines, 1, n),
                                       [k \in 1..Len(start) |-> Min({start[k], n})],
                                       {}, ckpts)

\* A ledger that was only ever written by this code can be opened again.
OpenSucceeds == pc = "down" => CanOpen

-----------------------------------------------------------------------------
(* The ledger implements the abstract log. *)

Log == INSTANCE AuditLog
    WITH log <- [i \in 1..Len(lines) |-> lines[i].record_hash],
         receipts <- acked,
         Hash <- 1..MaxStamps

\* Seen through its receipts and errors, the ledger behaves as the abstract
\* append-only log: calls, rolls, checkpoints, stops and recoveries are either
\* one step of that log or invisible.
RefinesAuditLog == Log!LogSpec

=============================================================================
