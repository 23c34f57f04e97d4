---------------------------- MODULE Audit_proofs ----------------------------
(***************************************************************************)
(* What is recorded and what reaches the recorder, for every segment size, *)
(* checkpoint interval, set of entry points, number of records, stops,     *)
(* refusals and failing writes.                                            *)
(*                                                                         *)
(* The audit ledger: what a writer has in hand is the next line of a chain *)
(* that the files hold.  When files fail in any way, a record that was     *)
(* acknowledged is among the lines, or a line that does not parse is.      *)
(*                                                                         *)
(* The pgaudit collector: what a restart would read back is in memory, and *)
(* the batch being taken off has arrived, so that what arrives of an epoch *)
(* has neither a hole nor a repetition.                                    *)
(***************************************************************************)
EXTENDS AuditLedger, PgShip, WellFoundedInduction, TLAPS

-----------------------------------------------------------------------------
(* Type correctness, whatever fails. *)

\* Segment files start where lines are, and a running writer appends to the
\* last one.
TypeInv ==
    /\ TypeOK
    /\ \A k \in 1..Len(start) : start[k] <= Len(lines)
    /\ pc # "down" => start # << >> /\ inner.segment_id = Len(start)

\* Appending keeps the lines before, and puts the new one last.
LEMMA AppendFacts ==
  ASSUME NEW S, NEW s \in Seq(S), NEW elt \in S
  PROVE  /\ Append(s, elt) \in Seq(S)
         /\ Append(s, elt) # << >>
         /\ Len(Append(s, elt)) = Len(s) + 1
         /\ \A i \in 1..Len(s) : Append(s, elt)[i] = s[i]
         /\ Append(s, elt)[Len(s) + 1] = elt
  OBVIOUS

\* The lines m to n of a file, counted from 1.
LEMMA SliceFacts ==
  ASSUME NEW S, NEW s, NEW m \in Int, NEW n \in Int, \A i \in m..n : s[i] \in S
  PROVE  /\ SubSeq(s, m, n) \in Seq(S)
         /\ Len(SubSeq(s, m, n)) = IF m <= n THEN n - m + 1 ELSE 0
         /\ \A i \in 1..(n - m + 1) : SubSeq(s, m, n)[i] = s[m + i - 1]
  OBVIOUS

\* What the type invariant says of the files.
LEMMA FileTypes ==
  ASSUME TypeInv
  PROVE  /\ lines \in Seq(Record \cup {Garbage}) /\ Len(lines) \in Nat
         /\ start \in Seq(Nat) /\ Len(start) \in Nat
         /\ \A k \in 1..Len(start) : start[k] \in Nat /\ start[k] <= Len(lines)
  <1>1. /\ lines \in Seq(Record \cup {Garbage}) /\ start \in Seq(Nat)
        /\ \A k \in 1..Len(start) : start[k] <= Len(lines)
    BY Zenon DEF TypeInv, TypeOK
  <1>. QED  BY <1>1

\* What Stamped yields is a record: its sequence and hash are positive.
LEMMA StampedIsRecord == TypeOK => Stamped \in Record
  BY DEF TypeOK, Stamped, Record

\* A checkpoint written by write_checkpoint_locked keeps the type of `ckpts'.
LEMMA PutCheckpointType ==
  ASSUME TypeOK, NEW cp \in Checkpoint \cup {Garbage}, PutCheckpoint(cp)
  PROVE  /\ DOMAIN ckpts' \subseteq Nat
         /\ \A s \in DOMAIN ckpts' : ckpts'[s] \in Checkpoint \cup {Garbage}
  BY DEF TypeOK, PutCheckpoint

\* A checkpoint of the head is a checkpoint.
LEMMA HeadCheckpointType ==
  ASSUME TypeOK, NEW b \in BOOLEAN
  PROVE  HeadCheckpoint(b) \in Checkpoint
  BY DEF TypeOK, HeadCheckpoint, Checkpoint

\* The lines open reads from a segment are lines of the ledger.
LEMMA SegmentRead ==
  ASSUME TypeInv, start # << >>, CanOpen
  PROVE  /\ Recovered \in Seq(Record)
         /\ Recovered = << >> => BeforeRecovered \in Seq(Record)
  <1>. Len(start) \in Nat /\ Len(start) >= 1 /\ last_id = Len(start)
    BY FileTypes DEF last_id
  <1>1. Recovered \in Seq(Record)
    <2>1. Recovered \in Seq(Record \cup {Garbage})
      BY FileTypes DEF Recovered
    <2>2. \A i \in 1..Len(Recovered) : Recovered[i] # Garbage
      BY Zenon DEF CanOpen, Readable
    <2>. QED  BY <2>1, <2>2
  <1>2. ASSUME Recovered = << >> PROVE BeforeRecovered \in Seq(Record)
    <2>1. BeforeRecovered \in Seq(Record \cup {Garbage})
      <3>1. CASE last_id = 1
        BY <3>1 DEF BeforeRecovered
      <3>2. CASE last_id # 1
        <4>0. last_id - 1 \in 1..Len(start) /\ last_id \in 1..Len(start)
          BY <3>2
        <4>1. start[last_id - 1] \in Nat /\ start[last_id] \in Nat /\ start[last_id] <= Len(lines)
          BY Zenon, <4>0, FileTypes
        <4>2. lines \in Seq(Record \cup {Garbage})
          BY Zenon DEF TypeInv, TypeOK
        <4>3. SubSeq(lines, start[last_id - 1] + 1, start[last_id]) \in Seq(Record \cup {Garbage})
          BY <4>1, <4>2
        <4>. QED  BY Zenon, <3>2, <4>3 DEF BeforeRecovered
      <3>. QED  BY Zenon, <3>1, <3>2
    <2>2. \A i \in 1..Len(BeforeRecovered) : BeforeRecovered[i] # Garbage
      BY Zenon, <1>2 DEF CanOpen, Readable
    <2>. QED  BY <2>1, <2>2
  <1>. QED  BY Zenon, <1>1, <1>2

\* The head open recovers is a sequence number and a hash.
LEMMA RecoveredHeadType ==
  ASSUME TypeInv, start # << >>, CanOpen
  PROVE  RecoveredHead \in [global_sequence: Nat, record_hash: Nat]
  <1>. DEFINE from == IF Recovered # << >> THEN Recovered ELSE BeforeRecovered
  <1>1. from \in Seq(Record)
    BY Zenon, SegmentRead
  <1>2. CASE from = << >>
    BY Zenon, <1>2 DEF RecoveredHead, Receipt, ZERO
  <1>3. CASE from # << >>
    <2>1. from[Len(from)] \in Record
      BY <1>1, <1>3
    <2>2. RecoveredHead = [global_sequence |-> from[Len(from)].global_sequence,
                           record_hash |-> from[Len(from)].record_hash]
      BY Zenon, <1>3 DEF RecoveredHead, Receipt
    <2>. QED  BY Zenon, <2>1, <2>2 DEF Record
  <1>. QED  BY Zenon, <1>2, <1>3

\* One more line is in the files, and no file changes its start.
LEMMA LandLineType ==
  ASSUME TypeInv, LandLine, start' = start
  PROVE  /\ lines' \in Seq(Record \cup {Garbage})
         /\ torn' \subseteq 1..Len(start)
         /\ \A k \in 1..Len(start) : start[k] <= Len(lines')
  <1>1. \E l \in Record \cup {Garbage} : lines' = Append(lines, l)
    BY Zenon, StampedIsRecord DEF TypeInv, LandLine
  <1>2. lines' \in Seq(Record \cup {Garbage}) /\ Len(lines') = Len(lines) + 1
    BY <1>1, FileTypes, AppendFacts
  <1>3. \A k \in 1..Len(start) : start[k] \in Nat
    BY Zenon, FileTypes
  <1>4. \A k \in 1..Len(start) : start[k] <= Len(lines')
    BY <1>2, FileTypes
  <1>5. torn' \subseteq 1..Len(start)
    BY Zenon DEF TypeInv, TypeOK, LandLine
  <1>. QED  BY Zenon, <1>2, <1>4, <1>5

InnerType == [segment_id: Nat \ {0}, next_seq: Nat \ {0}, prev_hash: Nat,
              records_in_segment: Nat, records_since_ckpt: Nat]

\* Advancing the chain, and resetting a counter, keep the writer state's type.
LEMMA InnerTypes ==
  ASSUME TypeOK
  PROVE  /\ Advanced \in InnerType /\ Advanced.segment_id = inner.segment_id
         /\ [inner EXCEPT !.records_since_ckpt = 0] \in InnerType
  <1>1. inner \in InnerType /\ stamps + 1 \in Nat
    BY DEF TypeOK, InnerType
  <1>2. Advanced \in InnerType /\ Advanced.segment_id = inner.segment_id
    BY <1>1 DEF InnerType, Advanced, Stamped
  <1>3. [inner EXCEPT !.records_since_ckpt = 0] \in InnerType
    BY Zenon, <1>1 DEF InnerType
  <1>. QED  BY Zenon, <1>2, <1>3

\* Every action keeps every variable in its type.
LEMMA TypeStep == TypeInv /\ [Next]_vars => TypeInv'
  <1>. SUFFICES ASSUME TypeInv, [Next]_vars PROVE TypeInv'
    BY Zenon
  <1>. USE ConfigAssumption
  <1>1. CASE Open
    <2>1. CASE start = << >>
      BY <1>1, <2>1 DEF TypeInv, TypeOK, Open, last_id, Fresh, InnerAt, Receipt, ZERO
    <2>2. CASE start # << >>
      <3>1. RecoveredHead \in [global_sequence: Nat, record_hash: Nat] /\ Len(Recovered) \in Nat
        BY <1>1, <2>2, RecoveredHeadType, SegmentRead DEF Open
      <3>2. inner' = InnerAt(Len(start), RecoveredHead, Len(Recovered))
        BY Zenon, <1>1, <2>2 DEF Open, last_id
      <3>3. Len(start) \in Nat \ {0}
        BY <2>2 DEF TypeInv, TypeOK
      <3>4. inner' \in InnerType /\ inner'.segment_id = Len(start)
        BY <3>1, <3>2, <3>3 DEF InnerAt, InnerType
      <3>. QED
        BY Zenon, <1>1, <2>2, <3>4 DEF TypeInv, TypeOK, Open, InnerType
    <2>. QED  BY Zenon, <2>1, <2>2
  <1>2. CASE OpenFails
    BY Zenon, <1>2 DEF TypeInv, TypeOK, OpenFails
  <1>3. ASSUME NEW o \in AllOps, Call(o) PROVE TypeInv'
    BY Zenon, <1>3 DEF TypeInv, TypeOK, Call, AllOps, disk, hist
  <1>4. CASE seal_locked
    <2>1. HeadCheckpoint(TRUE) \in Checkpoint
      BY Zenon, HeadCheckpointType DEF TypeInv
    <2>2. /\ DOMAIN ckpts' \subseteq Nat
          /\ \A s \in DOMAIN ckpts' : ckpts'[s] \in Checkpoint \cup {Garbage}
      BY Zenon, <1>4, <2>1, PutCheckpointType DEF TypeInv, seal_locked
    <2>3. inner' \in InnerType /\ inner'.segment_id = inner.segment_id
      BY Zenon, <1>4, InnerTypes DEF TypeInv, TypeOK, seal_locked
    <2>. QED
      BY Zenon, <1>4, <2>2, <2>3 DEF TypeInv, TypeOK, InnerType, seal_locked, hist
  <1>5. CASE roll_locked
    <2>1. inner' \in InnerType /\ inner'.segment_id = inner.segment_id + 1
      BY <1>5 DEF TypeInv, TypeOK, InnerType, roll_locked
    <2>2. /\ start' \in Seq(Nat) /\ start' # << >> /\ Len(start') = Len(start) + 1
          /\ \A k \in 1..Len(start') : start'[k] <= Len(lines)
      <3>1. Len(lines) \in Nat /\ start' = Append(start, Len(lines))
        BY Zenon, <1>5, FileTypes DEF roll_locked
      <3>2. /\ start \in Seq(Nat) /\ Len(start) \in Nat
            /\ \A k \in 1..Len(start) : start[k] <= Len(lines)
        BY Zenon, FileTypes
      <3>3. /\ start' \in Seq(Nat) /\ start' # << >> /\ Len(start') = Len(start) + 1
            /\ \A k \in 1..Len(start) : start'[k] = start[k]
            /\ start'[Len(start) + 1] = Len(lines)
        BY <3>1, <3>2, AppendFacts
      <3>. QED  BY <3>1, <3>2, <3>3
    <2>. QED
      <3>1. torn' \subseteq 1..Len(start')
        BY <1>5, <2>2 DEF TypeInv, TypeOK, roll_locked
      <3>2. pc' \in {"write", "idle"} /\ inner.segment_id = Len(start)
        BY Zenon, <1>5 DEF TypeInv, roll_locked
      <3>. QED
        BY Zenon, <1>5, <2>1, <2>2, <3>1, <3>2 DEF TypeInv, TypeOK, InnerType, roll_locked, hist
  <1>6. CASE RollFails
    BY Zenon, <1>6 DEF TypeInv, TypeOK, RollFails, disk, hist
  <1>7. CASE write_line
    <2>1. /\ lines' \in Seq(Record \cup {Garbage}) /\ torn' \subseteq 1..Len(start)
          /\ \A k \in 1..Len(start) : start[k] <= Len(lines')
      BY Zenon, <1>7, LandLineType DEF write_line
    <2>2. inner' \in InnerType /\ inner'.segment_id = inner.segment_id
      BY Zenon, <1>7, InnerTypes DEF TypeInv, write_line
    <2>3. acked' \subseteq [global_sequence: Nat, record_hash: Nat]
      BY <1>7 DEF TypeInv, TypeOK, write_line, Receipt, Stamped
    <2>4. pc' \in {"idle", "ckpt"}
      BY Zenon, <1>7 DEF write_line
    <2>5. stamps' \in Nat /\ UNCHANGED <<start, ckpts, op, crashes, refused>> /\ pc # "down"
      BY <1>7 DEF TypeInv, TypeOK, write_line
    <2>. QED
      BY Zenon, <2>1, <2>2, <2>3, <2>4, <2>5 DEF TypeInv, TypeOK, InnerType
  <1>8. CASE WriteFails
    <2>1. /\ lines' \in Seq(Record \cup {Garbage}) /\ torn' \subseteq 1..Len(start)
          /\ \A k \in 1..Len(start) : start[k] <= Len(lines')
      <3>1. CASE LandLine
        BY Zenon, <1>8, <3>1, LandLineType DEF WriteFails
      <3>2. CASE UNCHANGED lines /\ torn' \subseteq torn \cup {inner.segment_id}
        BY <1>8, <3>2 DEF TypeInv, TypeOK, WriteFails
      <3>. QED  BY Zenon, <1>8, <3>1, <3>2 DEF WriteFails
    <2>2. refused' \subseteq Nat
      BY <1>8 DEF TypeInv, TypeOK, WriteFails, Stamped
    <2>. QED
      BY <1>8, <2>1, <2>2 DEF TypeInv, TypeOK, WriteFails
  <1>9. CASE write_checkpoint
    <2>1. HeadCheckpoint(FALSE) \in Checkpoint
      BY Zenon, HeadCheckpointType DEF TypeInv
    <2>2. /\ DOMAIN ckpts' \subseteq Nat
          /\ \A s \in DOMAIN ckpts' : ckpts'[s] \in Checkpoint \cup {Garbage}
      BY Zenon, <1>9, <2>1, PutCheckpointType DEF TypeInv, write_checkpoint
    <2>3. inner' \in InnerType /\ inner'.segment_id = inner.segment_id
      BY Zenon, <1>9, InnerTypes DEF TypeInv, TypeOK, write_checkpoint
    <2>4. acked' \subseteq [global_sequence: Nat, record_hash: Nat]
      <3>1. /\ inner.next_seq \in Nat \ {0} /\ inner.prev_hash \in Nat
            /\ acked \subseteq [global_sequence: Nat, record_hash: Nat]
            /\ acked' \subseteq acked \cup {Receipt(inner.next_seq - 1, inner.prev_hash)}
        BY Zenon, <1>9 DEF TypeInv, TypeOK, write_checkpoint
      <3>2. inner.next_seq - 1 \in Nat
        BY <3>1
      <3>. QED  BY <3>1, <3>2 DEF Receipt
    <2>5. pc' = "idle" /\ pc # "down" /\ UNCHANGED <<lines, start, torn, op, stamps, crashes, refused>>
      BY Zenon, <1>9 DEF write_checkpoint
    <2>. QED
      BY Zenon, <2>2, <2>3, <2>4, <2>5 DEF TypeInv, TypeOK, InnerType
  <1>10. CASE CheckpointFails
    <2>1. /\ DOMAIN ckpts' \subseteq Nat
          /\ \A s \in DOMAIN ckpts' : ckpts'[s] \in Checkpoint \cup {Garbage}
      <3>1. CASE UNCHANGED ckpts
        BY Zenon, <3>1 DEF TypeInv, TypeOK
      <3>2. CASE PutCheckpoint(Garbage)
        BY Zenon, <3>2, PutCheckpointType DEF TypeInv
      <3>. QED  BY Zenon, <1>10, <3>1, <3>2 DEF CheckpointFails
    <2>2. refused' \subseteq Nat
      BY Zenon, <1>10 DEF TypeInv, TypeOK, CheckpointFails
    <2>. QED
      BY Zenon, <1>10, <2>1, <2>2 DEF TypeInv, TypeOK, CheckpointFails
  <1>11. CASE Crash
    <2>1. /\ lines' \in Seq(Record \cup {Garbage}) /\ torn' \subseteq 1..Len(start)
          /\ \A k \in 1..Len(start) : start[k] <= Len(lines')
      <3>1. CASE LandLine
        BY Zenon, <1>11, <3>1, LandLineType DEF Crash
      <3>2. CASE UNCHANGED lines /\ torn' \subseteq torn \cup {inner.segment_id}
        BY <1>11, <3>2 DEF TypeInv, TypeOK, Crash
      <3>. QED  BY Zenon, <1>11, <3>1, <3>2 DEF Crash
    <2>2. /\ DOMAIN ckpts' \subseteq Nat
          /\ \A s \in DOMAIN ckpts' : ckpts'[s] \in Checkpoint \cup {Garbage}
      <3>1. CASE UNCHANGED ckpts
        BY Zenon, <3>1 DEF TypeInv, TypeOK
      <3>2. CASE PutCheckpoint(Garbage)
        BY Zenon, <3>2, PutCheckpointType DEF TypeInv
      <3>. QED  BY Zenon, <1>11, <3>1, <3>2 DEF Crash
    <2>3. stamps' \in Nat /\ inner' = Fresh /\ pc' = "down"
      BY <1>11 DEF TypeInv, TypeOK, Crash
    <2>. QED
      <3>1. inner' \in InnerType
        BY <2>3 DEF Fresh, InnerAt, Receipt, ZERO, InnerType
      <3>2. crashes \in Nat /\ crashes' = crashes + 1
        BY Zenon, <1>11 DEF TypeInv, TypeOK, Crash
      <3>3. crashes' \in Nat
        BY <3>2
      <3>4. UNCHANGED <<start, op>> /\ acked' \subseteq [global_sequence: Nat, record_hash: Nat]
            /\ refused' \subseteq Nat
        BY Zenon, <1>11 DEF TypeInv, TypeOK, Crash, hist
      <3>. QED  BY Zenon, <2>1, <2>2, <2>3, <3>1, <3>3, <3>4 DEF TypeInv, TypeOK, InnerType
  <1>12. CASE UNCHANGED vars
    BY Zenon, <1>12 DEF TypeInv, TypeOK, vars
  <1>13. ASSUME NEW o \in AllOps, CallReturns(o) PROVE TypeInv'
    BY Zenon, <1>12, <1>13 DEF CallReturns
  <1>. QED
    BY Zenon, <1>1, <1>2, <1>3, <1>4, <1>5, <1>6, <1>7, <1>8, <1>9, <1>10, <1>11, <1>12, <1>13 DEF Next

\* The ledger's variables have their types in every reachable state, whichever
\* of the file operations of garmr-audit fail.
THEOREM TypeCorrect == Spec => []TypeOK
  <1>1. Init => TypeInv
    BY DEF Init, TypeInv, TypeOK, AllOps, Fresh, InnerAt, Receipt, ZERO
  <1>. QED  BY <1>1, TypeStep, PTL DEF Spec, TypeInv
-----------------------------------------------------------------------------
(* The chain on disk, when no write stops half-way while the process goes on. *)

\* Failures leave a file either untouched or completely written.  A stop in the
\* middle of a record's line is not excluded.
Benign == Faults \cap {"write_partial", "write_sync", "ckpt_torn"} = {}

HashAt(ls, i) == IF i = 0 THEN ZERO ELSE ls[i].record_hash

\* The lines are records numbered from 1, each linked to the one before it, and
\* none carries a hash not drawn yet.
ChainInv ==
    \A i \in 1..Len(lines) :
        /\ lines[i] \in Record
        /\ lines[i].global_sequence = i
        /\ lines[i].previous_hash = HashAt(lines, i - 1)
        /\ lines[i].record_hash <= stamps

\* No segment but the last is empty or torn.
FilesInv ==
    /\ start = << >> => lines = << >>
    /\ start # << >> => start[1] = 0
    /\ \A k \in 1..(Len(start) - 1) : start[k] < start[k + 1]
    /\ torn \subseteq {Len(start)}

\* A running writer knows the head of the chain on disk, and the length of the
\* segment it appends to.
WriterInv ==
    pc # "down" =>
        /\ torn = {}
        /\ inner.next_seq = Len(lines) + 1
        /\ inner.prev_hash = HashAt(lines, Len(lines))
        /\ inner.records_in_segment = Len(lines) - start[Len(start)]
        /\ pc \in {"seal", "roll"} => inner.records_in_segment # 0
        /\ pc = "ckpt" => inner.next_seq # 1

\* A checkpoint commits to a record that is there.
CkptInv ==
    \A s \in DOMAIN ckpts :
        /\ s \in 1..Len(lines)
        /\ ckpts[s] \in Checkpoint
        /\ ckpts[s].global_sequence = s
        /\ ckpts[s].record_hash = lines[s].record_hash

\* A receipt names a record that is there.
AckInv ==
    \A r \in acked :
        /\ r.global_sequence \in 1..Len(lines)
        /\ lines[r.global_sequence].record_hash = r.record_hash

IInv == TypeInv /\ ChainInv /\ FilesInv /\ WriterInv /\ CkptInv /\ AckInv

\* The last element of a slice.
LEMMA SliceLast ==
  ASSUME NEW S, NEW s \in Seq(S), NEW m \in Nat, NEW n \in 1..Len(s), m < n
  PROVE  /\ SubSeq(s, m + 1, n) # << >>
         /\ SubSeq(s, m + 1, n)[Len(SubSeq(s, m + 1, n))] = s[n]
  <1>. DEFINE t == SubSeq(s, m + 1, n)
  <1>1. n \in Int /\ m + 1 \in Int /\ \A i \in (m + 1)..n : s[i] \in S
    OBVIOUS
  <1>2. Len(t) = n - m
    BY <1>1, SliceFacts
  <1>3. \A i \in 1..(n - (m + 1) + 1) : t[i] = s[(m + 1) + i - 1]
    BY <1>1, SliceFacts
  <1>4. t[n - m] = s[n]
    BY <1>3
  <1>. QED  BY <1>2, <1>4

\* open recovers the head of the chain on disk and the length of its last
\* segment, from that segment or, when it is empty, from the one before it.
LEMMA OpenHead ==
  ASSUME IInv, start # << >>
  PROVE  /\ Len(Recovered) = Len(lines) - start[Len(start)]
         /\ RecoveredHead = Receipt(Len(lines), HashAt(lines, Len(lines)))
  <1>. DEFINE n == Len(lines)
              k == Len(start)
              from == IF Recovered # << >> THEN Recovered ELSE BeforeRecovered
  <1>1. /\ n \in Nat /\ k \in Nat /\ k >= 1 /\ last_id = k
        /\ start[k] \in Nat /\ start[k] <= n
        /\ lines \in Seq(Record \cup {Garbage})
    BY FileTypes DEF IInv, last_id
  <1>2. /\ Recovered \in Seq(Record \cup {Garbage})
        /\ Len(Recovered) = n - start[k]
        /\ \A i \in 1..(n - start[k]) : Recovered[i] = lines[start[k] + i]
    BY <1>1, SliceFacts DEF Recovered
  <1>3. RecoveredHead = IF from = << >> THEN Receipt(0, ZERO)
                        ELSE Receipt(from[Len(from)].global_sequence, from[Len(from)].record_hash)
    BY Zenon DEF RecoveredHead
  <1>4. CASE start[k] < n
    <2>1. Recovered # << >> /\ Recovered[Len(Recovered)] = lines[n] /\ n # 0
      BY <1>1, <1>2, <1>4
    <2>2. lines[n].global_sequence = n
      BY <1>1, <2>1 DEF IInv, ChainInv
    <2>. QED  BY Zenon, <1>2, <1>3, <2>1, <2>2 DEF HashAt
  <1>5. CASE start[k] = n /\ k = 1
    <2>1. n = 0
      BY Zenon, <1>5 DEF IInv, FilesInv
    <2>2. Recovered = << >> /\ BeforeRecovered = << >>
      BY <1>1, <1>2, <1>5 DEF BeforeRecovered
    <2>. QED  BY Zenon, <1>2, <1>3, <2>1, <2>2 DEF HashAt
  <1>6. CASE start[k] = n /\ k # 1
    <2>1. start[k - 1] \in Nat /\ start[k - 1] < n /\ n # 0
      <3>1. start \in Seq(Nat) /\ k - 1 \in 1..k
        BY <1>1, <1>6, FileTypes DEF IInv
      <3>2. start[k - 1] < start[(k - 1) + 1]
        BY <1>1, <1>6 DEF IInv, FilesInv
      <3>3. start[k - 1] \in Nat
        BY <3>1
      <3>. QED  BY <1>1, <1>6, <3>2, <3>3
    <2>2. BeforeRecovered = SubSeq(lines, start[k - 1] + 1, n)
      BY Zenon, <1>1, <1>6 DEF BeforeRecovered
    <2>3. /\ BeforeRecovered # << >>
          /\ BeforeRecovered[Len(BeforeRecovered)] = lines[n]
      <3>1. n \in 1..Len(lines)
        BY <1>1, <2>1
      <3>. QED  BY Zenon, <1>1, <2>1, <2>2, <3>1, SliceLast
    <2>4. Recovered = << >>
      BY <1>1, <1>2, <1>6
    <2>5. lines[n].global_sequence = n
      BY <1>1, <2>1 DEF IInv, ChainInv
    <2>. QED  BY Zenon, <1>2, <1>3, <2>1, <2>3, <2>4, <2>5 DEF HashAt
  <1>. QED  BY <1>1, <1>2, <1>4, <1>5, <1>6

\* A line that lands after a complete line is the stamped record.
LEMMA LandRecord ==
  ASSUME IInv, pc = "write", LandLine
  PROVE  /\ lines' \in Seq(Record \cup {Garbage})
         /\ Len(lines') = Len(lines) + 1
         /\ \A i \in 1..Len(lines) : lines'[i] = lines[i]
         /\ lines'[Len(lines) + 1] = Stamped
         /\ torn' = {}
  <1>1. torn = {}
    BY Zenon DEF IInv, WriterInv
  <1>2. lines' = Append(lines, Stamped) /\ torn' = {}
    BY Zenon, <1>1 DEF LandLine
  <1>3. Stamped \in Record \cup {Garbage} /\ lines \in Seq(Record \cup {Garbage})
    BY Zenon, StampedIsRecord DEF IInv, TypeInv, TypeOK
  <1>. QED  BY <1>2, <1>3, AppendFacts

\* The chain grows by one linked record, and what was there stays.
LEMMA LandKeeps ==
  ASSUME IInv, pc = "write", LandLine, stamps' = stamps + 1,
         start' = start, ckpts' = ckpts,
         acked' \subseteq acked \cup {Receipt(inner.next_seq, Stamped.record_hash)}
  PROVE  ChainInv' /\ FilesInv' /\ CkptInv' /\ AckInv'
  <1>. DEFINE n == Len(lines)
  <1>1. /\ n \in Nat /\ stamps \in Nat /\ lines \in Seq(Record \cup {Garbage})
        /\ inner.next_seq = n + 1 /\ inner.prev_hash = HashAt(lines, n)
        /\ start # << >>
    BY DEF IInv, TypeInv, TypeOK, WriterInv
  <1>2. /\ Len(lines') = n + 1
        /\ \A i \in 1..n : lines'[i] = lines[i]
        /\ lines'[n + 1] = Stamped
        /\ torn' = {}
    BY Zenon, LandRecord
  <1>3. Stamped \in Record
    BY Zenon, StampedIsRecord DEF IInv, TypeInv
  <1>4. ChainInv'
    <2>. SUFFICES ASSUME NEW i \in 1..(n + 1)
                  PROVE  /\ lines'[i] \in Record
                         /\ lines'[i].global_sequence = i
                         /\ lines'[i].previous_hash = HashAt(lines', i - 1)
                         /\ lines'[i].record_hash <= stamps + 1
      BY Zenon, <1>2 DEF ChainInv
    <2>1. CASE i = n + 1
      <3>1. HashAt(lines', n) = HashAt(lines, n)
        BY <1>1, <1>2 DEF HashAt
      <3>. QED  BY <1>1, <1>2, <1>3, <2>1, <3>1 DEF Stamped
    <2>2. CASE i \in 1..n
      <3>1. HashAt(lines', i - 1) = HashAt(lines, i - 1)
        BY <1>1, <1>2, <2>2 DEF HashAt
      <3>2. lines[i].record_hash \in Nat /\ lines[i].record_hash <= stamps
        BY Zenon, <2>2 DEF IInv, ChainInv, Record
      <3>. QED  BY <1>1, <1>2, <2>2, <3>1, <3>2 DEF IInv, ChainInv
    <2>. QED  BY <1>1, <2>1, <2>2
  <1>5. FilesInv'
    BY Zenon, <1>1, <1>2 DEF IInv, FilesInv
  <1>6. CkptInv'
    BY <1>1, <1>2 DEF IInv, CkptInv
  <1>7. AckInv'
    BY <1>1, <1>2 DEF IInv, AckInv, Receipt
  <1>. QED  BY Zenon, <1>4, <1>5, <1>6, <1>7

\* Writing the checkpoint of the head keeps checkpoints honest.
LEMMA HeadCheckpointKeeps ==
  ASSUME IInv, pc # "down", inner.next_seq # 1, NEW b \in BOOLEAN,
         PutCheckpoint(HeadCheckpoint(b)), lines' = lines
  PROVE  CkptInv'
  <1>. DEFINE n == Len(lines)
  <1>1. /\ n \in Nat /\ inner.next_seq = n + 1 /\ inner.prev_hash = HashAt(lines, n)
        /\ n # 0
    BY DEF IInv, TypeInv, TypeOK, WriterInv
  <1>2. HeadCheckpoint(b) \in Checkpoint
    BY Zenon, HeadCheckpointType DEF IInv, TypeInv
  <1>3. /\ HeadCheckpoint(b).global_sequence = n
        /\ HeadCheckpoint(b).record_hash = lines[n].record_hash
    BY <1>1 DEF HeadCheckpoint, HashAt
  <1>4. ckpts' = [s \in DOMAIN ckpts \cup {n} |-> IF s = n THEN HeadCheckpoint(b) ELSE ckpts[s]]
    BY <1>1 DEF PutCheckpoint
  <1>. SUFFICES ASSUME NEW s \in DOMAIN ckpts \cup {n}
                PROVE  /\ s \in 1..n
                       /\ ckpts'[s] \in Checkpoint
                       /\ ckpts'[s].global_sequence = s
                       /\ ckpts'[s].record_hash = lines[s].record_hash
    BY Zenon, <1>4 DEF CkptInv
  <1>5. CASE s = n
    BY <1>1, <1>2, <1>3, <1>4, <1>5
  <1>6. CASE s # n
    BY Zenon, <1>4, <1>6 DEF IInv, CkptInv
  <1>. QED  BY Zenon, <1>5, <1>6

\* Every action keeps the invariant.
LEMMA InvStep == Benign /\ IInv /\ [Next]_vars => IInv'
  <1>. SUFFICES ASSUME Benign, IInv, [Next]_vars PROVE IInv'
    BY Zenon
  <1>. USE ConfigAssumption
  <1>0. TypeInv'
    BY Zenon, TypeStep DEF IInv
  <1>1. CASE Open
    <2>1. ChainInv' /\ CkptInv' /\ AckInv'
      BY Zenon, <1>1 DEF IInv, ChainInv, CkptInv, AckInv, Open
    <2>2. CASE start = << >>
      <3>1. start' = <<0>> /\ lines' = << >> /\ torn' = {} /\ inner' = Fresh /\ pc' = "idle"
        <4>1. lines = << >> /\ torn = {}
          BY <2>2 DEF IInv, TypeInv, TypeOK, FilesInv
        <4>. QED  BY Zenon, <1>1, <2>2, <4>1 DEF Open
      <3>2. Len(start') = 1 /\ start'[1] = 0 /\ start' # << >> /\ Len(lines') = 0
        BY Zenon, <3>1
      <3>3. FilesInv'
        BY <3>1, <3>2 DEF FilesInv
      <3>4. inner'.next_seq = 1 /\ inner'.prev_hash = ZERO /\ inner'.records_in_segment = 0
        BY <3>1 DEF Fresh, InnerAt, Receipt, ZERO
      <3>5. WriterInv'
        BY <3>1, <3>2, <3>4 DEF WriterInv, HashAt
      <3>. QED  BY Zenon, <1>0, <2>1, <3>3, <3>5 DEF IInv
    <2>3. CASE start # << >>
      <3>1. start' = start /\ lines' = lines /\ torn' = {} /\ pc' = "idle"
        BY Zenon, <1>1, <2>3 DEF IInv, FilesInv, Open, last_id
      <3>2. inner' = InnerAt(Len(start), Receipt(Len(lines), HashAt(lines, Len(lines))),
                             Len(lines) - start[Len(start)])
        BY Zenon, <1>1, <2>3, OpenHead DEF Open, last_id
      <3>3. FilesInv' /\ WriterInv'
        BY Zenon, <3>1, <3>2 DEF IInv, FilesInv, WriterInv, InnerAt, Receipt
      <3>. QED  BY Zenon, <1>0, <2>1, <3>3 DEF IInv
    <2>. QED  BY Zenon, <2>2, <2>3
  <1>2. CASE OpenFails
    BY Zenon, <1>0, <1>2 DEF IInv, ChainInv, FilesInv, WriterInv, CkptInv, AckInv, OpenFails
  <1>3. ASSUME NEW o \in AllOps, Call(o) PROVE IInv'
    <2>1. ChainInv' /\ FilesInv' /\ CkptInv' /\ AckInv'
      BY Zenon, <1>3 DEF IInv, ChainInv, FilesInv, CkptInv, AckInv, Call, disk, hist
    <2>2. pc' \in {"seal", "roll"} => inner.records_in_segment # 0
      BY <1>3 DEF Call, AllOps, SegmentFull
    <2>3. pc' = "ckpt" => inner.next_seq # 1
      BY Zenon, <1>3 DEF Call, AllOps
    <2>4. WriterInv'
      BY Zenon, <1>3, <2>2, <2>3 DEF IInv, WriterInv, Call, disk, hist
    <2>. QED  BY Zenon, <1>0, <2>1, <2>4 DEF IInv
  <1>4. CASE seal_locked
    <2>1. inner.next_seq # 1
      <3>1. /\ inner.next_seq = Len(lines) + 1 /\ inner.records_in_segment # 0
            /\ inner.records_in_segment = Len(lines) - start[Len(start)]
            /\ start # << >>
        BY Zenon, <1>4 DEF IInv, TypeInv, WriterInv, seal_locked
      <3>2. /\ start \in Seq(Nat) /\ Len(start) \in Nat /\ Len(lines) \in Nat
            /\ \A k \in 1..Len(start) : start[k] \in Nat /\ start[k] <= Len(lines)
        BY Zenon, FileTypes DEF IInv
      <3>. QED  BY <3>1, <3>2
    <2>2. CkptInv'
      BY Zenon, <1>4, <2>1, HeadCheckpointKeeps DEF seal_locked
    <2>3. WriterInv'
      BY Zenon, <1>4 DEF IInv, TypeInv, TypeOK, WriterInv, seal_locked
    <2>. QED
      BY Zenon, <1>0, <1>4, <2>2, <2>3 DEF IInv, ChainInv, FilesInv, AckInv, seal_locked, hist
  <1>5. CASE roll_locked
    <2>1. /\ start' = Append(start, Len(lines)) /\ lines' = lines /\ torn' = {} /\ torn = {}
          /\ pc' \in {"write", "idle"} /\ start[Len(start)] < Len(lines)
          /\ inner' = [segment_id |-> inner.segment_id + 1, next_seq |-> inner.next_seq,
                       prev_hash |-> inner.prev_hash, records_in_segment |-> 0,
                       records_since_ckpt |-> inner.records_since_ckpt]
          /\ start \in Seq(Nat) /\ start # << >> /\ Len(lines) \in Nat
      BY <1>5 DEF IInv, TypeInv, TypeOK, WriterInv, roll_locked
    <2>2. /\ Len(start') = Len(start) + 1 /\ start' # << >>
          /\ \A k \in 1..Len(start) : start'[k] = start[k]
          /\ start'[Len(start) + 1] = Len(lines)
      BY <2>1, AppendFacts
    <2>3. FilesInv'
      BY <2>1, <2>2 DEF IInv, FilesInv
    <2>4. WriterInv'
      <3>1. /\ inner'.next_seq = inner.next_seq /\ inner'.prev_hash = inner.prev_hash
            /\ inner'.records_in_segment = 0
        BY Zenon, <2>1
      <3>2. inner.next_seq = Len(lines) + 1 /\ inner.prev_hash = HashAt(lines, Len(lines))
        BY Zenon, <1>5 DEF IInv, WriterInv, roll_locked
      <3>3. start'[Len(start')] = Len(lines')
        BY Zenon, <2>1, <2>2
      <3>. QED  BY <2>1, <3>1, <3>2, <3>3 DEF WriterInv, HashAt
    <2>. QED
      BY Zenon, <1>0, <1>5, <2>3, <2>4 DEF IInv, ChainInv, CkptInv, AckInv, roll_locked, hist
  <1>6. CASE RollFails
    BY Zenon, <1>0, <1>6
       DEF IInv, ChainInv, FilesInv, WriterInv, CkptInv, AckInv, RollFails, disk, hist
  <1>7. CASE write_line
    <2>. DEFINE n == Len(lines)
    <2>1. /\ pc = "write" /\ LandLine /\ stamps' = stamps + 1
          /\ start' = start /\ ckpts' = ckpts
          /\ acked' \subseteq acked \cup {Receipt(inner.next_seq, Stamped.record_hash)}
      BY Zenon, <1>7 DEF write_line, Stamped
    <2>2. ChainInv' /\ FilesInv' /\ CkptInv' /\ AckInv'
      BY Zenon, <2>1, LandKeeps DEF IInv
    <2>3. /\ n \in Nat /\ Len(lines') = n + 1 /\ lines'[n + 1] = Stamped /\ torn' = {}
          /\ \A i \in 1..n : lines'[i] = lines[i]
      BY Zenon, <2>1, LandRecord, FileTypes DEF IInv
    <2>4. inner.next_seq = n + 1 /\ Stamped.global_sequence = n + 1
      BY Zenon, <2>1 DEF IInv, WriterInv, Stamped
    <2>5. WriterInv'
      <3>1. pc' \in {"idle", "ckpt"} /\ inner' = Advanced
        BY Zenon, <1>7 DEF write_line
      <3>2. inner.records_in_segment = n - start[Len(start)] /\ start[Len(start)] \in Nat
        BY <2>1 DEF IInv, TypeInv, TypeOK, WriterInv
      <3>3. /\ inner'.next_seq = n + 2
            /\ inner'.prev_hash = HashAt(lines', n + 1)
            /\ inner'.records_in_segment = n + 1 - start[Len(start)]
        BY <2>3, <2>4, <3>1, <3>2 DEF Advanced, HashAt
      <3>4. start'[Len(start')] = start[Len(start)]
        BY Zenon, <2>1
      <3>5. n + 2 = Len(lines') + 1 /\ n + 2 # 1 /\ Len(lines') = n + 1
        BY <2>3
      <3>6. inner'.next_seq = Len(lines') + 1 /\ inner'.next_seq # 1
        BY Zenon, <3>3, <3>5
      <3>7. inner'.prev_hash = HashAt(lines', Len(lines'))
        BY Zenon, <3>3, <3>5
      <3>8. inner'.records_in_segment = Len(lines') - start'[Len(start')]
        <4>1. inner'.records_in_segment = (n + 1) - start[Len(start)]
          BY <2>3, <3>2, <3>3
        <4>2. Len(lines') = n + 1
          BY Zenon, <3>5
        <4>. QED  BY Zenon, <4>1, <4>2, <3>4
      <3>. QED  BY Zenon, <2>3, <3>1, <3>6, <3>7, <3>8 DEF WriterInv
    <2>. QED  BY Zenon, <1>0, <2>2, <2>5 DEF IInv
  <1>8. CASE WriteFails
    <2>1. UNCHANGED <<lines, torn, start, ckpts, inner, acked>> /\ stamps' = stamps + 1 /\ pc' = "idle"
      BY Zenon, <1>8 DEF WriteFails, Benign
    <2>2. ChainInv'
      <3>1. \A i \in 1..Len(lines) : lines[i].record_hash \in Nat /\ lines[i].record_hash <= stamps
        BY Zenon DEF IInv, ChainInv, Record
      <3>0. stamps \in Nat
        BY Zenon DEF IInv, TypeInv, TypeOK
      <3>2. \A h \in Nat : h <= stamps => h <= stamps + 1
        BY <3>0
      <3>. QED  BY Zenon, <2>1, <3>0, <3>1, <3>2 DEF IInv, ChainInv
    <2>3. pc # "down"
      BY Zenon, <1>8 DEF WriteFails
    <2>. QED
      BY Zenon, <1>0, <2>1, <2>2, <2>3 DEF IInv, FilesInv, WriterInv, CkptInv, AckInv
  <1>9. CASE write_checkpoint
    <2>1. pc = "ckpt" /\ inner.next_seq # 1 /\ lines' = lines
      BY Zenon, <1>9 DEF IInv, WriterInv, write_checkpoint
    <2>2. CkptInv'
      BY Zenon, <1>9, <2>1, HeadCheckpointKeeps DEF write_checkpoint
    <2>3. WriterInv'
      BY Zenon, <1>9 DEF IInv, TypeInv, TypeOK, WriterInv, write_checkpoint
    <2>4. AckInv'
      <3>1. /\ Len(lines) \in Nat /\ Len(lines) # 0 /\ inner.next_seq - 1 = Len(lines)
            /\ inner.prev_hash = lines[Len(lines)].record_hash
        <4>1. /\ inner.next_seq = Len(lines) + 1 /\ inner.next_seq # 1
              /\ inner.prev_hash = HashAt(lines, Len(lines))
          BY Zenon, <2>1 DEF IInv, WriterInv
        <4>2. Len(lines) \in Nat
          BY Zenon, FileTypes DEF IInv
        <4>. QED  BY <4>1, <4>2 DEF HashAt
      <3>2. acked' \subseteq acked \cup {Receipt(Len(lines), lines[Len(lines)].record_hash)}
        BY Zenon, <1>9, <3>1 DEF write_checkpoint
      <3>. QED  BY <2>1, <3>1, <3>2 DEF IInv, AckInv, Receipt
    <2>. QED
      BY Zenon, <1>0, <1>9, <2>2, <2>3, <2>4 DEF IInv, ChainInv, FilesInv, write_checkpoint
  <1>10. CASE CheckpointFails
    <2>1. UNCHANGED <<lines, torn, start, ckpts, inner, stamps, acked>> /\ pc' = "idle" /\ pc # "down"
      BY Zenon, <1>10 DEF CheckpointFails, Benign
    <2>. QED
      BY Zenon, <1>0, <2>1 DEF IInv, ChainInv, FilesInv, WriterInv, CkptInv, AckInv
  <1>11. CASE Crash
    <2>1. WriterInv' /\ start' = start /\ ckpts' = ckpts /\ acked' = acked
      BY Zenon, <1>11 DEF Crash, WriterInv, Benign, hist
    <2>2. CASE LandLine /\ pc = "write" /\ stamps' = stamps + 1
      BY Zenon, <1>0, <2>1, <2>2, LandKeeps DEF IInv
    <2>3. CASE UNCHANGED <<lines, stamps>> /\ torn' \subseteq torn \cup {inner.segment_id}
      <3>1. FilesInv'
        BY Zenon, <1>11, <2>1, <2>3 DEF IInv, TypeInv, FilesInv, WriterInv, Crash
      <3>. QED
        BY Zenon, <1>0, <2>1, <2>3, <3>1 DEF IInv, ChainInv, CkptInv, AckInv
    <2>. QED  BY Zenon, <1>11, <2>2, <2>3 DEF Crash, Benign
  <1>12. CASE UNCHANGED vars
    BY Zenon, <1>0, <1>12 DEF IInv, ChainInv, FilesInv, WriterInv, CkptInv, AckInv, vars
  <1>13. ASSUME NEW o \in AllOps, CallReturns(o) PROVE IInv'
    BY Zenon, <1>12, <1>13 DEF CallReturns
  <1>. QED
    BY Zenon, <1>1, <1>2, <1>3, <1>4, <1>5, <1>6, <1>7, <1>8, <1>9, <1>10, <1>11, <1>12, <1>13 DEF Next

\* The invariant holds in every reachable state.
LEMMA InvHolds == Benign => (Spec => []IInv)
  <1>1. Init => IInv
    BY DEF Init, IInv, TypeInv, TypeOK, ChainInv, FilesInv, WriterInv, CkptInv, AckInv,
           AllOps, Fresh, InnerAt, Receipt, ZERO
  <1>2. ASSUME Benign PROVE IInv /\ [Next]_vars => IInv'
    BY Zenon, <1>2, InvStep
  <1>3. ASSUME Benign PROVE Spec => []IInv
    BY <1>1, <1>2, <1>3, PTL DEF Spec
  <1>. QED  BY Zenon, <1>3

\* The records of the chain on disk are what the verifier walks.
LEMMA HeadBeforeInChain ==
  ASSUME IInv, NEW i \in 1..Len(lines)
  PROVE  /\ Parsed(lines) = 1..Len(lines)
         /\ HeadBefore(lines, i) = Receipt(i - 1, HashAt(lines, i - 1))
  <1>1. Len(lines) \in Nat
    BY Zenon, FileTypes DEF IInv
  <1>2. Parsed(lines) = 1..Len(lines)
    BY Zenon, ConfigAssumption DEF IInv, ChainInv, Parsed
  <1>. DEFINE prior == { j \in Parsed(lines) : j < i }
  <1>3. prior = 1..(i - 1)
    BY <1>1, <1>2
  <1>4. CASE i = 1
    BY <1>2, <1>3, <1>4 DEF HeadBefore, HashAt
  <1>5. CASE i # 1
    <2>1. prior # {} /\ Max(prior) = i - 1
      <3>1. i - 1 \in prior /\ \A j \in prior : i - 1 >= j
        BY <1>1, <1>3, <1>5
      <3>2. \A x \in prior : (\A j \in prior : x >= j) => x = i - 1
        BY <1>1, <1>3, <3>1
      <3>. QED  BY Zenon, <3>1, <3>2 DEF Max
    <2>2. i - 1 \in 1..Len(lines) /\ lines[i - 1].global_sequence = i - 1
      BY <1>1, <1>5 DEF IInv, ChainInv
    <2>. QED  BY <1>2, <1>5, <2>1, <2>2 DEF HeadBefore, HashAt
  <1>. QED  BY Zenon, <1>2, <1>4, <1>5

\* When no write stops half-way in a running process, the ledger passes the
\* chain checks of verify_dir in every reachable state, for every segment size,
\* checkpoint interval and sequence of calls, stops and recoveries.
THEOREM ChainAlwaysVerifies == Benign => (Spec => []ChainVerifies)
  <1>1. IInv => ChainVerifies
    <2>. SUFFICES ASSUME IInv PROVE ChainVerifies
      BY Zenon
    <2>1. \A i \in Parsed(lines) :
            /\ lines[i].previous_hash = HeadBefore(lines, i).record_hash
            /\ lines[i].global_sequence = HeadBefore(lines, i).global_sequence + 1
      <3>. SUFFICES ASSUME NEW i \in 1..Len(lines)
                    PROVE  /\ lines[i].previous_hash = HeadBefore(lines, i).record_hash
                           /\ lines[i].global_sequence = HeadBefore(lines, i).global_sequence + 1
        BY Zenon DEF Parsed
      <3>. QED  BY HeadBeforeInChain DEF IInv, ChainInv, Receipt
    <2>2. Parsed(lines) = 1..Len(lines)
      BY Zenon, ConfigAssumption DEF IInv, ChainInv, Parsed
    <2>3. \A s \in DOMAIN ckpts : ckpts[s] # Garbage
      BY Zenon, ConfigAssumption DEF IInv, CkptInv
    <2>4. "ChainBreak" \notin Findings /\ "SequenceGap" \notin Findings
      BY Zenon, <2>1 DEF Findings, verify_dir
    <2>5. torn = {} => "ParseError" \notin Findings
      BY Zenon, <2>2, <2>3 DEF Findings, verify_dir
    <2>. QED  BY Zenon, <2>4, <2>5 DEF ChainVerifies
  <1>. QED  BY <1>1, InvHolds, PTL

\* Under the same proviso every receipt append returned names a record that is
\* in the segments, with its sequence number and hash, in every later state.
THEOREM ReceiptsAreDurable == Benign => (Spec => []AckedDurable)
  <1>1. IInv => AckedDurable
    <2>. SUFFICES ASSUME IInv, NEW r \in acked
                  PROVE  \E i \in Parsed(lines) :
                            Receipt(lines[i].global_sequence, lines[i].record_hash) = r
      BY Zenon DEF AckedDurable
    <2>. DEFINE i == r.global_sequence
    <2>1. /\ r = Receipt(r.global_sequence, r.record_hash)
          /\ i \in 1..Len(lines) /\ lines[i].record_hash = r.record_hash
      BY Zenon DEF IInv, TypeInv, TypeOK, AckInv, Receipt
    <2>2. lines[i].global_sequence = i /\ i \in Parsed(lines)
      BY Zenon, <2>1, ConfigAssumption DEF IInv, ChainInv, Parsed
    <2>. QED  BY Zenon, <2>1, <2>2
  <1>. QED  BY <1>1, InvHolds, PTL

\* Losing any tail that reaches below a checkpoint is reported by verify_dir: the
\* checkpoint commits a sequence number that no line left has, because the lines
\* are numbered by their places.
THEOREM LossIsDetected == Benign => (Spec => []LossBelowCheckpointDetected)
  <1>1. IInv => LossBelowCheckpointDetected
    <2>. SUFFICES ASSUME IInv, NEW n \in 0..Len(lines), NEW s \in DOMAIN ckpts, ckpts[s] # Garbage, n < s
                  PROVE  "Truncated" \in verify_dir(SubSeq(lines, 1, n),
                                            [k \in 1..Len(start) |-> Min({start[k], n})], {}, ckpts)
      BY Zenon DEF LossBelowCheckpointDetected
    <2>. DEFINE ls == SubSeq(lines, 1, n)
                st == [k \in 1..Len(start) |-> Min({start[k], n})]
    <2>1. lines \in Seq(Record \cup {Garbage}) /\ Len(lines) \in Nat
      BY FileTypes DEF IInv
    <2>2. Len(ls) = n /\ \A i \in 1..n : ls[i] = lines[i]
      BY <2>1
    <2>3. s \in 1..Len(lines) /\ ckpts[s].global_sequence = s
      BY Zenon DEF IInv, CkptInv
    <2>4. \A i \in 1..n : ls[i].global_sequence = i /\ i # s
      BY <2>1, <2>2, <2>3 DEF IInv, ChainInv
    <2>. HIDE DEF ls, st
    <2>5. \A i \in Parsed(ls) : ls[i].global_sequence # ckpts[s].global_sequence
      BY Zenon, <2>2, <2>3, <2>4 DEF Parsed
    <2>6. Truncated(ls, st, ckpts[s])
      BY Zenon, <2>5 DEF Truncated
    <2>7. "Truncated" \in verify_dir(ls, st, {}, ckpts)
      BY Zenon, <2>6 DEF verify_dir, FindingKind
    <2>. QED  BY Zenon, <2>7 DEF ls, st
  <1>. QED  BY <1>1, InvHolds, PTL

-----------------------------------------------------------------------------
(* When every failing file operation fails cleanly, the ledger is          *)
(* fail-closed and implements the abstract log of AuditLog.                *)

\* The only failures are a segment file that cannot be created and a line that
\* cannot be written at all.
CleanErrors == Faults \subseteq {"roll", "write_none"}

\* Refused hashes were drawn and are not in the chain; an append that has not
\* written its line yet has a hash left to draw.
RefusedInv ==
    /\ \A h \in refused : h <= stamps
    /\ \A i \in 1..Len(lines) : lines[i].record_hash \notin refused
    /\ stamps <= MaxStamps
    /\ pc = "write" => stamps < MaxStamps
    /\ pc \in {"seal", "roll"} /\ op = "append" => stamps < MaxStamps

CInv == IInv /\ RefusedInv

\* Clean errors are benign.
LEMMA CleanIsBenign == CleanErrors => Benign
  BY Zenon DEF CleanErrors, Benign

\* A line that lands in a running ledger carries a hash nobody was refused.
LEMMA LandRefused ==
  ASSUME CInv, pc = "write", LandLine, stamps' = stamps + 1, refused' = refused,
         pc' \in {"idle", "ckpt", "down"}
  PROVE  RefusedInv'
  <1>. DEFINE n == Len(lines)
  <1>1. /\ Len(lines') = n + 1 /\ \A i \in 1..n : lines'[i] = lines[i]
        /\ lines'[n + 1] = Stamped /\ n \in Nat
    BY Zenon, LandRecord, FileTypes DEF CInv, IInv
  <1>2. Stamped.record_hash = stamps + 1
    BY Zenon DEF Stamped
  <1>3. /\ stamps \in Nat /\ refused \subseteq Nat /\ MaxStamps \in Nat
        /\ \A h \in refused : h <= stamps
        /\ \A i \in 1..n : lines[i].record_hash \notin refused
        /\ stamps < MaxStamps
    BY Zenon, ConfigAssumption DEF CInv, IInv, TypeInv, TypeOK, RefusedInv
  <1>4. \A i \in 1..(n + 1) : lines'[i].record_hash \notin refused
    <2>. SUFFICES ASSUME NEW i \in 1..(n + 1) PROVE lines'[i].record_hash \notin refused
      BY Zenon
    <2>1. CASE i = n + 1
      BY <1>1, <1>2, <1>3, <2>1
    <2>2. CASE i \in 1..n
      BY Zenon, <1>1, <1>3, <2>2
    <2>. QED  BY <1>1, <2>1, <2>2
  <1>. QED  BY <1>1, <1>3, <1>4 DEF RefusedInv

\* Every action keeps refused records out of the chain.
LEMMA CleanStep == CleanErrors /\ CInv /\ [Next]_vars => CInv'
  <1>. SUFFICES ASSUME CleanErrors, CInv, [Next]_vars PROVE CInv'
    BY Zenon
  <1>0. IInv'
    BY Zenon, InvStep, CleanIsBenign DEF CInv
  <1>a. UNCHANGED <<lines, stamps, refused>> /\ pc' \in {"idle", "ckpt", "down"} => RefusedInv'
    BY Zenon DEF CInv, RefusedInv
  <1>1. CASE Open
    BY Zenon, <1>0, <1>a, <1>1 DEF CInv, Open
  <1>2. CASE OpenFails
    BY Zenon, <1>0, <1>a, <1>2 DEF CInv, OpenFails
  <1>3. ASSUME NEW o \in AllOps, Call(o) PROVE CInv'
    <2>1. /\ pc' \in {"seal", "write"} /\ op' = "append" => stamps < MaxStamps
          /\ pc' = "write" => op' = "append"
          /\ pc' \in {"seal", "write", "ckpt"}
      BY Zenon, <1>3 DEF Call, AllOps
    <2>2. UNCHANGED <<lines, stamps, refused>>
      BY Zenon, <1>3 DEF Call, disk, hist
    <2>. QED  BY Zenon, <1>0, <2>1, <2>2 DEF CInv, RefusedInv
  <1>4. CASE seal_locked
    BY Zenon, <1>0, <1>4 DEF CInv, RefusedInv, seal_locked, hist
  <1>5. CASE roll_locked
    BY Zenon, <1>0, <1>5 DEF CInv, RefusedInv, roll_locked, hist
  <1>6. CASE RollFails
    BY Zenon, <1>0, <1>a, <1>6 DEF CInv, RollFails, disk, hist
  <1>7. CASE write_line
    BY Zenon, <1>0, <1>7, LandRefused DEF CInv, write_line
  <1>8. CASE WriteFails
    <2>1. /\ lines' = lines /\ stamps' = stamps + 1 /\ pc' = "idle" /\ pc = "write"
          /\ refused' = refused \cup {stamps + 1}
      BY Zenon, <1>8 DEF WriteFails, CleanErrors, Stamped
    <2>2. /\ stamps \in Nat /\ refused \subseteq Nat /\ MaxStamps \in Nat /\ stamps < MaxStamps
          /\ \A i \in 1..Len(lines) : lines[i].record_hash \in Nat /\ lines[i].record_hash <= stamps
      BY Zenon, <2>1, ConfigAssumption
         DEF CInv, IInv, TypeInv, TypeOK, ChainInv, Record, RefusedInv
    <2>3. RefusedInv'
      BY <2>1, <2>2 DEF CInv, RefusedInv
    <2>. QED  BY Zenon, <1>0, <2>3 DEF CInv
  <1>9. CASE write_checkpoint
    BY Zenon, <1>0, <1>a, <1>9 DEF CInv, write_checkpoint
  <1>10. CASE CheckpointFails
    BY Zenon, <1>10 DEF CheckpointFails, CleanErrors
  <1>11. CASE Crash
    <2>1. pc' = "down" /\ refused' = refused
      BY Zenon, <1>11 DEF Crash, hist
    <2>2. CASE UNCHANGED <<lines, stamps>>
      BY Zenon, <1>0, <1>a, <2>1, <2>2 DEF CInv
    <2>3. CASE pc = "write" /\ LandLine /\ stamps' = stamps + 1
      BY Zenon, <1>0, <2>1, <2>3, LandRefused DEF CInv
    <2>. QED  BY Zenon, <1>11, <2>2, <2>3 DEF Crash
  <1>12. CASE UNCHANGED vars
    BY Zenon, <1>0, <1>12 DEF CInv, RefusedInv, vars
  <1>13. ASSUME NEW o \in AllOps, CallReturns(o) PROVE CInv'
    BY Zenon, <1>12, <1>13 DEF CallReturns
  <1>. QED
    BY Zenon, <1>1, <1>2, <1>3, <1>4, <1>5, <1>6, <1>7, <1>8, <1>9, <1>10, <1>11, <1>12, <1>13 DEF Next

\* The invariant holds in every reachable state.
LEMMA CleanHolds == CleanErrors => (Spec => []CInv)
  <1>1. Init => CInv
    <2>1. Init => IInv
      BY DEF Init, IInv, TypeInv, TypeOK, ChainInv, FilesInv, WriterInv, CkptInv, AckInv,
             AllOps, Fresh, InnerAt, Receipt, ZERO
    <2>. QED  BY <2>1, ConfigAssumption DEF Init, CInv, RefusedInv
  <1>2. ASSUME CleanErrors PROVE CInv /\ [Next]_vars => CInv'
    BY Zenon, <1>2, CleanStep
  <1>3. ASSUME CleanErrors PROVE Spec => []CInv
    BY <1>1, <1>2, <1>3, PTL DEF Spec
  <1>. QED  BY Zenon, <1>3

\* When errors are clean, append is fail-closed: a record whose append returned
\* an error is not in the chain, then or later.
THEOREM AppendFailsClosed == CleanErrors => (Spec => []FailClosed)
  <1>1. CInv => FailClosed
    BY Zenon DEF CInv, RefusedInv, FailClosed, Parsed
  <1>. QED  BY <1>1, CleanHolds, PTL
-----------------------------------------------------------------------------
\* The log the ledger shows its callers.
Shown == [i \in 1..Len(lines) |-> lines[i].record_hash]

\* Two sequences of the same length with the same elements are equal.
LEMMA AppendedSeq ==
  ASSUME NEW S, NEW s \in Seq(S), NEW t \in Seq(S), NEW e \in S,
         Len(t) = Len(s) + 1, \A i \in 1..Len(s) : t[i] = s[i], t[Len(s) + 1] = e
  PROVE  t = Append(s, e)
  <1>1. /\ Append(s, e) \in Seq(S) /\ Len(Append(s, e)) = Len(s) + 1
        /\ \A i \in 1..Len(s) : Append(s, e)[i] = s[i]
        /\ Append(s, e)[Len(s) + 1] = e
    BY AppendFacts
  <1>2. \A i \in 1..Len(t) : t[i] = Append(s, e)[i]
    BY <1>1
  <1>. QED  BY <1>1, <1>2

\* The log shown is a sequence of the hashes drawn so far.
LEMMA ShownSeq ==
  ASSUME CInv
  PROVE  /\ Len(lines) \in Nat /\ Shown \in Seq(Nat) /\ Len(Shown) = Len(lines)
         /\ \A i \in 1..Len(lines) : Shown[i] \in Nat /\ Shown[i] <= stamps
  <1>1. Len(lines) \in Nat
    BY Zenon, FileTypes DEF CInv, IInv
  <1>2. \A i \in 1..Len(lines) : lines[i].record_hash \in Nat /\ lines[i].record_hash <= stamps
    BY Zenon DEF CInv, IInv, ChainInv, Record
  <1>. QED  BY <1>1, <1>2 DEF Shown

\* A line that lands is an entry recorded in the log shown.
LEMMA LandShown ==
  ASSUME CInv, CInv', pc = "write", LandLine, stamps' = stamps + 1
  PROVE  /\ Shown' = Append(Shown, stamps + 1)
         /\ stamps + 1 \in 1..MaxStamps
         /\ stamps + 1 \notin { Shown[i] : i \in 1..Len(Shown) } \cup refused
         /\ inner.next_seq = Len(Shown) + 1
  <1>. DEFINE n == Len(lines)
  <1>1. /\ Len(lines') = n + 1 /\ \A i \in 1..n : lines'[i] = lines[i]
        /\ lines'[n + 1] = Stamped
    BY Zenon, LandRecord DEF CInv, IInv
  <1>2. /\ n \in Nat /\ Shown \in Seq(Nat) /\ Len(Shown) = n
        /\ \A i \in 1..n : Shown[i] \in Nat /\ Shown[i] <= stamps
    BY Zenon, ShownSeq
  <1>3. stamps \in Nat /\ stamps < MaxStamps /\ MaxStamps \in Nat /\ inner.next_seq = n + 1
    BY Zenon, ConfigAssumption DEF CInv, IInv, TypeInv, TypeOK, WriterInv, RefusedInv
  <1>4. Shown' = Append(Shown, stamps + 1)
    <2>1. Shown' = [i \in 1..(n + 1) |-> lines'[i].record_hash]
      BY Zenon, <1>1 DEF Shown
    <2>2. \A i \in 1..n : Shown'[i] = Shown[i]
      BY <1>1, <1>2, <2>1 DEF Shown
    <2>3. Shown'[n + 1] = stamps + 1
      BY <1>1, <1>2, <2>1 DEF Stamped
    <2>4. Shown' \in Seq(Nat) /\ Len(Shown') = n + 1
      <3>1. \A i \in 1..(n + 1) : Shown'[i] \in Nat
        BY <1>2, <1>3, <2>2, <2>3
      <3>. QED  BY <1>2, <2>1, <3>1
    <2>. QED  BY <1>2, <1>3, <2>2, <2>3, <2>4, AppendedSeq
  <1>5. stamps + 1 \notin refused
    BY <1>3 DEF CInv, IInv, TypeInv, TypeOK, RefusedInv
  <1>6. stamps + 1 \notin { Shown[i] : i \in 1..Len(Shown) }
    BY <1>2, <1>3
  <1>. QED  BY <1>2, <1>3, <1>4, <1>5, <1>6

\* When errors are clean, the ledger implements the abstract append-only log:
\* every call, roll, checkpoint, stop and recovery is one step of AuditLog or
\* leaves what callers see as it was.
THEOREM LedgerImplementsLog == CleanErrors => (Spec => RefinesAuditLog)
  <1>1. Init => Log!LogInit
    BY DEF Init, Log!LogInit
  <1>2. ASSUME CleanErrors, CInv, CInv', [Next]_vars
        PROVE  [Log!LogNext]_(Log!logvars)
    <2>a. lines' = lines /\ acked' = acked /\ refused' = refused => UNCHANGED Log!logvars
      BY Zenon DEF Log!logvars
    <2>b. ASSUME pc = "write", LandLine, stamps' = stamps + 1, refused' = refused,
                 \/ acked' = acked
                 \/ acked' = acked \cup {Receipt(inner.next_seq, stamps + 1)}
          PROVE  Log!LogNext
      <3>1. PICK h \in 1..MaxStamps : h = stamps + 1
        BY Zenon, <1>2, <2>b, LandShown
      <3>2. Log!RecordEntry(h)
        BY Zenon, <1>2, <2>b, <3>1, LandShown DEF Log!RecordEntry, Log!Recorded, Shown, Receipt
      <3>. QED  BY Zenon, <3>2 DEF Log!LogNext
    <2>1. CASE Open
      BY Zenon, <2>a, <2>1 DEF Open
    <2>2. CASE OpenFails
      BY Zenon, <2>a, <2>2 DEF OpenFails
    <2>3. ASSUME NEW o \in AllOps, Call(o) \/ CallReturns(o) PROVE UNCHANGED Log!logvars
      BY Zenon, <2>a, <2>3 DEF Call, CallReturns, disk, hist, vars
    <2>4. CASE seal_locked
      BY Zenon, <2>a, <2>4 DEF seal_locked, hist
    <2>5. CASE roll_locked
      BY Zenon, <2>a, <2>5 DEF roll_locked, hist
    <2>6. CASE RollFails
      BY Zenon, <2>a, <2>6 DEF RollFails, disk, hist
    <2>7. CASE write_line
      BY Zenon, <2>b, <2>7 DEF write_line, Stamped
    <2>8. CASE WriteFails
      <3>1. /\ lines' = lines /\ acked' = acked /\ pc = "write"
            /\ refused' = refused \cup {stamps + 1}
        BY Zenon, <1>2, <2>8 DEF WriteFails, CleanErrors, Stamped
      <3>2. stamps + 1 \in 1..MaxStamps
        BY <1>2, <3>1, ConfigAssumption DEF CInv, IInv, TypeInv, TypeOK, RefusedInv
      <3>3. stamps + 1 \notin { Shown[i] : i \in 1..Len(Shown) }
        <4>1. stamps \in Nat
          BY Zenon, <1>2 DEF CInv, IInv, TypeInv, TypeOK
        <4>. QED  BY <1>2, <4>1, ShownSeq
      <3>4. Log!RefuseEntry(stamps + 1)
        BY Zenon, <3>1, <3>3 DEF Log!RefuseEntry, Log!Recorded, Shown
      <3>. QED  BY Zenon, <3>2, <3>4 DEF Log!LogNext
    <2>9. CASE write_checkpoint
      <3>1. CASE op = "append"
        <4>. DEFINE n == Len(lines)
        <4>1. /\ n \in Nat /\ n # 0 /\ inner.next_seq - 1 = n
              /\ inner.prev_hash = lines[n].record_hash
          <5>1. pc = "ckpt"
            BY Zenon, <2>9 DEF write_checkpoint
          <5>2. n \in Nat
            BY Zenon, <1>2, FileTypes DEF CInv, IInv
          <5>3. inner.next_seq = n + 1 /\ inner.next_seq # 1 /\ inner.prev_hash = HashAt(lines, n)
            BY Zenon, <1>2, <5>1 DEF CInv, IInv, WriterInv
          <5>. QED  BY <5>2, <5>3 DEF HashAt
        <4>2. lines' = lines /\ refused' = refused /\ acked' = acked \cup {Receipt(n, Shown[n])}
          BY <2>9, <3>1, <4>1 DEF write_checkpoint, Shown
        <4>3. n \in 1..Len(Shown)
          BY <1>2, <4>1, ShownSeq
        <4>4. Log!AcknowledgeEntry(n)
          BY Zenon, <4>2 DEF Log!AcknowledgeEntry, Shown, Receipt
        <4>. QED  BY Zenon, <4>3, <4>4 DEF Log!LogNext, Shown
      <3>2. CASE op # "append"
        BY Zenon, <2>a, <2>9, <3>2 DEF write_checkpoint
      <3>. QED  BY Zenon, <3>1, <3>2
    <2>10. CASE CheckpointFails
      BY Zenon, <1>2, <2>10 DEF CheckpointFails, CleanErrors
    <2>11. CASE Crash
      <3>1. CASE lines' = lines
        BY Zenon, <2>a, <2>11, <3>1 DEF Crash, hist
      <3>2. CASE pc = "write" /\ LandLine /\ stamps' = stamps + 1
        BY Zenon, <2>b, <2>11, <3>2 DEF Crash, hist
      <3>. QED  BY Zenon, <2>11, <3>1, <3>2 DEF Crash
    <2>12. CASE UNCHANGED vars
      BY Zenon, <2>a, <2>12 DEF vars
    <2>. QED
      BY Zenon, <1>2, <2>1, <2>2, <2>3, <2>4, <2>5, <2>6, <2>7, <2>8, <2>9, <2>10, <2>11, <2>12
         DEF Next
  <1>3. ASSUME CleanErrors PROVE Spec => RefinesAuditLog
    <2>1. CInv /\ CInv' /\ [Next]_vars => [Log!LogNext]_(Log!logvars)
      BY Zenon, <1>2, <1>3
    <2>2. Spec => []CInv
      BY Zenon, <1>3, CleanHolds
    <2>. QED  BY <1>1, <2>1, <2>2, PTL DEF Spec, RefinesAuditLog, Log!LogSpec
  <1>. QED  BY Zenon, <1>3

-----------------------------------------------------------------------------
\* A set of numbers that is not empty has a least element.
LEMMA NatMin ==
    ASSUME NEW T, T \subseteq Nat, T # {}
    PROVE  \E x \in T : \A y \in T : x <= y
<1> DEFINE R == OpToRel(<, Nat)
<1>1. IsWellFoundedOn(R, Nat)
  BY Zenon, NatLessThanWellFounded
<1>2. PICK x \in T : \A y \in T : ~ (<<y, x>> \in R)
  BY Zenon, <1>1, WFMin
<1>3. R = {ss \in Nat \X Nat : ss[1] < ss[2]}
  BY Zenon DEF OpToRel
<1> HIDE DEF R
<1>4. \A y \in T : x <= y
  <2> TAKE y \in T
  <2>1. ~ (<<y, x>> \in {ss \in Nat \X Nat : ss[1] < ss[2]})
    BY Zenon, <1>2, <1>3
  <2> QED BY <2>1
<1> QED BY Zenon, <1>4

-----------------------------------------------------------------------------
(* What the verifier sees, whatever fails. *)

\* A receipt's record is in the segments, or a line that does not parse is.
Held(r) ==
    \/ \E i \in Parsed(lines) : Receipt(lines[i].global_sequence, lines[i].record_hash) = r
    \/ Parsed(lines) # 1..Len(lines)

\* So is every receipt given, and the one a checkpoint at the end of an append
\* still delays.
HeldInv ==
    /\ \A r \in acked : Held(r)
    /\ pc = "ckpt" /\ op = "append" => Held(Receipt(inner.next_seq - 1, inner.prev_hash))

\* Segments are only appended to.
LEMMA HeldLands ==
  ASSUME TypeInv, LandLine
  PROVE  /\ \A r : Held(r) => Held(r)'
         /\ \A r : r = Receipt(inner.next_seq, stamps + 1) => Held(r)'
  <1>. DEFINE e == IF inner.segment_id \in torn THEN Garbage ELSE Stamped
  <1>1. /\ lines \in Seq(Record \cup {Garbage}) /\ Len(lines) \in Nat
    BY Zenon, FileTypes
  <1>2. lines' = Append(lines, e) /\ e \in Record \cup {Garbage}
    BY Zenon, StampedIsRecord DEF LandLine, TypeInv
  <1>3. /\ Len(lines') = Len(lines) + 1 /\ lines'[Len(lines) + 1] = e
        /\ \A i \in 1..Len(lines) : lines'[i] = lines[i]
    BY <1>1, <1>2, AppendFacts
  <1>4. 1..Len(lines') = 1..Len(lines) \cup {Len(lines) + 1} /\ Len(lines) + 1 \notin 1..Len(lines)
    BY <1>1, <1>3
  <1>5. \A i \in 1..Len(lines) : i \in Parsed(lines') <=> i \in Parsed(lines)
    BY Zenon, <1>3, <1>4 DEF Parsed
  <1>6. ASSUME NEW r, Held(r) PROVE Held(r)'
    <2>1. CASE \E i \in Parsed(lines) : Receipt(lines[i].global_sequence, lines[i].record_hash) = r
      <3>1. PICK i \in Parsed(lines) : Receipt(lines[i].global_sequence, lines[i].record_hash) = r
        BY Zenon, <2>1
      <3>2. i \in Parsed(lines') /\ lines'[i] = lines[i]
        BY Zenon, <1>3, <1>5 DEF Parsed
      <3>. QED  BY Zenon, <3>1, <3>2 DEF Held
    <2>2. CASE Parsed(lines) # 1..Len(lines)
      <3>1. PICK i \in 1..Len(lines) : i \notin Parsed(lines)
        BY Zenon, <2>2 DEF Parsed
      <3>. QED  BY Zenon, <3>1, <1>4, <1>5 DEF Held
    <2>. QED  BY Zenon, <1>6, <2>1, <2>2 DEF Held
  <1>7. ASSUME NEW r, r = Receipt(inner.next_seq, stamps + 1) PROVE Held(r)'
    <2>. DEFINE k == Len(lines) + 1
    <2>1. k \in 1..Len(lines') /\ lines'[k] = e
      BY Zenon, <1>3, <1>4
    <2>2. CASE e = Garbage
      BY Zenon, <2>1, <2>2 DEF Held, Parsed
    <2>3. CASE e # Garbage
      <3>1. e = Stamped /\ k \in Parsed(lines')
        BY Zenon, <2>1, <2>3 DEF Parsed
      <3>2. Stamped.global_sequence = inner.next_seq /\ Stamped.record_hash = stamps + 1
        BY DEF Stamped
      <3>. QED  BY Zenon, <1>7, <2>1, <3>1, <3>2 DEF Held
    <2>. QED  BY Zenon, <2>2, <2>3
  <1>. QED  BY Zenon, <1>6, <1>7

\* Every step keeps what is held.
LEMMA HeldStep == TypeInv /\ HeldInv /\ [Next]_vars => HeldInv'
  <1>. SUFFICES ASSUME TypeInv, HeldInv, [Next]_vars PROVE HeldInv'
    BY Zenon
  <1>a. ASSUME lines' = lines, acked' = acked, pc' # "ckpt" \/ op' # "append" PROVE HeldInv'
    BY Zenon, <1>a DEF HeldInv, Held
  <1>b. ASSUME LandLine, acked' = acked, pc' # "ckpt" PROVE HeldInv'
    BY Zenon, <1>b, HeldLands DEF HeldInv
  <1>1. CASE Open
    BY Zenon, <1>1, <1>a DEF Open
  <1>2. CASE OpenFails
    BY Zenon, <1>2, <1>a DEF OpenFails
  <1>3. ASSUME NEW o \in AllOps, Call(o) PROVE HeldInv'
    <2>1. lines' = lines /\ acked' = acked /\ op' = o
      BY Zenon, <1>3 DEF Call, disk, hist
    <2>2. o = "append" => pc' # "ckpt"
      BY <1>3 DEF Call
    <2>. QED  BY Zenon, <2>1, <2>2, <1>a
  <1>4. CASE seal_locked
    BY Zenon, <1>4, <1>a DEF seal_locked, hist
  <1>5. CASE roll_locked
    <2>1. pc' # "ckpt"
      BY <1>5 DEF roll_locked
    <2>. QED  BY Zenon, <1>5, <1>a, <2>1 DEF roll_locked, hist
  <1>6. CASE RollFails
    BY Zenon, <1>6, <1>a DEF RollFails, disk, hist
  <1>7. CASE write_line
    <2>1. PICK r : r = Receipt(inner.next_seq, stamps + 1)
      BY Zenon
    <2>2. /\ Held(r)' /\ \A q : Held(q) => Held(q)'
      BY Zenon, <1>7, <2>1, HeldLands DEF write_line
    <2>3. /\ acked' \in {acked, acked \cup {r}}
          /\ inner' = Advanced
      BY <1>7, <2>1 DEF write_line, Stamped
    <2>4. r = Receipt(inner.next_seq - 1, inner.prev_hash)'
      <3>1. inner.next_seq \in Nat
        BY Zenon DEF TypeInv, TypeOK
      <3>. QED  BY <2>1, <2>3, <3>1 DEF Advanced, Stamped, Receipt
    <2>5. \A q \in acked' : Held(q)'
      BY Zenon, <2>2, <2>3 DEF HeldInv
    <2>. QED  BY Zenon, <2>2, <2>4, <2>5 DEF HeldInv
  <1>8. CASE WriteFails
    BY Zenon, <1>8, <1>a, <1>b DEF WriteFails
  <1>9. CASE write_checkpoint
    <2>1. lines' = lines /\ pc' = "idle"
      BY Zenon, <1>9 DEF write_checkpoint
    <2>2. \A q \in acked' : Held(q)
      BY Zenon, <1>9 DEF write_checkpoint, HeldInv
    <2>. QED  BY Zenon, <2>1, <2>2 DEF HeldInv, Held
  <1>10. CASE CheckpointFails
    BY Zenon, <1>10, <1>a DEF CheckpointFails
  <1>11. CASE Crash
    BY Zenon, <1>11, <1>a, <1>b DEF Crash, hist
  <1>12. CASE UNCHANGED vars
    BY Zenon, <1>12 DEF vars, HeldInv, Held
  <1>13. ASSUME NEW o \in AllOps, CallReturns(o) PROVE HeldInv'
    BY Zenon, <1>12, <1>13 DEF CallReturns
  <1>. QED  BY Zenon, <1>1, <1>2, <1>3, <1>4, <1>5, <1>6, <1>7, <1>8, <1>9, <1>10, <1>11, <1>12, <1>13 DEF Next

\* Among the lines of a chain without a gap the later one has the higher number.
LEMMA NumbersRise ==
  ASSUME NEW ls, NEW N \in Nat, Parsed(ls) \subseteq 1..N,
         \A i \in Parsed(ls) : ls[i].global_sequence \in Nat,
         \A i \in Parsed(ls) : ls[i].global_sequence = HeadBefore(ls, i).global_sequence + 1
  PROVE  \A i, j \in Parsed(ls) : i < j => ls[i].global_sequence < ls[j].global_sequence
  <1>. DEFINE P == Parsed(ls)
              Bad == {j \in P : \E i \in P : i < j /\ ~ (ls[i].global_sequence < ls[j].global_sequence)}
  <1>1. CASE Bad = {}
    BY Zenon, <1>1
  <1>2. CASE Bad # {}
    <2>1. Bad \subseteq Nat
      OBVIOUS
    <2>2. PICK j \in Bad : \A x \in Bad : j <= x
      BY Zenon, <1>2, <2>1, NatMin
    <2>3. PICK i \in P : i < j /\ ~ (ls[i].global_sequence < ls[j].global_sequence)
      BY Zenon, <2>2
    <2>. DEFINE prior == {k \in P : k < j}
                m == Max(prior)
    <2>4. \E k \in prior : \A x \in prior : x <= k
      <3>. DEFINE T == {N - k : k \in prior}
      <3>1. T \subseteq Nat /\ T # {}
        BY <2>3
      <3>. HIDE DEF T
      <3>2. PICK t \in T : \A y \in T : t <= y
        BY Zenon, <3>1, NatMin
      <3>. USE DEF T
      <3>3. PICK k \in prior : t = N - k
        OBVIOUS
      <3>4. \A x \in prior : t <= N - x
        BY Zenon, <3>2
      <3>. QED  BY <3>3, <3>4
    <2>5. m \in prior /\ \A x \in prior : x <= m
      BY Zenon, <2>4 DEF Max
    <2>. HIDE DEF m
    <2>6. ls[j].global_sequence = ls[m].global_sequence + 1
      <3>1. HeadBefore(ls, j) = Receipt(ls[m].global_sequence, ls[m].record_hash)
        BY Zenon, <2>5 DEF HeadBefore, m
      <3>. QED  BY <3>1, <2>2 DEF Receipt
    <2>7. i = m \/ ls[i].global_sequence < ls[m].global_sequence
      <3>1. i <= m /\ i \in Nat /\ m \in Nat /\ m \in P /\ m < j /\ j \in Nat
        BY <2>2, <2>3, <2>5
      <3>2. m \notin Bad
        BY <2>2, <3>1
      <3>. QED  BY <2>3, <3>1, <3>2
    <2>8. ls[i].global_sequence \in Nat /\ ls[m].global_sequence \in Nat
      BY Zenon, <2>3, <2>5
    <2>. QED  BY <2>3, <2>6, <2>7, <2>8
  <1>. QED  BY Zenon, <1>1, <1>2

\* Nothing goes wrong in silence (verify_dir), whatever fails: a line that was
\* acknowledged and is not there was merged with a fragment and does not parse,
\* and two records with one number leave a gap in the numbers before the later.
THEOREM DamageIsReported == Spec => []DamageIsVisible
  <1>1. Init => HeldInv /\ TypeInv
    <2>1. Init => HeldInv
      BY Zenon DEF Init, HeldInv
    <2>2. Init => TypeInv
      BY DEF Init, TypeInv, TypeOK, AllOps, Fresh, InnerAt, Receipt, ZERO
    <2>. QED  BY Zenon, <2>1, <2>2
  <1>2. TypeInv /\ HeldInv => DamageIsVisible
    <2>. SUFFICES ASSUME TypeInv, HeldInv PROVE DamageIsVisible
      BY Zenon
    <2>1. ASSUME ~ AckedDurable PROVE Findings # {}
      <3>1. Parsed(lines) # 1..Len(lines)
        BY Zenon, <2>1 DEF HeldInv, Held, AckedDurable
      <3>2. "ParseError" \in Findings
        BY Zenon, <3>1 DEF Findings, verify_dir, FindingKind
      <3>. QED  BY Zenon, <3>2
    <2>2. ASSUME NEW i \in Parsed(lines), NEW j \in Parsed(lines),
                 i # j, lines[i].global_sequence = lines[j].global_sequence
          PROVE  Findings \cap {"ChainBreak", "SequenceGap"} # {}
      <3>1. lines \in Seq(Record \cup {Garbage}) /\ Len(lines) \in Nat
        BY Zenon, FileTypes
      <3>2. Parsed(lines) \subseteq 1..Len(lines)
        BY Zenon DEF Parsed
      <3>3. \A k \in Parsed(lines) : lines[k].global_sequence \in Nat
        <4>. SUFFICES ASSUME NEW k \in 1..Len(lines), lines[k] # Garbage PROVE lines[k].global_sequence \in Nat
          BY Zenon DEF Parsed
        <4>1. lines[k] \in Record
          BY <3>1
        <4>. QED  BY <4>1 DEF Record
      <3>4. CASE \A k \in Parsed(lines) : lines[k].global_sequence = HeadBefore(lines, k).global_sequence + 1
        <4>1. \A x, y \in Parsed(lines) : x < y => lines[x].global_sequence < lines[y].global_sequence
          BY Zenon, <3>1, <3>2, <3>3, <3>4, NumbersRise
        <4>2. i < j \/ j < i
          BY <2>2, <3>1, <3>2
        <4>3. lines[i].global_sequence < lines[j].global_sequence \/ lines[j].global_sequence < lines[i].global_sequence
          BY Zenon, <4>1, <4>2
        <4>4. lines[i].global_sequence \in Nat /\ lines[j].global_sequence \in Nat
          BY Zenon, <3>3
        <4>. QED  BY <2>2, <4>3, <4>4
      <3>5. CASE \E k \in Parsed(lines) : lines[k].global_sequence # HeadBefore(lines, k).global_sequence + 1
        <4>1. "SequenceGap" \in Findings
          BY Zenon, <3>5 DEF Findings, verify_dir, FindingKind
        <4>. QED  BY Zenon, <4>1
      <3>. QED  BY Zenon, <3>4, <3>5
    <2>. QED  BY Zenon, <2>1, <2>2 DEF DamageIsVisible
  <1>3. TypeInv /\ HeldInv /\ [Next]_vars => (TypeInv /\ HeldInv)'
    BY Zenon, TypeStep, HeldStep
  <1>. QED  BY <1>1, <1>2, <1>3, PTL DEF Spec

-----------------------------------------------------------------------------
(* The collector *)

Frame == AuditRecords \cup {TornFrame}

LEMMA NoTornRecord == TornFrame \notin AuditRecords
BY PgAssumption DEF TornFrame

\* The frames a restart reads back: those before the first torn one.
Whole(s) == {i \in 1 .. Len(s) : \A j \in 1 .. i : s[j] # TornFrame}

LEMMA DecodeReadsWhole ==
    ASSUME NEW s \in Seq(Frame)
    PROVE  /\ decode_frames(s) \in Seq(AuditRecords)
           /\ Range(decode_frames(s)) = {s[i] : i \in Whole(s)}
<1> DEFINE broken == {i \in DOMAIN s : s[i] = TornFrame}
<1>1. /\ DOMAIN s = 1 .. Len(s) /\ Len(s) \in Nat /\ broken \subseteq Nat
      /\ \A i \in 1 .. Len(s) : s[i] = TornFrame \/ s[i] \in AuditRecords
  BY DEF Frame
<1>2. CASE broken = {}
  <2>1. decode_frames(s) = s
    BY Zenon, <1>2 DEF decode_frames
  <2>2. \A i \in 1 .. Len(s) : s[i] \in AuditRecords
    BY Zenon, <1>1, <1>2
  <2>3. s \in Seq(AuditRecords)
    BY <2>2
  <2>4. Whole(s) = 1 .. Len(s)
    BY <1>1, <1>2 DEF Whole
  <2> QED BY Zenon, <2>1, <2>3, <2>4, <1>1 DEF Range
<1>3. CASE broken # {}
  <2> DEFINE k == CHOOSE i \in broken : \A j \in broken : i <= j
  <2>1. \E i \in broken : \A j \in broken : i <= j
    BY Zenon, <1>1, <1>3, NatMin
  <2>2. k \in broken /\ \A j \in broken : k <= j
    BY Zenon, <2>1
  <2>3. decode_frames(s) = SubSeq(s, 1, k - 1)
    BY Zenon, <1>3 DEF decode_frames
  <2> HIDE DEF k
  <2>4. k \in 1 .. Len(s) /\ s[k] = TornFrame /\ \A j \in 1 .. Len(s) : s[j] = TornFrame => k <= j
    BY Zenon, <1>1, <2>2
  <2> HIDE DEF broken
  <2>5. Whole(s) = 1 .. (k - 1)
    BY <1>1, <2>4 DEF Whole
  <2> DEFINE d == SubSeq(s, 1, k - 1)
  <2>6. Len(d) = k - 1 /\ DOMAIN d = 1 .. (k - 1) /\ \A i \in 1 .. (k - 1) : d[i] = s[i]
    BY <1>1, <2>4
  <2>7. \A i \in 1 .. (k - 1) : s[i] \in AuditRecords
    BY <1>1, <2>4
  <2>8. d \in Seq(AuditRecords)
    BY <2>4, <2>6, <2>7, <1>1
  <2>9. Range(d) = {s[i] : i \in 1 .. (k - 1)}
    BY Zenon, <2>6 DEF Range
  <2> QED BY Zenon, <2>3, <2>5, <2>8, <2>9
<1> QED BY Zenon, <1>2, <1>3

LEMMA DecodeAfterAppend ==
    ASSUME NEW s \in Seq(Frame), NEW x \in Frame
    PROVE  /\ Append(s, x) \in Seq(Frame)
           /\ x = TornFrame \/ TornFrame \in Range(s)
                => Range(decode_frames(Append(s, x))) = Range(decode_frames(s))
           /\ x # TornFrame /\ TornFrame \notin Range(s)
                => Range(decode_frames(Append(s, x))) = Range(decode_frames(s)) \cup {x}
<1> DEFINE t == Append(s, x)
           n == Len(s)
<1>1. /\ n \in Nat /\ DOMAIN s = 1 .. n
      /\ t \in Seq(Frame) /\ Len(t) = n + 1
      /\ \A i \in 1 .. n : t[i] = s[i]
      /\ t[n + 1] = x
  OBVIOUS
<1>2. Range(s) = {s[i] : i \in 1 .. n}
  BY Zenon, <1>1 DEF Range
<1>3. /\ Range(decode_frames(s)) = {s[i] : i \in Whole(s)}
      /\ Range(decode_frames(t)) = {t[i] : i \in Whole(t)}
  BY Zenon, <1>1, DecodeReadsWhole
<1> HIDE DEF t, n
<1>4. Whole(s) = {i \in 1 .. n : \A j \in 1 .. i : s[j] # TornFrame}
  BY Zenon DEF Whole, n
<1>5. Whole(t) = {i \in 1 .. n + 1 : \A j \in 1 .. i : t[j] # TornFrame}
  BY Zenon, <1>1 DEF Whole
<1>6. CASE x = TornFrame \/ TornFrame \in Range(s)
  <2>1. n + 1 \notin Whole(t)
    <3>1. CASE x = TornFrame
      BY Zenon, <1>1, <1>5, <3>1
    <3>2. CASE TornFrame \in Range(s)
      <4>1. PICK i \in 1 .. n : s[i] = TornFrame
        BY Zenon, <1>2, <3>2
      <4>2. t[i] = TornFrame /\ i \in 1 .. n + 1
        BY <1>1, <4>1
      <4> QED BY Zenon, <1>5, <4>2
    <3> QED BY Zenon, <1>6, <3>1, <3>2
  <2>2. Whole(t) = Whole(s) /\ \A i \in Whole(s) : t[i] = s[i]
    BY <1>1, <1>4, <1>5, <2>1
  <2>3. {t[i] : i \in Whole(t)} = {s[i] : i \in Whole(s)}
    BY Zenon, <2>2
  <2> QED BY Zenon, <1>1, <1>3, <1>6, <2>3 DEF t
<1>7. CASE x # TornFrame /\ TornFrame \notin Range(s)
  <2>1. Whole(s) = 1 .. n
    BY <1>1, <1>2, <1>4, <1>7
  <2>2. Whole(t) = 1 .. n + 1
    <3>1. \A j \in 1 .. n : t[j] # TornFrame
      BY Zenon, <1>1, <1>2, <1>7
    <3>2. \A j \in 1 .. n + 1 : t[j] # TornFrame
      BY <1>1, <1>7, <3>1
    <3>3. \A i \in 1 .. n + 1 : \A j \in 1 .. i : j \in 1 .. n + 1
      BY <1>1
    <3> QED BY Zenon, <1>5, <3>2, <3>3
  <2>3. Whole(t) = Whole(s) \cup {n + 1} /\ \A i \in Whole(s) : t[i] = s[i]
    BY <1>1, <2>1, <2>2
  <2>4. {t[i] : i \in Whole(t)} = {s[i] : i \in Whole(s)} \cup {x}
    BY <1>1, <2>3
  <2> QED BY Zenon, <1>1, <1>3, <1>7, <2>4 DEF t
<1> QED BY Zenon, <1>6, <1>7

LEMMA BatchAndRest ==
    ASSUME NEW A, NEW u \in Seq(A), NEW b \in Nat \ {0}
    PROVE  /\ SubSeq(u, b + 1, Len(u)) \in Seq(A)
           /\ Range(u) \subseteq Range(SubSeq(u, 1, IF Len(u) < b THEN Len(u) ELSE b))
                               \cup Range(SubSeq(u, b + 1, Len(u)))
<1> DEFINE n == Len(u)
           k == IF n < b THEN n ELSE b
           first == SubSeq(u, 1, k)
           rest == SubSeq(u, b + 1, n)
<1>1. n \in Nat /\ k \in Nat /\ k <= n /\ DOMAIN u = 1 .. n
  OBVIOUS
<1>2. DOMAIN first = 1 .. k /\ \A i \in 1 .. k : first[i] = u[i]
  BY <1>1
<1>3. rest \in Seq(A)
  BY <1>1
<1>4. CASE n < b
  BY Zenon, <1>2, <1>3, <1>4, <1>1 DEF Range
<1>5. CASE b <= n
  <2>1. /\ DOMAIN rest = 1 .. (n - b)
        /\ \A i \in 1 .. (n - b) : rest[i] = u[b + i]
    BY <1>1, <1>5
  <2> HIDE DEF n, k, first, rest
  <2>2. \A i \in 1 .. n : u[i] \in Range(first) \cup Range(rest)
    <3> SUFFICES ASSUME NEW i \in 1 .. n PROVE u[i] \in Range(first) \cup Range(rest)
      BY Zenon
    <3>1. CASE i <= b
      BY <1>1, <1>2, <1>5, <3>1 DEF Range, k
    <3>2. CASE b < i
      <4>1. i - b \in 1 .. (n - b) /\ b + (i - b) = i
        BY <1>1, <3>2
      <4> QED BY Zenon, <2>1, <4>1 DEF Range
    <3> QED BY <1>1, <3>1, <3>2
  <2> QED BY Zenon, <1>1, <1>3, <2>2 DEF Range, first, rest, k, n
<1> QED BY Zenon, <1>1, <1>4, <1>5

InHand == SubSeq(unsent, 1, IF Len(unsent) < Batch THEN Len(unsent) ELSE Batch)
Committing == step \in {"commit_backlog", "commit"}

SpoolTypes ==
    /\ unsent \in Seq(AuditRecords)
    /\ spool \in Seq(Frame)
    /\ seq \in Nat

\* What a restart would read back is still to be sent, and the batch that is
\* being taken off has arrived.
BacklogInMemory == step # "down" => Range(decode_frames(spool)) \subseteq Range(unsent)
BatchArrived == Committing => Range(InHand) \subseteq Delivered

SpoolInv == SpoolTypes /\ BacklogInMemory /\ BatchArrived /\ SpooledIsKept

LEMMA SpoolInvInit == PgInit => SpoolInv
<1> SUFFICES ASSUME PgInit PROVE SpoolInv
  BY Zenon
<1>1. SpoolTypes /\ BacklogInMemory /\ BatchArrived
  BY DEF PgInit, SpoolTypes, BacklogInMemory, BatchArrived, Committing
<1>2. SpooledIsKept
  BY Zenon DEF PgInit, SpooledIsKept
<1> QED BY Zenon, <1>1, <1>2 DEF SpoolInv

\* A step that leaves the spool and what was delivered alone.
LEMMA SpoolIdle ==
    ASSUME SpoolInv, UNCHANGED <<unsent, spool, received, spooled, swallowed>>, seq' \in Nat,
           step = "down" => step' = "down", Committing' => Committing
    PROVE  SpoolInv'
<1>1. Delivered' = Delivered /\ InHand' = InHand
  BY Zenon DEF Delivered, InHand
<1>2. SpoolTypes'
  BY Zenon DEF SpoolInv, SpoolTypes
<1>3. BacklogInMemory' /\ SpooledIsKept'
  BY Zenon, <1>1 DEF SpoolInv, BacklogInMemory, SpooledIsKept
<1>4. BatchArrived'
  BY Zenon, <1>1 DEF SpoolInv, BatchArrived
<1> QED BY Zenon, <1>2, <1>3, <1>4 DEF SpoolInv

LEMMA StartKeeps ==
    ASSUME SpoolInv, StartShip
    PROVE  SpoolInv'
<1>1. /\ unsent' = decode_frames(spool) /\ spool' = spool /\ received' = received
      /\ spooled' = spooled /\ swallowed' = swallowed /\ step' = "backlog" /\ seq' = 0
  BY Zenon DEF StartShip
<1>2. decode_frames(spool) \in Seq(AuditRecords)
  BY Zenon, DecodeReadsWhole DEF SpoolInv, SpoolTypes
<1>3. SpoolTypes'
  BY Zenon, <1>1, <1>2 DEF SpoolInv, SpoolTypes
<1>4. BacklogInMemory' /\ BatchArrived'
  BY Zenon, <1>1 DEF BacklogInMemory, BatchArrived, Committing
<1>5. SpooledIsKept'
  BY Zenon, <1>1 DEF SpoolInv, SpooledIsKept, Delivered
<1> QED BY Zenon, <1>3, <1>4, <1>5 DEF SpoolInv

LEMMA AppendKeeps ==
    ASSUME SpoolInv, append
    PROVE  SpoolInv'
<1> DEFINE r == Head(records)
<1>1. /\ step = "spool" /\ r \in AuditRecords
      /\ spool' = Append(spool, r) /\ unsent' = Append(unsent, r)
      /\ spooled' = spooled \cup {r}
      /\ swallowed' = IF TornFrame \in Range(spool) THEN swallowed \cup {r} ELSE swallowed
      /\ step' = step /\ seq' = seq /\ received' = received
  BY Zenon DEF append, sender
<1> HIDE DEF r
<1>2. r # TornFrame /\ spool \in Seq(Frame) /\ unsent \in Seq(AuditRecords)
  BY Zenon, <1>1, NoTornRecord DEF SpoolInv, SpoolTypes
<1>3. /\ spool' \in Seq(Frame)
      /\ TornFrame \in Range(spool) => Range(decode_frames(spool')) = Range(decode_frames(spool))
      /\ TornFrame \notin Range(spool) => Range(decode_frames(spool')) = Range(decode_frames(spool)) \cup {r}
  <2>1. r \in Frame
    BY Zenon, <1>1 DEF Frame
  <2>2. /\ Append(spool, r) \in Seq(Frame)
        /\ r = TornFrame \/ TornFrame \in Range(spool)
             => Range(decode_frames(Append(spool, r))) = Range(decode_frames(spool))
        /\ r # TornFrame /\ TornFrame \notin Range(spool)
             => Range(decode_frames(Append(spool, r))) = Range(decode_frames(spool)) \cup {r}
    BY Zenon, <1>2, <2>1, DecodeAfterAppend
  <2> QED BY Zenon, <1>1, <1>2, <2>2
<1>4. SpoolTypes'
  BY <1>1, <1>2, <1>3 DEF SpoolInv, SpoolTypes
<1>5. Range(unsent') = Range(unsent) \cup {r}
  <2>1. /\ Len(unsent) \in Nat /\ DOMAIN unsent = 1 .. Len(unsent)
        /\ DOMAIN unsent' = 1 .. Len(unsent) + 1
        /\ unsent'[Len(unsent) + 1] = r
        /\ \A i \in 1 .. Len(unsent) : unsent'[i] = unsent[i]
    BY <1>1, <1>2
  <2>2. DOMAIN unsent' = DOMAIN unsent \cup {Len(unsent) + 1}
    BY <2>1
  <2> QED BY <2>1, <2>2 DEF Range
<1>6. BacklogInMemory'
  BY Zenon, <1>1, <1>3, <1>5 DEF SpoolInv, BacklogInMemory
<1>7. BatchArrived'
  BY Zenon, <1>1 DEF BatchArrived, Committing
<1>8. Delivered' = Delivered
  BY Zenon, <1>1 DEF Delivered
<1>9. SpooledIsKept'
  <2>1. spooled \ swallowed \subseteq Delivered \cup Range(decode_frames(spool))
    BY Zenon DEF SpoolInv, SpooledIsKept
  <2>2. CASE TornFrame \in Range(spool)
    BY Zenon, <1>1, <1>3, <1>8, <2>1, <2>2 DEF SpooledIsKept
  <2>3. CASE TornFrame \notin Range(spool)
    BY Zenon, <1>1, <1>3, <1>8, <2>1, <2>3 DEF SpooledIsKept
  <2> QED BY Zenon, <2>2, <2>3
<1> QED BY Zenon, <1>4, <1>6, <1>7, <1>9 DEF SpoolInv

LEMMA StopKeeps ==
    ASSUME SpoolInv, StopShip
    PROVE  SpoolInv'
<1>1. /\ step' = "down" /\ unsent' = unsent /\ seq' = seq /\ received' = received
      /\ spooled' = spooled /\ swallowed' = swallowed
      /\ spool' = spool \/ spool' = Append(spool, TornFrame)
  BY Zenon DEF StopShip, sender
<1>2. spool \in Seq(Frame)
  BY Zenon DEF SpoolInv, SpoolTypes
<1>3. /\ spool' \in Seq(Frame)
      /\ Range(decode_frames(spool')) = Range(decode_frames(spool))
  <2>1. TornFrame \in Frame
    BY Zenon DEF Frame
  <2>2. /\ Append(spool, TornFrame) \in Seq(Frame)
        /\ Range(decode_frames(Append(spool, TornFrame))) = Range(decode_frames(spool))
    BY Zenon, <1>2, <2>1, DecodeAfterAppend
  <2> QED BY Zenon, <1>1, <1>2, <2>2
<1>4. SpoolTypes' /\ BacklogInMemory' /\ BatchArrived'
  BY Zenon, <1>1, <1>3 DEF SpoolInv, SpoolTypes, BacklogInMemory, BatchArrived, Committing
<1>5. SpooledIsKept'
  BY Zenon, <1>1, <1>3 DEF SpoolInv, SpooledIsKept, Delivered
<1> QED BY Zenon, <1>4, <1>5 DEF SpoolInv

LEMMA CommitKeeps ==
    ASSUME SpoolInv, commit
    PROVE  SpoolInv'
<1> DEFINE rest == SubSeq(unsent, Batch + 1, Len(unsent))
<1>1. /\ Committing /\ step' \in {"drain", "backlog"}
      /\ unsent' = rest /\ spool' = rest /\ seq' = seq + 1
      /\ UNCHANGED <<received, spooled, swallowed>>
  BY Zenon DEF commit, Committing
<1>2. unsent \in Seq(AuditRecords) /\ Batch \in Nat \ {0} /\ seq \in Nat
  BY Zenon, PgAssumption DEF SpoolInv, SpoolTypes
<1>3. rest \in Seq(AuditRecords) /\ Range(unsent) \subseteq Range(InHand) \cup Range(rest)
  BY Zenon, <1>2, BatchAndRest DEF InHand
<1> HIDE DEF rest
<1>4. rest \in Seq(Frame)
  BY <1>3 DEF Frame
<1>5. Range(decode_frames(rest)) = Range(rest)
  <2>1. Len(rest) \in Nat /\ DOMAIN rest = 1 .. Len(rest) /\ \A i \in 1 .. Len(rest) : rest[i] \in AuditRecords
    BY <1>3
  <2>2. {i \in DOMAIN rest : rest[i] = TornFrame} = {}
    BY Zenon, <2>1, NoTornRecord
  <2> QED BY Zenon, <2>2 DEF decode_frames
<1>6. SpoolTypes'
  BY <1>1, <1>2, <1>3, <1>4 DEF SpoolTypes
<1>7. BacklogInMemory' /\ BatchArrived'
  BY Zenon, <1>1, <1>5 DEF BacklogInMemory, BatchArrived, Committing
<1>8. Delivered' = Delivered
  BY Zenon, <1>1 DEF Delivered
<1>9. Range(decode_frames(spool)) \subseteq Delivered \cup Range(rest)
  BY Zenon, <1>1, <1>3 DEF SpoolInv, BacklogInMemory, BatchArrived, Committing
<1>10. SpooledIsKept'
  BY Zenon, <1>1, <1>5, <1>8, <1>9 DEF SpoolInv, SpooledIsKept
<1> QED BY Zenon, <1>6, <1>7, <1>10 DEF SpoolInv

LEMMA ShipKeeps ==
    ASSUME SpoolInv, NEW persisted \in BOOLEAN, NEW ok \in BOOLEAN, ship_batch(persisted, ok)
    PROVE  SpoolInv'
<1>1. /\ step \in {"backlog", "drain"} /\ (ok => persisted)
      /\ received' = IF persisted THEN received \cup {<<epoch, seq, InHand>>} ELSE received
      /\ Committing' => ok
      /\ UNCHANGED <<unsent, spool, seq, spooled, swallowed>>
  BY Zenon DEF ship_batch, InHand, Committing
<1>2. Delivered \subseteq Delivered' /\ (persisted => Range(InHand) \subseteq Delivered')
  <2> DEFINE m == <<epoch, seq, InHand>>
  <2>1. m[3] = InHand
    BY Zenon
  <2> HIDE DEF m
  <2>2. received \subseteq received' /\ (persisted => m \in received')
    BY Zenon, <1>1 DEF m
  <2> QED BY Zenon, <2>1, <2>2 DEF Delivered
<1>3. SpoolTypes' /\ BacklogInMemory'
  BY Zenon, <1>1 DEF SpoolInv, SpoolTypes, BacklogInMemory
<1>4. BatchArrived'
  BY Zenon, <1>1, <1>2 DEF BatchArrived, InHand
<1>5. SpooledIsKept'
  BY Zenon, <1>1, <1>2 DEF SpoolInv, SpooledIsKept
<1> QED BY Zenon, <1>3, <1>4, <1>5 DEF SpoolInv

LEMMA SpoolInvStep == SpoolInv /\ [PgNext]_pgVars => SpoolInv'
<1> SUFFICES ASSUME SpoolInv, [PgNext]_pgVars PROVE SpoolInv'
  BY Zenon
<1>0. seq \in Nat
  BY Zenon DEF SpoolInv, SpoolTypes
<1>1. CASE WriteLog \/ RotateLog \/ SkipRecord
  BY Zenon, <1>0, <1>1, SpoolIdle DEF WriteLog, RotateLog, SkipRecord, sender, Committing
<1>2. CASE ReadNewest
  BY Zenon, <1>0, <1>2, SpoolIdle DEF ReadNewest, sender, Committing
<1>3. CASE StartDrain \/ Drained
  BY Zenon, <1>0, <1>3, SpoolIdle DEF StartDrain, Drained, sender, Committing
<1>4. CASE UNCHANGED pgVars
  BY Zenon, <1>0, <1>4, SpoolIdle DEF pgVars, sender, Committing
<1> QED
  BY Zenon, <1>1, <1>2, <1>3, <1>4, StartKeeps, AppendKeeps, StopKeeps, CommitKeeps, ShipKeeps DEF PgNext, ShipStep

\* A record put in the spool is at the receiver or still in the spool that a
\* restart reads, whatever the batch size, however often the collector stops
\* (in the middle of an append too), and whatever the receiver answers, unless
\* it was appended behind a torn frame: Spool::commit takes off what was
\* answered with a 2xx and nothing else.
THEOREM SpoolLosesNothing == PgSpec => []SpooledIsKept
<1>1. SpoolInv => SpooledIsKept
  BY Zenon DEF SpoolInv
<1> QED BY <1>1, SpoolInvInit, SpoolInvStep, PTL DEF PgSpec

\* The numbers below the next one have arrived under this epoch, and the next
\* one too when its batch is being taken off.
NumbersArrived ==
    \A s \in 0 .. seq : s < seq \/ Committing => \E n \in received : n[1] = epoch /\ n[2] = s

\* "seq advances per delivered batch" (ship_batch): of every epoch the receiver
\* has the numbers from 0 on without a hole, which its gap detection rests on,
\* through refusals, lost answers, stops, and starts that share an epoch.
THEOREM ReceiverSeesNoHole == PgSpec => []EpochWithoutHoles
<1> DEFINE Inv == seq \in Nat /\ NumbersArrived /\ EpochWithoutHoles
<1>1. PgInit => Inv
  BY DEF PgInit, NumbersArrived, EpochWithoutHoles, Committing
<1>2. Inv /\ [PgNext]_pgVars => Inv'
  <2> SUFFICES ASSUME Inv, [PgNext]_pgVars PROVE Inv'
    BY Zenon
  <2>1. CASE UNCHANGED <<seq, epoch, received>> /\ (Committing' => Committing)
    BY ZenonT(60), <2>1 DEF NumbersArrived, EpochWithoutHoles
  <2>2. CASE StartShip
    <3>1. seq' = 0 /\ received' = received /\ ~ Committing'
      BY Zenon, <2>2 DEF StartShip, Committing
    <3>2. NumbersArrived'
      BY <3>1 DEF NumbersArrived
    <3> QED BY Zenon, <3>1, <3>2 DEF EpochWithoutHoles
  <2>3. CASE commit
    <3>1. /\ Committing /\ ~ Committing' /\ seq' = seq + 1
          /\ received' = received /\ epoch' = epoch
      BY Zenon, <2>3 DEF commit, Committing
    <3>2. NumbersArrived'
      BY <3>1 DEF NumbersArrived
    <3> QED BY <3>1, <3>2 DEF EpochWithoutHoles
  <2>4. ASSUME NEW persisted \in BOOLEAN, NEW ok \in BOOLEAN, ship_batch(persisted, ok)
        PROVE  Inv'
    <3> DEFINE m == <<epoch, seq, InHand>>
    <3>1. /\ ~ Committing /\ seq' = seq /\ epoch' = epoch
          /\ (ok => persisted) /\ (Committing' => ok)
          /\ received' = IF persisted THEN received \cup {m} ELSE received
      BY Zenon, <2>4 DEF ship_batch, InHand, Committing
    <3>2. m[1] = epoch /\ m[2] = seq
      BY Zenon
    <3> HIDE DEF m
    <3>i. received \subseteq received' /\ \A k \in received' : k \in received \/ (persisted /\ k = m)
      BY Zenon, <3>1
    <3>3. \A s \in 0 .. seq : s < seq \/ persisted => \E n \in received' : n[1] = epoch /\ n[2] = s
      BY <3>1, <3>2 DEF NumbersArrived
    <3>4. NumbersArrived'
      BY Zenon, <3>1, <3>3 DEF NumbersArrived
    <3>5. EpochWithoutHoles'
      <4>1. \A s \in 0 .. m[2] : persisted => \E n \in received' : n[1] = m[1] /\ n[2] = s
        BY Zenon, <3>2, <3>3
      <4>2. \A k \in received : \A s \in 0 .. k[2] : \E n \in received' : n[1] = k[1] /\ n[2] = s
        BY Zenon, <3>i DEF EpochWithoutHoles
      <4>3. ASSUME NEW k \in received'
            PROVE  \A s \in 0 .. k[2] : \E n \in received' : n[1] = k[1] /\ n[2] = s
        <5>1. CASE k \in received
          BY Zenon, <4>2, <5>1
        <5>2. CASE persisted /\ k = m
          BY Zenon, <4>1, <5>2
        <5> QED BY Zenon, <3>i, <5>1, <5>2
      <4> QED BY Zenon, <4>3 DEF EpochWithoutHoles
    <3> QED BY Zenon, <3>1, <3>4, <3>5
  <2>5. CASE WriteLog \/ RotateLog \/ SkipRecord \/ ReadNewest \/ append
    BY Zenon, <2>1, <2>5 DEF WriteLog, RotateLog, SkipRecord, ReadNewest, append, sender, Committing
  <2>6. CASE StartDrain \/ Drained \/ StopShip \/ UNCHANGED pgVars
    BY Zenon, <2>1, <2>6 DEF StartDrain, Drained, StopShip, pgVars, sender, Committing
  <2> HIDE DEF Inv
  <2> QED BY Zenon, <2>2, <2>3, <2>4, <2>5, <2>6 DEF PgNext, ShipStep
<1>3. Inv => EpochWithoutHoles
  BY Zenon
<1> QED BY <1>1, <1>2, <1>3, PTL DEF PgSpec

=============================================================================
