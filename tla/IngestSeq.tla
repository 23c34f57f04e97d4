----------------------------- MODULE IngestSeq ------------------------------
(***************************************************************************)
(* The delivery accounting of one authenticated collector: the ingest       *)
(* handler enqueues a mark for every batch it persisted, one task takes     *)
(* them in order, classifies each against the state kept for its epoch      *)
(* (garmr-store/src/state/ingest_seq.rs) and writes an audit line per       *)
(* window for what was confirmed lost (garmr-cli/src/ingest_seq.rs).        *)
(*                                                                          *)
(* Marks come in any order and more than once: the collector pipelines its  *)
(* batches and repeats what was not acknowledged, and the acknowledgements  *)
(* of a group commit race.                                                  *)
(***************************************************************************)
EXTENDS Naturals, Sequences, FiniteSets, FiniteSetsExt

CONSTANTS
    Epochs,         \* X-Garmr-Epoch values, a set of naturals
    Seqs,           \* X-Garmr-Seq values
    MissingCap,     \* MISSING_CAP
    EpochCap,       \* EPOCHS_PER_COLLECTOR_CAP
    MarkCap,        \* capacity of the observer's channel (16384)
    MaxMarks,       \* bound: marks of the handlers
    MaxMinutes      \* bound: GAP_AUDIT_WINDOW_SECS that pass

ASSUME SeqAssumption ==
    /\ Epochs \subseteq Nat /\ Seqs \subseteq Nat
    /\ {MissingCap, EpochCap, MarkCap} \subseteq Nat \ {0}
    /\ MaxMarks \in Nat /\ MaxMinutes \in Nat

VARIABLES
    marks,          \* the observer's channel: <<epoch, seq>>
    rows,           \* INGEST_SEQ: the state kept for each epoch, {} or one
    gapWindow,      \* GapWindow of the collector: {} before its first gap
    lines,          \* audit lines written: <<minute, batches lost>>
    minute,
    seen,           \* history: seqs observed since the epoch's row exists
    confirmed,      \* history: batches ever confirmed lost
    count           \* marks made

seqVars == <<marks, rows, gapWindow, lines, minute, seen, confirmed, count>>

SeqInit ==
    /\ marks = <<>> /\ rows = [e \in Epochs |-> {}] /\ gapWindow = {} /\ lines = <<>>
    /\ minute = 0 /\ seen = [e \in Epochs |-> {}] /\ confirmed = 0 /\ count = 0

Kept(table) == {e \in Epochs : table[e] # {}}
Smallest(S, n) == {x \in S : Cardinality({y \in S : y < x}) < n}
Oldest(S, n) == Smallest(S, n)

-----------------------------------------------------------------------------

\* ChannelSeqObserver::observe, after the batch is durable; a full channel
\* drops the mark.
observe(e, s) ==
    /\ count < MaxMarks
    /\ count' = count + 1
    /\ marks' = IF Len(marks) < MarkCap THEN Append(marks, <<e, s>>) ELSE marks
    /\ UNCHANGED <<rows, gapWindow, lines, minute, seen, confirmed>>

\* Mutant of classify: the entries over the cap are dropped but one is not counted.
ClassifyForgets(st, s) ==
    IF s <= st.high
    THEN IF s \in st.missing THEN [st EXCEPT !.missing = @ \ {s}] ELSE [st EXCEPT !.replays = @ + 1]
    ELSE LET holes == st.missing \cup (st.high + 1 .. s - 1)
             over == Cardinality(holes) - MissingCap
         IN  [st EXCEPT !.high = s,
                        !.missing = IF over > 0 THEN holes \ Smallest(holes, over) ELSE holes,
                        !.gaps = IF over > 0 THEN @ + over - 1 ELSE @]

\* classify: what is skipped becomes outstanding, what fills a hole resolves it,
\* anything else at or below the high-water mark is a replay, and the oldest
\* holes over the cap are confirmed lost.
classify(st, s) ==
    IF s <= st.high
    THEN IF s \in st.missing THEN [st EXCEPT !.missing = @ \ {s}] ELSE [st EXCEPT !.replays = @ + 1]
    ELSE LET holes == st.missing \cup (st.high + 1 .. s - 1)
             over == IF Cardinality(holes) > MissingCap THEN Cardinality(holes) - MissingCap ELSE 0
         IN  [st EXCEPT !.high = s, !.missing = holes \ Smallest(holes, over), !.gaps = @ + over]

First(s) == [first |-> s, high |-> s, missing |-> {}, gaps |-> 0, replays |-> 0]

\* evict_stale_epochs: the oldest rows over the cap go, never the one just
\* written; what they had outstanding is added to the gaps of the oldest kept.
evict_stale_epochs(table, written) ==
    LET kept == Kept(table)
        over == IF Cardinality(kept) > EpochCap THEN Cardinality(kept) - EpochCap ELSE 0
        victims == Oldest(kept, over) \ {written}
        orphaned == Cardinality(UNION {{e} \X (CHOOSE st \in table[e] : TRUE).missing : e \in victims})
    IN  [e \in Epochs |->
            IF e \in victims THEN {}
            ELSE IF victims # {} /\ e = Min(kept \ victims)
                 THEN {[st EXCEPT !.gaps = @ + orphaned] : st \in table[e]}
                 ELSE table[e]]

\* The collector's GapWindow, made with the first gap.
Opened == IF gapWindow = {} THEN [start |-> minute, pending |-> 0] ELSE CHOOSE w \in gapWindow : TRUE

WindowOver(start) == minute > start

\* flush_gap_window, and the window that begins with it.
flush_gap_window(w) == [start |-> minute, pending |-> 0]

\* seq_observe_loop, one mark: observe_ingest_seq, and the collector's window.
seq_observe_loop ==
    /\ marks # <<>> /\ marks' = Tail(marks)
    /\ LET e == Head(marks)[1]
           s == Head(marks)[2]
           new == rows[e] = {}
           row == IF new THEN {First(s)} ELSE {classify(st, s) : st \in rows[e]}
           table == [rows EXCEPT ![e] = row]
           gaps(r) == MapThenSumSet(LAMBDA st : st.gaps, r)
           lost == IF new THEN 0 ELSE gaps(row) - gaps(rows[e])
           w == [Opened EXCEPT !.pending = @ + lost]
       IN  /\ rows' = IF new THEN evict_stale_epochs(table, e) ELSE table
           /\ seen' = [x \in Epochs |-> IF rows'[x] = {} THEN {} ELSE IF x = e THEN seen[x] \cup {s} ELSE seen[x]]
           /\ confirmed' = confirmed + lost
           /\ IF lost = 0 THEN UNCHANGED <<gapWindow, lines>>
              ELSE IF WindowOver(w.start)
              THEN lines' = Append(lines, <<minute, w.pending>>) /\ gapWindow' = {flush_gap_window(w)}
              ELSE gapWindow' = {w} /\ UNCHANGED lines
    /\ UNCHANGED <<minute, count>>

\* The write of the row fails: the mark is gone.
ObserveFails ==
    /\ marks # <<>> /\ marks' = Tail(marks)
    /\ UNCHANGED <<rows, gapWindow, lines, minute, seen, confirmed, count>>

Minute ==
    /\ minute < MaxMinutes /\ minute' = minute + 1
    /\ UNCHANGED <<marks, rows, gapWindow, lines, seen, confirmed, count>>

\* The daemon is restarted: the channel and the window are memory.
SeqRestart ==
    /\ marks' = <<>> /\ gapWindow' = {}
    /\ UNCHANGED <<rows, lines, minute, seen, confirmed, count>>

SeqNext ==
    \/ \E e \in Epochs, s \in Seqs : observe(e, s)
    \/ seq_observe_loop \/ ObserveFails \/ Minute \/ SeqRestart

SeqSpec == SeqInit /\ [][SeqNext]_seqVars

-----------------------------------------------------------------------------
(* Properties. *)

\* "never fabricating a gap from mere out-of-order observation", and no loss
\* goes unseen: of every epoch that is kept, each number between the first and
\* the highest was seen, is outstanding or is counted as a gap.
EverySeqAccounted ==
    \A e \in Epochs : \A st \in rows[e] :
        Cardinality((st.first .. st.high) \ (seen[e] \cup st.missing)) <= st.gaps

=============================================================================
