--------------------------- MODULE Intake_proofs ---------------------------
(***************************************************************************)
(* What an acknowledgement of the intake stands for, and how often an      *)
(* event is stored, for every set of pushes and events, every division of  *)
(* the events into pushes, every transport and every size of the window.   *)
(*                                                                         *)
(* An acknowledgement crosses three tasks, so the invariant says what each *)
(* message on the way stands for: the group commit's command carries the   *)
(* events of every push held, its "ok" means that they are safe, and so    *)
(* does the "ok" a push is answered; a Flight stream has every row before  *)
(* its place safe and waits for the one at it.  That an answer belongs to  *)
(* the command last sent needs that who waits has one command or one       *)
(* answer outstanding, also after giving up and asking again.              *)
(*                                                                         *)
(* What dedup_batch does to a whole batch is shown by the least row that   *)
(* is a counterexample, and that a window of the size of the set of ids    *)
(* never forgets one by counting: a full window already holds every id.    *)
(***************************************************************************)
EXTENDS Ingest, FiniteSetTheorems, TLAPS

\* A set of numbers that is not empty has a least element.
LEMMA NatMin ==
    ASSUME NEW T, T \subseteq Nat, T # {}
    PROVE  \E x \in T : \A y \in T : x <= y
<1> DEFINE R == OpToRel(<, Nat)
<1>1. IsWellFoundedOn(R, Nat)
  BY Zenon, NatLessThanWellFounded
<1>2. PICK x \in T : \A y \in T : ~ (<<y, x>> \in R)
  BY Zenon, <1>1, WFMin
<1>3. R = {ss \in Nat \X Nat : ss[1] < ss[2]}
  BY Zenon DEF OpToRel
<1> HIDE DEF R
<1>4. \A y \in T : x <= y
  <2> TAKE y \in T
  <2>1. ~ (<<y, x>> \in {ss \in Nat \X Nat : ss[1] < ss[2]})
    BY Zenon, <1>2, <1>3
  <2> QED BY <2>1
<1> QED BY Zenon, <1>4

\* Requests, and what is sent to and from the actor.
AnyRequest == Pushes \X (Nat \ {0})
Piped == {r \in AnyRequest : Via[r[1]] # "flight"}
Sender == {Loop} \cup {r \in AnyRequest : Via[r[1]] = "flight"}
Outcome == {"ok", "err"}

\* The shapes of the state.
IngestTypes ==
    /\ dedup_recent \in Nat
    /\ sent \in [Pushes -> {"idle", "waiting", "gone", "acked"}]
    /\ attempt \in [Pushes -> Nat] /\ place \in [Pushes -> Nat]
    /\ chan \in Seq(Piped) /\ held \in Seq(Piped)
    /\ events \in Seq(Events)
    /\ cmds \in Seq([from : Sender, rows : Seq(Events)])
    /\ answers \subseteq (Sender \cup Piped) \X Outcome
    /\ window \in Seq(Events)
    /\ stored \in [Events -> Nat]
    /\ failed \subseteq Events
    /\ restarts \in Nat

\* What an acknowledgement may stand for.
Safe == Stored \cup (IF dedup_recent = 0 THEN {} ELSE failed)

\* The window has seen nothing that is not stored or that failed; without dedup
\* it is empty.
WindowInv ==
    /\ dedup_recent = 0 => window = <<>>
    /\ Ids(window) \subseteq Stored \cup failed

Commanded(r) == \E i \in DOMAIN cmds : cmds[i].from = r
Answered(r) == \E o \in Outcome : <<r, o>> \in answers

\* Who waits has one command or one answer outstanding.
SingleRequest ==
    /\ \A p \in Pushes : sent[p] = "waiting" => attempt[p] # 0
    /\ \A i, j \in DOMAIN cmds : cmds[i].from = cmds[j].from => i = j
    /\ \A r \in Sender : ~ (Commanded(r) /\ Answered(r))
    /\ \A r \in Sender : \A o, u \in Outcome : <<r, o>> \in answers /\ <<r, u>> \in answers => o = u
    /\ \A r \in Sender \ {Loop} : (Commanded(r) \/ Answered(r)) => r[2] <= attempt[r[1]]

\* The group commit: the command of the pipeline is for the events in hand.
GroupInv ==
    /\ \A i \in DOMAIN held : pipe # "detect" => Ids(Rows[held[i][1]]) \subseteq Ids(events)
    /\ pipe # "append" => ~ Commanded(Loop) /\ ~ Answered(Loop)
    /\ \A i \in DOMAIN cmds : cmds[i].from = Loop => cmds[i].rows = events
    /\ <<Loop, "ok">> \in answers => Ids(events) \subseteq Safe

\* A Flight stream waits for the row at its place, and has the ones before.
Streamed(p) ==
    /\ place[p] \in DOMAIN Rows[p]
    /\ \A n \in DOMAIN Rows[p] : n < place[p] => Rows[p][n] \in Safe
    /\ \A i \in DOMAIN cmds : cmds[i].from = Request(p) => cmds[i].rows = <<Rows[p][place[p]]>>
    /\ <<Request(p), "ok">> \in answers => Rows[p][place[p]] \in Safe
StreamInv == \A p \in Pushes : Via[p] = "flight" /\ sent[p] = "waiting" => Streamed(p)

\* An answer to a push of the pipeline is for all of it.
AnswerInv == \A r \in Piped : <<r, "ok">> \in answers => Ids(Rows[r[1]]) \subseteq Safe

\* The inductive invariant.
IngestInv ==
    IngestTypes /\ WindowInv /\ SingleRequest /\ GroupInv /\ StreamInv /\ AnswerInv /\ AckedUnlessForgotten

\* A window that holds every id forgets none.
Roomy == dedup_recent >= Cardinality(Events)

\* Then the window has no id twice, and an id that is not in it was stored in an
\* earlier life of the process only.
OnceInv ==
    Roomy => /\ IsInjective(window)
             /\ \A e \in Events : stored[e] <= restarts + (IF e \in Ids(window) THEN 1 ELSE 0)

\* The function AdmitRows is: each row starts from what the rows before it left.
LEMMA AdmitRowsFacts ==
    ASSUME NEW w, NEW rows \in Seq(Events)
    PROVE  /\ AdmitRows(w, rows)[0] = [window |-> w, kept |-> <<>>]
           /\ \A n \in 1 .. Len(rows) : AdmitRows(w, rows)[n] = AdmitRow(AdmitRows(w, rows)[n - 1], rows[n])
<1> DEFINE L == Len(rows)
           first == [window |-> w, kept |-> <<>>]
           Next(d, n) == IF n = 0 THEN first ELSE AdmitRow(d[n - 1], rows[n])
           Good(d, n) == \A m \in 0 .. n : d[m] = Next(d, m)
           Bad == {n \in 0 .. L : ~ \E d : Good(d, n)}
<1>0. L \in Nat
  OBVIOUS
<1> HIDE DEF L, first
<1>1. Bad = {}
  <2> SUFFICES ASSUME Bad # {} PROVE FALSE
    BY Zenon
  <2>1. Bad \subseteq Nat
    BY <1>0
  <2>2. PICK n \in Bad : \A m \in Bad : n <= m
    BY Zenon, <2>1, NatMin
  <2>3. n \in 0 .. L /\ ~ \E d : Good(d, n)
    BY Zenon, <2>2
  <2>4. CASE n = 0
    <3> DEFINE d == [m \in 0 .. 0 |-> first]
    <3>1. \A m \in 0 .. 0 : m = 0 /\ d[m] = first
      OBVIOUS
    <3>2. Good(d, n)
      BY Zenon, <2>4, <3>1
    <3> QED BY Zenon, <2>3, <3>2
  <2>5. CASE n # 0
    <3>1. n - 1 \in 0 .. L /\ ~(n <= n - 1) /\ n \in Nat /\ n - 1 \in Nat
      BY <1>0, <2>3, <2>5
    <3>2. n - 1 \notin Bad
      BY Zenon, <2>2, <3>1
    <3>3. PICK d : Good(d, n - 1)
      BY Zenon, <3>1, <3>2
    <3> DEFINE e == [m \in 0 .. n |-> IF m = n THEN AdmitRow(d[n - 1], rows[n]) ELSE d[m]]
    <3>4. \A m \in 0 .. n : e[m] = IF m = n THEN AdmitRow(d[n - 1], rows[n]) ELSE d[m]
      BY Zenon
    <3> HIDE DEF e
    <3>5. ASSUME NEW m \in 0 .. n PROVE e[m] = Next(e, m)
      <4>1. CASE m = n
        <5>1. n - 1 \in 0 .. n /\ n - 1 # n
          BY <3>1
        <5>2. e[n - 1] = d[n - 1]
          BY Zenon, <3>4, <5>1
        <5> QED BY Zenon, <2>5, <3>4, <4>1, <5>2
      <4>2. CASE m # n
        <5>1. m \in 0 .. (n - 1) /\ (m # 0 => m - 1 \in 0 .. n /\ m - 1 # n)
          BY <3>1, <3>5, <4>2
        <5>2. d[m] = Next(d, m)
          BY Zenon, <3>3, <5>1
        <5>3. m # 0 => e[m - 1] = d[m - 1]
          BY Zenon, <3>4, <5>1
        <5>4. e[m] = d[m]
          BY Zenon, <3>4, <4>2
        <5> QED BY Zenon, <5>2, <5>3, <5>4
      <4> QED BY Zenon, <4>1, <4>2
    <3>6. Good(e, n)
      BY Zenon, <3>5
    <3> QED BY Zenon, <2>3, <3>6
  <2> QED BY Zenon, <2>4, <2>5
<1>2. L \in 0 .. L
  BY <1>0
<1>3. PICK d : Good(d, L)
  BY Zenon, <1>1, <1>2
<1> DEFINE g == [n \in 0 .. L |-> d[n]]
           h == AdmitRows(w, rows)
<1>4. g = [n \in 0 .. L |-> Next(g, n)]
  <2>1. \A n \in 0 .. L : g[n] = d[n]
    BY Zenon
  <2> HIDE DEF g
  <2>2. ASSUME NEW n \in 0 .. L PROVE d[n] = Next(g, n)
    <3>1. n # 0 => n - 1 \in 0 .. L
      BY <1>0, <2>2
    <3>2. d[n] = Next(d, n)
      BY Zenon, <1>3, <2>2
    <3> QED BY Zenon, <2>1, <3>1, <3>2
  <2> QED BY Zenon, <2>2 DEF g
<1>5. h = CHOOSE f : f = [n \in 0 .. L |-> Next(f, n)]
  BY Zenon DEF AdmitRows, L, first
<1> HIDE DEF g, h
<1>6. h = [n \in 0 .. L |-> Next(h, n)]
  BY Zenon, <1>4, <1>5
<1>7. \A n \in 0 .. L : h[n] = Next(h, n)
  BY Zenon, <1>6
<1>8. 0 \in 0 .. L /\ \A n \in 1 .. L : n \in 0 .. L /\ n # 0
  BY <1>0
<1>9. h[0] = first /\ \A n \in 1 .. L : h[n] = AdmitRow(h[n - 1], rows[n])
  BY Zenon, <1>7, <1>8
<1> QED BY Zenon, <1>9 DEF h, first, L

\* Appending and dropping the head, element by element.
LEMMA AppendIds ==
    ASSUME NEW S, NEW s \in Seq(S), NEW x \in S
    PROVE  /\ Append(s, x) \in Seq(S) /\ Len(Append(s, x)) = Len(s) + 1
           /\ \A i \in DOMAIN Append(s, x) : (i \in DOMAIN s /\ Append(s, x)[i] = s[i]) \/ (i = Len(s) + 1 /\ Append(s, x)[i] = x)
           /\ \A i \in DOMAIN s : i \in DOMAIN Append(s, x) /\ Append(s, x)[i] = s[i] /\ i # Len(s) + 1
           /\ Len(s) + 1 \in DOMAIN Append(s, x) /\ Append(s, x)[Len(s) + 1] = x
           /\ Ids(Append(s, x)) = Ids(s) \cup {x}
<1>1. /\ Append(s, x) \in Seq(S) /\ Len(Append(s, x)) = Len(s) + 1
      /\ \A i \in DOMAIN Append(s, x) : (i \in DOMAIN s /\ Append(s, x)[i] = s[i]) \/ (i = Len(s) + 1 /\ Append(s, x)[i] = x)
      /\ \A i \in DOMAIN s : i \in DOMAIN Append(s, x) /\ Append(s, x)[i] = s[i] /\ i # Len(s) + 1
      /\ Len(s) + 1 \in DOMAIN Append(s, x) /\ Append(s, x)[Len(s) + 1] = x
  <2>1. Append(s, x) \in Seq(S) /\ Len(Append(s, x)) = Len(s) + 1 /\ Len(s) \in Nat
    OBVIOUS
  <2>2. DOMAIN Append(s, x) = 1 .. (Len(s) + 1) /\ DOMAIN s = 1 .. Len(s)
    OBVIOUS
  <2>3. /\ \A i \in 1 .. Len(s) : Append(s, x)[i] = s[i]
        /\ Append(s, x)[Len(s) + 1] = x
    OBVIOUS
  <2>4. /\ \A i \in 1 .. (Len(s) + 1) : i \in 1 .. Len(s) \/ i = Len(s) + 1
        /\ \A i \in 1 .. Len(s) : i \in 1 .. (Len(s) + 1) /\ i # Len(s) + 1
        /\ Len(s) + 1 \in 1 .. (Len(s) + 1)
    BY <2>1
  <2> DEFINE a == Append(s, x)
             D == DOMAIN Append(s, x)
             l == Len(s) + 1
  <2>5. \A i \in D : (i \in DOMAIN s /\ a[i] = s[i]) \/ (i = l /\ a[i] = x)
    <3> SUFFICES ASSUME NEW i \in D PROVE (i \in DOMAIN s /\ a[i] = s[i]) \/ (i = l /\ a[i] = x)
      BY Zenon
    <3>1. CASE i = l
      <4>1. a[l] = x
        BY Zenon, <2>3
      <4> HIDE DEF a, l
      <4> QED BY Zenon, <3>1, <4>1
    <3>2. CASE i \in 1 .. Len(s)
      BY Zenon, <3>2, <2>2, <2>3
    <3> QED BY Zenon, <2>2, <2>4, <3>1, <3>2
  <2>6. \A i \in DOMAIN s : i \in D /\ a[i] = s[i] /\ i # l
    BY <2>2, <2>3, <2>4
  <2>7. l \in D /\ a[l] = x
    BY <2>2, <2>3, <2>4
  <2> QED BY Zenon, <2>1, <2>5, <2>6, <2>7
<1> DEFINE a == Append(s, x)
<1> HIDE DEF a
<1>2. Ids(a) = Ids(s) \cup {x}
  BY <1>1 DEF Ids, a
<1> QED BY Zenon, <1>1, <1>2 DEF a

\* The places of a sequence with one more at its end.
LEMMA AppendAt ==
    ASSUME NEW S, NEW s \in Seq(S), NEW x \in S, NEW a, a = Append(s, x)
    PROVE  /\ a \in Seq(S)
           /\ \A i \in DOMAIN a : (i \in DOMAIN s /\ a[i] = s[i]) \/ (i = Len(s) + 1 /\ a[i] = x)
           /\ \A i \in DOMAIN s : i \in DOMAIN a /\ a[i] = s[i]
           /\ Len(s) + 1 \in DOMAIN a /\ a[Len(s) + 1] = x
<1>0. a \in Seq(S)
  BY Zenon, AppendIds
<1>1. Len(s) + 1 \in DOMAIN a /\ a[Len(s) + 1] = x
  BY AppendIds
<1>2. \A i \in DOMAIN a : (i \in DOMAIN s /\ a[i] = s[i]) \/ (i = Len(s) + 1 /\ a[i] = x)
  <2> DEFINE b == Append(s, x)
             l == Len(s) + 1
  <2>1. \A i \in DOMAIN b : (i \in DOMAIN s /\ b[i] = s[i]) \/ (i = l /\ b[i] = x)
    BY Zenon, AppendIds
  <2>2. a = b
    BY Zenon
  <2> HIDE DEF b, l
  <2>3. \A i \in DOMAIN a : (i \in DOMAIN s /\ a[i] = s[i]) \/ (i = l /\ a[i] = x)
    BY Zenon, <2>1, <2>2
  <2> QED BY Zenon, <2>3 DEF l
<1>3. \A i \in DOMAIN s : i \in DOMAIN a /\ a[i] = s[i]
  BY ZenonT(60), AppendIds
<1> QED BY Zenon, <1>0, <1>1, <1>2, <1>3

\* ... and its ids.
LEMMA IdsAppend ==
    ASSUME NEW S, NEW s \in Seq(S), NEW x \in S
    PROVE  Append(s, x) \in Seq(S) /\ Ids(Append(s, x)) = Ids(s) \cup {x}
  BY Zenon, AppendIds

\* The oldest id may leave, no other comes.
LEMMA TailIds ==
    ASSUME NEW S, NEW s \in Seq(S), s # <<>>
    PROVE  /\ Tail(s) \in Seq(S) /\ Len(Tail(s)) = Len(s) - 1
           /\ \A i \in DOMAIN Tail(s) : i + 1 \in DOMAIN s /\ Tail(s)[i] = s[i + 1]
           /\ Ids(Tail(s)) \subseteq Ids(s)
           /\ 1 \in DOMAIN s /\ Head(s) = s[1] /\ Head(s) \in S /\ Head(s) \in Ids(s)
<1>1. /\ Tail(s) \in Seq(S) /\ Len(Tail(s)) = Len(s) - 1
      /\ \A i \in DOMAIN Tail(s) : i + 1 \in DOMAIN s /\ Tail(s)[i] = s[i + 1]
      /\ 1 \in DOMAIN s /\ Head(s) = s[1] /\ Head(s) \in S
  OBVIOUS
<1> DEFINE a == Tail(s)
<1> HIDE DEF a
<1>2. Ids(a) \subseteq Ids(s)
  BY <1>1 DEF Ids, a
<1>3. Head(s) \in Ids(s)
  BY Zenon, <1>1 DEF Ids
<1> QED BY Zenon, <1>1, <1>2, <1>3 DEF a

\* The ids of a sequence are of its type.
LEMMA IdsType == ASSUME NEW S, NEW s \in Seq(S) PROVE Ids(s) \subseteq S
  BY DEF Ids

Admission == [window : Seq(Events), kept : Seq(Events)]

\* One row: it was seen, or it is kept and is in the window from then on.
LEMMA AdmitRowFacts ==
    ASSUME NEW acc \in Admission, NEW id \in Events, dedup_recent \in Nat \ {0}
    PROVE  /\ AdmitRow(acc, id) \in Admission
           /\ id \in Ids(acc.window) => AdmitRow(acc, id) = acc
           /\ id \notin Ids(acc.window) =>
                 /\ AdmitRow(acc, id).kept = Append(acc.kept, id)
                 /\ Ids(AdmitRow(acc, id).window) \subseteq Ids(acc.window) \cup {id}
                 /\ Len(acc.window) < dedup_recent => AdmitRow(acc, id).window = Append(acc.window, id)
<1>1. CASE id \in Ids(acc.window)
  BY Zenon, <1>1 DEF AdmitRow
<1>2. CASE id \notin Ids(acc.window)
  <2> DEFINE w == acc.window
             k == acc.kept
             v == IF Len(w) >= dedup_recent THEN Tail(w) ELSE w
  <2>1. w \in Seq(Events) /\ k \in Seq(Events)
    BY Zenon DEF Admission
  <2>2. AdmitRow(acc, id) = [window |-> Append(v, id), kept |-> Append(k, id)]
    BY Zenon, <1>2 DEF AdmitRow, admit
  <2> HIDE DEF w, k
  <2>3. Len(w) >= dedup_recent => w # <<>>
    BY <2>1
  <2>4. v \in Seq(Events) /\ Ids(v) \subseteq Ids(w)
    BY Zenon, <2>1, <2>3, TailIds
  <2>5. Len(w) < dedup_recent => v = w
    BY <2>1
  <2> HIDE DEF v
  <2>6. Append(v, id) \in Seq(Events) /\ Append(k, id) \in Seq(Events) /\ Ids(Append(v, id)) = Ids(v) \cup {id}
    <3>1. v \in Seq(Events)
      BY Zenon, <2>4
    <3>3. Append(v, id) \in Seq(Events)
      BY Zenon, <3>1, IdsAppend
    <3>4. Ids(Append(v, id)) = Ids(v) \cup {id}
      BY ZenonT(60), <3>1, IdsAppend
    <3>2. Append(k, id) \in Seq(Events)
      BY Zenon, <2>1, IdsAppend
    <3> QED BY Zenon, <3>2, <3>3, <3>4
  <2>7. /\ AdmitRow(acc, id) \in Admission /\ AdmitRow(acc, id).kept = Append(k, id)
        /\ AdmitRow(acc, id).window = Append(v, id)
    BY <2>2, <2>6 DEF Admission
  <2>8. Ids(AdmitRow(acc, id).window) \subseteq Ids(w) \cup {id}
    BY Zenon, <2>4, <2>6, <2>7
  <2> QED BY Zenon, <1>2, <2>5, <2>7, <2>8 DEF w, k
<1> QED BY Zenon, <1>1, <1>2

\* dedup_batch: what the window knows was known or is kept, and so is every row.
LEMMA DedupContract ==
    ASSUME NEW w \in Seq(Events), NEW rows \in Seq(Events), dedup_recent \in Nat \ {0}
    PROVE  LET b == dedup_batch(w, rows)
           IN  /\ b \in Admission
               /\ Ids(b.window) \subseteq Ids(w) \cup Ids(b.kept)
               /\ Ids(rows) \subseteq Ids(w) \cup Ids(b.kept)
<1> DEFINE L == Len(rows)
           h == AdmitRows(w, rows)
           Good(n) == /\ h[n] \in Admission
                      /\ Ids(h[n].window) \subseteq Ids(w) \cup Ids(h[n].kept)
                      /\ \A i \in 1 .. n : rows[i] \in Ids(w) \cup Ids(h[n].kept)
           Bad == {n \in 0 .. L : ~ Good(n)}
<1>0. L \in Nat /\ \A n \in 1 .. L : rows[n] \in Events
  OBVIOUS
<1>1. h[0] = [window |-> w, kept |-> <<>>] /\ \A n \in 1 .. L : h[n] = AdmitRow(h[n - 1], rows[n])
  BY Zenon, AdmitRowsFacts
<1>2. dedup_batch(w, rows) = h[L] /\ Ids(rows) = {rows[i] : i \in 1 .. L}
  BY DEF dedup_batch, Ids
<1> HIDE DEF L, h
<1>3. Bad = {}
  <2> SUFFICES ASSUME Bad # {} PROVE FALSE
    BY Zenon
  <2>1. Bad \subseteq Nat
    BY <1>0
  <2>2. PICK n \in Bad : \A m \in Bad : n <= m
    BY Zenon, <2>1, NatMin
  <2>3. n \in 0 .. L /\ ~ Good(n)
    BY Zenon, <2>2
  <2>4. CASE n = 0
    <3>1. h[0] \in Admission /\ h[0].window = w
      BY <1>1 DEF Admission
    <3>2. \A i \in 1 .. 0 : FALSE
      OBVIOUS
    <3>3. Good(0)
      BY Zenon, <3>1, <3>2
    <3> QED BY Zenon, <2>3, <2>4, <3>3
  <2>5. CASE n # 0
    <3>1. n - 1 \in 0 .. L /\ ~(n <= n - 1) /\ n \in 1 .. L /\ \A i \in 1 .. n : i = n \/ i \in 1 .. (n - 1)
      BY <1>0, <2>3, <2>5
    <3>2. Good(n - 1)
      BY Zenon, <2>2, <3>1
    <3> DEFINE acc == h[n - 1]
               id == rows[n]
    <3>3. h[n] = AdmitRow(acc, id) /\ id \in Events /\ acc \in Admission
      BY Zenon, <1>0, <1>1, <3>1, <3>2
    <3>4. /\ Ids(acc.window) \subseteq Ids(w) \cup Ids(acc.kept)
          /\ \A i \in 1 .. (n - 1) : rows[i] \in Ids(w) \cup Ids(acc.kept)
      BY Zenon, <3>2
    <3> HIDE DEF acc, id
    <3>5. CASE id \in Ids(acc.window)
      <4>1. h[n] = acc
        BY Zenon, <3>3, <3>5, AdmitRowFacts
      <4>2. \A i \in 1 .. n : rows[i] \in Ids(w) \cup Ids(acc.kept)
        BY <3>1, <3>4, <3>5 DEF id
      <4>3. Good(n)
        BY Zenon, <3>3, <3>4, <4>1, <4>2
      <4> QED BY Zenon, <2>3, <4>3
    <3>6. CASE id \notin Ids(acc.window)
      <4>1. /\ h[n] \in Admission /\ h[n].kept = Append(acc.kept, id)
            /\ Ids(h[n].window) \subseteq Ids(acc.window) \cup {id}
        <5> DEFINE g == AdmitRow(acc, id)
        <5>1. g \in Admission /\ g.kept = Append(acc.kept, id) /\ Ids(g.window) \subseteq Ids(acc.window) \cup {id}
          BY Zenon, <3>3, <3>6, AdmitRowFacts
        <5>2. h[n] = g
          BY Zenon, <3>3
        <5> HIDE DEF g
        <5> QED BY Zenon, <5>1, <5>2
      <4>2. Ids(h[n].kept) = Ids(acc.kept) \cup {id}
        <5>1. acc.kept \in Seq(Events)
          BY Zenon, <3>3 DEF Admission
        <5>2. Ids(Append(acc.kept, id)) = Ids(acc.kept) \cup {id}
          BY ZenonT(60), <3>3, <5>1, IdsAppend
        <5>3. h[n].kept = Append(acc.kept, id)
          BY Zenon, <4>1
        <5> QED BY ONLY Zenon, <5>2, <5>3
      <4>3. \A i \in 1 .. n : rows[i] \in Ids(w) \cup Ids(h[n].kept)
        BY <3>1, <3>4, <4>2 DEF id
      <4>4. Ids(h[n].window) \subseteq Ids(w) \cup Ids(h[n].kept)
        BY Zenon, <3>4, <4>1, <4>2
      <4>5. Good(n)
        BY Zenon, <4>1, <4>3, <4>4
      <4> QED BY Zenon, <2>3, <4>5
    <3> QED BY Zenon, <3>5, <3>6
  <2> QED BY Zenon, <2>4, <2>5
<1>4. L \in 0 .. L
  BY <1>0
<1>5. Good(L)
  BY Zenon, <1>3, <1>4
<1> QED BY Zenon, <1>2, <1>5

\* A window without repetitions that misses an id has room for it.
LEMMA WindowHasRoom ==
    ASSUME NEW s \in Seq(Events), IsInjective(s), NEW id \in Events, id \notin Ids(s)
    PROVE  Len(s) < Cardinality(Events)
<1> DEFINE T == Events \ {id}
<1>1. IsFiniteSet(Events)
  BY Zenon, IngestAssumption
<1>2. IsFiniteSet(T) /\ Cardinality(T) = Cardinality(Events) - 1 /\ Cardinality(Events) \in Nat
  BY <1>1, FS_RemoveElement, FS_CardinalityType
<1>3. Len(s) \in Nat /\ DOMAIN s = 1 .. Len(s) /\ \A i \in 1 .. Len(s) : s[i] \in Events
  OBVIOUS
<1>4. s \in [1 .. Len(s) -> T]
  <2>1. \A i \in 1 .. Len(s) : s[i] \in T
    BY Zenon, <1>3 DEF Ids
  <2>2. s = [i \in DOMAIN s |-> s[i]]
    OBVIOUS
  <2> HIDE DEF T
  <2> QED BY <1>3, <2>1, <2>2
<1>5. s \in Injection(1 .. Len(s), T)
  BY Zenon, <1>4 DEF Injection
<1>6. Cardinality(1 .. Len(s)) <= Cardinality(T)
  BY Zenon, <1>2, <1>5, FS_Injection
<1>7. Cardinality(1 .. Len(s)) = Len(s)
  <2>1. 1 \in Int /\ Len(s) \in Int
    BY <1>3
  <2>2. Cardinality(1 .. Len(s)) = IF 1 > Len(s) THEN 0 ELSE Len(s) - 1 + 1
    BY Zenon, <2>1, FS_Interval
  <2> QED BY <1>3, <2>2
<1> QED BY <1>2, <1>3, <1>6, <1>7

\* An id that is new keeps a window free of repetitions.
LEMMA AppendInjective ==
    ASSUME NEW S, NEW s \in Seq(S), NEW x \in S, IsInjective(s), x \notin Ids(s)
    PROVE  IsInjective(Append(s, x))
<1> DEFINE a == Append(s, x)
           l == Len(s) + 1
<1>1. /\ \A i \in DOMAIN a : (i \in DOMAIN s /\ a[i] = s[i]) \/ (i = l /\ a[i] = x)
  BY Zenon, AppendIds
<1>2. \A i \in DOMAIN s : s[i] # x
  BY Zenon DEF Ids
<1>3. \A i, j \in DOMAIN s : s[i] = s[j] => i = j
  BY Zenon DEF IsInjective
<1> HIDE DEF a, l
<1>4. \A i, j \in DOMAIN a : a[i] = a[j] => i = j
  <2> SUFFICES ASSUME NEW i \in DOMAIN a, NEW j \in DOMAIN a, a[i] = a[j] PROVE i = j
    BY Zenon
  <2> QED BY <1>1, <1>2, <1>3
<1> QED BY Zenon, <1>4 DEF IsInjective, a

\* dedup_batch with a window for every id: it forgets none, and keeps each new id once.
LEMMA RoomyContract ==
    ASSUME NEW w \in Seq(Events), NEW rows \in Seq(Events), dedup_recent \in Nat \ {0}, Roomy, IsInjective(w)
    PROVE  LET b == dedup_batch(w, rows)
           IN  /\ IsInjective(b.window) /\ IsInjective(b.kept)
               /\ Ids(b.window) = Ids(w) \cup Ids(b.kept)
               /\ Ids(b.kept) \cap Ids(w) = {}
<1> DEFINE L == Len(rows)
           h == AdmitRows(w, rows)
           Good(n) == /\ h[n] \in Admission
                      /\ IsInjective(h[n].window) /\ IsInjective(h[n].kept)
                      /\ Ids(h[n].window) = Ids(w) \cup Ids(h[n].kept)
                      /\ Ids(h[n].kept) \cap Ids(w) = {}
           Bad == {n \in 0 .. L : ~ Good(n)}
<1>0. L \in Nat /\ \A n \in 1 .. L : rows[n] \in Events
  OBVIOUS
<1>1. h[0] = [window |-> w, kept |-> <<>>] /\ \A n \in 1 .. L : h[n] = AdmitRow(h[n - 1], rows[n])
  BY Zenon, AdmitRowsFacts
<1>2. dedup_batch(w, rows) = h[L]
  BY Zenon DEF dedup_batch
<1> HIDE DEF L, h
<1>3. Bad = {}
  <2> SUFFICES ASSUME Bad # {} PROVE FALSE
    BY Zenon
  <2>1. Bad \subseteq Nat
    BY <1>0
  <2>2. PICK n \in Bad : \A m \in Bad : n <= m
    BY Zenon, <2>1, NatMin
  <2>3. n \in 0 .. L /\ ~ Good(n)
    BY Zenon, <2>2
  <2>4. CASE n = 0
    <3>1. h[0] \in Admission /\ h[0].window = w /\ h[0].kept = <<>>
      BY <1>1 DEF Admission
    <3>2. Ids(<<>>) = {} /\ IsInjective(<<>>)
      BY DEF Ids, IsInjective
    <3>3. Good(0)
      BY Zenon, <3>1, <3>2
    <3> QED BY Zenon, <2>3, <2>4, <3>3
  <2>5. CASE n # 0
    <3>1. n - 1 \in 0 .. L /\ ~(n <= n - 1) /\ n \in 1 .. L
      BY <1>0, <2>3, <2>5
    <3>2. Good(n - 1)
      BY Zenon, <2>2, <3>1
    <3> DEFINE acc == h[n - 1]
               id == rows[n]
               v == acc.window
               k == acc.kept
    <3>3. h[n] = AdmitRow(acc, id) /\ id \in Events /\ acc \in Admission
      BY Zenon, <1>0, <1>1, <3>1, <3>2
    <3>4. v \in Seq(Events) /\ k \in Seq(Events)
      BY Zenon, <3>3 DEF Admission
    <3>5. /\ IsInjective(v) /\ IsInjective(k)
          /\ Ids(v) = Ids(w) \cup Ids(k) /\ Ids(k) \cap Ids(w) = {}
      BY Zenon, <3>2
    <3> HIDE DEF acc, id
    <3>6. CASE id \in Ids(v)
      <4>1. h[n] = acc
        BY Zenon, <3>3, <3>6, AdmitRowFacts
      <4> QED BY Zenon, <2>3, <3>3, <3>5, <4>1
    <3>7. CASE id \notin Ids(v)
      <4> DEFINE g == AdmitRow(acc, id)
      <4> HIDE DEF v, k
      <4>1. Len(v) < dedup_recent
        <5>1. Len(v) < Cardinality(Events) /\ Len(v) \in Nat
          BY <3>3, <3>4, <3>5, <3>7, WindowHasRoom
        <5>2. Cardinality(Events) \in Nat
          BY Zenon, IngestAssumption, FS_CardinalityType
        <5> QED BY <5>1, <5>2 DEF Roomy
      <4>2. g \in Admission /\ g.kept = Append(k, id) /\ g.window = Append(v, id)
        BY Zenon, <3>3, <3>7, <4>1, AdmitRowFacts DEF v, k
      <4>3. h[n] = g
        BY Zenon, <3>3
      <4> HIDE DEF g
      <4>4. id \notin Ids(k)
        BY Zenon, <3>5, <3>7
      <4>5. IsInjective(Append(v, id)) /\ Ids(Append(v, id)) = Ids(v) \cup {id}
        <5>1. IsInjective(Append(v, id))
          BY Zenon, <3>3, <3>4, <3>5, <3>7, AppendInjective
        <5>2. Ids(Append(v, id)) = Ids(v) \cup {id}
          BY ZenonT(60), <3>3, <3>4, IdsAppend
        <5> QED BY Zenon, <5>1, <5>2
      <4>6. IsInjective(Append(k, id)) /\ Ids(Append(k, id)) = Ids(k) \cup {id}
        <5>1. IsInjective(Append(k, id))
          BY Zenon, <3>3, <3>4, <3>5, <4>4, AppendInjective
        <5>2. Ids(Append(k, id)) = Ids(k) \cup {id}
          BY ZenonT(60), <3>3, <3>4, IdsAppend
        <5> QED BY Zenon, <5>1, <5>2
      <4>7. /\ IsInjective(g.window) /\ Ids(g.window) = Ids(v) \cup {id}
            /\ IsInjective(g.kept) /\ Ids(g.kept) = Ids(k) \cup {id}
        BY Zenon, <4>2, <4>5, <4>6
      <4>8. Ids(g.window) = Ids(w) \cup Ids(g.kept) /\ Ids(g.kept) \cap Ids(w) = {}
        BY ZenonT(60), <3>5, <3>7, <4>7
      <4>9. Good(n)
        BY Zenon, <4>2, <4>3, <4>7, <4>8
      <4> QED BY Zenon, <2>3, <4>9
    <3> QED BY Zenon, <3>6, <3>7
  <2> QED BY Zenon, <2>4, <2>5
<1>4. L \in 0 .. L
  BY <1>0
<1>5. Good(L)
  BY Zenon, <1>3, <1>4
<1> QED BY Zenon, <1>2, <1>5

\* The copies of an id in a batch.
Copies(s, e) == Cardinality({i \in DOMAIN s : s[i] = e})

\* A batch has copies of its own ids only, and one of each without repetitions.
LEMMA CopiesFacts ==
    ASSUME NEW s \in Seq(Events), NEW e
    PROVE  /\ Copies(s, e) \in Nat
           /\ e \in Ids(s) => Copies(s, e) > 0
           /\ e \notin Ids(s) => Copies(s, e) = 0
           /\ IsInjective(s) => Copies(s, e) <= 1
<1> DEFINE C == {i \in DOMAIN s : s[i] = e}
<1>1. DOMAIN s = 1 .. Len(s) /\ 1 \in Int /\ Len(s) \in Int
  OBVIOUS
<1>2. IsFiniteSet(1 .. Len(s))
  BY <1>1, FS_Interval
<1>3. C \in SUBSET (1 .. Len(s))
  BY Zenon, <1>1
<1>4. C = {} <=> e \notin Ids(s)
  BY Zenon DEF Ids
<1>5. IsInjective(s) => C = {} \/ \E i : C = {i}
  BY Zenon DEF IsInjective
<1> HIDE DEF C
<1>6. IsFiniteSet(C)
  BY Zenon, <1>2, <1>3, FS_Subset
<1>7. Cardinality(C) \in Nat /\ (Cardinality(C) = 0 <=> C = {})
  BY Zenon, <1>6, FS_EmptySet, FS_CardinalityType
<1>8. IsInjective(s) => Cardinality(C) = 0 \/ Cardinality(C) = 1
  BY Zenon, <1>5, <1>7, FS_Singleton
<1>9. Copies(s, e) = Cardinality(C)
  BY Zenon DEF Copies, C
<1> QED BY <1>4, <1>7, <1>8, <1>9

-----------------------------------------------------------------------------

\* The pipeline's own command, the streams' and the pushes' are three things.
LEMMA RequestKinds ==
    /\ Loop \in Sender /\ Sender \cap Piped = {} /\ Loop \notin AnyRequest
    /\ \A p \in Pushes : \A n \in Nat \ {0} :
          /\ <<p, n>> \in AnyRequest /\ <<p, n>>[1] = p /\ <<p, n>>[2] = n
          /\ Via[p] = "flight" => <<p, n>> \in Sender \ {Loop}
          /\ Via[p] # "flight" => <<p, n>> \in Piped
    /\ \A r \in Sender \ {Loop} : r \in AnyRequest /\ Via[r[1]] = "flight"
    /\ \A r \in Piped : r \in AnyRequest /\ Via[r[1]] # "flight"
    /\ \A r \in AnyRequest : r[1] \in Pushes /\ r[2] \in Nat \ {0} /\ r = <<r[1], r[2]>>
<1>1. /\ \A r \in AnyRequest : r[1] \in Pushes /\ r[2] \in Nat \ {0} /\ r = <<r[1], r[2]>>
      /\ \A p \in Pushes : \A n \in Nat \ {0} : <<p, n>> \in AnyRequest /\ <<p, n>>[1] = p /\ <<p, n>>[2] = n
  BY DEF AnyRequest
<1>2. Loop[2] = 0 /\ 0 \notin Nat \ {0}
  BY DEF Loop
<1>3. Loop \notin AnyRequest
  BY Zenon, <1>1, <1>2
<1>4. /\ Loop \in Sender /\ Sender \cap Piped = {}
      /\ \A r \in Sender \ {Loop} : r \in AnyRequest /\ Via[r[1]] = "flight"
      /\ \A r \in Piped : r \in AnyRequest /\ Via[r[1]] # "flight"
  BY Zenon, <1>3 DEF Sender, Piped
<1>5. \A p \in Pushes : \A n \in Nat \ {0} :
          /\ Via[p] = "flight" => <<p, n>> \in Sender \ {Loop}
          /\ Via[p] # "flight" => <<p, n>> \in Piped
  <2> SUFFICES ASSUME NEW p \in Pushes, NEW n \in Nat \ {0}
               PROVE  /\ Via[p] = "flight" => <<p, n>> \in Sender \ {Loop}
                      /\ Via[p] # "flight" => <<p, n>> \in Piped
    BY Zenon
  <2> DEFINE r == <<p, n>>
  <2>1. r \in AnyRequest /\ r[1] = p
    BY Zenon, <1>1
  <2> HIDE DEF r
  <2>2. (Via[p] = "flight" => r \in Sender \ {Loop}) /\ (Via[p] # "flight" => r \in Piped)
    BY <2>1, <1>3 DEF Sender, Piped
  <2> QED BY Zenon, <2>2 DEF r
<1> QED BY Zenon, <1>1, <1>3, <1>4, <1>5

\* What nothing is appended by changes neither the table nor what is safe.
LEMMA SafeFrame ==
    ASSUME UNCHANGED <<dedup_recent, stored, failed>>
    PROVE  Safe' = Safe /\ Stored' = Stored
  BY Zenon DEF Safe, Stored

\* The window, the acknowledgements and the answers say nothing of the rest.
LEMMA WindowFrame ==
    ASSUME WindowInv, UNCHANGED <<dedup_recent, window, stored, failed>>
    PROVE  WindowInv'
<1>1. Stored' = Stored
  BY Zenon, SafeFrame
<1> QED BY Zenon, <1>1 DEF WindowInv

\* No new acknowledgement is given.
LEMMA AckedFrame ==
    ASSUME AckedUnlessForgotten, Safe \subseteq Safe',
           \A p \in Pushes : sent'[p] = "acked" => sent[p] = "acked" \/ Ids(Rows[p]) \subseteq Safe'
    PROVE  AckedUnlessForgotten'
<1>1. \A p \in Pushes : sent[p] = "acked" => Ids(Rows[p]) \subseteq Safe
  BY Zenon DEF AckedUnlessForgotten, Safe
<1>2. \A p \in Pushes : sent'[p] = "acked" => Ids(Rows[p]) \subseteq Safe'
  BY Zenon, <1>1
<1> QED BY Zenon, <1>2 DEF AckedUnlessForgotten, Safe

\* No new answer is given.
LEMMA AnswerFrame ==
    ASSUME AnswerInv, Safe \subseteq Safe',
           \A r \in Piped : <<r, "ok">> \in answers' => <<r, "ok">> \in answers \/ Ids(Rows[r[1]]) \subseteq Safe'
    PROVE  AnswerInv'
  BY Zenon DEF AnswerInv

\* Answers that are taken away, while the commands stay.
LEMMA SingleFrame ==
    ASSUME SingleRequest, IngestTypes, cmds' = cmds, answers' \subseteq answers,
           \A p \in Pushes : attempt'[p] \in Nat /\ attempt[p] <= attempt'[p],
           \A p \in Pushes : sent'[p] = "waiting" => attempt'[p] # 0
    PROVE  SingleRequest'
<1>1. \A r : (Commanded(r)' <=> Commanded(r)) /\ (Answered(r)' => Answered(r))
  BY Zenon DEF Commanded, Answered
<1>2. \A i, j \in DOMAIN cmds' : cmds'[i].from = cmds'[j].from => i = j
  BY Zenon DEF SingleRequest
<1>3. \A r \in Sender : ~ (Commanded(r)' /\ Answered(r)')
  BY Zenon, <1>1 DEF SingleRequest
<1>4. \A r \in Sender : \A o, u \in Outcome : <<r, o>> \in answers' /\ <<r, u>> \in answers' => o = u
  BY Zenon DEF SingleRequest
<1>5. \A r \in Sender \ {Loop} : (Commanded(r)' \/ Answered(r)') => r[2] <= attempt'[r[1]]
  <2> SUFFICES ASSUME NEW r \in Sender \ {Loop}, Commanded(r)' \/ Answered(r)' PROVE r[2] <= attempt'[r[1]]
    BY Zenon
  <2>1. r[2] <= attempt[r[1]]
    BY Zenon, <1>1 DEF SingleRequest
  <2>2. r[1] \in Pushes /\ r[2] \in Nat
    BY RequestKinds
  <2>3. attempt[r[1]] \in Nat /\ attempt'[r[1]] \in Nat /\ attempt[r[1]] <= attempt'[r[1]]
    BY Zenon, <2>2 DEF IngestTypes
  <2> QED BY <2>1, <2>2, <2>3
<1> QED BY Zenon, <1>2, <1>3, <1>4, <1>5 DEF SingleRequest

\* The pipeline rests, and its answer is not touched.
LEMMA GroupFrame ==
    ASSUME GroupInv, UNCHANGED <<held, events, pipe, cmds>>, Safe \subseteq Safe',
           \A o : <<Loop, o>> \in answers' => <<Loop, o>> \in answers
    PROVE  GroupInv'
<1>1. (Commanded(Loop)' <=> Commanded(Loop)) /\ (Answered(Loop)' => Answered(Loop))
  BY Zenon DEF Commanded, Answered
<1> QED BY Zenon, <1>1 DEF GroupInv

\* A stream that is not the one at work.
LEMMA StreamFrame ==
    ASSUME NEW p, Streamed(p), place'[p] = place[p], attempt'[p] = attempt[p], Safe \subseteq Safe',
           \A i \in DOMAIN cmds' : cmds'[i].from = Request(p) => \E j \in DOMAIN cmds : cmds'[i] = cmds[j],
           <<Request(p), "ok">> \in answers' => <<Request(p), "ok">> \in answers
    PROVE  Streamed(p)'
<1>1. Request(p)' = Request(p)
  BY Zenon DEF Request
<1>2. \A i \in DOMAIN cmds' : cmds'[i].from = Request(p) => cmds'[i].rows = <<Rows[p][place[p]]>>
  BY Zenon DEF Streamed
<1> QED BY Zenon, <1>1, <1>2 DEF Streamed

\* A request of the pipeline's pushes is made.
LEMMA EnqueueStep ==
    ASSUME IngestInv, NEW p \in Pushes, ingest_events(p) \/ run_syslog(p)
    PROVE  IngestInv'
<1> USE DEF IngestInv
<1>0. PICK next \in {"waiting", "gone"} : Via[p] # "flight" /\ Enqueue(p, next)
  <2>1. "native" # "flight" /\ "syslog" # "flight"
    OBVIOUS
  <2> QED BY Zenon, <2>1 DEF ingest_events, run_syslog
<1>1. /\ sent[p] = "idle" /\ attempt' = [attempt EXCEPT ![p] = @ + 1]
      /\ chan' = Append(chan, <<p, attempt'[p]>>) /\ sent' = [sent EXCEPT ![p] = next]
      /\ UNCHANGED <<dedup_recent, place, pipe, held, events, outcome, cmds, window, answers, stored, failed, restarts>>
  BY Zenon, <1>0 DEF Enqueue, Send, pipeline, actor, table
<1>2. \A q \in Pushes : attempt[q] \in Nat /\ sent[q] \in {"idle", "waiting", "gone", "acked"}
  BY Zenon DEF IngestTypes
<1>3. /\ attempt' \in [Pushes -> Nat] /\ sent' \in [Pushes -> {"idle", "waiting", "gone", "acked"}]
      /\ attempt'[p] \in Nat \ {0} /\ attempt[p] <= attempt'[p]
      /\ \A q \in Pushes : q # p => attempt'[q] = attempt[q] /\ sent'[q] = sent[q]
      /\ sent'[p] = next
  BY <1>0, <1>1, <1>2 DEF IngestTypes
<1>4. <<p, attempt'[p]>> \in Piped
  BY Zenon, <1>0, <1>3, RequestKinds
<1>5. chan' \in Seq(Piped)
  <2>1. chan \in Seq(Piped)
    BY Zenon DEF IngestTypes
  <2> QED BY Zenon, <1>1, <1>4, <2>1, IdsAppend
<1>6. IngestTypes'
  BY Zenon, <1>1, <1>3, <1>5 DEF IngestTypes
<1>7. Safe' = Safe
  BY Zenon, <1>1, SafeFrame
<1>8. WindowInv'
  BY Zenon, <1>1, WindowFrame
<1>9. \A q \in Pushes : attempt'[q] \in Nat /\ attempt[q] <= attempt'[q]
  BY <1>2, <1>3
<1>10. \A q \in Pushes : sent'[q] = "waiting" => attempt'[q] # 0
  <2>1. \A q \in Pushes : sent[q] = "waiting" => attempt[q] # 0
    BY Zenon DEF SingleRequest
  <2>2. attempt'[p] # 0
    BY <1>3
  <2> QED BY Zenon, <1>3, <2>1, <2>2
<1>11. SingleRequest'
  BY Zenon, <1>1, <1>9, <1>10, SingleFrame
<1>12. GroupInv'
  BY Zenon, <1>1, <1>7, GroupFrame
<1>13. StreamInv'
  <2> SUFFICES ASSUME NEW q \in Pushes, Via[q] = "flight", sent'[q] = "waiting" PROVE Streamed(q)'
    BY Zenon DEF StreamInv
  <2>1. q # p
    BY Zenon, <1>0
  <2>2. Streamed(q)
    BY Zenon, <1>3, <2>1 DEF StreamInv
  <2> QED BY Zenon, <1>1, <1>3, <1>7, <2>1, <2>2, StreamFrame
<1>14. AnswerInv'
  BY Zenon, <1>1, <1>7, AnswerFrame
<1>15. AckedUnlessForgotten'
  <2>1. next # "acked"
    BY <1>0
  <2> QED BY Zenon, <1>3, <1>7, <2>1, AckedFrame
<1> QED BY Zenon, <1>6, <1>8, <1>11, <1>12, <1>13, <1>14, <1>15

\* Answers are taken, and streams end: the requests that go on are as they were.
LEMMA TakenStep ==
    ASSUME IngestInv, NEW p \in Pushes,
           UNCHANGED <<dedup_recent, attempt, chan, pipe, held, events, outcome, cmds, window, stored, failed, restarts, place>>,
           answers' \subseteq answers,
           NEW s \in {"idle", "acked"}, sent' = [sent EXCEPT ![p] = s],
           s = "acked" => Ids(Rows[p]) \subseteq Safe
    PROVE  IngestInv'
<1> USE DEF IngestInv
<1>1. \A q \in Pushes : attempt[q] \in Nat /\ sent[q] \in {"idle", "waiting", "gone", "acked"}
  BY Zenon DEF IngestTypes
<1>2. /\ sent' \in [Pushes -> {"idle", "waiting", "gone", "acked"}]
      /\ \A q \in Pushes : q # p => sent'[q] = sent[q]
      /\ sent'[p] = s /\ s # "waiting"
  BY <1>1 DEF IngestTypes
<1>3. Safe' = Safe
  BY Zenon, SafeFrame
<1>4. IngestTypes'
  <2>1. answers' \subseteq (Sender \cup Piped) \X Outcome
    BY Zenon DEF IngestTypes
  <2> QED BY Zenon, <1>2, <2>1 DEF IngestTypes
<1>5. WindowInv'
  BY Zenon, WindowFrame
<1>6. SingleRequest'
  <2>1. \A q \in Pushes : attempt'[q] \in Nat /\ attempt[q] <= attempt'[q]
    BY <1>1
  <2>2. \A q \in Pushes : sent'[q] = "waiting" => attempt'[q] # 0
    BY Zenon, <1>2 DEF SingleRequest
  <2> QED BY Zenon, <2>1, <2>2, SingleFrame
<1>7. GroupInv'
  BY Zenon, <1>3, GroupFrame
<1>8. StreamInv'
  <2> SUFFICES ASSUME NEW q \in Pushes, Via[q] = "flight", sent'[q] = "waiting" PROVE Streamed(q)'
    BY Zenon DEF StreamInv
  <2>1. q # p
    BY Zenon, <1>2
  <2>2. Streamed(q)
    BY Zenon, <1>2, <2>1 DEF StreamInv
  <2> QED BY Zenon, <1>3, <2>2, StreamFrame
<1>9. AnswerInv'
  BY Zenon, <1>3, AnswerFrame
<1>10. AckedUnlessForgotten'
  BY Zenon, <1>2, <1>3, AckedFrame
<1> QED BY Zenon, <1>4, <1>5, <1>6, <1>7, <1>8, <1>9, <1>10

\* The sender of a push reads the answer to it.
LEMMA RespondStep ==
    ASSUME IngestInv, NEW p \in Pushes, Respond(p)
    PROVE  IngestInv'
<1>0. /\ sent[p] = "waiting" /\ Via[p] = "native"
      /\ UNCHANGED <<dedup_recent, attempt, chan, pipe, held, events, outcome, cmds, window, stored, failed, restarts, place>>
  BY Zenon DEF Respond, pipeline, actor, table, bounds
<1>1. PICK o \in {"ok", "err"} :
         /\ <<Request(p), o>> \in answers /\ answers' = answers \ {<<Request(p), o>>}
         /\ sent' = [sent EXCEPT ![p] = IF o = "ok" THEN "acked" ELSE "idle"]
  BY Zenon DEF Respond
<1> DEFINE s == IF o = "ok" THEN "acked" ELSE "idle"
<1>2. s \in {"idle", "acked"} /\ (s = "acked" => o = "ok")
  BY <1>1
<1>3. s = "acked" => Ids(Rows[p]) \subseteq Safe
  <2> SUFFICES ASSUME s = "acked" PROVE Ids(Rows[p]) \subseteq Safe
    BY Zenon
  <2>1. attempt[p] \in Nat \ {0}
    BY <1>0 DEF IngestInv, IngestTypes, SingleRequest
  <2>2. Via[p] # "flight"
    BY <1>0
  <2>3. Request(p) \in Piped /\ Request(p)[1] = p
    BY Zenon, <2>1, <2>2, RequestKinds DEF Request
  <2>4. <<Request(p), "ok">> \in answers
    BY Zenon, <1>1, <1>2
  <2> QED BY Zenon, <2>3, <2>4 DEF IngestInv, AnswerInv
<1>4. answers' \subseteq answers /\ sent' = [sent EXCEPT ![p] = s]
  BY Zenon, <1>1
<1> HIDE DEF s
<1> QED BY Zenon, <1>0, <1>2, <1>3, <1>4, TakenStep

\* A sender that gives up forgets its answer; its next request has a new number.
LEMMA GiveUpStep ==
    ASSUME IngestInv, NEW p \in Pushes, GiveUp(p)
    PROVE  IngestInv'
<1>0. /\ UNCHANGED <<dedup_recent, attempt, chan, pipe, held, events, outcome, cmds, window, stored, failed, restarts, place>>
      /\ sent' = [sent EXCEPT ![p] = "idle"] /\ answers' \subseteq answers
  BY Zenon DEF GiveUp, pipeline, actor, table, bounds
<1>1. "idle" \in {"idle", "acked"} /\ "idle" # "acked"
  OBVIOUS
<1> QED BY Zenon, <1>0, <1>1, TakenStep

\* A stream sends a row to the actor: nothing of its request is outstanding then.
LEMMA PutStep ==
    ASSUME IngestInv, NEW p \in Pushes, Via[p] = "flight",
           NEW n \in Nat \ {0}, attempt[p] <= n, attempt' \in [Pushes -> Nat], attempt'[p] = n,
           NEW k \in DOMAIN Rows[p], place' \in [Pushes -> Nat], place'[p] = k,
           sent' \in [Pushes -> {"idle", "waiting", "gone", "acked"}], sent'[p] = "waiting",
           \A q \in Pushes : q # p => attempt'[q] = attempt[q] /\ place'[q] = place[q] /\ sent'[q] = sent[q],
           cmds' = Append(cmds, [from |-> <<p, n>>, rows |-> <<Rows[p][k]>>]),
           answers' \subseteq answers, ~ Commanded(<<p, n>>), ~ Answered(<<p, n>>)',
           \A m \in DOMAIN Rows[p] : m < k => Rows[p][m] \in Safe,
           UNCHANGED <<dedup_recent, chan, pipe, held, events, outcome, window, stored, failed, restarts>>
    PROVE  IngestInv'
<1> USE DEF IngestInv
<1> DEFINE r0 == <<p, n>>
           c0 == [from |-> r0, rows |-> <<Rows[p][k]>>]
           l == Len(cmds) + 1
           Command == [from : Sender, rows : Seq(Events)]
<1>1. r0 \in Sender \ {Loop} /\ r0[1] = p /\ r0[2] = n
  BY Zenon, RequestKinds
<1>2. c0.from = r0 /\ c0.rows = <<Rows[p][k]>> /\ c0 \in Command
  <2>1. Rows[p] \in Seq(Events)
    BY IngestAssumption
  <2>2. Rows[p][k] \in Events
    BY <2>1
  <2> HIDE DEF r0
  <2> QED BY <1>1, <2>2
<1>3. cmds \in Seq(Command)
  BY Zenon DEF IngestTypes
<1>4. cmds' = Append(cmds, c0)
  BY Zenon
<1> HIDE DEF c0, r0, Command
<1>5. /\ cmds' \in Seq(Command)
      /\ \A i \in DOMAIN cmds' : (i \in DOMAIN cmds /\ cmds'[i] = cmds[i]) \/ (i = l /\ cmds'[i] = c0)
      /\ \A i \in DOMAIN cmds : i \in DOMAIN cmds' /\ cmds'[i] = cmds[i]
      /\ l \in DOMAIN cmds' /\ cmds'[l] = c0
  BY <1>2, <1>3, <1>4, AppendAt
<1> HIDE DEF l
<1>6. IngestTypes'
  <2>1. answers' \subseteq (Sender \cup Piped) \X Outcome
    BY Zenon DEF IngestTypes
  <2> QED BY Zenon, <1>5, <2>1 DEF IngestTypes, Command
<1>7. Safe' = Safe
  BY Zenon, SafeFrame
<1>8. WindowInv'
  BY Zenon, WindowFrame
<1>9. /\ \A r : Commanded(r)' => Commanded(r) \/ r = r0
      /\ \A r : Answered(r)' => Answered(r)
      /\ ~ Commanded(r0) /\ ~ Answered(r0)'
  <2>1. \A r : Commanded(r)' => Commanded(r) \/ r = r0
    BY ZenonT(60), <1>2, <1>5 DEF Commanded
  <2>2. \A r : Answered(r)' => Answered(r)
    BY Zenon DEF Answered
  <2> QED BY Zenon, <2>1, <2>2 DEF r0
<1>10. SingleRequest'
  <2>1. \A q \in Pushes : sent'[q] = "waiting" => attempt'[q] # 0
    <3>1. n # 0
      OBVIOUS
    <3> QED BY Zenon, <3>1 DEF SingleRequest
  <2>2. \A i, j \in DOMAIN cmds' : cmds'[i].from = cmds'[j].from => i = j
    <3>1. \A i \in DOMAIN cmds : cmds[i].from # r0
      BY Zenon, <1>9 DEF Commanded
    <3>2. \A i, j \in DOMAIN cmds : cmds[i].from = cmds[j].from => i = j
      BY Zenon DEF SingleRequest
    <3> SUFFICES ASSUME NEW i \in DOMAIN cmds', NEW j \in DOMAIN cmds', cmds'[i].from = cmds'[j].from PROVE i = j
      BY Zenon
    <3>3. \/ i \in DOMAIN cmds /\ cmds'[i] = cmds[i]
          \/ i = l /\ cmds'[i].from = r0
      BY Zenon, <1>2, <1>5
    <3>4. \/ j \in DOMAIN cmds /\ cmds'[j] = cmds[j]
          \/ j = l /\ cmds'[j].from = r0
      BY Zenon, <1>2, <1>5
    <3> QED BY ZenonT(60), <3>1, <3>2, <3>3, <3>4
  <2>3. \A r \in Sender : ~ (Commanded(r)' /\ Answered(r)')
    BY Zenon, <1>9 DEF SingleRequest
  <2>4. \A r \in Sender : \A o, u \in Outcome : <<r, o>> \in answers' /\ <<r, u>> \in answers' => o = u
    BY Zenon DEF SingleRequest
  <2>5. \A r \in Sender \ {Loop} : (Commanded(r)' \/ Answered(r)') => r[2] <= attempt'[r[1]]
    <3> SUFFICES ASSUME NEW r \in Sender \ {Loop}, Commanded(r)' \/ Answered(r)' PROVE r[2] <= attempt'[r[1]]
      BY Zenon
    <3>1. CASE r = r0
      BY <1>1, <3>1
    <3>2. CASE r # r0
      <4>1. r[2] <= attempt[r[1]]
        BY Zenon, <1>9, <3>2 DEF SingleRequest
      <4>2. r[1] \in Pushes /\ r[2] \in Nat
        BY RequestKinds
      <4>3. attempt[r[1]] \in Nat /\ attempt'[r[1]] \in Nat
        BY Zenon, <4>2 DEF IngestTypes
      <4>4. CASE r[1] = p
        BY <4>1, <4>2, <4>3, <4>4
      <4>5. CASE r[1] # p
        BY Zenon, <4>1, <4>2, <4>5
      <4> QED BY Zenon, <4>4, <4>5
    <3> QED BY Zenon, <3>1, <3>2
  <2> QED BY Zenon, <2>1, <2>2, <2>3, <2>4, <2>5 DEF SingleRequest
<1>11. GroupInv'
  <2>1. r0 # Loop
    BY Zenon, <1>1
  <2>2. (Commanded(Loop)' => Commanded(Loop)) /\ (Answered(Loop)' => Answered(Loop))
    BY Zenon, <1>9, <2>1
  <2>3. \A i \in DOMAIN cmds' : cmds'[i].from = Loop => cmds'[i].rows = events
    <3>1. \A i \in DOMAIN cmds : cmds[i].from = Loop => cmds[i].rows = events
      BY Zenon DEF GroupInv
    <3> SUFFICES ASSUME NEW i \in DOMAIN cmds', cmds'[i].from = Loop PROVE cmds'[i].rows = events
      BY Zenon
    <3>2. cmds'[i] # c0
      BY Zenon, <1>2, <2>1
    <3> QED BY ZenonT(60), <1>5, <3>1, <3>2
  <2> QED BY Zenon, <1>7, <2>2, <2>3 DEF GroupInv
<1>12. StreamInv'
  <2> SUFFICES ASSUME NEW q \in Pushes, Via[q] = "flight", sent'[q] = "waiting" PROVE Streamed(q)'
    BY Zenon DEF StreamInv
  <2>1. CASE q = p
    <3>1. Request(p)' = r0
      BY Zenon DEF Request, r0
    <3>2. \A i \in DOMAIN cmds' : cmds'[i].from = r0 => cmds'[i] = c0
      <4>1. \A i \in DOMAIN cmds : cmds[i].from # r0
        BY Zenon, <1>9 DEF Commanded
      <4> SUFFICES ASSUME NEW i \in DOMAIN cmds', cmds'[i].from = r0 PROVE cmds'[i] = c0
        BY Zenon
      <4> QED BY Zenon, <1>5, <4>1
    <3>3. <<r0, "ok">> \notin answers'
      BY Zenon, <1>9 DEF Answered, Outcome
    <3>4. Streamed(p)'
      BY ZenonT(60), <1>2, <1>7, <3>1, <3>2, <3>3 DEF Streamed
    <3> QED BY Zenon, <2>1, <3>4
  <2>2. CASE q # p
    <3>1. Streamed(q)
      BY Zenon, <2>2 DEF StreamInv
    <3>2. Request(q) # r0
      <4>1. Request(q)[1] = q
        BY DEF Request
      <4> QED BY Zenon, <1>1, <2>2, <4>1
    <3>3. \A i \in DOMAIN cmds' : cmds'[i].from = Request(q) => \E j \in DOMAIN cmds : cmds'[i] = cmds[j]
      BY Zenon, <1>2, <1>5, <3>2
    <3> QED BY Zenon, <1>7, <2>2, <3>1, <3>3, StreamFrame
  <2> QED BY Zenon, <2>1, <2>2
<1>13. AnswerInv'
  BY Zenon, <1>7, AnswerFrame
<1>14. AckedUnlessForgotten'
  <2>1. "waiting" # "acked"
    OBVIOUS
  <2> QED BY Zenon, <1>7, <2>1, AckedFrame
<1> QED BY Zenon, <1>6, <1>8, <1>10, <1>11, <1>12, <1>13, <1>14

\* Every push has a first row.
LEMMA PushRows ==
    ASSUME NEW p \in Pushes
    PROVE  Rows[p] \in Seq(Events) /\ 1 \in DOMAIN Rows[p] /\ DOMAIN Rows[p] = 1 .. Len(Rows[p]) /\ Len(Rows[p]) \in Nat
<1>1. Rows[p] \in Seq(Events) /\ Rows[p] # <<>>
  BY IngestAssumption
<1> QED BY <1>1

\* A Flight stream sends its first row.
LEMMA DoPutStep ==
    ASSUME IngestInv, NEW p \in Pushes, do_put(p)
    PROVE  IngestInv'
<1>0. PICK n : n = attempt[p] + 1
  BY Zenon
<1>1. /\ Via[p] = "flight" /\ attempt' = [attempt EXCEPT ![p] = n]
      /\ place' = [place EXCEPT ![p] = 1] /\ sent' = [sent EXCEPT ![p] = "waiting"]
      /\ cmds' = Append(cmds, [from |-> <<p, attempt'[p]>>, rows |-> <<Rows[p][1]>>])
      /\ UNCHANGED <<dedup_recent, chan, pipe, held, events, outcome, window, answers, stored, failed, restarts>>
  BY Zenon, <1>0 DEF do_put, Send, Put, pipeline, table
<1>2. attempt \in [Pushes -> Nat] /\ place \in [Pushes -> Nat] /\ sent \in [Pushes -> {"idle", "waiting", "gone", "acked"}]
  BY Zenon DEF IngestInv, IngestTypes
<1>3. n \in Nat \ {0} /\ attempt[p] <= n /\ ~ (n <= attempt[p])
  BY <1>0, <1>2
<1>4. /\ attempt' \in [Pushes -> Nat] /\ attempt'[p] = n
      /\ place' \in [Pushes -> Nat] /\ place'[p] = 1
      /\ sent' \in [Pushes -> {"idle", "waiting", "gone", "acked"}] /\ sent'[p] = "waiting"
      /\ \A q \in Pushes : q # p => attempt'[q] = attempt[q] /\ place'[q] = place[q] /\ sent'[q] = sent[q]
  BY <1>1, <1>2, <1>3
<1>5. ~ Commanded(<<p, n>>) /\ ~ Answered(<<p, n>>)
  <2> DEFINE r == <<p, n>>
  <2>1. r \in Sender \ {Loop} /\ r[1] = p /\ r[2] = n
    BY Zenon, <1>1, <1>3, RequestKinds
  <2> HIDE DEF r
  <2>2. ~ Commanded(r) /\ ~ Answered(r)
    BY Zenon, <1>3, <2>1 DEF IngestInv, SingleRequest
  <2> QED BY Zenon, <2>2 DEF r
<1>6. ~ Answered(<<p, n>>)'
  BY Zenon, <1>1, <1>5 DEF Answered
<1>7. 1 \in DOMAIN Rows[p] /\ \A m \in DOMAIN Rows[p] : m < 1 => Rows[p][m] \in Safe
  BY PushRows
<1>8. cmds' = Append(cmds, [from |-> <<p, n>>, rows |-> <<Rows[p][1]>>]) /\ answers' \subseteq answers
  BY Zenon, <1>1, <1>4
<1> QED BY Zenon, <1>1, <1>3, <1>4, <1>5, <1>6, <1>7, <1>8, PutStep

\* An answered row is safe: the stream goes on to the next, ends, or starts over.
LEMMA PutReplyStep ==
    ASSUME IngestInv, NEW p \in Pushes, PutReply(p)
    PROVE  IngestInv'
<1>0. /\ sent[p] = "waiting" /\ Via[p] = "flight"
      /\ UNCHANGED <<dedup_recent, attempt, chan, pipe, held, events, outcome, window, stored, failed, restarts>>
  BY Zenon DEF PutReply, pipeline, table, bounds
<1>1. PICK o \in {"ok", "err"} :
          /\ <<Request(p), o>> \in answers
          /\ answers' = answers \ {<<Request(p), o>>}
          /\ \/ /\ o = "err" \/ place[p] < Len(Rows[p])
                /\ sent' = [sent EXCEPT ![p] = "idle"] /\ UNCHANGED <<place, cmds>>
             \/ /\ o = "ok" /\ place[p] < Len(Rows[p])
                /\ Put(p, attempt[p], place[p] + 1)
                /\ place' = [place EXCEPT ![p] = @ + 1] /\ UNCHANGED sent
             \/ /\ o = "ok" /\ place[p] = Len(Rows[p])
                /\ sent' = [sent EXCEPT ![p] = "acked"] /\ UNCHANGED <<place, cmds>>
  BY Zenon DEF PutReply
<1>2. answers' \subseteq answers
  BY Zenon, <1>1
<1>3. attempt \in [Pushes -> Nat] /\ place \in [Pushes -> Nat] /\ sent \in [Pushes -> {"idle", "waiting", "gone", "acked"}]
  BY Zenon DEF IngestInv, IngestTypes
<1>4. attempt[p] \in Nat \ {0}
  BY <1>0, <1>3 DEF IngestInv, SingleRequest
<1>5. Streamed(p)
  BY Zenon, <1>0 DEF IngestInv, StreamInv
<1>6. o = "ok" => Rows[p][place[p]] \in Safe
  BY Zenon, <1>1, <1>5 DEF Streamed
<1>7. CASE sent' = [sent EXCEPT ![p] = "idle"] /\ UNCHANGED <<place, cmds>>
  <2>1. "idle" \in {"idle", "acked"} /\ "idle" # "acked"
    OBVIOUS
  <2> QED BY Zenon, <1>0, <1>2, <1>7, <2>1, TakenStep
<1>8. CASE /\ o = "ok" /\ place[p] < Len(Rows[p])
           /\ Put(p, attempt[p], place[p] + 1)
           /\ place' = [place EXCEPT ![p] = @ + 1] /\ UNCHANGED sent
  <2>0. PICK n, k : n = attempt[p] /\ k = place[p] + 1
    BY Zenon
  <2> DEFINE r == <<p, n>>
  <2>1. r \in Sender /\ Request(p) = r /\ n \in Nat \ {0}
    BY Zenon, <1>0, <1>4, <2>0, RequestKinds DEF Request
  <2>2. k \in DOMAIN Rows[p] /\ \A m \in DOMAIN Rows[p] : m < k => (m < place[p] \/ m = place[p])
    BY <1>3, <1>8, <2>0, PushRows
  <2>3. \A m \in DOMAIN Rows[p] : m < k => Rows[p][m] \in Safe
    BY Zenon, <1>5, <1>6, <1>8, <2>2 DEF Streamed
  <2>4. /\ place' \in [Pushes -> Nat] /\ place'[p] = k
        /\ \A q \in Pushes : q # p => place'[q] = place[q]
    BY <1>3, <1>8, <2>0
  <2>5. cmds' = Append(cmds, [from |-> <<p, n>>, rows |-> <<Rows[p][k]>>])
    BY Zenon, <1>8, <2>0 DEF Put
  <2>6. ~ Commanded(r) /\ ~ Answered(r)'
    <3> HIDE DEF r
    <3>1. <<r, o>> \in answers /\ answers' = answers \ {<<r, o>>} /\ o \in Outcome
      BY Zenon, <1>1, <2>1 DEF Outcome
    <3>2. Answered(r)
      BY Zenon, <3>1 DEF Answered
    <3>3. ~ Commanded(r)
      BY Zenon, <2>1, <3>2 DEF IngestInv, SingleRequest
    <3>4. \A u \in Outcome : <<r, u>> \in answers => u = o
      BY Zenon, <2>1, <3>1 DEF IngestInv, SingleRequest
    <3>5. ~ Answered(r)'
      BY Zenon, <3>1, <3>4 DEF Answered
    <3> QED BY Zenon, <3>3, <3>5
  <2>7. attempt[p] <= n /\ attempt'[p] = n /\ attempt' \in [Pushes -> Nat]
    BY <1>0, <1>3, <1>4, <2>0
  <2>8. /\ sent' \in [Pushes -> {"idle", "waiting", "gone", "acked"}] /\ sent'[p] = "waiting"
        /\ \A q \in Pushes : q # p => attempt'[q] = attempt[q] /\ place'[q] = place[q] /\ sent'[q] = sent[q]
    BY Zenon, <1>0, <1>3, <1>8, <2>4
  <2> QED BY Zenon, <1>0, <1>2, <2>1, <2>2, <2>3, <2>4, <2>5, <2>6, <2>7, <2>8, PutStep
<1>9. CASE o = "ok" /\ place[p] = Len(Rows[p]) /\ sent' = [sent EXCEPT ![p] = "acked"] /\ UNCHANGED <<place, cmds>>
  <2>1. \A m \in DOMAIN Rows[p] : m < place[p] \/ m = place[p]
    BY <1>9, PushRows
  <2>2. \A m \in DOMAIN Rows[p] : Rows[p][m] \in Safe
    BY Zenon, <1>5, <1>6, <1>9, <2>1 DEF Streamed
  <2>3. Ids(Rows[p]) \subseteq Safe
    BY Zenon, <2>2 DEF Ids
  <2>4. "acked" \in {"idle", "acked"}
    OBVIOUS
  <2> QED BY Zenon, <1>0, <1>2, <1>9, <2>3, <2>4, TakenStep
<1> QED BY Zenon, <1>1, <1>7, <1>8, <1>9

\* A step of the pipeline: the senders, the actor's window and the table rest, no
\* command of a stream comes or goes, and only pushes of the pipeline are answered.
LEMMA PipelineFrame ==
    ASSUME IngestInv, UNCHANGED <<dedup_recent, sent, attempt, place, window, stored, failed, restarts>>,
           chan' \in Seq(Piped), held' \in Seq(Piped), events' \in Seq(Events),
           cmds' \in Seq([from : Sender, rows : Seq(Events)]),
           answers' \subseteq (Sender \cup Piped) \X Outcome,
           \A i \in DOMAIN cmds' : cmds'[i].from = Loop \/ (i \in DOMAIN cmds /\ cmds'[i] = cmds[i]),
           \A i, j \in DOMAIN cmds' : cmds'[i].from = Loop /\ cmds'[j].from = Loop => i = j,
           ~ (Commanded(Loop)' /\ Answered(Loop)'),
           \A r \in Sender : \A o : <<r, o>> \in answers' => <<r, o>> \in answers,
           \A r \in Piped : <<r, "ok">> \in answers' => <<r, "ok">> \in answers \/ Ids(Rows[r[1]]) \subseteq Safe,
           GroupInv'
    PROVE  IngestInv'
<1> USE DEF IngestInv
<1>1. Safe' = Safe
  BY Zenon, SafeFrame
<1>2. IngestTypes'
  BY Zenon DEF IngestTypes
<1>3. WindowInv'
  BY Zenon, WindowFrame
<1>4. /\ \A r \in Sender : Answered(r)' => Answered(r)
      /\ \A r \in Sender \ {Loop} : Commanded(r)' => Commanded(r)
  BY Zenon DEF Answered, Commanded
<1>5. SingleRequest'
  <2>1. \A q \in Pushes : sent'[q] = "waiting" => attempt'[q] # 0
    BY Zenon DEF SingleRequest
  <2>2. \A i, j \in DOMAIN cmds' : cmds'[i].from = cmds'[j].from => i = j
    <3>1. \A i, j \in DOMAIN cmds : cmds[i].from = cmds[j].from => i = j
      BY Zenon DEF SingleRequest
    <3> SUFFICES ASSUME NEW i \in DOMAIN cmds', NEW j \in DOMAIN cmds', cmds'[i].from = cmds'[j].from PROVE i = j
      BY Zenon
    <3>2. CASE cmds'[i].from = Loop
      BY Zenon, <3>2
    <3>3. CASE cmds'[i].from # Loop
      BY Zenon, <3>1, <3>3
    <3> QED BY Zenon, <3>2, <3>3
  <2>3. \A r \in Sender : ~ (Commanded(r)' /\ Answered(r)')
    BY Zenon, <1>4 DEF SingleRequest
  <2>4. \A r \in Sender : \A o, u \in Outcome : <<r, o>> \in answers' /\ <<r, u>> \in answers' => o = u
    BY Zenon DEF SingleRequest
  <2>5. \A r \in Sender \ {Loop} : (Commanded(r)' \/ Answered(r)') => r[2] <= attempt'[r[1]]
    BY Zenon, <1>4 DEF SingleRequest
  <2> QED BY Zenon, <2>1, <2>2, <2>3, <2>4, <2>5 DEF SingleRequest
<1>6. StreamInv'
  <2> SUFFICES ASSUME NEW q \in Pushes, Via[q] = "flight", sent'[q] = "waiting" PROVE Streamed(q)'
    BY Zenon DEF StreamInv
  <2>1. Streamed(q)
    BY Zenon DEF StreamInv
  <2>2. Request(q) \in Sender \ {Loop}
    <3>1. attempt[q] \in Nat \ {0}
      BY DEF IngestTypes, SingleRequest
    <3> QED BY Zenon, <3>1, RequestKinds DEF Request
  <2>3. \A i \in DOMAIN cmds' : cmds'[i].from = Request(q) => \E j \in DOMAIN cmds : cmds'[i] = cmds[j]
    BY Zenon, <2>2
  <2>4. <<Request(q), "ok">> \in answers' => <<Request(q), "ok">> \in answers
    BY Zenon, <2>2
  <2> QED BY Zenon, <1>1, <2>1, <2>3, <2>4, StreamFrame
<1>7. AnswerInv'
  BY Zenon, <1>1, AnswerFrame
<1>8. AckedUnlessForgotten'
  BY Zenon, <1>1, AckedFrame
<1> QED BY Zenon, <1>2, <1>3, <1>5, <1>6, <1>7, <1>8

\* The same while neither commands nor answers move.
LEMMA PipelineRest ==
    ASSUME IngestInv, UNCHANGED <<dedup_recent, sent, attempt, place, window, stored, failed, restarts, cmds, answers>>,
           chan' \in Seq(Piped), held' \in Seq(Piped), events' \in Seq(Events),
           pipe # "append", pipe' # "append",
           \A i \in DOMAIN held' : pipe' # "detect" => Ids(Rows[held'[i][1]]) \subseteq Ids(events')
    PROVE  IngestInv'
<1>1. ~ Commanded(Loop) /\ ~ Answered(Loop)
  BY Zenon DEF IngestInv, GroupInv
<1>2. ~ Commanded(Loop)' /\ ~ Answered(Loop)'
  BY Zenon, <1>1 DEF Commanded, Answered
<1>3. /\ \A i \in DOMAIN cmds' : cmds'[i].from # Loop
      /\ <<Loop, "ok">> \notin answers'
  BY Zenon, <1>2 DEF Commanded, Answered, Outcome
<1>4. GroupInv'
  BY Zenon, <1>2, <1>3 DEF GroupInv
<1>5. /\ cmds' \in Seq([from : Sender, rows : Seq(Events)])
      /\ answers' \subseteq (Sender \cup Piped) \X Outcome
  BY Zenon DEF IngestInv, IngestTypes
<1>6. \A i \in DOMAIN cmds' : cmds'[i].from = Loop \/ (i \in DOMAIN cmds /\ cmds'[i] = cmds[i])
  BY Zenon
<1> QED BY Zenon, <1>2, <1>3, <1>4, <1>5, <1>6, PipelineFrame

\* The ids of a batch and of what is coalesced with it.
LEMMA ConcatIds ==
    ASSUME NEW s \in Seq(Events), NEW t \in Seq(Events)
    PROVE  s \o t \in Seq(Events) /\ Ids(s) \subseteq Ids(s \o t) /\ Ids(t) \subseteq Ids(s \o t)
<1> DEFINE a == s \o t
<1>1. a \in Seq(Events) /\ \A i \in DOMAIN s : i \in DOMAIN a /\ a[i] = s[i]
  OBVIOUS
<1>2. \A i \in DOMAIN t : Len(s) + i \in DOMAIN a /\ a[Len(s) + i] = t[i]
  OBVIOUS
<1> HIDE DEF a
<1>3. Ids(s) \subseteq Ids(a)
  BY Zenon, <1>1 DEF Ids
<1>4. Ids(t) \subseteq Ids(a)
  BY <1>2 DEF Ids
<1> QED BY Zenon, <1>1, <1>3, <1>4 DEF a

\* The pipeline takes the first push in hand, with its events.
LEMMA RecvStep == ASSUME IngestInv, Recv PROVE IngestInv'
<1>1. /\ pipe = "recv" /\ chan # <<>> /\ held' = <<Head(chan)>> /\ events' = Rows[Head(chan)[1]]
      /\ chan' = Tail(chan) /\ pipe' = "coalesce"
      /\ UNCHANGED <<dedup_recent, sent, attempt, place, window, stored, failed, restarts, cmds, answers>>
  BY Zenon DEF Recv, actor, table, bounds
<1>2. chan \in Seq(Piped)
  BY Zenon DEF IngestInv, IngestTypes
<1>3. chan' \in Seq(Piped) /\ Head(chan) \in Piped
  BY Zenon, <1>1, <1>2, TailIds
<1>4. Head(chan)[1] \in Pushes
  BY Zenon, <1>3, RequestKinds
<1>5. events' \in Seq(Events)
  BY Zenon, <1>1, <1>4, PushRows
<1>6. held' \in Seq(Piped) /\ \A i \in DOMAIN held' : held'[i] = Head(chan)
  BY <1>1, <1>3
<1>7. pipe # "append" /\ pipe' # "append"
  BY <1>1
<1>8. \A i \in DOMAIN held' : pipe' # "detect" => Ids(Rows[held'[i][1]]) \subseteq Ids(events')
  BY Zenon, <1>1, <1>6
<1> QED BY Zenon, <1>1, <1>3, <1>5, <1>6, <1>7, <1>8, PipelineRest

\* A further push joins with its events.
LEMMA CoalesceStep == ASSUME IngestInv, Coalesce PROVE IngestInv'
<1>1. /\ pipe = "coalesce" /\ chan # <<>> /\ held' = Append(held, Head(chan))
      /\ events' = events \o Rows[Head(chan)[1]]
      /\ chan' = Tail(chan) /\ pipe' = pipe
      /\ UNCHANGED <<dedup_recent, sent, attempt, place, window, stored, failed, restarts, cmds, answers>>
  BY Zenon DEF Coalesce, actor, table, bounds
<1>2. chan \in Seq(Piped) /\ held \in Seq(Piped) /\ events \in Seq(Events)
  BY Zenon DEF IngestInv, IngestTypes
<1>3. chan' \in Seq(Piped) /\ Head(chan) \in Piped
  BY Zenon, <1>1, <1>2, TailIds
<1>4. Head(chan)[1] \in Pushes
  BY Zenon, <1>3, RequestKinds
<1>5. Rows[Head(chan)[1]] \in Seq(Events)
  BY Zenon, <1>4, PushRows
<1>6. events' \in Seq(Events) /\ Ids(events) \subseteq Ids(events') /\ Ids(Rows[Head(chan)[1]]) \subseteq Ids(events')
  BY Zenon, <1>1, <1>2, <1>5, ConcatIds
<1>7. held' \in Seq(Piped) /\ \A i \in DOMAIN held' : (i \in DOMAIN held /\ held'[i] = held[i]) \/ held'[i] = Head(chan)
  BY <1>1, <1>2, <1>3, AppendAt
<1>8. pipe # "append" /\ pipe' # "append" /\ pipe # "detect"
  BY <1>1
<1>9. \A i \in DOMAIN held : Ids(Rows[held[i][1]]) \subseteq Ids(events)
  BY Zenon, <1>8 DEF IngestInv, GroupInv
<1>10. \A i \in DOMAIN held' : pipe' # "detect" => Ids(Rows[held'[i][1]]) \subseteq Ids(events')
  BY Zenon, <1>6, <1>7, <1>9
<1> QED BY Zenon, <1>1, <1>3, <1>6, <1>7, <1>8, <1>10, PipelineRest

\* Evaluating the rules touches no message of the intake.
LEMMA DetectStep == ASSUME IngestInv, Detect PROVE IngestInv'
<1>1. /\ pipe = "detect" /\ UNCHANGED <<dedup_recent, sent, attempt, place, window, stored, failed, restarts, cmds, answers, chan>>
  BY Zenon DEF Detect, actor, bounds
<1>2. chan \in Seq(Piped) /\ held \in Seq(Piped) /\ events \in Seq(Events)
  BY Zenon DEF IngestInv, IngestTypes
<1>3. CASE held # <<>> /\ held' = Tail(held) /\ UNCHANGED <<events, pipe>>
  <2>1. held' \in Seq(Piped)
    BY Zenon, <1>2, <1>3, TailIds
  <2>2. pipe # "append" /\ pipe' # "append" /\ pipe' = "detect"
    BY <1>1, <1>3
  <2> QED BY Zenon, <1>1, <1>2, <1>3, <2>1, <2>2, PipelineRest
<1>4. CASE held' = <<>> /\ events' = <<>> /\ pipe' = "recv"
  <2>1. held' \in Seq(Piped) /\ events' \in Seq(Events) /\ DOMAIN held' = {}
    BY <1>4
  <2>2. pipe # "append" /\ pipe' # "append"
    BY <1>1, <1>4
  <2> QED BY Zenon, <1>1, <1>2, <2>1, <2>2, PipelineRest
<1> QED BY Zenon, <1>3, <1>4 DEF Detect

\* The command is for all the events in hand.
LEMMA CommitStep == ASSUME IngestInv, Commit PROVE IngestInv'
<1> DEFINE c0 == [from |-> Loop, rows |-> events]
           Command == [from : Sender, rows : Seq(Events)]
           l == Len(cmds) + 1
<1>1. /\ pipe = "coalesce" /\ cmds' = Append(cmds, c0) /\ pipe' = "append"
      /\ UNCHANGED <<dedup_recent, sent, attempt, place, window, stored, failed, restarts, chan, held, events, answers>>
  BY Zenon DEF Commit, table, bounds
<1>2. /\ chan \in Seq(Piped) /\ held \in Seq(Piped) /\ events \in Seq(Events)
      /\ cmds \in Seq(Command) /\ answers \subseteq (Sender \cup Piped) \X Outcome
  BY Zenon DEF IngestInv, IngestTypes
<1>3. c0 \in Command /\ c0.from = Loop /\ c0.rows = events
  BY <1>2, RequestKinds
<1> HIDE DEF c0, Command
<1>4. /\ cmds' \in Seq(Command)
      /\ \A i \in DOMAIN cmds' : (i \in DOMAIN cmds /\ cmds'[i] = cmds[i]) \/ (i = l /\ cmds'[i] = c0)
  BY <1>1, <1>2, <1>3, AppendAt
<1> HIDE DEF l
<1>5. pipe # "append" /\ pipe # "detect"
  BY <1>1
<1>6. ~ Commanded(Loop) /\ ~ Answered(Loop)
  BY Zenon, <1>5 DEF IngestInv, GroupInv
<1>7. ~ Answered(Loop)' /\ <<Loop, "ok">> \notin answers'
  BY Zenon, <1>1, <1>6 DEF Answered, Outcome
<1>8. \A i \in DOMAIN cmds : cmds[i].from # Loop
  BY Zenon, <1>6 DEF Commanded
<1>9. \A i \in DOMAIN cmds' : cmds'[i].from = Loop => i = l /\ cmds'[i] = c0
  <2> SUFFICES ASSUME NEW i \in DOMAIN cmds', cmds'[i].from = Loop PROVE i = l /\ cmds'[i] = c0
    BY Zenon
  <2> QED BY Zenon, <1>4, <1>8
<1>10. \A i \in DOMAIN cmds' : cmds'[i].from = Loop => cmds'[i].rows = events'
  BY Zenon, <1>1, <1>3, <1>9
<1>11. GroupInv'
  <2>1. \A i \in DOMAIN held : Ids(Rows[held[i][1]]) \subseteq Ids(events)
    BY Zenon, <1>5 DEF IngestInv, GroupInv
  <2> QED BY Zenon, <1>1, <1>7, <1>10, <2>1 DEF GroupInv
<1>12. /\ \A i \in DOMAIN cmds' : cmds'[i].from = Loop \/ (i \in DOMAIN cmds /\ cmds'[i] = cmds[i])
       /\ \A i, j \in DOMAIN cmds' : cmds'[i].from = Loop /\ cmds'[j].from = Loop => i = j
  <2>1. \A i \in DOMAIN cmds' : cmds'[i].from = Loop \/ (i \in DOMAIN cmds /\ cmds'[i] = cmds[i])
    BY Zenon, <1>3, <1>4
  <2>2. \A i, j \in DOMAIN cmds' : cmds'[i].from = Loop /\ cmds'[j].from = Loop => i = j
    BY Zenon, <1>9
  <2> QED BY Zenon, <2>1, <2>2
<1> QED BY Zenon, <1>1, <1>2, <1>4, <1>7, <1>11, <1>12, PipelineFrame DEF Command

\* The outcome of the group commit is the outcome of every push held.
LEMMA AcknowledgeStep == ASSUME IngestInv, Acknowledge PROVE IngestInv'
<1>1. /\ pipe = "append" /\ pipe' = "detect"
      /\ UNCHANGED <<dedup_recent, sent, attempt, place, window, stored, failed, restarts, chan, held, events, cmds>>
  BY Zenon DEF Acknowledge, actor, table, bounds
<1>2. PICK o \in Outcome : /\ <<Loop, o>> \in answers
                           /\ answers' = (answers \ {<<Loop, o>>}) \cup Answer(Ids(held), o)
  BY Zenon DEF Acknowledge, Outcome
<1>3. /\ chan \in Seq(Piped) /\ held \in Seq(Piped) /\ events \in Seq(Events)
      /\ cmds \in Seq([from : Sender, rows : Seq(Events)]) /\ answers \subseteq (Sender \cup Piped) \X Outcome
  BY Zenon DEF IngestInv, IngestTypes
<1>4. Ids(held) \subseteq Piped
  BY Zenon, <1>3, IdsType
<1>5. /\ Answer(Ids(held), o) \subseteq Piped \X Outcome
      /\ \A r, u : <<r, u>> \in Answer(Ids(held), o) => r \in Ids(held) /\ u = o
  BY <1>2, <1>4 DEF Answer
<1>6. answers' \subseteq (Sender \cup Piped) \X Outcome
  BY <1>2, <1>3, <1>5
<1>7. \A r \in Sender : \A u : <<r, u>> \in answers' => <<r, u>> \in answers /\ <<r, u>> # <<Loop, o>>
  BY Zenon, <1>2, <1>4, <1>5, RequestKinds
<1>8. ~ Commanded(Loop)
  BY Zenon, <1>2, RequestKinds DEF IngestInv, SingleRequest, Answered
<1>9. ~ Commanded(Loop)'
  BY Zenon, <1>1, <1>8 DEF Commanded
<1>10. ~ Answered(Loop)'
  <2>1. \A u \in Outcome : <<Loop, u>> \in answers => u = o
    BY Zenon, <1>2, RequestKinds DEF IngestInv, SingleRequest
  <2>2. \A u \in Outcome : <<Loop, u>> \notin answers'
    BY Zenon, <1>7, <2>1, RequestKinds
  <2> QED BY Zenon, <2>2 DEF Answered
<1>11. \A i \in DOMAIN cmds' : cmds'[i].from # Loop
  BY Zenon, <1>9 DEF Commanded
<1>12. <<Loop, "ok">> \notin answers'
  BY Zenon, <1>10 DEF Answered, Outcome
<1>13. GroupInv'
  BY Zenon, <1>1, <1>9, <1>10, <1>11, <1>12 DEF GroupInv
<1>14. \A r \in Piped : <<r, "ok">> \in answers' => <<r, "ok">> \in answers \/ Ids(Rows[r[1]]) \subseteq Safe
  <2>0. \A x : x \in answers' => x \in answers \/ x \in Answer(Ids(held), o)
    BY Zenon, <1>2
  <2> SUFFICES ASSUME NEW r \in Piped, <<r, "ok">> \in answers', <<r, "ok">> \notin answers
               PROVE  Ids(Rows[r[1]]) \subseteq Safe
    OBVIOUS
  <2>1. r \in Ids(held) /\ o = "ok"
    BY <1>5, <2>0
  <2>2. PICK i \in DOMAIN held : r = held[i]
    BY Zenon, <2>1 DEF Ids
  <2>3. pipe # "detect"
    BY <1>1
  <2>4. Ids(Rows[r[1]]) \subseteq Ids(events)
    BY Zenon, <2>2, <2>3 DEF IngestInv, GroupInv
  <2>5. Ids(events) \subseteq Safe
    BY Zenon, <1>2, <2>1 DEF IngestInv, GroupInv
  <2> QED BY Zenon, <2>4, <2>5
<1>15. \A i \in DOMAIN cmds' : i \in DOMAIN cmds /\ cmds'[i] = cmds[i]
  BY Zenon, <1>1
<1> QED BY Zenon, <1>1, <1>3, <1>6, <1>7, <1>9, <1>11, <1>13, <1>14, <1>15, PipelineFrame

\* What the actor makes of a command: the rows it keeps, the window after them.
Deduped(c) == IF dedup_recent = 0 THEN [window |-> window, kept |-> c.rows] ELSE dedup_batch(window, c.rows)

\* What is kept of a command and the window cover all of its rows.
LEMMA DedupedFacts ==
    ASSUME IngestInv, NEW c, c.rows \in Seq(Events)
    PROVE  /\ Deduped(c).window \in Seq(Events) /\ Deduped(c).kept \in Seq(Events)
           /\ dedup_recent = 0 => Deduped(c).window = window
           /\ Ids(Deduped(c).window) \subseteq Ids(window) \cup Ids(Deduped(c).kept)
           /\ dedup_recent = 0 => Ids(c.rows) \subseteq Ids(Deduped(c).kept)
           /\ Ids(c.rows) \subseteq Ids(window) \cup Ids(Deduped(c).kept)
<1>0. dedup_recent \in Nat /\ window \in Seq(Events)
  BY Zenon DEF IngestInv, IngestTypes
<1>1. CASE dedup_recent = 0
  <2>1. Deduped(c) = [window |-> window, kept |-> c.rows]
    BY Zenon, <1>1 DEF Deduped
  <2>2. Deduped(c).window = window /\ Deduped(c).kept = c.rows
    BY <2>1
  <2> QED BY Zenon, <1>0, <2>2
<1>2. CASE dedup_recent # 0
  <2> DEFINE b == dedup_batch(window, c.rows)
  <2>1. Deduped(c) = b
    BY Zenon, <1>2 DEF Deduped
  <2>2. dedup_recent \in Nat \ {0}
    BY <1>0, <1>2
  <2>3. /\ b \in Admission
        /\ Ids(b.window) \subseteq Ids(window) \cup Ids(b.kept)
        /\ Ids(c.rows) \subseteq Ids(window) \cup Ids(b.kept)
    BY Zenon, <1>0, <2>2, DedupContract
  <2>4. b.window \in Seq(Events) /\ b.kept \in Seq(Events)
    BY Zenon, <2>3 DEF Admission
  <2> HIDE DEF b
  <2> QED BY Zenon, <1>2, <2>1, <2>3, <2>4
<1> QED BY Zenon, <1>1, <1>2

\* The two ends of an append.
Appended(c) ==
    /\ stored' = [e \in Events |-> stored[e] + Copies(Deduped(c).kept, e)]
    /\ answers' = answers \cup Answer({c.from}, "ok")
    /\ UNCHANGED failed
Refused(c) ==
    /\ failed' = failed \cup Ids(Deduped(c).kept)
    /\ answers' = answers \cup Answer({c.from}, "err")
    /\ UNCHANGED stored

\* An append succeeds or is refused, after its ids are admitted.
LEMMA ActorCases ==
    ASSUME actor_loop
    PROVE  \E c : /\ c = Head(cmds) /\ cmds # <<>> /\ cmds' = Tail(cmds)
                  /\ window' = Deduped(c).window
                  /\ Appended(c) \/ Refused(c)
                  /\ UNCHANGED <<dedup_recent, sent, attempt, place, chan, pipe, held, events, outcome, restarts>>
<1> DEFINE c == Head(cmds)
           d == IF dedup_recent = 0 THEN [window |-> window, kept |-> c.rows] ELSE dedup_batch(window, c.rows)
<1>1. /\ cmds # <<>> /\ cmds' = Tail(cmds) /\ window' = d.window
      /\ UNCHANGED <<dedup_recent, sent, attempt, place, chan, pipe, held, events, outcome, restarts>>
  BY Zenon DEF actor_loop, pipeline
<1>2. d = Deduped(c)
  BY Zenon DEF Deduped
<1>3. \/ /\ stored' = [e \in Events |-> stored[e] + Cardinality({i \in DOMAIN d.kept : d.kept[i] = e})]
         /\ answers' = answers \cup Answer({c.from}, "ok") /\ UNCHANGED failed
      \/ /\ failed' = failed \cup Ids(d.kept)
         /\ answers' = answers \cup Answer({c.from}, "err") /\ UNCHANGED stored
  BY Zenon DEF actor_loop
<1> HIDE DEF d
<1>4. Appended(c) \/ Refused(c)
  BY Zenon, <1>2, <1>3 DEF Appended, Refused, Copies
<1> QED BY Zenon, <1>1, <1>2, <1>4

\* The table after a command: nothing safe is lost, and the rows that are
\* answered "ok" are safe.
LEMMA ActorTable ==
    ASSUME IngestInv, NEW c, c.rows \in Seq(Events), UNCHANGED dedup_recent, Appended(c) \/ Refused(c)
    PROVE  /\ stored' \in [Events -> Nat] /\ failed' \subseteq Events
           /\ Stored \subseteq Stored' /\ failed \subseteq failed' /\ Safe \subseteq Safe'
           /\ Ids(Deduped(c).kept) \subseteq Stored' \cup failed'
           /\ Appended(c) => Ids(c.rows) \subseteq Safe'
<1> DEFINE k == Deduped(c).kept
<1>0. stored \in [Events -> Nat] /\ failed \subseteq Events /\ k \in Seq(Events)
  BY Zenon, DedupedFacts DEF IngestInv, IngestTypes
<1>1. Ids(k) \subseteq Events
  BY Zenon, <1>0, IdsType
<1>2. /\ dedup_recent = 0 => Ids(c.rows) \subseteq Ids(k)
      /\ Ids(c.rows) \subseteq Ids(window) \cup Ids(k)
      /\ Ids(window) \subseteq Stored \cup failed
  BY Zenon, DedupedFacts DEF IngestInv, WindowInv
<1>3. \A e \in Events : Copies(k, e) \in Nat /\ (e \in Ids(k) => Copies(k, e) > 0)
  BY Zenon, <1>0, CopiesFacts
<1>4. CASE Appended(c)
  <2>1. /\ stored' = [e \in Events |-> stored[e] + Copies(k, e)] /\ failed' = failed
    BY Zenon, <1>4 DEF Appended
  <2> HIDE DEF k
  <2>2. \A e \in Events : stored[e] \in Nat /\ stored'[e] = stored[e] + Copies(k, e)
    BY <1>0, <2>1
  <2>3. /\ stored' \in [Events -> Nat]
        /\ \A e \in Events : (stored[e] > 0 => stored'[e] > 0) /\ (e \in Ids(k) => stored'[e] > 0)
    BY <1>3, <2>1, <2>2
  <2>4. Stored \subseteq Stored' /\ Ids(k) \subseteq Stored'
    BY Zenon, <1>1, <2>3 DEF Stored
  <2>5. Safe \subseteq Safe'
    BY Zenon, <2>1, <2>4 DEF Safe
  <2>6. Ids(c.rows) \subseteq Safe'
    <3>1. CASE dedup_recent = 0
      BY Zenon, <1>2, <2>4, <3>1 DEF Safe
    <3>2. CASE dedup_recent # 0
      BY Zenon, <1>2, <2>1, <2>4, <3>2 DEF Safe
    <3> QED BY Zenon, <3>1, <3>2
  <2> QED BY Zenon, <1>0, <2>1, <2>3, <2>4, <2>5, <2>6 DEF k
<1>5. CASE ~ Appended(c)
  <2>1. failed' = failed \cup Ids(k) /\ stored' = stored
    BY Zenon, <1>5 DEF Refused
  <2> HIDE DEF k
  <2>2. Stored' = Stored
    BY Zenon, <2>1 DEF Stored
  <2>3. Safe \subseteq Safe'
    BY Zenon, <2>1, <2>2 DEF Safe
  <2> QED BY Zenon, <1>0, <1>1, <1>5, <2>1, <2>2, <2>3 DEF k
<1> QED BY Zenon, <1>4, <1>5

\* An answer of the actor stands for the rows of its command.
LEMMA ActorStep == ASSUME IngestInv, actor_loop PROVE IngestInv'
<1> USE DEF IngestInv
<1>0. PICK c : /\ c = Head(cmds) /\ cmds # <<>> /\ cmds' = Tail(cmds)
               /\ window' = Deduped(c).window
               /\ Appended(c) \/ Refused(c)
               /\ UNCHANGED <<dedup_recent, sent, attempt, place, chan, pipe, held, events, outcome, restarts>>
  BY Zenon, ActorCases
<1> DEFINE Command == [from : Sender, rows : Seq(Events)]
           f == c.from
<1>1. cmds \in Seq(Command)
  BY Zenon DEF IngestTypes
<1>2. /\ cmds' \in Seq(Command) /\ \A i \in DOMAIN cmds' : i + 1 \in DOMAIN cmds /\ cmds'[i] = cmds[i + 1]
      /\ 1 \in DOMAIN cmds /\ c = cmds[1] /\ c \in Command
      /\ DOMAIN cmds' \subseteq Nat \ {0}
  <2>1. /\ cmds' \in Seq(Command) /\ 1 \in DOMAIN cmds /\ c = cmds[1] /\ c \in Command
    BY Zenon, <1>0, <1>1, TailIds
  <2>2. \A i \in DOMAIN cmds' : i + 1 \in DOMAIN cmds /\ cmds'[i] = cmds[i + 1]
    BY <1>0, <1>1, TailIds
  <2>3. DOMAIN cmds' \subseteq Nat \ {0}
    BY <2>1
  <2> QED BY Zenon, <2>1, <2>2, <2>3
<1>3. f \in Sender /\ c.rows \in Seq(Events)
  BY Zenon, <1>2
<1> HIDE DEF Command, f
<1>4. /\ stored' \in [Events -> Nat] /\ failed' \subseteq Events
      /\ Stored \subseteq Stored' /\ failed \subseteq failed' /\ Safe \subseteq Safe'
      /\ Ids(Deduped(c).kept) \subseteq Stored' \cup failed'
      /\ Appended(c) => Ids(c.rows) \subseteq Safe'
  BY Zenon, <1>0, <1>3, ActorTable
<1>5. PICK o \in Outcome : answers' = answers \cup Answer({f}, o) /\ (o = "ok" => Appended(c))
  BY <1>0 DEF Appended, Refused, Outcome, f
<1>6. /\ \A r, u : <<r, u>> \in answers' => <<r, u>> \in answers \/ (r = f /\ u = o)
      /\ answers' \subseteq (Sender \cup Piped) \X Outcome
  <2>1. Answer({f}, o) \subseteq {<<f, o>>}
    BY Zenon DEF Answer
  <2>2. \A x \in answers' : x \in answers \/ x = <<f, o>>
    BY Zenon, <1>5, <2>1
  <2>3. \A r, u : <<r, u>> \in answers' => <<r, u>> \in answers \/ (r = f /\ u = o)
    BY <2>2
  <2>4. answers \subseteq (Sender \cup Piped) \X Outcome /\ <<f, o>> \in (Sender \cup Piped) \X Outcome
    BY <1>3, <1>5 DEF IngestTypes
  <2> QED BY Zenon, <2>2, <2>3, <2>4
<1>7. IngestTypes'
  <2>1. window' \in Seq(Events)
    BY Zenon, <1>0, <1>3, DedupedFacts
  <2> QED BY Zenon, <1>0, <1>2, <1>4, <1>6, <2>1 DEF IngestTypes, Command
<1>8. WindowInv'
  <2>1. /\ dedup_recent = 0 => window' = window
        /\ Ids(window') \subseteq Ids(window) \cup Ids(Deduped(c).kept)
    BY Zenon, <1>0, <1>3, DedupedFacts
  <2>2. Ids(window') \subseteq Stored' \cup failed'
    BY Zenon, <1>4, <2>1 DEF WindowInv
  <2> QED BY Zenon, <1>0, <2>1, <2>2 DEF WindowInv
<1>9. \A i \in DOMAIN cmds' : cmds'[i].from # f /\ \E j \in DOMAIN cmds : cmds'[i] = cmds[j]
  <2> SUFFICES ASSUME NEW i \in DOMAIN cmds' PROVE cmds'[i].from # f /\ \E j \in DOMAIN cmds : cmds'[i] = cmds[j]
    BY Zenon
  <2>1. i + 1 # 1
    BY <1>2
  <2>2. i + 1 \in DOMAIN cmds /\ cmds'[i] = cmds[i + 1]
    BY <1>2
  <2>3. cmds[i + 1].from # cmds[1].from
    BY Zenon, <1>2, <2>1, <2>2 DEF SingleRequest
  <2> QED BY Zenon, <1>2, <2>2, <2>3 DEF f
<1>10. /\ Commanded(f) /\ ~ Answered(f) /\ ~ Commanded(f)'
       /\ \A r : Commanded(r)' => Commanded(r)
       /\ \A r : r # f /\ Answered(r)' => Answered(r)
  <2>1. Commanded(f)
    BY Zenon, <1>2 DEF Commanded, f
  <2>2. ~ Answered(f)
    BY Zenon, <1>3, <2>1 DEF SingleRequest
  <2>3. ~ Commanded(f)' /\ \A r : Commanded(r)' => Commanded(r)
    BY Zenon, <1>9 DEF Commanded
  <2>4. \A r : r # f /\ Answered(r)' => Answered(r)
    BY Zenon, <1>6 DEF Answered
  <2> QED BY Zenon, <2>1, <2>2, <2>3, <2>4
<1>11. SingleRequest'
  <2>1. \A q \in Pushes : sent'[q] = "waiting" => attempt'[q] # 0
    BY Zenon, <1>0 DEF SingleRequest
  <2>2. \A i, j \in DOMAIN cmds' : cmds'[i].from = cmds'[j].from => i = j
    <3> SUFFICES ASSUME NEW i \in DOMAIN cmds', NEW j \in DOMAIN cmds', cmds'[i].from = cmds'[j].from PROVE i = j
      BY Zenon
    <3>1. i + 1 \in DOMAIN cmds /\ j + 1 \in DOMAIN cmds /\ cmds[i + 1].from = cmds[j + 1].from
      BY Zenon, <1>2
    <3>2. i + 1 = j + 1
      BY Zenon, <3>1 DEF SingleRequest
    <3> QED BY <1>2, <3>2
  <2>3. \A r \in Sender : ~ (Commanded(r)' /\ Answered(r)')
    BY Zenon, <1>10 DEF SingleRequest
  <2>4. \A r \in Sender : \A a, u \in Outcome : <<r, a>> \in answers' /\ <<r, u>> \in answers' => a = u
    <3> SUFFICES ASSUME NEW r \in Sender, NEW a \in Outcome, NEW u \in Outcome,
                        <<r, a>> \in answers', <<r, u>> \in answers'
                 PROVE  a = u
      BY Zenon
    <3>1. CASE r = f
      <4>1. <<r, a>> \notin answers /\ <<r, u>> \notin answers
        BY Zenon, <1>10, <3>1 DEF Answered
      <4>2. a = o
        BY <1>6, <4>1
      <4>3. u = o
        BY <1>6, <4>1
      <4> QED BY Zenon, <4>2, <4>3
    <3>2. CASE r # f
      BY Zenon, <1>6, <3>2 DEF SingleRequest
    <3> QED BY Zenon, <3>1, <3>2
  <2>5. \A r \in Sender \ {Loop} : (Commanded(r)' \/ Answered(r)') => r[2] <= attempt'[r[1]]
    BY Zenon, <1>0, <1>10 DEF SingleRequest
  <2> QED BY Zenon, <2>1, <2>2, <2>3, <2>4, <2>5 DEF SingleRequest
<1>12. GroupInv'
  <2>1. pipe # "append" => ~ Commanded(Loop)' /\ ~ Answered(Loop)'
    BY Zenon, <1>10 DEF GroupInv
  <2>2. \A i \in DOMAIN cmds' : cmds'[i].from = Loop => cmds'[i].rows = events
    <3>1. \A i \in DOMAIN cmds : cmds[i].from = Loop => cmds[i].rows = events
      BY Zenon DEF GroupInv
    <3> QED BY Zenon, <1>9, <3>1
  <2>3. <<Loop, "ok">> \in answers' => Ids(events) \subseteq Safe'
    <3> SUFFICES ASSUME <<Loop, "ok">> \in answers' PROVE Ids(events) \subseteq Safe'
      BY Zenon
    <3>1. CASE <<Loop, "ok">> \in answers
      BY Zenon, <1>4, <3>1 DEF GroupInv
    <3>2. CASE Loop = f /\ "ok" = o
      <4>1. c.rows = events
        BY Zenon, <1>2, <3>2 DEF GroupInv, f
      <4> QED BY Zenon, <1>4, <1>5, <3>2, <4>1
    <3> QED BY Zenon, <1>6, <3>1, <3>2
  <2>4. \A i \in DOMAIN held : pipe # "detect" => Ids(Rows[held[i][1]]) \subseteq Ids(events)
    BY Zenon DEF GroupInv
  <2> QED BY Zenon, <1>0, <2>1, <2>2, <2>3, <2>4 DEF GroupInv
<1>13. StreamInv'
  <2> SUFFICES ASSUME NEW q \in Pushes, Via[q] = "flight", sent'[q] = "waiting" PROVE Streamed(q)'
    BY Zenon DEF StreamInv
  <2>1. Streamed(q)
    BY Zenon, <1>0 DEF StreamInv
  <2>2. CASE <<Request(q), "ok">> \in answers' => <<Request(q), "ok">> \in answers
    BY Zenon, <1>0, <1>4, <1>9, <2>1, <2>2, StreamFrame
  <2>3. CASE Request(q) = f /\ "ok" = o
    <3>1. c.rows = <<Rows[q][place[q]]>>
      BY Zenon, <1>2, <2>1, <2>3 DEF Streamed, f
    <3>2. Rows[q][place[q]] \in Ids(c.rows)
      BY <3>1 DEF Ids
    <3>3. Rows[q][place[q]] \in Safe'
      BY Zenon, <1>4, <1>5, <2>3, <3>2
    <3>4. Request(q)' = f
      BY Zenon, <1>0, <2>3 DEF Request
    <3> QED BY Zenon, <1>0, <1>4, <1>9, <2>1, <3>3, <3>4 DEF Streamed
  <2> QED BY Zenon, <1>6, <2>2, <2>3
<1>14. AnswerInv'
  <2>1. f \notin Piped
    BY Zenon, <1>3, RequestKinds
  <2>2. \A r \in Piped : <<r, "ok">> \in answers' => <<r, "ok">> \in answers
    BY Zenon, <1>6, <2>1
  <2> QED BY Zenon, <1>4, <2>2, AnswerFrame
<1>15. AckedUnlessForgotten'
  BY Zenon, <1>0, <1>4, AckedFrame
<1> QED BY Zenon, <1>7, <1>8, <1>11, <1>12, <1>13, <1>14, <1>15

\* A crash leaves nothing on the way.
LEMMA IngestCrashStep == ASSUME IngestInv, IngestCrash PROVE IngestInv'
<1> USE DEF IngestInv
<1>1. /\ restarts' = restarts + 1
      /\ chan' = <<>> /\ cmds' = <<>> /\ window' = <<>> /\ answers' = {}
      /\ held' = <<>> /\ events' = <<>>
      /\ sent' = [p \in Pushes |-> IF sent[p] = "waiting" THEN "idle" ELSE sent[p]]
      /\ UNCHANGED <<dedup_recent, attempt, place, stored, failed>>
  BY Zenon DEF IngestCrash, table
<1>2. \A p \in Pushes : sent[p] \in {"idle", "waiting", "gone", "acked"}
  BY Zenon DEF IngestTypes
<1>3. /\ sent' \in [Pushes -> {"idle", "waiting", "gone", "acked"}]
      /\ \A p \in Pushes : sent'[p] # "waiting" /\ (sent'[p] = "acked" => sent[p] = "acked")
  BY <1>1, <1>2
<1>4. restarts' \in Nat
  BY <1>1 DEF IngestTypes
<1>5. /\ chan' \in Seq(Piped) /\ held' \in Seq(Piped) /\ events' \in Seq(Events) /\ window' \in Seq(Events)
      /\ cmds' \in Seq([from : Sender, rows : Seq(Events)]) /\ answers' \subseteq (Sender \cup Piped) \X Outcome
      /\ DOMAIN cmds' = {} /\ DOMAIN held' = {} /\ Ids(window') = {}
  BY <1>1 DEF Ids
<1>6. IngestTypes'
  BY Zenon, <1>1, <1>3, <1>4, <1>5 DEF IngestTypes
<1>7. Safe' = Safe
  BY Zenon, <1>1, SafeFrame
<1>8. WindowInv'
  BY Zenon, <1>1, <1>5 DEF WindowInv
<1>9. \A r : ~ Commanded(r)' /\ ~ Answered(r)'
  BY Zenon, <1>1, <1>5 DEF Commanded, Answered
<1>10. SingleRequest'
  BY Zenon, <1>1, <1>3, <1>5, <1>9 DEF SingleRequest
<1>11. GroupInv'
  BY Zenon, <1>1, <1>5, <1>9 DEF GroupInv
<1>12. StreamInv'
  BY Zenon, <1>3 DEF StreamInv
<1>13. AnswerInv'
  BY Zenon, <1>1 DEF AnswerInv
<1>14. AckedUnlessForgotten'
  BY Zenon, <1>3, <1>7, AckedFrame
<1> QED BY Zenon, <1>6, <1>8, <1>10, <1>11, <1>12, <1>13, <1>14

\* A stuttering step.
LEMMA IngestQuiet == ASSUME IngestInv, UNCHANGED ingestVars PROVE IngestInv'
<1> USE DEF IngestInv
<1>0. UNCHANGED <<dedup_recent, sent, attempt, place, chan, pipe, held, events, outcome, cmds, answers, window, stored, failed, restarts>>
  BY Zenon DEF ingestVars
<1>1. IngestTypes'
  BY Zenon, <1>0 DEF IngestTypes
<1>2. WindowInv'
  BY Zenon, <1>0, WindowFrame
<1>3. Safe' = Safe
  BY Zenon, <1>0, SafeFrame
<1>4. SingleRequest'
  BY Zenon, <1>0 DEF SingleRequest, Commanded, Answered
<1>5. GroupInv'
  BY Zenon, <1>0, <1>3, GroupFrame
<1>6. StreamInv'
  BY Zenon, <1>0, <1>3 DEF StreamInv, Streamed, Request
<1>7. AnswerInv'
  BY Zenon, <1>0, <1>3, AnswerFrame
<1>8. AckedUnlessForgotten'
  BY Zenon, <1>0, <1>3, AckedFrame
<1> QED BY Zenon, <1>1, <1>2, <1>4, <1>5, <1>6, <1>7, <1>8

\* Nothing is on the way at the start.
LEMMA IngestStarts == IngestInit => IngestInv
<1> SUFFICES ASSUME IngestInit PROVE IngestInv
  BY Zenon
<1>1. /\ dedup_recent \in DedupSizes
      /\ sent = [p \in Pushes |-> "idle"] /\ attempt = [p \in Pushes |-> 0] /\ place = [p \in Pushes |-> 0]
      /\ chan = <<>> /\ cmds = <<>> /\ window = <<>> /\ answers = {}
      /\ held = <<>> /\ events = <<>> /\ stored = [e \in Events |-> 0] /\ failed = {} /\ restarts = 0
  BY Zenon DEF IngestInit
<1>2. /\ chan \in Seq(Piped) /\ held \in Seq(Piped) /\ events \in Seq(Events) /\ window \in Seq(Events)
      /\ cmds \in Seq([from : Sender, rows : Seq(Events)]) /\ answers \subseteq (Sender \cup Piped) \X Outcome
      /\ DOMAIN cmds = {} /\ DOMAIN held = {} /\ Ids(window) = {}
  BY <1>1 DEF Ids
<1>3. /\ dedup_recent \in Nat /\ restarts \in Nat /\ failed \subseteq Events /\ stored \in [Events -> Nat]
      /\ attempt \in [Pushes -> Nat] /\ place \in [Pushes -> Nat]
      /\ sent \in [Pushes -> {"idle", "waiting", "gone", "acked"}]
      /\ \A p \in Pushes : sent[p] # "waiting" /\ sent[p] # "acked"
  BY <1>1, IngestAssumption
<1>4. IngestTypes
  BY Zenon, <1>2, <1>3 DEF IngestTypes
<1>5. \A r : ~ Commanded(r) /\ ~ Answered(r)
  BY Zenon, <1>1, <1>2 DEF Commanded, Answered
<1>6. WindowInv /\ AnswerInv
  BY Zenon, <1>1, <1>2 DEF WindowInv, AnswerInv
<1>7. SingleRequest
  BY Zenon, <1>1, <1>2, <1>3, <1>5 DEF SingleRequest
<1>8. GroupInv
  BY Zenon, <1>1, <1>2, <1>5 DEF GroupInv
<1>9. StreamInv /\ AckedUnlessForgotten
  BY Zenon, <1>3 DEF StreamInv, AckedUnlessForgotten
<1> QED BY Zenon, <1>4, <1>6, <1>7, <1>8, <1>9 DEF IngestInv

\* Every step keeps the invariant.
LEMMA IngestStep == IngestInv /\ [IngestNext]_ingestVars => IngestInv'
<1> SUFFICES ASSUME IngestInv, [IngestNext]_ingestVars PROVE IngestInv'
  BY Zenon
<1>1. ASSUME NEW p \in Pushes, ingest_events(p) \/ run_syslog(p) \/ do_put(p) \/ Receiver(p) \/ GiveUp(p) PROVE IngestInv'
  BY Zenon, <1>1, EnqueueStep, DoPutStep, RespondStep, PutReplyStep, GiveUpStep DEF Receiver
<1>2. CASE actor_loop
  BY Zenon, <1>2, ActorStep
<1>3. CASE Pipeline
  BY Zenon, <1>3, RecvStep, CoalesceStep, CommitStep, AcknowledgeStep, DetectStep DEF Pipeline
<1>4. CASE IngestCrash
  BY Zenon, <1>4, IngestCrashStep
<1>5. CASE UNCHANGED ingestVars
  BY Zenon, <1>5, IngestQuiet
<1> QED BY Zenon, <1>1, <1>2, <1>3, <1>4, <1>5 DEF IngestNext

\* pipeline::run, the writer actor's actor_loop and the receivers keep the meaning
\* of every command and answer on the way, whatever is retried, given up, refused
\* or lost in a crash.
THEOREM IngestInvariance == IngestSpec => []IngestInv
  BY IngestStarts, IngestStep, PTL DEF IngestSpec

\* A push the receivers acknowledge, over HTTP after the group commit or over
\* Flight after the last append of its stream, has all its events in the table;
\* with the window of recent ids on, all but those of an append that failed.
THEOREM AckedIsSafe == IngestSpec => []AckedUnlessForgotten
<1>1. IngestInv => AckedUnlessForgotten
  BY Zenon DEF IngestInv
<1> QED BY <1>1, IngestInvariance, PTL

-----------------------------------------------------------------------------

\* Only the actor and a crash touch the window and the table.
LEMMA OnceQuiet ==
    ASSUME OnceInv, UNCHANGED <<dedup_recent, window, stored, restarts>>
    PROVE  OnceInv'
  BY Zenon DEF OnceInv, Roomy

\* An append stores what the window did not hold, once.
LEMMA OnceActor == ASSUME IngestInv, OnceInv, actor_loop PROVE OnceInv'
<1>0. PICK c : /\ c = Head(cmds) /\ cmds # <<>>
               /\ window' = Deduped(c).window
               /\ Appended(c) \/ Refused(c)
               /\ UNCHANGED <<dedup_recent, restarts>>
  BY Zenon, ActorCases
<1>1. c.rows \in Seq(Events)
  <2>1. cmds \in Seq([from : Sender, rows : Seq(Events)])
    BY Zenon DEF IngestInv, IngestTypes
  <2>2. c \in [from : Sender, rows : Seq(Events)]
    BY Zenon, <1>0, <2>1, TailIds
  <2> QED BY Zenon, <2>2
<1>2. /\ dedup_recent \in Nat /\ window \in Seq(Events) /\ restarts \in Nat
      /\ stored \in [Events -> Nat]
  BY Zenon DEF IngestInv, IngestTypes
<1> SUFFICES ASSUME Roomy PROVE IsInjective(window') /\ \A e \in Events : stored'[e] <= restarts + (IF e \in Ids(window') THEN 1 ELSE 0)
  BY Zenon, <1>0 DEF OnceInv, Roomy
<1>3. /\ IsInjective(window)
      /\ \A e \in Events : stored[e] <= restarts + (IF e \in Ids(window) THEN 1 ELSE 0)
  BY Zenon DEF OnceInv
<1>4. CASE dedup_recent = 0
  <2>1. Cardinality(Events) \in Nat /\ IsFiniteSet(Events)
    BY Zenon, IngestAssumption, FS_CardinalityType
  <2>2. Cardinality(Events) = 0
    BY <1>4, <2>1 DEF Roomy
  <2>3. Events = {}
    BY Zenon, <2>1, <2>2, FS_EmptySet
  <2>4. window' = window
    BY Zenon, <1>0, <1>1, <1>4, DedupedFacts
  <2> QED BY Zenon, <1>3, <2>3, <2>4
<1>5. CASE dedup_recent # 0
  <2> DEFINE d == Deduped(c)
             k == d.kept
  <2>1. dedup_recent \in Nat \ {0}
    BY <1>2, <1>5
  <2>2. d = dedup_batch(window, c.rows)
    BY Zenon, <1>5 DEF Deduped
  <2>3. /\ IsInjective(d.window) /\ IsInjective(k)
        /\ Ids(d.window) = Ids(window) \cup Ids(k)
        /\ Ids(k) \cap Ids(window) = {}
    BY ZenonT(60), <1>1, <1>2, <1>3, <2>1, <2>2, RoomyContract
  <2>4. k \in Seq(Events)
    BY Zenon, <1>1, DedupedFacts
  <2>5. /\ IsInjective(window') /\ Ids(window') = Ids(window) \cup Ids(k)
    BY Zenon, <1>0, <2>3
  <2>6. \A e \in Events : /\ Copies(k, e) \in Nat /\ Copies(k, e) <= 1
                          /\ e \notin Ids(k) => Copies(k, e) = 0
    BY Zenon, <2>3, <2>4, CopiesFacts
  <2>7. \A e \in Events : stored[e] \in Nat /\ (stored'[e] = stored[e] \/ stored'[e] = stored[e] + Copies(k, e))
    BY <1>0, <1>2 DEF Appended, Refused
  <2> HIDE DEF k, d
  <2>8. ASSUME NEW e \in Events PROVE stored'[e] <= restarts + (IF e \in Ids(window') THEN 1 ELSE 0)
    <3>1. CASE e \in Ids(k)
      <4>1. e \notin Ids(window) /\ e \in Ids(window')
        BY Zenon, <2>3, <2>5, <3>1
      <4>2. stored[e] <= restarts + 0
        BY Zenon, <1>3, <4>1
      <4>3. stored'[e] <= restarts + 1
        BY <1>2, <2>6, <2>7, <4>2
      <4> QED BY Zenon, <4>1, <4>3
    <3>2. CASE e \notin Ids(k)
      <4>1. e \in Ids(window) <=> e \in Ids(window')
        BY Zenon, <2>5, <3>2
      <4>2. stored'[e] = stored[e]
        BY <2>6, <2>7, <3>2
      <4> QED BY Zenon, <1>3, <4>1, <4>2
    <3> QED BY Zenon, <3>1, <3>2
  <2> QED BY Zenon, <2>5, <2>8
<1> QED BY Zenon, <1>4, <1>5

\* A crash empties the window and counts as one more life.
LEMMA OnceCrash == ASSUME IngestInv, OnceInv, IngestCrash PROVE OnceInv'
<1>1. window' = <<>> /\ restarts' = restarts + 1 /\ UNCHANGED <<dedup_recent, stored>>
  BY Zenon DEF IngestCrash, table
<1>2. restarts \in Nat /\ stored \in [Events -> Nat]
  BY Zenon DEF IngestInv, IngestTypes
<1>3. IsInjective(window') /\ Ids(window') = {}
  BY <1>1 DEF IsInjective, Ids
<1>4. Roomy => \A e \in Events : stored[e] <= restarts + (IF e \in Ids(window) THEN 1 ELSE 0)
  BY Zenon DEF OnceInv
<1>5. Roomy => \A e \in Events : stored'[e] <= restarts' + (IF e \in Ids(window') THEN 1 ELSE 0)
  BY <1>1, <1>2, <1>3, <1>4
<1> QED BY Zenon, <1>1, <1>3, <1>5 DEF OnceInv, Roomy

\* Every step keeps the count.
LEMMA OnceStep == IngestInv /\ OnceInv /\ [IngestNext]_ingestVars => OnceInv'
<1> SUFFICES ASSUME IngestInv, OnceInv, [IngestNext]_ingestVars PROVE OnceInv'
  BY Zenon
<1>1. ASSUME NEW p \in Pushes, ingest_events(p) \/ run_syslog(p) \/ do_put(p) \/ Receiver(p) \/ GiveUp(p) PROVE OnceInv'
  <2>1. UNCHANGED <<dedup_recent, window, stored, restarts>>
    BY Zenon, <1>1 DEF ingest_events, run_syslog, Enqueue, do_put, Receiver, Respond, PutReply, GiveUp, actor, table, bounds
  <2> QED BY Zenon, <2>1, OnceQuiet
<1>2. CASE actor_loop
  BY Zenon, <1>2, OnceActor
<1>3. CASE Pipeline
  <2>1. UNCHANGED <<dedup_recent, window, stored, restarts>>
    BY Zenon, <1>3 DEF Pipeline, Recv, Coalesce, Commit, Acknowledge, Detect, actor, table, bounds
  <2> QED BY Zenon, <2>1, OnceQuiet
<1>4. CASE IngestCrash
  BY Zenon, <1>4, OnceCrash
<1>5. CASE UNCHANGED ingestVars
  <2>1. UNCHANGED <<dedup_recent, window, stored, restarts>>
    BY Zenon, <1>5 DEF ingestVars
  <2> QED BY Zenon, <2>1, OnceQuiet
<1> QED BY Zenon, <1>1, <1>2, <1>3, <1>4, <1>5 DEF IngestNext

\* With a window that holds every id, dedup_batch lets the writer actor append an
\* event at most once for every life of the process, over all transports, retries
\* and requests that outlive their sender's patience.
THEOREM EventStoredOnce == IngestSpec => []StoredOnce
<1>1. IngestInit => OnceInv
  <2> SUFFICES ASSUME IngestInit PROVE OnceInv
    BY Zenon
  <2>1. window = <<>> /\ restarts = 0 /\ stored = [e \in Events |-> 0]
    BY Zenon DEF IngestInit
  <2>2. IsInjective(window) /\ \A e \in Events : stored[e] <= restarts + (IF e \in Ids(window) THEN 1 ELSE 0)
    BY <2>1 DEF IsInjective, Ids
  <2> QED BY Zenon, <2>2 DEF OnceInv
<1>2. IngestInv /\ OnceInv => StoredOnce
  BY DEF IngestInv, IngestTypes, OnceInv, StoredOnce, Roomy
<1> QED BY <1>1, <1>2, IngestInvariance, OnceStep, PTL DEF IngestSpec
=============================================================================
