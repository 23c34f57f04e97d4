-------------------------- MODULE Registry_proofs ---------------------------
(***************************************************************************)
(* The last decision on a channel is live, and enforced, for every number  *)
(* of administrators, versions, channels, digests, failures and stops.     *)
(*                                                                         *)
(* The first rests on the order in which stamps are given, across the      *)
(* setting back of the clock, the second on who has yet to rebuild the     *)
(* configuration.                                                          *)
(*                                                                         *)
(* Beside it, the accounting of what collectors delivered: every number is *)
(* seen, outstanding or among the gaps, for every set of epochs and        *)
(* numbers and every order of the marks.  It rests on counting: of a set   *)
(* of numbers no more than n have less than n below them.                  *)
(***************************************************************************)
EXTENDS Registry, IngestSeq, FiniteSetTheorems, TLAPS


Recorded(d) == \E v \in Versions : d \in records[v]

Request ==
    [step : {"idle", "build"}]
    \cup [step : {"stamp"}, op : Ops, channel : Channels, digest : Digests]
    \cup [step : {"append"}, op : Ops, channel : Channels, digest : Digests,
          at : Nat, seen : Nat, supersedes : SUBSET Nat]
    \cup [step : {"swap"}, config : SUBSET Digests]
Promotion ==
    [op : Ops, channel : Channels, digest : Digests, audit : BOOLEAN,
     supersedes : SUBSET Nat, at : Nat, seen : Nat, nth : Nat]

RegTypes ==
    /\ records \in [Versions -> SUBSET Digests]
    /\ promotions \subseteq Promotion /\ IsFiniteSet(promotions)
    /\ request \in [Admins -> Request]
    /\ clock \in Nat /\ auditing \in BOOLEAN

\* Every promotion is audited and leads to a record; so does one in flight.
Bound ==
    /\ \A e \in promotions : e.audit /\ Recorded(e.digest)
    /\ \A a \in Promoting : auditing /\ Recorded(request[a].digest)

\* What is live on production is enforced, or about to be by a rebuild that read
\* it or has yet to read.
Enforcing ==
    ~overlapped =>
        /\ \A a, b \in Rebuilding : a = b
        /\ \/ \E a \in Admins : request[a].step = "build"
           \/ \E a \in Rebuilding : request[a].config = active("production")
           \/ Rebuilding = {} /\ enforced = active("production")

\* Stamps are even before the clock is set back and odd after.  Earlier is the
\* order in which they are given.
Earlier(s, t) == IF s % 2 = t % 2 THEN s < t ELSE s % 2 = 0
Given(t) == Earlier(t, clock)
Appending == {a \in Admins : request[a].step = "append"}

\* No two promotions have a stamp, and one of the first time supersedes only
\* what is older.
Stamped ==
    /\ clock % 2 = IF stepped THEN 1 ELSE 0
    /\ \A e \in promotions : Given(e.at) /\ (e.at % 2 = 0 => \A s \in e.supersedes : s < e.at)
    /\ \A a \in Appending : /\ Given(request[a].at)
                            /\ request[a].at % 2 = 0 => \A s \in request[a].supersedes : s < request[a].at
    /\ \A e, d \in promotions : e.at = d.at => e = d
    /\ \A a, b \in Appending : request[a].at = request[b].at => a = b
    /\ \A a \in Appending, e \in promotions : request[a].at # e.at

\* A promotion is numbered as it is stored; one in flight that nothing overtook
\* was stamped after all that are stored and supersedes the newest.
Numbered ==
    /\ \A e \in promotions : e.nth < Cardinality(promotions)
    /\ \A e, d \in promotions : e.nth = d.nth => e = d
    /\ \A a \in Appending :
          LET r == request[a]
          IN  /\ r.seen <= Cardinality(promotions)
              /\ r.seen = Cardinality(promotions) =>
                    /\ r.supersedes = {e.at : e \in Newest(OnChannel(r.channel))}
                    /\ \A e \in promotions : Earlier(e.at, r.at)

\* When no promotion overtook another, they were stamped in the order in which
\* they are stored, each supersedes an earlier one, and those of the first time
\* were all superseded but the last.
InOrder ==
    Serial =>
        /\ \A d, e \in promotions : d.nth < e.nth => Earlier(d.at, e.at)
        /\ \A e \in promotions : \A s \in e.supersedes :
              \E d \in promotions : d.at = s /\ d.nth < e.nth
        /\ \A d, e \in promotions :
              d.channel = e.channel /\ d.nth < e.nth /\ d.at % 2 = 0 =>
                  \E f \in promotions : f.channel = d.channel /\ d.at \in f.supersedes

RegInv == RegTypes /\ Bound /\ Enforcing /\ Stamped /\ Numbered /\ InOrder

\* What is live, of promotions that are all bound.
Live(P) == {e.digest : e \in {d \in newest_binding(P) : d.op # "Retire"}}

LEMMA LiveDigest ==
    ASSUME Bound, NEW ch
    PROVE  active(ch) = Live(Pointers(ch))
<1>1. {e \in promotions : e.channel = ch /\ e.op # "Reject"} = Pointers(ch)
  BY Zenon DEF Pointers, OnChannel
<1>2. newest_binding(Pointers(ch)) \subseteq promotions
  BY Zenon DEF newest_binding, Newest, Pointers, OnChannel
<1>3. {d \in newest_binding(Pointers(ch)) : d.op # "Retire" /\ \E v \in Versions : d.digest \in records[v]}
        = {d \in newest_binding(Pointers(ch)) : d.op # "Retire"}
  BY Zenon, <1>2 DEF Bound, Recorded
<1> QED BY Zenon, <1>1, <1>3 DEF active, Live

\* It changes with the pointers of the channel only.
LEMMA LiveSame ==
    ASSUME Bound, Bound', NEW ch, Pointers(ch)' = Pointers(ch)
    PROVE  active(ch)' = active(ch)
<1>1. active(ch) = Live(Pointers(ch))
  BY Zenon, LiveDigest
<1>2. (active(ch) = Live(Pointers(ch)))'
  BY LiveDigest, PTL
<1>3. Live(Pointers(ch))' = Live(Pointers(ch))
  BY Zenon DEF Live, newest_binding, Newest
<1> QED BY Zenon, <1>1, <1>2, <1>3

\* A request that moves on without a stamp leaves the stored promotions alone.
LEMMA RequestMoves ==
    ASSUME RegInv, NEW a \in Admins, NEW x \in Request, request' = [request EXCEPT ![a] = x],
           UNCHANGED <<auditing, records, promotions, clock, stepped>>,
           x.step # "append", x.step = "stamp" => auditing /\ Recorded(x.digest)
    PROVE  RegTypes' /\ Bound' /\ Stamped' /\ Numbered' /\ InOrder'
<1>1. request'[a] = x /\ \A b \in Admins : b # a => request'[b] = request[b]
  BY Zenon DEF RegInv, RegTypes
<1>2. Appending' \subseteq Appending /\ \A b \in Appending' : request'[b] = request[b]
  BY Zenon, <1>1 DEF Appending
<1>3. RegTypes'
  BY Zenon DEF RegInv, RegTypes
<1>4. Bound'
  BY Zenon, <1>1 DEF RegInv, Bound, Promoting, Recorded
<1>5. Stamped'
  BY <1>2 DEF RegInv, Stamped, Given
<1>6. Numbered'
  BY <1>2 DEF RegInv, Numbered, OnChannel, Newest
<1>7. InOrder'
  BY Zenon DEF RegInv, InOrder, Serial
<1> QED BY Zenon, <1>3, <1>4, <1>5, <1>6, <1>7

\* What is enforced is accounted for as long as the registry and the rebuilds
\* stay as they are.
LEMMA EnforcingStays ==
    ASSUME Enforcing, active("production")' = active("production"), UNCHANGED <<enforced, overlapped>>,
           \A a \in Admins : request[a].step \in {"build", "swap"} => request'[a] = request[a],
           \A a \in Admins : request'[a].step = "swap" => request'[a] = request[a]
    PROVE  Enforcing'
<1>1. Rebuilding' = Rebuilding /\ \A a \in Rebuilding : request'[a] = request[a]
  BY Zenon DEF Rebuilding
<1> QED BY Zenon, <1>1 DEF Enforcing

\* A new record changes nothing that is live.
LEMMA RegisterStep ==
    ASSUME RegInv, NEW v \in Versions, NEW d \in Digests, registry_register(v, d)
    PROVE  RegInv'
<1>0. /\ records' = [records EXCEPT ![v] = {d}] /\ records[v] = {}
      /\ UNCHANGED <<auditing, promotions, clock, stepped, request, enforced, overlapped>>
  BY Zenon DEF registry_register
<1>1. RegTypes'
  BY Zenon, <1>0 DEF RegInv, RegTypes
<1>2. \A c : Recorded(c) => Recorded(c)'
  BY Zenon, <1>0 DEF Recorded, RegInv, RegTypes
<1>3. Bound'
  BY Zenon, <1>0, <1>2 DEF RegInv, Bound, Promoting
<1>4. Stamped' /\ Numbered' /\ InOrder'
  <2>1. Appending' = Appending
    BY Zenon, <1>0 DEF Appending
  <2>2. Stamped'
    BY ZenonT(60), <1>0, <2>1 DEF RegInv, Stamped, Given
  <2>3. Numbered'
    BY ZenonT(60), <1>0, <2>1 DEF RegInv, Numbered, OnChannel, Newest
  <2>4. InOrder'
    BY <1>0 DEF RegInv, InOrder, Serial
  <2> QED BY Zenon, <2>2, <2>3, <2>4
<1>5. active("production")' = active("production")
  BY Zenon, <1>0, <1>3, LiveSame DEF RegInv, Pointers, OnChannel
<1>6. Enforcing'
  BY Zenon, <1>0, <1>5, EnforcingStays DEF RegInv
<1> QED BY Zenon, <1>1, <1>3, <1>4, <1>6 DEF RegInv

\* A request that begins, asks for a rebuild, builds or swaps.
LEMMA RebuildStep ==
    ASSUME RegInv, NEW a \in Admins,
           \/ \E v \in Versions, op \in Ops, ch \in Channels : do_promotion(a, v, op, ch)
           \/ appaudit_reload(a) \/ Build(a) \/ Swap(a)
    PROVE  RegInv'
<1>0. UNCHANGED <<auditing, records, promotions, clock, stepped>>
  BY Zenon DEF do_promotion, appaudit_reload, Build, Swap
<1>t. /\ records \in [Versions -> SUBSET Digests] /\ promotions \subseteq Promotion
      /\ request \in [Admins -> Request] /\ Bound /\ Enforcing
  BY Zenon DEF RegInv, RegTypes
<1>g. ASSUME NEW x \in Request, request' = [request EXCEPT ![a] = x],
             x.step # "append", x.step = "stamp" => auditing /\ Recorded(x.digest), Enforcing'
      PROVE  RegInv'
  BY Zenon, <1>0, <1>g, RequestMoves DEF RegInv
<1>e. ASSUME NEW x \in Request, request' = [request EXCEPT ![a] = x]
      PROVE  request'[a] = x /\ \A b \in Admins : b # a => request'[b] = request[b]
  BY Zenon, <1>t, <1>e
<1>l. ASSUME Bound' PROVE active("production")' = active("production")
  BY Zenon, <1>0, <1>t, <1>l, LiveSame DEF Pointers, OnChannel
<1>1. ASSUME NEW v \in Versions, NEW op \in Ops, NEW ch \in Channels, do_promotion(a, v, op, ch) PROVE RegInv'
  <2>1. PICK d \in records[v] : request' = [request EXCEPT ![a] = [step |-> "stamp", op |-> op, channel |-> ch, digest |-> d]]
    BY Zenon, <1>1 DEF do_promotion, Goto
  <2> DEFINE x == [step |-> "stamp", op |-> op, channel |-> ch, digest |-> d]
  <2>0. d \in Digests
    BY Zenon, <1>t
  <2>2. x \in Request /\ x.step = "stamp" /\ x.digest = d
    BY Zenon, <2>0 DEF Request
  <2>3. request' = [request EXCEPT ![a] = x]
    BY Zenon, <2>1
  <2> HIDE DEF x
  <2>4. auditing /\ Recorded(x.digest) /\ request[a].step = "idle" /\ UNCHANGED <<enforced, overlapped>>
    BY Zenon, <1>1, <2>1, <2>2 DEF do_promotion, Recorded
  <2>5. Bound'
    BY Zenon, <1>0, <2>2, <2>3, <2>4, RequestMoves
  <2>6. Enforcing'
    BY Zenon, <1>e, <1>l, <1>t, <2>2, <2>3, <2>4, <2>5, EnforcingStays
  <2> QED BY Zenon, <1>g, <2>2, <2>3, <2>4, <2>6
<1>2. CASE appaudit_reload(a)
  <2>1. /\ [step |-> "build"] \in Request
        /\ request' = [request EXCEPT ![a] = [step |-> "build"]] /\ request[a].step = "idle" /\ UNCHANGED <<enforced, overlapped>>
    BY Zenon, <1>2 DEF appaudit_reload, Goto, Request
  <2>0. request'[a] = [step |-> "build"] /\ \A b \in Admins : b # a => request'[b] = request[b]
    BY Zenon, <1>e, <2>1
  <2>2. request'[a].step = "build" /\ \A b \in Admins : b # a => request'[b] = request[b]
    BY <2>0
  <2>3. Rebuilding' = Rebuilding
    BY Zenon, <2>1, <2>2 DEF Rebuilding
  <2>4. Enforcing'
    BY Zenon, <1>t, <2>1, <2>2, <2>3 DEF Enforcing
  <2> QED BY Zenon, <1>g, <2>1, <2>4
<1>3. CASE Build(a)
  <2> DEFINE x == [step |-> "swap", config |-> active("production")]
  <2>1. active("production") \subseteq Digests
    BY Zenon, <1>t DEF active, newest_binding, Newest, Promotion
  <2>2. x \in Request /\ x.step = "swap" /\ x.config = active("production")
    BY Zenon, <2>1 DEF Request
  <2>3. /\ request' = [request EXCEPT ![a] = x] /\ request[a].step = "build"
        /\ overlapped' = (overlapped \/ Rebuilding # {}) /\ enforced' = enforced
    BY Zenon, <1>3 DEF Build, Goto
  <2> HIDE DEF x
  <2>4. request'[a] = x /\ \A b \in Admins : b # a => request'[b] = request[b]
    BY Zenon, <1>e, <2>2, <2>3
  <2>5. Bound'
    BY Zenon, <1>0, <2>2, <2>3, RequestMoves
  <2>6. active("production")' = active("production")
    BY Zenon, <1>l, <2>5
  <2>7. ASSUME ~overlapped' PROVE Rebuilding' = {a}
    BY ZenonT(60), <2>2, <2>3, <2>4, <2>7 DEF Rebuilding
  <2>8. Enforcing'
    BY Zenon, <2>2, <2>4, <2>6, <2>7 DEF Enforcing
  <2> QED BY Zenon, <1>g, <2>2, <2>3, <2>8
<1>4. CASE Swap(a)
  <2>1. /\ Idle \in Request /\ Idle.step = "idle"
        /\ request' = [request EXCEPT ![a] = Idle] /\ request[a].step = "swap"
        /\ enforced' = request[a].config /\ overlapped' = overlapped
    BY Zenon, <1>4 DEF Swap, Goto, Request, Idle
  <2>2. request'[a] = Idle /\ \A b \in Admins : b # a => request'[b] = request[b]
    BY Zenon, <1>e, <2>1
  <2>3. Bound'
    BY Zenon, <1>0, <2>1, RequestMoves
  <2>4. active("production")' = active("production")
    BY Zenon, <1>l, <2>3
  <2>5. ASSUME ~overlapped' PROVE Rebuilding = {a} /\ Rebuilding' = {}
    BY <1>t, <2>1, <2>2, <2>5 DEF Rebuilding, Enforcing
  <2>6. \A b \in Admins : request[b].step = "build" => request'[b].step = "build"
    BY Zenon, <2>1, <2>2
  <2>7. Enforcing'
    BY Zenon, <1>t, <2>1, <2>4, <2>5, <2>6 DEF Enforcing
  <2> QED BY Zenon, <1>g, <2>1, <2>7
<1> QED BY Zenon, <1>1, <1>2, <1>3, <1>4

\* The parity of a stamp and the order of two.
LEMMA Parity ==
    ASSUME NEW s \in Nat, NEW t \in Nat
    PROVE  /\ s % 2 \in {0, 1} /\ (s + 2) % 2 = s % 2
           /\ Earlier(s, t) => s # t
           /\ Earlier(s, t) => Earlier(s, t + 2)
           /\ Earlier(s, s + 2)
<1>1. s % 2 \in {0, 1} /\ (s + 2) % 2 = s % 2 /\ (t + 2) % 2 = t % 2
  OBVIOUS
<1> QED BY <1>1 DEF Earlier

\* A promotion is stamped: after all that are stored, with a stamp of its own.
LEMMA StampStep ==
    ASSUME RegInv, NEW a \in Admins, Stamp(a)
    PROVE  RegInv'
<1>t. /\ records \in [Versions -> SUBSET Digests] /\ promotions \subseteq Promotion /\ IsFiniteSet(promotions)
      /\ request \in [Admins -> Request] /\ clock \in Nat /\ Cardinality(promotions) \in Nat
      /\ Bound /\ Enforcing /\ Stamped /\ Numbered /\ InOrder
  BY Zenon, FS_CardinalityType DEF RegInv, RegTypes
<1> DEFINE r == request[a]
           sup == {e.at : e \in Newest(OnChannel(r.channel))}
           x == [step |-> "append", op |-> r.op, channel |-> r.channel, digest |-> r.digest,
                 at |-> clock, seen |-> Cardinality(promotions), supersedes |-> sup]
<1>1. /\ r.step = "stamp" /\ request' = [request EXCEPT ![a] = x] /\ clock' = clock + 2
      /\ UNCHANGED <<auditing, records, promotions, stepped, enforced, overlapped>>
  BY Zenon DEF Stamp, Goto, OnChannel
<1>2. r.op \in Ops /\ r.channel \in Channels /\ r.digest \in Digests
  <2>1. r \in Request
    BY Zenon, <1>t
  <2> QED BY Zenon, <1>1, <2>1 DEF Request
<1>3. sup \in SUBSET Nat /\ \A s \in sup : \E e \in promotions : e.at = s
  BY Zenon, <1>t DEF Newest, OnChannel, Promotion
<1>4. /\ x \in Request /\ x.step = "append" /\ x.at = clock /\ x.seen = Cardinality(promotions)
      /\ x.supersedes = sup /\ x.digest = r.digest /\ x.channel = r.channel
  BY Zenon, <1>2, <1>3, <1>t DEF Request
<1> HIDE DEF x, sup
<1>5. request'[a] = x /\ \A b \in Admins : b # a => request'[b] = request[b]
  BY Zenon, <1>1, <1>t
<1>6. RegTypes'
  BY <1>1, <1>4, <1>t DEF RegInv, RegTypes
<1>7. Bound'
  <2>1. \A b \in Promoting' : b \in Promoting /\ request'[b].digest = request[b].digest
    BY Zenon, <1>1, <1>4, <1>5 DEF Promoting
  <2> QED BY Zenon, <1>1, <1>t, <2>1 DEF Bound, Recorded
<1>8. Enforcing'
  <2>1. active("production")' = active("production")
    BY Zenon, <1>1, <1>t, <1>7, LiveSame DEF Pointers, OnChannel
  <2> QED BY Zenon, <1>1, <1>4, <1>5, <1>t, <2>1, EnforcingStays
<1>9. InOrder'
  BY ZenonT(60), <1>1, <1>t DEF InOrder, Serial
<1>10. \A b \in Appending' : b = a \/ (b \in Appending /\ request'[b] = request[b])
  BY Zenon, <1>5 DEF Appending
<1>11. /\ \A e \in promotions : e.at \in Nat /\ Earlier(e.at, clock)
       /\ \A b \in Appending : request[b].at \in Nat /\ Earlier(request[b].at, clock)
  <2>1. \A b \in Appending : request[b].at \in Nat
    BY Zenon, <1>t DEF Appending, Request
  <2> QED BY Zenon, <1>t, <2>1 DEF Stamped, Given, Promotion
<1>12. Numbered'
  <2>1. ASSUME NEW b \in Appending', b # a
        PROVE  /\ request'[b].seen <= Cardinality(promotions)
               /\ request'[b].seen = Cardinality(promotions) =>
                    /\ request'[b].supersedes = {e.at : e \in Newest(OnChannel(request'[b].channel))}
                    /\ \A e \in promotions : Earlier(e.at, request'[b].at)
    BY Zenon, <1>10, <1>t, <2>1 DEF Numbered
  <2>2. /\ x.seen <= Cardinality(promotions)
        /\ x.supersedes = {e.at : e \in Newest(OnChannel(x.channel))}
        /\ \A e \in promotions : Earlier(e.at, x.at)
    BY <1>4, <1>11, <1>t DEF sup
  <2>3. \A c : Newest(OnChannel(c))' = Newest(OnChannel(c))
    BY Zenon, <1>1 DEF Newest, OnChannel
  <2> QED BY ZenonT(60), <1>1, <1>5, <1>t, <2>1, <2>2, <2>3 DEF Numbered
<1>13. Stamped'
  <2>1. clock' % 2 = clock % 2
    BY Zenon, <1>1, <1>t, Parity
  <2>2. /\ \A e \in promotions : Earlier(e.at, clock') /\ e.at # clock
        /\ \A b \in Appending : Earlier(request[b].at, clock') /\ request[b].at # clock
        /\ Earlier(clock, clock')
    BY Zenon, <1>1, <1>11, <1>t, Parity
  <2>3. ASSUME clock % 2 = 0 PROVE \A s \in sup : s < clock
    <3>1. ASSUME NEW e \in promotions PROVE e.at < clock
      BY Zenon, <1>11, <2>3, <1>t, Parity DEF Earlier
    <3> QED BY Zenon, <1>3, <3>1
  <2>4. \A e \in promotions : Earlier(e.at, clock') /\ (e.at % 2 = 0 => \A s \in e.supersedes : s < e.at)
    BY Zenon, <1>t, <2>2 DEF Stamped, Given
  <2>5. \A b \in Appending' : /\ Earlier(request'[b].at, clock')
                              /\ request'[b].at % 2 = 0 => \A s \in request'[b].supersedes : s < request'[b].at
    BY Zenon, <1>4, <1>5, <1>10, <1>t, <2>2, <2>3 DEF Stamped, Given
  <2>6. \A b, c \in Appending' : request'[b].at = request'[c].at => b = c
    BY <1>4, <1>5, <1>10, <1>t, <2>2 DEF Stamped
  <2>7. \A b \in Appending', e \in promotions : request'[b].at # e.at
    BY <1>4, <1>5, <1>10, <1>t, <2>2 DEF Stamped
  <2> QED BY Zenon, <1>1, <1>t, <2>1, <2>4, <2>5, <2>6, <2>7 DEF Stamped, Given
<1> QED BY Zenon, <1>6, <1>7, <1>8, <1>9, <1>12, <1>13 DEF RegInv

\* A promotion is stored.
LEMMA AppendStep ==
    ASSUME RegInv, NEW a \in Admins, append_promotion(a)
    PROVE  RegInv'
<1>t. /\ records \in [Versions -> SUBSET Digests] /\ promotions \subseteq Promotion /\ IsFiniteSet(promotions)
      /\ request \in [Admins -> Request] /\ clock \in Nat /\ Cardinality(promotions) \in Nat
      /\ Bound /\ Enforcing /\ Stamped /\ Numbered /\ InOrder
  BY Zenon, FS_CardinalityType DEF RegInv, RegTypes
<1> DEFINE r == request[a]
           n == Cardinality(promotions)
           new == [op |-> r.op, channel |-> r.channel, digest |-> r.digest, audit |-> auditing,
                   supersedes |-> r.supersedes, at |-> r.at, seen |-> r.seen, nth |-> n]
           x == IF TouchesEnforcement(r.channel) THEN [step |-> "build"] ELSE Idle
<1>1. /\ r.step = "append" /\ request' = [request EXCEPT ![a] = x] /\ promotions' = promotions \cup {new}
      /\ UNCHANGED <<auditing, records, clock, stepped, enforced, overlapped>>
  BY Zenon DEF append_promotion, Goto
<1>2. /\ r.op \in Ops /\ r.channel \in Channels /\ r.digest \in Digests /\ r.at \in Nat /\ r.seen \in Nat
      /\ r.supersedes \in SUBSET Nat
  <2>1. r \in Request
    BY Zenon, <1>t
  <2> QED BY Zenon, <1>1, <2>1 DEF Request
<1>3. a \in Promoting /\ a \in Appending
  BY Zenon, <1>1 DEF Promoting, Appending
<1>5. /\ new.op = r.op /\ new.channel = r.channel /\ new.digest = r.digest /\ new.audit = auditing
      /\ new.supersedes = r.supersedes /\ new.at = r.at /\ new.seen = r.seen /\ new.nth = n
  BY Zenon
<1>6. new \in Promotion
  <2>1. auditing \in BOOLEAN
    BY Zenon, <1>3 DEF RegInv, RegTypes
  <2> QED BY Zenon, <1>2, <1>t, <2>1 DEF Promotion
<1>7. x \in Request /\ x.step = (IF r.channel = "production" THEN "build" ELSE "idle")
  BY Zenon DEF Request, Idle, TouchesEnforcement
<1> HIDE DEF new, x
<1>8. request'[a] = x /\ \A b \in Admins : b # a => request'[b] = request[b]
  BY Zenon, <1>1, <1>t
<1>9. \A b \in Appending' : b # a /\ b \in Appending /\ request'[b] = request[b]
  BY Zenon, <1>7, <1>8 DEF Appending
<1>10. new \notin promotions
  BY Zenon, <1>3, <1>5, <1>t DEF Stamped
<1>11. IsFiniteSet(promotions') /\ Cardinality(promotions') = n + 1 /\ n \in Nat
  BY Zenon, <1>1, <1>10, <1>t, FS_AddElement
<1>12. RegTypes'
  BY Zenon, <1>1, <1>6, <1>7, <1>11, <1>t DEF RegInv, RegTypes
<1>13. Bound'
  <2>1. auditing /\ Recorded(r.digest)
    BY Zenon, <1>3, <1>t DEF Bound
  <2>2. \A b \in Promoting' : b \in Promoting /\ request'[b] = request[b]
    BY Zenon, <1>7, <1>8 DEF Promoting
  <2>3. \A d : Recorded(d)' <=> Recorded(d)
    BY Zenon, <1>1 DEF Recorded
  <2> QED BY Zenon, <1>1, <1>5, <1>t, <2>1, <2>2, <2>3 DEF Bound
<1>14. Enforcing'
  <2>1. CASE r.channel = "production"
    <3>1. request'[a].step = "build"
      BY Zenon, <1>7, <1>8, <2>1
    <3>2. Rebuilding' = Rebuilding
      BY Zenon, <1>1, <1>8, <3>1 DEF Rebuilding
    <3> QED BY Zenon, <1>1, <1>t, <3>1, <3>2 DEF Enforcing
  <2>2. CASE r.channel # "production"
    <3>1. Pointers("production")' = Pointers("production")
      BY Zenon, <1>1, <1>5, <2>2 DEF Pointers, OnChannel
    <3>2. active("production")' = active("production")
      BY Zenon, <1>13, <1>t, <3>1, LiveSame
    <3>3. x.step = "idle"
      BY Zenon, <1>7, <2>2
    <3> QED BY Zenon, <1>1, <1>8, <1>t, <3>2, <3>3, EnforcingStays
  <2> QED BY Zenon, <2>1, <2>2
<1>15. Stamped'
  <2>1. /\ Earlier(r.at, clock) /\ (r.at % 2 = 0 => \A s \in r.supersedes : s < r.at)
        /\ \A e \in promotions : r.at # e.at
        /\ \A b \in Appending : request[b].at = r.at => b = a
    BY Zenon, <1>3, <1>t DEF Stamped, Given
  <2>2. \A e \in promotions' : Earlier(e.at, clock) /\ (e.at % 2 = 0 => \A s \in e.supersedes : s < e.at)
    BY Zenon, <1>1, <1>5, <1>t, <2>1 DEF Stamped, Given
  <2>3. \A e, d \in promotions' : e.at = d.at => e = d
    BY <1>1, <1>5, <1>t, <2>1 DEF Stamped
  <2>4. \A b \in Appending', e \in promotions' : request'[b].at # e.at
    BY <1>1, <1>5, <1>9, <1>t, <2>1 DEF Stamped
  <2>5. /\ \A b \in Appending' : /\ Earlier(request'[b].at, clock)
                                 /\ request'[b].at % 2 = 0 => \A s \in request'[b].supersedes : s < request'[b].at
        /\ \A b, c \in Appending' : request'[b].at = request'[c].at => b = c
    BY Zenon, <1>9, <1>t DEF Stamped, Given
  <2> QED BY <1>1, <1>t, <2>2, <2>3, <2>4, <2>5 DEF Stamped, Given
<1>16. Numbered'
  <2>1. \A e \in promotions : e.nth < n /\ e.nth \in Nat
    BY Zenon, <1>t DEF Numbered, Promotion
  <2>2. \A e \in promotions' : e.nth < n + 1
    BY <1>1, <1>5, <1>11, <2>1
  <2>3. \A e, d \in promotions' : e.nth = d.nth => e = d
    BY <1>1, <1>5, <1>11, <1>t, <2>1 DEF Numbered
  <2>4. \A b \in Appending' : request'[b].seen < n + 1
    <3>1. \A b \in Appending : request[b].seen <= n /\ request[b].seen \in Nat
      BY Zenon, <1>t DEF Numbered, Appending, Request
    <3> QED BY <1>9, <1>11, <3>1
  <2>5. \A b \in Appending' : request'[b].seen \in Nat
    BY Zenon, <1>9, <1>t DEF Appending, Request
  <2>6. \A b \in Appending' : request'[b].seen <= n + 1 /\ request'[b].seen # n + 1
    BY <1>11, <2>4, <2>5
  <2> QED BY Zenon, <1>11, <2>2, <2>3, <2>6 DEF Numbered
<1>17. InOrder'
  <2> SUFFICES ASSUME Serial'
               PROVE  /\ \A d, e \in promotions' : d.nth < e.nth => Earlier(d.at, e.at)
                      /\ \A e \in promotions' : \A s \in e.supersedes :
                            \E d \in promotions' : d.at = s /\ d.nth < e.nth
                      /\ \A d, e \in promotions' :
                            d.channel = e.channel /\ d.nth < e.nth /\ d.at % 2 = 0 =>
                                \E f \in promotions' : f.channel = d.channel /\ d.at \in f.supersedes
    BY Zenon DEF InOrder
  <2>1. Serial /\ r.seen = n
    BY Zenon, <1>1, <1>5 DEF Serial
  <2>2. /\ r.supersedes = {e.at : e \in Newest(OnChannel(r.channel))}
        /\ \A e \in promotions : Earlier(e.at, r.at)
    BY Zenon, <1>3, <1>t, <2>1 DEF Numbered
  <2>3. \A e \in promotions : e.nth < n /\ e.nth \in Nat /\ e.at \in Nat
    BY Zenon, <1>t DEF Numbered, Promotion
  <2>4. \A e \in promotions' : ~(n < e.nth) /\ (n = e.nth => e = new)
    BY <1>1, <1>5, <1>11, <2>3
  <2>5. ASSUME NEW d \in promotions', NEW e \in promotions', d.nth < e.nth PROVE d \in promotions /\ Earlier(d.at, e.at)
    <3>1. d \in promotions
      BY Zenon, <1>1, <1>5, <2>4, <2>5
    <3> QED BY Zenon, <1>1, <1>5, <1>t, <2>1, <2>2, <2>5, <3>1 DEF InOrder
  <2>6. ASSUME NEW e \in promotions', NEW s \in e.supersedes PROVE \E d \in promotions' : d.at = s /\ d.nth < e.nth
    <3>1. CASE e \in promotions
      BY Zenon, <1>1, <1>t, <2>1, <2>6, <3>1 DEF InOrder
    <3>2. CASE e = new
      <4>1. PICK d \in promotions : d.at = s
        BY <1>5, <2>2, <2>6, <3>2 DEF Newest, OnChannel
      <4> QED BY Zenon, <1>1, <1>5, <2>3, <3>2, <4>1
    <3> QED BY Zenon, <1>1, <3>1, <3>2
  <2>7. ASSUME NEW d \in promotions', NEW e \in promotions', d.channel = e.channel, d.nth < e.nth, d.at % 2 = 0
        PROVE  \E f \in promotions' : f.channel = d.channel /\ d.at \in f.supersedes
    <3>0. d \in promotions
      BY Zenon, <2>5, <2>7
    <3>1. CASE \E f \in promotions : f.channel = d.channel /\ d.nth < f.nth
      BY Zenon, <1>1, <1>t, <2>1, <2>7, <3>0, <3>1 DEF InOrder
    <3>2. CASE ~ \E f \in promotions : f.channel = d.channel /\ d.nth < f.nth
      <4>1. e = new /\ d.channel = r.channel
        BY Zenon, <1>1, <1>5, <2>7, <3>2
      <4>2. ASSUME NEW f \in promotions, f.channel = d.channel PROVE f.at <= d.at
        <5>1. f = d \/ f.nth < d.nth
          BY <1>t, <2>3, <3>0, <3>2, <4>2 DEF Numbered
        <5>2. f.nth < d.nth => Earlier(f.at, d.at)
          BY Zenon, <1>t, <2>1, <3>0 DEF InOrder
        <5>3. f.at \in Nat /\ d.at \in Nat /\ f.at % 2 \in {0, 1}
          BY Zenon, <2>3, <3>0, Parity
        <5> QED BY <2>7, <5>1, <5>2, <5>3 DEF Earlier
      <4>3. d \in Newest(OnChannel(r.channel))
        BY Zenon, <3>0, <4>1, <4>2 DEF Newest, OnChannel
      <4> QED BY Zenon, <1>1, <1>5, <2>2, <4>1, <4>3
    <3> QED BY Zenon, <3>1, <3>2
  <2> QED BY Zenon, <2>5, <2>6, <2>7
<1> QED BY Zenon, <1>12, <1>13, <1>14, <1>15, <1>16, <1>17 DEF RegInv

\* The clock is set back: from now on stamps are odd.
LEMMA StepBackStep ==
    ASSUME RegInv, StepBack
    PROVE  RegInv'
<1>1. /\ ~stepped /\ stepped' = TRUE /\ clock' \in Nat /\ clock' % 2 = 1
      /\ UNCHANGED <<auditing, records, promotions, request, enforced, overlapped>>
  <2>1. clock \in Nat /\ ~stepped
    BY Zenon DEF StepBack, RegInv, RegTypes
  <2>2. clock' \in 1 .. (clock - 1) /\ clock' % 2 = 1
    BY Zenon DEF StepBack
  <2>3. clock' \in Nat
    BY <2>1, <2>2
  <2>4. stepped' = TRUE /\ UNCHANGED <<auditing, records, promotions, request, enforced, overlapped>>
    BY Zenon DEF StepBack
  <2> QED BY Zenon, <2>1, <2>2, <2>3, <2>4
<1>2. RegTypes' /\ Bound'
  BY Zenon, <1>1 DEF RegInv, RegTypes, Bound, Promoting, Recorded
<1>3. Enforcing'
  <2>1. active("production")' = active("production")
    BY Zenon, <1>1, <1>2, LiveSame DEF RegInv, Pointers, OnChannel
  <2> QED BY Zenon, <1>1, <2>1, EnforcingStays DEF RegInv
<1>4. Appending' = Appending
  BY Zenon, <1>1 DEF Appending
<1>5. Numbered'
  BY ZenonT(60), <1>1, <1>4 DEF RegInv, Numbered, OnChannel, Newest
<1>6. InOrder'
  BY Zenon, <1>1 DEF RegInv, InOrder, Serial
<1>7. Stamped'
  <2>1. clock % 2 = 0 /\ clock \in Nat
    BY Zenon, <1>1 DEF RegInv, RegTypes, Stamped
  <2>2. ASSUME NEW t \in Nat, Earlier(t, clock) PROVE Earlier(t, clock')
    <3>1. t % 2 = 0
      BY Zenon, <2>1, <2>2 DEF Earlier
    <3>2. clock' % 2 = 1
      BY Zenon, <1>1
    <3>3. t % 2 # clock' % 2
      BY <3>1, <3>2
    <3> QED BY Zenon, <3>1, <3>3 DEF Earlier
  <2>3. \A e \in promotions : e.at \in Nat
    BY Zenon DEF RegInv, RegTypes, Promotion
  <2>4. \A a \in Appending : request[a].at \in Nat
    BY Zenon DEF RegInv, RegTypes, Appending, Request
  <2>5. /\ \A e \in promotions : Earlier(e.at, clock')
        /\ \A a \in Appending : Earlier(request[a].at, clock')
    BY Zenon, <2>2, <2>3, <2>4 DEF RegInv, Stamped, Given
  <2> QED BY ZenonT(60), <1>1, <1>4, <2>5 DEF RegInv, Stamped, Given
<1> QED BY Zenon, <1>2, <1>3, <1>5, <1>6, <1>7 DEF RegInv

\* serve restarts: nothing is in flight and what is live is enforced.
LEMMA RegRestartStep ==
    ASSUME RegInv, RegRestart
    PROVE  RegInv'
<1>1. /\ request' = [a \in Admins |-> Idle] /\ enforced' = active("production")
      /\ UNCHANGED <<auditing, records, promotions, clock, stepped>>
  BY Zenon DEF RegRestart
<1>2. Idle \in Request /\ Idle.step = "idle"
  BY Zenon DEF Idle, Request
<1>3. Appending' = {} /\ Promoting' = {} /\ Rebuilding' = {}
  BY Zenon, <1>1, <1>2 DEF Appending, Promoting, Rebuilding
<1>4. RegTypes' /\ Bound'
  BY Zenon, <1>1, <1>2, <1>3 DEF RegInv, RegTypes, Bound, Recorded
<1>5. active("production")' = active("production")
  BY Zenon, <1>1, <1>4, LiveSame DEF RegInv, Pointers, OnChannel
<1>6. Enforcing'
  BY Zenon, <1>1, <1>3, <1>5 DEF Enforcing
<1>7. Stamped' /\ Numbered'
  BY Zenon, <1>1, <1>3 DEF RegInv, Stamped, Numbered, Given
<1>8. InOrder'
  BY Zenon, <1>1 DEF RegInv, InOrder, Serial
<1> QED BY Zenon, <1>4, <1>6, <1>7, <1>8 DEF RegInv

\* Every step keeps the invariant.
LEMMA RegStep == RegInv /\ [RegNext]_regVars => RegInv'
<1> SUFFICES ASSUME RegInv, [RegNext]_regVars PROVE RegInv'
  BY Zenon
<1>1. CASE UNCHANGED regVars
  <2>1. UNCHANGED <<auditing, records, promotions, clock, stepped, request, enforced, overlapped>>
    BY Zenon, <1>1 DEF regVars
  <2>2. Appending' = Appending /\ Promoting' = Promoting /\ Rebuilding' = Rebuilding
    BY Zenon, <2>1 DEF Appending, Promoting, Rebuilding
  <2>3. RegTypes' /\ Bound'
    BY Zenon, <2>1, <2>2 DEF RegInv, RegTypes, Bound, Recorded
  <2>4. active("production")' = active("production")
    BY Zenon, <2>1, <2>3, LiveSame DEF RegInv, Pointers, OnChannel
  <2>5. Enforcing'
    BY Zenon, <2>1, <2>4, EnforcingStays DEF RegInv
  <2>6. Stamped'
    BY ZenonT(60), <2>1, <2>2 DEF RegInv, Stamped, Given
  <2>7. Numbered'
    BY ZenonT(60), <2>1, <2>2 DEF RegInv, Numbered, OnChannel, Newest
  <2>8. InOrder'
    BY Zenon, <2>1 DEF RegInv, InOrder, Serial
  <2> QED BY Zenon, <2>3, <2>5, <2>6, <2>7, <2>8 DEF RegInv
<1> QED
  BY Zenon, <1>1, RegisterStep, RebuildStep, StampStep, AppendStep, RegRestartStep, StepBackStep DEF RegNext

\* Nothing is registered at first.
LEMMA RegFirst == RegInit => RegInv
<1> SUFFICES ASSUME RegInit PROVE RegInv
  BY Zenon
<1>1. /\ promotions = {} /\ request = [a \in Admins |-> Idle] /\ clock = 2 /\ ~stepped
      /\ auditing \in BOOLEAN /\ enforced = {} /\ records = [v \in Versions |-> {}]
  BY Zenon DEF RegInit
<1>2. Idle \in Request /\ Idle.step = "idle"
  BY Zenon DEF Idle, Request
<1>3. Appending = {} /\ Promoting = {} /\ Rebuilding = {}
  BY Zenon, <1>1, <1>2 DEF Appending, Promoting, Rebuilding
<1>4. RegTypes
  BY Zenon, <1>1, <1>2, FS_EmptySet DEF RegTypes
<1>5. Bound /\ Stamped /\ InOrder
  BY <1>1, <1>3 DEF RegInit, Bound, Stamped, InOrder
<1>6. Numbered
  BY Zenon, <1>1, <1>3 DEF Numbered
<1>7. active("production") = {}
  BY Zenon, <1>1 DEF active, newest_binding, Newest
<1> QED BY Zenon, <1>1, <1>3, <1>4, <1>5, <1>6, <1>7 DEF RegInv, Enforcing

\* The invariant holds in every reachable state.
LEMMA RegHolds == RegSpec => []RegInv
  BY RegFirst, RegStep, PTL DEF RegSpec

\* verify_registry has nothing to find, whatever is in flight (do_promotion).
THEOREM PromotionsAreBound == RegSpec => []RegistryVerifies
<1>1. RegInv => RegistryVerifies
  BY Zenon DEF RegInv, Bound, Recorded, RegistryVerifies, verify_registry
<1> QED BY <1>1, RegHolds, PTL

\* With every request done, what is enforced is what is live, unless rebuilds
\* overlapped (append_promotion, AppAudit::reload).
THEOREM LiveIsEnforced == RegSpec => []EnforcedIsLive
<1>1. RegInv => EnforcedIsLive
  BY Zenon DEF RegInv, Enforcing, EnforcedIsLive, Rebuilding
<1> QED BY <1>1, RegHolds, PTL

\* The promotion that is the only newest one of those not superseded is live.
LEMMA LiveOne ==
    ASSUME RegInv, NEW ch \in Channels, NEW e \in Pointers(ch),
           \A f \in Pointers(ch) : e.at \notin f.supersedes,
           \A d \in Pointers(ch) : d # e /\ (\A f \in Pointers(ch) : d.at \notin f.supersedes) => d.at < e.at
    PROVE  active(ch) = IF e.op = "Retire" THEN {} ELSE {e.digest}
<1>1. active(ch) = Live(Pointers(ch))
  BY Zenon, LiveDigest DEF RegInv
<1>2. Pointers(ch) \subseteq promotions /\ (\A d \in Pointers(ch) : d.at \in Nat) /\ \A d \in Pointers(ch) : d.audit
  BY Zenon DEF Pointers, OnChannel, RegInv, RegTypes, Promotion, Bound
<1> DEFINE free == {d \in Pointers(ch) : d.at \notin UNION {f.supersedes : f \in Pointers(ch)}}
<1>3. {d \in Pointers(ch) : d.audit} = Pointers(ch)
  BY Zenon, <1>2
<1>4. newest_binding(Pointers(ch)) = Newest(free)
  BY Zenon, <1>3 DEF newest_binding
<1>5. /\ e \in free /\ e.at \in Nat
      /\ \A d \in free : d # e => d.at < e.at /\ d.at \in Nat
  BY Zenon, <1>2
<1> HIDE DEF free
<1>6. Newest(free) = {e}
  <2>1. ASSUME NEW d \in free PROVE (\A c \in free : c.at <= d.at) <=> d = e
    <3>1. CASE d = e
      BY <1>5, <3>1
    <3>2. CASE d # e
      <4>1. ~(e.at <= d.at)
        BY <1>5, <2>1, <3>2
      <4> QED BY Zenon, <1>5, <3>2, <4>1
    <3> QED BY Zenon, <3>1, <3>2
  <2> QED BY Zenon, <1>5, <2>1 DEF Newest
<1> QED BY <1>1, <1>4, <1>6 DEF Live

\* The last decision stands: by its stamp while the clock goes forward, by the
\* order of storing after it was set back (newest_binding, do_promotion).
THEOREM DecisionStands == RegSpec => []LastDecisionStands
<1>1. ASSUME RegInv PROVE LastDecisionStands
  <2> SUFFICES ASSUME NEW ch \in Channels, NEW e \in Pointers(ch),
                      IF stepped
                      THEN /\ Serial /\ Pointers(ch) = OnChannel(ch)
                           /\ \A d \in Pointers(ch) : d.nth <= e.nth
                      ELSE e \in Newest(Pointers(ch))
               PROVE  active(ch) = IF e.op = "Retire" THEN {} ELSE {e.digest}
    BY Zenon DEF LastDecisionStands
  <2>0. /\ Pointers(ch) \subseteq promotions
        /\ \A d \in promotions : d.at \in Nat /\ d.nth \in Nat /\ d.supersedes \subseteq Nat /\ d.at % 2 \in {0, 1}
    <3>1. \A d \in promotions : d.at \in Nat /\ d.nth \in Nat /\ d.supersedes \subseteq Nat
      BY Zenon, <1>1 DEF RegInv, RegTypes, Promotion
    <3> QED BY Zenon, <3>1, Parity DEF Pointers, OnChannel
  <2>1. CASE ~stepped
    <3>1. clock \in Nat /\ clock % 2 = 0 /\ \A d \in promotions : Earlier(d.at, clock)
      BY Zenon, <1>1, <2>1 DEF RegInv, RegTypes, Stamped, Given
    <3>2. \A d \in promotions : d.at % 2 = 0
      BY Zenon, <2>0, <3>1 DEF Earlier
    <3>3. \A d \in Pointers(ch) : d.at <= e.at
      BY Zenon, <2>1 DEF Newest
    <3>4. ASSUME NEW f \in Pointers(ch) PROVE e.at \notin f.supersedes
      <4>1. f \in promotions /\ e \in promotions /\ f.at <= e.at /\ f.at \in Nat /\ e.at \in Nat
        BY Zenon, <2>0, <3>3
      <4>2. \A s \in f.supersedes : s < f.at
        BY Zenon, <1>1, <3>2, <4>1 DEF RegInv, Stamped
      <4> QED BY <4>1, <4>2
    <3>5. ASSUME NEW d \in Pointers(ch), d # e PROVE d.at < e.at
      <4>1. d.at # e.at
        BY Zenon, <1>1, <2>0, <3>5 DEF RegInv, Stamped
      <4> QED BY <2>0, <3>3, <4>1
    <3> QED BY Zenon, <1>1, <3>4, <3>5, LiveOne
  <2>2. CASE stepped
    <3>1. Serial /\ Pointers(ch) = OnChannel(ch) /\ \A d \in Pointers(ch) : d.nth <= e.nth
      BY Zenon, <2>2
    <3>2. ASSUME NEW f \in Pointers(ch) PROVE e.at \notin f.supersedes
      <4>1. SUFFICES ASSUME e.at \in f.supersedes PROVE FALSE
        BY Zenon
      <4>2. PICK d \in promotions : d.at = e.at /\ d.nth < f.nth
        BY Zenon, <1>1, <2>0, <3>1, <4>1 DEF RegInv, InOrder
      <4>3. d = e
        BY Zenon, <1>1, <2>0, <4>2 DEF RegInv, Stamped
      <4> QED BY <2>0, <3>1, <4>2, <4>3
    <3>3. ASSUME NEW d \in Pointers(ch), d # e, \A f \in Pointers(ch) : d.at \notin f.supersedes PROVE d.at < e.at
      <4>1. d \in promotions /\ e \in promotions /\ d.channel = ch /\ e.channel = ch
        BY Zenon, <2>0, <3>1 DEF OnChannel
      <4>2. d.nth < e.nth
        BY <1>1, <2>0, <3>1, <3>3, <4>1 DEF RegInv, Numbered
      <4>3. Earlier(d.at, e.at)
        BY Zenon, <1>1, <3>1, <4>1, <4>2 DEF RegInv, InOrder
      <4>4. d.at % 2 # 0
        <5>1. ASSUME NEW f \in promotions, f.channel = d.channel PROVE f \in Pointers(ch)
          BY Zenon, <3>1, <4>1, <5>1 DEF OnChannel
        <5> QED BY Zenon, <1>1, <3>1, <3>3, <4>1, <4>2, <5>1 DEF RegInv, InOrder
      <4> QED BY Zenon, <4>3, <4>4 DEF Earlier
    <3> QED BY Zenon, <1>1, <3>2, <3>3, LiveOne
  <2> QED BY Zenon, <2>1, <2>2
<1> QED BY <1>1, RegHolds, PTL

-----------------------------------------------------------------------------
(* The delivery accounting *)

\* A set of numbers has a least element.
LEMMA NatMin ==
    ASSUME NEW T, T \subseteq Nat, T # {}
    PROVE  \E x \in T : \A y \in T : x <= y
<1> DEFINE R == OpToRel(<, Nat)
<1>1. IsWellFoundedOn(R, Nat)
  BY Zenon, NatLessThanWellFounded
<1>2. PICK x \in T : \A y \in T : ~ (<<y, x>> \in R)
  BY Zenon, <1>1, WFMin
<1>3. R = {ss \in Nat \X Nat : ss[1] < ss[2]}
  BY Zenon DEF OpToRel
<1> HIDE DEF R
<1>4. \A y \in T : x <= y
  <2> TAKE y \in T
  <2>1. ~ (<<y, x>> \in {ss \in Nat \X Nat : ss[1] < ss[2]})
    BY Zenon, <1>2, <1>3
  <2> QED BY <2>1
<1> QED BY Zenon, <1>4

\* A finite set of numbers has a greatest element.
LEMMA FiniteMax ==
    ASSUME NEW S, S \subseteq Int, S # {}, IsFiniteSet(S)
    PROVE  \E x \in S : \A y \in S : y <= x
<1> DEFINE Bad == {n \in Nat : \E T \in SUBSET S : T # {} /\ Cardinality(T) = n /\ \A x \in T : \E y \in T : ~(y <= x)}
<1>1. Bad = {}
  <2> SUFFICES ASSUME Bad # {} PROVE FALSE
    BY Zenon
  <2>1. PICK n \in Bad : \A k \in Bad : n <= k
    BY Zenon, NatMin, Bad \subseteq Nat
  <2>2. PICK T \in SUBSET S : T # {} /\ Cardinality(T) = n /\ \A x \in T : \E y \in T : ~(y <= x)
    BY Zenon, <2>1
  <2>3. PICK a \in T : TRUE
    BY Zenon, <2>2
  <2>4. IsFiniteSet(T)
    BY Zenon, FS_Subset
  <2>5. IsFiniteSet(T \ {a}) /\ Cardinality(T \ {a}) = n - 1 /\ n \in Nat
    BY Zenon, <2>4, <2>2, <2>3, FS_RemoveElement, FS_CardinalityType
  <2>6. T \ {a} # {}
    BY <2>2, <2>3
  <2>7. n - 1 \in Nat
    BY Zenon, <2>5, FS_CardinalityType
  <2>8. n - 1 \notin Bad
    BY <2>1, <2>5
  <2>9. PICK m \in T \ {a} : \A y \in T \ {a} : y <= m
    BY Zenon, <2>8, <2>7, <2>6, <2>5
  <2>10. m \in Int /\ a \in Int /\ T \subseteq Int
    BY Zenon
  <2> QED BY <2>2, <2>9, <2>10
<1>2. Cardinality(S) \in Nat /\ Cardinality(S) \notin Bad
  BY Zenon, <1>1, FS_CardinalityType
<1> HIDE DEF Bad
<1>3. SUFFICES ASSUME ~ \E x \in S : \A y \in S : y <= x PROVE FALSE
  BY Zenon
<1> QED BY Zenon, <1>2, <1>3 DEF Bad

\* The state of an epoch.
SeqState == [first : Nat, high : Nat, missing : SUBSET Nat, gaps : Nat, replays : Nat]

\* The numbers up to the highest that are neither seen nor outstanding.
Unaccounted(st, S) == (st.first .. st.high) \ (S \cup st.missing)

\* What is outstanding lies in the range, and what is not accounted for is in the gaps.
Accounted(st, S) ==
    /\ st \in SeqState /\ st.first <= st.high
    /\ st.missing \subseteq st.first .. st.high
    /\ Cardinality(Unaccounted(st, S)) <= st.gaps

\* The inductive invariant: every row that is kept accounts for its numbers.
SeqInv ==
    /\ marks \in Seq(Epochs \X Seqs)
    /\ DOMAIN rows = Epochs /\ DOMAIN seen = Epochs
    /\ IsFiniteSet(Kept(rows))
    /\ \A e \in Epochs : \A st \in rows[e] : Accounted(st, seen[e])

\* The ranges are finite, and so is what is outstanding.
LEMMA AccountedFinite ==
    ASSUME NEW st, NEW S, Accounted(st, S)
    PROVE  /\ IsFiniteSet(st.missing) /\ IsFiniteSet(Unaccounted(st, S))
           /\ Cardinality(Unaccounted(st, S)) \in Nat
<1>1. st.first \in Int /\ st.high \in Int
  BY DEF Accounted, SeqState
<1>2. IsFiniteSet(st.first .. st.high)
  BY Zenon, <1>1, FS_Interval
<1>3. Unaccounted(st, S) \in SUBSET (st.first .. st.high) /\ st.missing \in SUBSET (st.first .. st.high)
  BY Zenon DEF Unaccounted, Accounted
<1> QED BY Zenon, <1>2, <1>3, FS_Subset, FS_CardinalityType

\* No more than n numbers have less than n below them.
LEMMA SmallestBound ==
    ASSUME NEW S, S \subseteq Nat, IsFiniteSet(S), NEW n \in Nat
    PROVE  /\ Smallest(S, n) \subseteq S /\ IsFiniteSet(Smallest(S, n))
           /\ Cardinality(Smallest(S, n)) \in Nat /\ Cardinality(Smallest(S, n)) <= n
<1> DEFINE A == Smallest(S, n)
<1>1. A \in SUBSET S
  BY Zenon DEF Smallest
<1>2. IsFiniteSet(A) /\ Cardinality(A) \in Nat
  BY Zenon, <1>1, FS_Subset, FS_CardinalityType
<1>3. CASE A = {}
  <2>1. Cardinality(A) = 0
    BY Zenon, <1>3, FS_EmptySet
  <2> QED BY <1>1, <1>2, <2>1
<1>4. CASE A # {}
  <2> HIDE DEF A
  <2>1. A \subseteq Int
    <3>1. \A x \in Nat : x \in Int
      OBVIOUS
    <3> QED BY Zenon, <1>1, <3>1
  <2>2. PICK m \in A : \A y \in A : y <= m
    BY Zenon, <1>2, <1>4, <2>1, FiniteMax
  <2> DEFINE B == {y \in S : y < m}
  <2>3. Cardinality(B) < n
    BY Zenon, <2>2 DEF A, Smallest
  <2>4. B \in SUBSET S /\ m \notin B
    BY <1>1, <2>2
  <2>5. A \in SUBSET (B \cup {m})
    BY <1>1, <2>1, <2>2
  <2> HIDE DEF B
  <2>6. IsFiniteSet(B) /\ Cardinality(B) \in Nat
    BY Zenon, <2>4, FS_Subset, FS_CardinalityType
  <2>7. IsFiniteSet(B \cup {m}) /\ Cardinality(B \cup {m}) = Cardinality(B) + 1
    BY Zenon, <2>4, <2>6, FS_AddElement
  <2>8. Cardinality(A) <= Cardinality(B \cup {m})
    BY Zenon, <2>5, <2>7, FS_Subset
  <2>9. Cardinality(A) <= n
    BY <1>2, <2>3, <2>6, <2>7, <2>8
  <2> QED BY Zenon, <1>1, <1>2, <2>9 DEF A
<1> QED BY Zenon, <1>3, <1>4

\* classify keeps the account of an epoch.
LEMMA ClassifyKeeps ==
    ASSUME NEW S, NEW st, Accounted(st, S), NEW s \in Nat
    PROVE  Accounted(classify(st, s), S \cup {s})
<1> DEFINE c == classify(st, s)
           U == Unaccounted(st, S)
           V == Unaccounted(c, S \cup {s})
<1>1. /\ st \in SeqState /\ st.first <= st.high /\ st.missing \subseteq st.first .. st.high /\ Cardinality(U) <= st.gaps
      /\ st.first \in Nat /\ st.high \in Nat /\ st.gaps \in Nat
  BY DEF Accounted, SeqState
<1>2. IsFiniteSet(st.missing) /\ IsFiniteSet(U) /\ Cardinality(U) \in Nat
  BY Zenon, AccountedFinite
<1>3. CASE s <= st.high
  <2>1. c \in {[st EXCEPT !.missing = @ \ {s}], [st EXCEPT !.replays = @ + 1]}
        /\ (s \in st.missing \/ c.missing = st.missing)
    BY <1>1, <1>3 DEF classify, SeqState
  <2>2. /\ c \in SeqState /\ c.first = st.first /\ c.high = st.high /\ c.gaps = st.gaps
        /\ c.missing \subseteq st.missing /\ st.missing \subseteq c.missing \cup {s}
    BY <1>1, <2>1 DEF SeqState
  <2>3. V \in SUBSET U
    BY Zenon, <2>2 DEF Unaccounted
  <2>4. Cardinality(V) <= Cardinality(U) /\ Cardinality(V) \in Nat
    BY Zenon, <1>2, <2>3, FS_Subset, FS_CardinalityType
  <2>5. Cardinality(V) <= c.gaps
    BY <1>1, <1>2, <2>2, <2>4
  <2> HIDE DEF c
  <2>6. Accounted(c, S \cup {s})
    BY Zenon, <1>1, <2>2, <2>5 DEF Accounted
  <2> QED BY Zenon, <2>6 DEF c
<1>4. CASE ~ (s <= st.high)
  <2> DEFINE holes == st.missing \cup (st.high + 1 .. s - 1)
             over == IF Cardinality(holes) > MissingCap THEN Cardinality(holes) - MissingCap ELSE 0
             D == Smallest(holes, over)
  <2>1. c = [st EXCEPT !.high = s, !.missing = holes \ D, !.gaps = @ + over]
    BY Zenon, <1>4 DEF classify
  <2>2. holes \subseteq Nat /\ holes \subseteq st.first .. s
    BY <1>1, <1>4
  <2>3. IsFiniteSet(holes)
    <3>1. IsFiniteSet(st.high + 1 .. s - 1)
      BY <1>1, FS_Interval
    <3> QED BY Zenon, <1>2, <3>1, FS_Union
  <2>4. over \in Nat
    <3>1. Cardinality(holes) \in Nat /\ MissingCap \in Nat
      BY Zenon, <2>3, FS_CardinalityType, SeqAssumption
    <3> QED BY <3>1
  <2>u. st.missing \subseteq holes /\ \A x \in st.first .. s : x \in st.first .. st.high \/ x \in holes \/ x = s
    BY <1>1, <1>4
  <2> HIDE DEF holes, over
  <2>5. D \subseteq holes /\ IsFiniteSet(D) /\ Cardinality(D) \in Nat /\ Cardinality(D) <= over
    BY Zenon, <2>2, <2>3, <2>4, SmallestBound
  <2> HIDE DEF D
  <2>6. /\ c \in SeqState /\ c.first = st.first /\ c.high = s /\ c.missing = holes \ D
        /\ c.gaps = st.gaps + over
    <3>1. holes \ D \in SUBSET Nat
      BY Zenon, <2>2
    <3>2. st.gaps + over \in Nat
      BY <1>1, <2>4
    <3> QED BY <1>1, <2>1, <3>1, <3>2 DEF SeqState
  <2> HIDE DEF c
  <2>7. V \in SUBSET (U \cup D)
    BY Zenon, <2>6, <2>u DEF Unaccounted
  <2>8. IsFiniteSet(U \cup D) /\ Cardinality(U \cup D) = Cardinality(U) + Cardinality(D) - Cardinality(U \cap D)
        /\ Cardinality(U \cap D) \in Nat
    BY Zenon, <1>2, <2>5, FS_Union, FS_Intersection, FS_CardinalityType
  <2>9. Cardinality(V) <= Cardinality(U \cup D) /\ Cardinality(V) \in Nat /\ Cardinality(U \cup D) \in Nat
    BY Zenon, <2>7, <2>8, FS_Subset, FS_CardinalityType
  <2>10. Cardinality(V) <= c.gaps
    BY <1>1, <1>2, <2>4, <2>5, <2>6, <2>8, <2>9
  <2>11. c.missing \subseteq c.first .. c.high
    BY Zenon, <2>2, <2>6
  <2>13. c.first <= c.high
    BY <1>1, <1>4, <2>6
  <2>12. Accounted(c, S \cup {s})
    BY Zenon, <2>6, <2>10, <2>11, <2>13 DEF Accounted
  <2> QED BY Zenon, <2>12 DEF c
<1> QED BY Zenon, <1>3, <1>4

\* Gaps may be added to an account.
LEMMA MoreGaps ==
    ASSUME NEW st, NEW S, Accounted(st, S), NEW n \in Nat
    PROVE  Accounted([st EXCEPT !.gaps = @ + n], S)
<1> DEFINE c == [st EXCEPT !.gaps = @ + n]
<1>1. /\ c \in SeqState /\ c.first = st.first /\ c.high = st.high /\ c.missing = st.missing
      /\ c.gaps = st.gaps + n /\ st.gaps \in Nat
  BY DEF Accounted, SeqState
<1>2. Cardinality(Unaccounted(st, S)) \in Nat
  BY Zenon, AccountedFinite
<1> HIDE DEF c
<1>3. Unaccounted(c, S) = Unaccounted(st, S)
  BY Zenon, <1>1 DEF Unaccounted
<1>4. Cardinality(Unaccounted(c, S)) <= c.gaps
  BY <1>1, <1>2, <1>3 DEF Accounted
<1>5. Accounted(c, S)
  BY Zenon, <1>1, <1>4 DEF Accounted
<1> QED BY Zenon, <1>5 DEF c

\* evict_stale_epochs takes rows away, and adds a number of gaps to one at most.
LEMMA EvictFacts ==
    ASSUME NEW table, NEW written, DOMAIN table = Epochs, IsFiniteSet(Kept(table)),
           \A e \in Epochs : \A st \in table[e] : IsFiniteSet(st.missing)
    PROVE  /\ DOMAIN evict_stale_epochs(table, written) = Epochs
           /\ \E n \in Nat : \A e \in Epochs :
                 evict_stale_epochs(table, written)[e] \in
                     {{}, table[e], {[st EXCEPT !.gaps = @ + n] : st \in table[e]}}
<1> DEFINE kept == Kept(table)
           over == IF Cardinality(kept) > EpochCap THEN Cardinality(kept) - EpochCap ELSE 0
           victims == Oldest(kept, over) \ {written}
           M(e) == (CHOOSE st \in table[e] : TRUE).missing
           orphans == UNION {{e} \X M(e) : e \in victims}
           n == Cardinality(orphans)
<1>1. victims \in SUBSET kept
  BY Zenon DEF Oldest, Smallest
<1>2. IsFiniteSet(victims)
  BY Zenon, <1>1, FS_Subset
<1>3. IsFiniteSet(orphans)
  <2> DEFINE f == [e \in victims |-> {e} \X M(e)]
             R == {{e} \X M(e) : e \in victims}
  <2>1. f \in Surjection(victims, R)
    <3> HIDE DEF victims, M
    <3> QED BY DEF Surjection
  <2>2. IsFiniteSet(R)
    <3> HIDE DEF f, R, victims
    <3> QED BY Zenon, <1>2, <2>1, FS_Surjection
  <2>3. ASSUME NEW e \in victims PROVE IsFiniteSet({e} \X M(e))
    <3>1. e \in Epochs /\ table[e] # {}
      BY Zenon, <1>1 DEF Kept
    <3>2. (CHOOSE st \in table[e] : TRUE) \in table[e]
      BY Zenon, <3>1
    <3>3. IsFiniteSet(M(e))
      BY Zenon, <3>1, <3>2
    <3> QED BY Zenon, <3>3, FS_Singleton, FS_Product
  <2>4. \A T \in R : IsFiniteSet(T)
    BY Zenon, <2>3
  <2> QED BY Zenon, <2>2, <2>4, FS_UNION
<1>4. n \in Nat
  BY Zenon, <1>3, FS_CardinalityType
<1>5. evict_stale_epochs(table, written) =
        [e \in Epochs |->
            IF e \in victims THEN {}
            ELSE IF victims # {} /\ e = Min(kept \ victims)
                 THEN {[st EXCEPT !.gaps = @ + n] : st \in table[e]}
                 ELSE table[e]]
  BY Zenon DEF evict_stale_epochs
<1> HIDE DEF n, victims, kept
<1> QED BY Zenon, <1>4, <1>5

\* A mark that is taken keeps every account, those of the rows evicted aside.
LEMMA ObserveKeeps == ASSUME SeqInv, seq_observe_loop PROVE SeqInv'
<1> DEFINE e == Head(marks)[1]
           s == Head(marks)[2]
           row == IF rows[e] = {} THEN {First(s)} ELSE {classify(st, s) : st \in rows[e]}
           table == [rows EXCEPT ![e] = row]
           took == [x \in Epochs |-> IF x = e THEN seen[x] \cup {s} ELSE seen[x]]
<1>1. marks \in Seq(Epochs \X Seqs) /\ marks # <<>> /\ marks' = Tail(marks)
  BY Zenon DEF SeqInv, seq_observe_loop
<1>2. e \in Epochs /\ s \in Nat
  <2>1. Head(marks) \in Epochs \X Seqs
    BY <1>1
  <2> QED BY <2>1, SeqAssumption
<1>m. marks' \in Seq(Epochs \X Seqs)
  BY <1>1
<1>3. /\ rows' = IF rows[e] = {} THEN evict_stale_epochs(table, e) ELSE table
      /\ seen' = [x \in Epochs |-> IF rows'[x] = {} THEN {} ELSE IF x = e THEN seen[x] \cup {s} ELSE seen[x]]
  BY Zenon DEF seq_observe_loop
<1>4. DOMAIN rows = Epochs /\ DOMAIN seen = Epochs /\ IsFiniteSet(Kept(rows))
  BY Zenon DEF SeqInv
<1> HIDE DEF e, s
<1>n. Accounted(First(s), seen[e] \cup {s})
  <2> DEFINE c == First(s)
  <2>1. c \in SeqState /\ c.first = s /\ c.high = s /\ c.missing = {} /\ c.gaps = 0
    BY <1>2 DEF First, SeqState
  <2>2. s .. s = {s}
    BY <1>2
  <2> HIDE DEF c
  <2>3. Unaccounted(c, seen[e] \cup {s}) = {}
    BY Zenon, <2>1, <2>2 DEF Unaccounted
  <2>4. Cardinality(Unaccounted(c, seen[e] \cup {s})) <= c.gaps /\ c.first <= c.high
    BY <1>2, <2>1, <2>3, FS_EmptySet
  <2>5. Accounted(c, seen[e] \cup {s})
    BY Zenon, <2>1, <2>4 DEF Accounted
  <2> QED BY Zenon, <2>5 DEF c
<1>r. \A st \in row : Accounted(st, seen[e] \cup {s})
  BY ZenonT(60), <1>2, <1>n, ClassifyKeeps DEF SeqInv
<1>t. DOMAIN table = Epochs /\ table[e] = row /\ \A x \in Epochs : x # e => table[x] = rows[x]
  BY Zenon, <1>2, <1>4
<1> HIDE DEF table, row
<1>5. ASSUME NEW x \in Epochs, NEW st \in table[x] PROVE Accounted(st, took[x])
  <2>1. CASE x = e
    BY Zenon, <1>5, <1>r, <1>t, <2>1
  <2>2. CASE x # e
    BY Zenon, <1>5, <1>t, <2>2 DEF SeqInv
  <2> QED BY Zenon, <2>1, <2>2
<1>6. IsFiniteSet(Kept(table))
  <2>1. Kept(table) \in SUBSET (Kept(rows) \cup {e})
    BY Zenon, <1>t DEF Kept
  <2>2. IsFiniteSet(Kept(rows) \cup {e})
    BY Zenon, <1>4, FS_AddElement
  <2> QED BY Zenon, <2>1, <2>2, FS_Subset
<1>7. PICK n \in Nat : /\ DOMAIN rows' = Epochs
                       /\ \A x \in Epochs : rows'[x] \in {{}, table[x], {[st EXCEPT !.gaps = @ + n] : st \in table[x]}}
  <2>1. \A x \in Epochs : \A st \in table[x] : IsFiniteSet(st.missing)
    BY Zenon, <1>5, AccountedFinite
  <2>2. CASE rows[e] = {}
    <3>1. rows' = evict_stale_epochs(table, e)
      BY Zenon, <1>3, <2>2
    <3>2. /\ DOMAIN evict_stale_epochs(table, e) = Epochs
          /\ \E n \in Nat : \A x \in Epochs :
                evict_stale_epochs(table, e)[x] \in {{}, table[x], {[st EXCEPT !.gaps = @ + n] : st \in table[x]}}
      BY <1>6, <1>t, <2>1, EvictFacts
    <3> QED BY Zenon, <3>1, <3>2
  <2>3. CASE rows[e] # {}
    <3>1. 0 \in Nat
      OBVIOUS
    <3> QED BY Zenon, <1>3, <1>t, <2>3, <3>1
  <2> QED BY Zenon, <2>2, <2>3
<1>8. ASSUME NEW x \in Epochs, NEW st \in rows'[x] PROVE Accounted(st, seen'[x])
  <2>1. seen'[x] = took[x]
    BY Zenon, <1>3, <1>8
  <2>2. CASE st \in table[x]
    BY Zenon, <1>5, <2>1, <2>2
  <2>3. CASE st \in {[q EXCEPT !.gaps = @ + n] : q \in table[x]}
    <3>1. PICK q \in table[x] : st = [q EXCEPT !.gaps = @ + n]
      BY Zenon, <2>3
    <3> QED BY Zenon, <1>5, <1>7, <2>1, <3>1, MoreGaps
  <2> QED BY Zenon, <1>7, <1>8, <2>2, <2>3
<1>9. IsFiniteSet(Kept(rows'))
  <2>1. Kept(rows') \in SUBSET Kept(table)
    BY Zenon, <1>7 DEF Kept
  <2> QED BY Zenon, <1>6, <2>1, FS_Subset
<1>10. DOMAIN seen' = Epochs
  BY Zenon, <1>3
<1> QED BY Zenon, <1>m, <1>7, <1>8, <1>9, <1>10 DEF SeqInv, Kept

\* No other step touches a row.
LEMMA SeqStep == SeqInv /\ [SeqNext]_seqVars => SeqInv'
<1> SUFFICES ASSUME SeqInv, [SeqNext]_seqVars PROVE SeqInv'
  BY Zenon
<1>a. ASSUME marks' \in Seq(Epochs \X Seqs), UNCHANGED <<rows, seen>> PROVE SeqInv'
  BY Zenon, <1>a DEF SeqInv, Kept
<1>b. marks \in Seq(Epochs \X Seqs)
  BY Zenon DEF SeqInv
<1>1. ASSUME NEW e \in Epochs, NEW s \in Seqs, observe(e, s) PROVE SeqInv'
  <2>1. marks' \in Seq(Epochs \X Seqs)
    BY <1>b, <1>1 DEF observe
  <2> QED BY Zenon, <1>1, <1>a, <2>1 DEF observe
<1>2. CASE seq_observe_loop
  BY Zenon, <1>2, ObserveKeeps
<1>3. CASE ObserveFails
  <2>1. marks' \in Seq(Epochs \X Seqs)
    BY <1>b, <1>3 DEF ObserveFails
  <2> QED BY Zenon, <1>3, <1>a, <2>1 DEF ObserveFails
<1>4. CASE Minute
  BY Zenon, <1>4, <1>a, <1>b DEF Minute
<1>5. CASE SeqRestart
  <2>1. <<>> \in Seq(Epochs \X Seqs)
    OBVIOUS
  <2> QED BY Zenon, <1>5, <1>a, <2>1 DEF SeqRestart
<1>6. CASE UNCHANGED seqVars
  BY Zenon, <1>6, <1>a, <1>b DEF seqVars
<1> QED BY Zenon, <1>1, <1>2, <1>3, <1>4, <1>5, <1>6 DEF SeqNext

\* "never fabricating a gap from mere out-of-order observation", nor losing one:
\* EverySeqAccounted of IngestSeq, for every set of epochs and numbers, every cap
\* and every order, repetition and loss of the marks (classify,
\* evict_stale_epochs).
THEOREM SeqsAreAccounted == SeqSpec => []EverySeqAccounted
<1>1. SeqInit => SeqInv
  <2> SUFFICES ASSUME SeqInit PROVE SeqInv
    BY Zenon
  <2>1. marks \in Seq(Epochs \X Seqs)
    BY DEF SeqInit
  <2>2. Kept(rows) = {}
    BY Zenon DEF SeqInit, Kept
  <2> QED BY Zenon, <2>1, <2>2, FS_EmptySet DEF SeqInit, SeqInv
<1>2. SeqInv => EverySeqAccounted
  BY Zenon DEF SeqInv, Accounted, Unaccounted, EverySeqAccounted
<1> QED BY <1>1, <1>2, SeqStep, PTL DEF SeqSpec

=============================================================================
