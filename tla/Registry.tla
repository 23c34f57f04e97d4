------------------------------ MODULE Registry ------------------------------
(***************************************************************************)
(* The governed registry: immutable content records and an append-only     *)
(* stream of promotions, from which the live version of a policy is folded *)
(* (garmr-core/src/registry.rs, garmr-store/src/state/registry.rs,         *)
(* garmr-cli/src/api/registry.rs), and the enforced configuration that is  *)
(* rebuilt from it while serve runs (garmr-cli/src/appaudit.rs).  One      *)
(* (kind, name) is followed, of a kind the enforcement reads.  Requests    *)
(* are handled concurrently; each store call is a transaction of its own.  *)
(***************************************************************************)
EXTENDS Naturals, FiniteSets

CONSTANTS Versions, Digests,
          Channels,      \* the channels promotions go to, "production" included
          Admins,        \* requests that may be in flight at once
          MaxPromotions, \* bound on promotions, those in flight included
          MaxStamp       \* bound on the clock

ASSUME ProductionIsAChannel == "production" \in Channels

VARIABLES auditing,    \* audit.enabled
          records,     \* REGISTRY: records[v] is {} or {the digest of v}
          promotions,  \* REGISTRY_PROMOTIONS
          clock,       \* the stamp the next promotion takes
          stepped,     \* the wall clock was set back
          request,     \* request[a]: what an admin's request is about to do
          enforced,    \* the digest the running plane enforces, as a set
          overlapped   \* two rebuilds of the enforced configuration overlapped

regVars == <<auditing, records, promotions, clock, stepped, request, enforced, overlapped>>

Idle == [step |-> "idle"]
Ops == {"Promote", "Retire", "Reject"}   \* a rollback is a promotion of an older version

RegInit ==
    /\ auditing \in BOOLEAN
    /\ records = [v \in Versions |-> {}]
    /\ promotions = {}
    /\ clock = 2 /\ stepped = FALSE
    /\ request = [a \in Admins |-> Idle]
    /\ enforced = {}
    /\ overlapped = FALSE

-----------------------------------------------------------------------------
(* The folds.                                                              *)

Newest(P) == {e \in P : \A d \in P : d.at <= e.at}

(* Mutant of newest_binding: what is superseded is not left out.           *)
NewestStamped(P) == Newest({e \in P : e.audit})

(* The newest audited promotion that no audited one supersedes.  Stamps    *)
(* are nanoseconds, so no two promotions share one.                        *)
newest_binding(P) ==
    LET bound == {e \in P : e.audit}
        superseded == UNION {e.supersedes : e \in bound}
    IN  Newest({e \in bound : e.at \notin superseded})

(* The digest that is live on a channel: what the newest pointer operation *)
(* targets, unless that retires it.  A reject moves no pointer.            *)
active(channel) ==
    LET pointer == {e \in promotions : e.channel = channel /\ e.op # "Reject"}
    IN  {e.digest : e \in {d \in newest_binding(pointer) :
                              /\ d.op # "Retire"
                              /\ \E v \in Versions : d.digest \in records[v]}}

(* verify_registry: promotions without an audit event, and pointers to a   *)
(* digest no record has.                                                   *)
verify_registry ==
    {e \in promotions : \/ ~e.audit
                        \/ /\ e.op = "Promote"
                           /\ \A v \in Versions : e.digest \notin records[v]}

-----------------------------------------------------------------------------
Goto(a, r) == request' = [request EXCEPT ![a] = r]
Promoting == {a \in Admins : request[a].step \in {"stamp", "append"}}
Rebuilding == {a \in Admins : request[a].step = "swap"}

(* registry_register, audited before: a version that exists keeps its      *)
(* content, and the request is refused when it differs.                    *)
registry_register(v, d) ==
    /\ records[v] = {}
    /\ records' = [records EXCEPT ![v] = {d}]
    /\ UNCHANGED <<auditing, promotions, clock, stepped, request, enforced, overlapped>>

(* do_promotion: the record must exist, and the decision is audited first; *)
(* it is refused when that fails or auditing is off.                       *)
do_promotion(a, v, op, ch) ==
    /\ auditing
    /\ request[a].step = "idle"
    /\ Cardinality(promotions) + Cardinality(Promoting) < MaxPromotions
    /\ \E d \in records[v] :
          Goto(a, [step |-> "stamp", op |-> op, channel |-> ch, digest |-> d])
    /\ UNCHANGED <<auditing, records, promotions, clock, stepped, enforced, overlapped>>

(* Then the newest promotion on the channel, whatever it did, is the one   *)
(* to supersede (promotions_for sorts by time and rfind takes the last),   *)
(* and the new one is stamped.                                             *)
Stamp(a) ==
    LET r == request[a]
    IN  /\ r.step = "stamp" /\ clock <= MaxStamp
        /\ Goto(a, [step |-> "append", op |-> r.op, channel |-> r.channel, digest |-> r.digest,
                    at |-> clock, seen |-> Cardinality(promotions),
                    supersedes |-> {e.at : e \in Newest({p \in promotions :
                                                            p.channel = r.channel})}])
        /\ clock' = clock + 2
        /\ UNCHANGED <<auditing, records, promotions, stepped, enforced, overlapped>>

(* promotion_touches_enforcement                                           *)
TouchesEnforcement(ch) == ch = "production"

(* Mutant of append_promotion: only a promote is followed by a rebuild.    *)
AppendThenIdle(a) ==
    LET r == request[a]
    IN  /\ r.step = "append"
        /\ promotions' = promotions \cup
              {[op |-> r.op, channel |-> r.channel, digest |-> r.digest, audit |-> auditing,
                supersedes |-> r.supersedes, at |-> r.at,
                seen |-> r.seen, nth |-> Cardinality(promotions)]}
        /\ Goto(a, IF r.op = "Promote" THEN [step |-> "build"] ELSE Idle)
        /\ UNCHANGED <<auditing, records, clock, stepped, enforced, overlapped>>

(* The promotion is stored, and if it changes what is enforced the         *)
(* configuration is rebuilt.  `seen' and `nth' record how many there were  *)
(* when it was stamped and when it was stored.                             *)
append_promotion(a) ==
    LET r == request[a]
    IN  /\ r.step = "append"
        /\ promotions' = promotions \cup
              {[op |-> r.op, channel |-> r.channel, digest |-> r.digest, audit |-> auditing,
                supersedes |-> r.supersedes, at |-> r.at,
                seen |-> r.seen, nth |-> Cardinality(promotions)]}
        /\ Goto(a, IF TouchesEnforcement(r.channel) THEN [step |-> "build"] ELSE Idle)
        /\ UNCHANGED <<auditing, records, clock, stepped, enforced, overlapped>>

(* POST /admin/appaudit/reload asks for a rebuild as well.                 *)
appaudit_reload(a) ==
    /\ request[a].step = "idle"
    /\ Goto(a, [step |-> "build"])
    /\ UNCHANGED <<auditing, records, promotions, clock, stepped, enforced, overlapped>>

(* AppAudit::reload builds the configuration from the registry ...         *)
Build(a) ==
    /\ request[a].step = "build"
    /\ Goto(a, [step |-> "swap", config |-> active("production")])
    /\ overlapped' = (overlapped \/ Rebuilding # {})
    /\ UNCHANGED <<auditing, records, promotions, clock, stepped, enforced>>

(* ... and only then takes the lock and swaps it in.                       *)
Swap(a) ==
    /\ request[a].step = "swap"
    /\ enforced' = request[a].config
    /\ Goto(a, Idle)
    /\ UNCHANGED <<auditing, records, promotions, clock, stepped, overlapped>>

(* serve stops and starts: requests are lost, the configuration is built   *)
(* anew.                                                                   *)
RegRestart ==
    /\ request' = [a \in Admins |-> Idle]
    /\ enforced' = active("production")
    /\ overlapped' = FALSE
    /\ UNCHANGED <<auditing, records, promotions, clock, stepped>>

(* The wall clock is set back once.  Stamps are even before and odd after, *)
(* so that no two promotions ever have the same one.                       *)
StepBack ==
    /\ ~stepped
    /\ stepped' = TRUE
    /\ clock' \in {t \in 1..(clock - 1) : t % 2 = 1}
    /\ UNCHANGED <<auditing, records, promotions, request, enforced, overlapped>>

RegNext ==
    \/ \E v \in Versions, d \in Digests : registry_register(v, d)
    \/ \E a \in Admins, v \in Versions, op \in Ops, ch \in Channels : do_promotion(a, v, op, ch)
    \/ \E a \in Admins : \/ Stamp(a)
                         \/ append_promotion(a)
                         \/ appaudit_reload(a)
                         \/ Build(a)
                         \/ Swap(a)
    \/ RegRestart
    \/ StepBack

RegSpec == RegInit /\ [][RegNext]_regVars

-----------------------------------------------------------------------------
(* Well-formed writes leave nothing for verify_registry to find, whatever  *)
(* is in flight and with auditing on or off: every promotion is bound to   *)
(* an audit event and every pointer leads to a record.                     *)
RegistryVerifies == verify_registry = {}

OnChannel(ch) == {e \in promotions : e.channel = ch}
Pointers(ch) == {e \in OnChannel(ch) : e.op # "Reject"}

(* No promotion was stored while another was on its way.                   *)
Serial == \A e \in promotions : e.seen = e.nth

(* The last decision stands.  With a clock that is never set back, what is *)
(* live on a channel is the target of the pointer operation stamped last.  *)
(* When the clock was set back it is still the one stored last, however    *)
(* old its stamp, if the operations came one after the other and none of   *)
(* them was a reject: that is what superseding the prior pointer is for.   *)
LastDecisionStands ==
    \A ch \in Channels :
        \A e \in Pointers(ch) :
            (IF stepped
             THEN /\ Serial /\ Pointers(ch) = OnChannel(ch)
                  /\ \A d \in Pointers(ch) : d.nth <= e.nth
             ELSE e \in Newest(Pointers(ch)))
            => active(ch) = IF e.op = "Retire" THEN {} ELSE {e.digest}

(* Once every request is done, what is enforced is what is live, unless    *)
(* two rebuilds overlapped since the last start: reload reads the registry *)
(* before it takes the lock, so the older reading may be swapped in last.  *)
EnforcedIsLive ==
    (~overlapped /\ \A a \in Admins : request[a].step = "idle") =>
        enforced = active("production")
=============================================================================
