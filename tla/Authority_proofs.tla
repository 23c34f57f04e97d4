-------------------------- MODULE Authority_proofs --------------------------
(***************************************************************************)
(* Who may write and what may run, for every number of nodes, actions,     *)
(* editors, judgements, process stops and failing writes.                  *)
(*                                                                         *)
(* Fencing: an epoch has one holder and a follower never goes back to an   *)
(* earlier epoch.  Both rest on the invariant that no epoch in the system, *)
(* however stale its holder, is above the lease in the bucket.             *)
(*                                                                         *)
(* The actions: at-most-once execution behind the human gate.  The         *)
(* invariant says what the executor's claim buys: an action that has not   *)
(* been claimed has not run, and between the claim and the command the     *)
(* action is Executing, a state no decision is accepted in.                *)
(*                                                                         *)
(* The configuration: the override that is installed is the latest         *)
(* revision and boots again.  Both rest on the invariant that the lock     *)
(* covers the two writes: what is being installed is the newest file.      *)
(*                                                                         *)
(* The SLA clocks: a breach is announced once, because a sweep looks at a  *)
(* row that carries every clock announced before.                          *)
(***************************************************************************)
EXTENDS HaSync, Actions, ConfigStore, Sla, TLAPS

-----------------------------------------------------------------------------
(* Fencing *)

EpochTypes ==
    /\ lease \in Nat
    /\ epoch \in [Nodes -> Nat]
    /\ seen \in [Nodes -> Nat]
    /\ granted \subseteq Nat \X Nodes
    /\ manifest.epoch \in Nat
    /\ pulling.epoch \in Nat
    /\ staging.epoch \in Nat
    /\ applied.epoch \in Nat

\* No epoch anywhere is above the lease, and no two nodes were granted one.
LeaseIsHighest ==
    /\ \A n \in Nodes : epoch[n] <= lease
    /\ \A g \in granted : g[1] <= lease
    /\ OneHolderPerEpoch
    /\ manifest.epoch <= lease
    /\ pulling.epoch <= lease
    /\ applied.epoch <= lease

\* A snapshot that passed the lease check is not older than the applied one.
CheckedIsNewer ==
    /\ pull \in {"stage", "swap_out", "swap_in"} => pulling.epoch >= applied.epoch
    /\ pull \in {"swap_out", "swap_in"} => staging.epoch = pulling.epoch

EpochInv == EpochTypes /\ LeaseIsHighest /\ CheckedIsNewer

\* Nothing has been promoted, shipped or applied at first.
LEMMA InitEpochs == Init => EpochInv
  BY HaAssumption DEF Init, Nothing, EpochInv, EpochTypes, LeaseIsHighest, CheckedIsNewer, OneHolderPerEpoch

\* A step of a ship loop puts no epoch above the lease: the loop ships under an
\* epoch it read from the bucket.
LEMMA ShipStep ==
    ASSUME EpochInv, NEW n \in Nodes,
           \/ Start(n) \/ Writer(n) \/ ShipFails(n) \/ Commit(n) \/ Stop(n)
    PROVE  EpochInv'
<1> USE DEF EpochInv, EpochTypes, LeaseIsHighest, CheckedIsNewer, OneHolderPerEpoch,
            bucket, proms, follower
<1>1. CASE Start(n)
  BY Zenon, <1>1 DEF Start
<1>2. CASE ReadEpoch(n)
  <2>1. epoch' \in [Nodes -> Nat] /\ \A k \in Nodes : epoch'[k] <= lease
    BY <1>2 DEF ReadEpoch
  <2> QED BY Zenon, <1>2, <2>1 DEF ReadEpoch
<1>3. CASE ReadId(n) \/ Fenced(n) \/ NextShip(n) \/ ShipList(n) \/ ShipFails(n) \/ Commit(n) \/ Stop(n)
  BY Zenon, <1>3 DEF ReadId, Fenced, NextShip, ShipList, ShipFails, Commit, Stop
<1>4. CASE ShipUpload(n)
  BY Zenon, <1>4 DEF ShipUpload
<1>5. CASE ShipManifest(n)
  <2>1. manifest'.epoch = epoch[n]
    BY Zenon, <1>5 DEF ShipManifest
  <2> QED BY Zenon, <1>5, <2>1 DEF ShipManifest
<1> QED BY Zenon, <1>1, <1>2, <1>3, <1>4, <1>5 DEF Writer

\* A step of a promote command grants at most the epoch above the lease.
LEMMA PromoteStep ==
    ASSUME EpochInv, NEW n \in Nodes,
           PromoteRecord(n) \/ PromoteRead(n) \/ PromotePut(n)
    PROVE  EpochInv'
<1> USE DEF EpochInv, EpochTypes, LeaseIsHighest, CheckedIsNewer, bucket, ships, follower
<1>1. CASE PromoteRecord(n)
  BY Zenon, <1>1 DEF PromoteRecord, OneHolderPerEpoch
<1>2. CASE PromoteRead(n)
  BY Zenon, <1>2 DEF PromoteRead, OneHolderPerEpoch
<1>3. CASE PromotePut(n) /\ lease = seen[n]
  <2>1. lease' = lease + 1 /\ granted' = granted \cup {<<lease + 1, n>>}
    BY Zenon, <1>3 DEF PromotePut
  <2>2. /\ UNCHANGED <<epoch, seen, manifest>>
        /\ UNCHANGED <<pull, pulling, staging, applied>>
    BY Zenon, <1>3 DEF PromotePut
  <2>3. granted' \subseteq Nat \X Nodes
    BY <2>1
  <2>4. \A g \in granted' : g[1] <= lease'
    BY <2>1
  <2>5. OneHolderPerEpoch'
    <3>1. \A g \in granted : g[1] # lease + 1
      BY DEF OneHolderPerEpoch
    <3> QED BY <2>1, <3>1 DEF OneHolderPerEpoch
  <2> QED BY <2>1, <2>2, <2>3, <2>4, <2>5
<1>4. CASE PromotePut(n) /\ lease # seen[n]
  BY Zenon, <1>4 DEF PromotePut, OneHolderPerEpoch
<1> QED BY Zenon, <1>1, <1>2, <1>3, <1>4

\* A step of the follower stages only what is at least as new as the lease it
\* read, hence as what it has applied.
LEMMA PullStep ==
    ASSUME EpochInv, Pull \/ PullStop
    PROVE  EpochInv' /\ applied'.epoch >= applied.epoch
<1> USE DEF EpochInv, EpochTypes, LeaseIsHighest, CheckedIsNewer, OneHolderPerEpoch,
            bucket, ships, proms
<1>1. CASE PullManifest
  BY <1>1 DEF PullManifest
<1>2. CASE PullLease
  BY <1>2 DEF PullLease
<1>3. CASE PullStage
  <2>1. /\ pull = "stage"
        /\ UNCHANGED <<lease, manifest, epoch, seen, granted, pulling, applied>>
    BY Zenon, <1>3 DEF PullStage
  <2>0. \/ staging' = pulling /\ pull' = "swap_out"
        \/ staging' = Nothing /\ pull' = "idle"
    BY Zenon, <1>3 DEF PullStage
  <2>a. Nothing.epoch = 0
    BY Zenon DEF Nothing
  <2>2. staging'.epoch \in Nat /\ (pull' = "swap_out" => staging'.epoch = pulling.epoch)
    BY <2>0, <2>a
  <2>3. pull' \in {"swap_out", "idle"}
    BY Zenon, <2>0
  <2> QED BY <2>1, <2>2, <2>3
<1>4. CASE PullSwapOut
  BY <1>4 DEF PullSwapOut
<1>5. CASE PullSwapIn
  <2>1. applied' = staging /\ staging'.epoch = 0 /\ pull' = "idle" /\ pull = "swap_in"
    BY Zenon, <1>5 DEF PullSwapIn, Nothing
  <2> QED BY <1>5, <2>1 DEF PullSwapIn
<1>6. CASE PullStop
  BY <1>6 DEF PullStop
<1> QED BY Zenon, <1>1, <1>2, <1>3, <1>4, <1>5, <1>6 DEF Pull

\* Every step keeps the invariant and the applied epoch moves forward only.
LEMMA EpochStep ==
    ASSUME EpochInv, [Next]_vars
    PROVE  EpochInv' /\ applied'.epoch >= applied.epoch
<1>1. CASE UNCHANGED vars
  BY <1>1 DEF vars, EpochInv, EpochTypes, LeaseIsHighest, CheckedIsNewer, OneHolderPerEpoch
<1>2. ASSUME NEW n \in Nodes, Start(n) \/ Writer(n) \/ ShipFails(n) \/ Commit(n) \/ Stop(n)
      PROVE  EpochInv' /\ applied'.epoch >= applied.epoch
  <2>1. applied' = applied
    BY Zenon, <1>2 DEF Start, Writer, ReadEpoch, ReadId, Fenced, NextShip, ShipList, ShipUpload,
                ShipManifest, ShipFails, Commit, Stop, follower
  <2> QED BY <1>2, <2>1, ShipStep DEF EpochInv, EpochTypes
<1>3. ASSUME NEW n \in Nodes, PromoteRecord(n) \/ PromoteRead(n) \/ PromotePut(n)
      PROVE  EpochInv' /\ applied'.epoch >= applied.epoch
  <2>1. applied' = applied
    BY Zenon, <1>3 DEF PromoteRecord, PromoteRead, PromotePut, follower
  <2> QED BY <1>3, <2>1, PromoteStep DEF EpochInv, EpochTypes
<1>4. CASE Pull \/ PullStop
  BY Zenon, <1>4, PullStep
<1> QED BY Zenon, <1>1, <1>2, <1>3, <1>4 DEF Next

\* The epoch invariant holds in every reachable state.
LEMMA EpochsHold == Spec => []EpochInv
<1>1. EpochInv /\ [Next]_vars => EpochInv'
  BY Zenon, EpochStep
<1> QED BY <1>1, InitEpochs, PTL DEF Spec

\* acquire_lease grants every epoch to one node at most.
THEOREM LeaseIsExclusive == Spec => []OneHolderPerEpoch
<1>1. EpochInv => OneHolderPerEpoch
  BY Zenon DEF EpochInv, LeaseIsHighest
<1> QED BY <1>1, EpochsHold, PTL

\* pull never applies a snapshot of an earlier epoch than the applied one.
THEOREM FollowerNeverGoesBack == Spec => AppliedEpochMonotonic
<1>1. EpochInv /\ [Next]_vars => [applied'.epoch >= applied.epoch]_vars
  BY Zenon, EpochStep
<1> QED BY <1>1, EpochsHold, PTL DEF Spec, AppliedEpochMonotonic

-----------------------------------------------------------------------------
(* The actions *)


Types ==
    /\ state \in [Ids -> ActionState]
    /\ ran \in [Ids -> Nat]
    /\ pending \subseteq Ids \X {"approved", "denied"}
    /\ pc \notin {"down", "idle", "next", "audit"} => cur \in Ids
    /\ batch \subseteq Ids

\* What has not been claimed has not run; what is claimed runs once.
ClaimInv ==
    /\ \A a \in Ids : state[a] \in {"Absent", "Proposed", "Approved", "Denied"} => ran[a] = 0
    /\ \A a \in Ids : ran[a] <= 1
    /\ pc = "run" => state[cur] = "Executing" /\ ran[cur] = 0

\* What is approved, claimed or run was recorded as approved first.
ApprovalInv ==
    /\ pending \subseteq ledger
    /\ \A a \in Ids : state[a] \in {"Approved", "Executing"} => <<a, "approved">> \in ledger
    /\ \A a \in Ids : ran[a] > 0 => <<a, "approved">> \in ledger

GateInv == Types /\ ClaimInv /\ ApprovalInv

\* What a single step may do to an action that is in a terminal state: nothing.
FinalStep == \A a \in Ids : state[a] \in Terminal => state'[a] = state[a]

\* No action exists at first.
LEMMA InitGate == ActionInit => GateInv
  BY DEF ActionInit, GateInv, Types, ClaimInv, ApprovalInv, ActionState

\* Proposals and judgements start no command.
LEMMA InputStep ==
    ASSUME GateInv,
           \/ \E a \in Ids : propose_action(a) \/ ActionPropose(a)
           \/ \E d \in Disposition : finish(d) \/ submit_decision(d) \/ submit_incident(d)
    PROVE  GateInv' /\ FinalStep
<1> USE DEF GateInv, Types, ClaimInv, ApprovalInv, FinalStep, Terminal,
            ActionState, humans, tick
<1>1. CASE \E d \in Disposition : finish(d) \/ submit_decision(d) \/ submit_incident(d)
  BY Zenon, <1>1 DEF finish, submit_decision, submit_incident, Judging
<1>2. ASSUME NEW a \in Ids, propose_action(a) \/ ActionPropose(a)
      PROVE  GateInv' /\ FinalStep
  <2>1. state' \in [Ids -> ActionState] /\ state[a] = "Absent" /\ state'[a] = "Proposed"
    BY Zenon, <1>2 DEF propose_action, ActionPropose, put_action_proposal
  <2>2. \A k \in Ids : k # a => state'[k] = state[k]
    BY Zenon, <1>2 DEF propose_action, ActionPropose, put_action_proposal
  <2>3. UNCHANGED <<ran, ledger, pending, pc, batch, cur>>
    BY Zenon, <1>2 DEF propose_action, ActionPropose
  <2> QED BY Zenon, <2>1, <2>2, <2>3
<1> QED BY Zenon, <1>1, <1>2

\* A decision is recorded first, and changes the action only before the claim.
LEMMA DecideStep ==
    ASSUME GateInv, NEW a \in Ids, NEW d \in {"approved", "denied"},
           admin_action(a, d) \/ action_cmd(a, d) \/ DecideApply(a, d)
    PROVE  GateInv' /\ FinalStep
<1> USE DEF GateInv, Types, ClaimInv, ApprovalInv, FinalStep, Terminal,
            ActionState, case, tick
<1>1. CASE admin_action(a, d) \/ action_cmd(a, d)
  BY <1>1 DEF admin_action, action_cmd, record_admin
<1>2. CASE DecideApply(a, d) /\ state[a] \in DecidesFrom(d)
  <2>1. /\ UNCHANGED <<ran, ledger, pc, batch, cur>>
        /\ pending' = pending \ {<<a, d>>}
        /\ <<a, d>> \in ledger
    BY Zenon, <1>2 DEF DecideApply
  <2>2. state' = [state EXCEPT ![a] = IF d = "approved" THEN "Approved" ELSE "Denied"]
    BY Zenon, <1>2 DEF DecideApply, transition_action
  <2>3. state[a] \in {"Proposed", "Approved"} /\ (d = "approved" => state[a] = "Proposed")
    BY Zenon, <1>2 DEF DecidesFrom
  <2>4. /\ state' \in [Ids -> ActionState]
        /\ state'[a] \in {"Approved", "Denied"}
        /\ state'[a] = "Approved" => d = "approved"
        /\ \A k \in Ids : k # a => state'[k] = state[k]
    BY Zenon, <2>2
  <2> QED BY Zenon, <2>1, <2>3, <2>4
<1>3. CASE DecideApply(a, d) /\ state[a] \notin DecidesFrom(d)
  BY Zenon, <1>3 DEF DecideApply, transition_action
<1> QED BY Zenon, <1>1, <1>2, <1>3

\* The executor claims before it runs, and runs only what it claimed.
LEMMA ExecutorStep ==
    ASSUME GateInv, Executor
    PROVE  GateInv' /\ FinalStep
<1> USE DEF GateInv, Types, ClaimInv, ApprovalInv, FinalStep, Terminal,
            ActionState, case, humans
<1>1. CASE Poll
  BY Zenon, <1>1 DEF Poll
<1>2. CASE NextAction
  BY Zenon, <1>2 DEF NextAction
<1>3. CASE execute
  BY Zenon, <1>3 DEF execute
<1>4. CASE fail
  <2>1. /\ UNCHANGED <<ran, ledger, pending, batch>>
        /\ pc' = "next" /\ cur \in Ids
    BY Zenon, <1>4 DEF fail, Finished
  <2>2. \/ state' = state
        \/ state[cur] = "Approved" /\ state' = [state EXCEPT ![cur] = "Failed"]
    BY Zenon, <1>4 DEF fail, transition_action
  <2> QED BY Zenon, <2>1, <2>2
<1>5. CASE Claim
  <2>1. UNCHANGED <<ran, ledger, pending, batch>> /\ cur \in Ids
    BY Zenon, <1>5 DEF Claim
  <2>2. \/ state' = state /\ pc' = "next"
        \/ /\ state[cur] = "Approved" /\ state' = [state EXCEPT ![cur] = "Executing"]
           /\ UNCHANGED cur
    BY Zenon, <1>5 DEF Claim, Finished, transition_action
  <2> QED BY Zenon, <2>1, <2>2
<1>6. CASE Run
  <2>1. /\ UNCHANGED <<state, ledger, pending, batch, cur>>
        /\ pc = "run" /\ pc' # "run" /\ cur \in Ids
        /\ ran' = [ran EXCEPT ![cur] = @ + 1] \/ ran' = ran
    BY Zenon, <1>6 DEF Run
  <2>2. ran' \in [Ids -> Nat] /\ ran'[cur] <= 1 /\ \A k \in Ids : k # cur => ran'[k] = ran[k]
    BY <2>1
  <2> QED BY Zenon, <2>1, <2>2
<1>7. CASE Finish
  <2>1. /\ UNCHANGED <<ran, ledger, pending, batch>>
        /\ pc' = "next" /\ cur \in Ids
    BY Zenon, <1>7 DEF Finish, Finished
  <2>2. \/ state' = state
        \/ \E s \in {"Executed", "Failed"} :
              state[cur] = "Executing" /\ state' = [state EXCEPT ![cur] = s]
    BY Zenon, <1>7 DEF Finish, transition_action
  <2> QED BY Zenon, <2>1, <2>2
<1>8. CASE record_execute
  BY Zenon, <1>8 DEF record_execute
<1> QED BY Zenon, <1>1, <1>2, <1>3, <1>4, <1>5, <1>6, <1>7, <1>8 DEF Executor

\* Every step keeps the invariant and leaves terminal actions alone.
LEMMA GateStep ==
    ASSUME GateInv, [ActionNext]_actionVars
    PROVE  GateInv' /\ FinalStep
<1> USE DEF GateInv, Types, ClaimInv, ApprovalInv, FinalStep
<1>1. CASE UNCHANGED actionVars
  BY Zenon, <1>1 DEF actionVars
<1>2. CASE Crash
  BY Zenon, <1>2 DEF Crash, case
<1>3. CASE Restart
  BY Zenon, <1>3 DEF Restart, case, humans
<1> QED BY Zenon, <1>1, <1>2, <1>3, InputStep, DecideStep, ExecutorStep DEF ActionNext

\* The gate's invariant holds in every reachable state.
LEMMA GateHolds == ActionSpec => []GateInv
<1>1. GateInv /\ [ActionNext]_actionVars => GateInv'
  BY Zenon, GateStep
<1> QED BY <1>1, InitGate, PTL DEF ActionSpec

\* A command is started once at most, after the recorded approval of a human,
\* and not when a denial was accepted.
THEOREM ExecutionIsGated == ActionSpec => []OnlyApprovedRuns
<1>1. GateInv => OnlyApprovedRuns
  BY Zenon DEF GateInv, Types, ClaimInv, ApprovalInv, OnlyApprovedRuns
<1> QED BY <1>1, GateHolds, PTL

\* A terminal action never changes again.
THEOREM TerminalStatesAreFinal == ActionSpec => TerminalIsFinal
<1>1. GateInv /\ [ActionNext]_actionVars => [FinalStep]_actionVars
  BY Zenon, GateStep
<1> QED BY <1>1, GateHolds, PTL DEF ActionSpec, TerminalIsFinal, FinalStep

-----------------------------------------------------------------------------
(* The configuration store *)

EditState == [at : {"idle", "enter", "record", "swap"}, body : Bodies, seq : Nat,
              checked : Nat, parent : SUBSET Bodies]
RevisionFile == [seq : Nat, parent : SUBSET Bodies, body : Bodies, torn : BOOLEAN]

ConfigTypes ==
    /\ base \in Bases /\ override \in Bodies
    /\ revisions \subseteq RevisionFile
    /\ edit \in [Editors -> EditState]
    /\ edits \in Nat /\ checkedAt \in Nat /\ cut \in BOOLEAN

\* The lock covers the two writes of an apply.
LockCovers == \A a \in Editors : edit[a].at \in {"record", "swap"} => guard = {a}

\* A number under the lock is above every file, and its parent is the latest
\* readable revision.
NumberIsNext ==
    \A a \in Editors : edit[a].at = "record" =>
        /\ \A r \in revisions : r.seq < edit[a].seq
        /\ edit[a].parent = {r.body : r \in latest}

\* The revision that is about to be installed is the newest file.
SwapIsNewest ==
    \A a \in Editors : edit[a].at = "swap" =>
        \E r \in list : r.body = edit[a].body /\ \A q \in revisions : q.seq <= r.seq

NumbersDiffer == \A r, q \in revisions : r.seq = q.seq => r = q

\* What is installed is the latest, but between the two writes and after a cut.
InstalledIsLatest ==
    (~cut /\ \A a \in Editors : edit[a].at # "swap") =>
        /\ latest = {} => override = Empty
        /\ \A r \in latest : r.body = override
\* A file that can be read has a latest one.
LatestExists == list # {} => latest # {}

\* What was validated against the base as it still is, is valid over it.
ValidatedHolds ==
    /\ checkedAt <= edits
    /\ checkedAt = edits => override \in Accepts[base]
    /\ \A a \in Editors : edit[a].at # "idle" =>
          /\ edit[a].checked <= edits
          /\ edit[a].checked = edits => edit[a].body \in Accepts[base]

ConfigInv ==
    /\ ConfigTypes /\ LockCovers /\ NumberIsNext /\ SwapIsNewest /\ NumbersDiffer
    /\ InstalledIsLatest /\ LatestExists /\ ValidatedHolds /\ ChainHolds

\* Nothing has been recorded at first.
LEMMA ConfigFirst == ConfigInit => ConfigInv
<1> SUFFICES ASSUME ConfigInit PROVE ConfigInv
  BY Zenon
<1>1. ConfigTypes
  BY Zenon, EveryBaseBoots DEF ConfigInit, ConfigTypes, EditState, NoEdit
<1>2. list = {} /\ latest = {}
  BY Zenon DEF ConfigInit, list, latest
<1>3. \A a \in Editors : edit[a].at = "idle"
  BY Zenon DEF ConfigInit, NoEdit
<1>4. LockCovers /\ NumberIsNext /\ SwapIsNewest
  BY Zenon, <1>3 DEF LockCovers, NumberIsNext, SwapIsNewest
<1>5. NumbersDiffer /\ InstalledIsLatest /\ LatestExists /\ ChainHolds
  BY Zenon, <1>2 DEF ConfigInit, NumbersDiffer, InstalledIsLatest, LatestExists, ChainHolds
<1>6. ValidatedHolds
  BY <1>3, EveryBaseBoots DEF ConfigInit, ValidatedHolds
<1> QED BY Zenon, <1>1, <1>4, <1>5, <1>6 DEF ConfigInv

\* What a new file does to the readable history: a torn one nothing, any other
\* is the latest, next in line.
LEMMA NewFile ==
    ASSUME ConfigInv, NEW r \in RevisionFile, revisions' = revisions \cup {r},
           \A q \in revisions : q.seq < r.seq, r.parent = {q.body : q \in latest}
    PROVE  /\ NumbersDiffer' /\ ChainHolds' /\ LatestExists'
           /\ r.torn => list' = list /\ latest' = latest
           /\ ~r.torn => list' = list \cup {r} /\ latest' = {r}
<1>0. /\ r.seq \in Nat /\ r.torn \in BOOLEAN /\ list \subseteq revisions
      /\ \A q \in revisions : q.seq \in Nat
  BY Zenon DEF ConfigInv, ConfigTypes, RevisionFile, list
<1>1. NumbersDiffer'
  BY <1>0 DEF ConfigInv, NumbersDiffer
<1>2. CASE r.torn
  <2>1. list' = list
    BY Zenon, <1>2 DEF list
  <2>2. latest' = latest
    BY Zenon, <2>1 DEF latest
  <2>3. ChainHolds'
    BY Zenon, <2>1 DEF ConfigInv, ChainHolds
  <2>4. LatestExists'
    BY Zenon, <2>1, <2>2 DEF ConfigInv, LatestExists
  <2> QED BY Zenon, <2>4, <1>1, <1>2, <2>1, <2>2, <2>3
<1>3. CASE ~r.torn
  <2>1. list' = list \cup {r}
    BY Zenon, <1>3 DEF list
  <2>2. latest' = {r}
    <3>1. latest' = {t \in list' : \A q \in list' : q.seq <= t.seq}
      BY Zenon DEF latest
    <3>2. \A t \in list' : t # r => t.seq < r.seq /\ r.seq \in Nat /\ t.seq \in Nat
      BY Zenon, <1>0, <2>1
    <3>3. r \in list' /\ r.seq \in Nat
      BY Zenon, <1>0, <2>1
    <3>4. ASSUME NEW t \in list' PROVE (\A q \in list' : q.seq <= t.seq) <=> t = r
      <4>1. CASE t = r
        <5>1. \A q \in list' : q.seq <= r.seq
          BY <3>2, <3>3
        <5> QED BY Zenon, <4>1, <5>1
      <4>2. CASE t # r
        <5>1. ~(r.seq <= t.seq)
          BY <3>2, <3>4, <4>2
        <5> QED BY Zenon, <3>3, <4>2, <5>1
      <4> QED BY Zenon, <4>1, <4>2
    <3> QED BY Zenon, <3>1, <3>3, <3>4
  <2>3. LatestExists'
    BY Zenon, <2>2 DEF LatestExists
  <2>4. ASSUME NEW t \in list'
        PROVE  t.parent = {p.body : p \in {q \in list' : /\ q.seq < t.seq
                                                         /\ \A o \in list' : o.seq < t.seq => o.seq <= q.seq}}
    <3>1. CASE t = r
      <4>1. \A q \in list' : q.seq < r.seq <=> q \in list
        BY <1>0, <2>1
      <4>2. {q \in list' : q.seq < r.seq /\ \A o \in list' : o.seq < r.seq => o.seq <= q.seq}
              = {q \in list : \A o \in list : o.seq <= q.seq}
        BY Zenon, <2>1, <4>1
      <4> QED BY Zenon, <3>1, <4>2 DEF latest
    <3>2. CASE t # r
      <4>1. t \in list
        BY Zenon, <2>1, <2>4, <3>2
      <4>2. \A q \in list' : q.seq < t.seq => q \in list
        BY <1>0, <2>1, <4>1
      <4>3. {q \in list' : q.seq < t.seq /\ \A o \in list' : o.seq < t.seq => o.seq <= q.seq}
              = {q \in list : q.seq < t.seq /\ \A o \in list : o.seq < t.seq => o.seq <= q.seq}
        BY Zenon, <2>1, <4>2
      <4> QED BY Zenon, <4>1, <4>3 DEF ConfigInv, ChainHolds
    <3> QED BY Zenon, <3>1, <3>2
  <2>5. ChainHolds'
    BY Zenon, <2>4 DEF ChainHolds
  <2> QED BY Zenon, <1>1, <1>3, <2>1, <2>2, <2>3, <2>5
<1> QED BY Zenon, <1>0, <1>2, <1>3

\* The readable history depends on the files only.
LEMMA SameFiles ==
    ASSUME ConfigInv, revisions' = revisions
    PROVE  /\ list' = list /\ latest' = latest
           /\ NumbersDiffer' /\ ChainHolds' /\ LatestExists'
<1>1. list' = list
  BY Zenon DEF list
<1>2. latest' = latest
  BY Zenon, <1>1 DEF latest
<1> QED BY Zenon, <1>1, <1>2 DEF ConfigInv, NumbersDiffer, ChainHolds, LatestExists

\* What every request may count on stays true when one request moves on to where
\* it touches no file.
LEMMA ConfigQuiet ==
    ASSUME ConfigInv, revisions' = revisions, override' = override, cut' = cut,
           ConfigTypes', ValidatedHolds', LockCovers',
           \A a \in Editors : edit'[a].at \in {"record", "swap"} => edit'[a] = edit[a]
    PROVE  ConfigInv' \/ \E a \in Editors : edit[a].at = "swap" /\ edit'[a].at # "swap"
<1>1. /\ list' = list /\ latest' = latest
      /\ NumbersDiffer' /\ ChainHolds' /\ LatestExists'
  BY Zenon, SameFiles
<1>2. NumberIsNext'
  BY Zenon, <1>1 DEF ConfigInv, NumberIsNext
<1>3. SwapIsNewest'
  BY Zenon, <1>1 DEF ConfigInv, SwapIsNewest
<1>4. ASSUME \A a \in Editors : edit[a].at = "swap" => edit'[a].at = "swap" PROVE InstalledIsLatest'
  BY Zenon, <1>1, <1>4 DEF ConfigInv, InstalledIsLatest
<1> QED BY Zenon, <1>1, <1>2, <1>3, <1>4 DEF ConfigInv

\* A step of a request, and the file it may leave behind, keep the invariant.
LEMMA ConfigWrite ==
    ASSUME ConfigInv, NEW a \in Editors, NEW torn \in BOOLEAN, edit[a].at = "record",
           revisions' = revisions \cup {[seq |-> edit[a].seq, parent |-> edit[a].parent,
                                         body |-> edit[a].body, torn |-> torn]},
           UNCHANGED <<base, override, edits, checkedAt>>,
           edit' \in [Editors -> EditState], cut' \in BOOLEAN,
           \A b \in Editors : \/ edit'[b].at = "idle"
                              \/ b # a /\ edit'[b] = edit[b]
                              \/ b = a /\ guard' = {a} /\ ~torn /\ edit'[a] = [edit[a] EXCEPT !.at = "swap"],
           edit'[a].at # "swap" /\ ~torn => cut',
           ~cut' => ~cut
    PROVE  ConfigInv'
<1> DEFINE r == [seq |-> edit[a].seq, parent |-> edit[a].parent, body |-> edit[a].body, torn |-> torn]
<1>0. edit[a] \in EditState
  BY Zenon DEF ConfigInv, ConfigTypes
<1>1. /\ r \in RevisionFile /\ r.seq = edit[a].seq /\ r.parent = edit[a].parent /\ r.body = edit[a].body /\ r.torn = torn
      /\ r.seq \in Nat
  BY Zenon, <1>0 DEF EditState, RevisionFile
<1>2. /\ \A q \in revisions : q.seq < r.seq /\ q.seq \in Nat
      /\ r.parent = {q.body : q \in latest}
  BY Zenon, <1>1 DEF ConfigInv, NumberIsNext, ConfigTypes, RevisionFile
<1>3. revisions' = revisions \cup {r}
  BY Zenon
<1> HIDE DEF r
<1>4. /\ NumbersDiffer' /\ ChainHolds' /\ LatestExists'
      /\ torn => list' = list /\ latest' = latest
      /\ ~torn => list' = list \cup {r} /\ latest' = {r}
  BY Zenon, <1>1, <1>2, <1>3, NewFile
<1>5. guard = {a} /\ \A b \in Editors : b # a => edit[b].at \notin {"record", "swap"}
  BY Zenon DEF ConfigInv, LockCovers
<1>6. \A b \in Editors : edit'[b].at \in {"record", "swap"} => b = a /\ guard' = {a} /\ ~torn /\ edit'[a].at = "swap" /\ edit'[a].body = r.body
  BY Zenon, <1>0, <1>1, <1>5 DEF EditState
<1>7. ConfigTypes'
  BY Zenon, <1>1, <1>3 DEF ConfigInv, ConfigTypes
<1>8. LockCovers' /\ NumberIsNext'
  BY Zenon, <1>6 DEF LockCovers, NumberIsNext
<1>9. SwapIsNewest'
  <2>1. \A q \in revisions' : q.seq <= r.seq
    BY <1>1, <1>2, <1>3
  <2> QED BY Zenon, <1>4, <1>6, <2>1 DEF SwapIsNewest
<1>10. InstalledIsLatest'
  <2>1. CASE torn
    <3>1. \A b \in Editors : edit[b].at # "swap"
      BY Zenon, <1>5
    <3> QED BY Zenon, <1>4, <2>1, <3>1 DEF ConfigInv, InstalledIsLatest
  <2>2. CASE ~torn
    BY Zenon, <2>2 DEF InstalledIsLatest
  <2> QED BY Zenon, <2>1, <2>2
<1>11. ValidatedHolds'
  <2>1. \A b \in Editors : edit'[b].at # "idle" =>
           edit[b].at # "idle" /\ edit'[b].checked = edit[b].checked /\ edit'[b].body = edit[b].body
    BY <1>0 DEF EditState
  <2> QED BY Zenon, <2>1 DEF ConfigInv, ValidatedHolds
<1> QED BY Zenon, <1>4, <1>7, <1>8, <1>9, <1>10, <1>11 DEF ConfigInv

\* Every step keeps the invariant.
LEMMA ConfigStep == ConfigInv /\ [ConfigNext]_configVars => ConfigInv'
<1> SUFFICES ASSUME ConfigInv, [ConfigNext]_configVars PROVE ConfigInv'
  BY Zenon
<1>t. /\ base \in Bases /\ override \in Bodies /\ revisions \subseteq RevisionFile
      /\ edit \in [Editors -> EditState] /\ edits \in Nat /\ checkedAt \in Nat /\ cut \in BOOLEAN
  BY Zenon DEF ConfigInv, ConfigTypes
<1>n. NoEdit \in EditState /\ NoEdit.at = "idle"
  BY Zenon, EveryBaseBoots DEF NoEdit, EditState
<1>1. ASSUME NEW a \in Editors, NEW body \in Bodies, body \in Accepts[base], Begin(a, body) PROVE ConfigInv'
  <2> DEFINE new == [at |-> "enter", body |-> body, seq |-> 0, checked |-> edits, parent |-> {}]
  <2>1. new \in EditState /\ new.at = "enter" /\ new.body = body /\ new.checked = edits
    BY Zenon, <1>t DEF EditState
  <2>2. /\ edit' = [edit EXCEPT ![a] = new] /\ edit[a].at = "idle"
        /\ UNCHANGED <<base, override, revisions, guard, edits, cut, checkedAt>>
    BY Zenon, <1>1 DEF Begin
  <2> HIDE DEF new
  <2>3. edit' \in [Editors -> EditState] /\ edit'[a] = new /\ \A b \in Editors : b # a => edit'[b] = edit[b]
    BY Zenon, <1>t, <2>1, <2>2
  <2>4. ConfigTypes' /\ LockCovers'
    BY Zenon, <1>t, <2>1, <2>2, <2>3 DEF ConfigInv, ConfigTypes, LockCovers
  <2>5. ValidatedHolds'
    <3>1. edits <= edits
      BY <1>t
    <3> QED BY Zenon, <3>1, <1>1, <2>1, <2>2, <2>3 DEF ConfigInv, ValidatedHolds
  <2> QED BY Zenon, <2>1, <2>2, <2>3, <2>4, <2>5, ConfigQuiet
<1>2. ASSUME NEW a \in Editors, EnterApply(a) PROVE ConfigInv'
  <2>1. PICK n \in 1 .. Cardinality(revisions) + 1 : next_seq(n) /\ edit' = [edit EXCEPT ![a] = [at |-> "record", body |-> edit[a].body, seq |-> n,
                                          checked |-> edit[a].checked, parent |-> {r.body : r \in latest}]]
    BY Zenon, <1>2 DEF EnterApply
  <2>0. n \in Nat
    OBVIOUS
  <2> DEFINE new == [at |-> "record", body |-> edit[a].body, seq |-> n,
                     checked |-> edit[a].checked, parent |-> {r.body : r \in latest}]
  <2>2. /\ edit[a].at = "enter" /\ guard = {} /\ guard' = {a}
        /\ UNCHANGED <<base, override, revisions, edits, cut, checkedAt>>
    BY Zenon, <1>2 DEF EnterApply
  <2>3. {r.body : r \in latest} \subseteq Bodies
    BY Zenon, <1>t DEF latest, list, RevisionFile
  <2>4. /\ new \in EditState /\ new.at = "record" /\ new.seq = n /\ new.body = edit[a].body
        /\ new.checked = edit[a].checked /\ new.parent = {r.body : r \in latest}
    BY Zenon, <1>t, <2>0, <2>3 DEF EditState
  <2>5. edit' = [edit EXCEPT ![a] = new]
    BY Zenon, <2>1
  <2> HIDE DEF new
  <2>6. edit' \in [Editors -> EditState] /\ edit'[a] = new /\ \A b \in Editors : b # a => edit'[b] = edit[b]
    BY Zenon, <1>t, <2>4, <2>5
  <2>7. \A b \in Editors : b # a => edit'[b].at \notin {"record", "swap"}
    BY Zenon, <2>2, <2>6 DEF ConfigInv, LockCovers
  <2>8. /\ list' = list /\ latest' = latest /\ NumbersDiffer' /\ ChainHolds' /\ LatestExists'
    BY Zenon, <2>2, SameFiles
  <2>9. ConfigTypes' /\ LockCovers' /\ SwapIsNewest'
    BY Zenon, <1>t, <2>2, <2>4, <2>6, <2>7 DEF ConfigTypes, LockCovers, SwapIsNewest
  <2>10. NumberIsNext'
    BY Zenon, <2>1, <2>2, <2>4, <2>6, <2>7, <2>8 DEF NumberIsNext, next_seq
  <2>11. InstalledIsLatest'
    <3>1. \A b \in Editors : edit[b].at # "swap"
      BY Zenon, <2>2 DEF ConfigInv, LockCovers
    <3> QED BY Zenon, <2>2, <2>8, <3>1 DEF ConfigInv, InstalledIsLatest
  <2>12. ValidatedHolds'
    BY Zenon, <2>2, <2>4, <2>6 DEF ConfigInv, ValidatedHolds
  <2> QED BY Zenon, <2>8, <2>9, <2>10, <2>11, <2>12 DEF ConfigInv
<1>3. ASSUME NEW a \in Editors, write_new_private(a) PROVE ConfigInv'
  <2>1. /\ edit[a].at = "record" /\ edit' = [edit EXCEPT ![a].at = "swap"]
        /\ revisions' = revisions \cup {[seq |-> edit[a].seq, parent |-> edit[a].parent,
                                         body |-> edit[a].body, torn |-> FALSE]}
        /\ UNCHANGED <<base, override, guard, edits, cut, checkedAt>>
    BY Zenon, <1>3 DEF write_new_private
  <2>2. [edit[a] EXCEPT !.at = "swap"] \in EditState /\ [edit[a] EXCEPT !.at = "swap"].at = "swap"
    BY Zenon, <1>t DEF EditState
  <2>3. edit' \in [Editors -> EditState] /\ edit'[a] = [edit[a] EXCEPT !.at = "swap"] /\ \A b \in Editors : b # a => edit'[b] = edit[b]
    BY Zenon, <1>t, <2>1, <2>2
  <2>4. guard = {a}
    BY Zenon, <2>1 DEF ConfigInv, LockCovers
  <2> QED BY Zenon, <1>t, <2>1, <2>2, <2>3, <2>4, ConfigWrite
<1>4. ASSUME NEW a \in Editors, write_atomic(a) PROVE ConfigInv'
  <2>1. /\ edit[a].at = "swap" /\ override' = edit[a].body /\ checkedAt' = edit[a].checked /\ cut' = FALSE
        /\ edit' = [edit EXCEPT ![a] = NoEdit] /\ UNCHANGED <<base, revisions, edits>>
    BY Zenon, <1>4 DEF write_atomic, Leave
  <2>2. edit' \in [Editors -> EditState] /\ edit'[a] = NoEdit /\ \A b \in Editors : b # a => edit'[b] = edit[b]
    BY Zenon, <1>t, <1>n, <2>1
  <2>3. \A b \in Editors : edit'[b].at \notin {"record", "swap"}
    BY Zenon, <1>n, <2>1, <2>2 DEF ConfigInv, LockCovers
  <2>4. /\ list' = list /\ latest' = latest /\ NumbersDiffer' /\ ChainHolds' /\ LatestExists'
    BY Zenon, <2>1, SameFiles
  <2>5. edit[a].body \in Bodies /\ edit[a].checked \in Nat
    BY Zenon, <1>t DEF EditState
  <2>6. ConfigTypes' /\ LockCovers' /\ NumberIsNext' /\ SwapIsNewest'
    BY Zenon, <1>t, <2>1, <2>2, <2>3, <2>5 DEF ConfigTypes, LockCovers, NumberIsNext, SwapIsNewest
  <2>7. InstalledIsLatest'
    <3>1. PICK r \in list : r.body = edit[a].body /\ \A q \in revisions : q.seq <= r.seq
      BY Zenon, <2>1 DEF ConfigInv, SwapIsNewest
    <3>2. \A q \in revisions : q.seq \in Nat
      BY Zenon, <1>t DEF RevisionFile
    <3>3. r \in latest
      BY Zenon, <3>1 DEF latest, list
    <3>4. ASSUME NEW q \in latest PROVE q = r
      <4>1. q \in revisions /\ r \in revisions
        BY Zenon, <3>1 DEF latest, list
      <4>2. r.seq <= q.seq /\ q.seq <= r.seq
        BY Zenon, <3>1, <4>1 DEF latest
      <4>3. q.seq \in Nat /\ r.seq \in Nat
        BY Zenon, <3>2, <4>1
      <4>4. q.seq = r.seq
        BY <4>2, <4>3
      <4> QED BY Zenon, <4>1, <4>4 DEF ConfigInv, NumbersDiffer
    <3> QED BY Zenon, <2>1, <2>4, <3>1, <3>3, <3>4 DEF InstalledIsLatest
  <2>8. ValidatedHolds'
    BY Zenon, <1>n, <2>1, <2>2 DEF ConfigInv, ValidatedHolds
  <2> QED BY Zenon, <2>4, <2>6, <2>7, <2>8 DEF ConfigInv
<1>5. ASSUME NEW A \in SUBSET Editors, Abandoned(A), UNCHANGED <<base, override, edits, checkedAt>>,
             edit' = [b \in Editors |-> IF b \in A THEN NoEdit ELSE edit[b]],
             \A b \in Editors \ A : guard = {b} => guard' = {b}
      PROVE  ConfigInv'
  <2>1. /\ edit' \in [Editors -> EditState]
        /\ \A b \in Editors : edit'[b] = NoEdit \/ (b \notin A /\ edit'[b] = edit[b])
        /\ \A b \in A : edit'[b] = NoEdit
    BY Zenon, <1>t, <1>n, <1>5
  <2>2. CASE revisions' = revisions /\ cut' = (cut \/ \E a \in A : edit[a].at = "swap")
    <3>1. \A b \in Editors : edit'[b].at \in {"record", "swap"} => edit'[b] = edit[b] /\ b \notin A
      BY Zenon, <1>n, <2>1
    <3>2. cut' \in BOOLEAN /\ (~cut' => ~cut /\ \A b \in A : edit[b].at # "swap")
      BY Zenon, <1>t, <2>2
    <3>3. ConfigTypes'
      BY Zenon, <1>t, <1>5, <2>1, <2>2, <3>2 DEF ConfigTypes
    <3>4. LockCovers'
      BY Zenon, <1>5, <3>1 DEF ConfigInv, LockCovers
    <3>5. ValidatedHolds'
      BY Zenon, <1>n, <1>5, <2>1 DEF ConfigInv, ValidatedHolds
    <3>6. /\ list' = list /\ latest' = latest /\ NumbersDiffer' /\ ChainHolds' /\ LatestExists'
      BY Zenon, <2>2, SameFiles
    <3>7. NumberIsNext' /\ SwapIsNewest'
      BY Zenon, <2>2, <3>1, <3>6 DEF ConfigInv, NumberIsNext, SwapIsNewest
    <3>8. InstalledIsLatest'
      <4>1. ASSUME \A b \in Editors : edit'[b].at # "swap", ~cut' PROVE \A b \in Editors : edit[b].at # "swap"
        BY Zenon, <2>1, <3>2, <4>1, <1>5
      <4> QED BY Zenon, <1>5, <3>2, <3>6, <4>1 DEF ConfigInv, InstalledIsLatest
    <3> QED BY Zenon, <3>3, <3>4, <3>5, <3>6, <3>7, <3>8 DEF ConfigInv
  <2>3. ASSUME NEW a \in A, NEW torn \in BOOLEAN, edit[a].at = "record",
               revisions' = revisions \cup {[seq |-> edit[a].seq, parent |-> edit[a].parent,
                                             body |-> edit[a].body, torn |-> torn]},
               cut' = (cut \/ ~torn)
        PROVE  ConfigInv'
    <3>1. \A b \in Editors : \/ edit'[b].at = "idle"
                             \/ b # a /\ edit'[b] = edit[b]
      BY Zenon, <1>n, <1>5, <2>1, <2>3
    <3>2. cut' \in BOOLEAN /\ (~torn => cut') /\ (~cut' => ~cut)
      BY Zenon, <1>t, <2>3
    <3> QED BY Zenon, <1>5, <2>1, <2>3, <3>1, <3>2, ConfigWrite
  <2> QED BY Zenon, <1>5, <2>2, <2>3 DEF Abandoned
<1>6. ASSUME NEW a \in Editors, WriteFails(a) PROVE ConfigInv'
  <2>1. edit' = [b \in Editors |-> IF b \in {a} THEN NoEdit ELSE edit[b]]
    BY Zenon, <1>t, <1>6 DEF WriteFails, Leave
  <2>2. Abandoned({a}) /\ UNCHANGED <<base, override, edits, checkedAt>> /\ guard' = guard \ {a}
    BY Zenon, <1>6 DEF WriteFails, Leave
  <2> QED BY Zenon, <1>5, <2>1, <2>2
<1>7. CASE ServeStops
  <2>1. edit' = [b \in Editors |-> IF b \in Editors THEN NoEdit ELSE edit[b]]
    BY Zenon, <1>7 DEF ServeStops
  <2>2. Abandoned(Editors) /\ UNCHANGED <<base, override, edits, checkedAt>> /\ guard' = {}
    BY Zenon, <1>7 DEF ServeStops
  <2> QED BY Zenon, <1>5, <2>1, <2>2
<1>8. CASE ServeStarts \/ UNCHANGED configVars
  <2>1. UNCHANGED <<base, override, revisions, edit, guard, edits, cut, checkedAt>>
    BY Zenon, <1>8 DEF ServeStarts, configVars
  <2>2. ConfigTypes' /\ LockCovers' /\ ValidatedHolds'
    BY Zenon, <2>1 DEF ConfigInv, ConfigTypes, LockCovers, ValidatedHolds
  <2> QED BY Zenon, <2>1, <2>2, ConfigQuiet
<1>9. CASE EditBase
  <2>1. UNCHANGED <<override, revisions, edit, guard, cut, checkedAt>> /\ edits' = edits + 1 /\ base' \in Bases
    BY Zenon, <1>9 DEF EditBase
  <2>2. ConfigTypes' /\ LockCovers'
    BY <1>t, <2>1 DEF ConfigInv, ConfigTypes, LockCovers
  <2>3. checkedAt <= edits /\ \A a \in Editors : edit[a].at # "idle" => edit[a].checked <= edits /\ edit[a].checked \in Nat
    BY Zenon, <1>t DEF ConfigInv, ValidatedHolds, EditState
  <2>4. ValidatedHolds'
    BY <1>t, <2>1, <2>3 DEF ValidatedHolds
  <2> QED BY Zenon, <2>1, <2>2, <2>4, ConfigQuiet
<1>10. \A r \in list : r.body \in Bodies
  BY Zenon, <1>t DEF list, RevisionFile
<1> QED
  BY Zenon, <1>1, <1>2, <1>3, <1>4, <1>6, <1>7, <1>8, <1>9, <1>10
  DEF ConfigNext, config_apply, config_rollback, validate_override

\* The invariant holds in every reachable state.
LEMMA ConfigHolds == ConfigSpec => []ConfigInv
  BY ConfigFirst, ConfigStep, PTL DEF ConfigSpec

\* The active override is the latest revision whenever no apply is under way and
\* none was cut off between its two writes (RevisionStore::apply).
THEOREM OverrideIsLatest == ConfigSpec => []ActiveIsLatest
<1>1. ConfigInv => ActiveIsLatest
  <2> SUFFICES ASSUME ConfigInv, ~cut, guard = {} PROVE override \in IF latest = {} THEN {Empty} ELSE {r.body : r \in latest}
    BY Zenon DEF ActiveIsLatest
  <2>1. \A a \in Editors : edit[a].at # "swap"
    BY Zenon DEF ConfigInv, LockCovers
  <2> QED BY Zenon, <2>1 DEF ConfigInv, InstalledIsLatest
<1> QED BY <1>1, ConfigHolds, PTL

\* What the console installs boots again, unless the base document was edited
\* after the request was validated (config_apply, config_rollback).
THEOREM OverrideBoots == ConfigSpec => []BootsAgain
<1>1. ConfigInv => BootsAgain
  BY Zenon DEF ConfigInv, ValidatedHolds, BootsAgain
<1> QED BY <1>1, ConfigHolds, PTL

\* The readable revisions are one line of parents, whatever was torn, and the
\* number an apply takes is free (next_seq, write_new_private).
THEOREM HistoryIsOneLine == ConfigSpec => [](ChainHolds /\ NumberIsFree)
<1>1. ConfigInv => ChainHolds /\ NumberIsFree
  <2> SUFFICES ASSUME ConfigInv PROVE NumberIsFree
    BY Zenon DEF ConfigInv
  <2>1. \A r \in revisions : r.seq \in Nat
    BY Zenon DEF ConfigInv, ConfigTypes, RevisionFile
  <2> QED BY <2>1 DEF ConfigInv, NumberIsNext, NumberIsFree
<1> QED BY <1>1, ConfigHolds, PTL

-----------------------------------------------------------------------------
(* The SLA clocks *)

\* Every step keeps the types.
LEMMA SlaTypeStep == SlaTypeOK /\ [SlaNext]_slaVars => SlaTypeOK'
<1> SUFFICES ASSUME SlaTypeOK, [SlaNext]_slaVars PROVE SlaTypeOK'
  BY Zenon
<1> USE SlaAssumption DEF SlaTypeOK
<1>r. NoRow \in SlaRow /\ NoRow.tags = {} /\ NoRow.state = "none"
  BY DEF NoRow, SlaRow
<1>a. /\ Asleep \in [on : BOOLEAN, now : 0 .. MaxMinutes, listed : [SlaCases -> SlaRow], newly : SUBSET (SlaCases \X Clock)]
      /\ ~Asleep.on
  BY <1>r DEF Asleep
<1>m. ASSUME NEW p \in SlaRow, NEW n \in SlaRow PROVE slaMerged(p, n) \in SlaRow
  BY Zenon DEF slaMerged, SlaRow
<1>s. ASSUME NEW c \in SlaRow, NEW s \in {"agent", "waiting", "closed"} PROVE [c EXCEPT !.state = s] \in SlaRow
  BY Zenon DEF SlaRow
<1>1. ASSUME NEW i \in SlaCases, SlaOpen(i) PROVE SlaTypeOK'
  <2> DEFINE new == [NoRow EXCEPT !.state = "agent", !.opened_at = minute, !.state_changed_at = minute]
  <2>1. new \in SlaRow
    BY Zenon DEF NoRow, SlaRow
  <2>2. row' = [row EXCEPT ![i] = new] /\ copy' = [copy EXCEPT ![i] = new]
    BY Zenon, <1>1 DEF SlaOpen
  <2> HIDE DEF new
  <2> QED BY <1>1, <2>1, <2>2 DEF SlaOpen
<1>2. ASSUME NEW i \in SlaCases, SlaTriage(i) PROVE SlaTypeOK'
  <2>1. PICK s \in {"agent", "waiting", "closed"} :
          LET new == [copy[i] EXCEPT !.state = s] IN
          /\ row' = [row EXCEPT ![i] = IF rowStored(i) THEN slaMerged(@, new) ELSE new]
          /\ \/ s = "agent" /\ copy' = [copy EXCEPT ![i] = new]
             \/ copy' = [copy EXCEPT ![i] = NoRow]
    BY Zenon, <1>2 DEF SlaTriage
  <2> DEFINE new == [copy[i] EXCEPT !.state = s]
  <2>2. new \in SlaRow
    BY Zenon, <1>s
  <2> HIDE DEF new
  <2>3. row' \in [SlaCases -> SlaRow]
    BY Zenon, <1>m, <2>1, <2>2 DEF new
  <2>4. copy' \in [SlaCases -> SlaRow]
    BY Zenon, <1>r, <2>1, <2>2 DEF new
  <2>5. UNCHANGED <<minute, sweep, told, untagged, born>> /\ recreated' \subseteq SlaCases
    BY Zenon, <1>2 DEF SlaTriage
  <2> QED BY Zenon, <2>3, <2>4, <2>5
<1>3. ASSUME NEW i \in SlaCases, SlaAnalyst(i) PROVE SlaTypeOK'
  <2>0. row[i] \in SlaRow
    BY Zenon
  <2>1. [row[i] EXCEPT !.owned = ~@] \in SlaRow /\ \A k : [row[i] EXCEPT !.tags = @ \ {k}] \in SlaRow
    BY Zenon, <2>0 DEF SlaRow
  <2>2. slaMerged(row[i], [row[i] EXCEPT !.state = "closed"]) \in SlaRow
    BY Zenon, <1>m, <1>s, <2>0
  <2>3. \E x \in SlaRow : row' = [row EXCEPT ![i] = x]
    BY Zenon, <1>3, <2>1, <2>2 DEF SlaAnalyst
  <2>4. untagged' \subseteq SlaCases \X Clock
    BY <1>3, <2>0 DEF SlaAnalyst, SlaRow
  <2>5. UNCHANGED <<minute, copy, sweep, told, born, recreated>>
    BY Zenon, <1>3 DEF SlaAnalyst
  <2> QED BY Zenon, <2>3, <2>4, <2>5
<1>4. ASSUME NEW i \in SlaCases, SlaPrune(i) PROVE SlaTypeOK'
  BY Zenon, <1>4, <1>r DEF SlaPrune
<1>5. CASE SweepList
  BY Zenon, <1>5 DEF SweepList
<1>6. CASE SweepMark
  <2>2. PICK i \in SlaCases :
          /\ row' = [row EXCEPT ![i].tags = IF rowStored(i) THEN @ \cup Want(i) ELSE @]
          /\ sweep' = [sweep EXCEPT !.listed[i] = NoRow, !.newly = @ \cup Listed(i)]
          /\ sweep.on /\ UNCHANGED <<minute, copy, told, untagged, born, recreated>>
    BY Zenon, <1>6 DEF SweepMark, Todo
  <2>1. Listed(i) \subseteq SlaCases \X Clock /\ Want(i) \subseteq Clock
    BY Zenon DEF Listed, Want, sla_status
  <2>3. row' \in [SlaCases -> SlaRow]
    <3> DEFINE tags == IF rowStored(i) THEN row[i].tags \cup Want(i) ELSE row[i].tags
    <3>0. row[i] \in SlaRow /\ tags \in SUBSET Clock
      BY Zenon, <2>1 DEF SlaRow
    <3>1. row' = [row EXCEPT ![i] = [row[i] EXCEPT !.tags = tags]]
      BY Zenon, <2>2
    <3> HIDE DEF tags
    <3>2. [row[i] EXCEPT !.tags = tags] \in SlaRow
      BY Zenon, <3>0 DEF SlaRow
    <3> QED BY Zenon, <3>1, <3>2
  <2>4. sweep' = [on |-> TRUE, now |-> sweep.now, listed |-> [sweep.listed EXCEPT ![i] = NoRow], newly |-> sweep.newly \cup Listed(i)]
    BY Zenon, <2>2
  <2>5. /\ sweep' \in [on : BOOLEAN, now : 0 .. MaxMinutes, listed : [SlaCases -> SlaRow], newly : SUBSET (SlaCases \X Clock)]
        /\ sweep'.on
    BY Zenon, <1>r, <2>1, <2>4
  <2> QED BY Zenon, <2>2, <2>3, <2>5
<1>7. CASE SweepFails
  BY Zenon, <1>7, <1>a DEF SweepFails
<1>8. CASE SweepEnd
  <2>1. ASSUME Announced PROVE told' \in [SlaCases -> [digests : Nat, named : SUBSET Clock]]
    BY <2>1 DEF Announced
  <2>2. sweep' = Asleep /\ UNCHANGED <<minute, row, copy, untagged, born, recreated>> /\ (Announced \/ UNCHANGED told)
    BY Zenon, <1>8 DEF SweepEnd
  <2> QED BY Zenon, <1>a, <2>1, <2>2
<1>9. CASE SlaTick
  BY <1>9 DEF SlaTick
<1>10. CASE SlaStop
  <2>1. copy' \in [SlaCases -> SlaRow]
    BY Zenon, <1>10, <1>r DEF SlaStop
  <2> QED BY Zenon, <1>10, <1>a, <2>1 DEF SlaStop
<1>11. CASE UNCHANGED slaVars
  BY Zenon, <1>11 DEF slaVars
<1> HIDE DEF SlaTypeOK
<1> QED BY Zenon, <1>1, <1>2, <1>3, <1>4, <1>5, <1>6, <1>7, <1>8, <1>9, <1>10, <1>11 DEF SlaNext, Sweep

\* An analyst took a mark off the case, or it was deleted under its triage.
Disturbed(i) == i \in recreated \/ \E k \in Clock : <<i, k>> \in untagged

\* Of an undisturbed case: the row has every clock that was announced or is
\* about to be, and what a sweep listed of it; a sweep looks at a row with
\* every announced clock on it, and announces a case for a new one.
Truthful(i) ==
    /\ rowStored(i) => /\ told[i].named \subseteq row[i].tags
                       /\ \A k \in Clock : <<i, k>> \in sweep.newly => k \in row[i].tags
                       /\ sweep.listed[i].tags \subseteq row[i].tags
    /\ sweep.listed[i].state # "none" => told[i].named \subseteq sweep.listed[i].tags
    /\ (\E k \in Clock : <<i, k>> \in sweep.newly)
          => \E k \in Clock : <<i, k>> \in sweep.newly /\ k \notin told[i].named

\* Nothing is known of a case before it opens.
Unborn(i) ==
    /\ row[i] = NoRow /\ copy[i] = NoRow /\ sweep.listed[i] = NoRow
    /\ told[i].named = {} /\ \A k \in Clock : <<i, k>> \notin sweep.newly

SlaInv ==
    \A i \in SlaCases : (i \notin born => Unborn(i)) /\ (Disturbed(i) \/ Truthful(i))

\* Once disturbed, always disturbed.
LEMMA DisturbedStays ==
    ASSUME recreated \subseteq recreated', untagged \subseteq untagged', NEW i, Disturbed(i)
    PROVE  Disturbed(i)'
  BY Zenon DEF Disturbed

\* A row that is deleted, or keeps its marks, stays truthful.
LEMMA RowGrows ==
    ASSUME NEW i \in SlaCases, Truthful(i), UNCHANGED <<sweep, told>>,
           row'[i].state = "none" \/ (rowStored(i) /\ row[i].tags \subseteq row'[i].tags)
    PROVE  Truthful(i)'
<1>1. rowStored(i)' => rowStored(i) /\ row[i].tags \subseteq row'[i].tags
  BY Zenon DEF rowStored
<1>2. /\ rowStored(i)' => /\ told'[i].named \subseteq row'[i].tags
                          /\ \A k \in Clock : <<i, k>> \in sweep'.newly => k \in row'[i].tags
                          /\ sweep'.listed[i].tags \subseteq row'[i].tags
  BY Zenon, <1>1 DEF Truthful
<1>3. /\ sweep'.listed[i].state # "none" => told'[i].named \subseteq sweep'.listed[i].tags
      /\ (\E k \in Clock : <<i, k>> \in sweep'.newly)
            => \E k \in Clock : <<i, k>> \in sweep'.newly /\ k \notin told'[i].named
  BY Zenon DEF Truthful
<1> QED BY Zenon, <1>2, <1>3 DEF Truthful

\* A sweep that ends, and says no more than the marks do, leaves the case truthful.
LEMMA SweepRests ==
    ASSUME SlaTypeOK, NEW i \in SlaCases, Truthful(i), sweep' = Asleep, UNCHANGED row,
           told'[i].named \subseteq told[i].named \cup {k \in Clock : <<i, k>> \in sweep.newly}
    PROVE  Truthful(i)'
<1>1. sweep'.listed[i] = NoRow /\ sweep'.newly = {} /\ NoRow.state = "none" /\ NoRow.tags = {}
  BY Zenon DEF Asleep, NoRow
<1>2. rowStored(i)' => told'[i].named \subseteq row'[i].tags
  BY Zenon DEF Truthful, rowStored
<1> QED BY Zenon, <1>1, <1>2 DEF Truthful

\* Every step keeps the invariant.
LEMMA SlaStep == SlaTypeOK /\ SlaInv /\ [SlaNext]_slaVars => SlaInv'
<1> SUFFICES ASSUME SlaTypeOK, SlaInv, [SlaNext]_slaVars, NEW i \in SlaCases
             PROVE  (i \notin born' => Unborn(i)') /\ (Disturbed(i)' \/ Truthful(i)')
  BY Zenon DEF SlaInv
<1>0. (i \notin born => Unborn(i)) /\ (Disturbed(i) \/ Truthful(i))
  BY Zenon DEF SlaInv
<1>n. NoRow.state = "none" /\ NoRow.tags = {} /\ NoRow \in SlaRow
  BY SlaAssumption DEF NoRow, SlaRow
<1>1. ASSUME NEW j \in SlaCases, SlaOpen(j)
      PROVE  (i \notin born' => Unborn(i)') /\ (Disturbed(i)' \/ Truthful(i)')
  <2>0. UNCHANGED <<sweep, told, untagged, recreated>> /\ born' = born \cup {j} /\ j \notin born
    BY Zenon, <1>1 DEF SlaOpen
  <2>1. CASE i # j
    <3>1. row'[i] = row[i] /\ copy'[i] = copy[i]
      BY Zenon, <1>1, <2>1 DEF SlaOpen, SlaTypeOK
    <3>2. i \notin born' => Unborn(i)'
      BY Zenon, <1>0, <2>0, <3>1 DEF Unborn
    <3>3. Truthful(i) => Truthful(i)'
      BY Zenon, <2>0, <3>1, RowGrows DEF rowStored
    <3> QED BY Zenon, <1>0, <2>0, <3>2, <3>3, DisturbedStays
  <2>2. CASE i = j
    <3>1. Unborn(i) /\ i \in born'
      BY Zenon, <1>0, <2>0, <2>2
    <3>2. Truthful(i)'
      BY Zenon, <1>n, <2>0, <3>1 DEF Unborn, Truthful
    <3> QED BY Zenon, <3>1, <3>2
  <2> QED BY Zenon, <2>1, <2>2
<1>2. ASSUME NEW j \in SlaCases, SlaTriage(j)
      PROVE  (i \notin born' => Unborn(i)') /\ (Disturbed(i)' \/ Truthful(i)')
  <2>0. UNCHANGED <<sweep, told, untagged, born>> /\ recreated \subseteq recreated' /\ copy[j] # NoRow
    BY Zenon, <1>2 DEF SlaTriage
  <2>1. CASE i # j
    <3>1. row'[i] = row[i] /\ copy'[i] = copy[i]
      BY Zenon, <1>2, <2>1 DEF SlaTriage, SlaTypeOK
    <3>2. i \notin born' => Unborn(i)'
      BY Zenon, <1>0, <2>0, <3>1 DEF Unborn
    <3>3. Truthful(i) => Truthful(i)'
      BY Zenon, <2>0, <3>1, RowGrows DEF rowStored
    <3> QED BY Zenon, <1>0, <2>0, <3>2, <3>3, DisturbedStays
  <2>2. CASE i = j
    <3>1. i \in born'
      BY Zenon, <1>0, <2>0, <2>2 DEF Unborn
    <3>2. CASE ~rowStored(i)
      <4>1. i \in recreated'
        BY Zenon, <1>2, <2>2, <3>2 DEF SlaTriage
      <4> QED BY Zenon, <3>1, <4>1 DEF Disturbed
    <3>3. CASE rowStored(i)
      <4>1. PICK new : row' = [row EXCEPT ![i] = slaMerged(@, new)]
        BY Zenon, <1>2, <2>2, <3>3 DEF SlaTriage
      <4>2. row[i].tags \subseteq row'[i].tags
        BY Zenon, <4>1 DEF slaMerged, SlaTypeOK
      <4>3. Truthful(i) => Truthful(i)'
        BY Zenon, <2>0, <3>3, <4>2, RowGrows
      <4> QED BY Zenon, <1>0, <2>0, <3>1, <4>3, DisturbedStays
    <3> QED BY Zenon, <3>2, <3>3
  <2> QED BY Zenon, <2>1, <2>2
<1>3. ASSUME NEW j \in SlaCases, SlaAnalyst(j) \/ SlaPrune(j)
      PROVE  (i \notin born' => Unborn(i)') /\ (Disturbed(i)' \/ Truthful(i)')
  <2>0. UNCHANGED <<sweep, told, born, copy, recreated>> /\ untagged \subseteq untagged' /\ rowStored(j)
    BY Zenon, <1>3 DEF SlaAnalyst, SlaPrune
  <2>1. CASE i # j
    <3>1. row'[i] = row[i]
      BY Zenon, <1>3, <2>1 DEF SlaAnalyst, SlaPrune, SlaTypeOK
    <3>2. i \notin born' => Unborn(i)'
      BY Zenon, <1>0, <2>0, <3>1 DEF Unborn
    <3>3. Truthful(i) => Truthful(i)'
      BY Zenon, <2>0, <3>1, RowGrows DEF rowStored
    <3> QED BY Zenon, <1>0, <2>0, <3>2, <3>3, DisturbedStays
  <2>2. CASE i = j
    <3>1. i \in born'
      BY Zenon, <1>0, <1>n, <2>0, <2>2 DEF Unborn, rowStored
    <3>2. CASE \E k \in row[i].tags : untagged' = untagged \cup {<<i, k>>}
      <4>1. row[i].tags \subseteq Clock
        BY Zenon DEF SlaTypeOK, SlaRow
      <4> QED BY Zenon, <3>1, <3>2, <4>1 DEF Disturbed
    <3>3. CASE row'[i].state = "none" \/ row[i].tags \subseteq row'[i].tags
      <4>1. Truthful(i) => Truthful(i)'
        BY Zenon, <2>0, <2>2, <3>3, RowGrows
      <4> QED BY Zenon, <1>0, <2>0, <3>1, <4>1, DisturbedStays
    <3>4. row[i] \in SlaRow
      BY Zenon DEF SlaTypeOK
    <3>5. CASE row' = [row EXCEPT ![i].owned = ~@]
      <4>1. row'[i].tags = row[i].tags
        BY Zenon, <3>4, <3>5 DEF SlaTypeOK, SlaRow
      <4> QED BY Zenon, <3>3, <4>1
    <3>6. CASE row' = [row EXCEPT ![i] = slaMerged(@, [@ EXCEPT !.state = "closed"])]
      <4>1. row'[i] = slaMerged(row[i], [row[i] EXCEPT !.state = "closed"])
        BY Zenon, <3>6 DEF SlaTypeOK
      <4> QED BY <3>3, <4>1 DEF slaMerged
    <3>7. CASE row' = [row EXCEPT ![i] = NoRow]
      BY Zenon, <1>n, <3>3, <3>7 DEF SlaTypeOK
    <3> QED BY Zenon, <1>3, <2>2, <3>2, <3>5, <3>6, <3>7 DEF SlaAnalyst, SlaPrune
  <2> QED BY Zenon, <2>1, <2>2
<1>4. CASE SweepList
  <2>1. UNCHANGED <<row, copy, told, untagged, born, recreated>> /\ sweep'.listed = row /\ sweep'.newly = {}
    BY Zenon, <1>4 DEF SweepList
  <2>2. i \notin born' => Unborn(i)'
    BY Zenon, <1>0, <2>1 DEF Unborn
  <2>3. Truthful(i) => Truthful(i)'
    BY Zenon, <2>1 DEF Truthful, rowStored
  <2> QED BY Zenon, <1>0, <2>1, <2>2, <2>3, DisturbedStays
<1>5. CASE SweepMark
  <2>1. PICK m \in Todo :
          /\ row' = [row EXCEPT ![m].tags = IF rowStored(m) THEN @ \cup Want(m) ELSE @]
          /\ sweep' = [sweep EXCEPT !.listed[m] = NoRow, !.newly = @ \cup Listed(m)]
          /\ UNCHANGED <<copy, told, untagged, born, recreated>>
    BY Zenon, <1>5 DEF SweepMark
  <2>0. m \in Todo /\ m \in SlaCases
    BY Zenon DEF Todo
  <2>2. sweep'.listed = [sweep.listed EXCEPT ![m] = NoRow] /\ sweep'.newly = sweep.newly \cup Listed(m)
    BY Zenon, <2>1 DEF SlaTypeOK
  <2>3. CASE i # m
    <3>1. row'[i] = row[i] /\ sweep'.listed[i] = sweep.listed[i]
      BY Zenon, <2>1, <2>2, <2>3 DEF SlaTypeOK
    <3>2. \A k \in Clock : <<i, k>> \in sweep'.newly <=> <<i, k>> \in sweep.newly
      BY Zenon, <2>2, <2>3 DEF Listed
    <3>3. i \notin born' => Unborn(i)'
      BY Zenon, <1>0, <2>1, <3>1, <3>2 DEF Unborn
    <3>4. Truthful(i) => Truthful(i)'
      BY Zenon, <2>1, <3>1, <3>2 DEF Truthful, rowStored
    <3> QED BY Zenon, <1>0, <2>1, <3>3, <3>4, DisturbedStays
  <2>4. CASE i = m
    <3>1. sweep'.listed[i] = NoRow
      BY Zenon, <2>0, <2>2, <2>4 DEF SlaTypeOK
    <3>2. row'[i].state = row[i].state /\ (rowStored(i) => row'[i].tags = row[i].tags \cup Want(i))
      BY <2>0, <2>1, <2>4 DEF SlaTypeOK, SlaRow
    <3>3. PICK w \in Want(i) : TRUE
      BY Zenon, <2>0, <2>4 DEF Todo
    <3>4. w \in Clock /\ <<i, w>> \in sweep'.newly /\ sweep.listed[i].state # "none" /\ w \notin sweep.listed[i].tags
      BY Zenon, <2>2, <2>4, <3>3 DEF Want, Listed, sla_status
    <3>5. \A k \in Clock : <<i, k>> \in sweep'.newly =>
             <<i, k>> \in sweep.newly \/ k \in Want(i) \/ k \in sweep.listed[i].tags
      BY Zenon, <2>2, <2>4 DEF Want, Listed
    <3>6. i \in born'
      BY Zenon, <1>0, <1>n, <2>1, <3>4 DEF Unborn
    <3>7. Truthful(i) => Truthful(i)'
      BY Zenon, <1>n, <2>1, <3>1, <3>2, <3>4, <3>5 DEF Truthful, rowStored
    <3> QED BY Zenon, <1>0, <2>1, <3>6, <3>7, DisturbedStays
  <2> QED BY Zenon, <2>3, <2>4
<1>6. CASE SweepFails \/ SweepEnd \/ SlaStop
  <2>1. sweep' = Asleep /\ UNCHANGED <<row, untagged, born, recreated>> /\ (Announced \/ UNCHANGED told)
    BY Zenon, <1>6 DEF SweepFails, SweepEnd, SlaStop
  <2>2. told'[i].named \subseteq told[i].named \cup {k \in Clock : <<i, k>> \in sweep.newly}
    BY <2>1 DEF Announced
  <2>3. Truthful(i) => Truthful(i)'
    BY Zenon, <2>1, <2>2, SweepRests
  <2>4. ASSUME i \notin born' PROVE Unborn(i)'
    <3>1. Unborn(i)
      BY Zenon, <1>0, <2>1, <2>4
    <3>2. copy'[i] = NoRow
      BY Zenon, <1>6, <1>n, <3>1 DEF SweepFails, SweepEnd, SlaStop, Unborn
    <3>3. told'[i].named = {}
      BY Zenon, <2>2, <3>1 DEF Unborn
    <3> QED BY Zenon, <2>1, <3>1, <3>2, <3>3 DEF Unborn, Asleep
  <2> QED BY Zenon, <1>0, <2>1, <2>3, <2>4, DisturbedStays
<1>7. CASE SlaTick \/ UNCHANGED slaVars
  <2>1. UNCHANGED <<row, copy, sweep, told, untagged, born, recreated>>
    BY Zenon, <1>7 DEF SlaTick, slaVars
  <2> QED BY Zenon, <1>0, <2>1 DEF Unborn, Truthful, Disturbed, rowStored
<1> QED BY Zenon, <1>1, <1>2, <1>3, <1>4, <1>5, <1>6, <1>7 DEF SlaNext, Sweep

\* No case has opened at first.
LEMMA SlaFirst == SlaInit => SlaTypeOK /\ SlaInv
<1> SUFFICES ASSUME SlaInit PROVE SlaTypeOK /\ SlaInv
  BY Zenon
<1>n. NoRow.state = "none" /\ NoRow.tags = {} /\ NoRow \in SlaRow
  BY SlaAssumption DEF NoRow, SlaRow
<1>1. /\ Asleep \in [on : BOOLEAN, now : 0 .. MaxMinutes, listed : [SlaCases -> SlaRow], newly : SUBSET (SlaCases \X Clock)]
      /\ Asleep.newly = {} /\ \A i \in SlaCases : Asleep.listed[i] = NoRow
  BY <1>n, SlaAssumption DEF Asleep
<1>2. SlaTypeOK
  BY <1>n, <1>1, SlaAssumption DEF SlaInit, SlaTypeOK
<1>3. ASSUME NEW i \in SlaCases PROVE Unborn(i) /\ Truthful(i)
  BY Zenon, <1>n, <1>1 DEF SlaInit, Unborn, Truthful, rowStored
<1> QED BY Zenon, <1>2, <1>3 DEF SlaInv

\* A digest lists a case only when it names a clock of it that no digest named
\* before, whatever stale copies triage puts and however often ticks fail or the
\* process stops, unless an analyst takes a mark off or the case is deleted under
\* its triage (apply_sla_breaches, put_case).
THEOREM BreachesToldOnce == SlaSpec => BreachToldOnce
<1>1. ASSUME SlaTypeOK, SlaInv, [SlaNext]_slaVars, NEW i \in SlaCases PROVE ToldOnce(i)
  <2>1. CASE UNCHANGED told
    BY Zenon, <2>1 DEF ToldOnce
  <2>2. CASE Announced
    <3>1. CASE \A k \in Clock : <<i, k>> \notin sweep.newly
      BY Zenon, <2>2, <3>1 DEF Announced, ToldOnce
    <3>2. CASE (\E k \in Clock : <<i, k>> \in sweep.newly) /\ Truthful(i)
      <4>1. PICK k \in Clock : <<i, k>> \in sweep.newly /\ k \notin told[i].named
        BY Zenon, <3>2 DEF Truthful
      <4>2. k \in told'[i].named
        BY Zenon, <2>2, <4>1 DEF Announced
      <4> QED BY Zenon, <4>1, <4>2 DEF ToldOnce
    <3> QED BY Zenon, <1>1, <3>1, <3>2 DEF SlaInv, Disturbed, ToldOnce
  <2> QED
    BY Zenon, <1>1, <2>1, <2>2 DEF SlaNext, Sweep, slaVars, SlaOpen, SlaTriage, SlaAnalyst, SlaPrune,
       SweepList, SweepMark, SweepFails, SweepEnd, SlaTick, SlaStop
<1>2. SlaTypeOK /\ SlaInv /\ [SlaNext]_slaVars => [\A i \in SlaCases : ToldOnce(i)]_slaVars
  BY Zenon, <1>1
<1> QED BY <1>2, SlaFirst, SlaTypeStep, SlaStep, PTL DEF SlaSpec, BreachToldOnce

=============================================================================
