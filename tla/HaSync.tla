------------------------------- MODULE HaSync -------------------------------
(***************************************************************************)
(* The read replica of crates/garmr-retention/src/ha.rs and the loops that *)
(* drive it (crates/garmr-cli/src/serve.rs, `garmr ha promote'): writers   *)
(* ship snapshots of their warehouse to a bucket under an epoch, a         *)
(* follower pulls them, and a promotion moves the epoch forward.           *)
(*                                                                         *)
(* Every request to the bucket is a step of its own.  The environment      *)
(* follows the failover runbook: a node other than FirstWriter runs as a   *)
(* writer only once it was promoted.  It may restart any node.             *)
(*                                                                         *)
(* Abstractions.  A warehouse is a set of immutable data files and one     *)
(* mutable catalog, the set of data files it refers to.  A digest matches  *)
(* exactly when the contents are equal.  The lease's version tag is its    *)
(* epoch: no epoch is written twice with different contents unless the     *)
(* conditional put lets it.                                                *)
(***************************************************************************)
EXTENDS Integers, FiniteSets

CONSTANTS
    Nodes,         \* the nodes that may run as writers
    FirstWriter,   \* the writer before any promotion
    QuietShips,    \* whether ingest pauses between a ship's listing and its upload
    Faults,        \* requests that may fail: "lease", "manifest", "upload"
    MaxEpoch,      \* bound: promotions
    MaxShips,      \* bound: snapshot ids
    MaxCommits,    \* bound: commits of one node
    MaxStops,      \* bound: stops of writer processes
    MaxPullStops   \* bound: stops of the follower process

ASSUME HaAssumption ==
    /\ FirstWriter \in Nodes
    /\ QuietShips \in BOOLEAN
    /\ Faults \subseteq {"lease", "manifest", "upload"}
    /\ MaxEpoch \in Nat /\ MaxShips \in Nat /\ MaxCommits \in Nat
    /\ MaxStops \in Nat /\ MaxPullStops \in Nat

VARIABLES
    lease,      \* EPOCH.json: the epoch, 0 when there is no such object
    manifest,   \* MANIFEST.json: the last one put
    data,       \* the data objects in the bucket
    catalog,    \* the catalog object in the bucket: the data files it refers to
    files,      \* per node, the data files its warehouse holds and refers to
    loop,       \* per node, where its ship loop is
    epoch,      \* per node, the epoch it ships under
    id,         \* per node, its snapshot counter
    listed,     \* per node, the files collect_files found for the current ship
    sent,       \* per node, the catalog uploaded in the current ship
    promo,      \* per node, where its promote command is
    seen,       \* per node, the lease epoch its promote command has read
    granted,    \* <<epoch, node>> for every lease acquired
    audited,    \* promotions recorded in the audit ledger
    stops,      \* writer stops so far
    pull,       \* where the follower's pull is
    have_id,    \* the id of the snapshot the follower last applied
    pulling,    \* the manifest being pulled
    staging,    \* the staged warehouse
    live,       \* the follower's warehouse, with the manifest it came from
    applied,    \* the last snapshot the follower has applied
    pull_stops  \* follower stops so far

bucket == <<lease, manifest, data, catalog>>
ships == <<files, loop, epoch, id, listed, sent, stops>>
proms == <<promo, seen, granted, audited>>
follower == <<pull, have_id, pulling, staging, live, applied, pull_stops>>
vars == <<lease, manifest, data, catalog, files, loop, epoch, id, listed, sent,
          promo, seen, granted, audited, stops,
          pull, have_id, pulling, staging, live, applied, pull_stops>>

File == Nodes \X (1..MaxCommits)

Manifest == [id: Nat, epoch: Nat, writer: Nodes, files: SUBSET File, catalog: SUBSET File]

\* Nothing shipped, staged or applied yet.
Nothing == [id |-> 0, epoch |-> 0, writer |-> FirstWriter, files |-> {}, catalog |-> {}]

-----------------------------------------------------------------------------
(* The writer's ship loop. *)

\* The operator or the supervisor starts serve on a node in the writer role; a
\* promoted node begins with the snapshot it pulled.
Start(n) ==
    /\ loop[n] = "down"
    /\ n = FirstWriter \/ \E e \in 1..MaxEpoch : <<e, n>> \in granted
    /\ loop' = [loop EXCEPT ![n] = "lease"]
    /\ files' = [files EXCEPT ![n] = IF n = FirstWriter THEN @ ELSE @ \cup live.catalog]
    /\ UNCHANGED <<bucket, epoch, id, listed, sent, stops, proms, follower>>

\* The epoch the writer ships under is whatever lease it finds in the bucket.
ReadEpoch(n) ==
    /\ loop[n] = "lease"
    /\ \/ epoch' = [epoch EXCEPT ![n] = lease]
       \/ "lease" \in Faults /\ epoch' = [epoch EXCEPT ![n] = 0]
    /\ loop' = [loop EXCEPT ![n] = "id"]
    /\ UNCHANGED <<bucket, files, id, listed, sent, stops, proms, follower>>

\* Mutant of last_shipped_id: the counter starts over.
LastShippedZero == 0

last_shipped_id == manifest.id

ReadId(n) ==
    /\ loop[n] = "id"
    /\ \/ id' = [id EXCEPT ![n] = last_shipped_id]
       \/ "manifest" \in Faults /\ id' = [id EXCEPT ![n] = 0]
    /\ loop' = [loop EXCEPT ![n] = "check"]
    /\ UNCHANGED <<bucket, files, epoch, listed, sent, stops, proms, follower>>

\* Mutant of SelfFence: a writer fences itself out only two epochs later.
SelfFenceLate(mine, observed) == observed > mine + 1

\* fence_verdict: a higher epoch than mine was observed.
SelfFence(mine, observed) == observed > mine

\* The loop returns.  The process lives on and keeps committing locally.
Fenced(n) ==
    /\ loop[n] = "check"
    /\ SelfFence(epoch[n], lease)
    /\ loop' = [loop EXCEPT ![n] = "fenced"]
    /\ UNCHANGED <<bucket, files, epoch, id, listed, sent, stops, proms, follower>>

\* Not fenced, or the lease is unreadable: the next ship begins.
NextShip(n) ==
    /\ loop[n] = "check"
    /\ id[n] < MaxShips
    /\ ~SelfFence(epoch[n], lease) \/ "lease" \in Faults
    /\ id' = [id EXCEPT ![n] = @ + 1]
    /\ loop' = [loop EXCEPT ![n] = "list"]
    /\ UNCHANGED <<bucket, files, epoch, listed, sent, stops, proms, follower>>

\* ship: collect_files and the previous manifest.
ShipList(n) ==
    /\ loop[n] = "list"
    /\ listed' = [listed EXCEPT ![n] = files[n]]
    /\ loop' = [loop EXCEPT ![n] = "upload"]
    /\ UNCHANGED <<bucket, files, epoch, id, sent, stops, proms, follower>>

\* ship: the listed data files and a private copy of the catalog are uploaded.
ShipUpload(n) ==
    /\ loop[n] = "upload"
    /\ data' = data \cup listed[n]
    /\ catalog' = files[n]
    /\ sent' = [sent EXCEPT ![n] = files[n]]
    /\ loop' = [loop EXCEPT ![n] = "manifest"]
    /\ UNCHANGED <<lease, manifest, files, epoch, id, listed, stops, proms, follower>>

\* ship: the manifest is put last, whatever is there.
ShipManifest(n) ==
    /\ loop[n] = "manifest"
    /\ manifest' = [id |-> id[n], epoch |-> epoch[n], writer |-> n,
                    files |-> listed[n], catalog |-> sent[n]]
    /\ loop' = [loop EXCEPT ![n] = "check"]
    /\ UNCHANGED <<lease, data, catalog, files, epoch, id, listed, sent, stops, proms, follower>>

\* ship returns an error; the loop tries again with the next id.
ShipFails(n) ==
    /\ loop[n] \in {"list", "upload", "manifest"}
    /\ "upload" \in Faults
    /\ loop' = [loop EXCEPT ![n] = "check"]
    /\ UNCHANGED <<bucket, files, epoch, id, listed, sent, stops, proms, follower>>

\* Ingest commits a data file and the catalog that refers to it.
Commit(n) ==
    /\ loop[n] # "down"
    /\ QuietShips => loop[n] # "upload"
    /\ Cardinality({ f \in files[n] : f[1] = n }) < MaxCommits
    /\ files' = [files EXCEPT ![n] = @ \cup {<<n, Cardinality({ f \in @ : f[1] = n }) + 1>>}]
    /\ UNCHANGED <<bucket, loop, epoch, id, listed, sent, stops, proms, follower>>

Stop(n) ==
    /\ loop[n] # "down"
    /\ stops < MaxStops
    /\ stops' = stops + 1
    /\ loop' = [loop EXCEPT ![n] = "down"]
    /\ UNCHANGED <<bucket, files, epoch, id, listed, sent, proms, follower>>

-----------------------------------------------------------------------------
(* garmr ha promote, a process of its own on the node being promoted. *)

\* The ledger of the promote process: ha_cmd never calls ensure_init.
global == FALSE

PromoteRecord(n) ==
    /\ promo[n] = "none"
    /\ lease < MaxEpoch
    /\ audited' = IF global THEN audited + 1 ELSE audited
    /\ promo' = [promo EXCEPT ![n] = "read"]
    /\ UNCHANGED <<bucket, ships, seen, granted, follower>>

\* acquire_lease: the current lease, and its version, are read.
PromoteRead(n) ==
    /\ promo[n] = "read"
    /\ lease < MaxEpoch
    /\ seen' = [seen EXCEPT ![n] = lease]
    /\ promo' = [promo EXCEPT ![n] = "put"]
    /\ UNCHANGED <<bucket, ships, granted, audited, follower>>

\* Mutant of PromotePut: an unconditional put.
PromotePutAlways(n) ==
    /\ promo[n] = "put"
    /\ lease' = seen[n] + 1
    /\ granted' = granted \cup {<<seen[n] + 1, n>>}
    /\ promo' = [promo EXCEPT ![n] = "none"]
    /\ UNCHANGED <<manifest, data, catalog, ships, seen, audited, follower>>

\* acquire_lease: the conditional put; the loser of a race is told and stops.
PromotePut(n) ==
    /\ promo[n] = "put"
    /\ IF lease = seen[n]
       THEN lease' = seen[n] + 1 /\ granted' = granted \cup {<<seen[n] + 1, n>>}
       ELSE UNCHANGED <<lease, granted>>
    /\ promo' = [promo EXCEPT ![n] = "none"]
    /\ UNCHANGED <<manifest, data, catalog, ships, seen, audited, follower>>

-----------------------------------------------------------------------------
(* The follower. *)

\* The manifest is read first; one that is not newer is ignored.
PullManifest ==
    /\ pull = "idle"
    /\ manifest.id > have_id
    /\ pulling' = manifest
    /\ pull' = "lease"
    /\ UNCHANGED <<bucket, ships, proms, have_id, staging, live, applied, pull_stops>>

\* A snapshot from a fenced-out writer is refused, and nothing is applied
\* without a look at the lease.
PullLease ==
    /\ pull = "lease"
    /\ \/ pull' = IF pulling.epoch < lease THEN "idle" ELSE "stage"
       \/ "lease" \in Faults /\ pull' = "idle"
    /\ UNCHANGED <<bucket, ships, proms, have_id, pulling, staging, live, applied, pull_stops>>

\* The files the manifest names are downloaded, or reused, and digested; a
\* mismatch or a missing object fails the pull before anything is swapped.
PullStage ==
    /\ pull = "stage"
    /\ IF catalog = pulling.catalog /\ pulling.files \subseteq data \cup live.files
       THEN staging' = pulling /\ pull' = "swap_out"
       ELSE staging' = Nothing /\ pull' = "idle"
    /\ UNCHANGED <<bucket, ships, proms, have_id, pulling, live, applied, pull_stops>>

\* The old warehouse is moved aside ...
PullSwapOut ==
    /\ pull = "swap_out"
    /\ live' = Nothing
    /\ pull' = "swap_in"
    /\ UNCHANGED <<bucket, ships, proms, have_id, pulling, staging, applied, pull_stops>>

\* ... and the staged one takes its place; the API is bound to it again.
PullSwapIn ==
    /\ pull = "swap_in"
    /\ live' = staging
    /\ applied' = staging
    /\ staging' = Nothing
    /\ have_id' = pulling.id
    /\ pull' = "idle"
    /\ UNCHANGED <<bucket, ships, proms, pulling, pull_stops>>

\* The follower process stops and is started again: have_id is not persisted.
PullStop ==
    /\ pull_stops < MaxPullStops
    /\ pull_stops' = pull_stops + 1
    /\ pull' = "idle"
    /\ have_id' = 0
    /\ UNCHANGED <<bucket, ships, proms, pulling, staging, live, applied>>

-----------------------------------------------------------------------------
Init ==
    /\ lease = 0
    /\ manifest = Nothing
    /\ data = {}
    /\ catalog = {}
    /\ files = [n \in Nodes |-> {}]
    /\ loop = [n \in Nodes |-> "down"]
    /\ epoch = [n \in Nodes |-> 0]
    /\ id = [n \in Nodes |-> 0]
    /\ listed = [n \in Nodes |-> {}]
    /\ sent = [n \in Nodes |-> {}]
    /\ promo = [n \in Nodes |-> "none"]
    /\ seen = [n \in Nodes |-> 0]
    /\ granted = {}
    /\ audited = 0
    /\ stops = 0
    /\ pull = "idle"
    /\ have_id = 0
    /\ pulling = Nothing
    /\ staging = Nothing
    /\ live = Nothing
    /\ applied = Nothing
    /\ pull_stops = 0

Writer(n) ==
    \/ ReadEpoch(n) \/ ReadId(n) \/ Fenced(n) \/ NextShip(n)
    \/ ShipList(n) \/ ShipUpload(n) \/ ShipManifest(n)

Pull == PullManifest \/ PullLease \/ PullStage \/ PullSwapOut \/ PullSwapIn

Next ==
    \/ \E n \in Nodes :
          \/ Start(n) \/ Writer(n) \/ ShipFails(n) \/ Commit(n) \/ Stop(n)
          \/ PromoteRecord(n) \/ PromoteRead(n) \/ PromotePut(n)
    \/ Pull \/ PullStop

\* The ship loop and the pull loop run as long as their process does, and a
\* supervisor starts a stopped writer again.
Fairness ==
    /\ \A n \in Nodes : WF_vars(Start(n)) /\ WF_vars(Writer(n))
    /\ WF_vars(Pull)

Spec == Init /\ [][Next]_vars /\ Fairness

-----------------------------------------------------------------------------
(* Properties. *)

\* Every variable has its type.
TypeOK ==
    /\ lease \in Nat
    /\ manifest \in Manifest
    /\ data \subseteq File /\ catalog \subseteq File
    /\ files \in [Nodes -> SUBSET File]
    /\ loop \in [Nodes -> {"down", "lease", "id", "check", "list", "upload", "manifest", "fenced"}]
    /\ epoch \in [Nodes -> Nat] /\ id \in [Nodes -> Nat]
    /\ listed \in [Nodes -> SUBSET File] /\ sent \in [Nodes -> SUBSET File]
    /\ promo \in [Nodes -> {"none", "read", "put"}] /\ seen \in [Nodes -> Nat]
    /\ granted \subseteq Nat \X Nodes
    /\ audited \in Nat /\ stops \in Nat /\ have_id \in Nat /\ pull_stops \in Nat
    /\ pull \in {"idle", "lease", "stage", "swap_out", "swap_in"}
    /\ pulling \in Manifest /\ staging \in Manifest
    /\ live \in Manifest /\ applied \in Manifest

\* However promotions interleave, acquire_lease grants an epoch to one node
\* only: two nodes never both believe they won it.
OneHolderPerEpoch ==
    \A g, h \in granted : g[1] = h[1] => g = h

\* A follower that has applied a snapshot never replaces it by one of an earlier
\* epoch, whatever a deposed writer puts into the bucket, however high its
\* snapshot counter runs and however often the follower restarts.
AppliedEpochMonotonic == [][applied'.epoch >= applied.epoch]_vars

\* A writer whose epoch has been passed leaves the ship loop for good.
FencedWriterStops ==
    \A n \in Nodes :
        (loop[n] = "check" /\ epoch[n] < lease) ~> (loop[n] \in {"fenced", "down"})

\* Once writers have stopped restarting, the follower ends up serving the
\* newest manifest, or refuses it because its writer was fenced out.
FollowerConverges == <>[](live = manifest \/ manifest.epoch < lease)

\* `garmr ha promote' records a promotion in the audit ledger before the lease
\* moves.
PromotionAudited == Cardinality(granted) <= audited

\* Within one epoch what a follower has applied only grows: it is never replaced
\* by the history of a writer that was fenced out.
HistoryKept ==
    [][ applied'.epoch = applied.epoch => applied.catalog \subseteq applied'.catalog ]_vars
=============================================================================
