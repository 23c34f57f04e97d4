------------------------------- MODULE Backup -------------------------------
(***************************************************************************)
(* garmr backup create / restore / promote (garmr-cli/src/backup.rs) and   *)
(* the writer's start behind the restored marker (Store::open_writable).   *)
(*                                                                         *)
(* A node is three trees on disk: warehouse, state database and the        *)
(* audit ledger. A tree is {} when it is absent, otherwise one record:     *)
(* point says which run of the writer left it, image which backup it was   *)
(* copied from (0: the node's own), opens whether the store opens it.      *)
(* The last fields matter for the ledger only: its records, the keys that  *)
(* signed them, signing.key and public_key.hex in its directory.           *)
(***************************************************************************)
EXTENDS Naturals, Sequences, FiniteSets

CONSTANTS
    MaxPoints,      \* bound: runs of the writer
    MaxImages,      \* bound: backups taken
    MaxRestores,    \* bound: restores that begin
    MaxStops,       \* bound: stops of the running command
    MaxTroubles     \* bound: I/O errors, damaged trees, foreign paths

ASSUME BackupAssumption ==
    {MaxPoints, MaxImages, MaxRestores, MaxStops, MaxTroubles} \subseteq Nat

VARIABLES
    audited,        \* audit.enabled
    keyOutside,     \* audit.key_path is set, outside the audit directory
    live,           \* the tree at each configured path
    staging,        \* *.restore-staging
    aside,          \* *.pre-restore-<ts>: [tree, ts, was]
    marker,         \* state.redb.restored: {}, or the image, or Blank
    images,         \* the backups: what create wrote
    serve,          \* the writer: down, checked, opened, up
    moved,          \* its databases were renamed under it
    cli,            \* the command that runs: idle, or where it is
    task,           \* its locals
    fenced,         \* databases whose current file it has locked
    own,            \* history: every tree the node's writer left
    unpromoted,     \* history: images swapped in since the last promotion
    points, restores, crashes, troubles, keys

disk == <<live, staging, aside, marker>>
command == <<cli, task, fenced>>
history == <<own, unpromoted>>
writer == <<serve, moved>>
counts == <<points, restores, crashes, troubles, keys>>
backupVars == <<audited, keyOutside, disk, images, writer, command, history, counts>>

Trees == {"warehouse", "state", "ledger"}
Databases == {"warehouse", "state"}
Blank == 99
NoTask == [image |-> 0, plan |-> <<>>, done |-> 0, prior |-> {}]

Tree(p) == [point |-> p, image |-> 0, opens |-> TRUE, recs |-> {}, signed |-> {}, key |-> {}, pub |-> {}]
Only(s) == CHOOSE x \in s : TRUE

BackupInit ==
    /\ audited \in BOOLEAN /\ keyOutside \in BOOLEAN
    /\ live \in {[t \in Trees |-> {}], [t \in Trees |-> {Tree(1)}]}
    /\ staging = [t \in Trees |-> {}] /\ aside = {} /\ marker = {}
    /\ images = <<>> /\ serve = "down" /\ moved = FALSE /\ cli = "idle" /\ task = NoTask /\ fenced = {}
    /\ own = {<<t, c.point>> : t \in Trees, c \in live["state"]}
    /\ unpromoted = {} /\ points = 1 /\ restores = 0 /\ crashes = 0 /\ troubles = 0 /\ keys = 0

Trouble == troubles < MaxTroubles /\ troubles' = troubles + 1
NoTrouble == UNCHANGED troubles

-----------------------------------------------------------------------------
(* The audit ledger: ensure_init and an append to it.                      *)

\* SoftwareSigner::load_or_create: the key configured elsewhere is key 0; the one
\* in the ledger's directory is read, or made when it is not there.
SigningKey(ledger) == IF keyOutside THEN 0 ELSE IF ledger.key = {} THEN keys + 1 ELSE Only(ledger.key)
MintsKey(ledger) == ~ keyOutside /\ ledger.key = {}
LedgerDir == IF live["ledger"] = {} THEN Tree(1) ELSE Only(live["ledger"])

\* open_ledger on the live directory (which publishes the key), and one record.
Recorded(rec) ==
    LET k == SigningKey(LedgerDir)
    IN  {[LedgerDir EXCEPT !.recs = @ \cup {rec}, !.signed = @ \cup {k},
                           !.key = IF keyOutside THEN @ ELSE {k}, !.pub = {k}]}

\* verify_dir against one trusted key: every signature is by it.
Verifies(ledger, k) == ledger.signed \subseteq {k}

-----------------------------------------------------------------------------
(* The writer.                                                             *)

\* serve and open_writable look at the marker, ...
ServeCheck ==
    /\ serve = "down" /\ marker = {}
    /\ serve' = "checked" /\ moved' = FALSE
    /\ UNCHANGED <<audited, keyOutside, disk, images, command, history, counts>>

\* ... open the databases, which are made when they are not there and which a
\* command may hold locked, ...
ServeOpen ==
    /\ serve = "checked" /\ UNCHANGED moved
    /\ IF fenced = {}
       THEN /\ serve' = "opened"
            /\ live' = [t \in Trees |-> IF t \in Databases /\ live[t] = {} THEN {Tree(1)} ELSE live[t]]
       ELSE serve' = "down" /\ UNCHANGED live
    /\ UNCHANGED <<audited, keyOutside, staging, aside, marker, images, command, history, counts>>

\* Mutant of ServeRecheck: the marker is not looked at again.
ServeUnchecked ==
    /\ serve = "opened" /\ UNCHANGED moved
    /\ serve' = "up"
    /\ live' = IF audited THEN [live EXCEPT !["ledger"] = Recorded(<<"serve", 0>>)] ELSE live
    /\ keys' = IF audited /\ MintsKey(LedgerDir) THEN keys + 1 ELSE keys
    /\ UNCHANGED <<audited, keyOutside, staging, aside, marker, images, command, history, points, restores, crashes, troubles>>

\* ... and look at the marker again; then serve opens the ledger.
ServeRecheck ==
    /\ serve = "opened" /\ UNCHANGED moved
    /\ IF marker # {}
       THEN serve' = "down" /\ UNCHANGED <<live, keys>>
       ELSE /\ serve' = "up"
            /\ live' = IF audited THEN [live EXCEPT !["ledger"] = Recorded(<<"serve", 0>>)] ELSE live
            /\ keys' = IF audited /\ MintsKey(LedgerDir) THEN keys + 1 ELSE keys
    /\ UNCHANGED <<audited, keyOutside, staging, aside, marker, images, command, history, points, restores, crashes, troubles>>

\* The writer brings its trees to a new point.
ServeWork ==
    /\ serve = "up" /\ ~ moved /\ points < MaxPoints
    /\ points' = points + 1
    /\ live' = [t \in Trees |-> {[c EXCEPT !.point = points + 1, !.image = 0] : c \in live[t]}]
    /\ own' = (own \ {o \in own : \E c \in live[o[1]] : c.image = 0 /\ c.point = o[2]})
                  \cup {<<t, points + 1>> : t \in {u \in Trees : live[u] # {}}}
    /\ UNCHANGED <<audited, keyOutside, staging, aside, marker, images, writer, command, unpromoted, restores, crashes, troubles, keys>>

ServeStop ==
    /\ serve # "down" /\ serve' = "down" /\ UNCHANGED moved
    /\ UNCHANGED <<audited, keyOutside, disk, images, command, history, counts>>

-----------------------------------------------------------------------------
(* The commands; one runs at a time.                                       *)

\* try_acquire_exclusion: refused while the writer has a database open; the
\* databases that exist are locked, by file and not by path.
Fence == serve \notin {"opened", "up"} /\ fenced' = {t \in Databases : live[t] # {}}

\* The append of a command's own record, to the live ledger; when it fails the
\* command stops with nothing changed.
Record(rec) ==
    /\ live' = IF audited THEN [live EXCEPT !["ledger"] = Recorded(rec)] ELSE live
    /\ keys' = IF audited /\ MintsKey(LedgerDir) THEN keys + 1 ELSE keys

\* create, up to the record of the backup: ...
create ==
    /\ cli = "idle" /\ live["state"] # {} /\ Len(images) < MaxImages
    /\ Fence
    /\ Record(<<"backup", Len(images) + 1>>)
    /\ cli' = "create"
    /\ UNCHANGED <<audited, keyOutside, staging, aside, marker, images, writer, task, history, points, restores, crashes, troubles>>

\* ... then the copy, which leaves signing.key out, is examined and signed. A
\* warehouse that does not open makes the image degraded.
CreateImage ==
    /\ cli = "create"
    /\ LET k == SigningKey(LedgerDir)
       IN  /\ images' = Append(images,
                  [trees |-> [t \in Trees |-> {[c EXCEPT !.image = Len(images) + 1, !.key = {}] : c \in live[t]}],
                   signer |-> k, damaged |-> FALSE,
                   degraded |-> \E c \in live["warehouse"] : ~ c.opens])
           /\ live' = IF MintsKey(LedgerDir)
                      THEN [live EXCEPT !["ledger"] = {[LedgerDir EXCEPT !.key = {k}]}] ELSE live
           /\ keys' = IF MintsKey(LedgerDir) THEN keys + 1 ELSE keys
    /\ cli' = "idle" /\ fenced' = {}
    /\ UNCHANGED <<audited, keyOutside, staging, aside, marker, writer, task, history, points, restores, crashes, troubles>>

\* verify_backup against the operator's trusted key.
verify_backup(img, k) ==
    /\ img.signer = k /\ ~ img.damaged
    /\ \A l \in img.trees["ledger"] : Verifies(l, k)

\* restore, up to its record: the image verifies, it is not degraded unless that
\* is accepted, and no writer is live.
restore(i, k, accept) ==
    /\ cli = "idle" /\ restores < MaxRestores
    /\ verify_backup(images[i], k) /\ (images[i].degraded => accept)
    /\ Fence
    /\ Record(<<"restore", i>>)
    /\ restores' = restores + 1
    /\ cli' = "stage"
    /\ task' = [NoTask EXCEPT !.image = i,
                            !.plan = IF images[i].trees["ledger"] = {} THEN <<"warehouse", "state">>
                                                                       ELSE <<"warehouse", "state", "ledger">>]
    /\ UNCHANGED <<audited, keyOutside, staging, aside, marker, images, writer, history, points, crashes, troubles>>

Planned == {task.plan[n] : n \in DOMAIN task.plan}

\* stage_copy of every tree; an error ends the command.
RestoreStage ==
    /\ cli = "stage"
    /\ \/ /\ NoTrouble
          /\ staging' = [t \in Trees |-> IF t \in Planned THEN images[task.image].trees[t] ELSE staging[t]]
          /\ cli' = "mark" /\ UNCHANGED <<task, fenced>>
       \/ /\ Trouble
          /\ cli' = "idle" /\ task' = NoTask /\ fenced' = {} /\ UNCHANGED staging
    /\ UNCHANGED <<audited, keyOutside, live, aside, marker, images, writer, history, points, restores, crashes, keys>>

\* write_restored_marker, before the swap; a failed write leaves an empty file.
RestoreMark ==
    /\ cli = "mark"
    /\ \/ /\ NoTrouble
          /\ marker' = {task.image} /\ cli' = "move"
          /\ task' = [task EXCEPT !.prior = marker] /\ UNCHANGED fenced
       \/ /\ Trouble
          /\ marker' = {Blank} /\ cli' = "idle" /\ task' = NoTask /\ fenced' = {}
    /\ UNCHANGED <<audited, keyOutside, live, staging, aside, images, writer, history, points, restores, crashes, keys>>

NextTree(j) == j.plan[j.done + 1]

\* What this restore moved aside: the stamp in the name is its own.
MovedBy(ts, t) == {a.was : a \in {b \in aside : b.ts = ts /\ b.tree = t}}

\* Mutant of SetAside: the tree that is in the way is removed.
Removed(t) == {}

SetAside(t) == {[tree |-> t, ts |-> restores, was |-> c] : c \in live[t]}

\* apply_swaps, first rename: the live tree is moved aside, if there is one.
MoveAside ==
    /\ cli = "move" /\ task.done < Len(task.plan)
    /\ LET t == NextTree(task)
       IN  \/ /\ NoTrouble
              /\ aside' = aside \cup SetAside(t)
              /\ live' = [live EXCEPT ![t] = {}]
              /\ fenced' = fenced \ {t}
              /\ moved' = (moved \/ (t \in Databases /\ serve \in {"opened", "up"}))
              /\ cli' = "place"
           \/ /\ Trouble /\ live[t] # {}
              /\ cli' = "rollback" /\ UNCHANGED <<aside, live, fenced, moved>>
    /\ UNCHANGED <<audited, keyOutside, staging, marker, images, serve, task, history, points, restores, crashes, keys>>

\* What was moved aside is moved back.
MoveBack(t) ==
    /\ live' = [live EXCEPT ![t] = MovedBy(restores, t)]
    /\ aside' = {a \in aside : ~ (a.ts = restores /\ a.tree = t)}

\* Second rename: the staged tree takes its place; when that fails the tree that
\* was moved aside is moved back. A starting writer may have made the state
\* database anew in between, which is replaced; while that one is locked it does
\* not get as far as the warehouse, and the marker keeps it from the ledger.
Place ==
    /\ cli = "place"
    /\ LET t == NextTree(task)
       IN  \/ /\ NoTrouble
              /\ live' = [live EXCEPT ![t] = staging[t]] /\ staging' = [staging EXCEPT ![t] = {}]
              /\ moved' = (moved \/ (t = "state" /\ live[t] # {}))
              /\ task' = [task EXCEPT !.done = @ + 1]
              /\ cli' = "move"
              /\ unpromoted' = unpromoted \cup {task.image}
              /\ UNCHANGED <<aside, fenced>>
           \/ /\ Trouble
              /\ MoveBack(t)
              /\ moved' = (moved \/ (t = "state" /\ live[t] # {}))
              /\ fenced' = IF t \in Databases /\ MovedBy(restores, t) # {} THEN fenced \cup {t} ELSE fenced
              /\ cli' = "rollback"
              /\ UNCHANGED <<staging, task, unpromoted>>
    /\ UNCHANGED <<audited, keyOutside, marker, images, serve, own, points, restores, crashes, keys>>

\* The fence is dropped and the restored node is opened read-only: that fails on
\* a warehouse that does not open or that lies under another path, and when a
\* starting writer has the databases.
resolvability_probe ==
    /\ cli = "move" /\ task.done = Len(task.plan)
    /\ fenced' = {}
    /\ \/ /\ NoTrouble /\ serve \notin {"opened", "up"} /\ \A c \in live["warehouse"] : c.opens
          /\ cli' = "idle" /\ task' = NoTask
       \/ Trouble /\ cli' = "rollback" /\ UNCHANGED task
       \/ NoTrouble /\ (\E c \in live["warehouse"] : ~ c.opens) /\ cli' = "rollback" /\ UNCHANGED task
    /\ UNCHANGED <<audited, keyOutside, disk, images, writer, history, points, restores, crashes, keys>>

\* rollback_swaps, one tree, the last first. A rename that fails is logged and the
\* next one is tried: the restored tree stays, or there is none.
RollbackOne ==
    /\ cli = "rollback" /\ task.done > 0
    /\ LET t == task.plan[task.done]
       IN  /\ \/ /\ NoTrouble
                 /\ MoveBack(t) /\ staging' = [staging EXCEPT ![t] = live[t]]
              \/ /\ Trouble /\ t # "state"
                 /\ UNCHANGED <<live, staging, aside>>
              \/ /\ Trouble
                 /\ live' = [live EXCEPT ![t] = {}] /\ staging' = [staging EXCEPT ![t] = live[t]]
                 /\ UNCHANGED aside
           /\ moved' = (moved \/ (t \in Databases /\ serve \in {"opened", "up"}))
    /\ task' = [task EXCEPT !.done = @ - 1]
    /\ UNCHANGED <<audited, keyOutside, marker, images, serve, cli, fenced, history, points, restores, crashes, keys>>

\* restore_prior_marker, and the command ends with its error.
restore_prior_marker ==
    /\ cli = "rollback" /\ task.done = 0
    /\ \/ NoTrouble /\ marker' = task.prior
       \/ Trouble /\ UNCHANGED marker
    /\ cli' = "idle" /\ task' = NoTask /\ fenced' = {}
    /\ unpromoted' = unpromoted \ {task.image}
    /\ UNCHANGED <<audited, keyOutside, live, staging, aside, images, writer, own, points, restores, crashes, keys>>

\* promote: a marker that names its image, no live writer and an audit record,
\* which is required, ...
promote ==
    /\ cli = "idle" /\ marker # {} /\ marker # {Blank} /\ audited
    /\ Fence
    /\ Record(<<"promote", Only(marker)>>)
    /\ cli' = "promote"
    /\ UNCHANGED <<audited, keyOutside, staging, aside, marker, images, writer, task, history, points, restores, crashes, troubles>>

\* ... then the marker is removed.
PromoteClear ==
    /\ cli = "promote"
    /\ marker' = {} /\ unpromoted' = {}
    /\ cli' = "idle" /\ fenced' = {}
    /\ UNCHANGED <<audited, keyOutside, live, staging, aside, images, writer, task, own, counts>>

\* The command is stopped where it is; its locks go with it.
CrashCommand ==
    /\ cli # "idle" /\ crashes < MaxStops
    /\ crashes' = crashes + 1
    /\ cli' = "idle" /\ task' = NoTask /\ fenced' = {}
    /\ UNCHANGED <<audited, keyOutside, disk, images, writer, history, points, restores, troubles, keys>>

\* An image is damaged on its medium, or the warehouse in use is.
DamageImage(i) ==
    /\ Trouble /\ images' = [images EXCEPT ![i].damaged = TRUE]
    /\ UNCHANGED <<audited, keyOutside, disk, writer, command, history, points, restores, crashes, keys>>
DamageWarehouse ==
    /\ Trouble /\ serve = "down" /\ cli = "idle" /\ live["warehouse"] # {}
    /\ live' = [live EXCEPT !["warehouse"] = {[c EXCEPT !.opens = FALSE] : c \in @}]
    /\ UNCHANGED <<audited, keyOutside, staging, aside, marker, images, writer, command, history, points, restores, crashes, keys>>

-----------------------------------------------------------------------------

BackupNext ==
    \/ ServeCheck \/ ServeOpen \/ ServeRecheck \/ ServeWork \/ ServeStop
    \/ create \/ CreateImage
    \/ \E i \in 1 .. Len(images), accept \in BOOLEAN, k \in 0 .. keys : restore(i, k, accept)
    \/ RestoreStage \/ RestoreMark \/ MoveAside \/ Place \/ resolvability_probe
    \/ RollbackOne \/ restore_prior_marker
    \/ promote \/ PromoteClear \/ CrashCommand
    \/ \E i \in 1 .. Len(images) : DamageImage(i)
    \/ DamageWarehouse

BackupSpec == BackupInit /\ [][BackupNext]_backupVars

-----------------------------------------------------------------------------
(* Properties.                                                             *)

\* "a restored node never silently becomes a writer": what a writer has open was
\* never swapped in by a restore that no promotion has confirmed, whatever was
\* stopped, rolled back or started at the same time. (A rollback puts the old
\* marker back even when one of its own renames failed: that restore no longer
\* counts, and what it left behind is not fenced.)
RestoredIsFenced ==
    serve = "up" /\ ~ moved => \A t \in Databases : \A c \in live[t] : c.image \notin unpromoted

\* "garmr never hard-deletes": every tree the node's writer left is in place or
\* moved aside.
NothingDeleted ==
    \A o \in own :
        \/ \E c \in live[o[1]] : c.image = 0 /\ c.point = o[2]
        \/ \E a \in aside : a.tree = o[1] /\ a.was.image = 0 /\ a.was.point = o[2]

=============================================================================
