------------------------------- MODULE Capture ------------------------------
(***************************************************************************)
(* The scheduled online backup inside serve (garmr-cli/src/backup_loop.rs,  *)
(* backup_window.rs, garmr-core/src/backup_retention.rs) beside the event   *)
(* store's actor, which appends to the table's data directory, rebuilds the *)
(* table in a new one and deletes the old one after a grace.                *)
(*                                                                          *)
(* The warehouse is the catalog, <<directory, files>> of the snapshot, and  *)
(* the data directories 1, 2, ...; a directory is the number of its files.  *)
(***************************************************************************)
EXTENDS Naturals, FiniteSets

CONSTANTS
    Grace,          \* compact_gc_grace_secs
    Keep,           \* backup.keep
    MaxDirs,        \* bound: rebuilds of the table
    MaxFiles,       \* bound: files of a directory
    MaxClock,       \* bound: time
    MaxCaptures     \* bound: captures begun

ASSUME CaptureAssumption ==
    /\ {Grace, Keep, MaxFiles, MaxClock, MaxCaptures} \subseteq Nat
    /\ MaxDirs \in Nat \ {0}

VARIABLES
    now,
    catalog,        \* the current snapshot
    dirs,           \* files of each directory
    retired,        \* when a directory was retired: {} or one time
    gone,           \* directories that were deleted
    taking,         \* the capture that runs: {} or one record
    kept            \* the images on disk: [id, whole]

captureVars == <<now, catalog, dirs, retired, gone, taking, kept>>

Dirs == 1 .. MaxDirs

CaptureInit ==
    /\ now = 0 /\ catalog = <<1, 1>> /\ dirs = [d \in Dirs |-> IF d = 1 THEN 1 ELSE 0]
    /\ retired = [d \in Dirs |-> {}] /\ gone = {} /\ taking = {} /\ kept = {}

Exists(d) == dirs[d] > 0 /\ d \notin gone
Begun == Cardinality({i.id : i \in kept}) + Cardinality(taking)

-----------------------------------------------------------------------------
(* The store. *)

AppendFile ==
    /\ catalog[2] < MaxFiles
    /\ catalog' = <<catalog[1], catalog[2] + 1>>
    /\ dirs' = [dirs EXCEPT ![catalog[1]] = @ + 1]
    /\ UNCHANGED <<now, retired, gone, taking, kept>>

\* run_compaction: the table is rebuilt in a new directory, the old one retired.
run_compaction ==
    /\ catalog[1] < MaxDirs
    /\ catalog' = <<catalog[1] + 1, 1>>
    /\ dirs' = [dirs EXCEPT ![catalog[1] + 1] = 1]
    /\ retired' = [retired EXCEPT ![catalog[1]] = {now}]
    /\ UNCHANGED <<now, gone, taking, kept>>

\* The retired directory is deleted once the grace has passed.
DeleteRetired(d) ==
    /\ d \notin gone /\ \E t \in retired[d] : now >= t + Grace
    /\ gone' = gone \cup {d}
    /\ UNCHANGED <<now, catalog, dirs, retired, taking, kept>>

PassTime ==
    /\ now < MaxClock /\ now' = now + 1
    /\ UNCHANGED <<catalog, dirs, retired, gone, taking, kept>>

-----------------------------------------------------------------------------
(* The capture. *)

\* run_once begins: it is recorded and its directory made, named for the time.
BeginCapture ==
    /\ taking = {} /\ Begun < MaxCaptures /\ \A i \in kept : i.id < now
    /\ taking' = {[id |-> now, first |-> catalog, listed |-> {}, copied |-> [d \in Dirs |-> 0], pin |-> <<>>]}
    /\ kept' = kept \cup {[id |-> now, whole |-> FALSE]}
    /\ UNCHANGED <<now, catalog, dirs, retired, gone>>

\* copy_tree lists the warehouse, ...
ListWarehouse ==
    \E c \in taking :
        /\ c.listed = {}
        /\ taking' = {[c EXCEPT !.listed = {d \in Dirs : Exists(d)}]}
        /\ UNCHANGED <<now, catalog, dirs, retired, gone, kept>>

\* ... copies each directory it listed, ...
CopyDir(d) ==
    \E c \in taking :
        /\ d \in c.listed /\ c.copied[d] = 0 /\ Exists(d)
        /\ taking' = {[c EXCEPT !.copied[d] = dirs[d]]}
        /\ UNCHANGED <<now, catalog, dirs, retired, gone, kept>>

\* ... and the catalog, in the order the file system has them.
CopyCatalog ==
    \E c \in taking :
        /\ c.listed # {} /\ c.pin = <<>>
        /\ taking' = {[c EXCEPT !.pin = catalog]}
        /\ UNCHANGED <<now, catalog, dirs, retired, gone, kept>>

\* A directory that was listed is gone, or another error: the capture fails and
\* leaves what it copied. A stop of the daemon does the same.
CaptureFails ==
    /\ taking # {} /\ taking' = {}
    /\ UNCHANGED <<now, catalog, dirs, retired, gone, kept>>

Copied(c) == c.listed # {} /\ c.pin # <<>> /\ \A d \in c.listed : c.copied[d] > 0

\* Mutant of within_safety_window: twice the grace is allowed.
WindowTwice(elapsed) == Grace # 0 /\ elapsed < 2 * Grace

\* Two thirds of the grace, and never with none.
within_safety_window(elapsed) == Grace # 0 /\ 3 * elapsed < 2 * Grace

\* Mutant of plan_prune: one too many is deleted.
PruneOneMore(all) ==
    IF Keep = 0 THEN {} ELSE {i \in all : Cardinality({j \in all : j.id >= i.id}) >= Keep}

\* plan_prune: all but the newest Keep are deleted, nothing with Keep 0. (The loop
\* lists every image as not degraded.)
plan_prune(all) ==
    IF Keep = 0 THEN {} ELSE {i \in all : Cardinality({j \in all : j.id > i.id}) >= Keep}

\* run_once ends: inside the window the image stands and old ones are pruned,
\* otherwise its directory is removed; a removal that fails is passed over.
EndCapture ==
    \E c \in taking :
        /\ Copied(c) /\ taking' = {}
        /\ LET others == {i \in kept : i.id # c.id}
               all == others \cup {[id |-> c.id, whole |-> TRUE]}
           IN  IF within_safety_window(now - c.id)
               THEN \E removed \in SUBSET plan_prune(all) : kept' = all \ removed
               ELSE kept' \in {others, kept}
        /\ UNCHANGED <<now, catalog, dirs, retired, gone>>

CaptureNext ==
    \/ AppendFile \/ run_compaction \/ (\E d \in Dirs : DeleteRetired(d)) \/ PassTime
    \/ BeginCapture \/ ListWarehouse \/ (\E d \in Dirs : CopyDir(d)) \/ CopyCatalog
    \/ CaptureFails \/ EndCapture

CaptureSpec == CaptureInit /\ [][CaptureNext]_captureVars

-----------------------------------------------------------------------------
(* Properties. *)

\* "That grace IS the pin": an image that is let stand holds every file of the
\* snapshot that was current when its copy began, though the actor retired and
\* deleted directories meanwhile.
SnapshotCaptured ==
    [][\A c \in taking : [id |-> c.id, whole |-> TRUE] \in kept' \ kept
            => c.copied[c.first[1]] >= c.first[2]]_captureVars

\* "a prune that gets it wrong destroys the thing you would use to recover":
\* from the first capture that is let stand on there is a whole image, however
\* many captures fail and leave a part of one.
RecoveryPointKept ==
    [][\/ \E i \in kept : i.whole
       \/ EndCapture /\ \E c \in taking : within_safety_window(now - c.id)
       => \E i \in kept' : i.whole]_captureVars
=============================================================================
