------------------------------ MODULE Retention ------------------------------
(***************************************************************************)
(* Cold retention: aged rows are sealed into archives, pruned from the hot *)
(* store by the compaction, expired, held and erased (garmr-retention,     *)
(* garmr-store events/ and state/cold.rs, the CLI's retention and erase).  *)
(*                                                                         *)
(* Under `serve' the retention pass, the writer actor (appends, and the    *)
(* compaction it runs between two of them) and cold queries interleave.    *)
(* The store's lock lets a CLI command run only while the daemon is down.  *)
(* The process may stop between any two steps.                             *)
(*                                                                         *)
(* Abstractions.  Time is counted in windows.  A row is a record of its    *)
(* window, its host and whether its source is a retention class.  An       *)
(* archive's checksum is its content, a set of rows.  What may be absent   *)
(* is a set of at most one element.  Appends of rows other than Rows go on *)
(* all the time, so a compaction may be due whenever the actor is idle.    *)
(* `garmr retention run' is the same pass without its neighbours.  The     *)
(* full-text index is left out but for the step of an erasure it can end.  *)
(***************************************************************************)
EXTENDS Naturals, FiniteSets

CONSTANTS
    Rows,          \* the rows that may arrive: [id, win, host, class]
    Backlog,       \* those in the table when retention is first enabled
    Stragglers,    \* bound: those of them that may arrive after their window was sealed
    Windows,       \* the windows they fall in
    Predicates,    \* the erasures that may be asked for: [host, label, from, to]
    RetentionDays, \* store.retention_days, in windows
    HotDays,       \* hot_days of the retention classes, in windows
    MaxNow,        \* bound: the last window that begins
    MaxCommands,   \* bound: CLI commands run
    MaxFaults      \* bound: steps that fail, and crashes

ASSUME RetentionAssumption ==
    /\ Windows \subseteq Nat /\ Backlog \subseteq Rows
    /\ \A r \in Rows : r.win \in Windows /\ r.class \in BOOLEAN
    /\ \A t \in Predicates : t.from \in Nat /\ t.to \in Nat /\ t.label \in BOOLEAN
    /\ RetentionDays \in Nat /\ HotDays \in Nat \ {0} /\ MaxNow \in Nat
    /\ MaxCommands \in Nat /\ MaxFaults \in Nat

VARIABLES
    s3,         \* whether an object store is configured
    now,        \* the current window
    hot,        \* the rows of the events table
    ingested,   \* the rows ever appended
    late,       \* windows a row arrived in when they were sealed or being sealed
    manifest,   \* COLD_ARCHIVES: per window, its archive if it has one
    deletions,  \* COLD_DELETIONS: per window, whether the record is_complete
    watermark,  \* COLD_META: windows below it have been rolled to cold
    tombs,      \* TOMBSTONES
    files,      \* cold_dir: per window, the content of the archive file
    objects,    \* the object store: per window, the content of the object
    asked,      \* the expiries and erasures that commands went on to
    proc,       \* "down", "serve" or "cli"
    pc,         \* where the retention pass or the command is
    todo,       \* the windows it has still to process, in ascending order
    horizon,    \* the pass's horizon
    staged,     \* the staging file
    ok,         \* local_removed of an expiry; no archive pending of an erasure
    fetched,    \* whether the archive under rewriting was not on disk
    erasing,    \* the erasure under way, or the one just certified complete
    comp,       \* where the compaction is
    hook,       \* the prune hook
    commands, faults

config == <<s3, now>>
table == <<hot, ingested, late>>
state == <<manifest, deletions, watermark, tombs>>
cold == <<files, objects>>
task == <<pc, todo, horizon, staged, ok, fetched, erasing>>
actor == <<comp, hook>>
bounds == <<commands, faults>>
vars == <<s3, now, hot, ingested, late, manifest, deletions, watermark, tombs,
          files, objects, asked, proc, pc, todo, horizon, staged, ok, fetched,
          erasing, comp, hook, commands, faults>>

Archive == [rows : SUBSET Rows, hold : BOOLEAN, pruned : BOOLEAN]
Option(S) == {{}} \cup {{x} : x \in S}

Sealed == {w \in Windows : manifest[w] # {}}
Held == {w \in Windows : \E a \in manifest[w] : a.hold}
Larger(a, b) == IF a < b THEN b ELSE a

\* covers_ts and the comparison of the erased attribute.
Matches(t, r) == r.host = t.host /\ t.from <= r.win /\ r.win < t.to
Erased(T, r) == \E t \in T : Matches(t, r)
Overlapping(t) == {w \in Sealed : w + 1 > t.from /\ w < t.to}

NoHook == [sealed |-> {}, held |-> {}, ids |-> {}, tombs |-> {}, old |-> {}]

\* The window in hand.
Current(w) == w \in todo /\ \A v \in todo : w <= v

Fault == faults < MaxFaults /\ faults' = faults + 1

-----------------------------------------------------------------------------
(* The retention pass of the daemon. *)

\* One write of the pass, or of the command, ends it.
Idle == pc' = "idle" /\ todo' = {} /\ horizon' = 0 /\ staged' = {} /\ ok' = FALSE /\ fetched' = FALSE

floor_to == IF now > RetentionDays THEN now - RetentionDays ELSE 0

\* The non-empty windows between the watermark and the horizon.
nonempty_buckets == {r.win : r \in hot} \cap {w \in Windows : watermark <= w /\ w < floor_to}

run_once ==
    /\ proc = "serve" /\ pc = "idle"
    /\ watermark < floor_to
    /\ horizon' = floor_to
    /\ todo' = nonempty_buckets
    /\ pc' = IF todo' = {} THEN "finish" ELSE "scan"
    /\ UNCHANGED <<config, table, state, cold, asked, proc, staged, ok, fetched, erasing, actor, bounds>>

\* The window is streamed to the staging file, without the class sources.
sql_stream(w) ==
    /\ pc = "scan" /\ Current(w)
    /\ staged' = {r \in hot : r.win = w /\ ~r.class}
    /\ pc' = IF staged' = {} THEN "advance" ELSE "seal"
    /\ UNCHANGED <<config, table, state, cold, asked, proc, todo, horizon, ok, fetched, erasing, actor, bounds>>

seal_file(w) ==
    /\ pc = "seal" /\ Current(w)
    /\ files' = [files EXCEPT ![w] = {staged}]
    /\ pc' = "put"
    /\ UNCHANGED <<config, table, state, objects, asked, proc, todo, horizon, staged, ok, fetched, erasing, actor, bounds>>

\* Inserts or overwrites the manifest row, neither held nor pruned.
put_cold_archive(w) ==
    /\ pc = "put" /\ Current(w)
    /\ manifest' = [manifest EXCEPT ![w] = {[rows |-> staged, hold |-> FALSE, pruned |-> FALSE]}]
    /\ pc' = IF s3 THEN "upload" ELSE "advance"
    /\ UNCHANGED <<config, table, deletions, watermark, tombs, cold, asked, proc, todo, horizon, staged, ok,
                   fetched, erasing, actor, bounds>>

\* Whether the local copy is dropped afterwards is not looked at.
upload(w) ==
    /\ pc = "upload" /\ Current(w)
    /\ files[w] # {}
    /\ objects' = [objects EXCEPT ![w] = files[w]]
    /\ files' \in {files, [files EXCEPT ![w] = {}]}
    /\ pc' = "advance"
    /\ UNCHANGED <<config, table, state, asked, proc, todo, horizon, staged, ok, fetched, erasing, actor, bounds>>

set_cold_watermark_us(us) == watermark' = Larger(watermark, us)

Advance(w) ==
    /\ pc = "advance" /\ Current(w)
    /\ set_cold_watermark_us(w + 1)
    /\ todo' = todo \ {w}
    /\ pc' = IF todo' = {} THEN "finish" ELSE "scan"
    /\ staged' = {}
    /\ UNCHANGED <<config, table, manifest, deletions, tombs, cold, asked, proc, horizon, ok, fetched, erasing, actor, bounds>>

\* Mutant of Finish: the watermark is left at the last sealed window.
FinishStays ==
    /\ pc = "finish"
    /\ Idle
    /\ UNCHANGED <<config, table, state, cold, asked, proc, erasing, actor, bounds>>

\* The empty tail is skipped by the next pass.
Finish ==
    /\ pc = "finish"
    /\ set_cold_watermark_us(horizon)
    /\ Idle
    /\ UNCHANGED <<config, table, manifest, deletions, tombs, cold, asked, proc, erasing, actor, bounds>>

\* An error of any step ends the pass; the next tick starts another.
PassFails ==
    /\ proc = "serve" /\ pc # "idle"
    /\ Fault
    /\ Idle
    /\ UNCHANGED <<config, table, state, cold, asked, proc, erasing, actor, commands>>

Pass ==
    \/ run_once
    \/ \E w \in Windows : \/ sql_stream(w) \/ seal_file(w) \/ put_cold_archive(w)
                          \/ upload(w) \/ Advance(w)
    \/ Finish

-----------------------------------------------------------------------------
(* The writer actor: appends, and compaction between two of them. *)

\* A row of w that the pass may no longer see.
Late(w) == w \in Sealed \/ w < watermark \/ (pc # "idle" /\ w < horizon)

append(r) ==
    /\ proc = "serve" /\ comp = "idle"
    /\ r \notin ingested /\ r.win <= now
    /\ Late(r.win) => r \in Stragglers
    /\ hot' = hot \cup {r}
    /\ ingested' = ingested \cup {r}
    /\ late' = IF Late(r.win) THEN late \cup {r.win} ELSE late
    /\ UNCHANGED <<config, state, cold, asked, proc, task, actor, bounds>>

\* Mutant of build_prune_hook: age, not membership in a sealed window, prunes.
HookByAge ==
    /\ proc = "serve" /\ comp = "idle"
    /\ hook' = [sealed |-> {w \in Windows : w < floor_to}, held |-> Held,
                ids |-> {w \in Sealed : \E a \in manifest[w] : ~a.pruned},
                tombs |-> tombs, old |-> {w \in Windows : w + HotDays < now}]
    /\ comp' = "rebuild"
    /\ UNCHANGED <<config, table, state, cold, asked, proc, task, bounds>>

build_prune_hook ==
    /\ proc = "serve" /\ comp = "idle"
    /\ hook' = [sealed |-> Sealed, held |-> Held,
                ids |-> {w \in Sealed : \E a \in manifest[w] : ~a.pruned},
                tombs |-> tombs, old |-> {w \in Windows : w + HotDays < now}]
    /\ comp' = "rebuild"
    /\ UNCHANGED <<config, table, state, cold, asked, proc, task, bounds>>

\* A class row is governed by its class alone; then sealed membership, then tombstones.
keep(r) ==
    IF r.class THEN r.win \notin hook.old \/ r.win \in hook.held
    ELSE r.win \notin hook.sealed /\ ~Erased(hook.tombs, r)

\* The rebuilt table is swapped in.
compact_table ==
    /\ comp = "rebuild"
    /\ hot' = {r \in hot : keep(r)}
    /\ comp' = "mark"
    /\ UNCHANGED <<config, ingested, late, state, cold, asked, proc, task, hook, bounds>>

mark_cold_archives_hot_pruned ==
    /\ comp = "mark"
    /\ manifest' = [w \in Windows |->
           IF w \in hook.ids THEN {[rows |-> a.rows, hold |-> a.hold, pruned |-> TRUE] : a \in manifest[w]}
                             ELSE manifest[w]]
    /\ comp' = "idle" /\ hook' = NoHook
    /\ UNCHANGED <<config, table, deletions, watermark, tombs, cold, asked, proc, task, bounds>>

\* The rebuild fails, or the flag is not written: a warning, either way.
CompactionFails ==
    /\ comp # "idle"
    /\ Fault
    /\ comp' = "idle" /\ hook' = NoHook
    /\ UNCHANGED <<config, table, state, cold, asked, proc, task, commands>>

\* A cold query fetches the archives that are not on disk.
download(w) ==
    /\ proc = "serve" /\ s3
    /\ w \in Sealed /\ files[w] = {} /\ objects[w] # {}
    /\ files' = [files EXCEPT ![w] = objects[w]]
    /\ UNCHANGED <<config, table, state, objects, asked, proc, task, actor, bounds>>

Actor == build_prune_hook \/ compact_table \/ mark_cold_archives_hot_pruned

-----------------------------------------------------------------------------
(* `garmr retention expire --apply'. *)

\* The daemon, if it runs, is stopped first.
Command ==
    /\ proc # "cli" /\ pc = "idle" /\ comp = "idle"
    /\ commands < MaxCommands
    /\ commands' = commands + 1

\* Mutant of expired_archives: holds are not looked at.
ExpiredAll(cutoff) == {w \in Sealed : w + 1 <= cutoff}

expired_archives(cutoff) == {w \in Sealed \ Held : w + 1 <= cutoff}

Expire(cutoff) ==
    /\ Command
    /\ expired_archives(cutoff) # {}
    /\ todo' = expired_archives(cutoff)
    /\ proc' = "cli" /\ pc' = "expire" /\ erasing' = {}
    /\ UNCHANGED <<config, table, state, cold, asked, horizon, staged, ok, fetched, actor, faults>>

\* The audit record comes first; but no retention command opens the ledger, and
\* without one the call returns and the expiry goes on.
record_admin_local(w) ==
    /\ pc = "expire" /\ Current(w)
    /\ asked' = asked \cup {<<"expire", w>>}
    /\ pc' = "file"
    /\ UNCHANGED <<config, table, state, cold, proc, todo, horizon, staged, ok, fetched, erasing, actor, bounds>>

\* Only whether the file could be removed is kept.
remove_file(w) ==
    /\ pc = "file" /\ Current(w)
    /\ \/ /\ ok' = (files[w] # {})
          /\ files' = [files EXCEPT ![w] = {}]
          /\ UNCHANGED faults
       \/ /\ Fault
          /\ ok' = FALSE
          /\ UNCHANGED files
    /\ pc' = IF s3 THEN "object" ELSE "record"
    /\ UNCHANGED <<config, table, state, objects, asked, proc, todo, horizon, staged, fetched, erasing, actor, commands>>

\* The command goes on with the next archive, or ends.
ExpireNext(w) ==
    IF todo = {w} THEN Idle /\ proc' = "down"
    ELSE /\ todo' = todo \ {w} /\ pc' = "expire" /\ ok' = FALSE
         /\ UNCHANGED <<proc, horizon, staged, fetched>>

\* When the object stays, so does the manifest row.
ExpireObject(w) ==
    /\ pc = "object" /\ Current(w)
    /\ \/ /\ objects' = [objects EXCEPT ![w] = {}]
          /\ pc' = "record"
          /\ UNCHANGED <<proc, todo, horizon, staged, ok, fetched, faults>>
       \/ /\ Fault
          /\ ExpireNext(w)
          /\ UNCHANGED objects
    /\ UNCHANGED <<config, table, state, files, asked, erasing, actor, commands>>

\* One transaction removes the manifest row and records the deletion.
delete_cold_archive_recorded(w) ==
    /\ pc = "record" /\ Current(w)
    /\ manifest' = [manifest EXCEPT ![w] = {}]
    /\ deletions' = [deletions EXCEPT ![w] = {ok \/ s3}]
    /\ ExpireNext(w)
    /\ UNCHANGED <<config, table, watermark, tombs, cold, asked, erasing, actor, bounds>>

\* `garmr retention hold' and `--clear'.
set_cold_legal_hold(w, hold) ==
    /\ Command
    /\ w \in Sealed
    /\ proc' = "down"
    /\ manifest' = [manifest EXCEPT ![w] = {[rows |-> a.rows, hold |-> hold, pruned |-> a.pruned] : a \in manifest[w]}]
    /\ UNCHANGED <<config, table, deletions, watermark, tombs, cold, asked, task, actor, faults>>

-----------------------------------------------------------------------------
(* `garmr erase --apply'. *)

\* Refused when an archive in its reach is held.
Erase(t) ==
    /\ Command
    /\ Overlapping(t) \cap Held = {}
    /\ erasing' = {t}
    /\ asked' = asked \cup {<<"erase", t>>}
    /\ proc' = "cli" /\ pc' = "tomb"
    /\ UNCHANGED <<config, table, state, cold, todo, horizon, staged, ok, fetched, actor, faults>>

put_tombstone ==
    /\ pc = "tomb"
    /\ tombs' = tombs \cup erasing
    /\ pc' = "erase"
    /\ UNCHANGED <<config, table, manifest, deletions, watermark, cold, asked, proc, todo, horizon, staged, ok,
                   fetched, erasing, actor, bounds>>

\* The table is rebuilt without the rows of any tombstone.
erase_matching ==
    /\ pc = "erase"
    /\ hot' = {r \in hot : ~Erased(tombs, r)}
    /\ pc' = "fulltext"
    /\ UNCHANGED <<config, ingested, late, state, cold, asked, proc, todo, horizon, staged, ok, fetched, erasing,
                   actor, bounds>>

\* The command has opened the full-text index read-only.  So the removal of a
\* host's documents fails, and so does a rebuild for any other field when the
\* table has a row, of Rows or not.
IndexReadOnly ==
    /\ pc = "fulltext"
    /\ Idle
    /\ proc' = "down" /\ erasing' = {}
    /\ UNCHANGED <<config, table, state, cold, asked, actor, bounds>>

\* Of an empty table there is nothing to rebuild, and the archives are next.
reindex_store ==
    /\ pc = "fulltext"
    /\ hot = {} /\ \A t \in erasing : ~t.label
    /\ todo' = UNION {Overlapping(t) : t \in erasing}
    /\ ok' = TRUE
    /\ pc' = IF todo' = {} THEN "certify" ELSE "rewrite"
    /\ UNCHANGED <<config, table, state, cold, asked, proc, horizon, staged, fetched, erasing, actor, bounds>>

RewriteNext(w) ==
    /\ todo' = todo \ {w}
    /\ pc' = IF todo' = {} THEN "certify" ELSE "rewrite"
    /\ staged' = {} /\ fetched' = FALSE

\* Mutant of RewriteFails: the archives are not reported as pending.
RewriteFailsQuietly == todo' = {} /\ ok' = TRUE /\ pc' = "certify" /\ staged' = {} /\ fetched' = FALSE

RewriteFails == todo' = {} /\ ok' = FALSE /\ pc' = "certify" /\ staged' = {} /\ fetched' = FALSE

\* Where rewrite_one reads the archive from.
Copy(w) == IF files[w] # {} THEN files[w] ELSE IF s3 THEN objects[w] ELSE {}

\* An archive that is missing or fails its checksum ends the rewriting.
RewriteRefuses(w) ==
    /\ pc = "rewrite" /\ Current(w)
    /\ Copy(w) # {a.rows : a \in manifest[w]}
    /\ files' = [files EXCEPT ![w] = Copy(w)]
    /\ RewriteFails
    /\ UNCHANGED <<config, table, state, objects, asked, proc, horizon, erasing, actor, bounds>>

\* Nothing matches: the archive stays as it is.
RewriteSkips(w) ==
    /\ pc = "rewrite" /\ Current(w)
    /\ Copy(w) = {a.rows : a \in manifest[w]}
    /\ \A c \in Copy(w), r \in Rows : r \in c => ~Erased(erasing, r)
    /\ files' \in {files, [files EXCEPT ![w] = Copy(w)]}
    /\ RewriteNext(w)
    /\ UNCHANGED <<config, table, state, objects, asked, proc, horizon, ok, erasing, actor, bounds>>

\* The filtered copy is sealed and renamed over the local file.
RewriteInstall(w) ==
    /\ pc = "rewrite" /\ Current(w)
    /\ Copy(w) = {a.rows : a \in manifest[w]}
    /\ \E c \in Copy(w) :
          /\ \E r \in c : Erased(erasing, r)
          /\ staged' = {r \in c : ~Erased(erasing, r)}
    /\ fetched' = (files[w] = {})
    /\ files' = [files EXCEPT ![w] = {staged'}]
    /\ pc' = IF s3 THEN "replace" ELSE "manifest"
    /\ UNCHANGED <<config, table, state, objects, asked, proc, todo, horizon, ok, erasing, actor, bounds>>

\* The object is replaced; a copy fetched for it is dropped, or stays.
RewriteObject(w) ==
    /\ pc = "replace" /\ Current(w)
    /\ objects' = [objects EXCEPT ![w] = files[w]]
    /\ files' \in IF fetched THEN {files, [files EXCEPT ![w] = {}]} ELSE {files}
    /\ pc' = "manifest"
    /\ UNCHANGED <<config, table, state, asked, proc, todo, horizon, staged, ok, fetched, erasing, actor, bounds>>

\* The manifest last.
RewriteManifest(w) ==
    /\ pc = "manifest" /\ Current(w)
    /\ manifest' = [manifest EXCEPT ![w] = {[rows |-> staged, hold |-> a.hold, pruned |-> a.pruned] : a \in manifest[w]}]
    /\ RewriteNext(w)
    /\ UNCHANGED <<config, table, deletions, watermark, tombs, cold, asked, proc, horizon, ok, erasing, actor, bounds>>

\* An error while rewriting leaves the archives pending.
RewriteError ==
    /\ pc \in {"rewrite", "replace", "manifest"}
    /\ Fault
    /\ RewriteFails
    /\ UNCHANGED <<config, table, state, cold, asked, proc, horizon, erasing, actor, commands>>

\* The certificate is complete when nothing matches in the table and nothing is pending.
Certify ==
    /\ pc = "certify"
    /\ erasing' = IF ok /\ \A r \in hot : ~Erased(erasing, r) THEN erasing ELSE {}
    /\ Idle
    /\ proc' = "down"
    /\ UNCHANGED <<config, table, state, cold, asked, actor, bounds>>

\* Any other failing step ends the command.
CommandFails ==
    /\ pc \in {"record", "tomb", "erase"}
    /\ Fault
    /\ Idle
    /\ proc' = "down" /\ erasing' = {}
    /\ UNCHANGED <<config, table, state, cold, asked, actor, commands>>

Cli ==
    \/ \E w \in Windows :
          \/ record_admin_local(w) \/ remove_file(w) \/ ExpireObject(w) \/ delete_cold_archive_recorded(w)
          \/ RewriteRefuses(w) \/ RewriteSkips(w) \/ RewriteInstall(w)
          \/ RewriteObject(w) \/ RewriteManifest(w)
    \/ put_tombstone \/ erase_matching \/ IndexReadOnly \/ reindex_store \/ Certify

-----------------------------------------------------------------------------
(* The environment, and the specification. *)

Tick ==
    /\ now < MaxNow
    /\ now' = now + 1
    /\ UNCHANGED <<s3, table, state, cold, asked, proc, task, actor, bounds>>

\* The process stops at whatever point it is.
Crash ==
    /\ proc # "down"
    /\ Fault
    /\ proc' = "down" /\ erasing' = {}
    /\ Idle
    /\ comp' = "idle" /\ hook' = NoHook
    /\ UNCHANGED <<config, table, state, cold, asked, commands>>

Serve ==
    /\ proc = "down"
    /\ proc' = "serve" /\ erasing' = {}
    /\ UNCHANGED <<config, table, state, cold, asked, pc, todo, horizon, staged, ok, fetched, actor, bounds>>

Init ==
    /\ s3 \in BOOLEAN /\ now = 0
    /\ hot = Backlog /\ ingested = Backlog /\ late = {}
    /\ manifest = [w \in Windows |-> {}] /\ deletions = [w \in Windows |-> {}]
    /\ watermark = 0 /\ tombs = {}
    /\ files = [w \in Windows |-> {}] /\ objects = [w \in Windows |-> {}]
    /\ asked = {} /\ proc = "down"
    /\ pc = "idle" /\ todo = {} /\ horizon = 0 /\ staged = {} /\ ok = FALSE /\ fetched = FALSE
    /\ erasing = {}
    /\ comp = "idle" /\ hook = NoHook
    /\ commands = 0 /\ faults = 0

Next ==
    \/ Pass \/ PassFails
    \/ \E r \in Rows : append(r)
    \/ Actor \/ CompactionFails
    \/ \E w \in Windows : download(w)
    \/ \E cutoff \in 1 .. now : Expire(cutoff)
    \/ \E w \in Windows, hold \in BOOLEAN : set_cold_legal_hold(w, hold)
    \/ \E t \in Predicates : Erase(t)
    \/ Cli \/ RewriteError \/ CommandFails
    \/ Tick \/ Crash \/ Serve

\* The retention loop ticks as long as the daemon runs, a command runs to its
\* end, and a stopped daemon is started again.
Fairness == WF_vars(Pass) /\ WF_vars(Cli) /\ WF_vars(Serve)

Spec == Init /\ [][Next]_vars /\ Fairness

-----------------------------------------------------------------------------
(* Properties. *)

TypeOK ==
    /\ s3 \in BOOLEAN /\ now \in 0 .. MaxNow
    /\ hot \subseteq ingested /\ ingested \subseteq Rows /\ late \subseteq Windows
    /\ manifest \in [Windows -> Option(Archive)]
    /\ deletions \in [Windows -> Option(BOOLEAN)]
    /\ watermark \in Nat /\ tombs \subseteq Predicates
    /\ files \in [Windows -> Option(SUBSET Rows)] /\ objects \in [Windows -> Option(SUBSET Rows)]
    /\ asked \subseteq ({"expire"} \X Windows) \cup ({"erase"} \X Predicates)
    /\ proc \in {"down", "serve", "cli"}
    /\ pc \in {"idle", "scan", "seal", "put", "upload", "advance", "finish",
               "expire", "file", "object", "record",
               "tomb", "erase", "fulltext", "rewrite", "replace", "manifest", "certify"}
    /\ todo \subseteq Windows /\ horizon \in Nat /\ staged \subseteq Rows
    /\ ok \in BOOLEAN /\ fetched \in BOOLEAN
    /\ erasing \in Option(Predicates)
    /\ comp \in {"idle", "rebuild", "mark"}
    /\ hook.sealed \subseteq Windows /\ hook.held \subseteq Windows /\ hook.ids \subseteq Windows
    /\ hook.tombs \subseteq tombs /\ hook.old \subseteq Windows
    /\ commands \in 0 .. MaxCommands /\ faults \in 0 .. MaxFaults

\* The rows retention answers for: of no class, asked to be erased by nobody,
\* and of a window every row of which arrived before it was sealed.
Answerable == {r \in ingested : ~r.class /\ r.win \notin late /\ ~Erased(tombs, r)}
Expired == {w \in Windows : <<"expire", w>> \in asked}

\* No interleaving of sealing, compaction, cold queries, rewriting and process
\* stops loses a row: it is in the hot store, or in a file or object the manifest
\* points at, until a command goes on to expire its window.
RowsKept ==
    \A r \in Answerable :
        \/ r \in hot
        \/ r.win \in Expired
        \/ r.win \in Sealed /\ \E c \in files[r.win] \cup objects[r.win] : r \in c

\* Below the watermark, which no later pass looks at, every row is archived.
ArchivedBelowWatermark ==
    \A r \in Answerable : r.win < watermark => r.win \in Sealed \cup Expired

\* The manifest never loses sight of an object: it is written before the upload
\* and its row is removed after the object.
ObjectsReachable == \A w \in Windows : objects[w] # {} => w \in Sealed

\* hot_pruned tells the truth: the window's rows are gone from the hot store.
PrunedIsGone ==
    \A w \in Windows : \A a \in manifest[w] :
        a.pruned => \A r \in hot : r.win = w => r.class \/ w \in late

\* What a complete erasure certificate says is true when it is issued, and
\* until the daemon or an expiry starts: no row matches in the table or in an
\* archive as a query reads it.
CertificateTrue ==
    pc = "idle" => \A r \in Rows :
        Erased(erasing, r) =>
            /\ r \notin hot
            /\ r.win \in Sealed => \A c \in Copy(r.win) : r \notin c

\* No scheduled process overrides a legal hold: an archive stops being held only
\* by the hold command or by the re-sealing of a window whose pass did not finish,
\* and a class row, which has no other copy, leaves a held window only if a
\* tombstone matches it.
HoldStands ==
    [][/\ \A w \in Held \ Held' : commands' # commands \/ pc = "put"
       /\ \A r \in hot \ hot' : r.class /\ ~Erased(tombs, r) => r.win \notin Held]_vars

\* Every window that ages past the horizon is rolled to cold, whatever failed before.
AgedIsSealed == \A w \in Windows : w < floor_to ~> w < watermark
=============================================================================
