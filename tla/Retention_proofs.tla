-------------------------- MODULE Retention_proofs --------------------------
(***************************************************************************)
(* Cold retention, for any rows, windows, erasures, commands and faults:   *)
(* no row is lost, none is skipped by the watermark, no object is orphaned,*)
(* hot_pruned and the erasure certificate tell the truth, and holds stand. *)
(*                                                                         *)
(* RowsKept is not inductive.  A compaction trusts the set of sealed       *)
(* windows it read earlier, and a pass what it streamed earlier; so the    *)
(* invariant says that EVERY copy of a sealed window is whole, that a      *)
(* window's rows leave the hot store together, and what a pass holds in    *)
(* its staging file while rows, compactions and queries go on.             *)
(***************************************************************************)
EXTENDS Retention, TLAPS

Scanning == {"scan", "seal", "put", "upload", "advance"}
Expiring == {"expire", "file", "object", "record"}
Rewriting == {"rewrite", "replace", "manifest"}
Commanding == Expiring \cup Rewriting \cup {"tomb", "erase", "fulltext", "certify"}

\* Which process runs what.
ProcInv ==
    /\ proc \in {"down", "serve", "cli"}
    /\ proc = "serve" => pc \in Scanning \cup {"idle", "finish"}
    /\ proc = "cli" => pc \in Commanding
    /\ proc = "down" => pc = "idle"
    /\ comp # "idle" => proc = "serve"

\* What each step of a pass or of a command may count on.
StepInv ==
    /\ pc \in Scanning => \A w \in todo : w < horizon
    /\ pc = "finish" => todo = {}
    /\ pc \in {"upload", "replace", "object"} => s3
    /\ pc = "upload" => \A w \in Windows : Current(w) => w \in Sealed
    /\ pc \in {"put", "upload", "replace"} => \A w \in Windows : Current(w) => files[w] = {staged}
    /\ pc \in {"file", "object", "record"} => \A w \in Windows : Current(w) => w \in Expired
    /\ pc = "record" => \A w \in Windows : Current(w) => objects[w] = {}
    /\ pc \in Rewriting => todo \subseteq Sealed
    /\ pc \in Rewriting \cup {"erase", "fulltext", "certify"} => erasing \subseteq tombs
    /\ ~s3 => \A w \in Windows : objects[w] = {}

\* The rows of w that retention answers for, unless w was expired.
Answered(w) == {r \in Answerable : r.win = w /\ w \notin Expired}

\* Every copy of a sealed window is whole, and there is one.
WholeCopies ==
    \A w \in Sealed :
        /\ Answered(w) # {} => files[w] \cup objects[w] # {}
        /\ \A c \in files[w] \cup objects[w] : Answered(w) \subseteq c

\* The rows of a window leave the hot store together, and after it was sealed.
HotTogether ==
    /\ \A w \in Windows : w \notin Sealed => Answered(w) \subseteq hot
    /\ \A r \in hot : ~r.class => Answered(r.win) \subseteq hot

\* What the pass streamed is still all there is.
StagedWhole ==
    pc \in {"seal", "put", "upload"} =>
        \A w \in Windows : Current(w) => Answered(w) \subseteq staged

KeptInv ==
    /\ WholeCopies /\ HotTogether /\ StagedWhole
    /\ hook.sealed \subseteq Sealed \cup Expired

\* A pass passes no window over.
PassInv ==
    /\ pc \in Scanning \cup {"finish"} =>
          \A r \in Answerable : r.win < horizon => r.win \in Sealed \cup Expired \cup todo
    /\ pc = "advance" =>
          \A r \in Answerable : Current(r.win) => r.win \in Sealed \cup Expired

\* The compaction marks what it pruned.
MarkInv ==
    /\ hook.ids \subseteq hook.sealed
    /\ comp = "mark" => \A r \in hot : r.win \in hook.ids => r.class \/ r.win \in late

\* The hook has seen every hold, and no held archive is being expired.
HoldInv ==
    /\ comp = "rebuild" => Held \subseteq hook.held
    /\ pc \in Expiring => todo \cap Held = {}

\* No row of w the erasure is about is in the archive as it is read.
Clean(w) == \A c \in Copy(w) : \A r \in c : ~Erased(erasing, r)

\* The erasure under way holds outside the archives still to do; the one just
\* certified, everywhere.
EraseInv ==
    /\ proc = "serve" \/ pc \in Expiring => erasing = {}
    /\ pc = "idle" =>
          /\ \A r \in hot : ~Erased(erasing, r)
          /\ \A t \in erasing : \A w \in Overlapping(t) : Clean(w)
    /\ pc \in Rewriting \cup {"certify"} =>
          (ok => \A t \in erasing : \A w \in Overlapping(t) \ todo : Clean(w))
    /\ pc = "certify" => todo = {}
    /\ pc \in {"replace", "manifest"} =>
          \A w \in Windows : Current(w) =>
             /\ Copy(w) = {staged}
             /\ \A r \in staged : ~Erased(erasing, r)

\* The types of what is stored, and of what a pass or a command works on.
DataTypes ==
    /\ s3 \in BOOLEAN
    /\ hot \subseteq ingested /\ ingested \subseteq Rows /\ late \subseteq Windows
    /\ manifest \in [Windows -> Option(Archive)]
    /\ watermark \in Nat /\ tombs \subseteq Predicates
    /\ files \in [Windows -> Option(SUBSET Rows)] /\ objects \in [Windows -> Option(SUBSET Rows)]
    /\ todo \subseteq Windows /\ horizon \in Nat /\ staged \subseteq Rows
    /\ now \in Nat /\ erasing \subseteq Predicates
    /\ hook.tombs \subseteq tombs

\* The types of the rest.
RestTypes ==
    /\ now \in 0 .. MaxNow
    /\ deletions \in [Windows -> Option(BOOLEAN)]
    /\ asked \subseteq ({"expire"} \X Windows) \cup ({"erase"} \X Predicates)
    /\ proc \in {"down", "serve", "cli"}
    /\ pc \in Scanning \cup Commanding \cup {"idle", "finish"}
    /\ ok \in BOOLEAN /\ fetched \in BOOLEAN
    /\ erasing \in Option(Predicates)
    /\ comp \in {"idle", "rebuild", "mark"}
    /\ hook.sealed \subseteq Windows /\ hook.held \subseteq Windows /\ hook.ids \subseteq Windows
    /\ hook.old \subseteq Windows
    /\ commands \in 0 .. MaxCommands /\ faults \in 0 .. MaxFaults

-----------------------------------------------------------------------------
(* Types. *)

\* What may be absent, and what is there, has its type.
LEMMA OptionFacts ==
    /\ {} \in Option(Archive) /\ {} \in Option(SUBSET Rows) /\ {} \in Option(BOOLEAN) /\ {} \in Option(Predicates)
    /\ \A S \in SUBSET Rows : {S} \in Option(SUBSET Rows)
    /\ \A b \in BOOLEAN : {b} \in Option(BOOLEAN)
    /\ \A t \in Predicates : {t} \in Option(Predicates)
    /\ \A S \in SUBSET Rows : {[rows |-> S, hold |-> FALSE, pruned |-> FALSE]} \in Option(Archive)
BY Zenon DEF Option, Archive

\* A manifest row that is written back with one field changed.
LEMMA Remade ==
    ASSUME NEW M \in Option(Archive), NEW S \in SUBSET Rows, NEW h \in BOOLEAN
    PROVE  /\ {[rows |-> a.rows, hold |-> a.hold, pruned |-> TRUE] : a \in M} \in Option(Archive)
           /\ {[rows |-> a.rows, hold |-> h, pruned |-> a.pruned] : a \in M} \in Option(Archive)
           /\ {[rows |-> S, hold |-> a.hold, pruned |-> a.pruned] : a \in M} \in Option(Archive)
<1>1. CASE M = {}
  BY Zenon, <1>1, OptionFacts
<1>2. CASE M # {}
  <2>1. PICK a \in Archive : M = {a}
    BY Zenon, <1>2 DEF Option
  <2>2. /\ {[rows |-> b.rows, hold |-> b.hold, pruned |-> TRUE] : b \in M}
             = {[rows |-> a.rows, hold |-> a.hold, pruned |-> TRUE]}
        /\ {[rows |-> b.rows, hold |-> h, pruned |-> b.pruned] : b \in M}
             = {[rows |-> a.rows, hold |-> h, pruned |-> a.pruned]}
        /\ {[rows |-> S, hold |-> b.hold, pruned |-> b.pruned] : b \in M}
             = {[rows |-> S, hold |-> a.hold, pruned |-> a.pruned]}
    BY Zenon, <2>1
  <2> QED
    BY ZenonT(40), <2>1, <2>2 DEF Option, Archive
<1> QED
  BY Zenon, <1>1, <1>2

\* The fault budget is not exceeded.
LEMMA FaultType == faults \in 0 .. MaxFaults /\ Fault => faults' \in 0 .. MaxFaults
BY RetentionAssumption DEF Fault

\* The horizon is a window's start, also before retention_days have passed.
LEMMA HorizonType == now \in Nat => floor_to \in Nat
BY RetentionAssumption DEF floor_to

\* What is stored keeps its type.
LEMMA DataStep ==
    DataTypes /\ [Next]_vars => DataTypes'
<1> SUFFICES ASSUME DataTypes, [Next]_vars PROVE DataTypes'
  BY Zenon
<1>1. ASSUME NEW w \in Windows, Advance(w) PROVE DataTypes'
  <2> USE <1>1
  <2>1. watermark' \in Nat
    BY RetentionAssumption DEF DataTypes, Advance, set_cold_watermark_us, Larger
  <2> QED
    BY Zenon, <2>1 DEF DataTypes, Advance, config, table, cold, actor
<1>2. ASSUME NEW w \in Windows, ExpireObject(w) PROVE DataTypes'
  <2> USE <1>2
  <2>1. todo' \subseteq Windows /\ horizon' \in Nat /\ staged' \subseteq Rows
    BY DEF DataTypes, ExpireObject, ExpireNext, Idle
  <2>2. objects' \in [Windows -> Option(SUBSET Rows)]
    BY Zenon, OptionFacts DEF DataTypes, ExpireObject
  <2> QED
    BY Zenon, <2>1, <2>2 DEF DataTypes, ExpireObject, config, table, state, cold, actor
<1>3. ASSUME NEW w \in Windows, delete_cold_archive_recorded(w) PROVE DataTypes'
  <2> USE <1>3
  <2>1. todo' \subseteq Windows /\ horizon' \in Nat /\ staged' \subseteq Rows
    BY DEF DataTypes, delete_cold_archive_recorded, ExpireNext, Idle
  <2>2. manifest' \in [Windows -> Option(Archive)]
    BY Zenon, OptionFacts DEF DataTypes, delete_cold_archive_recorded
  <2> QED
    BY Zenon, <2>1, <2>2 DEF DataTypes, delete_cold_archive_recorded, config, table, state, cold, actor
<1>4. ASSUME NEW w \in Windows, RewriteInstall(w) PROVE DataTypes'
  <2> USE <1>4
  <2>1. Copy(w) \subseteq SUBSET Rows
    BY DEF Copy, DataTypes, Option
  <2>2. staged' \subseteq Rows
    BY Zenon, <2>1 DEF RewriteInstall
  <2>3. files' \in [Windows -> Option(SUBSET Rows)]
    BY Zenon, <2>2, OptionFacts DEF DataTypes, RewriteInstall
  <2>4. UNCHANGED <<s3, now, hot, ingested, late, manifest, watermark, tombs, objects, todo, horizon, erasing, hook>>
    BY Zenon DEF RewriteInstall, config, actor, table, state
  <2> QED
    BY Zenon, <2>2, <2>3, <2>4 DEF DataTypes
<1>5. ASSUME NEW w \in Windows, RewriteManifest(w) PROVE DataTypes'
  <2> USE <1>5
  <2>1. manifest' \in [Windows -> Option(Archive)]
    BY ZenonT(40), Remade DEF DataTypes, RewriteManifest
  <2> QED
    BY Zenon, <2>1 DEF DataTypes, RewriteManifest, RewriteNext, config, table, state, cold, actor
<1>6. CASE Tick
  <2> USE <1>6
  <2>1. now' \in Nat
    BY RetentionAssumption DEF DataTypes, Tick
  <2> QED
    BY Zenon, <2>1 DEF DataTypes, Tick, table, state, cold, task, actor
<1> USE RetentionAssumption DEF DataTypes, config, table, state, cold, task, actor, bounds
<1>7. CASE PassFails
  BY Zenon, <1>7 DEF PassFails, Idle
<1>8. CASE run_once
  BY Zenon, <1>8, HorizonType DEF run_once, nonempty_buckets
<1>9. CASE Finish
  BY Zenon, <1>9 DEF Finish, set_cold_watermark_us, Larger, Idle
<1>10. ASSUME NEW w \in Windows, sql_stream(w) PROVE DataTypes'
  BY Zenon, <1>10 DEF sql_stream
<1>11. ASSUME NEW w \in Windows, seal_file(w) PROVE DataTypes'
  BY Zenon, <1>11, OptionFacts DEF seal_file
<1>12. ASSUME NEW w \in Windows, put_cold_archive(w) PROVE DataTypes'
  BY Zenon, <1>12, OptionFacts DEF put_cold_archive
<1>13. ASSUME NEW w \in Windows, upload(w) PROVE DataTypes'
  BY Zenon, <1>13, OptionFacts DEF upload
<1>14. ASSUME NEW r \in Rows, append(r) PROVE DataTypes'
  BY Zenon, <1>14 DEF append, Late
<1>15. CASE build_prune_hook
  BY Zenon, <1>15 DEF build_prune_hook, Sealed, Held
<1>16. CASE compact_table
  BY Zenon, <1>16 DEF compact_table, keep
<1>17. CASE mark_cold_archives_hot_pruned
  BY Zenon, <1>17, Remade DEF mark_cold_archives_hot_pruned, NoHook
<1>18. CASE CompactionFails
  BY Zenon, <1>18 DEF CompactionFails, NoHook
<1>19. ASSUME NEW w \in Windows, download(w) PROVE DataTypes'
  BY Zenon, <1>19 DEF download
<1>20. ASSUME NEW cutoff \in 1 .. now, Expire(cutoff) PROVE DataTypes'
  BY Zenon, <1>20 DEF Expire, Command, expired_archives, Sealed
<1>21. ASSUME NEW w \in Windows, record_admin_local(w) \/ remove_file(w) PROVE DataTypes'
  BY Zenon, <1>21, OptionFacts DEF record_admin_local, remove_file
<1>22. ASSUME NEW w \in Windows, NEW hold \in BOOLEAN, set_cold_legal_hold(w, hold) PROVE DataTypes'
  BY Zenon, <1>22, Remade DEF set_cold_legal_hold, Command
<1>23. ASSUME NEW t \in Predicates, Erase(t) PROVE DataTypes'
  BY Zenon, <1>23 DEF Erase, Command
<1>24. CASE put_tombstone \/ erase_matching \/ reindex_store
  BY ZenonT(40), <1>24 DEF put_tombstone, erase_matching, reindex_store, Overlapping, Sealed
<1>25. ASSUME NEW w \in Windows, RewriteRefuses(w) \/ RewriteSkips(w) \/ RewriteObject(w) PROVE DataTypes'
  BY ZenonT(40), <1>25, OptionFacts DEF RewriteRefuses, RewriteFails, Copy, RewriteSkips, RewriteNext,
         RewriteObject
<1>26. CASE CommandFails \/ IndexReadOnly
  <2>1. CASE CommandFails
    BY Zenon, <2>1 DEF CommandFails, Idle
  <2>2. CASE IndexReadOnly
    BY Zenon, <2>2 DEF IndexReadOnly, Idle
  <2> QED BY Zenon, <1>26, <2>1, <2>2
<1>27. CASE RewriteError
  BY Zenon, <1>27 DEF RewriteError, RewriteFails
<1>28. CASE Certify
  BY Zenon, <1>28 DEF Certify, Idle
<1>29. CASE Serve
  BY Zenon, <1>29 DEF Serve
<1>30. CASE Crash
  BY Zenon, <1>30 DEF Crash, Idle, NoHook
<1>31. CASE UNCHANGED vars
  BY Zenon, <1>31 DEF vars
<1> HIDE DEF DataTypes, config, table, state, cold, task, actor, bounds
<1> QED
  BY Zenon, <1>1, <1>2, <1>3, <1>4, <1>5, <1>6, <1>7, <1>8, <1>9, <1>10, <1>11, <1>12, <1>13, <1>14, <1>15,
         <1>16, <1>17, <1>18, <1>19, <1>20, <1>21, <1>22, <1>23, <1>24, <1>25, <1>26, <1>27, <1>28,
         <1>29, <1>30, <1>31 DEF Next, Pass, Actor, Cli

\* Everything else keeps its type.
LEMMA RestStep ==
    DataTypes /\ RestTypes /\ [Next]_vars => RestTypes'
<1> SUFFICES ASSUME DataTypes, RestTypes, [Next]_vars PROVE RestTypes'
  BY Zenon
<1> USE RetentionAssumption DEF RestTypes, Scanning, Expiring, Rewriting, Commanding, config, table,
         state, cold, task, actor, bounds
<1>1. CASE run_once \/ Finish \/ PassFails
  BY ZenonT(40), <1>1, FaultType DEF run_once, nonempty_buckets, Finish, set_cold_watermark_us, Larger, Idle,
         PassFails
<1>2. ASSUME NEW w \in Windows, sql_stream(w) \/ seal_file(w) \/ put_cold_archive(w) \/ upload(w) \/ Advance(w) PROVE RestTypes'
  BY <1>2 DEF sql_stream, seal_file, put_cold_archive, upload, Advance, set_cold_watermark_us,
         Larger
<1>3. ASSUME NEW r \in Rows, append(r) PROVE RestTypes'
  BY Zenon, <1>3 DEF append, Late
<1>4. CASE build_prune_hook \/ compact_table \/ mark_cold_archives_hot_pruned \/ CompactionFails
  BY SMTT(40), <1>4, FaultType DEF build_prune_hook, Sealed, Held, compact_table, keep,
         mark_cold_archives_hot_pruned, NoHook, CompactionFails
<1>5. ASSUME NEW w \in Windows, download(w) PROVE RestTypes'
  BY ZenonT(40), <1>5 DEF download
<1>6. ASSUME NEW cutoff \in 1 .. now, Expire(cutoff) PROVE RestTypes'
  BY SMTT(40), <1>6, OptionFacts DEF Expire, Command, expired_archives, Sealed
<1>7. ASSUME NEW w \in Windows, record_admin_local(w) PROVE RestTypes'
  BY SMTT(40), <1>7 DEF record_admin_local
<1>8. ASSUME NEW w \in Windows, remove_file(w) PROVE RestTypes'
  BY Zenon, <1>8, FaultType DEF remove_file
<1>9. ASSUME NEW w \in Windows, ExpireObject(w) PROVE RestTypes'
  BY Zenon, <1>9, FaultType DEF ExpireObject, ExpireNext, Idle
<1>10. ASSUME NEW w \in Windows, delete_cold_archive_recorded(w) PROVE RestTypes'
  BY Zenon, <1>10, OptionFacts DEF delete_cold_archive_recorded, ExpireNext, Idle
<1>11. ASSUME NEW w \in Windows, NEW hold \in BOOLEAN, set_cold_legal_hold(w, hold) PROVE RestTypes'
  BY <1>11 DEF set_cold_legal_hold, Command
<1>12. ASSUME NEW t \in Predicates, Erase(t) PROVE RestTypes'
  BY <1>12, OptionFacts DEF Erase, Command
<1>13. CASE put_tombstone \/ erase_matching \/ reindex_store
  BY ZenonT(60), <1>13 DEF put_tombstone, erase_matching, reindex_store, Overlapping, Sealed
<1>14. ASSUME NEW w \in Windows, RewriteRefuses(w) \/ RewriteSkips(w) \/ RewriteInstall(w) \/ RewriteObject(w) \/ RewriteManifest(w) PROVE RestTypes'
  BY ZenonT(40), <1>14 DEF RewriteRefuses, RewriteFails, Copy, RewriteSkips, RewriteNext, RewriteInstall,
         RewriteObject, RewriteManifest
<1>15. CASE RewriteError \/ Certify \/ CommandFails \/ IndexReadOnly
  BY Zenon, <1>15, FaultType, OptionFacts DEF RewriteError, RewriteFails, Certify, Idle, CommandFails, IndexReadOnly
<1>16. CASE Serve
  BY ZenonT(40), <1>16, OptionFacts DEF Serve
<1>17. CASE Tick
  BY SMTT(40), <1>17 DEF Tick
<1>18. CASE Crash
  BY Zenon, <1>18, OptionFacts, FaultType DEF Crash, Idle, NoHook
<1>19. CASE UNCHANGED vars
  BY ZenonT(60), <1>19 DEF vars
<1> HIDE DEF RestTypes, Scanning, Expiring, Rewriting, Commanding, config, table, state, cold, task,
         actor, bounds
<1> QED
  BY Zenon, <1>1, <1>2, <1>3, <1>4, <1>5, <1>6, <1>7, <1>8, <1>9, <1>10, <1>11, <1>12, <1>13, <1>14, <1>15,
         <1>16, <1>17, <1>18, <1>19 DEF Next, Pass, Actor, Cli

\* The daemon and a command exclude each other.
LEMMA ProcStep ==
    ProcInv /\ [Next]_vars => ProcInv'
<1> SUFFICES ASSUME ProcInv, [Next]_vars PROVE ProcInv'
  BY Zenon
<1> USE RetentionAssumption DEF ProcInv, Scanning, Expiring, Rewriting, Commanding, config, table,
         state, cold, task, actor, bounds
<1>1. CASE run_once \/ Finish \/ PassFails
  BY Zenon, <1>1 DEF run_once, nonempty_buckets, Finish, set_cold_watermark_us, Larger, Idle, PassFails
<1>2. ASSUME NEW w \in Windows, sql_stream(w) \/ seal_file(w) \/ put_cold_archive(w) \/ upload(w) \/ Advance(w) PROVE ProcInv'
  BY Zenon, <1>2 DEF sql_stream, seal_file, put_cold_archive, upload, Advance, set_cold_watermark_us,
         Larger
<1>3. ASSUME NEW r \in Rows, append(r) PROVE ProcInv'
  BY ZenonT(40), <1>3 DEF append, Late
<1>4. CASE build_prune_hook \/ compact_table \/ mark_cold_archives_hot_pruned \/ CompactionFails
  BY ZenonT(40), <1>4 DEF build_prune_hook, Sealed, Held, compact_table, keep, mark_cold_archives_hot_pruned,
         NoHook, CompactionFails
<1>5. ASSUME NEW w \in Windows, download(w) PROVE ProcInv'
  BY Zenon, <1>5 DEF download
<1>6. ASSUME NEW cutoff \in 1 .. now, Expire(cutoff) PROVE ProcInv'
  BY ZenonT(40), <1>6 DEF Expire, Command, expired_archives, Sealed
<1>7. ASSUME NEW w \in Windows, record_admin_local(w) \/ remove_file(w) \/ ExpireObject(w) \/ delete_cold_archive_recorded(w) PROVE ProcInv'
  BY ZenonT(40), <1>7 DEF record_admin_local, remove_file, ExpireObject, ExpireNext, Idle,
         delete_cold_archive_recorded
<1>8. ASSUME NEW w \in Windows, NEW hold \in BOOLEAN, set_cold_legal_hold(w, hold) PROVE ProcInv'
  BY Zenon, <1>8 DEF set_cold_legal_hold, Command
<1>9. ASSUME NEW t \in Predicates, Erase(t) PROVE ProcInv'
  BY ZenonT(40), <1>9 DEF Erase, Command
<1>10. CASE put_tombstone \/ erase_matching \/ reindex_store
  BY ZenonT(40), <1>10 DEF put_tombstone, erase_matching, reindex_store, Overlapping, Sealed
<1>11. ASSUME NEW w \in Windows, RewriteRefuses(w) \/ RewriteSkips(w) \/ RewriteInstall(w) \/ RewriteObject(w) \/ RewriteManifest(w) PROVE ProcInv'
  BY ZenonT(40), <1>11 DEF RewriteRefuses, RewriteFails, Copy, RewriteSkips, RewriteNext, RewriteInstall,
         RewriteObject, RewriteManifest
<1>12. CASE RewriteError \/ Certify \/ CommandFails \/ IndexReadOnly
  BY ZenonT(40), <1>12 DEF RewriteError, RewriteFails, Certify, Idle, CommandFails, IndexReadOnly
<1>13. CASE Tick \/ Crash \/ Serve
  BY Zenon, <1>13 DEF Tick, Crash, Idle, NoHook, Serve
<1>14. CASE UNCHANGED vars
  BY Zenon, <1>14 DEF vars
<1> HIDE DEF ProcInv, Scanning, Expiring, Rewriting, Commanding, config, table, state, cold, task,
         actor, bounds
<1> QED
  BY Zenon, <1>1, <1>2, <1>3, <1>4, <1>5, <1>6, <1>7, <1>8, <1>9, <1>10, <1>11, <1>12, <1>13, <1>14 DEF Next, Pass, Actor, Cli

-----------------------------------------------------------------------------
(* Steps that preserve the invariants. *)

\* The writes that change one field of a manifest row seal and unseal nothing.
LEMMA SealedSame ==
    ASSUME DataTypes,
           \/ mark_cold_archives_hot_pruned
           \/ \E w \in Windows, hold \in BOOLEAN : set_cold_legal_hold(w, hold)
           \/ \E w \in Windows : RewriteManifest(w)
    PROVE  Sealed' = Sealed
<1>1. ASSUME NEW v \in Windows PROVE manifest'[v] = {} <=> manifest[v] = {}
  <2>1. CASE mark_cold_archives_hot_pruned
    BY Zenon, <2>1 DEF mark_cold_archives_hot_pruned
  <2>2. ASSUME NEW w \in Windows, NEW hold \in BOOLEAN, set_cold_legal_hold(w, hold) PROVE manifest'[v] = {} <=> manifest[v] = {}
    BY Zenon, <2>2 DEF set_cold_legal_hold, DataTypes
  <2>3. ASSUME NEW w \in Windows, RewriteManifest(w) PROVE manifest'[v] = {} <=> manifest[v] = {}
    <3>1. manifest' = [manifest EXCEPT ![w] = {[rows |-> staged, hold |-> a.hold, pruned |-> a.pruned] : a \in manifest[w]}]
      BY Zenon, <2>3 DEF RewriteManifest
    <3>2. CASE v = w
      BY ZenonT(40), <3>1, <3>2 DEF DataTypes
    <3> QED
      BY Zenon, <3>1, <3>2 DEF DataTypes
  <2> QED
    BY ZenonT(40), <2>1, <2>2, <2>3
<1> QED
  BY ZenonT(40), <1>1 DEF Sealed

\* The pass and the commands work on one window at a time.
LEMMA OneCurrent ==
    ASSUME DataTypes, NEW v \in Windows, NEW w \in Windows, Current(v), Current(w)
    PROVE  v = w
BY RetentionAssumption DEF Current, DataTypes

\* What a step may count on, it finds.
LEMMA StepStep ==
    DataTypes /\ StepInv /\ [Next]_vars => StepInv'
<1> SUFFICES ASSUME DataTypes, StepInv, [Next]_vars PROVE StepInv'
  BY Zenon
<1>1. ASSUME NEW w \in Windows, put_cold_archive(w) PROVE StepInv'
  <2> USE <1>1
  <2>1. w \in Sealed' /\ Sealed \subseteq Sealed'
    BY Zenon DEF put_cold_archive, Sealed, DataTypes
  <2>2. UNCHANGED <<todo, objects, files, asked, s3, staged, erasing, tombs, horizon>>
    BY Zenon DEF put_cold_archive, cold, config
  <2>3. \A v \in Windows : Current(v) => v = w
    BY Zenon, OneCurrent DEF put_cold_archive
  <2> QED
    BY Zenon, <2>1, <2>2, <2>3 DEF StepInv, put_cold_archive, Scanning, Rewriting, Current, Expired
<1>2. CASE mark_cold_archives_hot_pruned
  BY Zenon, <1>2, SealedSame DEF StepInv, mark_cold_archives_hot_pruned, Scanning, Rewriting, Current,
         Expired, config, cold, task
<1>3. ASSUME NEW w \in Windows, NEW hold \in BOOLEAN, set_cold_legal_hold(w, hold) PROVE StepInv'
  BY ZenonT(40), <1>3, SealedSame DEF StepInv, set_cold_legal_hold, Scanning, Rewriting, Current, Expired,
         config, cold, task
<1>4. CASE reindex_store
  <2> USE <1>4
  <2>1. todo' \subseteq Sealed
    BY Zenon DEF reindex_store, Overlapping
  <2> QED
    BY Zenon, <2>1 DEF StepInv, reindex_store, Scanning, Rewriting, Current, Expired, Sealed, config, state, cold
<1>5. ASSUME NEW w \in Windows, RewriteInstall(w) PROVE StepInv'
  <2> USE <1>5
  <2>1. UNCHANGED <<s3, manifest, tombs, objects, todo, asked, erasing>>
    BY ZenonT(40) DEF RewriteInstall, config, state
  <2>2. \A v \in Windows : Current(v) => v = w
    BY ZenonT(40), OneCurrent DEF RewriteInstall
  <2>3. files'[w] = {staged'}
    BY ZenonT(40) DEF RewriteInstall, DataTypes
  <2>4. pc = "rewrite" /\ pc' = IF s3 THEN "replace" ELSE "manifest"
    BY ZenonT(40) DEF RewriteInstall
  <2> QED
    BY ZenonT(40), <2>1, <2>2, <2>3, <2>4 DEF StepInv, Scanning, Rewriting, Current, Expired, Sealed
<1>6. ASSUME NEW w \in Windows, RewriteManifest(w) PROVE StepInv'
  BY ZenonT(40), <1>6, SealedSame DEF StepInv, RewriteManifest, RewriteNext, Scanning, Rewriting, Current,
         Expired, config, cold, task
<1>9. ASSUME NEW w \in Windows, seal_file(w) PROVE StepInv'
  <2> USE <1>9
  <2>1. UNCHANGED <<s3, manifest, tombs, objects, todo, asked, erasing, staged, horizon>>
    BY ZenonT(40) DEF seal_file, config, state
  <2>2. \A v \in Windows : Current(v) => v = w
    BY ZenonT(40), OneCurrent DEF seal_file
  <2>3. files'[w] = {staged'}
    BY ZenonT(40) DEF seal_file, DataTypes
  <2>4. pc = "seal" /\ pc' = "put"
    BY ZenonT(40) DEF seal_file
  <2> QED
    BY ZenonT(40), <2>1, <2>2, <2>3, <2>4 DEF StepInv, Scanning, Rewriting, Current, Expired, Sealed
<1> USE RetentionAssumption DEF DataTypes, StepInv, Scanning, Rewriting, Current, Sealed, Expired,
         config, table, state, cold, task, actor, bounds
<1>7. CASE run_once \/ Finish \/ PassFails
  BY Zenon, <1>7 DEF run_once, nonempty_buckets, Finish, set_cold_watermark_us, Larger, Idle, PassFails
<1>8. ASSUME NEW w \in Windows, sql_stream(w) PROVE StepInv'
  BY Zenon, <1>8 DEF sql_stream
<1>10. ASSUME NEW w \in Windows, upload(w) PROVE StepInv'
  BY ZenonT(40), <1>10 DEF upload
<1>11. ASSUME NEW w \in Windows, Advance(w) PROVE StepInv'
  BY ZenonT(40), <1>11 DEF Advance, set_cold_watermark_us, Larger
<1>12. ASSUME NEW r \in Rows, append(r) PROVE StepInv'
  BY ZenonT(40), <1>12 DEF append, Late
<1>13. CASE build_prune_hook \/ compact_table \/ CompactionFails
  BY ZenonT(40), <1>13 DEF build_prune_hook, Held, compact_table, keep, CompactionFails, NoHook
<1>14. ASSUME NEW w \in Windows, download(w) PROVE StepInv'
  BY ZenonT(40), <1>14 DEF download
<1>15. ASSUME NEW cutoff \in 1 .. now, Expire(cutoff) PROVE StepInv'
  BY ZenonT(40), <1>15 DEF Expire, Command, expired_archives
<1>16. ASSUME NEW w \in Windows, record_admin_local(w) \/ remove_file(w) \/ ExpireObject(w) \/ delete_cold_archive_recorded(w) PROVE StepInv'
  BY SMTT(40), <1>16 DEF record_admin_local, remove_file, ExpireObject, ExpireNext, Idle,
         delete_cold_archive_recorded
<1>17. ASSUME NEW t \in Predicates, Erase(t) PROVE StepInv'
  BY Zenon, <1>17 DEF Erase, Command
<1>18. CASE put_tombstone \/ erase_matching
  BY Zenon, <1>18 DEF put_tombstone, erase_matching
<1>19. ASSUME NEW w \in Windows, RewriteRefuses(w) \/ RewriteSkips(w) \/ RewriteObject(w) PROVE StepInv'
  BY ZenonT(40), <1>19 DEF RewriteRefuses, RewriteFails, Copy, RewriteSkips, RewriteNext, RewriteObject
<1>20. CASE RewriteError \/ Certify \/ CommandFails \/ IndexReadOnly
  BY Zenon, <1>20 DEF RewriteError, RewriteFails, Certify, Idle, CommandFails, IndexReadOnly
<1>21. CASE Tick \/ Crash \/ Serve
  BY ZenonT(40), <1>21 DEF Tick, Crash, Idle, NoHook, Serve
<1>22. CASE UNCHANGED vars
  BY Zenon, <1>22 DEF vars
<1> HIDE DEF DataTypes, StepInv, Scanning, Rewriting, Current, Sealed, Expired, config, table,
         state, cold, task, actor, bounds
<1> QED
  BY Zenon, <1>1, <1>2, <1>3, <1>4, <1>5, <1>6, <1>7, <1>8, <1>9, <1>10, <1>11, <1>12, <1>13, <1>14, <1>15,
         <1>16, <1>17, <1>18, <1>19, <1>20, <1>21, <1>22 DEF Next, Pass, Actor, Cli

\* An object appears after its manifest row and goes before it.
LEMMA ObjectsStep ==
    DataTypes /\ StepInv /\ ObjectsReachable /\ [Next]_vars => ObjectsReachable'
<1> SUFFICES ASSUME DataTypes, StepInv, ObjectsReachable, [Next]_vars PROVE ObjectsReachable'
  BY ZenonT(40)
<1>1. CASE mark_cold_archives_hot_pruned
  BY ZenonT(40), <1>1, SealedSame DEF ObjectsReachable, mark_cold_archives_hot_pruned, cold
<1>2. ASSUME NEW w \in Windows, NEW hold \in BOOLEAN, set_cold_legal_hold(w, hold) PROVE ObjectsReachable'
  BY ZenonT(40), <1>2, SealedSame DEF ObjectsReachable, set_cold_legal_hold, cold
<1>3. ASSUME NEW w \in Windows, RewriteManifest(w) PROVE ObjectsReachable'
  BY Zenon, <1>3, SealedSame DEF ObjectsReachable, RewriteManifest, cold
<1> USE RetentionAssumption DEF DataTypes, StepInv, ObjectsReachable, Sealed, Rewriting, Current,
         config, table, state, cold, task, actor, bounds
<1>4. CASE run_once \/ Finish \/ PassFails
  BY Zenon, <1>4 DEF run_once, nonempty_buckets, Finish, set_cold_watermark_us, Larger, Idle, PassFails
<1>5. ASSUME NEW w \in Windows, sql_stream(w) \/ seal_file(w) \/ put_cold_archive(w) \/ upload(w) \/ Advance(w) PROVE ObjectsReachable'
  BY ZenonT(40), <1>5 DEF sql_stream, seal_file, put_cold_archive, upload, Advance, set_cold_watermark_us,
         Larger
<1>6. ASSUME NEW r \in Rows, append(r) PROVE ObjectsReachable'
  BY Zenon, <1>6 DEF append, Late
<1>7. CASE build_prune_hook \/ compact_table \/ CompactionFails
  BY ZenonT(40), <1>7 DEF build_prune_hook, Held, compact_table, keep, CompactionFails, NoHook
<1>8. ASSUME NEW w \in Windows, download(w) PROVE ObjectsReachable'
  BY Zenon, <1>8 DEF download
<1>9. ASSUME NEW cutoff \in 1 .. now, Expire(cutoff) PROVE ObjectsReachable'
  BY Zenon, <1>9 DEF Expire, Command, expired_archives
<1>10. ASSUME NEW w \in Windows, record_admin_local(w) \/ remove_file(w) \/ ExpireObject(w) \/ delete_cold_archive_recorded(w) PROVE ObjectsReachable'
  BY ZenonT(60), <1>10 DEF record_admin_local, remove_file, ExpireObject, ExpireNext, Idle,
         delete_cold_archive_recorded
<1>11. ASSUME NEW t \in Predicates, Erase(t) PROVE ObjectsReachable'
  BY ZenonT(40), <1>11 DEF Erase, Command
<1>12. CASE put_tombstone \/ erase_matching \/ reindex_store
  BY ZenonT(40), <1>12 DEF put_tombstone, erase_matching, reindex_store, Overlapping
<1>13. ASSUME NEW w \in Windows, RewriteRefuses(w) \/ RewriteSkips(w) \/ RewriteInstall(w) \/ RewriteObject(w) PROVE ObjectsReachable'
  BY ZenonT(40), <1>13 DEF RewriteRefuses, RewriteFails, Copy, RewriteSkips, RewriteNext, RewriteInstall,
         RewriteObject
<1>14. CASE RewriteError \/ Certify \/ CommandFails \/ IndexReadOnly
  BY ZenonT(40), <1>14 DEF RewriteError, RewriteFails, Certify, Idle, CommandFails, IndexReadOnly
<1>15. CASE Tick \/ Crash \/ Serve
  BY ZenonT(40), <1>15 DEF Tick, Crash, Idle, NoHook, Serve
<1>16. CASE UNCHANGED vars
  BY ZenonT(40), <1>16 DEF vars
<1> HIDE DEF DataTypes, StepInv, ObjectsReachable, Sealed, Rewriting, Current, config, table, state,
         cold, task, actor, bounds
<1> QED
  BY Zenon, <1>1, <1>2, <1>3, <1>4, <1>5, <1>6, <1>7, <1>8, <1>9, <1>10, <1>11, <1>12, <1>13, <1>14, <1>15,
         <1>16 DEF Next, Pass, Actor, Cli

\* No step loses a row retention answers for.
LEMMA KeptStep ==
    DataTypes /\ StepInv /\ ObjectsReachable /\ KeptInv /\ [Next]_vars => KeptInv'
<1> SUFFICES ASSUME DataTypes, StepInv, ObjectsReachable, KeptInv, [Next]_vars PROVE KeptInv'
  BY ZenonT(40)
<1>1. ASSUME NEW w \in Windows, sql_stream(w) PROVE KeptInv'
  <2> USE <1>1
  <2>1. UNCHANGED <<hot, ingested, late, tombs, asked, manifest, files, objects, todo, hook>>
    BY ZenonT(40) DEF sql_stream, table, state, cold, actor
  <2>2. staged' # {} => \A v \in Windows : Current(v) => Answered(v) \subseteq staged'
    <3> SUFFICES ASSUME staged' # {} PROVE Answered(w) \subseteq staged'
      BY Zenon, OneCurrent DEF sql_stream
    <3>1. PICK r \in hot : r.win = w /\ ~r.class
      BY Zenon DEF sql_stream
    <3> QED
      BY Zenon, <3>1 DEF KeptInv, HotTogether, sql_stream, Answered, Answerable
  <2>3. pc' \in {"advance", "seal"} /\ (pc' = "seal" => staged' # {})
    BY ZenonT(40) DEF sql_stream
  <2> QED
    BY ZenonT(40), <2>1, <2>2, <2>3 DEF KeptInv, WholeCopies, HotTogether, StagedWhole, Answered, Answerable, Expired, Sealed, Current
<1>2. ASSUME NEW w \in Windows, put_cold_archive(w) PROVE KeptInv'
  <2> USE <1>2
  <2>1. UNCHANGED <<hot, ingested, late, tombs, asked, files, objects, todo, hook, staged>>
    BY ZenonT(40) DEF put_cold_archive, table, cold, actor
  <2>2. Current(w) /\ pc = "put" /\ Sealed' = Sealed \cup {w}
    BY ZenonT(40) DEF put_cold_archive, Sealed, DataTypes
  <2>3. files[w] = {staged} /\ Answered(w) \subseteq staged
    BY ZenonT(40), <2>2 DEF StepInv, KeptInv, StagedWhole
  <2>4. \A c \in files[w] \cup objects[w] : Answered(w) \subseteq c
    BY ZenonT(40), <2>3 DEF ObjectsReachable, KeptInv, WholeCopies
  <2>5. UNCHANGED Expired /\ \A v : Answered(v)' = Answered(v) /\ Current(v)' = Current(v)
    BY ZenonT(40), <2>1 DEF Expired, Answerable, Answered, Current
  <2>6. WholeCopies'
    BY ZenonT(40), <2>1, <2>2, <2>3, <2>4, <2>5 DEF KeptInv, WholeCopies
  <2>7. HotTogether'
    BY ZenonT(40), <2>1, <2>2, <2>5 DEF KeptInv, HotTogether
  <2>8. StagedWhole'
    BY ZenonT(40), <2>1, <2>2, <2>5 DEF KeptInv, StagedWhole
  <2> QED
    BY ZenonT(40), <2>1, <2>2, <2>5, <2>6, <2>7, <2>8 DEF KeptInv
<1>3. ASSUME NEW r \in Rows, append(r) PROVE KeptInv'
  <2> USE <1>3
  <2>1. UNCHANGED <<manifest, files, objects, asked, tombs, todo, staged, pc, horizon, hook>> /\ UNCHANGED <<Sealed, Expired>>
    BY Zenon DEF append, state, cold, task, actor, Sealed, Expired
  <2>2. \A v \in Windows : Current(v)' = Current(v)
    BY ZenonT(40), <2>1 DEF Current
  <2>3. \A v \in Windows : Answered(v)' \subseteq Answered(v) \cup {r}
    BY ZenonT(40), <2>1 DEF append, Answered, Answerable
  <2>4. \A v \in Windows : r \in Answered(v)' => v = r.win /\ ~Late(v)
    BY ZenonT(40) DEF append, Answered, Answerable
  <2>5. WholeCopies'
    BY Zenon, <2>1, <2>3, <2>4 DEF KeptInv, WholeCopies, Late, Sealed
  <2>6. HotTogether'
    <3>1. \A v \in Windows : v \notin Sealed => Answered(v)' \subseteq hot'
      BY ZenonT(40), <2>3 DEF KeptInv, HotTogether, append
    <3>2. ASSUME NEW q \in hot', ~q.class PROVE Answered(q.win)' \subseteq hot'
      <4>1. q.win \in Windows
        BY ZenonT(40), RetentionAssumption DEF DataTypes, append
      <4>2. CASE q \in hot
        BY Zenon, <4>1, <4>2, <3>2, <2>3 DEF KeptInv, HotTogether, append
      <4>3. CASE q = r /\ r.win \notin Sealed
        BY ZenonT(40), <4>1, <4>3, <3>1
      <4>4. CASE q = r /\ r.win \in Sealed
        BY ZenonT(40), <4>4, <2>3 DEF append, Late, Answered, Answerable
      <4> QED
        BY ZenonT(40), <4>2, <4>3, <4>4 DEF append
    <3> QED
      BY ZenonT(40), <3>1, <3>2, <2>1 DEF HotTogether
  <2>7. StagedWhole'
    <3> SUFFICES ASSUME pc \in {"seal", "put", "upload"}, NEW v \in Windows, Current(v) PROVE Answered(v)' \subseteq staged
      BY ZenonT(40), <2>1, <2>2 DEF StagedWhole
    <3>1. Late(v)
      BY ZenonT(40) DEF StepInv, Scanning, Late, Current
    <3> QED
      BY Zenon, <3>1, <2>3, <2>4 DEF KeptInv, StagedWhole
  <2> QED
    BY ZenonT(40), <2>1, <2>5, <2>6, <2>7 DEF KeptInv
<1>4. CASE mark_cold_archives_hot_pruned
  <2> USE <1>4
  <2>1. UNCHANGED <<hot, ingested, late, tombs, asked, files, objects, todo, staged, pc>> /\ hook'.sealed = {}
    BY ZenonT(40) DEF mark_cold_archives_hot_pruned, table, cold, task, NoHook
  <2>2. UNCHANGED <<Sealed, Expired>> /\ \A v : Answered(v)' = Answered(v) /\ Current(v)' = Current(v)
    BY ZenonT(40), <2>1, SealedSame DEF Expired, Answerable, Answered, Current
  <2> QED
    BY ZenonT(40), <2>1, <2>2 DEF KeptInv, WholeCopies, HotTogether, StagedWhole
<1>5. ASSUME NEW w \in Windows, download(w) PROVE KeptInv'
  <2> USE <1>5
  <2>1. UNCHANGED <<hot, ingested, late, tombs, asked, manifest, objects, hook, pc, todo, staged>>
    BY ZenonT(40) DEF download, table, state, task, actor
  <2>2. UNCHANGED <<Sealed, Expired>> /\ \A v : Answered(v)' = Answered(v) /\ Current(v)' = Current(v)
    BY ZenonT(40), <2>1 DEF Sealed, Expired, Answerable, Answered, Current
  <2>3. \A v \in Windows : files'[v] \cup objects'[v] = files[v] \cup objects[v]
    BY ZenonT(40), <2>1 DEF download, DataTypes
  <2>4. WholeCopies'
    BY ZenonT(40), <2>2, <2>3 DEF KeptInv, WholeCopies, Sealed
  <2> QED
    BY ZenonT(40), <2>1, <2>2, <2>4 DEF KeptInv, HotTogether, StagedWhole
<1>6. ASSUME NEW w \in Windows, NEW hold \in BOOLEAN, set_cold_legal_hold(w, hold) PROVE KeptInv'
  <2> USE <1>6
  <2>1. UNCHANGED <<hot, ingested, late, tombs, asked, files, objects, todo, staged, pc, hook>>
    BY Zenon DEF set_cold_legal_hold, table, cold, task, actor
  <2>2. UNCHANGED <<Sealed, Expired>> /\ \A v : Answered(v)' = Answered(v) /\ Current(v)' = Current(v)
    BY ZenonT(40), <2>1, SealedSame DEF Expired, Answerable, Answered, Current
  <2> QED
    BY ZenonT(40), <2>1, <2>2 DEF KeptInv, WholeCopies, HotTogether, StagedWhole
<1>7. ASSUME NEW w \in Windows, RewriteManifest(w) PROVE KeptInv'
  <2> USE <1>7
  <2>1. UNCHANGED <<hot, ingested, late, tombs, asked, files, objects, hook>> /\ pc' \in {"certify", "rewrite"}
    BY Zenon DEF RewriteManifest, RewriteNext, table, cold, actor
  <2>2. UNCHANGED <<Sealed, Expired>> /\ \A v : Answered(v)' = Answered(v)
    BY ZenonT(40), <2>1, SealedSame DEF Expired, Answerable, Answered
  <2> QED
    BY ZenonT(40), <2>1, <2>2 DEF KeptInv, WholeCopies, HotTogether, StagedWhole
<1>8. ASSUME NEW w \in Windows, RewriteRefuses(w) \/ RewriteSkips(w) PROVE KeptInv'
  <2> USE <1>8
  <2>1. UNCHANGED <<hot, ingested, late, tombs, asked, manifest, objects, hook>> /\ pc' \in {"certify", "rewrite"}
    BY ZenonT(40) DEF RewriteRefuses, RewriteSkips, RewriteNext, RewriteFails, table, state, actor
  <2>2. UNCHANGED <<Sealed, Expired>> /\ \A v : Answered(v)' = Answered(v)
    BY ZenonT(40), <2>1 DEF Sealed, Expired, Answerable, Answered
  <2>3. \A v \in Windows : files'[v] \in {files[v], Copy(v)}
    BY ZenonT(40) DEF RewriteRefuses, RewriteSkips, DataTypes
  <2>4. \A v \in Windows : files'[v] \cup objects'[v] = files[v] \cup objects[v]
    BY ZenonT(40), <2>1, <2>3 DEF Copy
  <2>5. WholeCopies'
    BY ZenonT(40), <2>2, <2>4 DEF KeptInv, WholeCopies, Sealed
  <2> QED
    BY ZenonT(40), <2>1, <2>2, <2>5 DEF KeptInv, HotTogether, StagedWhole
<1>9. ASSUME NEW w \in Windows, RewriteInstall(w) PROVE KeptInv'
  <2> USE <1>9
  <2>1. UNCHANGED <<hot, ingested, late, tombs, asked, manifest, objects, hook>> /\ pc' \in {"replace", "manifest"}
    BY ZenonT(40) DEF RewriteInstall, table, state, actor
  <2>2. UNCHANGED <<Sealed, Expired>> /\ \A v : Answered(v)' = Answered(v)
    BY ZenonT(40), <2>1 DEF Sealed, Expired, Answerable, Answered
  <2>3. w \in Sealed /\ erasing \subseteq tombs
    BY ZenonT(40) DEF RewriteInstall, StepInv, Rewriting, Current
  <2>4. PICK c \in Copy(w) : staged' = {r \in c : ~Erased(erasing, r)}
    BY Zenon DEF RewriteInstall
  <2>5. c \in files[w] \cup objects[w]
    BY ZenonT(40), <2>4 DEF Copy
  <2>6. Answered(w) \subseteq staged'
    BY ZenonT(40), <2>3, <2>4, <2>5 DEF KeptInv, WholeCopies, Answered, Answerable, Erased
  <2>7. \A v \in Windows : files'[v] = IF v = w THEN {staged'} ELSE files[v]
    BY ZenonT(40) DEF RewriteInstall, DataTypes
  <2>8. WholeCopies'
    BY ZenonT(40), <2>1, <2>2, <2>6, <2>7 DEF KeptInv, WholeCopies, Sealed
  <2> QED
    BY ZenonT(40), <2>1, <2>2, <2>8 DEF KeptInv, HotTogether, StagedWhole
<1>10. ASSUME NEW w \in Windows, RewriteObject(w) PROVE KeptInv'
  <2> USE <1>10
  <2>1. UNCHANGED <<hot, ingested, late, tombs, asked, manifest, hook>> /\ pc' = "manifest"
    BY ZenonT(40) DEF RewriteObject, table, state, actor
  <2>2. UNCHANGED <<Sealed, Expired>> /\ \A v : Answered(v)' = Answered(v)
    BY ZenonT(40), <2>1 DEF Sealed, Expired, Answerable, Answered
  <2>3. \A v \in Windows : /\ objects'[v] = IF v = w THEN files[w] ELSE objects[v]
                           /\ files'[v] \in IF v = w THEN {files[w], {}} ELSE {files[v]}
    BY ZenonT(40) DEF RewriteObject, DataTypes
  <2>4. files[w] = {staged}
    BY ZenonT(40) DEF RewriteObject, StepInv
  <2>5. WholeCopies'
    BY ZenonT(40), <2>1, <2>2, <2>3, <2>4 DEF KeptInv, WholeCopies, Sealed
  <2> QED
    BY Zenon, <2>1, <2>2, <2>5 DEF KeptInv, HotTogether, StagedWhole
<1>12. ASSUME NEW w \in Windows, seal_file(w) PROVE KeptInv'
  <2> USE <1>12
  <2>1. UNCHANGED <<hot, ingested, late, tombs, asked, manifest, objects, todo, staged, hook>> /\ pc' = "put"
    BY ZenonT(40) DEF seal_file, table, state, actor
  <2>2. UNCHANGED <<Sealed, Expired>> /\ \A v : Answered(v)' = Answered(v) /\ Current(v)' = Current(v)
    BY ZenonT(40), <2>1 DEF Sealed, Expired, Answerable, Answered, Current
  <2>3. \A v \in Windows : files'[v] = IF v = w THEN {staged} ELSE files[v]
    BY ZenonT(40) DEF seal_file, DataTypes
  <2>4. Answered(w) \subseteq staged
    BY ZenonT(40) DEF seal_file, KeptInv, StagedWhole
  <2>5. WholeCopies'
    BY Zenon, <2>1, <2>2, <2>3, <2>4 DEF KeptInv, WholeCopies, Sealed
  <2>6. StagedWhole'
    BY ZenonT(40), <2>1, <2>2 DEF KeptInv, StagedWhole, seal_file
  <2>7. HotTogether' /\ (hook.sealed \subseteq Sealed \cup Expired)'
    BY ZenonT(40), <2>1, <2>2 DEF KeptInv, HotTogether
  <2> QED
    BY ZenonT(40), <2>5, <2>6, <2>7 DEF KeptInv
<1>20. ASSUME NEW w \in Windows, remove_file(w) PROVE KeptInv'
  <2> USE <1>20
  <2>1. UNCHANGED <<hot, ingested, late, tombs, asked, manifest, hook>> /\ pc' \in {"object", "record"}
    BY ZenonT(40) DEF remove_file, table, state, actor
  <2>2. UNCHANGED <<Sealed, Expired>> /\ \A v : Answered(v)' = Answered(v)
    BY ZenonT(40), <2>1 DEF Sealed, Expired, Answerable, Answered
  <2>3. Answered(w) = {}
    BY ZenonT(40) DEF remove_file, StepInv, Answered
  <2>4. \A v \in Windows \ {w} : files'[v] = files[v] /\ objects'[v] = objects[v]
    BY ZenonT(40) DEF remove_file, DataTypes, cold
  <2>5. WholeCopies'
    BY ZenonT(40), <2>2, <2>3, <2>4 DEF KeptInv, WholeCopies, Sealed
  <2> QED
    BY ZenonT(40), <2>1, <2>2, <2>5 DEF KeptInv, HotTogether, StagedWhole
<1>21. ASSUME NEW w \in Windows, ExpireObject(w) PROVE KeptInv'
  <2> USE <1>21
  <2>1. UNCHANGED <<hot, ingested, late, tombs, asked, manifest, hook>> /\ pc' \in {"record", "expire", "idle"}
    BY ZenonT(40) DEF ExpireObject, ExpireNext, Idle, table, state, actor
  <2>2. UNCHANGED <<Sealed, Expired>> /\ \A v : Answered(v)' = Answered(v)
    BY ZenonT(40), <2>1 DEF Sealed, Expired, Answerable, Answered
  <2>3. Answered(w) = {}
    BY ZenonT(40) DEF ExpireObject, StepInv, Answered
  <2>4. \A v \in Windows \ {w} : files'[v] = files[v] /\ objects'[v] = objects[v]
    BY ZenonT(40) DEF ExpireObject, DataTypes, cold
  <2>5. WholeCopies'
    BY ZenonT(40), <2>2, <2>3, <2>4 DEF KeptInv, WholeCopies, Sealed
  <2> QED
    BY ZenonT(40), <2>1, <2>2, <2>5 DEF KeptInv, HotTogether, StagedWhole
<1>22. ASSUME NEW w \in Windows, delete_cold_archive_recorded(w) PROVE KeptInv'
  <2> USE <1>22
  <2>1. UNCHANGED <<hot, ingested, late, tombs, asked, files, objects, hook>> /\ pc' \in {"expire", "idle"}
    BY ZenonT(40) DEF delete_cold_archive_recorded, ExpireNext, Idle, table, cold, actor
  <2>2. w \in Expired
    BY ZenonT(40) DEF delete_cold_archive_recorded, StepInv
  <2>3. Expired' = Expired /\ \A v : Answered(v)' = Answered(v)
    BY ZenonT(40), <2>1 DEF Expired, Answerable, Answered
  <2>4. \A v \in Windows \ {w} : v \in Sealed' <=> v \in Sealed
    BY ZenonT(40) DEF delete_cold_archive_recorded, DataTypes, Sealed
  <2>5. Sealed' \subseteq Sealed /\ Sealed \subseteq Sealed' \cup {w} /\ Answered(w) = {}
    BY ZenonT(40), <2>2, <2>4 DEF delete_cold_archive_recorded, DataTypes, Sealed, Answered
  <2>6. WholeCopies'
    BY ZenonT(40), <2>1, <2>3, <2>5 DEF KeptInv, WholeCopies
  <2>7. HotTogether'
    BY ZenonT(40), <2>1, <2>3, <2>5 DEF KeptInv, HotTogether
  <2>8. (hook.sealed \subseteq Sealed \cup Expired)'
    BY ZenonT(40), <2>1, <2>2, <2>3, <2>5 DEF KeptInv
  <2> QED
    BY ZenonT(40), <2>1, <2>6, <2>7, <2>8 DEF KeptInv, StagedWhole
<1>13. ASSUME NEW w \in Windows, upload(w) PROVE KeptInv'
  <2> USE <1>13
  <2>1. UNCHANGED <<hot, ingested, late, manifest, asked, tombs, staged, todo, horizon, hook>> /\ pc = "upload" /\ pc' = "advance" /\ Current(w)
    BY ZenonT(40) DEF upload, table, state, actor
  <2>2. UNCHANGED <<Sealed, Expired>> /\ \A v : Answered(v)' = Answered(v)
    BY ZenonT(40), <2>1 DEF Sealed, Expired, Answered, Answerable
  <2>3. files[w] = {staged} /\ Answered(w) \subseteq staged
    BY ZenonT(40), <2>1 DEF StepInv, KeptInv, StagedWhole
  <2>4. \A v \in Windows : objects'[v] = IF v = w THEN {staged} ELSE objects[v]
    BY ZenonT(40), <2>3 DEF upload, DataTypes
  <2>5. \A v \in Windows : files'[v] = files[v] \/ (v = w /\ files'[v] = {})
    BY ZenonT(40) DEF upload, DataTypes
  <2>6. WholeCopies'
    <3> SUFFICES ASSUME NEW v \in Sealed
                 PROVE  /\ Answered(v) # {} => files'[v] \cup objects'[v] # {}
                        /\ \A c \in files'[v] \cup objects'[v] : Answered(v) \subseteq c
      BY ZenonT(40), <2>2 DEF WholeCopies, Sealed
    <3>1. CASE v = w
      BY ZenonT(40), <3>1, <2>3, <2>4, <2>5
    <3>2. CASE v # w
      BY ZenonT(40), <3>2, <2>4, <2>5 DEF KeptInv, WholeCopies, Sealed
    <3> QED
      BY ZenonT(40), <3>1, <3>2
  <2>7. HotTogether'
    BY ZenonT(40), <2>1, <2>2 DEF KeptInv, HotTogether
  <2> QED
    BY ZenonT(40), <2>1, <2>2, <2>6, <2>7 DEF KeptInv, StagedWhole
<1> USE RetentionAssumption DEF DataTypes, StepInv, KeptInv, WholeCopies, HotTogether, StagedWhole,
         Answered, Answerable, Erased, Scanning, Current, Sealed, Expired, config, table, state,
         cold, task, actor, bounds
<1>11. CASE run_once \/ Finish \/ PassFails
  BY ZenonT(40), <1>11 DEF run_once, nonempty_buckets, Finish, set_cold_watermark_us, Larger, Idle, PassFails
<1>14. ASSUME NEW w \in Windows, Advance(w) PROVE KeptInv'
  BY ZenonT(40), <1>14 DEF Advance, set_cold_watermark_us, Larger
<1>15. CASE build_prune_hook
  BY ZenonT(40), <1>15 DEF build_prune_hook, Held
<1>16. CASE compact_table
  BY ZenonT(40), <1>16 DEF compact_table, keep
<1>17. CASE CompactionFails
  BY ZenonT(40), <1>17 DEF CompactionFails, NoHook
<1>18. ASSUME NEW cutoff \in 1 .. now, Expire(cutoff) PROVE KeptInv'
  BY ZenonT(40), <1>18 DEF Expire, Command, expired_archives
<1>19. ASSUME NEW w \in Windows, record_admin_local(w) PROVE KeptInv'
  BY ZenonT(40), <1>19 DEF record_admin_local
<1>23. ASSUME NEW t \in Predicates, Erase(t) PROVE KeptInv'
  BY Zenon, <1>23 DEF Erase, Command
<1>24. CASE put_tombstone \/ erase_matching \/ reindex_store
  BY ZenonT(40), <1>24 DEF put_tombstone, erase_matching, reindex_store, Overlapping
<1>25. CASE RewriteError \/ Certify \/ CommandFails \/ IndexReadOnly
  BY ZenonT(40), <1>25 DEF RewriteError, RewriteFails, Certify, Idle, CommandFails, IndexReadOnly
<1>26. CASE Tick
  BY ZenonT(40), <1>26 DEF Tick
<1>27. CASE Crash
  BY ZenonT(40), <1>27 DEF Crash, Idle, NoHook
<1>28. CASE Serve
  BY ZenonT(40), <1>28 DEF Serve
<1>29. CASE UNCHANGED vars
  BY ZenonT(40), <1>29 DEF vars
<1> HIDE DEF DataTypes, StepInv, KeptInv, WholeCopies, HotTogether, StagedWhole, Answered,
         Answerable, Erased, Scanning, Current, Sealed, Expired, config, table, state, cold, task,
         actor, bounds
<1> QED
  BY ZenonT(40), <1>1, <1>2, <1>3, <1>4, <1>5, <1>6, <1>7, <1>8, <1>9, <1>10, <1>11, <1>12, <1>13, <1>14, <1>15,
         <1>16, <1>17, <1>18, <1>19, <1>20, <1>21, <1>22, <1>23, <1>24, <1>25, <1>26, <1>27, <1>28,
         <1>29 DEF Next, Pass, Actor, Cli

\* No step moves the watermark past a row that is not archived.
LEMMA PassStep ==
    DataTypes /\ StepInv /\ KeptInv /\ PassInv /\ ArchivedBelowWatermark /\ [Next]_vars => (PassInv /\ ArchivedBelowWatermark)'
<1> SUFFICES ASSUME DataTypes, StepInv, KeptInv, PassInv, ArchivedBelowWatermark, [Next]_vars PROVE (PassInv /\ ArchivedBelowWatermark)'
  BY ZenonT(40)
<1>1. CASE run_once
  <2> USE <1>1
  <2>1. UNCHANGED <<watermark, Sealed, Expired, Answerable>> /\ pc' \in {"finish", "scan"}
    BY ZenonT(40) DEF run_once, table, state, Sealed, Expired, Answerable
  <2>2. ASSUME NEW r \in Answerable, r.win < floor_to, r.win \notin Sealed \cup Expired PROVE r.win \in todo'
    <3>1. r.win \in Windows /\ r.win \in Nat /\ watermark \in Nat
      BY ZenonT(40), RetentionAssumption DEF Answerable, DataTypes
    <3>2. watermark <= r.win
      BY <2>2, <3>1 DEF ArchivedBelowWatermark
    <3>3. r \in hot
      BY Zenon, <2>2, <3>1 DEF KeptInv, HotTogether, Answered
    <3> QED
      BY ZenonT(40), <2>2, <3>1, <3>2, <3>3 DEF run_once, nonempty_buckets
  <2> QED
    BY ZenonT(40), <2>1, <2>2 DEF PassInv, ArchivedBelowWatermark, run_once
<1>2. ASSUME NEW w \in Windows, sql_stream(w) PROVE (PassInv /\ ArchivedBelowWatermark)'
  <2> USE <1>2
  <2>1. UNCHANGED <<watermark, horizon, todo, Sealed, Expired, Answerable>> /\ pc = "scan" /\ pc' \in {"advance", "seal"}
    BY Zenon DEF sql_stream, table, state, Sealed, Expired, Answerable
  <2>2. ASSUME NEW r \in Answerable, Current(r.win), pc' = "advance" PROVE r.win \in Sealed \cup Expired
    <3>0. r.win \in Windows /\ Current(w)
      BY ZenonT(40), RetentionAssumption DEF sql_stream, DataTypes, Answerable
    <3>1. r.win = w
      BY ZenonT(40), <2>2, <3>0, OneCurrent
    <3>2. r \notin hot
      BY Zenon, <2>2, <3>1 DEF sql_stream, Answerable
    <3> QED
      BY Zenon, <3>1, <3>2 DEF KeptInv, HotTogether, Answered
  <2> QED
    BY Zenon, <2>1, <2>2 DEF PassInv, ArchivedBelowWatermark, Scanning, Current
<1>3. ASSUME NEW w \in Windows, put_cold_archive(w) PROVE (PassInv /\ ArchivedBelowWatermark)'
  <2> USE <1>3
  <2>1. UNCHANGED <<watermark, horizon, todo, Expired, Answerable>> /\ pc = "put" /\ pc' \in {"advance", "upload"}
    BY Zenon DEF put_cold_archive, table, Expired, Answerable
  <2>2. Sealed' = Sealed \cup {w}
    BY Zenon DEF put_cold_archive, Sealed, DataTypes
  <2>3. \A r \in Answerable : Current(r.win) => r.win = w
    BY ZenonT(40), OneCurrent, RetentionAssumption DEF put_cold_archive, DataTypes, Answerable
  <2> QED
    BY Zenon, <2>1, <2>2, <2>3 DEF PassInv, ArchivedBelowWatermark, Scanning, Current
<1>4. ASSUME NEW w \in Windows, Advance(w) PROVE (PassInv /\ ArchivedBelowWatermark)'
  <2> USE <1>4
  <2>1. UNCHANGED <<horizon, Sealed, Expired, Answerable>> /\ pc = "advance" /\ pc' \in {"finish", "scan"} /\ todo' = todo \ {w}
    BY Zenon DEF Advance, table, Sealed, Expired, Answerable
  <2>2. \A r \in Answerable : r.win = w => w \in Sealed \cup Expired
    BY Zenon, <2>1 DEF PassInv, Advance
  <2>3. ASSUME NEW r \in Answerable, r.win < watermark', r.win # w PROVE r.win \in Sealed \cup Expired
    <3>1. r.win \in Nat /\ watermark \in Nat /\ w \in Nat /\ horizon \in Nat
      BY Zenon, RetentionAssumption DEF DataTypes, Answerable
    <3>2. r.win < watermark \/ r.win < w
      BY <2>3, <3>1 DEF Advance, set_cold_watermark_us, Larger
    <3>3. CASE r.win < w
      <4>1. w < horizon
        BY Zenon, <2>1 DEF StepInv, Scanning, Advance, Current
      <4>2. r.win \notin todo
        BY <3>1, <3>3 DEF Advance, Current
      <4> QED
        BY <3>1, <3>3, <4>1, <4>2, <2>1 DEF PassInv, Scanning
    <3> QED
      BY ZenonT(40), <3>2, <3>3 DEF ArchivedBelowWatermark
  <2> QED
    BY Zenon, <2>1, <2>2, <2>3 DEF PassInv, ArchivedBelowWatermark, Scanning
<1>5. CASE mark_cold_archives_hot_pruned
  <2> USE <1>5
  <2>1. UNCHANGED <<ingested, late, tombs, asked, pc, todo, horizon, watermark>>
    BY Zenon DEF mark_cold_archives_hot_pruned, set_cold_legal_hold, table, task
  <2>2. UNCHANGED <<Sealed, Expired, Answerable>> /\ \A v : Current(v)' = Current(v)
    BY ZenonT(40), <2>1, SealedSame DEF Expired, Answerable, Current
  <2> QED
    BY ZenonT(40), <2>1, <2>2 DEF PassInv, ArchivedBelowWatermark
<1>6. ASSUME NEW w \in Windows, NEW hold \in BOOLEAN, set_cold_legal_hold(w, hold) PROVE (PassInv /\ ArchivedBelowWatermark)'
  <2> USE <1>6
  <2>1. UNCHANGED <<ingested, late, tombs, asked, pc, todo, horizon, watermark>>
    BY Zenon DEF mark_cold_archives_hot_pruned, set_cold_legal_hold, table, task
  <2>2. UNCHANGED <<Sealed, Expired, Answerable>> /\ \A v : Current(v)' = Current(v)
    BY Zenon, <2>1, SealedSame DEF Expired, Answerable, Current
  <2> QED
    BY ZenonT(40), <2>1, <2>2 DEF PassInv, ArchivedBelowWatermark
<1>7. ASSUME NEW w \in Windows, RewriteManifest(w) PROVE (PassInv /\ ArchivedBelowWatermark)'
  <2> USE <1>7
  <2>1. UNCHANGED <<ingested, late, tombs, asked, watermark>> /\ pc' \in {"certify", "rewrite"}
    BY Zenon DEF RewriteManifest, RewriteNext, table
  <2>2. UNCHANGED <<Sealed, Expired, Answerable>>
    BY ZenonT(40), <2>1, SealedSame DEF Expired, Answerable
  <2> QED
    BY ZenonT(40), <2>1, <2>2 DEF PassInv, ArchivedBelowWatermark, Scanning
<1> USE RetentionAssumption DEF DataTypes, StepInv, PassInv, ArchivedBelowWatermark, Answerable,
         Erased, Expired, Sealed, Scanning, Current, config, table, state, cold, task, actor, bounds
<1>8. CASE Finish \/ PassFails
  BY ZenonT(40), <1>8 DEF Finish, set_cold_watermark_us, Larger, Idle, PassFails
<1>9. ASSUME NEW w \in Windows, seal_file(w) PROVE (PassInv /\ ArchivedBelowWatermark)'
  BY ZenonT(40), <1>9 DEF seal_file
<1>10. ASSUME NEW w \in Windows, upload(w) PROVE (PassInv /\ ArchivedBelowWatermark)'
  BY ZenonT(40), <1>10 DEF upload
<1>11. ASSUME NEW r \in Rows, append(r) PROVE (PassInv /\ ArchivedBelowWatermark)'
  BY ZenonT(40), <1>11 DEF append, Late
<1>12. CASE build_prune_hook \/ compact_table \/ CompactionFails
  BY ZenonT(40), <1>12 DEF build_prune_hook, Held, compact_table, keep, CompactionFails, NoHook
<1>13. ASSUME NEW w \in Windows, download(w) PROVE (PassInv /\ ArchivedBelowWatermark)'
  BY ZenonT(40), <1>13 DEF download
<1>14. ASSUME NEW cutoff \in 1 .. now, Expire(cutoff) PROVE (PassInv /\ ArchivedBelowWatermark)'
  BY ZenonT(40), <1>14 DEF Expire, Command, expired_archives
<1>15. ASSUME NEW w \in Windows, record_admin_local(w) PROVE (PassInv /\ ArchivedBelowWatermark)'
  BY ZenonT(40), <1>15 DEF record_admin_local
<1>16. ASSUME NEW w \in Windows, remove_file(w) PROVE (PassInv /\ ArchivedBelowWatermark)'
  BY ZenonT(40), <1>16 DEF remove_file
<1>17. ASSUME NEW w \in Windows, ExpireObject(w) PROVE (PassInv /\ ArchivedBelowWatermark)'
  BY ZenonT(40), <1>17 DEF ExpireObject, ExpireNext, Idle
<1>18. ASSUME NEW w \in Windows, delete_cold_archive_recorded(w) PROVE (PassInv /\ ArchivedBelowWatermark)'
  BY ZenonT(40), <1>18 DEF delete_cold_archive_recorded, ExpireNext, Idle
<1>19. ASSUME NEW t \in Predicates, Erase(t) PROVE (PassInv /\ ArchivedBelowWatermark)'
  BY ZenonT(40), <1>19 DEF Erase, Command
<1>20. CASE put_tombstone \/ erase_matching \/ reindex_store
  BY ZenonT(40), <1>20 DEF put_tombstone, erase_matching, reindex_store, Overlapping
<1>21. ASSUME NEW w \in Windows, RewriteRefuses(w) PROVE (PassInv /\ ArchivedBelowWatermark)'
  BY ZenonT(40), <1>21 DEF RewriteRefuses, RewriteFails, Copy
<1>22. ASSUME NEW w \in Windows, RewriteSkips(w) PROVE (PassInv /\ ArchivedBelowWatermark)'
  BY ZenonT(40), <1>22 DEF RewriteSkips, RewriteNext, Copy
<1>23. ASSUME NEW w \in Windows, RewriteInstall(w) PROVE (PassInv /\ ArchivedBelowWatermark)'
  BY ZenonT(40), <1>23 DEF RewriteInstall, Copy
<1>24. ASSUME NEW w \in Windows, RewriteObject(w) PROVE (PassInv /\ ArchivedBelowWatermark)'
  BY ZenonT(40), <1>24 DEF RewriteObject
<1>25. CASE RewriteError \/ Certify \/ CommandFails \/ IndexReadOnly
  BY ZenonT(40), <1>25 DEF RewriteError, RewriteFails, Certify, Idle, CommandFails, IndexReadOnly
<1>26. CASE Tick \/ Crash \/ Serve
  BY ZenonT(40), <1>26 DEF Tick, Crash, Idle, NoHook, Serve
<1>27. CASE UNCHANGED vars
  BY ZenonT(40), <1>27 DEF vars
<1> HIDE DEF DataTypes, StepInv, PassInv, ArchivedBelowWatermark, Answerable, Erased, Expired,
         Sealed, Scanning, Current, config, table, state, cold, task, actor, bounds
<1> QED
  BY ZenonT(40), <1>1, <1>2, <1>3, <1>4, <1>5, <1>6, <1>7, <1>8, <1>9, <1>10, <1>11, <1>12, <1>13, <1>14, <1>15,
         <1>16, <1>17, <1>18, <1>19, <1>20, <1>21, <1>22, <1>23, <1>24, <1>25, <1>26, <1>27 DEF Next, Pass, Actor, Cli

\* hot_pruned is set for what was pruned.
LEMMA MarkStep ==
    DataTypes /\ MarkInv /\ PrunedIsGone /\ [Next]_vars => (MarkInv /\ PrunedIsGone)'
<1> SUFFICES ASSUME DataTypes, MarkInv, PrunedIsGone, [Next]_vars PROVE (MarkInv /\ PrunedIsGone)'
  BY ZenonT(40)
<1>1. ASSUME NEW w \in Windows, NEW hold \in BOOLEAN, set_cold_legal_hold(w, hold) PROVE (MarkInv /\ PrunedIsGone)'
  <2> USE <1>1
  <2>1. UNCHANGED <<hot, late, hook, comp>>
    BY ZenonT(40) DEF set_cold_legal_hold, table, actor
  <2>2. \A v \in Windows : \A a \in manifest'[v] : \E b \in manifest[v] : a.pruned = b.pruned
    BY SMTT(40) DEF set_cold_legal_hold, DataTypes
  <2> QED
    BY ZenonT(40), <2>1, <2>2 DEF MarkInv, PrunedIsGone
<1>4. ASSUME NEW w \in Windows, put_cold_archive(w) PROVE (MarkInv /\ PrunedIsGone)'
  <2> USE <1>4
  <2>1. UNCHANGED <<hot, late, hook, comp>>
    BY ZenonT(40) DEF put_cold_archive, table, actor
  <2>2. \A v \in Windows : manifest'[v] = IF v = w THEN {[rows |-> staged, hold |-> FALSE, pruned |-> FALSE]} ELSE manifest[v]
    BY ZenonT(40) DEF put_cold_archive, DataTypes
  <2>3. \A v \in Windows : \A a \in manifest'[v] : a.pruned => a \in manifest[v]
    BY <2>2
  <2> QED
    BY ZenonT(40), <2>1, <2>3 DEF MarkInv, PrunedIsGone
<1> USE RetentionAssumption DEF DataTypes, MarkInv, PrunedIsGone, Sealed, config, table, state,
         cold, task, actor, bounds
<1>2. CASE run_once \/ Finish \/ PassFails
  BY Zenon, <1>2 DEF run_once, nonempty_buckets, Finish, set_cold_watermark_us, Larger, Idle, PassFails
<1>3. ASSUME NEW w \in Windows, sql_stream(w) \/ seal_file(w) PROVE (MarkInv /\ PrunedIsGone)'
  BY ZenonT(40), <1>3 DEF sql_stream, seal_file
<1>5. ASSUME NEW w \in Windows, upload(w) PROVE (MarkInv /\ PrunedIsGone)'
  BY ZenonT(40), <1>5 DEF upload
<1>6. ASSUME NEW w \in Windows, Advance(w) PROVE (MarkInv /\ PrunedIsGone)'
  BY ZenonT(40), <1>6 DEF Advance, set_cold_watermark_us, Larger
<1>7. ASSUME NEW r \in Rows, append(r) PROVE (MarkInv /\ PrunedIsGone)'
  BY ZenonT(40), <1>7 DEF append, Late
<1>8. CASE build_prune_hook
  BY ZenonT(40), <1>8 DEF build_prune_hook, Held
<1>9. CASE compact_table
  BY ZenonT(40), <1>9 DEF compact_table, keep
<1>10. CASE mark_cold_archives_hot_pruned
  BY ZenonT(40), <1>10 DEF mark_cold_archives_hot_pruned, NoHook
<1>11. CASE CompactionFails
  BY ZenonT(40), <1>11 DEF CompactionFails, NoHook
<1>12. ASSUME NEW w \in Windows, download(w) PROVE (MarkInv /\ PrunedIsGone)'
  BY ZenonT(40), <1>12 DEF download
<1>13. ASSUME NEW cutoff \in 1 .. now, Expire(cutoff) PROVE (MarkInv /\ PrunedIsGone)'
  BY ZenonT(40), <1>13 DEF Expire, Command, expired_archives
<1>14. ASSUME NEW w \in Windows, record_admin_local(w) \/ remove_file(w) \/ ExpireObject(w) \/ delete_cold_archive_recorded(w) PROVE (MarkInv /\ PrunedIsGone)'
  BY ZenonT(40), <1>14 DEF record_admin_local, remove_file, ExpireObject, ExpireNext, Idle,
         delete_cold_archive_recorded
<1>15. ASSUME NEW t \in Predicates, Erase(t) PROVE (MarkInv /\ PrunedIsGone)'
  BY ZenonT(40), <1>15 DEF Erase, Command
<1>16. CASE put_tombstone \/ erase_matching \/ reindex_store
  BY ZenonT(40), <1>16 DEF put_tombstone, erase_matching, reindex_store, Overlapping
<1>17. ASSUME NEW w \in Windows, RewriteRefuses(w) PROVE (MarkInv /\ PrunedIsGone)'
  BY ZenonT(40), <1>17 DEF RewriteRefuses, RewriteFails, Copy
<1>18. ASSUME NEW w \in Windows, RewriteSkips(w) PROVE (MarkInv /\ PrunedIsGone)'
  BY ZenonT(40), <1>18 DEF RewriteSkips, RewriteNext, Copy
<1>19. ASSUME NEW w \in Windows, RewriteInstall(w) PROVE (MarkInv /\ PrunedIsGone)'
  BY ZenonT(40), <1>19 DEF RewriteInstall, Copy
<1>20. ASSUME NEW w \in Windows, RewriteObject(w) PROVE (MarkInv /\ PrunedIsGone)'
  BY ZenonT(40), <1>20 DEF RewriteObject
<1>21. ASSUME NEW w \in Windows, RewriteManifest(w) PROVE (MarkInv /\ PrunedIsGone)'
  <2>1. UNCHANGED <<hot, late, hook, comp>>
    BY ZenonT(40), <1>21 DEF RewriteManifest
  <2>2. ASSUME NEW v \in Windows, NEW a \in manifest'[v], a.pruned
        PROVE  \E b \in manifest[v] : b.pruned
    <3>1. CASE v = w
      <4>1. manifest'[w] = {[rows |-> staged, hold |-> b.hold, pruned |-> b.pruned] : b \in manifest[w]}
        BY Zenon, <1>21 DEF RewriteManifest
      <4>2. PICK b \in manifest[w] : a = [rows |-> staged, hold |-> b.hold, pruned |-> b.pruned]
        BY Zenon, <4>1, <3>1, <2>2
      <4> QED BY Zenon, <4>2, <3>1, <2>2
    <3>2. CASE v # w
      <4>1. manifest'[v] = manifest[v]
        BY Zenon, <1>21, <3>2 DEF RewriteManifest
      <4> QED BY ZenonT(40), <4>1, <2>2
    <3> QED BY Zenon, <3>1, <3>2
  <2>3. MarkInv'
    BY ZenonT(40), <2>1 DEF MarkInv
  <2>4. PrunedIsGone'
    BY ZenonT(40), <2>1, <2>2 DEF PrunedIsGone
  <2> QED BY Zenon, <2>3, <2>4
<1>22. CASE RewriteError \/ Certify \/ CommandFails \/ IndexReadOnly
  BY Zenon, <1>22 DEF RewriteError, RewriteFails, Certify, Idle, CommandFails, IndexReadOnly
<1>23. CASE Tick
  BY ZenonT(40), <1>23 DEF Tick
<1>24. CASE Crash
  BY ZenonT(40), <1>24 DEF Crash, Idle, NoHook
<1>25. CASE Serve
  BY ZenonT(40), <1>25 DEF Serve
<1>26. CASE UNCHANGED vars
  BY ZenonT(40), <1>26 DEF vars
<1> HIDE DEF DataTypes, MarkInv, PrunedIsGone, Sealed, config, table, state, cold, task, actor,
         bounds
<1> QED
  BY ZenonT(40), <1>1, <1>2, <1>3, <1>4, <1>5, <1>6, <1>7, <1>8, <1>9, <1>10, <1>11, <1>12, <1>13, <1>14, <1>15,
         <1>16, <1>17, <1>18, <1>19, <1>20, <1>21, <1>22, <1>23, <1>24, <1>25, <1>26 DEF Next, Pass, Actor, Cli

\* No hold appears behind the back of a compaction or an expiry.
LEMMA HoldStep ==
    DataTypes /\ ProcInv /\ HoldInv /\ [Next]_vars => HoldInv'
<1> SUFFICES ASSUME DataTypes, ProcInv, HoldInv, [Next]_vars PROVE HoldInv'
  BY ZenonT(40)
<1> USE RetentionAssumption DEF DataTypes, HoldInv, Held, Sealed, Expiring, config, table, state,
         cold, task, actor, bounds
<1>1. CASE run_once \/ Finish \/ PassFails
  BY ZenonT(40), <1>1 DEF run_once, nonempty_buckets, Finish, set_cold_watermark_us, Larger, Idle, PassFails
<1>2. ASSUME NEW w \in Windows, sql_stream(w) \/ seal_file(w) PROVE HoldInv'
  BY ZenonT(40), <1>2 DEF sql_stream, seal_file
<1>3. ASSUME NEW w \in Windows, put_cold_archive(w) PROVE HoldInv'
  <2>1. UNCHANGED <<comp, hook>> /\ pc' \notin Expiring
    BY ZenonT(40), <1>3 DEF put_cold_archive
  <2>2. ASSUME NEW v \in Windows, NEW a \in manifest'[v], a.hold PROVE v \in Held
    <3>1. CASE v = w
      <4>1. manifest'[w] = {[rows |-> staged, hold |-> FALSE, pruned |-> FALSE]}
        BY Zenon, <1>3 DEF put_cold_archive
      <4> QED BY <4>1, <3>1, <2>2
    <3>2. CASE v # w
      <4>1. manifest'[v] = manifest[v]
        BY Zenon, <1>3, <3>2 DEF put_cold_archive
      <4> QED BY ZenonT(40), <4>1, <2>2 DEF Held
    <3> QED BY Zenon, <3>1, <3>2
  <2>3. Held' \subseteq Held
    BY ZenonT(40), <2>2 DEF Held
  <2> QED BY ZenonT(40), <2>1, <2>3
<1>4. ASSUME NEW w \in Windows, upload(w) PROVE HoldInv'
  BY ZenonT(40), <1>4 DEF upload
<1>5. ASSUME NEW w \in Windows, Advance(w) PROVE HoldInv'
  BY ZenonT(40), <1>5 DEF Advance, set_cold_watermark_us, Larger
<1>6. ASSUME NEW r \in Rows, append(r) PROVE HoldInv'
  BY ZenonT(40), <1>6 DEF append, Late
<1>7. CASE build_prune_hook
  BY ZenonT(40), <1>7 DEF build_prune_hook
<1>8. CASE compact_table
  BY ZenonT(40), <1>8 DEF compact_table, keep
<1>9. CASE mark_cold_archives_hot_pruned
  <2>1. comp' = "idle" /\ UNCHANGED <<pc, todo>>
    BY ZenonT(40), <1>9 DEF mark_cold_archives_hot_pruned
  <2>2. ASSUME NEW v \in Windows, NEW a \in manifest'[v], a.hold PROVE v \in Held
    <3>1. CASE v \in hook.ids
      <4>1. manifest'[v] = {[rows |-> b.rows, hold |-> b.hold, pruned |-> TRUE] : b \in manifest[v]}
        BY Zenon, <1>9, <3>1 DEF mark_cold_archives_hot_pruned
      <4>2. PICK b \in manifest[v] : a = [rows |-> b.rows, hold |-> b.hold, pruned |-> TRUE]
        BY Zenon, <4>1, <2>2
      <4> QED BY Zenon, <4>2, <2>2 DEF Held
    <3>2. CASE v \notin hook.ids
      <4>1. manifest'[v] = manifest[v]
        BY Zenon, <1>9, <3>2 DEF mark_cold_archives_hot_pruned
      <4> QED BY ZenonT(40), <4>1, <2>2 DEF Held
    <3> QED BY Zenon, <3>1, <3>2
  <2>3. Held' \subseteq Held
    BY ZenonT(40), <2>2 DEF Held
  <2>4. comp' # "rebuild"
    BY Zenon, <2>1
  <2> QED BY ZenonT(40), <2>1, <2>3, <2>4
<1>10. CASE CompactionFails
  BY Zenon, <1>10 DEF CompactionFails, NoHook
<1>11. ASSUME NEW w \in Windows, download(w) PROVE HoldInv'
  BY ZenonT(40), <1>11 DEF download
<1>12. ASSUME NEW cutoff \in 1 .. now, Expire(cutoff) PROVE HoldInv'
  BY ZenonT(40), <1>12 DEF Expire, Command, expired_archives
<1>13. ASSUME NEW w \in Windows, record_admin_local(w) \/ remove_file(w) \/ ExpireObject(w) \/ delete_cold_archive_recorded(w) PROVE HoldInv'
  BY ZenonT(40), <1>13 DEF record_admin_local, remove_file, ExpireObject, ExpireNext, Idle,
         delete_cold_archive_recorded
<1>14. ASSUME NEW w \in Windows, NEW hold \in BOOLEAN, set_cold_legal_hold(w, hold) PROVE HoldInv'
  BY ZenonT(40), <1>14 DEF set_cold_legal_hold, Command
<1>15. ASSUME NEW t \in Predicates, Erase(t) PROVE HoldInv'
  BY ZenonT(40), <1>15 DEF Erase, Command
<1>16. CASE put_tombstone \/ erase_matching \/ reindex_store
  BY ZenonT(40), <1>16 DEF put_tombstone, erase_matching, reindex_store, Overlapping
<1>17. ASSUME NEW w \in Windows, RewriteRefuses(w) PROVE HoldInv'
  BY ZenonT(40), <1>17 DEF RewriteRefuses, RewriteFails, Copy
<1>18. ASSUME NEW w \in Windows, RewriteSkips(w) PROVE HoldInv'
  BY ZenonT(40), <1>18 DEF RewriteSkips, RewriteNext, Copy
<1>19. ASSUME NEW w \in Windows, RewriteInstall(w) PROVE HoldInv'
  BY ZenonT(40), <1>19 DEF RewriteInstall, Copy
<1>20. ASSUME NEW w \in Windows, RewriteObject(w) PROVE HoldInv'
  BY ZenonT(40), <1>20 DEF RewriteObject
<1>21. ASSUME NEW w \in Windows, RewriteManifest(w) PROVE HoldInv'
  BY SMTT(40), <1>21 DEF RewriteManifest, RewriteNext
<1>22. CASE RewriteError \/ Certify \/ CommandFails \/ IndexReadOnly
  BY ZenonT(40), <1>22 DEF RewriteError, RewriteFails, Certify, Idle, CommandFails, IndexReadOnly
<1>23. CASE Tick \/ Crash \/ Serve
  BY ZenonT(40), <1>23 DEF Tick, Crash, Idle, NoHook, Serve
<1>24. CASE UNCHANGED vars
  BY ZenonT(40), <1>24 DEF vars
<1> HIDE DEF DataTypes, HoldInv, Held, Sealed, Expiring, config, table, state, cold, task, actor,
         bounds
<1> QED
  BY ZenonT(40), <1>1, <1>2, <1>3, <1>4, <1>5, <1>6, <1>7, <1>8, <1>9, <1>10, <1>11, <1>12, <1>13, <1>14, <1>15,
         <1>16, <1>17, <1>18, <1>19, <1>20, <1>21, <1>22, <1>23, <1>24 DEF Next, Pass, Actor, Cli

\* An erasure is certified only when it is done.
LEMMA EraseStep ==
    DataTypes /\ ProcInv /\ StepInv /\ EraseInv /\ [Next]_vars => EraseInv'
<1> SUFFICES ASSUME DataTypes, ProcInv, StepInv, EraseInv, [Next]_vars PROVE EraseInv'
  BY ZenonT(40)
<1>1. CASE Finish
  BY ZenonT(40), <1>1 DEF EraseInv, ProcInv, Finish, Idle, Commanding, Scanning, Expiring, Rewriting, Erased
<1>2. ASSUME NEW w \in Windows, remove_file(w) \/ ExpireObject(w) PROVE EraseInv'
  <2> USE <1>2
  <2>1. erasing = {} /\ UNCHANGED erasing /\ pc' \in {"object", "record", "idle", "expire"} /\ proc' \in {proc, "down"}
    BY ZenonT(40) DEF EraseInv, remove_file, ExpireObject, ExpireNext, Idle, Expiring
  <2> QED
    BY ZenonT(40), <2>1 DEF EraseInv, Expiring, Rewriting, Erased
<1>3. CASE reindex_store
  <2> USE <1>3
  <2>1. pc' \in {"certify", "rewrite"} /\ (pc' = "certify" => todo' = {}) /\ proc' # "serve"
    BY Zenon DEF reindex_store, ProcInv, Scanning
  <2>2. \A t \in erasing : Overlapping(t) \subseteq todo'
    BY Zenon DEF reindex_store
  <2>3. UNCHANGED <<manifest, erasing>>
    BY ZenonT(40) DEF reindex_store, state
  <2> QED
    BY ZenonT(40), <2>1, <2>2, <2>3 DEF EraseInv, Overlapping, Sealed, Expiring, Rewriting
<1>4. ASSUME NEW w \in Windows, RewriteSkips(w) PROVE EraseInv'
  <2> USE <1>4
  <2>1. pc = "rewrite" /\ pc' \in {"certify", "rewrite"} /\ (pc' = "certify" => todo' = {}) /\ proc' # "serve" /\ todo' = todo \ {w}
    BY ZenonT(40) DEF RewriteSkips, RewriteNext, ProcInv, Scanning
  <2>2. UNCHANGED <<s3, manifest, objects, erasing, ok>>
    BY ZenonT(40) DEF RewriteSkips, state, config
  <2>3. \A v \in Windows : files'[v] \in {files[v], Copy(v)}
    BY ZenonT(40) DEF RewriteSkips, DataTypes
  <2>4. \A v \in Windows : Copy(v)' = Copy(v)
    BY ZenonT(40), <2>2, <2>3 DEF Copy
  <2>5. Clean(w)
    <3>1. Copy(w) \subseteq SUBSET Rows
      BY DEF Copy, DataTypes, Option
    <3> QED
      BY ZenonT(40), <3>1 DEF RewriteSkips, Clean
  <2>6. \A v \in Windows : Clean(v)' = Clean(v)
    BY ZenonT(40), <2>2, <2>4 DEF Clean, Erased
  <2> QED
    BY ZenonT(40), <2>1, <2>2, <2>5, <2>6 DEF EraseInv, Overlapping, Sealed, Expiring, Rewriting
<1>5. ASSUME NEW w \in Windows, RewriteInstall(w) PROVE EraseInv'
  <2> USE <1>5
  <2>1. pc = "rewrite" /\ pc' \in {"replace", "manifest"} /\ proc' # "serve"
    BY ZenonT(40) DEF RewriteInstall, ProcInv, Scanning
  <2>2. UNCHANGED <<s3, manifest, objects, erasing, ok, todo>> /\ Current(w)
    BY ZenonT(40) DEF RewriteInstall, state, config
  <2>3. \A v \in Windows : files'[v] = IF v = w THEN {staged'} ELSE files[v]
    BY ZenonT(40) DEF RewriteInstall, DataTypes
  <2>4. \A v \in Windows : Copy(v)' = IF v = w THEN {staged'} ELSE Copy(v)
    BY ZenonT(40), <2>2, <2>3 DEF Copy
  <2>5. \A r \in staged' : ~Erased(erasing, r)
    BY ZenonT(40) DEF RewriteInstall
  <2>6. \A v \in Windows : v # w => Clean(v)' = Clean(v)
    BY Zenon, <2>2, <2>4 DEF Clean, Erased
  <2>7. \A v \in Windows : Current(v)' => v = w
    BY Zenon, <2>2, OneCurrent DEF Current
  <2>8. w \in todo /\ \A r \in staged' : ~Erased(erasing', r)
    BY ZenonT(40), <2>2, <2>5 DEF Current
  <2> QED
    BY ZenonT(40), <2>1, <2>2, <2>4, <2>6, <2>7, <2>8 DEF EraseInv, Overlapping, Sealed, Expiring, Rewriting, Erased
<1>6. ASSUME NEW w \in Windows, RewriteObject(w) PROVE EraseInv'
  <2> USE <1>6
  <2>1. pc = "replace" /\ pc' = "manifest" /\ proc' # "serve" /\ s3 /\ files[w] = {staged}
    BY ZenonT(40) DEF RewriteObject, ProcInv, Scanning, StepInv
  <2>2. UNCHANGED <<s3, manifest, erasing, ok, todo, staged>> /\ Current(w)
    BY ZenonT(40) DEF RewriteObject, state, config
  <2>3. \A v \in Windows : /\ objects'[v] = IF v = w THEN files[w] ELSE objects[v]
                           /\ files'[v] \in IF v = w THEN {files[w], {}} ELSE {files[v]}
    BY ZenonT(40) DEF RewriteObject, DataTypes
  <2>4. \A v \in Windows : Copy(v)' = Copy(v)
    BY ZenonT(40), <2>1, <2>2, <2>3 DEF Copy
  <2>5. \A v \in Windows : Clean(v)' = Clean(v) /\ Current(v)' = Current(v)
    BY Zenon, <2>2, <2>4 DEF Clean, Current
  <2> QED
    BY ZenonT(40), <2>1, <2>2, <2>4, <2>5 DEF EraseInv, Overlapping, Sealed, Expiring, Rewriting
<1>7. ASSUME NEW w \in Windows, RewriteManifest(w) PROVE EraseInv'
  <2> USE <1>7
  <2>1. pc = "manifest" /\ pc' \in {"certify", "rewrite"} /\ (pc' = "certify" => todo' = {}) /\ proc' # "serve" /\ todo' = todo \ {w}
    BY Zenon DEF RewriteManifest, RewriteNext, ProcInv, Scanning
  <2>2. UNCHANGED <<s3, Sealed, files, objects, erasing, ok>>
    BY ZenonT(40), SealedSame DEF RewriteManifest, cold, config
  <2>3. Clean(w)
    BY ZenonT(40) DEF EraseInv, RewriteManifest, Clean
  <2>4. \A v \in Windows : Clean(v)' = Clean(v)
    BY Zenon, <2>2 DEF Clean, Copy
  <2>5. \A t : Overlapping(t)' = Overlapping(t)
    BY Zenon, <2>2 DEF Overlapping
  <2>6. \A t : Overlapping(t) \subseteq Windows
    BY ZenonT(40) DEF Overlapping, Sealed
  <2> QED
    BY Zenon, <2>1, <2>2, <2>3, <2>4, <2>5, <2>6 DEF EraseInv, Expiring, Rewriting
<1>8. CASE Tick
  <2> USE <1>8
  <2>1. UNCHANGED <<s3, hot, manifest, files, objects, proc, pc, todo, staged, ok, erasing>>
    BY Zenon DEF Tick, table, state, cold, task
  <2> QED
    BY ZenonT(40), <2>1 DEF EraseInv, Overlapping, Sealed, Clean, Copy, Current
<1> USE RetentionAssumption DEF DataTypes, ProcInv, EraseInv, Clean, Copy, Overlapping, Sealed,
         Erased, Expiring, Rewriting, Scanning, Commanding, Current, config, table, state, cold,
         task, actor, bounds
<1>9. CASE run_once \/ PassFails
  BY ZenonT(40), <1>9 DEF run_once, nonempty_buckets, PassFails, Idle
<1>10. ASSUME NEW w \in Windows, sql_stream(w) \/ seal_file(w) \/ put_cold_archive(w) \/ upload(w) \/ Advance(w) PROVE EraseInv'
  BY ZenonT(40), <1>10 DEF sql_stream, seal_file, put_cold_archive, upload, Advance, set_cold_watermark_us,
         Larger
<1>11. ASSUME NEW r \in Rows, append(r) PROVE EraseInv'
  BY ZenonT(40), <1>11 DEF append, Late
<1>12. CASE build_prune_hook \/ compact_table \/ mark_cold_archives_hot_pruned \/ CompactionFails
  BY ZenonT(40), <1>12 DEF build_prune_hook, Held, compact_table, keep, mark_cold_archives_hot_pruned, NoHook,
         CompactionFails
<1>13. ASSUME NEW w \in Windows, download(w) PROVE EraseInv'
  BY ZenonT(40), <1>13 DEF download
<1>14. ASSUME NEW cutoff \in 1 .. now, Expire(cutoff) PROVE EraseInv'
  BY ZenonT(40), <1>14 DEF Expire, Command, expired_archives
<1>15. ASSUME NEW w \in Windows, record_admin_local(w) \/ delete_cold_archive_recorded(w) PROVE EraseInv'
  BY ZenonT(40), <1>15 DEF record_admin_local, delete_cold_archive_recorded, ExpireNext, Idle
<1>16. ASSUME NEW w \in Windows, NEW hold \in BOOLEAN, set_cold_legal_hold(w, hold) PROVE EraseInv'
  BY ZenonT(40), <1>16 DEF set_cold_legal_hold, Command
<1>17. ASSUME NEW t \in Predicates, Erase(t) PROVE EraseInv'
  BY ZenonT(40), <1>17 DEF Erase, Command
<1>18. CASE put_tombstone \/ erase_matching
  BY ZenonT(40), <1>18 DEF put_tombstone, erase_matching, ProcInv, Scanning
<1>19. ASSUME NEW w \in Windows, RewriteRefuses(w) PROVE EraseInv'
  BY ZenonT(40), <1>19 DEF RewriteRefuses, RewriteFails
<1>20. CASE RewriteError
  BY ZenonT(40), <1>20 DEF RewriteError, RewriteFails
<1>21. CASE Certify
  BY ZenonT(40), <1>21 DEF Certify, Idle
<1>22. CASE CommandFails \/ IndexReadOnly
  BY ZenonT(40), <1>22 DEF CommandFails, IndexReadOnly, Idle
<1>23. CASE Crash \/ Serve
  BY ZenonT(40), <1>23 DEF Crash, Idle, NoHook, Serve
<1>24. CASE UNCHANGED vars
  BY ZenonT(40), <1>24 DEF vars
<1> HIDE DEF DataTypes, ProcInv, EraseInv, Clean, Copy, Overlapping, Sealed, Erased, Expiring,
         Rewriting, Scanning, Commanding, Current, config, table, state, cold, task, actor, bounds
<1> QED
  BY ZenonT(40), <1>1, <1>2, <1>3, <1>4, <1>5, <1>6, <1>7, <1>8, <1>9, <1>10, <1>11, <1>12, <1>13, <1>14, <1>15,
         <1>16, <1>17, <1>18, <1>19, <1>20, <1>21, <1>22, <1>23, <1>24 DEF Next, Pass, Actor, Cli

-----------------------------------------------------------------------------
(* The theorems. *)

RetentionInv ==
    /\ DataTypes /\ RestTypes /\ ProcInv /\ StepInv /\ ObjectsReachable /\ KeptInv
    /\ PassInv /\ ArchivedBelowWatermark /\ MarkInv /\ PrunedIsGone /\ HoldInv /\ EraseInv

\* The invariant holds when retention is first enabled.
LEMMA InitHolds == Init => RetentionInv
<1> SUFFICES ASSUME Init PROVE RetentionInv
  BY Zenon
<1>1. DataTypes
  BY ZenonT(40), RetentionAssumption, OptionFacts DEF Init, DataTypes, NoHook
<1>7. RestTypes
  <2>1. now \in 0 .. MaxNow /\ commands \in 0 .. MaxCommands /\ faults \in 0 .. MaxFaults
    BY SMTT(40), RetentionAssumption DEF Init
  <2>2. deletions \in [Windows -> Option(BOOLEAN)] /\ erasing \in Option(Predicates)
    BY ZenonT(40), OptionFacts DEF Init
  <2> QED
    BY ZenonT(40), <2>1, <2>2 DEF Init, RestTypes, NoHook
<1>2. Sealed = {} /\ Held = {}
  BY ZenonT(40) DEF Init, Sealed, Held
<1>3. ProcInv /\ StepInv /\ ObjectsReachable /\ PassInv /\ MarkInv /\ PrunedIsGone /\ HoldInv
  BY ZenonT(40), <1>2 DEF Init, NoHook, ProcInv, StepInv, ObjectsReachable, PassInv, MarkInv, PrunedIsGone, HoldInv,
         Scanning, Expiring, Rewriting
<1>4. KeptInv
  BY ZenonT(40), <1>2 DEF Init, NoHook, KeptInv, WholeCopies, HotTogether, StagedWhole, Answered, Answerable
<1>5. ArchivedBelowWatermark
  <2>1. \A r \in Answerable : r.win \in Nat
    BY ZenonT(40), RetentionAssumption DEF Init, Answerable
  <2> QED
    BY SMTT(40), <2>1 DEF Init, ArchivedBelowWatermark
<1>6. EraseInv
  BY Zenon DEF Init, EraseInv, Erased, Expiring, Rewriting
<1> QED
  BY Zenon, <1>1, <1>3, <1>4, <1>5, <1>6, <1>7 DEF RetentionInv

\* The invariant holds in every reachable state.
THEOREM Invariance == Spec => []RetentionInv
<1>1. RetentionInv /\ [Next]_vars => RetentionInv'
  BY Zenon, DataStep, RestStep, ProcStep, StepStep, ObjectsStep, KeptStep, PassStep, MarkStep, HoldStep, EraseStep
     DEF RetentionInv
<1> QED
  BY InitHolds, <1>1, PTL DEF Spec

\* Every variable keeps its type.
THEOREM TypeCorrect == Spec => []TypeOK
<1>1. RetentionInv => TypeOK
  BY ZenonT(40) DEF RetentionInv, DataTypes, RestTypes, TypeOK, Scanning, Expiring, Rewriting, Commanding
<1> QED
  BY Invariance, <1>1, PTL

\* Whatever the interleaving of the retention pass, the compaction, cold queries
\* and commands, and wherever one fails or the process stops, no row is lost
\* before a command goes on to expire its window.
THEOREM NoRowLost == Spec => []RowsKept
<1>1. RetentionInv => RowsKept
  <2> SUFFICES ASSUME RetentionInv, NEW r \in Answerable, r \notin hot, r.win \notin Expired
               PROVE  r.win \in Sealed /\ \E c \in files[r.win] \cup objects[r.win] : r \in c
    BY ZenonT(40) DEF RowsKept
  <2>1. r.win \in Windows /\ r \in Answered(r.win)
    BY ZenonT(40), RetentionAssumption DEF RetentionInv, DataTypes, Answerable, Answered
  <2>2. r.win \in Sealed
    BY Zenon, <2>1 DEF RetentionInv, KeptInv, HotTogether
  <2> QED
    BY ZenonT(40), <2>1, <2>2 DEF RetentionInv, KeptInv, WholeCopies
<1> QED
  BY Invariance, <1>1, PTL

\* No pass moves the watermark past a row that is not archived.
THEOREM NothingSkipped == Spec => []ArchivedBelowWatermark
<1>1. RetentionInv => ArchivedBelowWatermark
  BY Zenon DEF RetentionInv
<1> QED
  BY Invariance, <1>1, PTL

\* The manifest reaches every object of the store.
THEOREM NoOrphanObject == Spec => []ObjectsReachable
<1>1. RetentionInv => ObjectsReachable
  BY Zenon DEF RetentionInv
<1> QED
  BY Invariance, <1>1, PTL

\* hot_pruned is never set for a window whose rows are still in the table.
THEOREM PrunedTruthful == Spec => []PrunedIsGone
<1>1. RetentionInv => PrunedIsGone
  BY ZenonT(40) DEF RetentionInv
<1> QED
  BY Invariance, <1>1, PTL

\* A certificate that says complete is true.
THEOREM CertificateTruthful == Spec => []CertificateTrue
<1>1. RetentionInv => CertificateTrue
  <2> SUFFICES ASSUME RetentionInv, pc = "idle", NEW r \in Rows, NEW t \in erasing, Matches(t, r)
               PROVE  r \notin hot /\ (r.win \in Sealed => \A c \in Copy(r.win) : r \notin c)
    BY Zenon DEF CertificateTrue, Erased
  <2>1. Erased(erasing, r)
    BY ZenonT(40) DEF Erased
  <2>2. r.win \in Nat /\ t.from \in Nat
    BY ZenonT(40), RetentionAssumption DEF RetentionInv, DataTypes
  <2>3. r.win \in Sealed => r.win \in Overlapping(t)
    BY <2>2 DEF Overlapping, Matches
  <2> QED
    BY Zenon, <2>1, <2>3 DEF RetentionInv, EraseInv, Clean
<1> QED
  BY Invariance, <1>1, PTL

\* One step of HoldStands.
HoldsStep ==
    /\ \A w \in Held \ Held' : commands' # commands \/ pc = "put"
    /\ \A r \in hot \ hot' : r.class /\ ~Erased(tombs, r) => r.win \notin Held

\* The steps that write neither the manifest nor the table.
LEMMA OtherSteps ==
    [Next]_vars =>
        \/ UNCHANGED <<manifest, hot>>
        \/ \E r \in Rows : append(r)
        \/ compact_table \/ mark_cold_archives_hot_pruned \/ erase_matching
        \/ \E w \in Windows : put_cold_archive(w) \/ delete_cold_archive_recorded(w) \/ RewriteManifest(w)
        \/ \E w \in Windows, hold \in BOOLEAN : set_cold_legal_hold(w, hold)
<1> USE DEF config, table, state, cold, task, actor, bounds
<1>1. run_once \/ Finish \/ PassFails \/ build_prune_hook \/ CompactionFails => UNCHANGED <<manifest, hot>>
  BY ZenonT(40) DEF run_once, Finish, PassFails, build_prune_hook, CompactionFails
<1>2. ASSUME NEW w \in Windows
      PROVE  sql_stream(w) \/ seal_file(w) \/ upload(w) \/ Advance(w) \/ download(w) => UNCHANGED <<manifest, hot>>
  BY ZenonT(40) DEF sql_stream, seal_file, upload, Advance, download
<1>3. ASSUME NEW w \in Windows
      PROVE  record_admin_local(w) \/ remove_file(w) \/ ExpireObject(w) => UNCHANGED <<manifest, hot>>
  BY ZenonT(40) DEF record_admin_local, remove_file, ExpireObject
<1>4. ASSUME NEW w \in Windows
      PROVE  RewriteRefuses(w) \/ RewriteSkips(w) \/ RewriteInstall(w) \/ RewriteObject(w)
                => UNCHANGED <<manifest, hot>>
  BY ZenonT(40) DEF RewriteRefuses, RewriteSkips, RewriteInstall, RewriteObject
<1>5. /\ \A cutoff \in 1 .. now : Expire(cutoff) => UNCHANGED <<manifest, hot>>
      /\ \A t \in Predicates : Erase(t) => UNCHANGED <<manifest, hot>>
  BY ZenonT(40) DEF Expire, Erase
<1>6. put_tombstone \/ IndexReadOnly \/ reindex_store \/ RewriteError \/ Certify \/ CommandFails
         => UNCHANGED <<manifest, hot>>
  BY ZenonT(40) DEF put_tombstone, IndexReadOnly, reindex_store, RewriteError, Certify, CommandFails
<1>7. Tick \/ Crash \/ Serve \/ UNCHANGED vars => UNCHANGED <<manifest, hot>>
  BY Zenon DEF Tick, Crash, Serve, vars
<1> QED
  BY Zenon, <1>1, <1>2, <1>3, <1>4, <1>5, <1>6, <1>7 DEF Next, Pass, Actor, Cli

\* No step but the hold command and a re-sealing lifts a hold, and no compaction
\* drops a class row of a held window.
THEOREM HoldsStand == Spec => HoldStands
<1>1. ASSUME RetentionInv, [Next]_vars PROVE HoldsStep
  <2> USE DEF RetentionInv, DataTypes
  <2>1. CASE UNCHANGED <<manifest, hot>>
    BY ZenonT(40), <2>1 DEF HoldsStep, Held
  <2>2. ASSUME NEW r \in Rows, append(r) PROVE HoldsStep
    BY ZenonT(40), <2>2 DEF append, state, HoldsStep, Held
  <2>3. CASE compact_table
    <3>1. Held' = Held /\ Held \subseteq hook.held /\ hook.tombs \subseteq tombs
      BY ZenonT(40), <2>3, <1>1 DEF compact_table, state, Held, HoldInv
    <3> QED
      BY ZenonT(40), <2>3, <3>1 DEF compact_table, keep, HoldsStep
  <2>4. CASE mark_cold_archives_hot_pruned
    <3>1. ASSUME NEW v \in Held PROVE v \in Held'
      <4>1. PICK a \in manifest[v] : a.hold
        BY ZenonT(40) DEF Held
      <4>2. manifest'[v] = manifest[v] \/ [rows |-> a.rows, hold |-> a.hold, pruned |-> TRUE] \in manifest'[v]
        <5>1. v \in Windows
          BY ZenonT(40) DEF Held, Sealed
        <5>2. manifest'[v] = IF v \in hook.ids
                             THEN {[rows |-> b.rows, hold |-> b.hold, pruned |-> TRUE] : b \in manifest[v]}
                             ELSE manifest[v]
          BY ZenonT(40), <2>4, <5>1 DEF mark_cold_archives_hot_pruned
        <5> QED
          BY ZenonT(40), <5>2, <4>1
      <4> QED
        BY ZenonT(40), <4>1, <4>2 DEF Held
    <3> QED
      BY ZenonT(40), <2>4, <3>1 DEF mark_cold_archives_hot_pruned, table, HoldsStep
  <2>5. CASE erase_matching
    BY ZenonT(40), <2>5 DEF erase_matching, state, HoldsStep, Held
  <2>6. ASSUME NEW w \in Windows, put_cold_archive(w) PROVE HoldsStep
    BY Zenon, <2>6 DEF put_cold_archive, table, HoldsStep
  <2>7. ASSUME NEW w \in Windows, delete_cold_archive_recorded(w) PROVE HoldsStep
    <3>1. w \notin Held
      BY ZenonT(40), <2>7, <1>1 DEF delete_cold_archive_recorded, HoldInv, Expiring, Current
    <3>2. Held \subseteq Held' /\ hot' = hot
      BY ZenonT(40), <2>7, <3>1, <1>1 DEF delete_cold_archive_recorded, table, Held
    <3> QED
      BY ZenonT(40), <3>2 DEF HoldsStep
  <2>8. ASSUME NEW w \in Windows, RewriteManifest(w) PROVE HoldsStep
    <3>1. ASSUME NEW v \in Held PROVE v \in Held'
      <4>1. PICK a \in manifest[v] : a.hold
        BY ZenonT(40) DEF Held
      <4>2. manifest'[v] = manifest[v] \/ [rows |-> staged, hold |-> a.hold, pruned |-> a.pruned] \in manifest'[v]
        BY Zenon, <2>8, <4>1, <1>1 DEF RewriteManifest, Held
      <4> QED
        BY ZenonT(40), <4>1, <4>2 DEF Held
    <3> QED
      BY ZenonT(40), <2>8, <3>1 DEF RewriteManifest, table, HoldsStep
  <2>9. ASSUME NEW w \in Windows, NEW hold \in BOOLEAN, set_cold_legal_hold(w, hold) PROVE HoldsStep
    <3>1. commands' = commands + 1 /\ hot' = hot
      BY ZenonT(40), <2>9 DEF set_cold_legal_hold, Command, table
    <3>2. commands \in 0 .. MaxCommands
      BY ZenonT(40), <1>1 DEF RestTypes
    <3>3. commands' # commands
      BY <3>1, <3>2, RetentionAssumption
    <3> QED
      BY ZenonT(40), <3>1, <3>3 DEF HoldsStep
  <2> QED
    BY ZenonT(40), <1>1, <2>1, <2>2, <2>3, <2>4, <2>5, <2>6, <2>7, <2>8, <2>9, OtherSteps
<1>2. RetentionInv /\ [Next]_vars => [HoldsStep]_vars
  BY Zenon, <1>1
<1> QED
  BY Invariance, <1>2, PTL DEF Spec, HoldStands, HoldsStep
=============================================================================
