---------------------------- MODULE ConfigStore ----------------------------
(***************************************************************************)
(* The console's configuration changes: validated against what a restart   *)
(* would load, recorded as a numbered revision and then installed as the   *)
(* override file (garmr-cli/src/config_store.rs and api/config.rs).  The   *)
(* base document may be edited by hand at any time, a write may fail and   *)
(* the process may stop between any two of them.                           *)
(***************************************************************************)
EXTENDS Naturals, FiniteSets

CONSTANTS Bases,         \* base documents, the environment included
          Bodies,        \* override documents, up to their effect
          Empty,         \* the document of a missing override file
          Accepts,       \* Accepts[b]: the overrides that are valid over base b
          Editors,       \* requests that may be in flight at once
          MaxRevisions,  \* bound on revision files
          MaxEdits,      \* bound on edits of the base document
          MaxMishaps    \* bound on failed writes and stops

ASSUME EveryBaseBoots == Empty \in Bodies /\ \A b \in Bases : Empty \in Accepts[b]

VARIABLES base,       \* the base document on disk
          override,   \* the override file's body
          revisions,  \* config-revisions/: one record per file, torn ones included
          edit,       \* edit[a]: what a request is about to do
          guard,      \* who holds apply_lock
          up,         \* serve runs
          edits, mishaps,
          cut,        \* a revision was recorded and not installed
          checkedAt   \* the value of `edits' when the override was validated

configVars == <<base, override, revisions, edit, guard, up, edits, mishaps, cut, checkedAt>>

NoEdit == [at |-> "idle", body |-> Empty, seq |-> 0, checked |-> 0, parent |-> {}]

ConfigInit ==
    /\ base \in Bases
    /\ override = Empty /\ up = TRUE
    /\ revisions = {}
    /\ edit = [a \in Editors |-> NoEdit]
    /\ guard = {}
    /\ edits = 0 /\ mishaps = 0
    /\ cut = FALSE /\ checkedAt = 0

(* list: the files that parse.  latest: the last of them, if any.          *)
list == {r \in revisions : ~r.torn}
latest == {r \in list : \A q \in list : q.seq <= r.seq}

(* next_seq goes by file name, so that a torn file keeps its number.       *)
next_seq(n) ==
    /\ \A r \in revisions : r.seq < n
    /\ n > 1 => \E r \in revisions : r.seq = n - 1

(* validate_override against the base document as it is now.               *)
validate_override(body) == body \in Accepts[base]

Begin(a, body) ==
    /\ up /\ edit[a].at = "idle" /\ Cardinality(revisions) < MaxRevisions
    /\ edit' = [edit EXCEPT ![a] = [at |-> "enter", body |-> body, seq |-> 0,
                                    checked |-> edits, parent |-> {}]]
    /\ UNCHANGED <<base, override, revisions, guard, up, edits, mishaps, cut, checkedAt>>

(* config_apply refuses what is not valid, and what changes nothing over   *)
(* the override that is installed now.                                     *)
config_apply(a, body) == validate_override(body) /\ body # override /\ Begin(a, body)

(* Mutant of config_rollback: the body is not validated again.             *)
RollbackAsStored(a) == \E r \in list : Begin(a, r.body)

(* config_rollback: the body of an earlier revision, validated again.      *)
config_rollback(a) == \E r \in list : validate_override(r.body) /\ Begin(a, r.body)

(* RevisionStore::apply, under its lock, takes the next number and the     *)
(* hash of the latest revision.                                            *)
EnterApply(a) ==
    /\ edit[a].at = "enter" /\ guard = {}
    /\ guard' = {a}
    /\ \E n \in 1 .. Cardinality(revisions) + 1 :
          /\ next_seq(n)
          /\ edit' = [edit EXCEPT ![a] = [at |-> "record", body |-> edit[a].body, seq |-> n,
                                          checked |-> edit[a].checked,
                                          parent |-> {r.body : r \in latest}]]
    /\ UNCHANGED <<base, override, revisions, up, edits, mishaps, cut, checkedAt>>

Leave(a) == edit' = [edit EXCEPT ![a] = NoEdit] /\ guard' = guard \ {a}

(* Mutant of write_new_private: the lock is let go after the record.       *)
RecordUnlocked(a) ==
    /\ edit[a].at = "record"
    /\ revisions' = revisions \cup {[seq |-> edit[a].seq, parent |-> edit[a].parent,
                                     body |-> edit[a].body, torn |-> FALSE]}
    /\ edit' = [edit EXCEPT ![a].at = "swap"]
    /\ guard' = {}
    /\ UNCHANGED <<base, override, up, edits, mishaps, cut, checkedAt>>

(* write_new_private: create_new, so the number must be free (it is: see   *)
(* NumberIsFree; otherwise the request would fail).                        *)
write_new_private(a) ==
    /\ edit[a].at = "record"
    /\ \A r \in revisions : r.seq # edit[a].seq
    /\ revisions' = revisions \cup {[seq |-> edit[a].seq, parent |-> edit[a].parent,
                                     body |-> edit[a].body, torn |-> FALSE]}
    /\ edit' = [edit EXCEPT ![a].at = "swap"]
    /\ UNCHANGED <<base, override, guard, up, edits, mishaps, cut, checkedAt>>

(* write_atomic replaces the override, and the lock is released.  The      *)
(* audit record comes after: when it fails, so does the request, and the   *)
(* change stands.                                                          *)
write_atomic(a) ==
    /\ edit[a].at = "swap"
    /\ override' = edit[a].body
    /\ checkedAt' = edit[a].checked
    /\ cut' = FALSE
    /\ Leave(a)
    /\ UNCHANGED <<base, revisions, up, edits, mishaps>>

(* What is left when a request ends before its time: a file that was begun *)
(* may hold nothing, some or all of its record.                            *)
Abandoned(A) ==
    \/ /\ UNCHANGED revisions
       /\ cut' = (cut \/ \E a \in A : edit[a].at = "swap")
    \/ \E a \in A, torn \in BOOLEAN :
          /\ edit[a].at = "record"
          /\ \A r \in revisions : r.seq # edit[a].seq
          /\ revisions' = revisions \cup {[seq |-> edit[a].seq, parent |-> edit[a].parent,
                                           body |-> edit[a].body, torn |-> torn]}
          /\ cut' = (cut \/ ~torn)

(* One of the two writes fails: the request does, and the lock is free.    *)
WriteFails(a) ==
    /\ edit[a].at \in {"record", "swap"} /\ mishaps < MaxMishaps
    /\ mishaps' = mishaps + 1
    /\ Abandoned({a})
    /\ Leave(a)
    /\ UNCHANGED <<base, override, up, edits, checkedAt>>

(* serve stops, at any point.                                              *)
ServeStops ==
    /\ up /\ mishaps < MaxMishaps
    /\ mishaps' = mishaps + 1
    /\ Abandoned(Editors)
    /\ edit' = [a \in Editors |-> NoEdit] /\ guard' = {}
    /\ up' = FALSE
    /\ UNCHANGED <<base, override, edits, checkedAt>>

(* serve starts on what is on disk.  What the console recorded always      *)
(* parses; over another base it may fail the startup checks.               *)
ServeStarts ==
    /\ ~up /\ validate_override(override)
    /\ up' = TRUE
    /\ UNCHANGED <<base, override, revisions, edit, guard, edits, mishaps, cut, checkedAt>>

(* Someone edits the base document.                                        *)
EditBase ==
    /\ edits < MaxEdits
    /\ edits' = edits + 1
    /\ base' \in Bases \ {base}
    /\ UNCHANGED <<override, revisions, edit, guard, up, mishaps, cut, checkedAt>>

ConfigNext ==
    \/ \E a \in Editors : \/ \E body \in Bodies : config_apply(a, body)
                          \/ config_rollback(a)
                          \/ EnterApply(a)
                          \/ write_new_private(a)
                          \/ write_atomic(a)
                          \/ WriteFails(a)
    \/ ServeStops
    \/ ServeStarts
    \/ EditBase

ConfigSpec == ConfigInit /\ [][ConfigNext]_configVars

-----------------------------------------------------------------------------
(* The readable history is one line: each revision names the one before it *)
(* as its parent, the revisions that were recorded and never installed     *)
(* included, and a file that was left torn is passed over.                 *)
ChainHolds ==
    \A r \in list :
        r.parent = {p.body : p \in {q \in list : /\ q.seq < r.seq
                                                 /\ \A o \in list : o.seq < r.seq => o.seq <= q.seq}}

(* The active override is the latest revision, as config_revisions and     *)
(* Revision::seq assume, unless an apply got no further than its record;   *)
(* whatever else overlaps, fails or stops, and the next complete one heals *)
(* that.                                                                   *)
ActiveIsLatest ==
    (~cut /\ guard = {}) =>
        override \in IF latest = {} THEN {Empty} ELSE {r.body : r \in latest}

(* A file that was left torn never stands in the way of a later apply: the *)
(* number that was taken under the lock is free when the file is created.  *)
NumberIsFree ==
    \A a \in Editors : edit[a].at = "record" => \A r \in revisions : r.seq # edit[a].seq

(* The console never installs an override the next start would choke on:   *)
(* what is on disk is valid over the base document, unless that was edited *)
(* after the request was validated.                                        *)
BootsAgain == checkedAt = edits => override \in Accepts[base]
=============================================================================
