----------------------------- MODULE EnvCursor -----------------------------
(***************************************************************************)
(* The cursors that walk the warehouse for the environment model: the      *)
(* learner (env_learn_loop) and the detector (env_detect_loop) in          *)
(* garmr-cli/src/pipeline.rs.  Each keeps a durable watermark, reads the   *)
(* oldest SCAN events strictly after it and moves the watermark to the     *)
(* newest event time of the page, or one microsecond short of it when the  *)
(* page is full.  The learner moves the watermark BEFORE it takes the page *)
(* in, the detector after.  Events keep arriving meanwhile, not always in  *)
(* the order of their timestamps.  The two loops share nothing but the     *)
(* warehouse, so a behaviour follows one of them.                          *)
(***************************************************************************)
EXTENDS Naturals, FiniteSets

CONSTANTS CursorEvents, \* the events that arrive
          Stamp,       \* the event_ts of each, from 1 up
          SCAN,        \* the page size
          MaxCursorFaults    \* bound on crashes and on watermarks that fail to save

ASSUME CursorAssumption ==
    /\ IsFiniteSet(CursorEvents)
    /\ Stamp \in [CursorEvents -> Nat \ {0}]
    /\ SCAN \in Nat \ {0}

VARIABLES loop,        \* which loop this is: "learn" or "detect"
          arrived,     \* events in the warehouse
          wm,          \* the watermark: {} until it is seeded, then its one value
          phase,       \* asleep, or which half of a page it is in
          page,        \* the events of the page still to take in
          reach,       \* the watermark the page in hand will leave behind
          taken,       \* taken[e]: how often e was taken in (durable)
          late,        \* events that arrived behind the cursor
          unsaved,     \* watermarks that could not be saved
          halts        \* how often the daemon has stopped

cursorVars == <<loop, arrived, wm, phase, page, reach, taken, late, unsaved, halts>>

(* A new deployment has no watermark; one that ran before has one.         *)
CursorInit ==
    /\ loop \in {"learn", "detect"}
    /\ wm \in {{}, {0}}
    /\ arrived = {} /\ page = {} /\ late = {}
    /\ phase = "asleep"
    /\ reach = 0
    /\ taken = [e \in CursorEvents |-> 0]
    /\ unsaved = 0 /\ halts = 0

(* An event is stored.  It comes too late when the loop's last query has   *)
(* gone past its timestamp.                                                *)
Arrive(e) ==
    /\ e \notin arrived
    /\ arrived' = arrived \cup {e}
    /\ late' = IF wm # {} /\ Stamp[e] <= reach THEN late \cup {e} ELSE late
    /\ UNCHANGED <<loop, wm, phase, page, reach, taken, unsaved, halts>>

(* max_event_ts_us                                                         *)
MaxStamp(S) == Stamp[CHOOSE e \in S : \A d \in S : Stamp[d] <= Stamp[e]]

(* set_env_learn_watermark_us and set_env_detect_watermark_us: a lower     *)
(* value is ignored.                                                       *)
SetWatermark(us) == wm' = IF \A w \in wm : us > w THEN {us} ELSE wm

(* The first tick seeds the watermark to the newest event and skips what   *)
(* is there; with no event yet it leaves it unset.                         *)
Seed ==
    /\ phase = "asleep" /\ wm = {} /\ arrived # {}
    /\ SetWatermark(MaxStamp(arrived))
    /\ reach' = MaxStamp(arrived)
    /\ late' = arrived
    /\ UNCHANGED <<loop, arrived, phase, page, taken, unsaved, halts>>

(* WHERE event_ts > watermark                                              *)
After(w) == {e \in arrived : Stamp[e] > w}

(* ORDER BY event_ts ASC LIMIT SCAN: which events of one timestamp make it *)
(* into a full page is not determined.                                     *)
IsPage(P, S) ==
    /\ P \subseteq S
    /\ Cardinality(P) = IF Cardinality(S) < SCAN THEN Cardinality(S) ELSE SCAN
    /\ \A e \in P, d \in S \ P : Stamp[e] <= Stamp[d]

(* Mutant of NextWatermark: a full page moves to its newest event.         *)
NextWatermarkToMax(P) == MaxStamp(P)

(* The watermark a page leaves behind: a full page may have cut a group of *)
(* events with one timestamp in two, so it stops one short.                *)
NextWatermark(P) ==
    IF Cardinality(P) >= SCAN THEN MaxStamp(P) - 1 ELSE MaxStamp(P)

(* Mutant of Scan: a page that is not full is left for later.              *)
ScanFullPages ==
    /\ phase = "asleep"
    /\ \E w \in wm, P \in SUBSET arrived :
          /\ Cardinality(P) >= SCAN /\ IsPage(P, After(w))
          /\ page' = P
          /\ reach' = IF NextWatermark(P) > w THEN NextWatermark(P) ELSE w
    /\ phase' = IF loop = "learn" THEN "saving" ELSE "taking"
    /\ UNCHANGED <<loop, arrived, wm, taken, late, unsaved, halts>>

(* A tick that finds something reads a page; the learner goes on to its    *)
(* watermark, the detector to the events.                                  *)
Scan ==
    /\ phase = "asleep"
    /\ \E w \in wm, P \in SUBSET arrived :
          /\ P # {} /\ IsPage(P, After(w))
          /\ page' = P
          /\ reach' = IF NextWatermark(P) > w THEN NextWatermark(P) ELSE w
    /\ phase' = IF loop = "learn" THEN "saving" ELSE "taking"
    /\ UNCHANGED <<loop, arrived, wm, taken, late, unsaved, halts>>

(* The watermark is saved.  A failure is logged and the loop goes on.      *)
Save ==
    /\ phase = "saving"
    /\ \/ SetWatermark(reach) /\ UNCHANGED unsaved
       \/ /\ unsaved + halts < MaxCursorFaults
          /\ unsaved' = unsaved + 1
          /\ UNCHANGED wm
    /\ phase' = IF loop = "learn" THEN "taking" ELSE "asleep"
    /\ UNCHANGED <<loop, arrived, page, reach, taken, late, halts>>

(* One event of the page: the learner appends its observations and bumps   *)
(* their sighting counters, the detector puts its findings and routes them *)
(* to the cases.                                                           *)
Take(e) ==
    /\ phase = "taking" /\ e \in page
    /\ taken' = [taken EXCEPT ![e] = @ + 1]
    /\ page' = page \ {e}
    /\ phase' = IF page' # {} THEN "taking"
                ELSE IF loop = "learn" THEN "asleep" ELSE "saving"
    /\ UNCHANGED <<loop, arrived, wm, reach, late, unsaved, halts>>

(* The daemon stops and comes back: watermarks, counters and findings are  *)
(* durable, the page in hand is not.                                       *)
CursorCrash ==
    /\ unsaved + halts < MaxCursorFaults
    /\ halts' = halts + 1
    /\ phase' = "asleep"
    /\ page' = {}
    /\ reach' \in IF wm = {} THEN {0} ELSE wm
    /\ UNCHANGED <<loop, arrived, wm, taken, late, unsaved>>

LoopStep == Seed \/ Scan \/ Save \/ \E e \in CursorEvents : Take(e)

CursorNext ==
    \/ \E e \in CursorEvents : Arrive(e)
    \/ LoopStep
    \/ CursorCrash

(* The loop sleeps a bounded time between ticks and never returns.         *)
CursorSpec == CursorInit /\ [][CursorNext]_cursorVars /\ WF_cursorVars(LoopStep)

-----------------------------------------------------------------------------
PassedOver ==
    {e \in arrived \ late : taken[e] = 0 /\ \E w \in wm : Stamp[e] <= w}

(* Neither loop passes an event over: what its durable watermark has gone  *)
(* by was taken in, unless it arrived behind the cursor.  The detector     *)
(* keeps to this across crashes, because its watermark moves only once the *)
(* whole page is handled; the learner, which saves its watermark first,    *)
(* loses the page in hand to a crash and nothing else.  Groups of one      *)
(* timestamp may be of any size: a full page stops one short, the boundary *)
(* guard of env_detect_loop and env_learn_loop.                            *)
NothingPassedOver ==
    \/ PassedOver \subseteq page
    \/ loop = "learn" /\ halts > 0

(* Both loops catch up: again and again there is no event left that came   *)
(* ahead of the cursor and was not taken in, but for the learner's page    *)
(* that went with a crash.  A full page that advances by nothing would     *)
(* stall the loop for good.                                                *)
CursorCatchesUp ==
    []<>(\/ \A e \in arrived \ late : wm # {} => taken[e] > 0
         \/ loop = "learn" /\ halts > 0)
=============================================================================
