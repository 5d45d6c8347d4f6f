------------------------------- MODULE Turns -------------------------------
(***************************************************************************)
(* The turns of one session: how attribution.rs and session.rs cut its     *)
(* output into turns, stamp their opening time, and charge to each the     *)
(* files the watcher saw change.                                           *)
(*                                                                         *)
(* Bytes are counted.  A turn is closed by the end of a chunk that holds   *)
(* an OSC 133 "command finished" marker, by an app checkpoint (the user's, *)
(* or the one before an inbox delivery), or by the quiet check of the      *)
(* maintenance tick.  All three, and the watcher's insertion, are critical *)
(* sections of the state mutex; the watcher's store write and its push to  *)
(* the client follow outside it.  A failed store write is not modelled.    *)
(***************************************************************************)
EXTENDS Integers, Sequences

CONSTANTS
  Paths,    \* the files of the worktree
  NoTime,   \* turn_started_unix = None
  MaxOut,   \* bound of the model: bytes the agent writes
  MaxTime   \* bound of the model: ticks of the wall clock

ASSUME TurnsAssumption == NoTime \notin Nat /\ MaxOut \in Nat /\ MaxTime \in Nat

VARIABLES
  out, turnStart, epoch, cause, sawOutput,  \* SessionState.out_offset and its Attribution
  openedAt, turnDirty, turns,               \* turn_started_unix, turn_dirty, the rows of record_turn
  turnPaths, allPaths,                      \* fs_turn_dirty, fs_all_dirty
  batch, push, events, pushed,              \* the watcher's callback; the fs rows; the client's dirty list
  clock, idle,                              \* wall clock; last_output is older than the quiet window
  eof, dead, inMap, gc,                     \* the end of the session, and the maintenance tick
  stamp, notes,                             \* history: when each byte was published, what each turn was told
  cleared                                   \* history: what a clear took out of the open turn

attrVars  == <<out, turnStart, epoch, cause, sawOutput, openedAt, turnDirty, turns>>
fsVars    == <<turnPaths, allPaths>>
watchVars == <<batch, push, events, pushed>>
endVars   == <<eof, dead, inMap, gc>>
vars == <<attrVars, fsVars, watchVars, clock, idle, endVars, stamp, notes, cleared>>

Causes == {"session_start", "osc133", "app_checkpoint", "quiet_window"}
Times  == Nat \cup {NoTime}

Turn == [epoch : Nat, start : Nat, end : Nat, started : Causes, ended : Causes,
         at : Nat, paths : SUBSET Paths]

Init ==
  /\ out = 0 /\ turnStart = 0 /\ epoch = 0 /\ cause = "session_start" /\ sawOutput = FALSE
  /\ openedAt = NoTime /\ turnDirty = FALSE /\ turns = <<>>
  /\ turnPaths = {} /\ allPaths = {}
  /\ batch = {} /\ push = {} /\ events = {} /\ pushed = {}
  /\ clock = 0 /\ idle = FALSE
  /\ eof = FALSE /\ dead = FALSE /\ inMap = TRUE /\ gc = "idle"
  /\ stamp = <<>> /\ notes = {} /\ cleared = {}

-----------------------------------------------------------------------------
(* Closing a turn.                                                         *)

Opened == IF openedAt = NoTime THEN clock ELSE openedAt

\* What the set of noted paths and the opening time become when a turn closes:
\* the next turn opens with its first output, not with the boundary.
PathsKept == turnPaths
PathsDrained == {}
OpenedByNobody == NoTime

\* close_turn, drain_turn_paths and persist_turn.
CloseTurn(end, why) ==
  /\ turns' = Append(turns, [epoch |-> epoch, start |-> turnStart, end |-> end,
                             started |-> cause, ended |-> why, at |-> Opened, paths |-> turnPaths])
  /\ epoch' = epoch + 1 /\ turnStart' = end /\ cause' = why /\ sawOutput' = FALSE
  /\ openedAt' = OpenedByNobody
  /\ turnPaths' = PathsDrained

\* The reader publishes n bytes.  However many command-finished markers the
\* chunk holds, they close one turn, at the end of the chunk.
Publish(n, finished) ==
  /\ ~eof /\ out + n <= MaxOut
  /\ out' = out + n
  /\ stamp' = [i \in 1..(out + n) |-> IF i <= out THEN stamp[i] ELSE clock]
  /\ turnDirty' = TRUE /\ idle' = FALSE
  /\ IF finished
       THEN CloseTurn(out + n, "osc133")
       ELSE /\ sawOutput' = TRUE /\ openedAt' = Opened
            /\ UNCHANGED <<turns, epoch, turnStart, cause, turnPaths>>
  /\ UNCHANGED <<allPaths, watchVars, clock, endVars, notes, cleared>>

AnythingNewYet == TRUE
AnythingNew == out > turnStart \/ sawOutput

\* A checkpoint with nothing to close only re-attributes the open turn's start.
\* An attached connection may send one after the session was swept.
Checkpoint ==
  /\ IF AnythingNew
       THEN CloseTurn(out, "app_checkpoint") /\ turnDirty' = FALSE
       ELSE /\ cause' = "app_checkpoint"
            /\ UNCHANGED <<turns, epoch, turnStart, sawOutput, openedAt, turnDirty, turnPaths>>
  /\ UNCHANGED <<out, allPaths, watchVars, clock, idle, endVars, stamp, notes, cleared>>

-----------------------------------------------------------------------------
(* The maintenance tick: the dead are swept, the exited reaped, the rest   *)
(* quiet-checked.                                                          *)

GcSweep ==
  /\ gc = "idle" /\ dead /\ inMap
  /\ inMap' = FALSE
  /\ UNCHANGED <<attrVars, fsVars, watchVars, clock, idle, eof, dead, gc, stamp, notes, cleared>>

\* reap_if_exited finds the leader gone, its last output perhaps still unread.
GcReap ==
  /\ gc = "idle" /\ ~dead
  /\ dead' = TRUE
  /\ UNCHANGED <<attrVars, fsVars, watchVars, clock, idle, eof, inMap, gc, stamp, notes, cleared>>

GcFindsAlive ==
  /\ gc = "idle" /\ ~dead
  /\ gc' = "quiet"
  /\ UNCHANGED <<attrVars, fsVars, watchVars, clock, idle, eof, dead, inMap, stamp, notes, cleared>>

QuietDirtyReset == IF idle THEN turnDirty ELSE FALSE
QuietDirty == turnDirty

GcQuietCheck ==
  /\ gc = "quiet"
  /\ gc' = "idle"
  /\ IF turnDirty /\ idle /\ sawOutput /\ out > turnStart
       THEN CloseTurn(out, "quiet_window") /\ turnDirty' = FALSE
       ELSE turnDirty' = QuietDirty
            /\ UNCHANGED <<turns, epoch, turnStart, cause, sawOutput, openedAt, turnPaths>>
  /\ UNCHANGED <<out, allPaths, watchVars, clock, idle, eof, dead, inMap, stamp, notes, cleared>>

\* The reader reaches end of file and announces the exit.
ReaderEof ==
  /\ ~eof
  /\ eof' = TRUE /\ dead' = TRUE
  /\ UNCHANGED <<attrVars, fsVars, watchVars, clock, idle, inMap, gc, stamp, notes, cleared>>

QuietWindowPasses ==
  /\ ~idle
  /\ idle' = TRUE
  /\ UNCHANGED <<attrVars, fsVars, watchVars, clock, endVars, stamp, notes, cleared>>

ClockTicks ==
  /\ clock < MaxTime
  /\ clock' = clock + 1
  /\ UNCHANGED <<attrVars, fsVars, watchVars, idle, endVars, stamp, notes, cleared>>

-----------------------------------------------------------------------------
(* The file watcher's callback, and the app's "reviewed the diff".         *)

\* note_fs_changes under the lock; the list to push is copied if it grew and
\* a client is attached.
NoteChanges(b, attached) ==
  /\ batch = {}
  /\ batch' = b
  /\ turnPaths' = turnPaths \cup b
  /\ allPaths' = allPaths \cup b
  /\ push' = IF attached /\ ~(b \subseteq allPaths) THEN allPaths' ELSE {}
  /\ notes' = notes \cup {<<p, epoch>> : p \in b}
  /\ UNCHANGED <<attrVars, events, pushed, clock, idle, endVars, stamp, cleared>>

\* ... then, unlocked, record_fs_events and the push to the client.
RecordAndPush ==
  /\ batch # {}
  /\ events' = events \cup batch
  /\ pushed' = IF push = {} THEN pushed ELSE push
  /\ batch' = {} /\ push' = {}
  /\ UNCHANGED <<attrVars, fsVars, clock, idle, endVars, stamp, notes, cleared>>

ClearedBadgeOnly == [turn |-> turnPaths, all |-> {}]
Cleared == [turn |-> {}, all |-> {}]

\* clear_fs_dirty empties the badge and the open turn's set at once, so no turn will list what
\* was in both; the client forgets its own list as it asks for it.
ClearDirty ==
  /\ inMap
  /\ turnPaths' = Cleared.turn /\ allPaths' = Cleared.all
  /\ pushed' = {}
  /\ notes' = {n \in notes : n[2] < epoch} /\ cleared' = cleared \cup turnPaths
  /\ UNCHANGED <<attrVars, batch, push, events, clock, idle, endVars, stamp>>

-----------------------------------------------------------------------------
Gc == GcSweep \/ GcReap \/ GcFindsAlive \/ GcQuietCheck

Next ==
  \/ \E n \in 1..MaxOut, finished \in BOOLEAN : Publish(n, finished)
  \/ Checkpoint \/ Gc \/ ReaderEof \/ QuietWindowPasses \/ ClockTicks
  \/ \E b \in SUBSET Paths \ {{}}, attached \in BOOLEAN : NoteChanges(b, attached)
  \/ RecordAndPush \/ ClearDirty

Spec == Init /\ [][Next]_vars

\* The maintenance tick keeps running, and time passes.
TickFairness ==
  /\ WF_vars(GcFindsAlive) /\ WF_vars(GcQuietCheck) /\ WF_vars(GcSweep)
  /\ WF_vars(QuietWindowPasses)

TickSpec == Spec /\ TickFairness

-----------------------------------------------------------------------------
(* Properties.                                                             *)

TypeOK ==
  /\ out \in 0..MaxOut /\ turnStart \in 0..out /\ epoch \in Nat
  /\ cause \in Causes /\ sawOutput \in BOOLEAN /\ openedAt \in Times /\ turnDirty \in BOOLEAN
  /\ turns \in Seq(Turn) /\ epoch = Len(turns)
  /\ turnPaths \subseteq Paths /\ allPaths \subseteq Paths
  /\ batch \subseteq Paths /\ push \subseteq Paths /\ events \subseteq Paths /\ pushed \subseteq Paths
  /\ clock \in 0..MaxTime /\ idle \in BOOLEAN
  /\ eof \in BOOLEAN /\ dead \in BOOLEAN /\ inMap \in BOOLEAN /\ gc \in {"idle", "quiet"}
  /\ stamp \in Seq(Nat) /\ Len(stamp) = out
  /\ notes \subseteq Paths \X (0..epoch) /\ cleared \subseteq Paths

\* The recorded turns tile the output before the open turn: numbered from 0
\* in order, each starting where the last ended, none of them empty, whichever
\* of the reader, the app and the tick closed them.
Tiling ==
  /\ \A i \in 1..Len(turns) :
       /\ turns[i].epoch = i - 1
       /\ turns[i].start < turns[i].end /\ turns[i].end <= turnStart
       /\ turns[i].start = IF i = 1 THEN 0 ELSE turns[i - 1].end
  /\ turnStart = IF turns = <<>> THEN 0 ELSE turns[Len(turns)].end

\* Three records of one fact, kept by three functions, agree at every moment:
\* the open turn has bytes, saw_output is set, and an opening time is stored.
OpenTurnAgrees ==
  /\ sawOutput <=> out > turnStart
  /\ openedAt # NoTime <=> out > turnStart

\* A turn's recorded opening time is the moment of its first byte, never the
\* boundary before it, however long the prompt sat idle between the two.
StartedAtFirstByte ==
  /\ \A i \in 1..Len(turns) : turns[i].at = stamp[turns[i].start + 1]
  /\ out > turnStart => openedAt = stamp[turnStart + 1]

\* A change the watcher noted while a turn was the open one is listed in that
\* turn's row and in no other, unless the user cleared it before the turn closed.
PathsChargedOnce ==
  /\ \A i \in 1..Len(turns) : turns[i].paths = {p \in Paths : <<p, i - 1>> \in notes}
  /\ turnPaths = {p \in Paths : <<p, epoch>> \in notes}

TurnRowPaths == UNION {turns[i].paths : i \in 1..Len(turns)}

\* The badge lists only what the open turn or a turn's row lists, and all that
\* the open turn lists; what a clear took out of the open turn, which no turn
\* will list, is not lost either: like every path a turn or the badge lists, it
\* has its fs event, or the callback that noted it still holds it.  What is
\* pushed to the app has its fs event by then.
BadgeAccounted ==
  /\ allPaths \subseteq turnPaths \cup TurnRowPaths
  /\ turnPaths \subseteq allPaths
  /\ allPaths \cup TurnRowPaths \cup cleared \subseteq events \cup batch
  /\ push \subseteq events \cup batch /\ pushed \subseteq events

\* A burst of output that stops is closed as a turn by the maintenance tick,
\* unless the session ends first.
QuietOutputCloses == <>[](dead \/ out = turnStart)
=============================================================================
