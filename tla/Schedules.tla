----------------------------- MODULE Schedules -----------------------------
(***************************************************************************)
(* Cron schedules: the rows of the flows table, the .md files they are     *)
(* read from when the daemon starts, the tick that fires what is due       *)
(* (manager.rs check_schedules, fire_schedule), and the user's calls.      *)
(*                                                                         *)
(* Every tick of the clock is an instant of every cron expression, so the  *)
(* next instant is the next tick.  The tick works on copies of the rows;   *)
(* each statement of the store is a step of its own, with the instant it   *)
(* stores when that is computed on the line before; create_schedule        *)
(* computes it before it writes the file.                                  *)
(***************************************************************************)
EXTENDS Integers, FiniteSets

CONSTANTS
  Names,        \* names of schedules; each has a file name of its own
  Checks,       \* blocking threads of check_schedules
  Handlers,     \* threads that serve the user's calls
  Def,          \* definitions: has it a gate script, does it make a task for every run
  NoRow,        \* no row, no file
  MaxClock,     \* bound of the model: instants
  MaxFaults,    \* bound of the model: writes and removals that fail
  MaxCrashes    \* bound of the model: crashes of the daemon


VARIABLES
  clock, up,            \* the time, and whether the daemon runs
  file, row,            \* each schedule's .md file and its row
  checking,             \* schedules_checking
  job,                  \* what each thread is doing
  faults, crashes,
  wanted,               \* history: schedules that the user's last word on them has on
  leftover,             \* history: schedules whose deletion left a file, or met a creation half done
  settled,              \* history: per schedule, the last instant the tick fired or gave up
  excused,              \* history: schedules with a claim that failed, or switched on, edited
                        \* or started up while past due
  loose, strays         \* history: per-run tasks without an agent, and those nobody takes back

book == <<file, row>>
history == <<wanted, leftover, settled, excused, loose, strays>>
vars == <<clock, up, book, checking, job, faults, crashes, history>>

-----------------------------------------------------------------------------
Threads == Checks \cup Handlers
Instants == 0 .. MaxClock + 1
Row == [def : Def, enabled : BOOLEAN, next : Instants]
Copy == [name : Names, def : Def, due : Instants]
Places == {"idle", "read", "rows", "gate", "target", "fire", "rollback", "claim",
           "upsert", "forward", "drop"}
Job == [pc : Places, todo : SUBSET Copy, on : Copy \cup {NoRow}, minted : BOOLEAN]

ASSUME ScheduleAssumption ==
  /\ Def \subseteq [gated : BOOLEAN, mints : BOOLEAN]
  /\ MaxClock \in Nat /\ MaxFaults \in Nat /\ MaxCrashes \in Nat
  /\ IsFiniteSet(Checks) /\ IsFiniteSet(Handlers) /\ Checks \cap Handlers = {}
  /\ NoRow \notin Def \cup Row \cup Copy

Idle == [pc |-> "idle", todo |-> {}, on |-> NoRow, minted |-> FALSE]

Init ==
  /\ clock = 0 /\ up = TRUE
  /\ file = [s \in Names |-> NoRow] /\ row = [s \in Names |-> NoRow]
  /\ checking = FALSE /\ job = [t \in Threads |-> Idle] /\ faults = 0 /\ crashes = 0
  /\ wanted = {} /\ leftover = {} /\ settled = [s \in Names |-> 0] /\ excused = {}
  /\ loose = 0 /\ strays = 0

At(t, place) == up /\ job[t].pc = place
Goto(t, place) == job' = [job EXCEPT ![t].pc = place]
Become(t, j) == job' = [job EXCEPT ![t] = j]
Fault == faults < MaxFaults /\ faults' = faults + 1

\* next_run_unix: the first instant after now.
NextRun == clock + 1
Known(s) == row[s] # NoRow
Due(s) == Known(s) /\ row[s].enabled /\ row[s].next <= clock
CopyOf(s) == [name |-> s, def |-> row[s].def, due |-> row[s].next]

\* UPDATE flows SET next_run ... WHERE name: it may hit nothing.
Advance(s) == row' = [row EXCEPT ![s] = IF @ = NoRow THEN @ ELSE [@ EXCEPT !.next = NextRun]]

\* upsert_schedule keeps enabled of a row that is there.  Mutant: INSERT OR REPLACE.
Replaced(old, d, next) == [def |-> d, enabled |-> TRUE, next |-> next]
Upserted(old, d, next) ==
  [def |-> d, enabled |-> IF old = NoRow THEN TRUE ELSE old.enabled, next |-> next]

-----------------------------------------------------------------------------
(* The tick: check_schedules and fire_schedule.                            *)

StartCheck(t) ==
  /\ At(t, "idle") /\ ~checking
  /\ checking' = TRUE /\ Goto(t, "read")
  /\ UNCHANGED <<clock, up, book, faults, crashes, history>>

ReadDue(t) ==
  /\ At(t, "read")
  /\ Become(t, [Idle EXCEPT !.pc = "rows", !.todo = {CopyOf(s) : s \in {s \in Names : Due(s)}}])
  /\ UNCHANGED <<clock, up, book, checking, faults, crashes, history>>

\* The next row of the list is claimed before its gate is asked.
Take(t, c) == Become(t, [job[t] EXCEPT !.pc = "gate", !.todo = @ \ {c}, !.on = c])

Claim(t, c) ==
  /\ At(t, "rows") /\ c \in job[t].todo
  /\ Take(t, c) /\ Advance(c.name)
  /\ UNCHANGED <<clock, up, file, checking, faults, crashes, history>>

ClaimFails(t, c) ==
  /\ At(t, "rows") /\ c \in job[t].todo /\ Fault
  /\ Take(t, c) /\ excused' = excused \cup {c.name}
  /\ UNCHANGED <<clock, up, book, checking, crashes, wanted, leftover, settled, loose, strays>>

\* run_script_gate ends within GATE_TIMEOUT; a failure, and a time out, skip the row.
\* Mutant: the return leaves the flag set.
GateReturnsFlagged(t) ==
  /\ At(t, "gate") /\ job[t].on.def.gated
  /\ Become(t, Idle)
  /\ UNCHANGED <<clock, up, book, checking, faults, crashes, history>>
GateFails(t) ==
  /\ At(t, "gate") /\ job[t].on.def.gated
  /\ Become(t, [job[t] EXCEPT !.pc = "rows", !.on = NoRow])
  /\ UNCHANGED <<clock, up, book, checking, faults, crashes, history>>

GatePasses(t) ==
  /\ At(t, "gate")
  /\ Goto(t, "target")
  /\ UNCHANGED <<clock, up, book, checking, faults, crashes, history>>

\* FlagGuard drops the flag when the list is done.
EndCheck(t) ==
  /\ At(t, "rows") /\ job[t].todo = {}
  /\ checking' = FALSE /\ Become(t, Idle)
  /\ UNCHANGED <<clock, up, book, faults, crashes, history>>

-----------------------------------------------------------------------------
(* Firing, which the tick and run_schedule share.                          *)

CreateTask == loose' = loose + 1

\* schedule_task_target: a task for this run, when it is asked for.
Target(t) ==
  LET mints == job[t].on.def.mints IN
  /\ At(t, "target")
  /\ job' = [job EXCEPT ![t].pc = "fire", ![t].minted = mints]
  /\ IF mints THEN CreateTask ELSE UNCHANGED loose
  /\ UNCHANGED <<clock, up, book, checking, faults, crashes, wanted, leftover, settled, excused, strays>>

TargetFails(t) ==
  /\ At(t, "target") /\ job[t].on.def.mints /\ Fault
  /\ Goto(t, "fire")
  /\ UNCHANGED <<clock, up, book, checking, crashes, history>>

AfterFire(t) == IF t \in Checks THEN [job[t] EXCEPT !.pc = "rows", !.on = NoRow, !.minted = FALSE]
                ELSE [job[t] EXCEPT !.pc = "claim", !.minted = FALSE]
AfterFailure(t) == IF t \in Checks THEN AfterFire(t) ELSE Idle

\* fire_headless: the worktree, the session, the prompt in its inbox.
Fire(t) ==
  LET c == job[t].on IN
  /\ At(t, "fire")
  /\ Become(t, AfterFire(t))
  /\ settled' = IF t \in Checks THEN [settled EXCEPT ![c.name] = IF c.due > @ THEN c.due ELSE @]
                ELSE settled
  /\ loose' = IF job[t].minted THEN loose - 1 ELSE loose
  /\ UNCHANGED <<clock, up, book, checking, faults, crashes, wanted, leftover, excused, strays>>

\* The provider cannot be launched.  Mutant: the task of this run is left.
FireFailsAndLeaves(t) ==
  /\ At(t, "fire")
  /\ Become(t, AfterFailure(t))
  /\ UNCHANGED <<clock, up, book, checking, faults, crashes, history>>
FireFails(t) ==
  /\ At(t, "fire")
  /\ IF job[t].minted THEN Goto(t, "rollback") ELSE Become(t, AfterFailure(t))
  /\ UNCHANGED <<clock, up, book, checking, faults, crashes, history>>

Rollback(t) ==
  /\ At(t, "rollback")
  /\ Become(t, AfterFailure(t)) /\ loose' = loose - 1
  /\ UNCHANGED <<clock, up, book, checking, faults, crashes, wanted, leftover, settled, excused, strays>>

RollbackFails(t) ==
  /\ At(t, "rollback") /\ Fault
  /\ Become(t, AfterFailure(t)) /\ strays' = strays + 1
  /\ UNCHANGED <<clock, up, book, checking, crashes, wanted, leftover, settled, excused, loose>>

-----------------------------------------------------------------------------
(* The user's calls.                                                       *)

\* run_schedule fires a row whatever it says, without its gate, and claims it last.
RunNow(h, s) ==
  /\ At(h, "idle") /\ Known(s)
  /\ Become(h, [Idle EXCEPT !.pc = "target", !.on = CopyOf(s)])
  /\ UNCHANGED <<clock, up, book, checking, faults, crashes, history>>

RunClaims(h) ==
  /\ At(h, "claim")
  /\ Advance(job[h].on.name) /\ Become(h, Idle)
  /\ UNCHANGED <<clock, up, file, checking, faults, crashes, history>>

\* The last statement of a call fails; what it did before stays done.
StatementFails(h) ==
  /\ \E place \in {"claim", "upsert", "forward", "drop"} : At(h, place)
  /\ Become(h, Idle) /\ Fault
  /\ UNCHANGED <<clock, up, book, checking, crashes, history>>

\* create_schedule computes the next instant and writes the file, then the row.
CreateFile(h, s, d) ==
  /\ At(h, "idle")
  /\ file' = [file EXCEPT ![s] = d]
  /\ Become(h, [Idle EXCEPT !.pc = "upsert", !.on = [name |-> s, def |-> d, due |-> NextRun]])
  /\ leftover' = leftover \cup {x \in {s} : \E g \in Handlers : At(g, "drop") /\ job[g].on.name = s}
  /\ wanted' = IF Known(s) THEN wanted ELSE wanted \cup {s}
  /\ UNCHANGED <<clock, up, row, checking, faults, crashes, settled, excused, loose, strays>>

\* The instant it stores is of before the file was written: it may have come, and have been
\* fired, since then.
CreateRow(h) ==
  LET c == job[h].on IN
  /\ At(h, "upsert")
  /\ row' = [row EXCEPT ![c.name] = Upserted(@, c.def, c.due)] /\ Become(h, Idle)
  /\ excused' = excused \cup {s \in {c.name} : c.due <= clock}
  /\ UNCHANGED <<clock, up, file, checking, faults, crashes, wanted, leftover, settled, loose, strays>>

Disable(s) ==
  /\ up /\ Known(s)
  /\ row' = [row EXCEPT ![s].enabled = FALSE] /\ wanted' = wanted \ {s}
  /\ UNCHANGED <<clock, up, file, checking, job, faults, crashes, leftover, settled, excused, loose, strays>>

\* set_schedule_enabled: the switch, then the next instant, in two statements;
\* in between an instant missed while it was off makes it due.
Enable(h, s) ==
  /\ At(h, "idle") /\ Known(s)
  /\ row' = [row EXCEPT ![s].enabled = TRUE] /\ wanted' = wanted \cup {s}
  /\ Become(h, [Idle EXCEPT !.pc = "forward", !.on = CopyOf(s)])
  /\ excused' = IF row[s].next <= clock THEN excused \cup {s} ELSE excused
  /\ UNCHANGED <<clock, up, file, checking, faults, crashes, leftover, settled, loose, strays>>

Forward(h) ==
  /\ At(h, "forward")
  /\ Advance(job[h].on.name) /\ Become(h, Idle)
  /\ UNCHANGED <<clock, up, file, checking, faults, crashes, history>>

\* delete_schedule: the file, whose removal may fail, then the row.
DeleteFile(h, s) ==
  /\ At(h, "idle") /\ Known(s)
  /\ Become(h, [Idle EXCEPT !.pc = "drop", !.on = CopyOf(s)])
  /\ \/ /\ file' = [file EXCEPT ![s] = NoRow] /\ UNCHANGED <<faults, leftover>>
     \/ /\ Fault /\ leftover' = leftover \cup {s} /\ UNCHANGED file
  /\ UNCHANGED <<clock, up, row, checking, crashes, wanted, settled, excused, loose, strays>>

DeleteRow(h) ==
  LET s == job[h].on.name IN
  /\ At(h, "drop")
  /\ row' = [row EXCEPT ![s] = NoRow] /\ Become(h, Idle) /\ wanted' = wanted \ {s}
  /\ leftover' = leftover \cup {x \in {s} : \E g \in Handlers : At(g, "upsert") /\ job[g].on.name = s}
  /\ UNCHANGED <<clock, up, file, checking, faults, crashes, settled, excused, loose, strays>>

-----------------------------------------------------------------------------
Tick ==
  /\ clock < MaxClock /\ clock' = clock + 1
  /\ UNCHANGED <<up, book, checking, job, faults, crashes, history>>

Crash ==
  /\ up /\ crashes < MaxCrashes
  /\ up' = FALSE /\ crashes' = crashes + 1
  /\ job' = [t \in Threads |-> Idle] /\ checking' = FALSE /\ strays' = loose
  /\ UNCHANGED <<clock, book, faults, wanted, leftover, settled, excused, loose>>

\* A file put there by hand is read at the next start.
HandWrite(s, d) ==
  /\ ~up
  /\ file' = [file EXCEPT ![s] = d]
  /\ wanted' = IF Known(s) THEN wanted ELSE wanted \cup {s}
  /\ UNCHANGED <<clock, up, row, checking, job, faults, crashes, leftover, settled, excused, loose, strays>>

\* load_schedules_on_start, before anything is served: the files into the rows, then every
\* enabled row forward.  Reading the file or storing its row fails for those lost, moving the
\* row for those stuck; both are ignored.  Mutant: rows without a file keep their instant.
Ingested(s, lost) ==
  IF file[s] = NoRow \/ s \in lost THEN row[s] ELSE Upserted(row[s], file[s], NextRun)
LoadedFiles(s, lost, stuck) == Ingested(s, lost)
Loaded(s, lost, stuck) ==
  LET r == Ingested(s, lost) IN
  IF r # NoRow /\ r.enabled /\ s \notin stuck THEN [r EXCEPT !.next = NextRun] ELSE r
Stuck(s, lost, stuck) ==
  LET r == Ingested(s, lost) IN s \in stuck /\ r # NoRow /\ r.enabled /\ r.next <= clock

Boot ==
  \E lost, stuck \in SUBSET Names :
    /\ ~up /\ up' = TRUE
    /\ IF lost \cup stuck = {} THEN UNCHANGED faults ELSE Fault
    /\ row' = [s \in Names |-> Loaded(s, lost, stuck)]
    /\ settled' = [s \in Names |-> clock]
    /\ excused' = excused \cup {s \in Names : Stuck(s, lost, stuck)}
    /\ UNCHANGED <<clock, file, checking, job, crashes, wanted, leftover, loose, strays>>

-----------------------------------------------------------------------------
Shot(t) ==
  Target(t) \/ TargetFails(t) \/ Fire(t) \/ FireFails(t) \/ Rollback(t) \/ RollbackFails(t)

Check(t) ==
  \/ StartCheck(t) \/ ReadDue(t) \/ GateFails(t) \/ GatePasses(t) \/ EndCheck(t) \/ Shot(t)
  \/ \E c \in job[t].todo : Claim(t, c) \/ ClaimFails(t, c)

Call(h) ==
  \/ RunClaims(h) \/ CreateRow(h) \/ Forward(h) \/ DeleteRow(h) \/ StatementFails(h) \/ Shot(h)
  \/ \E s \in Names :
       RunNow(h, s) \/ Enable(h, s) \/ DeleteFile(h, s) \/ \E d \in Def : CreateFile(h, s, d)

Next ==
  \/ \E t \in Checks : Check(t)
  \/ \E h \in Handlers : Call(h)
  \/ \E s \in Names : Disable(s) \/ \E d \in Def : HandWrite(s, d)
  \/ Tick \/ Crash \/ Boot

Spec == Init /\ [][Next]_vars

\* main.rs starts a check every 30 s and the app starts a daemon; a gate ends.
ScheduleFairness == WF_vars(Boot) /\ \A t \in Checks : WF_vars(Check(t))
FairSpec == Spec /\ ScheduleFairness

-----------------------------------------------------------------------------
(* Types; and the flag is up exactly while one check runs.                 *)
TypeOK ==
  /\ clock \in 0 .. MaxClock /\ up \in BOOLEAN
  /\ file \in [Names -> Def \cup {NoRow}] /\ row \in [Names -> Row \cup {NoRow}]
  /\ checking = (\E t \in Checks : job[t].pc # "idle")
  /\ job \in [Threads -> Job] /\ faults \in 0 .. MaxFaults /\ crashes \in 0 .. MaxCrashes
  /\ wanted \subseteq Names /\ leftover \subseteq Names /\ settled \in [Names -> Instants]
  /\ excused \subseteq Names /\ loose \in Nat /\ strays \in Nat

(* The tick fires a schedule for an instant it has not fired for, that came *)
(* after the daemon started: overlapping checks, a slow gate and a run or a *)
(* deletion meanwhile do not fire it twice, and nothing is made up for     *)
(* after a restart (manager.rs fire_schedule "CLAIM up front").  Excepted  *)
(* are schedules whose row kept an instant that had passed: the claim      *)
(* failed, the row could not be moved at the start, it was switched on     *)
(* past due, or an edit stored the instant it had computed before.         *)
FreshInstant ==
  \A t \in Checks : At(t, "fire") /\ job[t].on.name \notin excused
                      => settled[job[t].on.name] < job[t].on.due

(* What the tick finds due the user has on: a restart, an edit and a crash *)
(* in the middle of a deletion leave a disabled schedule disabled and a    *)
(* deleted one gone, but for a file that could not be removed and a        *)
(* creation that overlaps the deletion (store.rs upsert_schedule           *)
(* 1539-1547).                                                             *)
DueIsWanted == \A s \in Names \ leftover : Due(s) => s \in wanted

(* A task made for a run has its agent, is about to, or is taken back; but *)
(* for a crash and a failing delete (manager.rs fire_schedule "must not    *)
(* accumulate one orphan task per cron tick").                             *)
NoOrphanTask == loose = strays + Cardinality({t \in Threads : job[t].minted})

(* A schedule that is due is served: no check, gate or failure holds the   *)
(* flag for ever (manager.rs check_schedules, FlagGuard).                  *)
DueIsServed == \A s \in Names : Due(s) ~> ~Due(s)

-----------------------------------------------------------------------------
(* The inductive invariants behind FreshInstant, DueIsWanted, NoOrphanTask. *)

Firing == {"gate", "target", "fire", "rollback"}

\* What a thread holds at each place; one check at a time, none of a daemon that is down.
JobInv ==
  /\ \A t \in Threads :
       /\ job[t].pc \in {"idle", "read", "rows"} <=> job[t].on = NoRow
       /\ job[t].minted => job[t].pc \in {"fire", "rollback"}
       /\ job[t].pc = "rollback" => job[t].minted
       /\ job[t].todo # {} => job[t].pc \in {"rows"} \cup Firing
       /\ ~up => job[t] = Idle
  /\ \A t \in Checks : job[t].pc \in {"idle", "read", "rows"} \cup Firing
  /\ \A h \in Handlers : job[h].pc \notin {"read", "rows", "gate"} /\ job[h].todo = {}
  /\ \A t, u \in Checks : job[t].pc # "idle" /\ job[u].pc # "idle" => t = u

\* What a check has read and not fired yet.
Held(t) == job[t].todo \cup (IF job[t].pc \in Firing \ {"rollback"} THEN {job[t].on} ELSE {})
Fresh(s, instant) == s \notin excused => settled[s] < instant

\* Neither a row that is on nor a row that was read is of a settled instant; a claimed row
\* is past the one that is fired.
FreshInv ==
  /\ \A s \in Names : settled[s] <= clock
  /\ \A s \in Names : Known(s) /\ row[s].enabled => Fresh(s, row[s].next)
  /\ \A t \in Checks :
       /\ \A c \in Held(t) : c.due <= clock /\ Fresh(c.name, c.due)
       /\ \A c, d \in Held(t) : c.name = d.name => c = d
       /\ job[t].pc \in Firing \ {"rollback"} =>
            LET c == job[t].on IN
            /\ c \notin job[t].todo
            /\ c.name \notin excused /\ Known(c.name) => row[c.name].next > c.due

\* Who is on is wanted; so is what a file, or a creation half done, would bring back.
Half(place, s) == \E h \in Handlers : job[h].pc = place /\ job[h].on.name = s
WantedInv ==
  \A s \in Names \ leftover :
    /\ Known(s) /\ row[s].enabled => s \in wanted
    /\ ~Known(s) /\ (file[s] # NoRow \/ Half("upsert", s)) => s \in wanted
    /\ Half("drop", s) => file[s] = NoRow

ScheduleInv == TypeOK /\ JobInv /\ FreshInv /\ WantedInv /\ NoOrphanTask
=============================================================================
