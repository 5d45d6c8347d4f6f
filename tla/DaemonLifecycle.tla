-------------------------- MODULE DaemonLifecycle --------------------------
(***************************************************************************)
(* Which daemon serves: the lock, token and socket files of the runtime    *)
(* directory, the boot of a daemon (main.rs, runtime.rs, listener.rs,      *)
(* reap.rs), its end by idleness or by SIGTERM, and the app, which adopts  *)
(* a daemon, starts one, or replaces one it cannot talk to (the app's      *)
(* daemon.rs ensure_running, connect_handshake, restart_daemon); and which *)
(* store file the daemon keeps its records in (store.rs open_or_recover).  *)
(*                                                                         *)
(* A file is named by the daemon that made it: the lock file's inode, the  *)
(* socket, the token's value, the store.                                   *)
(***************************************************************************)
EXTENDS Integers, FiniteSets

CONSTANTS
  Daemons,      \* processes, each started once
  First,        \* the one that runs already, or nobody
  Clients,      \* operations of the app that run at the same time
  None,         \* no file, no process
  MaxOps,       \* bound of the model: operations of the app
  MaxFaults     \* bound of the model: daemons that crash or stop answering

ASSUME LifecycleAssumption ==
  None \notin Daemons /\ First \in Daemons \cup {None} /\ MaxOps \in Nat /\ MaxFaults \in Nat

VARIABLES
  at, opened,           \* how far each daemon is; the lock file it has open
  lockFile, pid,        \* the lock file in the directory; the pid in each
  socket, token,        \* the other two files
  deaf, told,           \* daemons that do not answer a Hello as they should; that were sent SIGTERM
  agents,               \* daemons whose agents run (after a crash: as orphans)
  scheduled,            \* a schedule is enabled
  runs,                 \* daemons that run a workflow with workers to spawn
  spawning,             \* daemons with a session made and the clock not yet touched
  store, rotten,        \* the store file; it is corrupt
  keeps, running,       \* the store each daemon writes to; whose sessions its rows say are running
  alone, fresh, end,    \* each daemon's idle decision, its idle clock, how far its end is
  op, ops, restarting,  \* the app's operations, how many there were, restart_lock
  faults,
  replaced, blind,      \* history: daemons whose files were removed while they ran, by the app or
                        \*   by a daemon in one of these sets; that locked a file no longer there;
  late, quit, moved     \*   that got work after deciding to end; that decided to end; healthy
                        \*   stores moved aside

files == <<lockFile, pid, socket, token>>
boot == <<at, opened>>
disk == <<store, rotten, keeps, running>>
idling == <<alone, fresh, end>>
app == <<op, ops, restarting>>
headless == <<scheduled, runs, spawning>>
history == <<replaced, blind, late, quit, moved>>
vars == <<boot, files, deaf, told, agents, headless, disk, idling, app, faults, history>>

-----------------------------------------------------------------------------
Stages == {"off", "open", "lock", "token", "look", "unlink", "bind",
           "load", "aside", "renew", "sweep", "serve", "gone"}
Pcs == {"idle", "wait", "connect", "hello", "sent", "using",
        "restart", "aim", "rmSocket", "rmToken", "rmLock", "respawn", "await"}
Op == [pc : Pcs, mode : {"first", "again", "retry", "read"},
       peer : Daemons \cup {None}, key : Daemons \cup {None}]
NoOp == [pc |-> "idle", mode |-> "first", peer |-> None, key |-> None]

Init ==
  /\ at = [d \in Daemons |-> IF d = First THEN "serve" ELSE "off"]
  /\ opened = [d \in Daemons |-> IF d = First THEN First ELSE None]
  /\ lockFile = First /\ socket = First /\ token = First
  /\ pid = [d \in Daemons |-> IF d = First THEN First ELSE None]
  /\ deaf = {} /\ told = {} /\ agents = {} /\ scheduled = FALSE /\ runs = {} /\ spawning = {}
  /\ store = First /\ rotten = FALSE /\ running = {}
  /\ keeps = [d \in Daemons |-> IF d = First THEN First ELSE None]
  /\ alone = [d \in Daemons |-> FALSE] /\ fresh = [d \in Daemons |-> TRUE]
  /\ end = [d \in Daemons |-> "none"]
  /\ op = [c \in Clients |-> NoOp] /\ ops = 0 /\ restarting = None /\ faults = 0
  /\ replaced = {} /\ blind = {} /\ late = {} /\ quit = {} /\ moved = {}

Is(c, pc) == op[c].pc = pc

Alive(d) == at[d] \notin {"off", "gone"}
Listening(d) == at[d] \in {"load", "aside", "renew", "sweep", "serve"}
Connectable == socket # None /\ Listening(socket)
Locked(i) == \E d \in Daemons : opened[d] = i /\ Alive(d) /\ at[d] # "lock"

\* Whose file it is, while it runs.
Robbed(f) == {d \in Daemons : f = d /\ Alive(d)}
Holders(i) == {d \in Daemons : i # None /\ opened[d] = i /\ Alive(d)}
Irregular == replaced \cup blind

To(d, stage) == at' = [at EXCEPT ![d] = stage]

-----------------------------------------------------------------------------
(* A daemon starts.                                                        *)

OpenLock(d) ==
  /\ at[d] = "open" /\ To(d, "lock")
  /\ lockFile' = IF lockFile = None THEN d ELSE lockFile
  /\ opened' = [opened EXCEPT ![d] = lockFile']
  /\ UNCHANGED <<pid, socket, token, deaf, told, agents, headless, idling, app, faults, disk, history>>

\* flock, without waiting, then the pid.  Mutant: an error of flock is taken for success.
FlockAlways(d) ==
  /\ at[d] = "lock" /\ To(d, "token") /\ pid' = [pid EXCEPT ![opened[d]] = d]
  /\ UNCHANGED <<opened, lockFile, socket, token, deaf, told, agents, headless, idling, app, faults, disk, history>>
Flock(d) ==
  /\ at[d] = "lock"
  /\ IF Locked(opened[d]) THEN To(d, "gone") /\ UNCHANGED <<pid, blind>>
     ELSE /\ To(d, "token") /\ pid' = [pid EXCEPT ![opened[d]] = d]
          /\ blind' = IF lockFile = opened[d] THEN blind ELSE blind \cup {d}
  /\ UNCHANGED <<opened, lockFile, socket, token, deaf, told, agents, headless, idling, app, faults, replaced, late, quit, disk, moved>>

WriteToken(d) ==
  /\ at[d] = "token" /\ To(d, "look")
  /\ token' = d
  /\ UNCHANGED <<opened, lockFile, pid, socket, deaf, told, agents, headless, idling, app, faults, disk, history>>

\* bind_secure: a socket that answers ends the boot, one that does not is removed.
Look(d) ==
  /\ at[d] = "look"
  /\ To(d, IF socket = None THEN "bind" ELSE IF Connectable THEN "gone" ELSE "unlink")
  /\ UNCHANGED <<opened, files, deaf, told, agents, headless, idling, app, faults, disk, history>>

Bind(d) ==
  /\ at[d] \in {"unlink", "bind"}
  /\ IF socket = None \/ at[d] = "unlink" THEN socket' = d /\ To(d, "load")
     ELSE UNCHANGED socket /\ To(d, "gone")
  /\ UNCHANGED <<opened, lockFile, pid, token, deaf, told, agents, headless, idling, app, faults, disk, history>>

\* Manager::new opens the store.  A store that opens is migrated: no session of it is running.
\* Mutant: it is not.
KeepRows(d, f) == keeps' = [keeps EXCEPT ![d] = f] /\ UNCHANGED running
Keep(d, f) ==
  keeps' = [keeps EXCEPT ![d] = f] /\ running' = {}

\* What the error says: a corrupt file goes aside, anything else leaves it be and the daemon
\* keeps no records.  Mutant: any error is taken for corruption.
AnyCorruption == TRUE
IsCorruption == rotten
OpenFails(d) ==
  /\ \/ rotten /\ UNCHANGED faults
     \/ ~rotten /\ faults < MaxFaults /\ faults' = faults + 1
  /\ To(d, IF IsCorruption THEN "aside" ELSE "sweep")
  /\ UNCHANGED <<store, keeps, running>>
OpenStore(d) ==
  /\ at[d] = "load"
  /\ \/ ~rotten /\ UNCHANGED faults /\ To(d, "sweep")
        /\ store' = (IF store = None THEN d ELSE store) /\ Keep(d, store')
     \/ OpenFails(d)
  /\ UNCHANGED <<opened, files, deaf, told, agents, headless, rotten, idling, app, history>>

\* The rename is by path, whatever is there by then.  Schedules that have a file come back.
MoveAside(d) ==
  /\ at[d] = "aside"
  /\ IF store = None THEN To(d, "sweep") /\ UNCHANGED <<store, rotten, running, scheduled, moved>>
     ELSE /\ To(d, "renew") /\ store' = None /\ rotten' = FALSE /\ running' = {}
          /\ scheduled' \in {FALSE, scheduled}
          /\ moved' = IF rotten THEN moved ELSE moved \cup {store}
  /\ UNCHANGED <<opened, files, deaf, told, agents, runs, spawning, keeps, idling, app, faults, replaced, blind, late, quit>>

\* Where the file stays, the daemon keeps no records.
RenameFails(d) ==
  /\ at[d] = "aside" /\ To(d, "sweep")
  /\ UNCHANGED <<opened, files, deaf, told, agents, headless, idling, app, faults, disk, history>>

Renew(d) ==
  /\ at[d] = "renew" /\ To(d, "sweep")
  /\ \/ ~rotten /\ store' = (IF store = None THEN d ELSE store) /\ Keep(d, store') /\ UNCHANGED faults
     \/ rotten /\ UNCHANGED <<store, keeps, running, faults>>
     \/ faults < MaxFaults /\ faults' = faults + 1 /\ UNCHANGED <<store, keeps, running>>
  /\ UNCHANGED <<opened, files, deaf, told, agents, headless, rotten, idling, app, history>>

\* sweep_orphan_agents: every process with the marker is taken for an orphan.
SweepOrphans(d) ==
  /\ at[d] = "sweep" /\ To(d, "serve")
  /\ agents' = {}
  /\ UNCHANGED <<opened, files, deaf, told, headless, idling, app, faults, disk, history>>

Boot(d) == OpenLock(d) \/ Flock(d) \/ WriteToken(d) \/ Look(d) \/ Bind(d)
           \/ OpenStore(d) \/ MoveAside(d) \/ RenameFails(d) \/ Renew(d) \/ SweepOrphans(d)

-----------------------------------------------------------------------------
(* A daemon ends.                                                          *)

Running(d) == at[d] = "serve" /\ end[d] = "none"
Users(d) == {c \in Clients : Is(c, "using") /\ op[c].peer = d}

\* Its store is the one in place (a corrupt store answers nothing; one that was moved is let go).
Knows(d) == keeps[d] # None /\ keeps[d] = store /\ ~rotten

\* sweep of the dead sessions, at every tick: their rows say so.
Reap(d) ==
  /\ Running(d) /\ ~alone[d] /\ d \notin agents /\ d \in running /\ Knows(d)
  /\ running' = running \ {d}
  /\ UNCHANGED <<boot, files, deaf, told, agents, headless, store, rotten, keeps, idling, app, faults, history>>

\* The idle decision of gc_tick: sessions and connections, then the idle clock and the schedules.
SeeNobody(d) ==
  /\ Running(d) /\ ~alone[d] /\ d \notin agents /\ Users(d) = {}
  /\ d \in running => ~Knows(d)
  /\ alone' = [alone EXCEPT ![d] = TRUE]
  /\ UNCHANGED <<boot, files, deaf, told, agents, headless, fresh, end, app, faults, disk, history>>

\* Mutant: the idle clock is not asked.
LooksIdleAlways(d) == ~(scheduled /\ Knows(d))
LooksIdle(d) == ~fresh[d] /\ ~(scheduled /\ Knows(d))
Decide(d) ==
  /\ Running(d) /\ alone[d]
  /\ alone' = [alone EXCEPT ![d] = FALSE]
  /\ IF LooksIdle(d) THEN end' = [end EXCEPT ![d] = "socket"] /\ quit' = quit \cup {d}
     ELSE UNCHANGED <<end, quit>>
  /\ late' = IF LooksIdle(d) /\ d \in spawning THEN late \cup {d} ELSE late
  /\ UNCHANGED <<boot, files, deaf, told, agents, headless, fresh, app, faults, replaced, blind, disk, moved>>

\* IDLE_GRACE goes by; a tick is shorter than that.
GraceEnds(d) ==
  /\ Running(d) /\ fresh[d] /\ ~alone[d]
  /\ fresh' = [fresh EXCEPT ![d] = FALSE]
  /\ UNCHANGED <<boot, files, deaf, told, agents, headless, alone, end, app, faults, disk, history>>

\* kill_all: the rows stay, for the next daemon to mend.
KillAll(d) == agents' = agents \ {d}

\* SIGTERM: kill_all before the cleanup; a daemon without its handler yet just dies.
Signalled(d) ==
  /\ d \in told /\ told' = told \ {d}
  /\ \/ /\ at[d] = "serve" /\ end[d] = "none"
        /\ end' = [end EXCEPT ![d] = "socket"] /\ KillAll(d) /\ UNCHANGED at
     \/ /\ at[d] # "serve" /\ To(d, "gone") /\ UNCHANGED <<end, agents>>
     \/ /\ at[d] = "serve" /\ end[d] # "none" /\ UNCHANGED <<at, end, agents>>
  /\ UNCHANGED <<opened, files, deaf, headless, alone, fresh, app, faults, disk, history>>

\* cleanup: the three files, by their paths.  Mutant: the lock first.
Displaces(d) ==
  replaced' = IF d \notin Irregular THEN replaced
              ELSE replaced \cup ((Robbed(socket) \cup Robbed(token) \cup Holders(lockFile)) \ {d})
After == [socket |-> "token", token |-> "lock", lock |-> "exit"]
Cleanup(d) ==
  /\ at[d] = "serve" /\ end[d] \in DOMAIN After
  /\ end' = [end EXCEPT ![d] = After[@]]
  /\ socket' = IF end[d] = "socket" THEN None ELSE socket
  /\ token' = IF end[d] = "token" THEN None ELSE token
  /\ lockFile' = IF end[d] = "lock" THEN None ELSE lockFile
  /\ Displaces(d)
  /\ UNCHANGED <<boot, pid, deaf, told, agents, headless, alone, fresh, app, faults, blind, late, quit, disk, moved>>

Exit(d) ==
  /\ at[d] = "serve" /\ end[d] = "exit" /\ To(d, "gone")
  /\ UNCHANGED <<opened, files, deaf, told, agents, headless, idling, app, faults, disk, history>>

End(d) == Signalled(d) \/ Cleanup(d) \/ Exit(d)
Tick(d) == Reap(d) \/ SeeNobody(d) \/ Decide(d)

\* It dies and leaves its files; its agents die with it or become orphans.
Crash(d) ==
  /\ Alive(d) /\ faults < MaxFaults /\ faults' = faults + 1
  /\ To(d, "gone") /\ agents' \in {agents, agents \ {d}}
  /\ UNCHANGED <<opened, files, deaf, told, headless, idling, app, disk, history>>

Wedge(d) ==
  /\ at[d] = "serve" /\ d \notin deaf /\ faults < MaxFaults /\ faults' = faults + 1
  /\ deaf' = deaf \cup {d}
  /\ UNCHANGED <<boot, files, told, agents, headless, idling, app, disk, history>>

\* The store file goes bad under whoever uses it.
Rot ==
  /\ store # None /\ ~rotten /\ faults < MaxFaults /\ faults' = faults + 1
  /\ rotten' = TRUE
  /\ UNCHANGED <<boot, files, deaf, told, agents, headless, store, keeps, running, idling, app, history>>

AgentExits(d) ==
  /\ d \in agents /\ agents' = agents \ {d}
  /\ UNCHANGED <<boot, files, deaf, told, headless, idling, app, faults, disk, history>>

-----------------------------------------------------------------------------
(* spawn_agent of the workflow engine: no connection counts, and the idle  *)
(* clock is touched after the session is in the map.  (The agents of a     *)
(* schedule come while the schedule itself keeps the daemon up.)           *)

Touch(d) == fresh' = [fresh EXCEPT ![d] = TRUE]

\* record_session, whose error is logged.
RecordSession(d) == running' = IF Knows(d) THEN running \cup {d} ELSE running

HeadlessSpawn(d) ==
  /\ at[d] = "serve" /\ d \in runs /\ d \notin spawning
  /\ spawning' = spawning \cup {d} /\ runs' \in {runs, runs \ {d}}
  /\ agents' = agents \cup {d} /\ RecordSession(d)
  /\ late' = IF end[d] = "none" THEN late ELSE late \cup {d}
  /\ UNCHANGED <<boot, files, deaf, told, scheduled, store, rotten, keeps, idling, app, faults,
                 replaced, blind, quit, moved>>

TouchAfter(d) ==
  /\ at[d] = "serve" /\ d \in spawning /\ spawning' = spawning \ {d} /\ Touch(d)
  /\ UNCHANGED <<boot, files, deaf, told, agents, scheduled, runs, alone, end, app, faults, disk, history>>

Headless(d) == HeadlessSpawn(d) \/ TouchAfter(d)

-----------------------------------------------------------------------------
(* The app.                                                                *)

Do(c, o) == op' = [op EXCEPT ![c] = o]
Move(c, pc) == Do(c, [op[c] EXCEPT !.pc = pc])

Spawn(d) == at[d] = "off" /\ To(d, "open")

\* A poll (list, query, the graph) asks a daemon that answers, and never replaces one.
BeginRead(c) ==
  /\ Is(c, "idle") /\ ops < MaxOps /\ ops' = ops + 1
  /\ Connectable /\ Do(c, [NoOp EXCEPT !.pc = "connect", !.mode = "read"])
  /\ UNCHANGED <<boot, files, deaf, told, agents, headless, idling, restarting, faults, disk, history>>

\* An operation that acts starts a daemon where none answers.
Begin(c) ==
  /\ Is(c, "idle") /\ ops < MaxOps /\ ops' = ops + 1
  /\ \/ Connectable /\ Do(c, [NoOp EXCEPT !.pc = "connect"]) /\ UNCHANGED at
     \/ /\ ~Connectable /\ Do(c, [NoOp EXCEPT !.pc = "wait"])
        /\ \E d \in Daemons : Spawn(d)
  /\ UNCHANGED <<opened, files, deaf, told, agents, headless, idling, restarting, faults, disk, history>>

\* Three seconds for it to come up.
Wait(c) ==
  /\ op[c].pc \in {"wait", "await"}
  /\ \/ Connectable /\ Do(c, [op[c] EXCEPT !.pc = "connect",
                                           !.mode = IF Is(c, "await") THEN "retry" ELSE @])
     \/ Do(c, NoOp)
  /\ restarting' = IF restarting = c THEN None ELSE restarting
  /\ UNCHANGED <<boot, files, deaf, told, agents, headless, idling, ops, faults, disk, history>>

\* Where a failed attempt leads: within restart_daemon it goes on to replace.
Failed(c) == IF op[c].mode = "again" THEN [op[c] EXCEPT !.pc = "aim"] ELSE NoOp

Connect(c) ==
  /\ Is(c, "connect")
  /\ Do(c, IF Connectable THEN [op[c] EXCEPT !.pc = "hello", !.peer = socket] ELSE Failed(c))
  /\ UNCHANGED <<boot, files, deaf, told, agents, headless, idling, ops, restarting, faults, disk, history>>

ReadToken(c) ==
  /\ Is(c, "hello")
  /\ Do(c, [op[c] EXCEPT !.pc = "sent", !.key = token])
  /\ UNCHANGED <<boot, files, deaf, told, agents, headless, idling, ops, restarting, faults, disk, history>>

\* handle_hello: only the token this daemon wrote is taken.
TokenMatches(d, key) == key = d
Accepts(d, key) == d \notin deaf /\ TokenMatches(d, key)

\* HelloOk: the connection counts.  Asked within restart_daemon, it ends there.
Answered(c) ==
  LET d == op[c].peer IN
  /\ Is(c, "sent") /\ at[d] = "serve" /\ Accepts(d, op[c].key)
  /\ Touch(d)
  /\ IF op[c].mode = "again"
     THEN Do(c, [op[c] EXCEPT !.pc = "connect", !.mode = "retry"]) /\ restarting' = None
     ELSE Move(c, "using") /\ UNCHANGED restarting
  /\ UNCHANGED <<boot, files, deaf, told, agents, headless, alone, end, ops, faults, disk, history>>

\* Rejected, or no answer in time, from a daemon that is deaf, booting or has another token.
\* The operation goes on to replace it, once.
Unusable(c) ==
  LET d == op[c].peer IN
  /\ Is(c, "sent") /\ Listening(d) /\ ~(at[d] = "serve" /\ Accepts(d, op[c].key))
  /\ Do(c, IF op[c].mode = "first" THEN [op[c] EXCEPT !.pc = "restart"]
           ELSE Failed(c))
  /\ UNCHANGED <<boot, files, deaf, told, agents, headless, idling, ops, restarting, faults, disk, history>>

PeerGone(c) ==
  /\ op[c].pc \in {"hello", "sent", "using"} /\ ~Alive(op[c].peer)
  /\ Do(c, Failed(c))
  /\ UNCHANGED <<boot, files, deaf, told, agents, headless, idling, ops, restarting, faults, disk, history>>

\* spawn_agent, a schedule switched on (the daemon has something to stay for), or run_workflow.
Use(c) ==
  LET d == op[c].peer IN
  /\ Is(c, "using") /\ at[d] = "serve" /\ Touch(d) /\ Do(c, NoOp)
  /\ \/ UNCHANGED <<agents, scheduled, runs, running, late>>
     \/ /\ op[c].mode # "read"
        /\ \/ agents' = agents \cup {d} /\ RecordSession(d) /\ UNCHANGED <<scheduled, runs>>
           \/ Knows(d) /\ scheduled' = TRUE /\ UNCHANGED <<agents, runs, running>>
           \/ runs' = runs \cup {d} /\ UNCHANGED <<agents, scheduled, running>>
        /\ late' = late \cup {e \in Daemons : (e = d \/ scheduled' # scheduled) /\ end[e] # "none"}
  /\ UNCHANGED <<boot, files, deaf, told, spawning, alone, end, ops, restarting, faults, store, rotten, keeps, replaced, blind, quit, moved>>

-----------------------------------------------------------------------------
(* restart_daemon.                                                         *)

LockRestart(c) ==
  /\ Is(c, "restart") /\ restarting = None /\ restarting' = c
  /\ Do(c, [op[c] EXCEPT !.pc = "connect", !.mode = "again"])
  /\ UNCHANGED <<boot, files, deaf, told, agents, headless, idling, ops, faults, disk, history>>

\* SIGTERM to the pid in the lock file, if that process still is; a second for it to let go of
\* the socket, then the files go, whosever they are.
Aim(c) ==
  /\ Is(c, "aim") /\ Move(c, "rmSocket")
  /\ told' = told \cup {d \in Daemons : lockFile # None /\ pid[lockFile] = d /\ Alive(d)}
  /\ UNCHANGED <<boot, files, deaf, agents, headless, idling, ops, restarting, faults, disk, history>>

RemoveSocket(c) ==
  /\ Is(c, "rmSocket") /\ Move(c, "rmToken")
  /\ socket' = None /\ replaced' = replaced \cup Robbed(socket)
  /\ UNCHANGED <<boot, lockFile, pid, token, deaf, told, agents, headless, idling, ops, restarting, faults, blind, late, quit, disk, moved>>

RemoveToken(c) ==
  /\ Is(c, "rmToken") /\ Move(c, "rmLock")
  /\ token' = None /\ replaced' = replaced \cup Robbed(token)
  /\ UNCHANGED <<boot, lockFile, pid, socket, deaf, told, agents, headless, idling, ops, restarting, faults, blind, late, quit, disk, moved>>

RemoveLock(c) ==
  /\ Is(c, "rmLock") /\ Move(c, "respawn")
  /\ lockFile' = None
  /\ replaced' = replaced \cup Holders(lockFile)
  /\ UNCHANGED <<boot, pid, socket, token, deaf, told, agents, headless, idling, ops, restarting, faults, blind, late, quit, disk, moved>>

Respawn(c) ==
  /\ Is(c, "respawn") /\ Move(c, "await")
  /\ \E d \in Daemons : Spawn(d)
  /\ UNCHANGED <<opened, files, deaf, told, agents, headless, idling, ops, restarting, faults, disk, history>>

Restart(c) ==
  \/ LockRestart(c) \/ Aim(c) \/ RemoveSocket(c) \/ RemoveToken(c) \/ RemoveLock(c)
  \/ Respawn(c)

Step(c) ==
  \/ Wait(c) \/ Connect(c) \/ ReadToken(c) \/ Answered(c) \/ Unusable(c) \/ PeerGone(c)
  \/ Use(c) \/ Restart(c)

-----------------------------------------------------------------------------
Next ==
  \/ \E d \in Daemons :
       Boot(d) \/ Tick(d) \/ GraceEnds(d) \/ End(d) \/ Crash(d) \/ Wedge(d) \/ AgentExits(d)
       \/ Headless(d)
  \/ Rot
  \/ \E c \in Clients : Begin(c) \/ BeginRead(c) \/ Step(c)

Spec == Init /\ [][Next]_vars

-----------------------------------------------------------------------------
(* Types.                                                                  *)
TypeOK ==
  /\ at \in [Daemons -> Stages] /\ opened \in [Daemons -> Daemons \cup {None}]
  /\ lockFile \in Daemons \cup {None} /\ pid \in [Daemons -> Daemons \cup {None}]
  /\ socket \in Daemons \cup {None} /\ token \in Daemons \cup {None}
  /\ deaf \subseteq Daemons /\ told \subseteq Daemons /\ agents \subseteq Daemons
  /\ store \in Daemons \cup {None} /\ rotten \in BOOLEAN /\ running \subseteq Daemons
  /\ keeps \in [Daemons -> Daemons \cup {None}] /\ moved \subseteq Daemons
  /\ scheduled \in BOOLEAN /\ runs \subseteq Daemons /\ spawning \subseteq Daemons /\ alone \in [Daemons -> BOOLEAN]
  /\ fresh \in [Daemons -> BOOLEAN] /\ end \in [Daemons -> {"none", "exit"} \cup DOMAIN After]
  /\ op \in [Clients -> Op] /\ ops \in 0 .. MaxOps /\ restarting \in Clients \cup {None}
  /\ faults \in 0 .. MaxFaults
  /\ replaced \subseteq Daemons /\ blind \subseteq Daemons /\ late \subseteq Daemons /\ quit \subseteq Daemons

Serving(d) == at[d] = "serve" /\ end[d] # "exit"

(* At most one daemon serves, but for one whose files the app took away    *)
(* while it ran, and one that locked a file its last holder was deleting   *)
(* (runtime.rs acquire_lock).                                              *)
OneServer ==
  \A d, e \in Daemons : Serving(d) /\ Serving(e) => d = e \/ d \in Irregular \/ e \in Irregular

(* Whoever can connect finds the token of the daemon it connected to, as   *)
(* long as no daemon was replaced (main.rs 262-264, "socket is             *)
(* connectable implies token is on disk").                                 *)
TokenOnDisk == Irregular = {} /\ Connectable => token = socket

(* A daemon that boots takes no agent of a running daemon for an orphan    *)
(* (main.rs 284-287, "nothing live is touched").                           *)
SweepSparesLive ==
  \A d, e \in Daemons : at[d] = "sweep" /\ Alive(e) /\ e \in agents => d \in Irregular \/ e \in Irregular \cup late

(* A daemon that ends for idleness has no agent, and its store no enabled  *)
(* schedule, but for work that came after it had decided, and for an agent *)
(* spawned without a connection between the read of the sessions and that  *)
(* of the idle clock (manager.rs 3348-3355), which spawn_agent touches     *)
(* last (573).                                                             *)
IdleMeansIdle ==
  \A d \in quit : at[d] = "serve" /\ (d \in agents \/ (scheduled /\ Knows(d))) => d \in late

(* No store that could be opened is moved aside, as long as no daemon was  *)
(* replaced (store.rs 271-278, open_or_recover: recovery must never        *)
(* destroy a healthy store that merely failed to open).                    *)
HealthyStays == moved # {} => Irregular # {}

(* A daemon that serves shows no session of a dead daemon as running       *)
(* (store.rs 378-389, migrate; the sweep of gc_tick), unless one of the two *)
(* was replaced, or the dead one got work while it ended.                  *)
NoGhost ==
  \A d \in Daemons \ Irregular :
    Serving(d) /\ Knows(d) => \A e \in running : Alive(e) \/ e \in Irregular \cup late

-----------------------------------------------------------------------------
(* The inductive invariant of the proofs (DaemonLifecycle_proofs).         *)

Unopened == {"off", "open", "lock", "token", "look", "unlink", "bind", "load", "aside", "renew"}
Holds(d) == at[d] \notin {"off", "open", "lock", "gone"}
In(d) == Holds(d) /\ end[d] # "exit"

PeerInv == \A c \in Clients : op[c].pc \in {"hello", "sent", "using"} => op[c].peer # None

\* flock: no two daemons hold the same file; and until it has removed it, the
\* file a daemon holds is the one in the directory, unless somebody removed it.
LockInv ==
  /\ \A d \in Daemons : at[d] \in {"off", "open"} <=> opened[d] = None /\ at[d] # "gone"
  /\ \A d, e \in Daemons : Holds(d) /\ Holds(e) /\ opened[d] = opened[e] => d = e
  /\ \A d \in Daemons \ Irregular : In(d) => opened[d] = lockFile
  /\ \A d \in Daemons : end[d] # "none" => at[d] \in {"serve", "gone"}

\* The socket is that of a daemon that has bound it and not cleaned up, and the
\* token that of the one that boots or listens.
TokenInv ==
  /\ \A d \in Daemons : socket = d =>
       /\ at[d] \in {"load", "aside", "renew", "sweep", "serve", "gone"}
       /\ at[d] = "serve" => end[d] \in {"none", "socket"}
  /\ Irregular = {} => /\ \A d \in Daemons : at[d] \in {"look", "unlink", "bind"} => token = d
                       /\ Connectable => token = socket

\* A store is made once, by a daemon that has none, and while no daemon was
\* replaced the one that moves a store aside still finds the corrupt one.
StoreInv ==
  /\ \A d \in Daemons : at[d] \in Unopened =>
       keeps[d] = None /\ store # d /\ \A e \in Daemons : keeps[e] # d
  /\ Irregular = {} => moved = {} /\ \A d \in Daemons : at[d] = "aside" => rotten

\* What the daemon looks at before it ends stays so, or resets its clock.
IdleInv ==
  \A d \in Daemons :
    /\ d \in agents => at[d] \in {"serve", "gone"}
    /\ alone[d] /\ end[d] = "none" /\ d \in agents => fresh[d] \/ d \in spawning
    /\ at[d] = "serve" /\ end[d] # "none" /\ d \in agents => d \in late
    /\ d \in quit => end[d] # "none"
    /\ d \in quit /\ at[d] = "serve" /\ scheduled /\ Knows(d) => d \in late

\* The rows that say running are those of the daemon that keeps the store.
GhostInv ==
  \A d \in Daemons \ Irregular :
    In(d) /\ Knows(d) => \A e \in running : e = d \/ e \in Irregular \cup late

LifecycleInv ==
  TypeOK /\ PeerInv /\ LockInv /\ TokenInv /\ StoreInv /\ IdleInv /\ GhostInv
=============================================================================
