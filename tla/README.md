# Taime: verification of the session daemon

TLA+ specifications of the parts of Taime whose correctness depends on what
happens at the same time, in what order, and over crashes. TLC checks each on a
small instance; for all of them TLAPS proves the safety properties for every
value of the constants.

Taime is a desktop app for running several coding agents side by side. The
agents run in pseudo-terminals owned by a daemon
(`src-tauri/crates/taime-session-daemon`) that outlives the app. The app (Tauri
backend in `src-tauri/src`, React frontend in `src`) attaches to the daemon over
a Unix socket (`taime-protocol`); agents reach it as an MCP server.
Line numbers in the text below are of `src-tauri/crates/taime-session-daemon/src`
unless a path says otherwise.

## 1. Inventory

### Components and their state

| Component (source) | State | Operations | Module |
|---|---|---|---|
| Session stream (`session.rs`, `conn.rs`) | PTY, emulator grid, `Flow` (`paused`, counters), client slot, child handle, `dead`, `finalized`, kill deadline | reader thread, `attach`, `detach_if_conn`, `ack`, `kill`, `reap_if_exited`, `escalate`, connection loop | `SessionStream`, `TerminalFeed` |
| Turn attribution (`attribution.rs`, `session.rs`) | offsets, epoch, `turn_dirty`, opening time, path sets of the turn and the badge, `turns` and `fs_events` rows | `feed`, `checkpoint`, `quiet_check`, `note_fs_changes`, `clear_fs_dirty` | `Turns` |
| Agent registries, assignment (`manager.rs`) | session map, MCP tokens, roles, assign tree, `daemon_sessions` rows | `spawn_agent`, `assign_worker`, `gc_tick` sweep and fan-in | `Agents` |
| Inbox and delivery (`manager.rs`, `store.rs`) | `inbox` rows, readiness by screen, delayed Enters | `enqueue_message`, `deliver_pending` | `Inbox`, `Mailbox` |
| Interactions (`manager.rs`, `mcp.rs`, `store.rs`) | interaction rows, calls in flight | `request`, `reply`, plain messages, `prune_history` | `Interactions` |
| Provider settings (`providers/*`) | users' settings files, file lock, cleanup ledger | merge, remove, boot replay | `ProviderSettings` |
| Review gate and merge (`session.rs`, `manager.rs`, `diff.rs`, `store.ts`, `DiffView.tsx`) | dirty set, review row, served diff and digest, target tree and its HEAD, ledger of merges | note, `clear_dirty`, `mark_reviewed`, `apply_selection`, `commit_merge`, `revert_selection`, `finalize_merge` | `ReviewGate` |
| Workflow engine (`workflow_engine.rs`, `manager.rs`, `mcp.rs`) | run and node-run rows, active count, blackboard | `run_workflow`, `drive`, `wait_for_output`, cancel | `WorkflowRun` |
| Worktree archive and reclaim (`manager.rs`, `worktree.rs`) | checkouts, archive refs, worktree rows, cached review patches | provision, `archive_and_reclaim`, `sweep_worktrees`, `collapse_worktrees_once`, `reclaim_agent`, `delete_workspace` | `Worktrees` |
| Schedules (`manager.rs`, `schedules.rs`, `store.rs`) | schedule files and rows, next fire time, single-flight flag | `check_schedules`, `fire_schedule`, `run_schedule`, create, enable, delete, load at boot | `Schedules` |
| Daemon lifecycle (`main.rs`, `runtime.rs`, `listener.rs`, `reap.rs`, `store.rs`, the app's `daemon.rs`) | lock, pid, token and socket files, the store file, idle clock | boot, recovery of the store, idle shutdown, SIGTERM, clean-up, replacement by the app | `DaemonLifecycle` |
| App-side attach client (the app's `daemon.rs`, `TerminalViewRustPty.tsx`, `conn.rs`) | attach generations, handle map, pump tasks, connections | attach, detach, kill, pump | `AttachClient` |
| Watcher and shared claims (`fswatch.rs`) | claim map with a window of 2 s | claim, attribute | not modelled |
| Diff and hunks (`diff.rs`) | none (pure) | parse, select, assemble | not modelled |
| Durable store (`store.rs`) | SQLite tables, schema version | open, recover, migrate, prune | in the modules that use it |
| MCP server (`mcp.rs`) | none of its own | tool calls | in `Interactions`, `WorkflowRun` |
| Wire protocol, providers' launch and status patterns, frontend, UI, app shell | encoding, rendering | | not modelled |

### How they interact

- A session's reader thread feeds the emulator, `Attribution` and the attached
  connection's queue; `finalize_exit` runs the provider cleanups and tells the client.
- One maintenance tick (`main.rs` 330-372, every 250 ms, single-flight) runs
  `gc_tick` (3287-3356 of `manager.rs`): sweep of the dead, fan-in to parents,
  reaping, kill escalation, quiet-window turns, inbox delivery, and the idle
  decision that ends the daemon. So one thread serves `SessionStream`, `Turns`,
  `Agents`, `Inbox` and `DaemonLifecycle`, in a fixed order.
- Every 30 s a thread of its own checks the schedules; every 10 minutes one
  sweeps worktrees; once a day one prunes old rows.
- `assign_worker`, the workflow engine and a firing schedule spawn agents through
  `spawn_agent`, which merges provider settings, writes the cleanup row and fills
  the registries.
- Everything agents say to one another, `request` and `reply` among it, ends in
  an inbox row, which the tick types into the receiver's terminal.
- Workers post results on the blackboard (`share_context`); the engine polls it.
- The watcher's callback notes paths (`Turns`) and invalidates the review
  acknowledgement (`ReviewGate`) of the same session.
- Retention archives the trees the review gate serves diffs of (`Worktrees`);
  `ReviewGate` has the switch from the live tree to the archive.
- The app starts, adopts and replaces daemons (`DaemonLifecycle`) and holds one
  connection for each terminal view (`AttachClient`), the other end of which is a
  client of `SessionStream`.
- Everything durable goes through one SQLite connection: each statement is
  atomic, sequences of them are not, and this is how the models take them.

### What is hard here

Several threads hand one session on without a common lock: the reader, the tick,
the connection handlers, the watcher, spawner threads, blocking jobs. The code
looks at a set, lets go of the lock, and acts on the copy. The durable half of a
step may succeed and the other fail, or the daemon may die in between. Readiness
is inferred from a screen that trails the agent. Files are removed by their path,
whosever they are by then. PROJECT.json lists the hazards
at their lines, with the properties that cover each, or why none does.

### What makes each correct

- *Session stream*: a terminal shows an exact prefix of the output, over any
  attach, replacement and detach; backpressure never leaves the reader asleep
  without somebody who owes an acknowledgement; a process is waited for before
  it is called dead, and the exit path runs once; output drains; kill lands.
- *Turns*: rows tile the output; each is stamped with its first byte; each
  change is charged to exactly one turn, or cleared from the open one and still in
  its record; the badge and the rows agree.
- *Agents*: fan limit; the sweep takes everything of the dead and nothing of
  the living; slots come back and parents hear of it once.
- *Inbox*: in order, none lost, none twice but for a failed update, submitted.
- *Interactions*: row and messages agree, two answers go out only of replies that
  overlapped; an accepted answer is heard.
- *Provider settings*: an edit of a file it can parse touches no name but its own;
  every entry is owed by a ledger row; the ledger is worked off.
- *Review gate*: an acknowledgement covers what was reported; only what was
  served is merged or discarded; a commit holds what was served, never conflict
  markers; the ledger of merges is of commits.
- *Workflow engine*: cap; routing by the node's own result; no stray worker;
  a run ends, a verdict is final.
- *Worktrees*: nothing is lost outside known windows; a reclaimed agent's
  review shows its archive.
- *Schedules*: an instant fires once and only for a schedule that is wanted; no
  orphan tasks; what is due is served.
- *Daemon lifecycle*: one server; no idle exit over work; a healthy store stays
  in place; no session of a dead daemon shows as running.
- *Attach client*: the view on the screen is fed, keeps its attach from late attaches
  and closes of others' generations, and leaves nothing attached behind.

## 2. The modules

Common conventions. One action per step between two points where another thread
can get in: a lock taken and released, a statement of the store, a system call.
`pc`, `at`, `stage`, `gcAt`, `tick` and `job` name the point a thread is at. Variables
marked *history* are read by no guard; properties use them to speak of what
happened. Operators that differ from the code on purpose stand before the one
they would replace and are used by nothing (`FlockAlways` before `Flock`): each
is a plausible bug that the property it is paired with in PROJECT.json catches.

**SessionStream** (`session.rs` `attach`, `ack`, `kill`, `spawn_reader`,
`finalize_exit`; `conn.rs` `handle`; the tick). A byte of output is its position
in the stream. `kbuf` is the kernel's buffer, `hold` the chunk the reader has
read and not yet published, `out` the offset of the grid. A connection is a
queue of frames in each of which `from` and `to` say which state it starts from and leads
to; its terminal is the state it shows, or `Garbled` when a frame does not
continue it. The reader's loop is `ReaderTop`, `ReaderWake`, `ReaderRead`,
`ReaderPublish` (grid, frame and watermark under one lock), then the exit path
`FinalizeSwap` to `FinalizeAnnounce`, which the tick runs too; the child mutex
(`childLock`) is what `FinalizeLockChild` and `GcTryWait` contend for. Because a
condition variable loses a notification nobody waits for, `Notified` is a
transition of the waiting reader only.

**TerminalFeed** is the abstract specification: output is produced, each
terminal moves forward to the state after a prefix of it. It has no threads,
queues, watermarks or kills.

**Turns** (`attribution.rs`, and the parts of `session.rs` that keep the opening
time, `turn_dirty` and the path sets beside it). `Publish` feeds a chunk with or
without an OSC 133 end-of-command marker; `Checkpoint` comes from the app,
`GcQuietCheck` from the tick; `NoteChanges` and `RecordAndPush` are the two halves
of the watcher's callback, between which `ClearDirty` may come. `ClearDirty` empties
the badge and the set of the open turn, so what it clears is in no row; the history
`cleared` keeps it, and `BadgeAccounted` has it among the fs events.

**Agents** (`manager.rs` `spawn_agent`, `assign_worker`, `gc_tick`). `at` walks
a spawner through `SpawnSession`, `InsertToken`, `InsertRole`, `RecordSession`
and `Swap` (the child's node replaces the reservation). The tick takes the dead
out of the map in one step and forgets the rest of them in later ones.

**Inbox** (`manager.rs` `deliver_pending`, `store.rs`). The tick takes the list
of receivers, then for each one that is ready reads the oldest pending row,
types it, marks the row, and leaves the Enter to a thread. `screen` is what the
daemon sees; `ScreenFollows` brings it level with `working`.

**Mailbox** is the abstract specification of the inbox: rows are given to each
receiver in order, none skipped, one again for each failed update. `Inbox` is
shown to implement it, and `Interactions` is built on it, so what holds there
rests on the promise and not on the details of delivery.

**Interactions** (`manager.rs` 2053-2126, `mcp.rs`, `store.rs`). A tool call is a
thread whose statements interleave with those of others: `request` opens a row
and enqueues the question, `reply` reads the row, answers it in a second
statement by id alone and enqueues the answer. An interaction is named by the
request call that opened it. `Tell` is any other sender. One statement may fail (the
opening row, the answering update, an enqueue) or one old row be pruned
(`MayFault`). The history `late` has the replies that were accepted after another had
answered.

**ProviderSettings** (`providers/config.rs`, `providers/mod.rs`, `manager.rs`
525-548 and 3248-3272, `session.rs` 840-864). The file maps each server name to
the session, or the user, whose entry it has. Merge and removal are
read-modify-write under the file lock; the ledger row is written after the merge and
deleted after the removal; `Crash` may come between any two steps and `Boot`
replays what the ledger lists. `parses` says whether the file is JSON at all: a merge
that finds it is not starts over from `{}` (`config.rs` 205-211), a removal leaves it
alone.

**ReviewGate** (`session.rs` 653-690, `manager.rs` 933-1491, `diff.rs`
`apply_selection`, `commit_selection` and `revert_selection`, the app's
`markFrameReviewed`). File contents are versions. A merge is of one of three
kinds, a commit, an application without one, or a revert of the agent's own
tree. `Merge` and the gate read the acknowledgement, `Assemble` has the digest
check, `ApplyClean`, `ApplyConflicted` and `ApplyRefused` are the outcomes of
`git apply`, `FinishCommit` the provenance commit or its failure,
`FinalizeMerge` the row of the ledger. When the agent's checkout is reclaimed
its work is read from the archive from then on.

**WorkflowRun** (`workflow_engine.rs`, `manager.rs` `run_workflow` and
`cancel_workflow_run`, `mcp.rs` recursion gate, `store.rs` `finish_run`). One
engine per run; worker `<<r, i>>` runs the i-th node of run r. `Share` puts a
result on the blackboard under any key, its own node's (where a later turn of a
loop looks too), another node's or another run's. `CreateFails` is a start whose
row cannot be written; its slot goes back (2730-2733). `CheckRun` and `Look` are the
two reads of one poll, of the run's row and of the board; `Look` takes an entry only
from the node's own worker (the author check of `wait_for_output`).

**Worktrees** (`manager.rs` 603-715 and 3044-3240, `worktree.rs`). A thread
runs one job: a sweep, the collapse of what older daemons left, a clean-up or a
deletion. The archive is `Look`, `Read` (snapshot of the checkout), `UpdateRef`,
`CachePatch`, `MarkArchived`, `StartRemoval`, `EndRemoval`, `MarkReclaimed`,
each interruptible by the other thread or by a crash. A snapshot of a checkout
another removal is emptying is `Torn`.

**Schedules** (`manager.rs` 2160-2505, `store.rs` 1537-1654). A check works
through copies of the due rows: claim, gate, target task, fire. `run_schedule`
shares the second half and claims last. Creating computes the next instant, writes
the file, then stores row and instant (`CreateFile`, `CreateRow`), so the instant may
have passed by then; deleting is `DeleteFile`, `DeleteRow`; enabling is
two statements. `Boot` reads the files and moves every enabled row forward, each
of which may fail unnoticed.

**DaemonLifecycle** (`main.rs`, `runtime.rs`, `listener.rs`, `reap.rs`,
`store.rs` 258-316, the app's `daemon.rs` 146-293). A file is named by the daemon
that made it, so one that was unlinked and made again is another. A daemon walks
from `OpenLock` to `SweepOrphans`, one system call a step, and ends by `Cleanup`,
three unlinks by path. Agents come over a connection (`Use`) or from a workflow that
runs (`Headless`), where the session is in the map before the idle clock is touched.
An operation of the app connects, says hello with the
token it reads, and, if the daemon is unusable, goes through `restart_daemon`.
The store may rot; a daemon that finds it corrupt moves it aside, or cannot
(`RenameFails`).

**AttachClient** (the app's `daemon.rs`, `conn.rs`, `TerminalViewRustPty.tsx`).
Views of one session come and go, one on the screen at a time. `attach` mints its
generation (`Mint`) some time after its view mounts, so the order of generations need
not be that of views. A view that goes closes its generation (`LandClose`, some
time later); a frame that is closed sends a close of its own without one
(`LandBare`), which takes whatever handle there is. `Ask` and `LastLook` are the two
looks at the handle map; the pump is `PumpSends`, `PumpReads`, `PumpClosed`, `PumpCut`. The
daemon knows no generation: the last `ReadAttach` wins. The bytes are
`SessionStream`'s; a message here is a name.

The parts of the daemon share agents and sessions, but most modules are kept
separate: each takes what it needs of its neighbours as an environment action
(an agent exits, a session is swept, a path is noted). Where one component relies
on another's promise, the promise is a module (`Mailbox` between `Inbox` and
`Interactions`, `TerminalFeed` for what a terminal may rely on).

## 3. What is checked

All runs pass (states are distinct states):

| Run | Instance | States | Shows |
|---|---|---|---|
| `stream_safety` | 1 connection, watermarks, chunk and kernel buffer of 1 byte, 3 bytes of output, 1 frame queued when it attaches again, fair client | 362k | `ParkedIsOwed`; that the session implements `TerminalFeed` (`FeedSpec`); `ReaderEnds`, `ViewerSeesAll`, `KillLandsOnTty` |
| `turns_safety` | 1 path, 2 chunks, clock 0-1 | 337k | `Tiling`, `PathsChargedOnce`, `BadgeAccounted`, `QuietOutputCloses` |
| `agents_safety` | 3 agents, depth 1, fan 1 | 693k | `FanBound`, `CleanSweep`, `SlotFreed` |
| `inbox_safety` | 2 receivers, 2 messages, 2 failing updates | 229k | that the inbox implements `Mailbox` (`MailboxKept`); `EventuallySubmitted` |
| `interactions_safety` | 2 agents, 3 calls and 1 plain message, 1 failure | 435k | `AnswersAgree`, `AnswerIsHeard` |
| `settings_safety` | 3 sessions over 3 names, two of which the user has too, a user who breaks and repairs the file, 1 crash | 130k | `OthersKept`, `EntryIsOwed`, `RowWorkedOff` |
| `review_safety` | a changed and a created file, 2 writes, 1 edit of the user's, 2 merges, failing commits | 4.7M | `AckCoversReports`, `ServedOnly`, `CommittedWasServed`, `RecordIsTrue` |
| `workflow_safety` | 2 runs over 1 slot, a failing start, 2 nodes that loop and share a key, 2 polls | 147k | `CapHeld`, `RouteFollowsWorker`, `NoStrayWorker`, `RunEnds` |
| `worktrees_safety` | 1 agent, 2 threads, 3 jobs, 2 crashes | 671k | `LossIsKnown`, `ReviewShowsArchive` |
| `schedules_safety` | 1 schedule, 2 checks, 1 caller, 1 fault, 1 crash, clock 0-2 | 530k | `FreshInstant`, `DueIsWanted`, `NoOrphanTask`, `DueIsServed` |
| `lifecycle_safety` | 2 daemons, 2 operations of the app, workers of a workflow, 1 fault | 1.7M | `OneServer`, `IdleMeansIdle`, `HealthyStays`, `NoGhost` |
| `attach_safety` | 2 views, 1 cut | 1.2M | `LiveIsFed`, `OpenStaysOpen`, `NoPhantom` |

Stated in the modules and not among these runs, which are kept to what a few
minutes each can do. Proved (section 5): the type invariants;
`ScreenExact`, `ViewerCurrent`, `ReapSound` (SessionStream), `OpenTurnAgrees`,
`StartedAtFirstByte` (Turns), `LiveStaysRegistered` (Agents), `QuietMeansClean`
(ProviderSettings), `SweepSparesLive` (Worktrees, DaemonLifecycle), `TokenOnDisk`
(DaemonLifecycle), `TypedIsSubmitted` (Inbox). To check one, name it in the module's
configuration. The inductive invariants of the proofs (`AgentsInv`, `GateInv`,
`WorktreesInv`, `ScheduleInv`, `WorkflowInv`, `LifecycleInv`, `InboxInv`,
`InteractionsInv` among them) hold on the instances of the runs as well; they were checked
before they were proved.

### Bounds, and why they are enough

- *Stream*. The defects at issue need a client that attaches again while a frame is queued
  and a chunk is read but not published: one byte each of
  chunk and watermark, three bytes of output. With the low watermark equal to the high
  one every acknowledgement matters. The
  numbers themselves (2 MiB, 512 KiB) do not matter: the proofs have them as
  constants. Several connections that replace one another are left to the proofs
  of the same definitions, which hold for any set of them; a larger instance without
  liveness (2 connections, 3.2M states) agrees. `MaxQueue` bounds only what is queued
  on a connection that *attaches again*, not what the reader sends.
- *Turns*. Two chunks give two turns, each of which any of the four causes may
  close; one path shows each set membership; two clock values tell the first
  byte from the boundary before it.
- *Agents*. Three agents are a parent, a worker and either a sibling (fan) or a
  child of the worker (depth). Larger limits add no new step.
- *Inbox*. Two messages to one receiver give order and the second typed
  over the first's Enter; two receivers give the tick's list; two failures type
  a message twice and then another.
- *Interactions*. Three calls are a request and two replies that overlap, or two
  requests and a reply; the plain message stands between question and answer. One
  fault, of any of the three kinds. `Tell` is bounded by what the calls do not
  need, so that it never keeps a call from its enqueue.
- *Settings*. Three sessions: two that share a name, one apart, with a user's
  own entry under one of the names and under a name nobody wants. The user may break
  the file at any step and repair it. One crash, since a boot must finish
  before a second differs from it.
- *Review*. Two merges let a failed one be retried; two writes let content
  move between serving and merging; the created file takes git's other path. The
  exception `moved` of `RecordIsTrue` needs three writes; an instance with them
  (24M states) passes too.
- *Workflow*. Two nodes under one key: a looping node meets its own earlier output
  and the second that of the first, and any worker may post where any node looks;
  another run's workers could do no more. The run ends at its iteration limit or at its
  last node, the second at its limit at once. Two runs over one slot have a refusal, a
  slot given back by a start that failed and one taken again; 4 runs over 2 slots
  (1.1M states, `CapHeld` alone), and a loop of 3 turns with a node cap of 2 and two keys
  in one run (259k), pass too.
- *Worktrees*. Two threads meet on one agent, three jobs and two crashes let a
  removal be interrupted and taken up twice. The rank of an agent among others
  (`Newer`, `Keep`) is in the module, but with one agent and `Keep = 0` the
  retention count does not decide between agents; two agents are too many states.
- *Schedules*. Every tick of the clock is an instant of every expression, so two
  ticks give an instant that is missed, one that is claimed and a next one, and an
  edit that holds the first while the tick fires for it. Two checks contend for the flag, one caller edits, deletes or runs beside them.
- *Lifecycle*. The daemon that runs and the one that starts, and two operations of
  the app, one of which may be replacing the daemon the other talks to. One fault
  is a crash, a hang, a store gone bad or one that does not open. Before the store was
  part of the module, 3 daemons with 1 client and 2 daemons with 3 operations passed
  (5M states each).
- *Attach*. Two views give each order of one's attach around the other's close,
  in either order of generations. One cut breaks either connection, or times out
  one attach, at any step; larger instances take too long, the theorems hold for any
  number of views and cuts.

`CHECK_DEADLOCK FALSE` stands in every configuration: the modelled worlds end
(output is exhausted, agents are gone, jobs are used up). That nobody waits
for ever is the business of the liveness properties.

`worktrees_safety` uses the symmetry of threads and `lifecycle_safety` that of the
app's operations, both without liveness properties. The `VIEW` of `lifecycle_safety` and of `review_safety`
leaves out or normalises what no guard and no property tells apart
(`MCDaemonLifecycle`, `MCReviewGate`).

### Fairness

- `DaemonFairness`: the reader and tick threads run; the timer of the kill
  grace expires; the kernel delivers
  SIGKILL; a handler notices that its socket is gone.
  SIGTERM is not fair: an agent may ignore it.
- `ClientFairness`, for `ViewerSeesAll` and `ReaderEnds`: an attached client
  reads and acknowledges what it shows, as the app's pump does. Both say nothing
  of clients that do not.
- `TickFairness`, `GcFairness`, `DeliveryFairness`: the interval of `main.rs` and the
  threads it starts; the delayed Enter's thread wakes up. `DeliveryFairness` also
  assumes that agents end their turns; `EventuallySubmitted` is about those.
- `InteractionsSpec`: the thread of a call runs on, nothing it does waits for
  another call; the mailbox gives a receiver what it is owed, which is what
  `EventuallySubmitted` shows of the inbox.
- `SettingsFairness`: sessions get the file lock (strong fairness, `flock` is
  contended), a daemon that is down is started again by the app, agents exit.
- `EngineSpec`: the engine's thread runs. Nothing is assumed of workers, that is
  what its timeout is for.
- `ScheduleFairness`: a check is started every 30 s and runs on, its gate ends
  within `GATE_TIMEOUT`; a daemon that is down is started again. Nothing is
  assumed of the user's calls.
- `AttachFairness`: the tasks of the app's runtime and of the daemon's connection
  loops run. Nothing is assumed of users, agents and the network.

## 4. Where the code and its comments part

What the models showed the code to do, against what a comment says of it. The
properties take each as a named exception, or are stated so that it is not claimed.

- *A dead session's reader.* `session.rs` 877-879 says a parked reader
  breaks out when its agent dies "instead of waiting forever". `spawn_reader`
  looks at `dead` only after a wait. A reader that finds `paused` set after the
  announcement waits with nobody left to notify it; a later acknowledgement or
  detach wakes it, death does not. `ReaderEnds` needs `ClientFairness` for this.
- *The acknowledgement.* `session.rs` 653-656 says a change reported
  invalidates the standing review, so that the gate's reviewed is always
  current. A change reported while `markFrameReviewed` runs
  is invalidated first and covered by the acknowledgement that lands after
  (`manager.rs` 1480). `ServedOnly` still holds: the digest stops the merge of
  content not served.
- *Clean up now.* `manager.rs` 3108-3113 calls the clean-up non-lossy. An agent
  provisioned but not yet spawned counts as dead; what it writes between the
  snapshot and the removal is in neither (`unsaved` in `LossIsKnown`).
- *The newest attach.* The app's `daemon.rs` 78 says the newest attach wins. Its look
  at the map (463) and the Attach it sends are two steps, and the daemon knows no
  generation: an older attach can overtake the newest there, which then gets no
  output although its handle is the live one (`overtaken` in `LiveIsFed`). And newest
  is by generation: an attach of an earlier view that is minted late takes the handle
  of the view on the screen (`InOrder` in `OpenStaysOpen`).
- *A stale view's detach*. `commands.rs` 316 says a stale view can never detach a newer attach. `closeFrame`
  (`store.ts` 1099-1124) removes the frame and then sends a close without a generation,
  which takes out whatever handle there is (the app's `daemon.rs` 659-664): if the session
  is reopened meanwhile, that of the new view (`robbed` in `OpenStaysOpen`).
  `DetachSparesLive` states what the comment says; TLC finds it violated on the instance
  of `attach_safety`.
- *Replacing a daemon.* The app's `daemon.rs` 263 signals the pid in the lock file
  after a handshake that failed, where its comment has a live daemon just
  handshaken; the files are then removed whosever they are. A daemon that outlives this
  goes on without files, its `cleanup` (`main.rs` 171) later removes another's, and
  the next boot sweeps its agents as orphans, though `main.rs` 284-287 and `reap.rs`
  5-8 say nothing live is touched (`replaced` in `OneServer`, `SweepSparesLive`).
- *The user's edits in a provenance commit.* `diff.rs` 767-768 says "ONLY the agent's
  applied hunks". `finish_commit` commits the working tree's file: what the user writes into
  it between the apply and `git add` is committed too (`foreign`).
- *A process's end as a boundary.* `attribution.rs` 6-9 ranks process lifecycle among the
  boundaries; nothing produces that cause, and a session that dies is swept before
  `quiet_check`: its open turn is not recorded.
- *Delivery.* `manager.rs` 752 says a mid-turn agent is never interrupted; readiness
  is read off a screen that may be behind.
- *The cleanup ledger.* `manager.rs` 525-528 says a merged entry must be
  reconcilable on boot; a crash between merge and row leaves one no boot knows of
  (`orphan` in `EntryIsOwed`), and a removal that fails drops its row all the same.
- *The settings file started over*. `config.rs` 205-211 replaces a file that does not
  parse by `{}` before it merges: the user's servers are gone (`blind` in `OthersKept`).
  `OthersKept` protects by name, not by owner: each session's server is "taime"
  (`manager.rs` 512), so sessions that share a file overwrite and remove each
  other's entry.
- *An instant claimed up front.* `manager.rs` 2403-2411 claims an instant before it
  fires so that nothing fires it again. An edit computes the next instant at 2231 and
  stores it at 2286: when the tick fires for that instant in between, the edit puts it
  back and it is fired once more (`excused` in `FreshInstant`).

Others that no comment contradicts, excepted by name: agents that exit during their spawn
(`early` in `CleanSweep`, `SlotFreed`); a schedule whose claim failed, which the start
could not move on, or that was enabled while past due (`excused`), a schedule file that
could not be removed or that a creation wrote while the deletion was under way
(`leftover`) and a task whose roll-back failed or met a crash (`strays`); work that
comes to a daemon that has decided to end, or a worker spawned without a connection
between the two reads of the decision (`late`); a ledger count the agent
outran (`moved`); a stale detach that lifts a viewer's backpressure once.

## 5. What is proved

For all values of the constants (any connections, chunk and buffer sizes,
paths, sessions, names, crashes, views), from each module's named assumption alone:

*Terminal_proofs*, of the two ends of a terminal. `SessionStream`: `StreamInvariant`, and from it `TypeSafety`,
`ScreenSafety`, `ParkedSafety`, `ReapSafety`, and `Refinement` (`Spec =>
FeedSpec`). That a screen shows a prefix is not inductive: what a client will show
depends on the frames in its queue. `StreamInv` adds that queued frames continue
one another (`Linked`), so that `Pos(c, i)` is well defined, and that the last
one of the attached client leads to `out` (`FeedInv`); that is why the next chunk may be sent without
looking at the queue, and why a repaint may jump the queue's end. Backpressure
needs `FlowInv`: paused means a client is attached and owes `Low` bytes. The
exit path needs `ReapSound` for both threads at once. Every action is shown to
keep each of the four parts; in the refinement `Receive` is the abstract
`Show`, `ReaderPublish` is `Produce`, the rest stutters.
`AttachClient`: `AttachInvariant`, and from it `OpenSafety` and `FedSafety`,
for any number of views and cuts. `AttachInv` ties both ends together. `NewestInv`:
views mount one after the other and none has a close under way before it goes, so a
close that names a generation is never the mounted view's. `OpenStaysOpen` carries itself
from there: of views whose generations are in order, whoever else takes a last look finds
itself superseded. `HandleInv`: a handle is of an attach that came through, and until
it is dropped nothing but its Attach is on its wire, so a Detach the daemon reads is
never the live view's. `ConnInv`: an answered attach has its connection at the daemon
while the link is up, and the session streams to it unless an older Attach, read
later, is in `overtaken`; that exception is needed (section 4).

*Turns_proofs*: `TurnsInvariant`, `TypeSafety`, `TilingSafety`,
`OpeningSafety`, `PathsSafety`, `BadgeSafety`. Rows alone do not say what
the next one will be; `TurnsInv` carries the open turn: that `saw_output`, the
opening time and the offsets agree on whether it has bytes (`OpenTurnAgrees`), and that
the set of the open turn is what was noted in its epoch. Closing a turn is one
lemma about appending a row, used by all its causes. `BadgeAccounted` carries
itself: every path the badge, a row or a clear has seen came through the callback's batch.

*Spawn_proofs*, of `Agents` and `ProviderSettings`, the two sides of a spawn.
`AgentsInvariant`, `FanSafety`, `RegistrationSafety`, `SweepSafety`: the fan limit
follows from counting reservations and nodes (`FanInv`), which needs that the swap
gives one back for one it takes (`SpawnInv`: how far a spawn has come bounds
what it has registered, and says whether it holds a reservation). `OwedInv` is what the sweep
still owes an agent, less at each of its steps. `EditInvariant` (the lock admits one
editor, whose copy is the file), `SettingsTypeSafety`, `EditSafety` (an action property),
`OwedSafety`, `CleanSafety`: an editor that found the file unreadable is in `blind` as long
as it holds the lock, and only such a one changes names it does not want. `FileInv` adds that
a session's entries stand only under names it wanted and are gone once removed.

*Schedules_proofs*: `ScheduleInvariant`, `NoInstantTwice`, `OnIsWanted`,
`TasksAccounted`. `JobInv` says what each thread holds and that one check runs at a time.
`FreshInv`: but for the excused, neither a row that is on nor a copy a thread has read is of
an instant that is settled, and a row claimed is past the instant it was claimed for; an
edit that stores an instant settled since makes its schedule one of the excused. `WantedInv`: a
file on disk, or a creation half done, brings back only what is wanted; here the proof
failed at first, since a creation that overlaps a deletion of the same name brings the
schedule back; the model has had it in `leftover` since. Tasks are counted.

*WorkflowRun_proofs*: `WorkflowInvariant`, `CapSafety`, `RouteSafety`, `StraySafety`.
The count of active engines is the number of threads between claim and release
(`CapHeld` carries itself, by counting, a start that fails included). `RouteInv`: what is on
the board under its author's own key was posted by its author, what an engine has got is of
its own node's worker, and the node it goes to next is the one the result leads to; what is
recorded when a node completes (`Recorded`) then is its worker's too. `PathInv`: only a node
that was entered has a worker.

*DaemonLifecycle_proofs*: `LifecycleInvariant`, `ServerSafety`, `TokenSafety`,
`OrphanSafety`, `IdleSafety`, `StoreSafety`, `RowSafety`. `LockInv`: a flock is held by
one, and the file its holder has locked is the one in the directory unless it has
been removed by an app that replaces its daemon; so of the daemons past the lock all but one are in
`replaced`. The others say who wrote the token in the directory, that a name of a
store is made once, what the idle clock has seen, and which rows a boot has still to mend.

*Review_proofs*, of `ReviewGate` and `Worktrees`, from which an agent's work leaves its
tree for a merge or for the archive. `GateInvariant`, `AckSafety`, `ServedSafety`,
`CommittedSafety`, `LedgerSafety`: `AckCoversReports` carries itself; `CommitInv` says that a selected
file in the target is of the last commit, of what the digest names, or written by the user
(`foreign`); `LedgerInv` lets a commit run ahead of its row and says which tree a count is of.
`WorktreesInvariant`, `LossSafety`, `ArchiveSafety`, `SparedSafety`: what a thread has in hand
is dead and provisioned (`ThreadInv`), and before it touches the checkout the archive
holds the work and the review shows it (`ArchiveInv`, `Secured`). Two threads archive one agent
without a lock: unless the agent is one of the excused, a later snapshot is the same work, so the
other's `UpdateRef` changes nothing.

*Messages_proofs*, of `Inbox` and `Interactions`. `InboxInvariant`, and from it
`SubmittedSafety` and the refinement `MailboxRefinement` (`Spec => MailboxKept`). That a receiver
gets its rows in order rests on what a row's status says of what was typed (`OrderInv`:
delivered means typed, failed means the receiver cannot be reached any more, a typed row that is pending still
is the last one); that a row is typed again no more often than updates fail is a count
(`CountInv`), which lends one failure in advance while a typed row is pending. In the refinement `InputOk` is
`GiveNext` or `GiveAgain`, a failed update `MarkLost`, the sweep `Leave`, the rest stutters.
`InteractionsInvariant` and `AgreementSafety`: an accepted reply is to a request that has opened its
row (`PartiesInv`), so a row has no answer before it exists, and the requester a reply has read is
the one the row still names when the answer is posted; no accepted reply read the
row after another had written its answer.

TLC's and TLAPS's instances of a statement are the same definition: a theorem
names the property the run checks.

## 6. Only model-checked, and not modelled

Liveness (`ReaderEnds`, `ViewerSeesAll`, `KillLandsOnTty`, `QuietOutputCloses`,
`SlotFreed`, `EventuallySubmitted`, `AnswerIsHeard`, `RowWorkedOff`, `RunEnds`,
`DueIsServed`, `NoPhantom`) is out of the proof system's reach and stays with TLC. Every
safety property of a passing run, invariant or action property, has its theorem.

Abstracted within the modelled parts: what the emulator draws and what a repaint
contains; bytes of a message; OSC parsing (a choice per chunk); hunk arithmetic
(a file is selected whole); digests do not collide; cron expressions (an instant per
tick); store statements fail in `Inbox`, `Interactions`, `Schedules` and at the start of
a run in `WorkflowRun` only, file edits in `ProviderSettings` only; the clock does not go back; one runtime directory; a daemon
crash is in `ProviderSettings`, `Worktrees`, `Schedules` and `DaemonLifecycle`, while
a workflow run of a daemon that died stays "running" in the store, which nothing mends;
pending inbox rows do not expire (seven days); resize, and the byte accounting of RPC
answers.

Not modelled, and why:

- *Watcher and shared claims*: filters and debouncing are the `notify` library's;
  the claim map is a heuristic whose guarantee nothing states.
- *Diff and hunk assembly*: text processing whose result `git apply` judges. The
  control around it is in `ReviewGate`.
- *Frontend state*: one-threaded React state. The two places where it takes part in
  a protocol are in `ReviewGate` and `AttachClient`.
- *Wire encoding, provider command lines, screen patterns, rendering, the app's
  shell*: no state that several actors share.

## 7. Plan

Done: `SessionStream` with `TerminalFeed`, `Turns`, `Agents`, `Inbox` with `Mailbox`,
`Interactions`, `ProviderSettings`, `ReviewGate`, `WorkflowRun`, `Worktrees`,
`Schedules`, `DaemonLifecycle`, `AttachClient`; proofs of the safety properties of all of them.

Next:

1. Worktrees with two agents, so that the retention count decides between them (`Keep`).
2. The one lemma that several proofs state for themselves (a point of a function
   changed keeps its type) in one place.

## 8. Running it

`tlc -config <X>.cfg MC<module>.tla` for a run (PROJECT.json pairs them),
`tlapm <X>_proofs.tla` for the proofs. Each run takes from some seconds to
about two minutes with two workers.
