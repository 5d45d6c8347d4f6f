---------------------------- MODULE WorkflowRun ----------------------------
(***************************************************************************)
(* Workflow runs: the engine thread that drives a step graph               *)
(* (workflow_engine.rs), the workers it spawns one at a time, the          *)
(* blackboard on which each posts its result, and the run's row in the     *)
(* store, which a cancel writes from another thread.                       *)
(*                                                                         *)
(* The i-th worker of run r is <<r, i>>: it runs the node path[r][i].      *)
(* Statements of the store do not fail here, but for the one that makes    *)
(* the run, and the clock does not go back (`updated >= since` then holds  *)
(* of everything a worker posts).                                          *)
(***************************************************************************)
EXTENDS Integers, Sequences, FiniteSets

CONSTANTS
  Runs,           \* ids of runs asked for
  Callers, App,   \* who may ask beside the workers; the app, which is told nothing
  Nodes, Entry,   \* the graph: its nodes and the first of them,
  Edges,          \* its edges, a sequence of [from, to, when]
  Keys,           \* names on the blackboard,
  OutputKey,      \*   and that of each node, which others may have too
  Outputs,        \* what a worker may post
  Always,         \* the condition every output meets
  NoOutput,       \* no result: the wait timed out or the run was cancelled
  MaxIterations,  \* nodes a run may execute, by run (max_iterations)
  PerNodeCap,     \* times one node may run (PER_NODE_CAP)
  MaxRuns,        \* runs at a time (MAX_CONCURRENT_WORKFLOW_RUNS)
  WaitTicks       \* polls before a node is timed out (WAIT_TICKS)

\* validate: no other definition is stored, and run_workflow asks again.
Conditions == Outputs \cup {Always}
Edge == [from : Nodes, to : Nodes, when : Conditions]
Valid == Entry \in Nodes /\ Edges \in Seq(Edge)

Workers == UNION {{<<r, i>> : i \in 1 .. MaxIterations[r]} : r \in Runs}

ASSUME WorkflowAssumption ==
  /\ IsFiniteSet(Runs) /\ App \in Callers /\ Callers \cap Workers = {}
  /\ NoOutput \notin Outputs /\ Valid /\ OutputKey \in [Nodes -> Keys]
  /\ MaxIterations \in [Runs -> Nat]
  /\ PerNodeCap \in Nat /\ MaxRuns \in Nat /\ WaitTicks \in Nat \ {0}

VARIABLES
  status, active,     \* the rows of the runs; active_workflow_runs
  by,                 \* who asked for each run
  pc, next, path,     \* each engine: where it is, the node to run, the nodes it ran,
  got, polls,         \*   the output it read, its polls of this node,
  outcome,            \*   and what drive returned
  worker, row,        \* each worker's process and the status of its node-run row
  output,             \* the output stored with that row
  board,              \* the blackboard, by run and name: [author, value]
  told,               \* history: the outcome the caller was told
  posted              \* history: what each worker posted under its own node's key

slots == <<active, by>>
drive == <<next, path, got, polls, outcome>>
agents == <<worker, row, output, board, posted>>
vars == <<status, slots, pc, drive, agents, told>>

-----------------------------------------------------------------------------
Current(r) == <<r, Len(path[r])>>
NodeOf(w) == path[w[1]][w[2]]
Alive(w) == worker[w] \in {"live", "dying"}
Key(w) == <<w[1], OutputKey[NodeOf(w)]>>   \* run_id::output_key

\* The keys of the runs that may run a node; what stands under another nobody reads.
BoardKeys == {w[1] : w \in Workers} \X Keys

\* A slot is held from fetch_add to the drop of the thread's Slot guard.
HoldsSlot(r) == pc[r] \notin {"none", "refused", "ended"}
Driven(r) == HoldsSlot(r) /\ pc[r] # "refuse"

\* fetch_add's old value decides.
UnderCapLoose == active <= MaxRuns
UnderCap == active < MaxRuns

\* The rows of a node in a run.
NodeIterations(r, node) ==
  Cardinality({i \in 1 .. Len(path[r]) : path[r][i] = node /\ row[<<r, i>>] # "none"})

MayRun(r) == /\ Len(path[r]) + 1 <= MaxIterations[r]
             /\ NodeIterations(r, next[r]) + 1 <= PerNodeCap

\* The outgoing edges an output may take, and where the first of them leads.
Matching(node, out) ==
  {i \in DOMAIN Edges : Edges[i].from = node /\ Edges[i].when \in {Always, out}}
First(edges) == Edges[CHOOSE i \in edges : \A j \in edges : i <= j].to

\* Whether an agent works for a running node: the MCP layer's gate.
IsActiveNodeAgent(w) == row[w] = "running"

Init ==
  /\ status = [r \in Runs |-> "none"] /\ active = 0 /\ by = [r \in Runs |-> App]
  /\ pc = [r \in Runs |-> "none"] /\ next = [r \in Runs |-> Entry]
  /\ path = [r \in Runs |-> <<>>] /\ got = [r \in Runs |-> NoOutput]
  /\ polls = [r \in Runs |-> 0] /\ outcome = [r \in Runs |-> "none"]
  /\ worker = [w \in Workers |-> "none"] /\ row = [w \in Workers |-> "none"]
  /\ output = [w \in Workers |-> NoOutput]
  /\ board = [k \in BoardKeys |-> [author |-> App, value |-> NoOutput]]
  /\ told = [r \in Runs |-> "none"]
  /\ posted = [w \in Workers |-> {}]

Goto(r, place) == pc' = [pc EXCEPT ![r] = place]

-----------------------------------------------------------------------------
(* run_workflow, called by the app or by an agent over MCP.                *)

Claim(r, caller) ==
  /\ pc[r] = "none"
  /\ caller \in Workers => Alive(caller) /\ ~IsActiveNodeAgent(caller)
  /\ active' = active + 1 /\ by' = [by EXCEPT ![r] = caller]
  /\ Goto(r, IF UnderCap THEN "create" ELSE "refuse")
  /\ UNCHANGED <<status, drive, agents, told>>

Refuse(r) ==
  /\ pc[r] = "refuse"
  /\ active' = active - 1 /\ Goto(r, "refused")
  /\ UNCHANGED <<status, by, drive, agents, told>>

CreateRun(r) == status' = [status EXCEPT ![r] = "running"]
Create(r) ==
  /\ pc[r] = "create"
  /\ CreateRun(r) /\ Goto(r, "top")
  /\ UNCHANGED <<slots, drive, agents, told>>

\* No row, no thread: the slot is to be given back.
CreateFails(r) ==
  /\ pc[r] = "create" /\ Goto(r, "refuse")
  /\ UNCHANGED <<status, slots, drive, agents, told>>

(* cancel_workflow_run: only a running row is cancelled.                   *)
Cancel(r) ==
  /\ status[r] = "running"
  /\ status' = [status EXCEPT ![r] = "cancelled"]
  /\ UNCHANGED <<slots, pc, drive, agents, told>>

-----------------------------------------------------------------------------
(* The engine thread: drive, one node per turn of its loop.                *)

Fails(r) == outcome' = [outcome EXCEPT ![r] = "failed"] /\ Goto(r, "close")

EnterNode(r) ==
  /\ pc[r] = "top"
  /\ \/ MayRun(r) /\ path' = [path EXCEPT ![r] = Append(@, next[r])]
                  /\ Goto(r, "spawn") /\ UNCHANGED outcome
     \/ ~MayRun(r) /\ Fails(r) /\ UNCHANGED path
  /\ UNCHANGED <<status, slots, next, got, polls, agents, told>>

SpawnNode(r) ==
  /\ pc[r] = "spawn"
  /\ worker' = [worker EXCEPT ![Current(r)] = "live"] /\ Goto(r, "record")
  /\ UNCHANGED <<status, slots, drive, row, output, board, posted, told>>

FinishNodeRun(w, how) == row' = [row EXCEPT ![w] = how]

\* A worker that cannot be spawned: a failed row, and the run fails.
SpawnFails(r) ==
  /\ pc[r] = "spawn"
  /\ FinishNodeRun(Current(r), "failed") /\ Fails(r)
  /\ UNCHANGED <<status, slots, next, path, got, polls, worker, output, board, posted, told>>

RecordNode(r) ==
  /\ pc[r] = "record"
  /\ row' = [row EXCEPT ![Current(r)] = "running"] /\ Goto(r, "check")
  /\ polls' = [polls EXCEPT ![r] = 0]
  /\ UNCHANGED <<status, slots, next, path, got, outcome, worker, output, board, posted, told>>

\* Mutants: any result under the key is taken; the polls are not counted.
PostedByAnyone(entry, w) == entry.value # NoOutput
StillPollsForever(r) == TRUE

(* wait_for_output: each poll looks at the run's row, then at the board.   *)
GetRun(r) == status[r]
CheckRun(r) ==
  /\ pc[r] = "check"
  /\ \/ GetRun(r) = "running" /\ Goto(r, "look") /\ UNCHANGED got
     \/ GetRun(r) # "running" /\ Goto(r, "kill") /\ got' = [got EXCEPT ![r] = NoOutput]
  /\ UNCHANGED <<status, slots, next, path, polls, outcome, agents, told>>

PostedBy(entry, w) == entry.author = w

StillPolls(r) == polls[r] + 1 < WaitTicks

BlackboardGet(k) == board[k]

Look(r) ==
  LET entry == BlackboardGet(Key(Current(r))) IN
  /\ pc[r] = "look"
  /\ \/ /\ PostedBy(entry, Current(r))
        /\ got' = [got EXCEPT ![r] = entry.value] /\ Goto(r, "kill") /\ UNCHANGED polls
     \/ /\ ~PostedBy(entry, Current(r))
        /\ got' = [got EXCEPT ![r] = NoOutput]
        /\ polls' = [polls EXCEPT ![r] = IF @ < WaitTicks THEN @ + 1 ELSE @]
        /\ Goto(r, IF StillPolls(r) THEN "check" ELSE "kill")
  /\ UNCHANGED <<status, slots, next, path, outcome, agents, told>>

\* Mutant: a worker that reported nothing is left to itself.
KillReported(w) ==
  worker' = [worker EXCEPT ![w] = IF @ = "live" /\ got[w[1]] # NoOutput THEN "dying" ELSE @]
Kill(w) == worker' = [worker EXCEPT ![w] = IF @ = "live" THEN "dying" ELSE @]

KillNode(r) ==
  /\ pc[r] = "kill"
  /\ Kill(Current(r)) /\ Goto(r, "finish")
  /\ UNCHANGED <<status, slots, drive, row, output, board, posted, told>>

FinishNode(r) ==
  LET edges == Matching(path[r][Len(path[r])], got[r]) IN
  /\ pc[r] = "finish"
  /\ \/ /\ got[r] = NoOutput
        /\ FinishNodeRun(Current(r), "failed") /\ Fails(r)
        /\ UNCHANGED <<next, output>>
     \/ /\ got[r] # NoOutput
        /\ FinishNodeRun(Current(r), "completed")
        /\ output' = [output EXCEPT ![Current(r)] = got[r]]
        /\ \/ /\ edges # {}
              /\ next' = [next EXCEPT ![r] = First(edges)] /\ Goto(r, "top")
              /\ UNCHANGED outcome
           \/ /\ edges = {}
              /\ outcome' = [outcome EXCEPT ![r] = "completed"] /\ Goto(r, "close")
              /\ UNCHANGED next
  /\ UNCHANGED <<status, slots, path, got, polls, worker, board, posted, told>>

(* run: the row, unless it was cancelled, then the caller, then the slot.  *)
Finished(r) == [status EXCEPT ![r] = IF @ = "running" THEN outcome[r] ELSE @]

FinishRun(r) ==
  /\ pc[r] = "close"
  /\ status' = Finished(r) /\ Goto(r, "notify")
  /\ UNCHANGED <<slots, drive, agents, told>>

Notify(r) ==
  /\ pc[r] = "notify"
  /\ told' = [told EXCEPT ![r] = IF by[r] = App THEN @ ELSE outcome[r]]
  /\ Goto(r, "release")
  /\ UNCHANGED <<status, slots, drive, agents>>

Returned(r) == active - 1

Release(r) ==
  /\ pc[r] = "release"
  /\ active' = Returned(r) /\ Goto(r, "ended")
  /\ UNCHANGED <<status, by, drive, agents, told>>

-----------------------------------------------------------------------------
(* The workers, which may go on for a while after they are told to end.    *)

\* Under any key: the last writer has it.
BlackboardSet(k, v, w) == board' = [board EXCEPT ![k] = [author |-> w, value |-> v]]
Share(w, k, v) ==
  /\ Alive(w) /\ BlackboardSet(k, v, w)
  /\ posted' = [posted EXCEPT ![w] = IF k = Key(w) THEN @ \cup {v} ELSE @]
  /\ UNCHANGED <<status, slots, pc, drive, worker, row, output, told>>

Exit(w) ==
  /\ Alive(w)
  /\ worker' = [worker EXCEPT ![w] = "dead"]
  /\ UNCHANGED <<status, slots, pc, drive, row, output, board, posted, told>>

-----------------------------------------------------------------------------
Engine(r) ==
  \/ Refuse(r) \/ Create(r) \/ CreateFails(r) \/ EnterNode(r) \/ SpawnNode(r)
  \/ SpawnFails(r) \/ RecordNode(r) \/ CheckRun(r) \/ Look(r) \/ KillNode(r) \/ FinishNode(r)
  \/ FinishRun(r) \/ Notify(r) \/ Release(r)

Next ==
  \/ \E r \in Runs : Engine(r) \/ Cancel(r) \/ \E c \in Workers \cup Callers : Claim(r, c)
  \/ \E w \in Workers : Exit(w) \/ \E k \in BoardKeys, v \in Outputs : Share(w, k, v)

Spec == Init /\ [][Next]_vars

\* The engine's thread runs, and its waits are bounded.
EngineSpec == Spec /\ \A r \in Runs : WF_vars(Engine(r))

-----------------------------------------------------------------------------
(* Types.                                                                  *)
TypeOK ==
  /\ status \in [Runs -> {"none", "running", "completed", "failed", "cancelled"}]
  /\ pc \in [Runs -> {"none", "refuse", "refused", "create", "top", "spawn", "record", "check",
                     "look", "kill", "finish", "close", "notify", "release", "ended"}]
  /\ by \in [Runs -> Workers \cup Callers] /\ next \in [Runs -> Nodes]
  /\ path \in [Runs -> Seq(Nodes)] /\ got \in [Runs -> Outputs \cup {NoOutput}]
  /\ polls \in [Runs -> 0 .. WaitTicks]
  /\ outcome \in [Runs -> {"none", "completed", "failed"}]
  /\ worker \in [Workers -> {"none", "live", "dying", "dead"}]
  /\ row \in [Workers -> {"none", "running", "completed", "failed"}]
  /\ output \in [Workers -> Outputs \cup {NoOutput}]
  /\ board \in [BoardKeys -> [author : Workers \cup {App}, value : Outputs \cup {NoOutput}]]
  /\ posted \in [Workers -> SUBSET Outputs]
  /\ told \in [Runs -> {"none", "completed", "failed"}] /\ active \in Nat

(* Never more engines at work than the cap, and no slot lost: however      *)
(* calls of run_workflow interleave with each other and with runs that     *)
(* end, the count is that of the threads holding a slot (manager.rs        *)
(* run_workflow, MAX_CONCURRENT_WORKFLOW_RUNS and the Slot guard).         *)
CapHeld ==
  /\ Cardinality({r \in Runs : Driven(r)}) <= MaxRuns
  /\ active = Cardinality({r \in Runs : HoldsSlot(r)})

\* The i-th worker's own result led the run to that node.
LedTo(r, i, node) ==
  LET said == output[<<r, i>>] IN
  /\ row[<<r, i>>] = "completed" /\ said \in posted[<<r, i>>]
  /\ Matching(path[r][i], said) # {} /\ node = First(Matching(path[r][i], said))

Routed == \A r \in Runs : \A i \in 1 .. Len(path[r]) - 1 : LedTo(r, i, path[r][i + 1])

\* What is stored as a node's result, the last node's too, is its worker's.
Recorded == \A w \in Workers : row[w] = "completed" => output[w] \in posted[w]

(* A run goes from node to node by the edges that the node's own worker's  *)
(* result takes, and ends with its last worker's own: never with what an   *)
(* earlier turn of the loop, whose worker may still be about, left under   *)
(* the same key (workflow_engine.rs drive, wait_for_output).               *)
RouteFollowsWorker == Routed /\ Recorded

(* The only worker of a run nobody has told to end is that of the node the *)
(* engine waits for: a result, a timeout and a cancel all free the worker  *)
(* (workflow_engine.rs drive, manager.kill).                               *)
NoStrayWorker ==
  \A w \in Workers :
    worker[w] = "live" => w = Current(w[1]) /\ pc[w[1]] \in {"record", "check", "look", "kill"}

(* A run that started ends, cancelled or not and whatever its workers do:  *)
(* its row is final, its slot given back, its workers told to end; and the *)
(* row of a cancelled one says so for good, though its engine unwinds      *)
(* after the cancel (workflow_engine.rs run; store.rs finish_run, "review  *)
(* M8").                                                                   *)
Over(r) ==
  /\ pc[r] = "ended" /\ status[r] # "running"
  /\ \A w \in Workers : w[1] = r => worker[w] # "live"

RunEnds ==
  \A r \in Runs :
    /\ status[r] = "running" ~> Over(r)
    /\ status[r] = "cancelled" ~> [](status[r] = "cancelled") /\ Over(r)

-----------------------------------------------------------------------------
(* The inductive invariants behind CapHeld and RouteFollowsWorker.         *)

\* A node that is run has a worker's number, and a worker runs a node.
PathInv ==
  /\ \A r \in Runs :
       /\ Len(path[r]) <= MaxIterations[r]
       /\ pc[r] \in {"none", "refuse", "refused", "create"} => path[r] = <<>>
       /\ pc[r] \in {"spawn", "record", "check", "look", "kill", "finish"} => path[r] # <<>>
  /\ \A w \in Workers : worker[w] # "none" => w[2] <= Len(path[w[1]])

\* What is on the board under its author's own key its author posted; what the
\* engine took is its own worker's, and has led to the node it will run next.
RouteInv ==
  /\ \A k \in BoardKeys : board[k].author \in Workers =>
       /\ worker[board[k].author] # "none"
       /\ k = Key(board[k].author) => board[k].value \in posted[board[k].author]
  /\ \A r \in Runs :
       /\ pc[r] \in {"kill", "finish"} /\ got[r] # NoOutput => got[r] \in posted[Current(r)]
       /\ pc[r] = "top" /\ path[r] # <<>> => LedTo(r, Len(path[r]), next[r])

WorkflowInv == TypeOK /\ PathInv /\ RouteInv /\ CapHeld /\ RouteFollowsWorker /\ NoStrayWorker
=============================================================================
