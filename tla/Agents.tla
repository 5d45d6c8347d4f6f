------------------------------- MODULE Agents ------------------------------
(***************************************************************************)
(* The manager's registries of live agents (manager.rs): the session map,  *)
(* MCP tokens, roles, the assignment tree with its depth and fan limits,   *)
(* and the daemon_sessions rows; filled step by step by the thread that    *)
(* spawns an agent, emptied by the maintenance tick that sweeps the dead.  *)
(*                                                                         *)
(* A key is an Agent ID, minted fresh for every spawn.  No lock is held    *)
(* across the steps of a spawn, so an agent that exits at once can be      *)
(* swept while its spawner is still registering it.  Provider injection    *)
(* and its cleanup ledger are in ProviderSettings.                         *)
(***************************************************************************)
EXTENDS Integers, FiniteSets

CONSTANTS
  Keys,      \* Agent IDs: bound of the model, each used by one spawn
  App,       \* the app, parent of the agents nobody assigned
  MaxDepth,  \* MAX_ASSIGN_DEPTH
  MaxFan     \* MAX_ASSIGN_FAN

ASSUME AgentsAssumption ==
  /\ App \notin Keys /\ IsFiniteSet(Keys)
  /\ MaxDepth \in Nat /\ MaxFan \in Nat

VARIABLES
  at,                          \* where the thread spawning this agent is
  parent, depth,               \* AssignNode.parent and .depth, reservation or real
  reserved, assigned,          \* keys whose node is a reservation, or the child's own
  proc,                        \* the agent's process and its finalized session
  sessions, tokens, roles,     \* the manager's maps
  row,                         \* daemon_sessions.status
  gcAt, gcKeys,                \* the tick: where it is, the dead it took
  told,                        \* fan-in messages sent to the parent
  early                        \* history: agents that exited while being spawned

spawnVars == <<at, parent, depth>>
treeVars  == <<reserved, assigned>>
gcVars    == <<gcAt, gcKeys>>
vars == <<spawnVars, treeVars, proc, sessions, tokens, roles, row, gcVars, told, early>>

Places == {"free", "building", "token", "role", "row", "swap", "done", "failed"}

Init ==
  /\ at = [k \in Keys |-> "free"]
  /\ parent = [k \in Keys |-> App] /\ depth = [k \in Keys |-> 0]
  /\ reserved = {} /\ assigned = {}
  /\ proc = [k \in Keys |-> "none"]
  /\ sessions = {} /\ tokens = {} /\ roles = {}
  /\ row = [k \in Keys |-> "none"]
  /\ gcAt = "idle" /\ gcKeys = {}
  /\ told = [k \in Keys |-> 0] /\ early = [k \in Keys |-> FALSE]

-----------------------------------------------------------------------------
(* Spawning.                                                               *)

AppSpawn(k) ==
  /\ at[k] = "free"
  /\ at' = [at EXCEPT ![k] = "building"]
  /\ UNCHANGED <<parent, depth, treeVars, proc, sessions, tokens, roles, row,
                 gcVars, told, early>>

DepthOf(p) == IF p \in assigned THEN depth[p] ELSE 0
FanOfAssigned(p) == Cardinality({k \in assigned : parent[k] = p})
FanOf(p) == Cardinality({k \in reserved \cup assigned : parent[k] = p})

MayAssign(p) == DepthOf(p) < MaxDepth /\ FanOf(p) < MaxFan

\* assign_worker, called by a running agent through its token: both limits are
\* checked and the slot reserved under one lock.
Assign(p, k) ==
  /\ proc[p] = "alive" /\ p \in tokens
  /\ at[k] = "free"
  /\ MayAssign(p)
  /\ at' = [at EXCEPT ![k] = "building"]
  /\ parent' = [parent EXCEPT ![k] = p]
  /\ depth' = [depth EXCEPT ![k] = DepthOf(p) + 1]
  /\ reserved' = reserved \cup {k}
  /\ UNCHANGED <<assigned, proc, sessions, tokens, roles, row, gcVars, told, early>>

\* registry.build or the PTY spawn fails: the reservation is released.
SpawnFails(k) ==
  /\ at[k] = "building"
  /\ at' = [at EXCEPT ![k] = "failed"]
  /\ reserved' = reserved \ {k}
  /\ UNCHANGED <<parent, depth, assigned, proc, sessions, tokens, roles, row,
                 gcVars, told, early>>

SpawnSession(k) ==
  /\ at[k] = "building"
  /\ at' = [at EXCEPT ![k] = "token"]
  /\ proc' = [proc EXCEPT ![k] = "alive"]
  /\ sessions' = sessions \cup {k}
  /\ UNCHANGED <<parent, depth, treeVars, tokens, roles, row, gcVars, told, early>>

InsertToken(k) ==
  /\ at[k] = "token"
  /\ at' = [at EXCEPT ![k] = "role"]
  /\ tokens' = tokens \cup {k}
  /\ UNCHANGED <<parent, depth, treeVars, proc, sessions, roles, row, gcVars, told, early>>

InsertRole(k) ==
  /\ at[k] = "role"
  /\ at' = [at EXCEPT ![k] = "row"]
  /\ roles' = roles \cup {k}
  /\ UNCHANGED <<parent, depth, treeVars, proc, sessions, tokens, row, gcVars, told, early>>

RecordSession(k) ==
  /\ at[k] = "row"
  /\ at' = [at EXCEPT ![k] = IF parent[k] = App THEN "done" ELSE "swap"]
  /\ row' = [row EXCEPT ![k] = "running"]
  /\ UNCHANGED <<parent, depth, treeVars, proc, sessions, tokens, roles, gcVars, told, early>>

\* Back in assign_worker: the child's own node replaces the reservation.
Swap(k) ==
  /\ at[k] = "swap"
  /\ at' = [at EXCEPT ![k] = "done"]
  /\ reserved' = reserved \ {k} /\ assigned' = assigned \cup {k}
  /\ UNCHANGED <<parent, depth, proc, sessions, tokens, roles, row, gcVars, told, early>>

\* The process ends, by itself or killed, and its session is finalized.
Exit(k) ==
  /\ proc[k] = "alive"
  /\ proc' = [proc EXCEPT ![k] = "dead"]
  /\ early' = [early EXCEPT ![k] = at[k] # "done"]
  /\ UNCHANGED <<spawnVars, treeVars, sessions, tokens, roles, row, gcVars, told>>

-----------------------------------------------------------------------------
(* The sweep of gc_tick.                                                   *)

DeadSessions == {k \in sessions : proc[k] = "dead"}

GcTake ==
  /\ gcAt = "idle" /\ DeadSessions # {}
  /\ gcAt' = "exited" /\ gcKeys' = DeadSessions
  /\ sessions' = sessions \ DeadSessions
  /\ UNCHANGED <<spawnVars, treeVars, proc, tokens, roles, row, told, early>>

\* UPDATE ... WHERE pty_session_id: no row yet, no update.
Exited(k) == IF k \in gcKeys /\ row[k] = "running" THEN "exited" ELSE row[k]

GcRecordExits ==
  /\ gcAt = "exited"
  /\ gcAt' = "tokens"
  /\ row' = [k \in Keys |-> Exited(k)]
  /\ UNCHANGED <<spawnVars, treeVars, proc, sessions, tokens, roles, gcKeys, told, early>>

GcDropTokens ==
  /\ gcAt = "tokens"
  /\ gcAt' = "fanin"
  /\ tokens' = tokens \ gcKeys
  /\ UNCHANGED <<spawnVars, treeVars, proc, sessions, roles, row, gcKeys, told, early>>

Told(k) == told[k] + (IF k \in assigned THEN 1 ELSE 0)
NodesKept(k) == assigned
NodesLeft(k) == assigned \ {k}

\* One dead agent after the other: its role, then its node and the message.
GcFanIn(k) ==
  /\ gcAt = "fanin" /\ k \in gcKeys
  /\ roles' = roles \ {k}
  /\ told' = [told EXCEPT ![k] = Told(k)]
  /\ assigned' = NodesLeft(k)
  /\ gcKeys' = gcKeys \ {k}
  /\ gcAt' = IF gcKeys = {k} THEN "idle" ELSE "fanin"
  /\ UNCHANGED <<spawnVars, reserved, proc, sessions, tokens, row, early>>

-----------------------------------------------------------------------------
Gc == GcTake \/ GcRecordExits \/ GcDropTokens \/ \E k \in Keys : GcFanIn(k)

Spawner(k) ==
  SpawnSession(k) \/ InsertToken(k) \/ InsertRole(k) \/ RecordSession(k) \/ Swap(k)

Next ==
  \/ \E k \in Keys : AppSpawn(k) \/ SpawnFails(k) \/ Spawner(k) \/ Exit(k)
  \/ \E p \in Keys, k \in Keys : Assign(p, k)
  \/ Gc

Spec == Init /\ [][Next]_vars

\* The tick keeps running, and a thread that is spawning an agent goes on.
GcFairness == WF_vars(Gc) /\ \A k \in Keys : WF_vars(Spawner(k))
LiveSpec == Spec /\ GcFairness

-----------------------------------------------------------------------------
(* Properties.                                                             *)

TypeOK ==
  /\ at \in [Keys -> Places] /\ parent \in [Keys -> Keys \cup {App}]
  /\ depth \in [Keys -> 0..MaxDepth]
  /\ reserved \subseteq Keys /\ assigned \subseteq Keys
  /\ proc \in [Keys -> {"none", "alive", "dead"}]
  /\ sessions \subseteq Keys /\ tokens \subseteq Keys /\ roles \subseteq Keys
  /\ row \in [Keys -> {"none", "running", "exited"}]
  /\ gcAt \in {"idle", "exited", "tokens", "fanin"} /\ gcKeys \subseteq Keys
  /\ gcAt = "idle" <=> gcKeys = {}
  /\ told \in [Keys -> Nat] /\ early \in [Keys -> BOOLEAN]

\* An agent never has more running workers than the fan limit, whatever its
\* concurrent assigns, failed spawns and finished workers add up to.
FanBound ==
  \A p \in Keys : Cardinality({k \in Keys : proc[k] = "alive" /\ parent[k] = p}) <= MaxFan

\* The sweep never takes anything from an agent that is running: once a step of
\* its spawn has registered it somewhere, it stays registered.
LiveStaysRegistered ==
  \A k \in Keys : proc[k] = "alive" =>
    /\ k \in sessions
    /\ at[k] \in {"role", "row", "swap", "done"} => k \in tokens
    /\ at[k] \in {"row", "swap", "done"} => k \in roles
    /\ at[k] \in {"swap", "done"} => row[k] = "running"
    /\ at[k] = "done" /\ parent[k] # App => k \in assigned

Swept(k) == proc[k] = "dead" /\ k \notin sessions \cup gcKeys

\* An agent that exited after its spawn was through leaves nothing behind: the
\* sweep forgets its token, role and node, closes its row, and tells the agent
\* that assigned it exactly once.
CleanSweep ==
  \A k \in Keys : Swept(k) /\ ~early[k] =>
    /\ k \notin tokens \cup roles \cup reserved \cup assigned
    /\ row[k] = "exited"
    /\ told[k] = IF parent[k] = App THEN 0 ELSE 1

\* A worker's slot is given back: the parent of a worker that exits after its
\* spawn is through is eventually told and its fan freed.
SlotFreed ==
  \A k \in Keys : (proc[k] = "dead" /\ ~early[k] /\ parent[k] # App)
                    ~> (told[k] = 1 /\ k \notin reserved \cup assigned)

-----------------------------------------------------------------------------
(* The inductive invariant of the proofs (Spawn_proofs).                   *)

Spawning == {"building", "token", "role", "row", "swap"}

\* How far a spawn has come is what it has registered at the most, and whether
\* it holds a reservation; only the sweep takes something away again.
SpawnInv(k) ==
  /\ k \in reserved <=> parent[k] # App /\ at[k] \in Spawning
  /\ k \in assigned => parent[k] # App /\ at[k] = "done"
  /\ at[k] = "swap" => parent[k] # App
  /\ proc[k] = "none" <=> at[k] \in {"free", "building", "failed"}
  /\ k \in tokens => at[k] \in {"role", "row", "swap", "done"}
  /\ k \in roles => at[k] \in {"row", "swap", "done"}
  /\ at[k] = "free" => parent[k] = App

\* An agent that runs is registered, and nobody was told of its end; one that
\* exited early was being spawned.
LiveInv(k) ==
  /\ proc[k] = "alive" =>
       /\ k \in sessions
       /\ at[k] \in {"role", "row", "swap", "done"} => k \in tokens
       /\ at[k] \in {"row", "swap", "done"} => k \in roles
       /\ at[k] \in {"swap", "done"} => row[k] = "running"
       /\ at[k] = "done" /\ parent[k] # App => k \in assigned
  /\ proc[k] # "dead" => told[k] = 0 /\ ~early[k]
  /\ k \in sessions => proc[k] # "none" /\ k \notin gcKeys
  /\ k \in gcKeys => proc[k] = "dead"

\* What the sweep still owes an agent that exited after its spawn was through:
\* all of it as long as it is in the session map, then step by step less.
OwedInv(k) ==
  proc[k] = "dead" /\ ~early[k] =>
    /\ at[k] = "done"
    /\ IF k \in sessions \cup gcKeys
         THEN /\ told[k] = 0
              /\ parent[k] # App => k \in assigned
              /\ k \in sessions \/ gcAt = "exited" => row[k] = "running"
              /\ k \in gcKeys /\ gcAt # "exited" => row[k] = "exited"
              /\ k \in gcKeys /\ gcAt = "fanin" => k \notin tokens
         ELSE /\ k \notin tokens \cup roles \cup reserved \cup assigned
              /\ row[k] = "exited"
              /\ told[k] = IF parent[k] = App THEN 0 ELSE 1

FanInv == \A p \in Keys : FanOf(p) <= MaxFan

AgentsInv ==
  /\ TypeOK /\ FanInv
  /\ \A k \in Keys : SpawnInv(k) /\ LiveInv(k) /\ OwedInv(k)
=============================================================================
