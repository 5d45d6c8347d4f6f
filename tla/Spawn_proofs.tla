---------------------------- MODULE Spawn_proofs ----------------------------
(***************************************************************************)
(* Proofs about what a spawn leaves behind and an exit takes back, for any *)
(* number of agents.  Agents: the fan of an agent is bounded, the sweep    *)
(* takes nothing from an agent that runs, and leaves nothing of one that   *)
(* exited after its spawn.  ProviderSettings: the lock makes an editor's   *)
(* copy the file (CopyIsFile), every entry has a name its session asked    *)
(* for (OwnNames), so a removal leaves nothing of its session behind       *)
(* (RemovedIsGone) and its row may go.                                     *)
(***************************************************************************)
EXTENDS Agents, ProviderSettings, FiniteSetTheorems, TLAPS

USE DEF Places

-----------------------------------------------------------------------------
(* Types.                                                                  *)

LEMMA ExceptType ==
  ASSUME NEW S, NEW T, NEW f \in [S -> T], NEW x \in S, NEW v \in T
  PROVE  /\ [f EXCEPT ![x] = v] \in [S -> T]
         /\ [f EXCEPT ![x] = v][x] = v
         /\ \A y \in S : y # x => [f EXCEPT ![x] = v][y] = f[y]
OBVIOUS

LEMMA TypeInit == Init => TypeOK
BY AgentsAssumption DEF Init, TypeOK

LEMMA TypeStep == TypeOK /\ [Next]_vars => TypeOK'
<1> SUFFICES ASSUME TypeOK, [Next]_vars PROVE TypeOK'
  OBVIOUS
<1> USE DEF TypeOK
<1>1. ASSUME NEW k \in Keys, AppSpawn(k) PROVE TypeOK'
  BY <1>1 DEF AppSpawn, treeVars, gcVars
<1>2. ASSUME NEW p \in Keys, NEW k \in Keys, Assign(p, k) PROVE TypeOK'
  <2>1. DepthOf(p) + 1 \in 0 .. MaxDepth
    <3>1. depth[p] \in 0 .. MaxDepth
      OBVIOUS
    <3> QED BY <1>2, <3>1, AgentsAssumption DEF Assign, MayAssign, DepthOf
  <2>2. depth' \in [Keys -> 0 .. MaxDepth]
    BY <1>2, <2>1, ExceptType DEF Assign
  <2>3. /\ at' = [at EXCEPT ![k] = "building"]
        /\ parent' = [parent EXCEPT ![k] = p]
        /\ reserved' = reserved \cup {k}
        /\ UNCHANGED <<assigned, proc, sessions, tokens, roles, row, gcVars, told, early>>
    BY <1>2 DEF Assign
  <2> QED BY <2>2, <2>3 DEF gcVars
<1>3. ASSUME NEW k \in Keys, SpawnFails(k) PROVE TypeOK'
  BY <1>3 DEF SpawnFails, gcVars
<1>4. ASSUME NEW k \in Keys, SpawnSession(k) PROVE TypeOK'
  BY <1>4 DEF SpawnSession, treeVars, gcVars
<1>5. ASSUME NEW k \in Keys, InsertToken(k) PROVE TypeOK'
  BY <1>5 DEF InsertToken, treeVars, gcVars
<1>6. ASSUME NEW k \in Keys, InsertRole(k) PROVE TypeOK'
  BY <1>6 DEF InsertRole, treeVars, gcVars
<1>7. ASSUME NEW k \in Keys, RecordSession(k) PROVE TypeOK'
  BY <1>7 DEF RecordSession, treeVars, gcVars
<1>8. ASSUME NEW k \in Keys, Swap(k) PROVE TypeOK'
  BY <1>8 DEF Swap, gcVars
<1>9. ASSUME NEW k \in Keys, Exit(k) PROVE TypeOK'
  BY <1>9 DEF Exit, spawnVars, treeVars, gcVars
<1>10. ASSUME GcTake PROVE TypeOK'
  BY <1>10 DEF GcTake, DeadSessions, spawnVars, treeVars
<1>11. ASSUME GcRecordExits PROVE TypeOK'
  <2>1. row' \in [Keys -> {"none", "running", "exited"}]
    BY <1>11 DEF GcRecordExits, Exited
  <2> QED BY <1>11, <2>1 DEF GcRecordExits, spawnVars, treeVars
<1>12. ASSUME GcDropTokens PROVE TypeOK'
  BY <1>12 DEF GcDropTokens, spawnVars, treeVars
<1>13. ASSUME NEW k \in Keys, GcFanIn(k) PROVE TypeOK'
  <2>1. told' \in [Keys -> Nat]
    BY <1>13, ExceptType DEF GcFanIn, Told
  <2> QED BY <1>13, <2>1 DEF GcFanIn, NodesLeft, spawnVars
<1>14. ASSUME UNCHANGED vars PROVE TypeOK'
  BY <1>14 DEF vars, spawnVars, treeVars, gcVars
<1> QED BY <1>1, <1>2, <1>3, <1>4, <1>5, <1>6, <1>7, <1>8, <1>9, <1>10, <1>11, <1>12, <1>13, <1>14
        DEF Next, Spawner, Gc

-----------------------------------------------------------------------------
(* The fan.                                                                *)

Fan(p) == {k \in reserved \cup assigned : parent[k] = p}

LEMMA FanFinite ==
  ASSUME TypeOK, NEW p
  PROVE  IsFiniteSet(Fan(p)) /\ Cardinality(Fan(p)) \in Nat /\ FanOf(p) = Cardinality(Fan(p))
<1>1. Fan(p) \subseteq Keys
  BY DEF Fan, TypeOK
<1> QED BY <1>1, AgentsAssumption, FS_Subset, FS_CardinalityType DEF FanOf, Fan

\* Nodes are only added by an assign, which looked first.
LEMMA FanShrinks ==
  ASSUME TypeOK, FanInv, UNCHANGED parent, (reserved \cup assigned)' \subseteq reserved \cup assigned
  PROVE  FanInv'
<1>1. ASSUME NEW p \in Keys PROVE FanOf(p)' <= MaxFan
  <2>1. Fan(p)' \subseteq Fan(p)
    BY DEF Fan
  <2>2. Cardinality(Fan(p)') \in Nat /\ Cardinality(Fan(p)') <= Cardinality(Fan(p))
    BY <2>1, FanFinite, FS_Subset, FS_CardinalityType
  <2>3. Cardinality(Fan(p)) \in Nat /\ Cardinality(Fan(p)) <= MaxFan
    BY FanFinite DEF FanInv
  <2>4. FanOf(p)' = Cardinality(Fan(p)')
    BY DEF FanOf, Fan
  <2> QED BY <2>2, <2>3, <2>4, AgentsAssumption
<1> QED BY <1>1 DEF FanInv

LEMMA FanAssign ==
  ASSUME TypeOK, FanInv, \A k \in Keys : SpawnInv(k), NEW p \in Keys, NEW k \in Keys, Assign(p, k)
  PROVE  FanInv'
<1>1. /\ reserved' = reserved \cup {k} /\ assigned' = assigned
      /\ parent' = [parent EXCEPT ![k] = p]
      /\ FanOf(p) < MaxFan /\ at[k] = "free"
  BY DEF Assign, MayAssign
<1>2. k \notin reserved \cup assigned
  BY <1>1 DEF SpawnInv, Spawning
<1>3. ASSUME NEW q \in Keys PROVE FanOf(q)' <= MaxFan
  <2>0. /\ IsFiniteSet(Fan(q)) /\ Cardinality(Fan(q)) \in Nat /\ Cardinality(Fan(q)) <= MaxFan
        /\ FanOf(q)' = Cardinality(Fan(q)')
    BY FanFinite DEF FanInv, FanOf, Fan
  <2>1. CASE q = p
    <3>1. Fan(q)' = Fan(q) \cup {k} /\ k \notin Fan(q)
      BY <1>1, <1>2, <2>1 DEF Fan, TypeOK
    <3>2. Cardinality(Fan(q)') = Cardinality(Fan(q)) + 1
      BY <2>0, <3>1, FS_AddElement
    <3>3. Cardinality(Fan(q)) < MaxFan
      BY <1>1, <2>1, FanFinite
    <3> QED BY <2>0, <3>2, <3>3, AgentsAssumption
  <2>2. CASE q # p
    <3>1. Fan(q)' = Fan(q)
      BY <1>1, <1>2, <2>2 DEF Fan, TypeOK
    <3> QED BY <2>0, <3>1
  <2> QED BY <2>1, <2>2
<1> QED BY <1>3 DEF FanInv

LEMMA FanStep == TypeOK /\ FanInv /\ (\A k \in Keys : SpawnInv(k)) /\ [Next]_vars => FanInv'
<1> SUFFICES ASSUME TypeOK, FanInv, \A k \in Keys : SpawnInv(k), [Next]_vars PROVE FanInv'
  OBVIOUS
<1>1. CASE \E p \in Keys, k \in Keys : Assign(p, k)
  BY <1>1, FanAssign
<1>2. ASSUME NEW k \in Keys, SpawnFails(k) \/ Swap(k) \/ GcFanIn(k) PROVE FanInv'
  <2>1. UNCHANGED parent /\ (reserved \cup assigned)' \subseteq reserved \cup assigned
    <3>1. CASE SpawnFails(k)
      BY <3>1 DEF SpawnFails
    <3>2. CASE Swap(k)
      <4>1. k \in reserved
        BY <3>2 DEF Swap, SpawnInv, Spawning
      <4> QED BY <3>2, <4>1 DEF Swap
    <3>3. CASE GcFanIn(k)
      BY <3>3 DEF GcFanIn, NodesLeft, spawnVars
    <3> QED BY <1>2, <3>1, <3>2, <3>3
  <2> QED BY <2>1, FanShrinks
<1>3. ASSUME UNCHANGED <<parent, reserved, assigned>> PROVE FanInv'
  BY <1>3, FanShrinks
<1>4. ASSUME NEW k \in Keys,
             AppSpawn(k) \/ SpawnSession(k) \/ InsertToken(k) \/ InsertRole(k) \/ RecordSession(k) \/ Exit(k)
      PROVE  FanInv'
  BY <1>3, <1>4 DEF AppSpawn, SpawnSession, InsertToken, InsertRole, RecordSession, Exit, treeVars, spawnVars
<1>5. ASSUME GcTake \/ GcRecordExits \/ GcDropTokens \/ UNCHANGED vars PROVE FanInv'
  BY <1>3, <1>5 DEF GcTake, GcRecordExits, GcDropTokens, vars, treeVars, spawnVars
<1> QED BY <1>1, <1>2, <1>4, <1>5 DEF Next, Spawner, Gc

-----------------------------------------------------------------------------
(* What a spawn has registered, and what the sweep owes.                   *)

KeyInv(k) == SpawnInv(k) /\ LiveInv(k) /\ OwedInv(k)

\* What a step that is not about agent q leaves of it.
Untouched(q) ==
  /\ at'[q] = at[q] /\ parent'[q] = parent[q] /\ proc'[q] = proc[q]
  /\ row'[q] = row[q] /\ told'[q] = told[q] /\ early'[q] = early[q]
  /\ q \in reserved' <=> q \in reserved
  /\ q \in assigned' <=> q \in assigned
  /\ q \in sessions' <=> q \in sessions
  /\ q \in tokens' <=> q \in tokens
  /\ q \in roles' <=> q \in roles
  /\ q \in gcKeys' <=> q \in gcKeys

LEMMA Others ==
  ASSUME NEW q \in Keys, KeyInv(q), Untouched(q), UNCHANGED gcAt \/ q \notin gcKeys PROVE KeyInv(q)'
<1>1. SpawnInv(q)'
  BY DEF KeyInv, Untouched, SpawnInv
<1>2. LiveInv(q)'
  BY DEF KeyInv, Untouched, LiveInv
<1>3. OwedInv(q)'
  BY DEF KeyInv, Untouched, OwedInv
<1> QED BY <1>1, <1>2, <1>3 DEF KeyInv

LEMMA KeyInit == Init => \A k \in Keys : KeyInv(k)
BY DEF Init, KeyInv, SpawnInv, LiveInv, OwedInv, Spawning

\* A step of the thread that spawns agent k.
LEMMA KeySpawn ==
  ASSUME TypeOK, \A q \in Keys : KeyInv(q), NEW k \in Keys,
         AppSpawn(k) \/ SpawnFails(k) \/ Spawner(k) \/ (\E p \in Keys : Assign(p, k))
  PROVE  \A q \in Keys : KeyInv(q)'
<1> USE DEF TypeOK, treeVars, gcVars
<1>0. KeyInv(k) /\ App \notin Keys
  BY AgentsAssumption
<1>a. UNCHANGED <<gcAt, gcKeys, told, early>>
  BY DEF AppSpawn, SpawnFails, Assign, Spawner, SpawnSession, InsertToken, InsertRole, RecordSession, Swap
<1>1. ASSUME NEW q \in Keys, q # k PROVE Untouched(q)
  <2>1. CASE AppSpawn(k)
    BY <1>1, <2>1 DEF AppSpawn, Untouched
  <2>2. CASE SpawnFails(k)
    BY <1>1, <2>2 DEF SpawnFails, Untouched
  <2>3. CASE SpawnSession(k)
    BY <1>1, <2>3 DEF SpawnSession, Untouched
  <2>4. CASE InsertToken(k)
    BY <1>1, <2>4 DEF InsertToken, Untouched
  <2>5. CASE InsertRole(k)
    BY <1>1, <2>5 DEF InsertRole, Untouched
  <2>6. CASE RecordSession(k)
    BY <1>1, <2>6 DEF RecordSession, Untouched
  <2>7. CASE Swap(k)
    BY <1>1, <2>7 DEF Swap, Untouched
  <2>8. ASSUME NEW p \in Keys, Assign(p, k) PROVE Untouched(q)
    BY <1>1, <2>8 DEF Assign, Untouched
  <2> QED BY <2>1, <2>2, <2>3, <2>4, <2>5, <2>6, <2>7, <2>8 DEF Spawner
<1>2. KeyInv(k)'
  <2> USE <1>0 DEF KeyInv, SpawnInv, LiveInv, OwedInv, Spawning
  <2>1. CASE AppSpawn(k)
    BY <2>1 DEF AppSpawn
  <2>2. CASE SpawnFails(k)
    BY <2>2 DEF SpawnFails
  <2>3. CASE SpawnSession(k)
    BY <2>3 DEF SpawnSession
  <2>4. CASE InsertToken(k)
    BY <2>4 DEF InsertToken
  <2>5. CASE InsertRole(k)
    BY <2>5 DEF InsertRole
  <2>6. CASE RecordSession(k)
    BY <2>6 DEF RecordSession
  <2>7. CASE Swap(k)
    BY <2>7 DEF Swap
  <2>8. ASSUME NEW p \in Keys, Assign(p, k) PROVE KeyInv(k)'
    BY <2>8 DEF Assign
  <2> QED BY <2>1, <2>2, <2>3, <2>4, <2>5, <2>6, <2>7, <2>8 DEF Spawner
<1> QED BY <1>1, <1>2, <1>a, Others

\* The end of an agent.
LEMMA KeyExit ==
  ASSUME TypeOK, \A q \in Keys : KeyInv(q), NEW k \in Keys, Exit(k)
  PROVE  \A q \in Keys : KeyInv(q)'
<1> USE DEF TypeOK, treeVars, spawnVars, gcVars
<1>0. KeyInv(k) /\ App \notin Keys
  BY AgentsAssumption
<1>1. ASSUME NEW q \in Keys, q # k PROVE KeyInv(q)'
  <2>1. Untouched(q) /\ UNCHANGED gcAt
    BY <1>1 DEF Exit, Untouched
  <2> QED BY <2>1, Others
<1>2. KeyInv(k)'
  BY <1>0 DEF Exit, KeyInv, SpawnInv, LiveInv, OwedInv, Spawning
<1> QED BY <1>1, <1>2

\* A step of the sweep.
LEMMA KeySweep ==
  ASSUME TypeOK, \A q \in Keys : KeyInv(q), Gc PROVE \A q \in Keys : KeyInv(q)'
<1> USE DEF TypeOK, treeVars, spawnVars
<1>0. App \notin Keys
  BY AgentsAssumption
<1>1. ASSUME GcTake, NEW q \in Keys PROVE KeyInv(q)'
  <2>1. gcKeys = {}
    BY <1>1 DEF GcTake
  <2>2. SpawnInv(q)'
    BY <1>1 DEF GcTake, KeyInv, SpawnInv
  <2>3. LiveInv(q)'
    BY <1>1, <2>1 DEF GcTake, DeadSessions, KeyInv, LiveInv
  <2>4. OwedInv(q)'
    BY <1>1, <2>1 DEF GcTake, DeadSessions, KeyInv, OwedInv
  <2> QED BY <2>2, <2>3, <2>4 DEF KeyInv
<1>2. ASSUME GcRecordExits, NEW q \in Keys PROVE KeyInv(q)'
  <2>1. row'[q] = Exited(q)
    BY <1>2 DEF GcRecordExits
  <2>2. SpawnInv(q)'
    BY <1>2 DEF GcRecordExits, KeyInv, SpawnInv
  <2>3. LiveInv(q)'
    BY <1>2, <2>1 DEF GcRecordExits, Exited, KeyInv, LiveInv
  <2>4. OwedInv(q)'
    BY <1>2, <2>1 DEF GcRecordExits, Exited, KeyInv, LiveInv, OwedInv
  <2> QED BY <2>2, <2>3, <2>4 DEF KeyInv
<1>3. ASSUME GcDropTokens, NEW q \in Keys PROVE KeyInv(q)'
  <2>2. SpawnInv(q)'
    BY <1>3 DEF GcDropTokens, KeyInv, SpawnInv
  <2>3. LiveInv(q)'
    BY <1>3 DEF GcDropTokens, KeyInv, LiveInv
  <2>4. OwedInv(q)'
    BY <1>3 DEF GcDropTokens, KeyInv, OwedInv
  <2> QED BY <2>2, <2>3, <2>4 DEF KeyInv
<1>4. ASSUME NEW k \in Keys, GcFanIn(k), NEW q \in Keys PROVE KeyInv(q)'
  <2>1. CASE q = k
    <3>1. KeyInv(k) /\ proc[k] = "dead" /\ k \notin sessions
      BY <1>4 DEF GcFanIn, KeyInv, LiveInv
    <3>2. SpawnInv(k)'
      BY <1>4, <3>1 DEF GcFanIn, NodesLeft, KeyInv, SpawnInv
    <3>3. LiveInv(k)'
      BY <1>4, <3>1 DEF GcFanIn, NodesLeft, KeyInv, LiveInv
    <3>4. OwedInv(k)'
      <4> SUFFICES ASSUME ~early[k] PROVE OwedInv(k)'
        BY <1>4, <3>1 DEF GcFanIn, OwedInv
      <4>1. /\ at[k] = "done" /\ told[k] = 0 /\ row[k] = "exited" /\ k \notin tokens
            /\ k \in assigned <=> parent[k] # App
            /\ k \notin reserved
        BY <1>4, <3>1 DEF GcFanIn, KeyInv, SpawnInv, OwedInv, Spawning
      <4>2. told'[k] = IF parent[k] = App THEN 0 ELSE 1
        BY <1>4, <4>1 DEF GcFanIn, Told
      <4>3. /\ k \notin roles' /\ k \notin assigned' /\ k \notin gcKeys' /\ k \notin sessions'
            /\ UNCHANGED <<at, parent, proc, reserved, row, tokens, early>>
        BY <1>4, <3>1 DEF GcFanIn, NodesLeft
      <4> QED BY <4>1, <4>2, <4>3 DEF OwedInv
    <3> QED BY <2>1, <3>2, <3>3, <3>4 DEF KeyInv
  <2>2. CASE q # k
    <3>1. Untouched(q)
      BY <1>4, <2>2 DEF GcFanIn, NodesLeft, Untouched
    <3>2. UNCHANGED gcAt \/ q \notin gcKeys
      BY <1>4, <2>2 DEF GcFanIn
    <3> QED BY <3>1, <3>2, Others
  <2> QED BY <2>1, <2>2
<1> QED BY <1>1, <1>2, <1>3, <1>4 DEF Gc

LEMMA KeyStep == TypeOK /\ (\A k \in Keys : KeyInv(k)) /\ [Next]_vars => \A k \in Keys : KeyInv(k)'
<1> SUFFICES ASSUME TypeOK, \A k \in Keys : KeyInv(k), [Next]_vars PROVE \A k \in Keys : KeyInv(k)'
  OBVIOUS
<1>1. CASE UNCHANGED vars
  <2>1. \A q \in Keys : Untouched(q) /\ UNCHANGED gcAt
    BY <1>1 DEF vars, spawnVars, treeVars, gcVars, Untouched
  <2> QED BY <2>1, Others
<1> QED BY <1>1, KeySpawn, KeyExit, KeySweep DEF Next
-----------------------------------------------------------------------------
(* The theorems.                                                           *)

\* The invariant of the registries: how far a spawn has come bounds what it
\* has registered (spawn_session, assign_worker), and what an agent that exited
\* still has is what gc_tick has not yet taken.
THEOREM AgentsInvariant == Spec => []AgentsInv
<1>1. Init => AgentsInv
  <2>1. ASSUME Init PROVE FanInv
    <3>1. ASSUME NEW p \in Keys PROVE FanOf(p) <= MaxFan
      <4>1. {k \in reserved \cup assigned : parent[k] = p} = {}
        BY <2>1 DEF Init
      <4> QED BY <4>1, FS_EmptySet, AgentsAssumption DEF FanOf
    <3> QED BY <3>1 DEF FanInv
  <2> QED BY <2>1, TypeInit, KeyInit DEF AgentsInv, KeyInv
<1>2. AgentsInv /\ [Next]_vars => AgentsInv'
  BY TypeStep, FanStep, KeyStep DEF AgentsInv, KeyInv
<1> QED BY <1>1, <1>2, PTL DEF Spec

\* An agent never has more running workers than MAX_ASSIGN_FAN: assign_worker
\* counts reservations and nodes under the lock it reserves under, and a worker
\* that runs has the one or the other.
THEOREM FanSafety == Spec => []FanBound
<1>1. AgentsInv => FanBound
  <2> SUFFICES ASSUME AgentsInv, NEW p \in Keys
               PROVE  Cardinality({k \in Keys : proc[k] = "alive" /\ parent[k] = p}) <= MaxFan
    BY DEF FanBound
  <2> DEFINE W == {k \in Keys : proc[k] = "alive" /\ parent[k] = p}
  <2>0. TypeOK /\ FanInv /\ App \notin Keys /\ \A k \in Keys : SpawnInv(k) /\ LiveInv(k)
    BY AgentsAssumption DEF AgentsInv
  <2>1. ASSUME NEW k \in W PROVE k \in Fan(p)
    <3>1. at[k] \in Places /\ at[k] \notin {"free", "building", "failed"} /\ parent[k] # App
      BY <2>0 DEF TypeOK, SpawnInv
    <3>2. at[k] = "done" => k \in assigned
      BY <2>0, <3>1 DEF LiveInv
    <3>3. at[k] # "done" => k \in reserved
      BY <2>0, <3>1 DEF SpawnInv, Spawning
    <3> QED BY <3>2, <3>3 DEF Fan
  <2>2. Cardinality(W) \in Nat /\ Cardinality(W) <= Cardinality(Fan(p))
    BY <2>0, <2>1, FanFinite, FS_Subset, FS_CardinalityType
  <2>3. Cardinality(Fan(p)) \in Nat /\ Cardinality(Fan(p)) <= MaxFan
    BY <2>0, FanFinite DEF FanInv
  <2> QED BY <2>2, <2>3, AgentsAssumption
<1> QED BY <1>1, AgentsInvariant, PTL

\* The sweep of gc_tick takes nothing from an agent that runs: what the steps of
\* its spawn registered stays registered, however early other agents died.
THEOREM RegistrationSafety == Spec => []LiveStaysRegistered
<1>1. AgentsInv => LiveStaysRegistered
  BY DEF AgentsInv, LiveInv, LiveStaysRegistered
<1> QED BY <1>1, AgentsInvariant, PTL

\* An agent that exited after its spawn was through leaves nothing behind once
\* gc_tick is past it, and the agent that assigned it was told exactly once.
THEOREM SweepSafety == Spec => []CleanSweep
<1>1. AgentsInv => CleanSweep
  BY DEF AgentsInv, OwedInv, CleanSweep, Swept
<1> QED BY <1>1, AgentsInvariant, PTL

-----------------------------------------------------------------------------
(* The settings file.                                                      *)

OneEditor == \A a, b \in editors : a = b
CopyIsFile == \A a \in editors : copy[a] = file
OwnNames == \A n \in Names : file[n] \in Agents => n \in Wants[file[n]]
RemovedIsGone == \A a \in Agents \ skipped, n \in Names : stage[a] = "removed" => file[n] # a
MergesAreUp == mode = "up" \/ \A a \in Agents : stage[a] # "merging"
LedgerAlive == mode = "up" => \A a \in ledger : stage[a] \notin {"new", "done", "lost"}

EditInv == SettingsTypeOK /\ OneEditor /\ CopyIsFile /\ MergesAreUp
FileInv == OwnNames /\ RemovedIsGone /\ EntryIsOwed

-----------------------------------------------------------------------------
LEMMA SettingsInitHolds == SettingsInit => EditInv /\ FileInv /\ LedgerAlive
<1> SUFFICES ASSUME SettingsInit PROVE EditInv /\ FileInv /\ LedgerAlive OBVIOUS
<1> USE SettingsAssumption
<1>1. file \in [Names -> Entries] /\ \A n \in Names : file[n] \notin Agents
  BY DEF SettingsInit, Entries
<1>2. SettingsTypeOK
  <2>1. copy \in [Agents -> [Names -> Entries]] BY DEF SettingsInit, Empty, Entries
  <2>2. stage \in [Agents -> Steps] /\ skipped \subseteq Agents
    BY DEF SettingsInit, Steps
  <2>3. editors = {a \in Agents : stage[a] \in {"merging", "removing"}} BY DEF SettingsInit
  <2> QED BY <1>1, <2>1, <2>2, <2>3 DEF SettingsInit, SettingsTypeOK
<1> QED BY <1>1, <1>2 DEF SettingsInit, EditInv, OneEditor, CopyIsFile, MergesAreUp, FileInv, OwnNames,
          RemovedIsGone, EntryIsOwed, LedgerAlive

\* What a step does to the file: one editor's names, or all that it could not
\* parse, or nothing.
LEMMA EditStep ==
  ASSUME EditInv, NEW a \in Agents, Merge(a) \/ MergeBlind(a) \/ Remove(a)
  PROVE  /\ a \in editors /\ file' \in [Names -> Entries]
         /\ \A n \in Names :
              \/ n \in Wants[a] /\ file'[n] = IF stage[a] = "merging" THEN a ELSE NoEntry
              \/ n \notin Wants[a] /\ file'[n] = file[n]
              \/ n \notin Wants[a] /\ file'[n] = NoEntry /\ a \in blind
         /\ editors' = {} /\ blind' = {} /\ parses' = TRUE
         /\ copy' = [copy EXCEPT ![a] = Empty]
<1>1. a \in editors BY DEF EditInv, SettingsTypeOK, Merge, MergeBlind, Remove
<1>2. copy[a] = file BY <1>1 DEF EditInv, CopyIsFile
<1>3. editors \ {a} = {} /\ blind \ {a} = {}
  BY <1>1 DEF EditInv, OneEditor, SettingsTypeOK
<1>t. file \in [Names -> Entries] BY DEF EditInv, SettingsTypeOK
<1>4. CASE Merge(a)
  BY <1>1, <1>2, <1>3, <1>4, <1>t DEF Merge, Write, Unlock, Merged, Entries
<1>5. CASE MergeBlind(a)
  BY <1>1, <1>3, <1>5 DEF MergeBlind, Write, Unlock, StartedOver, Empty, Entries
<1>6. CASE Remove(a)
  BY <1>1, <1>2, <1>3, <1>6, <1>t, SettingsAssumption DEF Remove, Write, Unlock, Removed, Entries
<1> QED BY <1>4, <1>5, <1>6

FileUnchanged == file' = file

LEMMA OtherSteps ==
  ASSUME [SettingsNext]_settingsVars
  PROVE  FileUnchanged \/ \E a \in Agents : Merge(a) \/ MergeBlind(a) \/ Remove(a)
BY DEF SettingsNext, Session, settingsVars, FileUnchanged, Crash, Boot, Booted, UserEdits, BeginMerge,
   SessionExits, MergeFails, RecordCleanup, SpawnPty, SpawnPtyFails, BeginRemove, RemoveFails,
   DropRow, Replay, GiveUp

-----------------------------------------------------------------------------
LEMMA SettingsTypeStep == ASSUME EditInv, [SettingsNext]_settingsVars PROVE SettingsTypeOK'
<1> USE SettingsAssumption
<1>t. SettingsTypeOK BY DEF EditInv
<1>e. Empty \in [Names -> Entries] BY DEF Empty, Entries
<1>1. ASSUME NEW a \in Agents, Merge(a) \/ MergeBlind(a) \/ Remove(a) PROVE SettingsTypeOK'
  <2>1. /\ file' \in [Names -> Entries] /\ editors' = {} /\ a \in editors
        /\ copy' = [copy EXCEPT ![a] = Empty] /\ blind' = {} /\ parses' = TRUE
    BY <1>1, EditStep
  <2>5. copy' \in [Agents -> [Names -> Entries]] BY <2>1, <1>t, <1>e DEF SettingsTypeOK
  <2>2. /\ stage' \in [Agents -> Steps] /\ ledger' = ledger /\ mode' = mode /\ crashes' = crashes
        /\ skipped' = skipped /\ stage'[a] \in {"built", "removed"}
        /\ \A b \in Agents : b # a => stage'[b] = stage[b]
    BY <1>1, <1>t DEF SettingsTypeOK, Merge, MergeBlind, Remove, At, Steps
  <2>3. \A b \in Agents : b # a => stage[b] \notin {"merging", "removing"}
    BY <2>1, <1>t DEF EditInv, OneEditor, SettingsTypeOK
  <2>4. editors' = {b \in Agents : stage'[b] \in {"merging", "removing"}}
    BY <2>1, <2>2, <2>3
  <2> QED BY <1>t, <2>1, <2>2, <2>4, <2>5 DEF SettingsTypeOK
<1>2. ASSUME NEW a \in Agents, BeginMerge(a) \/ BeginRemove(a) PROVE SettingsTypeOK'
  <2>1. /\ stage' \in [Agents -> Steps] /\ stage'[a] \in {"merging", "removing"}
        /\ \A b \in Agents : b # a => stage'[b] = stage[b]
    BY <1>2, <1>t DEF SettingsTypeOK, BeginMerge, BeginRemove, At, Steps
  <2>2. /\ copy' \in [Agents -> [Names -> Entries]] /\ editors' = editors \cup {a}
        /\ blind' \subseteq editors'
    BY <1>2, <1>t DEF SettingsTypeOK, BeginMerge, BeginRemove, Lock
  <2>3. editors' = {b \in Agents : stage'[b] \in {"merging", "removing"}}
    BY <1>t, <2>1, <2>2 DEF SettingsTypeOK
  <2> QED BY <1>2, <1>t, <2>1, <2>2, <2>3 DEF SettingsTypeOK, BeginMerge, BeginRemove
<1>3. ASSUME NEW a \in Agents, MergeFails(a) \/ RemoveFails(a) PROVE SettingsTypeOK'
  <2>1. /\ stage' \in [Agents -> Steps] /\ stage'[a] \in {"failed", "removed"}
        /\ \A b \in Agents : b # a => stage'[b] = stage[b]
    BY <1>3, <1>t DEF SettingsTypeOK, MergeFails, RemoveFails, At, Steps
  <2>2. /\ file' = file /\ parses' = parses
        /\ editors' = editors \ {a} /\ blind' \subseteq editors'
        /\ copy' \in [Agents -> [Names -> Entries]]
    BY <1>3, <1>t, <1>e DEF MergeFails, RemoveFails, GiveUp, Unlock, SettingsTypeOK
  <2>3. editors' = {b \in Agents : stage'[b] \in {"merging", "removing"}}
    BY <1>t, <2>1, <2>2 DEF SettingsTypeOK
  <2> QED BY <1>3, <1>t, <2>1, <2>2, <2>3 DEF SettingsTypeOK, MergeFails, RemoveFails
<1>4. ASSUME NEW a \in Agents, RecordCleanup(a) \/ DropRow(a) \/ Replay(a) \/ SpawnPty(a)
                             \/ SpawnPtyFails(a) \/ SessionExits(a)
      PROVE SettingsTypeOK'
  <2>1. stage[a] \notin {"merging", "removing"}
    BY <1>4, <1>t DEF EditInv, MergesAreUp, Replaying, RecordCleanup, DropRow, Replay, SpawnPty,
       SpawnPtyFails, SessionExits
  <2>2. /\ stage' \in [Agents -> Steps] /\ stage'[a] \notin {"merging", "removing"}
        /\ \A b \in Agents : b # a => stage'[b] = stage[b]
    BY <1>4, <2>1, <1>t DEF SettingsTypeOK, RecordCleanup, DropRow, Replay, SpawnPty, SpawnPtyFails, SessionExits, At, Steps
  <2>3. /\ editors' = editors /\ file' = file /\ copy' = copy /\ mode' = mode /\ crashes' = crashes
        /\ parses' = parses /\ blind' = blind
    BY <1>4 DEF RecordCleanup, DropRow, Replay, SpawnPty, SpawnPtyFails, SessionExits
  <2>4. ledger' \subseteq Agents /\ skipped' = skipped
    BY <1>4, <1>t DEF SettingsTypeOK, RecordCleanup, DropRow, Replay, SpawnPty, SpawnPtyFails, SessionExits
  <2>5. editors' = {b \in Agents : stage'[b] \in {"merging", "removing"}}
    BY <1>t, <2>1, <2>2, <2>3 DEF SettingsTypeOK
  <2> QED BY <1>t, <2>2, <2>3, <2>4, <2>5 DEF SettingsTypeOK
<1>5. ASSUME Crash PROVE SettingsTypeOK'
  <2>1. stage' \in [Agents -> Steps] /\ editors' = {b \in Agents : stage'[b] \in {"merging", "removing"}}
    BY <1>5, <1>t DEF Crash, SettingsTypeOK, Steps
  <2> QED BY <1>5, <1>t, <1>e, <2>1 DEF Crash, SettingsTypeOK
<1>6. ASSUME Boot \/ Booted \/ UserEdits \/ UNCHANGED settingsVars PROVE SettingsTypeOK'
  BY <1>6, <1>t DEF Boot, Booted, UserEdits, settingsVars, SettingsTypeOK
<1> QED BY <1>1, <1>2, <1>3, <1>4, <1>5, <1>6 DEF SettingsNext, Session

LEMMA EditorsStep ==
  ASSUME EditInv, [SettingsNext]_settingsVars
  PROVE  OneEditor' /\ CopyIsFile' /\ MergesAreUp'
<1>t. SettingsTypeOK /\ OneEditor /\ CopyIsFile /\ MergesAreUp BY DEF EditInv
<1>1. ASSUME NEW a \in Agents, Merge(a) \/ MergeBlind(a) \/ Remove(a)
      PROVE OneEditor' /\ CopyIsFile' /\ MergesAreUp'
  <2>1. editors' = {} BY <1>1, EditStep
  <2>2. mode' = mode /\ stage' = [stage EXCEPT ![a] = stage'[a]] /\ stage'[a] \in {"built", "removed"}
    BY <1>1, <1>t DEF Merge, MergeBlind, Remove, At, SettingsTypeOK
  <2> QED BY <2>1, <2>2, <1>t DEF OneEditor, CopyIsFile, MergesAreUp, SettingsTypeOK
<1>2. ASSUME NEW a \in Agents, BeginMerge(a) \/ BeginRemove(a)
      PROVE OneEditor' /\ CopyIsFile' /\ MergesAreUp'
  <2>1. editors' = {a} /\ copy'[a] = file /\ file' = file /\ mode' = mode
    BY <1>2, <1>t DEF BeginMerge, BeginRemove, Lock, LockFree, SettingsTypeOK
  <2>2. MergesAreUp'
    BY <1>2, <1>t DEF BeginMerge, BeginRemove, MergesAreUp, At, SettingsTypeOK
  <2> QED BY <2>1, <2>2 DEF OneEditor, CopyIsFile
<1>3. ASSUME NEW a \in Agents,
             \/ MergeFails(a) \/ RemoveFails(a) \/ RecordCleanup(a) \/ DropRow(a) \/ Replay(a)
             \/ SpawnPty(a) \/ SpawnPtyFails(a) \/ SessionExits(a)
      PROVE OneEditor' /\ CopyIsFile' /\ MergesAreUp'
  <2>1. /\ editors' \subseteq editors /\ file' = file /\ mode' = mode
        /\ \A b \in editors' : copy'[b] = copy[b]
    BY <1>3, <1>t DEF MergeFails, RemoveFails, RecordCleanup, DropRow, Replay, SpawnPty, SpawnPtyFails,
       SessionExits, GiveUp, Unlock, SettingsTypeOK
  <2>2. \A b \in Agents : stage'[b] = "merging" => stage[b] = "merging"
    BY <1>3, <1>t DEF MergeFails, RemoveFails, RecordCleanup, DropRow, Replay, SpawnPty,
       SpawnPtyFails, SessionExits, At, SettingsTypeOK
  <2> QED BY <2>1, <2>2, <1>t DEF OneEditor, CopyIsFile, MergesAreUp
<1>4. ASSUME Crash PROVE OneEditor' /\ CopyIsFile' /\ MergesAreUp'
  BY <1>4, <1>t DEF Crash, OneEditor, CopyIsFile, MergesAreUp, SettingsTypeOK
<1>5. ASSUME Boot \/ Booted \/ UserEdits \/ UNCHANGED settingsVars
      PROVE OneEditor' /\ CopyIsFile' /\ MergesAreUp'
  BY <1>5, <1>t DEF Boot, Booted, UserEdits, settingsVars, OneEditor, CopyIsFile, MergesAreUp
<1> QED BY <1>1, <1>2, <1>3, <1>4, <1>5 DEF SettingsNext, Session

\* EditInv holds of every reachable state.
THEOREM EditInvariant == SettingsSpec => []EditInv
<1>1. SettingsInit => EditInv BY SettingsInitHolds
<1>2. EditInv /\ [SettingsNext]_settingsVars => EditInv' BY SettingsTypeStep, EditorsStep DEF EditInv
<1> QED BY <1>1, <1>2, PTL DEF SettingsSpec

\* Types; and the settings lock is held by exactly the sessions in the middle of
\* an edit (providers/config.rs lock_settings), over crashes and failed edits.
THEOREM SettingsTypeSafety == SettingsSpec => []SettingsTypeOK
<1>1. EditInv => SettingsTypeOK BY DEF EditInv
<1> QED BY <1>1, EditInvariant, PTL

-----------------------------------------------------------------------------
\* An edit that could parse the file, of the merge of a spawn or the removal of
\* an exit or a boot, changes no entry but those of the names its session merges
\* or removes: what lock_settings is for. Only a merge that could not parse the
\* file (merge_json_mcp_servers starting over) touches other names.
THEOREM EditSafety == SettingsSpec => OthersKept
<1>1. ASSUME EditInv, [SettingsNext]_settingsVars, NEW n \in Names, file'[n] # file[n]
      PROVE \E a \in editors : n \in Wants[a] \/ a \in blind
  <2>1. PICK a \in Agents : Merge(a) \/ MergeBlind(a) \/ Remove(a)
    BY <1>1, OtherSteps DEF FileUnchanged
  <2> QED BY <1>1, <2>1, EditStep
<1>2. EditInv /\ [SettingsNext]_settingsVars
        => [\A n \in Names : file'[n] # file[n] =>
              \E a \in editors : n \in Wants[a] \/ a \in blind]_settingsVars
  BY <1>1
<1> QED BY <1>2, EditInvariant, PTL DEF SettingsSpec, OthersKept

-----------------------------------------------------------------------------
(* The ledger owes every entry but those whose removal failed.             *)

LEMMA OwedStep ==
  ASSUME EditInv, FileInv, [SettingsNext]_settingsVars
  PROVE  FileInv'
<1> USE SettingsAssumption
<1>t. SettingsTypeOK BY DEF EditInv
<1>1. ASSUME NEW a \in Agents, Merge(a) \/ MergeBlind(a) PROVE FileInv'
  <2>1. /\ stage[a] = "merging" /\ skipped' = skipped /\ ledger' = ledger /\ stage'[a] = "built"
        /\ \A b \in Agents : b # a => stage'[b] = stage[b]
    BY <1>1, <1>t DEF Merge, MergeBlind, At, SettingsTypeOK
  <2>2. \A n \in Names : \/ n \in Wants[a] /\ file'[n] = a
                         \/ n \notin Wants[a] /\ file'[n] \in {file[n], NoEntry}
    BY <1>1, <2>1, EditStep
  <2> QED BY <2>1, <2>2 DEF FileInv, OwnNames, RemovedIsGone, EntryIsOwed
<1>2. ASSUME NEW a \in Agents, Remove(a) PROVE FileInv'
  <2>1. /\ \A n \in Names : file'[n] = IF n \in Wants[a] THEN NoEntry ELSE file[n]
        /\ stage[a] = "removing" /\ ledger' = ledger /\ skipped' = skipped
        /\ \A b \in Agents : b # a => stage'[b] = stage[b]
    <3>1. /\ stage[a] = "removing" /\ ledger' = ledger /\ skipped' = skipped
          /\ \A b \in Agents : b # a => stage'[b] = stage[b]
      BY <1>2, <1>t DEF Remove, At, SettingsTypeOK
    <3>2. a \notin blind BY <1>2 DEF Remove
    <3> QED BY <1>2, <3>1, <3>2, EditStep
  <2>2. \A n \in Names : file'[n] # a BY <2>1 DEF FileInv, OwnNames
  <2>3. \A n \in Names : file'[n] \in Agents => file'[n] = file[n] /\ file[n] # a BY <2>1, <2>2
  <2> QED BY <2>1, <2>2, <2>3 DEF FileInv, OwnNames, RemovedIsGone, EntryIsOwed
<1>3. ASSUME NEW a \in Agents, DropRow(a) PROVE FileInv'
  <2>1. /\ skipped' = skipped /\ file' = file /\ ledger' = ledger \ {a}
        /\ stage[a] = "removed" /\ stage'[a] = "done"
        /\ \A b \in Agents : b # a => stage'[b] = stage[b]
    BY <1>3, <1>t DEF DropRow, At, SettingsTypeOK
  <2>2. a \notin skipped => \A n \in Names : file[n] # a
    BY <2>1 DEF FileInv, RemovedIsGone
  <2> QED BY <2>1, <2>2 DEF FileInv, OwnNames, RemovedIsGone, EntryIsOwed
<1>4. ASSUME NEW a \in Agents, RecordCleanup(a) PROVE FileInv'
  <2>1. /\ skipped' = skipped /\ file' = file /\ ledger' = ledger \cup {a} /\ stage'[a] = "recorded"
        /\ \A b \in Agents : b # a => stage'[b] = stage[b]
    BY <1>4, <1>t DEF RecordCleanup, At, SettingsTypeOK
  <2> QED BY <2>1 DEF FileInv, OwnNames, RemovedIsGone, EntryIsOwed
<1>5. ASSUME NEW a \in Agents,
             \/ BeginMerge(a) \/ BeginRemove(a) \/ Replay(a)
             \/ SpawnPty(a) \/ SpawnPtyFails(a) \/ SessionExits(a)
      PROVE FileInv'
  <2>1. file' = file /\ ledger' = ledger /\ skipped' = skipped
    BY <1>5 DEF BeginMerge, BeginRemove, Replay, SpawnPty, SpawnPtyFails, SessionExits
  <2>2. /\ stage'[a] # "removed" \/ stage'[a] = stage[a]
        /\ stage[a] \in {"built", "orphan"} => a \in ledger \/ stage'[a] = stage[a]
        /\ \A b \in Agents : b # a => stage'[b] = stage[b]
    BY <1>5, <1>t DEF BeginMerge, BeginRemove, Replay, SpawnPty, SpawnPtyFails, SessionExits,
       At, SettingsTypeOK
  <2> QED BY <2>1, <2>2 DEF FileInv, OwnNames, RemovedIsGone, EntryIsOwed
<1>6. ASSUME Crash PROVE FileInv'
  <2>1. /\ file' = file /\ ledger' = ledger /\ skipped' = skipped
        /\ \A b \in Agents : stage'[b] # "removed" /\ (stage[b] \in {"built", "orphan"} => stage'[b] = "orphan")
    BY <1>6, <1>t DEF Crash, SettingsTypeOK
  <2> QED BY <2>1 DEF FileInv, OwnNames, RemovedIsGone, EntryIsOwed
<1>7. ASSUME Boot \/ Booted \/ UserEdits \/ UNCHANGED settingsVars PROVE FileInv'
  BY <1>7 DEF Boot, Booted, UserEdits, settingsVars, FileInv, OwnNames, RemovedIsGone, EntryIsOwed
<1>8. ASSUME NEW a \in Agents, MergeFails(a) \/ RemoveFails(a) PROVE FileInv'
  <2>1. /\ file' = file /\ ledger' = ledger /\ skipped \subseteq skipped'
        /\ stage[a] \in {"merging", "removing"} /\ (stage'[a] = "failed" \/ a \in skipped')
        /\ \A b \in Agents : b # a => stage'[b] = stage[b]
    BY <1>8, <1>t DEF MergeFails, RemoveFails, GiveUp, At, SettingsTypeOK
  <2> QED BY <2>1 DEF FileInv, OwnNames, RemovedIsGone, EntryIsOwed
<1> QED BY <1>1, <1>2, <1>3, <1>4, <1>5, <1>6, <1>7, <1>8 DEF SettingsNext, Session

LEMMA LedgerStep ==
  ASSUME EditInv, LedgerAlive, [SettingsNext]_settingsVars
  PROVE  LedgerAlive'
<1>t. SettingsTypeOK BY DEF EditInv
<1>1. ASSUME NEW a \in Agents,
             \/ BeginMerge(a) \/ Merge(a) \/ MergeBlind(a) \/ MergeFails(a) \/ RecordCleanup(a) \/ SpawnPty(a)
             \/ SpawnPtyFails(a) \/ SessionExits(a) \/ BeginRemove(a) \/ Remove(a) \/ RemoveFails(a)
             \/ DropRow(a) \/ Replay(a)
      PROVE LedgerAlive'
  <2>1. /\ mode' = mode /\ ledger' \subseteq ledger \cup {a}
        /\ \A b \in Agents : b # a => stage'[b] = stage[b]
    BY <1>1, <1>t DEF BeginMerge, Merge, MergeBlind, MergeFails, RecordCleanup, SpawnPty, SpawnPtyFails,
       SessionExits, BeginRemove, Remove, RemoveFails, DropRow, Replay, At, SettingsTypeOK
  <2>2. a \in ledger' => stage'[a] \notin {"new", "done", "lost"} \/ (stage'[a] = stage[a] /\ a \in ledger)
    BY <1>1, <1>t DEF BeginMerge, Merge, MergeBlind, MergeFails, RecordCleanup, SpawnPty, SpawnPtyFails,
       SessionExits, BeginRemove, Remove, RemoveFails, DropRow, Replay, At, SettingsTypeOK
  <2> QED BY <2>1, <2>2, <1>t DEF LedgerAlive, SettingsTypeOK
<1>2. ASSUME Crash \/ Boot \/ Booted \/ UserEdits \/ UNCHANGED settingsVars PROVE LedgerAlive'
  BY <1>2, <1>t DEF Crash, Boot, Booted, UserEdits, settingsVars, LedgerAlive, SettingsTypeOK
<1> QED BY <1>1, <1>2 DEF SettingsNext, Session

\* An entry a session left in the file is owed by its row of the ledger, from the
\* row of the merge to a removal that failed or succeeded, over crashes and boots.
THEOREM OwedSafety == SettingsSpec => []EntryIsOwed
<1>1. SettingsInit => FileInv BY SettingsInitHolds
<1>2. EditInv /\ FileInv /\ [SettingsNext]_settingsVars => FileInv' BY OwedStep
<1>3. FileInv => EntryIsOwed BY DEF FileInv
<1> QED BY <1>1, <1>2, <1>3, EditInvariant, PTL DEF SettingsSpec

\* A booted daemon without sessions has no agent's entry in the file, what crashed
\* between merge and row and what could not be removed apart.
THEOREM CleanSafety == SettingsSpec => []QuietMeansClean
<1>1. SettingsInit => FileInv /\ LedgerAlive BY SettingsInitHolds
<1>2. EditInv /\ FileInv /\ LedgerAlive /\ [SettingsNext]_settingsVars => FileInv' /\ LedgerAlive'
  BY OwedStep, LedgerStep
<1>3. EditInv /\ FileInv /\ LedgerAlive => QuietMeansClean
  BY DEF EditInv, FileInv, EntryIsOwed, LedgerAlive, QuietMeansClean, SettingsTypeOK
<1> QED BY <1>1, <1>2, <1>3, EditInvariant, PTL DEF SettingsSpec
=============================================================================
