------------------------- MODULE WorkflowRun_proofs -------------------------
(***************************************************************************)
(* Proofs about WorkflowRun: for any number of runs, graphs, caps, callers *)
(* and polls, the cap holds, no slot is lost, a run is routed by its own   *)
(* workers' results, and no worker is left without its engine.             *)
(***************************************************************************)
EXTENDS WorkflowRun, FiniteSetTheorems, SequenceTheorems, WellFoundedInduction, TLAPS

USE DEF slots, drive, agents, CreateRun, FinishNodeRun, BlackboardGet, BlackboardSet, GetRun

-----------------------------------------------------------------------------
(* Workers, sequences and the first of some edges.                         *)

LEMMA WorkerPair ==
  /\ \A w \in Workers : w = <<w[1], w[2]>> /\ w[1] \in Runs /\ w[2] \in 1 .. MaxIterations[w[1]]
  /\ \A r \in Runs : \A i \in 1 .. MaxIterations[r] : <<r, i>> \in Workers
BY DEF Workers

LEMMA CurrentWorker ==
  ASSUME TypeOK, PathInv, NEW r \in Runs, path[r] # <<>>
  PROVE  /\ Len(path[r]) \in 1 .. MaxIterations[r] /\ Current(r) \in Workers
         /\ Current(r)[1] = r /\ Current(r)[2] = Len(path[r]) /\ path[r][Len(path[r])] \in Nodes
<1>1. path[r] \in Seq(Nodes) /\ Len(path[r]) \in Nat /\ Len(path[r]) <= MaxIterations[r]
  BY DEF TypeOK, PathInv
<1>2. Len(path[r]) # 0
  BY <1>1, EmptySeq
<1>3. MaxIterations[r] \in Nat
  BY WorkflowAssumption
<1>4. Len(path[r]) \in 1 .. MaxIterations[r]
  BY <1>1, <1>2, <1>3
<1> QED BY <1>1, <1>4, WorkerPair DEF Current

\* Where a worker posts is a key of the board.
LEMMA OnBoard == ASSUME NEW w \in Workers, NEW k \in Keys PROVE <<w[1], k>> \in BoardKeys
<1>1. w[1] \in {v[1] : v \in Workers}
  OBVIOUS
<1> QED BY <1>1 DEF BoardKeys

LEMMA WorkersNode ==
  ASSUME TypeOK, PathInv, NEW w \in Workers, worker[w] # "none"
  PROVE  NodeOf(w) \in Nodes /\ Key(w) \in BoardKeys
<1>1. w[1] \in Runs /\ w[2] \in 1 .. Len(path[w[1]]) /\ path[w[1]] \in Seq(Nodes)
  BY WorkerPair DEF TypeOK, PathInv
<1> QED BY <1>1, OnBoard, WorkflowAssumption DEF NodeOf, Key

\* A set of indices has a first.
LEMMA FirstEdge ==
  ASSUME NEW node, NEW out, Matching(node, out) # {}
  PROVE  First(Matching(node, out)) \in Nodes
<1> DEFINE S == Matching(node, out)
           least == CHOOSE i \in S : \A j \in S : i <= j
<1>1. Edges \in Seq(Edge) /\ DOMAIN Edges = 1 .. Len(Edges)
  BY WorkflowAssumption DEF Valid
<1>2. S \subseteq DOMAIN Edges /\ S \subseteq Nat
  BY <1>1 DEF Matching
<1>3. PICK i \in S : \A j \in S : ~(<<j, i>> \in OpToRel(<, Nat))
  BY <1>2, WFMin, NatLessThanWellFounded
<1>4. \A j \in S : ~(j < i)
  BY <1>2, <1>3 DEF OpToRel
<1>5. \A j \in S : i <= j
  BY <1>2, <1>4
<1>6. least \in S
  BY <1>5
<1>7. Edges[least] \in Edge
  BY <1>1, <1>2, <1>6
<1> QED BY <1>7 DEF First, Edge

-----------------------------------------------------------------------------
(* Slots.                                                                  *)

Holding == {r \in Runs : HoldsSlot(r)}
Working == {r \in Runs : Driven(r)}

LEMMA SlotsFinite ==
  /\ IsFiniteSet(Holding) /\ IsFiniteSet(Working)
  /\ Cardinality(Holding) \in Nat /\ Cardinality(Working) \in Nat
  /\ Cardinality(Working) <= Cardinality(Holding)
<1>1. IsFiniteSet(Holding) /\ Working \subseteq Holding
  BY WorkflowAssumption, FS_Subset DEF Holding, Working, Driven
<1> QED BY <1>1, FS_Subset, FS_CardinalityType

\* What a step of the others leaves of a run's slot.
SlotKept(r) == HoldsSlot(r)' = HoldsSlot(r) /\ Driven(r)' = Driven(r)

LEMMA SlotsKept ==
  ASSUME CapHeld, TypeOK, UNCHANGED active, \A r \in Runs : SlotKept(r) PROVE CapHeld' /\ active' \in Nat
<1>1. Holding' = Holding /\ Working' = Working
  BY DEF Holding, Working, SlotKept
<1> QED BY <1>1 DEF CapHeld, Holding, Working, TypeOK

LEMMA CapStep == TypeOK /\ CapHeld /\ [Next]_vars => CapHeld' /\ active' \in Nat
<1> SUFFICES ASSUME TypeOK, CapHeld, [Next]_vars PROVE CapHeld' /\ active' \in Nat
  OBVIOUS
<1> DEFINE n == Cardinality(Holding)
           m == Cardinality(Working)
<1>0. /\ active = n /\ m <= MaxRuns /\ n \in Nat /\ m \in Nat /\ m <= n /\ MaxRuns \in Nat
      /\ CapHeld' <=> Cardinality(Working') <= MaxRuns /\ active' = Cardinality(Holding')
  BY SlotsFinite, WorkflowAssumption DEF CapHeld, Holding, Working
<1>a. pc \in [Runs -> {"none", "refuse", "refused", "create", "top", "spawn", "record", "check",
                       "look", "kill", "finish", "close", "notify", "release", "ended"}]
  BY DEF TypeOK
<1>1. ASSUME NEW r \in Runs, NEW c \in Workers \cup Callers, Claim(r, c)
      PROVE  CapHeld' /\ active' \in Nat
  <2>1. /\ pc[r] = "none" /\ active' = active + 1
        /\ pc' = [pc EXCEPT ![r] = IF active < MaxRuns THEN "create" ELSE "refuse"]
    BY <1>1 DEF Claim, Goto, UnderCap
  <2>2. Holding' = Holding \cup {r} /\ r \notin Holding
    BY <1>a, <2>1 DEF Holding, HoldsSlot
  <2>3. Cardinality(Holding') = n + 1
    BY <2>2, SlotsFinite, FS_AddElement
  <2>4. Cardinality(Working') <= MaxRuns
    <3>1. CASE active < MaxRuns
      <4>1. Working' = Working \cup {r} /\ r \notin Working
        BY <1>a, <2>1, <3>1 DEF Working, Driven, HoldsSlot
      <4>2. Cardinality(Working') = m + 1
        BY <4>1, SlotsFinite, FS_AddElement
      <4> QED BY <1>0, <3>1, <4>2
    <3>2. CASE ~(active < MaxRuns)
      <4>1. Working' = Working
        BY <1>a, <2>1, <3>2 DEF Working, Driven, HoldsSlot
      <4> QED BY <1>0, <4>1
    <3> QED BY <3>1, <3>2
  <2> QED BY <1>0, <2>1, <2>3, <2>4
<1>6. ASSUME NEW r \in Runs, CreateFails(r) PROVE CapHeld' /\ active' \in Nat
  <2>1. UNCHANGED active /\ pc[r] = "create" /\ pc' = [pc EXCEPT ![r] = "refuse"]
    BY <1>6 DEF CreateFails, Goto
  <2>2. Holding' = Holding /\ Working' \subseteq Working
    BY <1>a, <2>1 DEF Holding, Working, Driven, HoldsSlot
  <2>3. Cardinality(Working') <= m /\ Cardinality(Working') \in Nat
    BY <2>2, SlotsFinite, FS_Subset, FS_CardinalityType
  <2> QED BY <1>0, <2>1, <2>2, <2>3
<1>2. ASSUME NEW r \in Runs, Refuse(r) \/ Release(r) PROVE CapHeld' /\ active' \in Nat
  <2>1. /\ active' = active - 1
        /\ \/ pc[r] = "refuse" /\ pc' = [pc EXCEPT ![r] = "refused"]
           \/ pc[r] = "release" /\ pc' = [pc EXCEPT ![r] = "ended"]
    BY <1>2 DEF Refuse, Release, Returned, Goto
  <2>2. Holding' = Holding \ {r} /\ r \in Holding
    BY <1>a, <2>1 DEF Holding, HoldsSlot
  <2>3. Cardinality(Holding') = n - 1 /\ n # 0
    BY <2>2, SlotsFinite, FS_RemoveElement, FS_EmptySet
  <2>4. Working' \subseteq Working
    BY <1>a, <2>1 DEF Working, Driven, HoldsSlot
  <2>5. Cardinality(Working') <= m /\ Cardinality(Working') \in Nat
    BY <2>4, SlotsFinite, FS_Subset, FS_CardinalityType
  <2> QED BY <1>0, <2>1, <2>3, <2>5
<1>3. ASSUME UNCHANGED active, NEW r \in Runs, NEW p, pc' = [pc EXCEPT ![r] = p],
             pc[r] \notin {"none", "refuse", "refused", "ended"},
             p \notin {"none", "refuse", "refused", "ended"}
      PROVE  CapHeld' /\ active' \in Nat
  <2>1. \A q \in Runs : SlotKept(q)
    BY <1>a, <1>3 DEF SlotKept, Driven, HoldsSlot
  <2> QED BY <1>3, <2>1, SlotsKept
<1>4. ASSUME NEW r \in Runs,
             \/ Create(r) \/ EnterNode(r) \/ SpawnNode(r) \/ SpawnFails(r) \/ RecordNode(r) \/ CheckRun(r)
             \/ Look(r) \/ KillNode(r) \/ FinishNode(r) \/ FinishRun(r) \/ Notify(r)
      PROVE  CapHeld' /\ active' \in Nat
  <2>1. UNCHANGED active /\ pc[r] \notin {"none", "refuse", "refused", "ended"}
    BY <1>4 DEF Create, EnterNode, SpawnNode, SpawnFails, RecordNode, CheckRun, Look, KillNode,
                FinishNode, FinishRun, Notify
  <2>2. PICK p \in {"top", "spawn", "close", "record", "check", "look", "kill", "finish", "notify", "release"} :
          pc' = [pc EXCEPT ![r] = p]
    BY <1>4 DEF Create, EnterNode, SpawnNode, SpawnFails, RecordNode, CheckRun, Look, KillNode,
                FinishNode, FinishRun, Notify, Fails, Goto
  <2> QED BY <1>3, <2>1, <2>2
<1>5. CASE UNCHANGED <<active, pc>>
  <2>1. \A q \in Runs : SlotKept(q)
    BY <1>5 DEF SlotKept, Driven, HoldsSlot
  <2> QED BY <1>5, <2>1, SlotsKept
<1> QED BY <1>1, <1>2, <1>4, <1>5, <1>6 DEF Next, Engine, Cancel, Share, Exit, vars

-----------------------------------------------------------------------------
(* Types.                                                                  *)

LEMMA ExceptType ==
  ASSUME NEW S, NEW T, NEW f \in [S -> T], NEW x, NEW v \in T PROVE [f EXCEPT ![x] = v] \in [S -> T]
OBVIOUS

LEMMA TypeStep == TypeOK /\ PathInv /\ [Next]_vars /\ active' \in Nat => TypeOK'
<1> SUFFICES ASSUME TypeOK, PathInv, [Next]_vars, active' \in Nat PROVE TypeOK'
  OBVIOUS
<1> USE DEF TypeOK
<1>1. ASSUME NEW r \in Runs, NEW c \in Workers \cup Callers, Claim(r, c) PROVE TypeOK'
  BY <1>1 DEF Claim, Goto
<1>2. ASSUME NEW r \in Runs, Cancel(r) PROVE TypeOK'
  BY <1>2 DEF Cancel
<1>3. ASSUME NEW r \in Runs, Create(r) \/ CreateFails(r) \/ Refuse(r) \/ Notify(r) \/ Release(r) PROVE TypeOK'
  <2>1. CASE Create(r)
    <3>1. status' = [status EXCEPT ![r] = "running"] /\ pc' = [pc EXCEPT ![r] = "top"]
      BY <2>1 DEF Create, Goto
    <3>2. UNCHANGED <<by, active, next, path, got, polls, outcome, worker, row, output, board, posted, told>>
      BY <2>1 DEF Create, slots, drive, agents
    <3> QED BY <3>1, <3>2
  <2>2. CASE Refuse(r) \/ Release(r)
    <3>1. pc' = [pc EXCEPT ![r] = "refused"] \/ pc' = [pc EXCEPT ![r] = "ended"]
      BY <2>2 DEF Refuse, Release, Goto
    <3>2. UNCHANGED <<status, by, next, path, got, polls, outcome, worker, row, output, board, posted, told>>
      BY <2>2 DEF Refuse, Release, drive, agents
    <3> QED BY <3>1, <3>2
  <2>3. CASE Notify(r)
    <3>1. told' \in [Runs -> {"none", "completed", "failed"}]
      BY <2>3, ExceptType DEF Notify
    <3>2. pc' = [pc EXCEPT ![r] = "release"]
      BY <2>3 DEF Notify, Goto
    <3>3. UNCHANGED <<status, by, active, next, path, got, polls, outcome, worker, row, output, board, posted>>
      BY <2>3 DEF Notify, slots, drive, agents
    <3> QED BY <3>1, <3>2, <3>3
  <2>4. CASE CreateFails(r)
    BY <2>4 DEF CreateFails, Goto
  <2> QED BY <1>3, <2>1, <2>2, <2>3, <2>4
<1>4. ASSUME NEW r \in Runs, EnterNode(r) PROVE TypeOK'
  <2>1. path' \in [Runs -> Seq(Nodes)]
    <3>1. Append(path[r], next[r]) \in Seq(Nodes)
      BY AppendProperties
    <3> QED BY <1>4, <3>1 DEF EnterNode
  <2>2. outcome' \in [Runs -> {"none", "completed", "failed"}]
    BY <1>4 DEF EnterNode, Fails
  <2>3. pc' = [pc EXCEPT ![r] = "close"] \/ pc' = [pc EXCEPT ![r] = "spawn"]
    BY <1>4 DEF EnterNode, Fails, Goto
  <2>4. UNCHANGED <<status, slots, next, got, polls, agents, told>>
    BY <1>4 DEF EnterNode
  <2> QED BY <2>1, <2>2, <2>3, <2>4
<1>5. ASSUME NEW r \in Runs, SpawnNode(r) \/ KillNode(r) PROVE TypeOK'
  <2>1. worker' \in [Workers -> {"none", "live", "dying", "dead"}]
    <3>1. \/ worker' = [worker EXCEPT ![Current(r)] = "live"]
          \/ worker' = [worker EXCEPT ![Current(r)] = IF worker[Current(r)] = "live" THEN "dying" ELSE worker[Current(r)]]
      BY <1>5 DEF SpawnNode, KillNode, Kill
    <3>2. path[r] # <<>>
      BY <1>5 DEF SpawnNode, KillNode, PathInv
    <3>3. worker[Current(r)] \in {"none", "live", "dying", "dead"}
      BY <3>2, CurrentWorker
    <3> QED BY <3>1, <3>3, ExceptType
  <2>2. pc' = [pc EXCEPT ![r] = "record"] \/ pc' = [pc EXCEPT ![r] = "finish"]
    BY <1>5 DEF SpawnNode, KillNode, Goto
  <2>3. UNCHANGED <<status, slots, next, path, got, polls, outcome, row, output, board, posted, told>>
    BY <1>5 DEF SpawnNode, KillNode
  <2> QED BY <2>1, <2>2, <2>3
<1>12. ASSUME NEW r \in Runs, SpawnFails(r) PROVE TypeOK'
  BY <1>12 DEF SpawnFails, Fails, Goto
<1>13. ASSUME NEW r \in Runs, RecordNode(r) PROVE TypeOK'
  <2>1. row' \in [Workers -> {"none", "running", "completed", "failed"}]
    BY <1>13 DEF RecordNode
  <2>2. polls' \in [Runs -> 0 .. WaitTicks]
    <3>1. 0 \in 0 .. WaitTicks
      BY WorkflowAssumption
    <3> QED BY <1>13, <3>1, ExceptType DEF RecordNode
  <2>3. pc' = [pc EXCEPT ![r] = "check"]
    BY <1>13 DEF RecordNode, Goto
  <2>4. UNCHANGED <<status, slots, next, path, got, outcome, worker, output, board, posted, told>>
    BY <1>13 DEF RecordNode
  <2> QED BY <2>1, <2>2, <2>3, <2>4
<1>14. ASSUME NEW r \in Runs, FinishRun(r) PROVE TypeOK'
  BY <1>14 DEF FinishRun, Finished, Goto
<1>6. ASSUME NEW r \in Runs, CheckRun(r) PROVE TypeOK'
  BY <1>6 DEF CheckRun, Goto
<1>7. ASSUME NEW r \in Runs, Look(r) PROVE TypeOK'
  <2>0. pc[r] = "look"
    BY <1>7 DEF Look
  <2>1. path[r] # <<>>
    BY <2>0 DEF PathInv
  <2>2. Current(r) \in Workers /\ Key(Current(r)) \in BoardKeys
    BY <2>1, CurrentWorker, OnBoard, WorkflowAssumption DEF Key, NodeOf
  <2>3. board[Key(Current(r))].value \in Outputs \cup {NoOutput}
    BY <2>2
  <2>4. got' \in [Runs -> Outputs \cup {NoOutput}]
    BY <1>7, <2>3 DEF Look
  <2>5. polls' \in [Runs -> 0 .. WaitTicks]
    <3>1. WaitTicks \in Nat
      BY WorkflowAssumption
    <3>2. \A n \in 0 .. WaitTicks : (IF n < WaitTicks THEN n + 1 ELSE n) \in 0 .. WaitTicks
      BY <3>1
    <3>3. (IF polls[r] < WaitTicks THEN polls[r] + 1 ELSE polls[r]) \in 0 .. WaitTicks
      BY <3>2
    <3>4. \/ polls' = polls
          \/ polls' = [polls EXCEPT ![r] = IF polls[r] < WaitTicks THEN polls[r] + 1 ELSE polls[r]]
      BY <1>7 DEF Look
    <3> DEFINE n == IF polls[r] < WaitTicks THEN polls[r] + 1 ELSE polls[r]
    <3>5. polls \in [Runs -> 0 .. WaitTicks]
      OBVIOUS
    <3> HIDE DEF n, TypeOK
    <3> QED BY <3>3, <3>4, <3>5, ExceptType DEF n
  <2>6. pc' = [pc EXCEPT ![r] = "kill"] \/ pc' = [pc EXCEPT ![r] = "check"]
    BY <1>7 DEF Look, Goto
  <2>7. UNCHANGED <<status, slots, next, path, outcome, agents, told>>
    BY <1>7 DEF Look
  <2> QED BY <2>4, <2>5, <2>6, <2>7
<1>8. ASSUME NEW r \in Runs, FinishNode(r) PROVE TypeOK'
  <2>1. next' \in [Runs -> Nodes]
    <3> DEFINE edges == Matching(path[r][Len(path[r])], got[r])
    <3>1. \/ next' = next
          \/ edges # {} /\ next' = [next EXCEPT ![r] = First(edges)]
      BY <1>8 DEF FinishNode
    <3>2. edges # {} => First(edges) \in Nodes
      BY FirstEdge
    <3> QED BY <3>1, <3>2
  <2>2. row' \in [Workers -> {"none", "running", "completed", "failed"}]
    BY <1>8 DEF FinishNode
  <2>3. output' \in [Workers -> Outputs \cup {NoOutput}]
    <3>1. output' = output \/ output' = [output EXCEPT ![Current(r)] = got[r]]
      BY <1>8 DEF FinishNode
    <3>2. output \in [Workers -> Outputs \cup {NoOutput}] /\ got[r] \in Outputs \cup {NoOutput}
      OBVIOUS
    <3> HIDE DEF TypeOK
    <3> QED BY <3>1, <3>2, ExceptType
  <2>4. outcome' \in [Runs -> {"none", "completed", "failed"}]
    BY <1>8 DEF FinishNode, Fails
  <2>5. pc' = [pc EXCEPT ![r] = "close"] \/ pc' = [pc EXCEPT ![r] = "top"]
    BY <1>8 DEF FinishNode, Fails, Goto
  <2>6. UNCHANGED <<status, slots, path, got, polls, worker, board, posted, told>>
    BY <1>8 DEF FinishNode
  <2> QED BY <2>1, <2>2, <2>3, <2>4, <2>5, <2>6
<1>9. ASSUME NEW w \in Workers, NEW k \in BoardKeys, NEW v \in Outputs, Share(w, k, v) PROVE TypeOK'
  BY <1>9 DEF Share
<1>10. ASSUME NEW w \in Workers, Exit(w) PROVE TypeOK'
  BY <1>10 DEF Exit
<1>11. CASE UNCHANGED vars
  BY <1>11 DEF vars
<1> QED BY <1>1, <1>2, <1>3, <1>4, <1>5, <1>6, <1>7, <1>8, <1>9, <1>10, <1>11, <1>12, <1>13, <1>14
        DEF Next, Engine

-----------------------------------------------------------------------------
(* Paths, and workers told to end.                                         *)

\* One engine goes on to a place; those that have not begun or are at a node stay so.
AtNode == {"spawn", "record", "check", "look", "kill", "finish"}
NotBegun == {"none", "refuse", "refused", "create"}
Stray(w) == worker[w] = "live" => w = Current(w[1]) /\ pc[w[1]] \in {"record", "check", "look", "kill"}
PathOf(r) ==
  /\ Len(path[r]) <= MaxIterations[r]
  /\ pc[r] \in NotBegun => path[r] = <<>>
  /\ pc[r] \in AtNode => path[r] # <<>>
Numbered(w) == worker[w] # "none" => w[2] <= Len(path[w[1]])

LEMMA PathParts ==
  /\ PathInv <=> (\A r \in Runs : PathOf(r)) /\ \A w \in Workers : Numbered(w)
  /\ NoStrayWorker <=> \A w \in Workers : Stray(w)
BY DEF PathInv, NoStrayWorker, PathOf, Numbered, Stray, AtNode, NotBegun

\* A step that moves one engine, and neither its path nor the workers.
LEMMA EngineMoves ==
  ASSUME TypeOK, PathInv, NoStrayWorker, NEW r \in Runs, NEW p, pc' = [pc EXCEPT ![r] = p],
         UNCHANGED <<path, worker>>,
         p \in NotBegun => pc[r] \in NotBegun,
         p \in AtNode => pc[r] \in AtNode,
         pc[r] \in {"record", "check", "look", "kill"} => p \in {"record", "check", "look", "kill"}
  PROVE  PathInv' /\ NoStrayWorker'
<1>1. pc'[r] = p /\ \A q \in Runs \ {r} : pc'[q] = pc[q]
  BY DEF TypeOK
<1>2. ASSUME NEW q \in Runs PROVE PathOf(q)'
  BY <1>1, PathParts DEF PathOf
<1>3. ASSUME NEW w \in Workers PROVE Numbered(w)' /\ Stray(w)'
  BY <1>1, PathParts, WorkerPair DEF Numbered, Stray, Current
<1> QED BY <1>2, <1>3 DEF PathInv, NoStrayWorker, PathOf, Numbered, Stray, AtNode, NotBegun

LEMMA PathStep ==
  TypeOK /\ PathInv /\ NoStrayWorker /\ [Next]_vars => PathInv' /\ NoStrayWorker'
<1> SUFFICES ASSUME TypeOK, PathInv, NoStrayWorker, [Next]_vars PROVE PathInv' /\ NoStrayWorker'
  OBVIOUS
<1>a. ASSUME \A q \in Runs : PathOf(q)', \A w \in Workers : Numbered(w)' /\ Stray(w)'
      PROVE  PathInv' /\ NoStrayWorker'
  BY <1>a DEF PathInv, NoStrayWorker, PathOf, Numbered, Stray, AtNode, NotBegun
<1>b. (\A q \in Runs : PathOf(q)) /\ \A w \in Workers : Numbered(w) /\ Stray(w)
  BY PathParts
<1>1. ASSUME NEW r \in Runs, NEW c \in Workers \cup Callers, Claim(r, c) PROVE PathInv' /\ NoStrayWorker'
  <2>1. PICK p \in {"create", "refuse"} : pc' = [pc EXCEPT ![r] = p]
    BY <1>1 DEF Claim, Goto
  <2> QED BY <1>1, <2>1, EngineMoves DEF Claim, AtNode, NotBegun
<1>2. ASSUME NEW r \in Runs,
             Refuse(r) \/ Create(r) \/ CreateFails(r) \/ FinishRun(r) \/ Notify(r) \/ Release(r)
      PROVE  PathInv' /\ NoStrayWorker'
  <2>1. PICK p \in {"refuse", "refused", "top", "notify", "release", "ended"} :
          pc' = [pc EXCEPT ![r] = p] /\ (p \in {"refuse", "refused"} => pc[r] \in {"create", "refuse"})
    BY <1>2 DEF Refuse, Create, CreateFails, FinishRun, Notify, Release, Goto
  <2>2. pc[r] \in {"refuse", "create", "close", "notify", "release"} /\ UNCHANGED <<path, worker>>
    BY <1>2 DEF Refuse, Create, CreateFails, FinishRun, Notify, Release
  <2> QED BY <2>1, <2>2, EngineMoves DEF AtNode, NotBegun
<1>3. ASSUME NEW r \in Runs, SpawnFails(r) \/ RecordNode(r) \/ CheckRun(r) \/ Look(r) \/ FinishNode(r)
      PROVE  PathInv' /\ NoStrayWorker'
  <2>1. /\ pc[r] \in AtNode /\ UNCHANGED <<path, worker>>
        /\ pc[r] \in {"record", "check", "look", "kill"} => RecordNode(r) \/ CheckRun(r) \/ Look(r)
    BY <1>3 DEF SpawnFails, RecordNode, CheckRun, Look, FinishNode, AtNode
  <2>2. CASE RecordNode(r) \/ CheckRun(r) \/ Look(r)
    <3>1. PICK p \in {"check", "look", "kill"} : pc' = [pc EXCEPT ![r] = p]
      BY <2>2 DEF RecordNode, CheckRun, Look, Goto
    <3> QED BY <2>1, <3>1, EngineMoves DEF AtNode, NotBegun
  <2>3. CASE SpawnFails(r) \/ FinishNode(r)
    <3>1. PICK p \in {"close", "top"} : pc' = [pc EXCEPT ![r] = p]
      BY <2>3 DEF SpawnFails, FinishNode, Fails, Goto
    <3>2. pc[r] \in {"spawn", "finish"}
      BY <2>3 DEF SpawnFails, FinishNode
    <3> QED BY <2>1, <3>1, <3>2, EngineMoves DEF AtNode, NotBegun
  <2> QED BY <1>3, <2>2, <2>3
<1>4. ASSUME NEW r \in Runs, EnterNode(r) PROVE PathInv' /\ NoStrayWorker'
  <2>0. pc[r] = "top" /\ UNCHANGED worker
    BY <1>4 DEF EnterNode
  <2>1. CASE UNCHANGED path /\ pc' = [pc EXCEPT ![r] = "close"]
    BY <2>0, <2>1, EngineMoves DEF AtNode, NotBegun
  <2>2. CASE MayRun(r) /\ path' = [path EXCEPT ![r] = Append(@, next[r])] /\ pc' = [pc EXCEPT ![r] = "spawn"]
    <3>1. path[r] \in Seq(Nodes) /\ next[r] \in Nodes
      BY DEF TypeOK
    <3>2. /\ path'[r] = Append(path[r], next[r]) /\ pc'[r] = "spawn"
          /\ \A q \in Runs \ {r} : path'[q] = path[q] /\ pc'[q] = pc[q]
      BY <2>2 DEF TypeOK
    <3>3. path'[r] # <<>> /\ Len(path'[r]) = Len(path[r]) + 1 /\ Len(path[r]) \in Nat
      BY <3>1, <3>2, AppendProperties
    <3>4. \A q \in Runs : PathOf(q)'
      BY <1>b, <2>2, <3>2, <3>3 DEF PathOf, MayRun, NotBegun
    <3>5. ASSUME NEW w \in Workers PROVE Numbered(w)' /\ Stray(w)'
      <4>1. w[1] \in Runs /\ w[2] \in Int
        BY WorkerPair
      <4>2. CASE w[1] = r
        BY <1>b, <2>0, <3>3, <4>1, <4>2 DEF Numbered, Stray
      <4>3. CASE w[1] # r
        BY <1>b, <2>0, <3>2, <4>1, <4>3 DEF Numbered, Stray, Current
      <4> QED BY <4>2, <4>3
    <3> QED BY <1>a, <3>4, <3>5
  <2> QED BY <1>4, <2>1, <2>2 DEF EnterNode, Fails, Goto
<1>5. ASSUME NEW r \in Runs, SpawnNode(r) \/ KillNode(r) PROVE PathInv' /\ NoStrayWorker'
  <2> DEFINE v == Current(r)
  <2>1. path[r] # <<>> /\ UNCHANGED path /\ pc[r] \in AtNode
    BY <1>5 DEF SpawnNode, KillNode, PathInv, AtNode
  <2>2. v \in Workers /\ v[1] = r /\ v[2] = Len(path[r]) /\ v' = v
    BY <2>1, CurrentWorker DEF Current
  <2>3. /\ SpawnNode(r) => pc'[r] = "record"
        /\ KillNode(r) => pc'[r] = "finish" /\ worker'[v] # "live"
        /\ \A q \in Runs \ {r} : pc'[q] = pc[q]
        /\ \A w \in Workers \ {v} : worker'[w] = worker[w]
    BY <1>5, <2>2 DEF SpawnNode, KillNode, Kill, Goto, TypeOK
  <2>4. \A q \in Runs : PathOf(q)'
    BY <1>b, <1>5, <2>1, <2>3 DEF PathOf, AtNode, NotBegun
  <2>5. ASSUME NEW w \in Workers PROVE Numbered(w)'
    <3>1. CASE w = v
      <4>1. Len(path[r]) \in Int
        BY <2>1, CurrentWorker
      <4> QED BY <2>1, <2>2, <3>1, <4>1 DEF Numbered
    <3>2. CASE w # v
      BY <1>b, <2>1, <2>3, <3>2 DEF Numbered
    <3> QED BY <3>1, <3>2
  <2>6. ASSUME NEW w \in Workers PROVE Stray(w)'
    <3> SUFFICES ASSUME worker'[w] = "live"
                 PROVE  w = Current(w[1])' /\ pc'[w[1]] \in {"record", "check", "look", "kill"}
      BY DEF Stray
    <3>1. CASE w = v
      BY <1>5, <2>2, <2>3, <3>1
    <3>2. CASE w # v
      <4>1. w = Current(w[1]) /\ pc[w[1]] \in {"record", "check", "look", "kill"}
        BY <1>b, <2>3, <3>2 DEF Stray
      <4>2. w[1] # r /\ w[1] \in Runs
        BY <3>2, <4>1, WorkerPair
      <4> QED BY <2>1, <2>3, <4>1, <4>2 DEF Current
    <3> QED BY <3>1, <3>2
  <2> QED BY <1>a, <2>4, <2>5, <2>6
<1>6. ASSUME NEW v \in Workers, Exit(v) PROVE PathInv' /\ NoStrayWorker'
  <2>1. /\ UNCHANGED <<path, pc>> /\ Alive(v)
        /\ worker'[v] = "dead" /\ \A w \in Workers \ {v} : worker'[w] = worker[w]
    BY <1>6 DEF Exit, TypeOK
  <2>2. \A q \in Runs : PathOf(q)'
    BY <1>b, <2>1 DEF PathOf
  <2>3. \A w \in Workers : Numbered(w)' /\ Stray(w)'
    BY <1>b, <2>1 DEF Numbered, Stray, Current, Alive
  <2> QED BY <1>a, <2>2, <2>3
<1>7. CASE UNCHANGED <<pc, path, worker>>
  BY <1>7 DEF PathInv, NoStrayWorker, Current
<1> QED BY <1>1, <1>2, <1>3, <1>4, <1>5, <1>6, <1>7 DEF Next, Engine, Cancel, Share, vars

-----------------------------------------------------------------------------
(* Routes.                                                                 *)

RouteOf(r) ==
  /\ pc[r] \in {"kill", "finish"} /\ got[r] # NoOutput => got[r] \in posted[Current(r)]
  /\ pc[r] = "top" /\ path[r] # <<>> => LedTo(r, Len(path[r]), next[r])
  /\ \A i \in 1 .. Len(path[r]) - 1 : LedTo(r, i, path[r][i + 1])
BoardOK ==
  \A k \in BoardKeys : board[k].author \in Workers =>
    /\ worker[board[k].author] # "none"
    /\ k = Key(board[k].author) => board[k].value \in posted[board[k].author]

LEMMA RouteParts == RouteInv /\ Routed <=> BoardOK /\ \A r \in Runs : RouteOf(r)
BY DEF RouteInv, Routed, RouteOf, BoardOK

Grows == \A w \in Workers : posted[w] \subseteq posted'[w]
ResultKept(r, i) == row'[<<r, i>>] = row[<<r, i>>] /\ output'[<<r, i>>] = output[<<r, i>>]

LEMMA LedKept ==
  ASSUME NEW r, NEW i, <<r, i>> \in Workers, NEW node, LedTo(r, i, node), Grows, ResultKept(r, i),
         path'[r][i] = path[r][i]
  PROVE  LedTo(r, i, node)'
BY DEF LedTo, Grows, ResultKept

\* A run that a step leaves alone.
LEMMA RouteKept ==
  ASSUME TypeOK, PathInv, NEW r \in Runs, RouteOf(r), Grows,
         path'[r] = path[r], next'[r] = next[r], got'[r] = got[r], pc'[r] = pc[r],
         \A i \in 1 .. Len(path[r]) : ResultKept(r, i)
  PROVE  RouteOf(r)'
<1>0. Len(path[r]) \in Nat /\ \A i \in 1 .. Len(path[r]) : <<r, i>> \in Workers
  <2>1. Len(path[r]) \in Nat /\ MaxIterations[r] \in Nat /\ Len(path[r]) <= MaxIterations[r]
    BY WorkflowAssumption DEF TypeOK, PathInv
  <2> QED BY <2>1, WorkerPair
<1>1. ASSUME pc[r] \in {"kill", "finish"}, got[r] # NoOutput PROVE got[r] \in posted'[Current(r)]
  <2>1. Current(r) \in Workers
    BY <1>1, CurrentWorker DEF PathInv
  <2> QED BY <1>1, <2>1 DEF RouteOf, Grows
<1>2. ASSUME pc[r] = "top", path[r] # <<>> PROVE LedTo(r, Len(path[r]), next[r])'
  <2>1. Len(path[r]) \in 1 .. Len(path[r])
    BY <1>2, CurrentWorker
  <2>2. LedTo(r, Len(path[r]), next[r])
    BY <1>2 DEF RouteOf
  <2> QED BY <1>0, <2>1, <2>2, LedKept DEF LedTo, Grows, ResultKept
<1>3. ASSUME NEW i \in 1 .. Len(path[r]) - 1 PROVE LedTo(r, i, path[r][i + 1])'
  <2>1. LedTo(r, i, path[r][i + 1])
    BY DEF RouteOf
  <2>2. i \in 1 .. Len(path[r])
    BY <1>0
  <2> QED BY <1>0, <2>1, <2>2 DEF LedTo, Grows, ResultKept
<1>4. Current(r)' = Current(r)
  BY DEF Current
<1> QED BY <1>1, <1>2, <1>3, <1>4 DEF RouteOf

\* An engine that goes on, and leaves what earlier nodes came to.
LEMMA RoutePast ==
  ASSUME TypeOK, PathInv, NEW r \in Runs, RouteOf(r), Grows, path'[r] = path[r],
         \A i \in 1 .. Len(path[r]) - 1 : ResultKept(r, i)
  PROVE  \A i \in 1 .. Len(path'[r]) - 1 : LedTo(r, i, path[r][i + 1])'
<1>0. /\ Len(path[r]) \in Nat /\ MaxIterations[r] \in Nat /\ Len(path[r]) <= MaxIterations[r]
  BY WorkflowAssumption DEF TypeOK, PathInv
<1> TAKE i \in 1 .. Len(path'[r]) - 1
<1>1. LedTo(r, i, path[r][i + 1]) /\ <<r, i>> \in Workers
  BY <1>0, WorkerPair DEF RouteOf
<1> QED BY <1>1 DEF LedTo, Grows, ResultKept

\* Workers are not unmade, and their nodes stay theirs.
Goes == \A w \in Workers : worker[w] # "none" => worker'[w] # "none" /\ NodeOf(w)' = NodeOf(w)

LEMMA WorkersGo == TypeOK /\ PathInv /\ [Next]_vars => Goes
<1> SUFFICES ASSUME TypeOK, PathInv, [Next]_vars, NEW w \in Workers, worker[w] # "none"
             PROVE  worker'[w] # "none" /\ NodeOf(w)' = NodeOf(w)
  BY DEF Goes
<1>1. w[1] \in Runs /\ w[2] \in 1 .. Len(path[w[1]]) /\ path[w[1]] \in Seq(Nodes)
  BY WorkerPair DEF TypeOK, PathInv
<1>2. ASSUME NEW r \in Runs, EnterNode(r) PROVE worker'[w] # "none" /\ NodeOf(w)' = NodeOf(w)
  <2>1. path' = path \/ path' = [path EXCEPT ![r] = Append(path[r], next[r])]
    BY <1>2 DEF EnterNode
  <2>2. next[r] \in Nodes
    BY DEF TypeOK
  <2>3. Append(path[w[1]], next[r])[w[2]] = path[w[1]][w[2]]
    BY <1>1, <2>2, AppendProperties
  <2>4. path'[w[1]][w[2]] = path[w[1]][w[2]]
    <3>1. path' = path \/ path'[w[1]] = path[w[1]] \/ path'[w[1]] = Append(path[w[1]], next[r])
      BY <1>1, <2>1 DEF TypeOK
    <3> QED BY <2>3, <3>1
  <2>5. UNCHANGED worker
    BY <1>2 DEF EnterNode
  <2> QED BY <2>4, <2>5 DEF NodeOf
<1>3. ASSUME UNCHANGED path, \/ UNCHANGED worker
                             \/ \E v \in Workers, p \in {"live", "dying", "dead"} : worker' = [worker EXCEPT ![v] = p]
                             \/ \E r \in Runs : Kill(Current(r)) \/ worker' = [worker EXCEPT ![Current(r)] = "live"]
      PROVE  worker'[w] # "none" /\ NodeOf(w)' = NodeOf(w)
  BY <1>3 DEF TypeOK, Kill, NodeOf
<1>4. ASSUME NEW r \in Runs, Engine(r), ~EnterNode(r) PROVE worker'[w] # "none" /\ NodeOf(w)' = NodeOf(w)
  <2>1. CASE SpawnNode(r) \/ KillNode(r)
    BY <1>3, <2>1 DEF SpawnNode, KillNode
  <2>2. CASE ~(SpawnNode(r) \/ KillNode(r))
    BY <1>3, <1>4, <2>2 DEF Engine, Refuse, Create, CreateFails, SpawnFails, RecordNode, CheckRun, Look,
                            FinishNode, FinishRun, Notify, Release
  <2> QED BY <2>1, <2>2
<1>5. ASSUME NEW v \in Workers, Exit(v) PROVE worker'[w] # "none" /\ NodeOf(w)' = NodeOf(w)
  BY <1>3, <1>5 DEF Exit
<1>6. CASE UNCHANGED <<path, worker>>
  BY <1>3, <1>6
<1> QED BY <1>2, <1>4, <1>5, <1>6 DEF Next, Claim, Cancel, Share, vars

\* A step of one engine, which leaves the other runs alone.
LEMMA EngineRoute ==
  ASSUME TypeOK, PathInv, Goes, BoardOK, \A q \in Runs : RouteOf(q), NEW r \in Runs, RouteOf(r)',
         UNCHANGED <<board, posted>>,
         \A q \in Runs \ {r} :
           path'[q] = path[q] /\ next'[q] = next[q] /\ got'[q] = got[q] /\ pc'[q] = pc[q],
         \A w \in Workers : w[1] # r => row'[w] = row[w] /\ output'[w] = output[w]
  PROVE  RouteInv' /\ Routed'
<1>1. Grows /\ BoardOK'
  BY DEF Grows, BoardOK, Goes, Key
<1>2. ASSUME NEW q \in Runs \ {r} PROVE RouteOf(q)'
  <2>1. Len(path[q]) \in Nat /\ MaxIterations[q] \in Nat /\ Len(path[q]) <= MaxIterations[q]
    BY WorkflowAssumption DEF TypeOK, PathInv
  <2>2. \A i \in 1 .. Len(path[q]) : <<q, i>> \in Workers /\ ResultKept(q, i)
    BY <2>1, WorkerPair DEF ResultKept
  <2> QED BY <1>1, <2>2, RouteKept
<1> QED BY <1>1, <1>2 DEF RouteInv, Routed, RouteOf, BoardOK

LEMMA RouteStep ==
  /\ TypeOK /\ PathInv /\ RouteInv /\ Routed /\ [Next]_vars
  => RouteInv' /\ Routed'
<1> SUFFICES ASSUME TypeOK, PathInv, RouteInv, Routed, [Next]_vars
             PROVE  RouteInv' /\ Routed'
  OBVIOUS
<1>0. BoardOK /\ Goes /\ \A r \in Runs : RouteOf(r)
  BY RouteParts, WorkersGo
\* Engines that neither take a result, nor go on by one, nor enter a node.
<1>1. ASSUME NEW r \in Runs, NEW p, pc' = [pc EXCEPT ![r] = p], UNCHANGED <<path, next, board, posted>>,
             \A w \in Workers : w # Current(r) => row'[w] = row[w] /\ output'[w] = output[w],
             \A q \in Runs \ {r} : got'[q] = got[q],
             p \in {"kill", "finish"} /\ got'[r] # NoOutput => got'[r] \in posted[Current(r)],
             p = "top" /\ path[r] # <<>> => FALSE
      PROVE  RouteInv' /\ Routed'
  <2>1. pc'[r] = p /\ \A q \in Runs \ {r} : pc'[q] = pc[q]
    BY <1>1 DEF TypeOK
  <2>2. Current(r)' = Current(r) /\ Current(r)[1] = r /\ Grows
    BY <1>1 DEF Current, Grows
  <2>3. Len(path[r]) \in Nat /\ MaxIterations[r] \in Nat /\ Len(path[r]) <= MaxIterations[r]
    BY WorkflowAssumption DEF TypeOK, PathInv
  <2>4. \A i \in 1 .. Len(path[r]) - 1 : ResultKept(r, i)
    <3> TAKE i \in 1 .. Len(path[r]) - 1
    <3>1. <<r, i>> \in Workers /\ <<r, i>> # Current(r)
      BY <2>3, WorkerPair DEF Current
    <3> QED BY <1>1, <3>1 DEF ResultKept
  <2>5. RouteOf(r)'
    <3>1. \A i \in 1 .. Len(path'[r]) - 1 : LedTo(r, i, path[r][i + 1])'
      BY <1>0, <1>1, <2>2, <2>4, RoutePast
    <3>2. path'[r] = path[r] /\ UNCHANGED posted
      BY <1>1
    <3> QED BY <1>1, <2>1, <2>2, <3>1, <3>2 DEF RouteOf
  <2>6. \A w \in Workers : w[1] # r => row'[w] = row[w] /\ output'[w] = output[w]
    BY <1>1, <2>2
  <2> QED BY <1>0, <1>1, <2>1, <2>5, <2>6, EngineRoute
<1>2. ASSUME NEW r \in Runs, NEW c \in Workers \cup Callers, Claim(r, c) PROVE RouteInv' /\ Routed'
  <2>1. PICK p \in {"create", "refuse"} : pc' = [pc EXCEPT ![r] = p]
    BY <1>2 DEF Claim, Goto
  <2> QED BY <1>1, <1>2, <2>1 DEF Claim
<1>3. ASSUME NEW r \in Runs, Refuse(r) \/ FinishRun(r) \/ Notify(r) \/ Release(r) \/ SpawnNode(r)
      PROVE  RouteInv' /\ Routed'
  <2>1. PICK p \in {"refused", "notify", "release", "ended", "record"} : pc' = [pc EXCEPT ![r] = p]
    BY <1>3 DEF Refuse, FinishRun, Notify, Release, SpawnNode, Goto
  <2>2. UNCHANGED <<path, next, got, board, posted, row, output>>
    BY <1>3 DEF Refuse, FinishRun, Notify, Release, SpawnNode
  <2> QED BY <1>1, <2>1, <2>2
<1>4. ASSUME NEW r \in Runs, Create(r) \/ CreateFails(r) PROVE RouteInv' /\ Routed'
  <2>1. PICK p \in {"top", "refuse"} : pc' = [pc EXCEPT ![r] = p] /\ path[r] = <<>>
    BY <1>4 DEF Create, CreateFails, Goto, PathInv
  <2>2. UNCHANGED <<path, next, got, board, posted, row, output>>
    BY <1>4 DEF Create, CreateFails
  <2> QED BY <1>1, <2>1, <2>2
<1>5. ASSUME NEW r \in Runs, SpawnFails(r) \/ RecordNode(r) PROVE RouteInv' /\ Routed'
  <2>1. PICK p \in {"close", "check"} : pc' = [pc EXCEPT ![r] = p]
    BY <1>5 DEF SpawnFails, RecordNode, Fails, Goto
  <2>2. UNCHANGED <<path, next, got, board, posted, output>> /\ \A w \in Workers : w # Current(r) => row'[w] = row[w]
    BY <1>5 DEF SpawnFails, RecordNode, TypeOK
  <2> QED BY <1>1, <2>1, <2>2
<1>6. ASSUME NEW r \in Runs, CheckRun(r) PROVE RouteInv' /\ Routed'
  <2>1. PICK p \in {"look", "kill"} : pc' = [pc EXCEPT ![r] = p] /\ (p = "kill" => got'[r] = NoOutput)
    BY <1>6 DEF CheckRun, Goto, TypeOK
  <2>2. UNCHANGED <<path, next, board, posted, row, output>> /\ \A q \in Runs \ {r} : got'[q] = got[q]
    BY <1>6 DEF CheckRun, TypeOK
  <2> QED BY <1>1, <2>1, <2>2
<1>7. ASSUME NEW r \in Runs, Look(r) PROVE RouteInv' /\ Routed'
  <2> DEFINE w == Current(r)
             entry == board[Key(w)]
  <2>1. path[r] # <<>>
    BY <1>7 DEF Look, PathInv
  <2>2. w \in Workers /\ Key(w) \in BoardKeys
    BY <2>1, CurrentWorker, OnBoard, WorkflowAssumption DEF Key, NodeOf
  <2>3. entry.author = w => entry.value \in posted[w]
    BY <1>0, <2>2 DEF BoardOK
  <2>4. PICK p \in {"check", "kill"} : pc' = [pc EXCEPT ![r] = p]
    BY <1>7 DEF Look, Goto
  <2>5. got'[r] # NoOutput => got'[r] \in posted[w]
    BY <1>7, <2>3 DEF Look, PostedBy, TypeOK
  <2>6. UNCHANGED <<path, next, board, posted, row, output>> /\ \A q \in Runs \ {r} : got'[q] = got[q]
    BY <1>7 DEF Look, TypeOK
  <2> QED BY <1>1, <2>4, <2>5, <2>6
<1>8. ASSUME NEW r \in Runs, KillNode(r) PROVE RouteInv' /\ Routed'
  <2>1. pc' = [pc EXCEPT ![r] = "finish"] /\ UNCHANGED <<path, next, got, board, posted, row, output>>
    BY <1>8 DEF KillNode, Goto
  <2>2. got[r] # NoOutput => got[r] \in posted[Current(r)]
    BY <1>0, <1>8 DEF RouteOf, KillNode
  <2> QED BY <1>1, <2>1, <2>2
<1>9. ASSUME NEW r \in Runs, FinishNode(r) PROVE RouteInv' /\ Routed'
  <2> DEFINE w == Current(r)
             edges == Matching(path[r][Len(path[r])], got[r])
  <2>1. path[r] # <<>> /\ UNCHANGED <<path, got, board, posted>>
    BY <1>9 DEF FinishNode, PathInv
  <2>2. w \in Workers /\ w[1] = r /\ w = <<r, Len(path[r])>>
    BY <2>1, CurrentWorker DEF Current
  <2>3. \A v \in Workers : v # w => row'[v] = row[v] /\ output'[v] = output[v]
    BY <1>9, <2>2 DEF FinishNode, TypeOK
  <2>4. CASE pc' = [pc EXCEPT ![r] = "close"] /\ UNCHANGED next
    BY <1>1, <2>1, <2>3, <2>4
  <2>5. CASE /\ got[r] # NoOutput /\ edges # {} /\ next' = [next EXCEPT ![r] = First(edges)]
             /\ row' = [row EXCEPT ![w] = "completed"] /\ output' = [output EXCEPT ![w] = got[r]]
             /\ pc' = [pc EXCEPT ![r] = "top"]
    <3>1. /\ row'[w] = "completed" /\ output'[w] = got[r] /\ next'[r] = First(edges) /\ pc'[r] = "top"
          /\ \A q \in Runs \ {r} : next'[q] = next[q] /\ pc'[q] = pc[q]
      BY <2>2, <2>5 DEF TypeOK
    <3>2. got[r] \in posted[w]
      BY <1>0, <1>9, <2>5 DEF RouteOf, FinishNode
    <3>3. LedTo(r, Len(path[r]), next[r])'
      BY <2>1, <2>2, <2>5, <3>1, <3>2 DEF LedTo
    <3>4. Len(path[r]) \in Nat /\ MaxIterations[r] \in Nat /\ Len(path[r]) <= MaxIterations[r] /\ Grows
      BY <2>1, WorkflowAssumption DEF TypeOK, PathInv, Grows
    <3>5. \A i \in 1 .. Len(path[r]) - 1 : ResultKept(r, i)
      <4> TAKE i \in 1 .. Len(path[r]) - 1
      <4>1. <<r, i>> \in Workers /\ <<r, i>> # w
        BY <2>2, <3>4, WorkerPair
      <4> QED BY <2>3, <4>1 DEF ResultKept
    <3>6. \A i \in 1 .. Len(path'[r]) - 1 : LedTo(r, i, path[r][i + 1])'
      BY <1>0, <2>1, <3>4, <3>5, RoutePast
    <3>7. RouteOf(r)'
      BY <2>1, <3>1, <3>3, <3>6 DEF RouteOf
    <3>8. \A v \in Workers : v[1] # r => row'[v] = row[v] /\ output'[v] = output[v]
      BY <2>2, <2>3
    <3> QED BY <1>0, <2>1, <3>1, <3>7, <3>8, EngineRoute
  <2> QED BY <1>9, <2>4, <2>5 DEF FinishNode, Fails, Goto
<1>10. ASSUME NEW r \in Runs, EnterNode(r) PROVE RouteInv' /\ Routed'
  <2>0. pc[r] = "top" /\ UNCHANGED <<next, got, board, posted, row, output>>
    BY <1>10 DEF EnterNode
  <2>1. CASE UNCHANGED path /\ pc' = [pc EXCEPT ![r] = "close"]
    BY <1>1, <2>0, <2>1
  <2>2. CASE path' = [path EXCEPT ![r] = Append(@, next[r])] /\ pc' = [pc EXCEPT ![r] = "spawn"]
    <3> DEFINE n == Len(path[r])
    <3>1. path[r] \in Seq(Nodes) /\ next[r] \in Nodes /\ n \in Nat
      BY DEF TypeOK
    <3>2. /\ path'[r] = Append(path[r], next[r]) /\ pc'[r] = "spawn"
          /\ \A q \in Runs \ {r} : path'[q] = path[q] /\ pc'[q] = pc[q]
      BY <2>2 DEF TypeOK
    <3>3. /\ Len(path'[r]) = n + 1 /\ path'[r][n + 1] = next[r]
          /\ \A i \in 1 .. n : path'[r][i] = path[r][i]
      BY <3>1, <3>2, AppendProperties
    <3>4. ASSUME NEW i \in 1 .. n PROVE LedTo(r, i, path[r][i + 1])'
      <4>1. LedTo(r, i, path'[r][i + 1])
        <5>1. CASE i = n
          <6>1. path[r] # <<>>
            BY <3>1, <5>1
          <6> QED BY <1>0, <2>0, <3>3, <5>1, <6>1 DEF RouteOf
        <5>2. CASE i # n
          <6>1. i \in 1 .. n - 1 /\ i + 1 \in 1 .. n
            BY <3>1, <5>2
          <6> QED BY <1>0, <3>3, <6>1 DEF RouteOf
        <5> QED BY <5>1, <5>2
      <4> QED BY <2>0, <3>3, <4>1 DEF LedTo
    <3>5. RouteOf(r)'
      <4>1. 1 .. Len(path'[r]) - 1 = 1 .. n
        BY <3>1, <3>3
      <4>2. \A i \in 1 .. Len(path'[r]) - 1 : LedTo(r, i, path[r][i + 1])'
        BY <3>4, <4>1
      <4> QED BY <3>2, <4>2 DEF RouteOf
    <3> QED BY <1>0, <2>0, <3>2, <3>5, EngineRoute
  <2> QED BY <1>10, <2>1, <2>2 DEF EnterNode, Fails, Goto
<1>11. ASSUME NEW v \in Workers, NEW key \in BoardKeys, NEW x \in Outputs, Share(v, key, x)
       PROVE  RouteInv' /\ Routed'
  <2>1. /\ board' = [board EXCEPT ![key] = [author |-> v, value |-> x]] /\ worker[v] # "none"
        /\ posted' = [posted EXCEPT ![v] = IF key = Key(v) THEN posted[v] \cup {x} ELSE posted[v]]
        /\ UNCHANGED <<pc, path, next, got, row, output, worker>>
    BY <1>11 DEF Share, Alive
  <2>2. Grows /\ (key = Key(v) => x \in posted'[v]) /\ \A w \in Workers : Key(w)' = Key(w)
    BY <2>1 DEF Grows, TypeOK, Key, NodeOf
  <2>3. \A r \in Runs : RouteOf(r)'
    BY <1>0, <2>1, <2>2, RouteKept DEF ResultKept
  <2>4. ASSUME NEW k \in BoardKeys, board'[k].author \in Workers
        PROVE  /\ worker'[board'[k].author] # "none"
               /\ k = Key(board[k].author)' => board'[k].value \in posted'[board'[k].author]
    <3>0. \A w \in Workers : Key(w)' = Key(w) /\ worker'[w] = worker[w]
      BY <2>1, <2>2
    <3>1. CASE k = key
      <4>1. board'[k].author = v /\ board'[k].value = x
        BY <2>1, <3>1 DEF TypeOK
      <4>2. Key(board[k].author)' = Key(v)
        BY <2>1, <4>1 DEF Key, NodeOf
      <4> QED BY <2>1, <2>2, <3>0, <3>1, <4>1, <4>2
    <3>2. CASE k # key
      <4>1. board'[k] = board[k]
        BY <2>1, <3>2 DEF TypeOK
      <4>2. Key(board[k].author)' = Key(board[k].author)
        BY <2>1, <4>1 DEF Key, NodeOf
      <4> QED BY <1>0, <2>2, <2>4, <3>0, <4>1, <4>2 DEF BoardOK, Grows
    <3> QED BY <3>1, <3>2
  <2>5. BoardOK'
    BY <2>4 DEF BoardOK
  <2> QED BY <2>3, <2>5 DEF RouteInv, Routed, RouteOf, BoardOK
<1>12. CASE UNCHANGED <<pc, path, next, got, row, output, board, posted>>
  BY <1>0, <1>12 DEF RouteInv, Routed, LedTo, Current, BoardOK, Goes, Key
<1> QED BY <1>2, <1>3, <1>4, <1>5, <1>6, <1>7, <1>8, <1>9, <1>10, <1>11, <1>12
        DEF Next, Engine, Cancel, Exit, vars

\* Only FinishNode completes a node, with what RouteInv says its worker posted.
LEMMA RecordedStep == TypeOK /\ PathInv /\ RouteInv /\ Recorded /\ [Next]_vars => Recorded'
<1> SUFFICES ASSUME TypeOK, PathInv, RouteInv, Recorded, [Next]_vars, NEW w \in Workers, row'[w] = "completed"
             PROVE  output'[w] \in posted'[w]
  BY DEF Recorded
<1>1. row[w] = "completed" => output[w] \in posted[w]
  BY DEF Recorded
<1>2. CASE UNCHANGED <<row, output, posted>>
  BY <1>1, <1>2
<1>3. ASSUME NEW r \in Runs, SpawnFails(r) \/ RecordNode(r) PROVE output'[w] \in posted'[w]
  <2>1. PICK how \in {"failed", "running"} : row' = [row EXCEPT ![Current(r)] = how]
    BY <1>3 DEF SpawnFails, RecordNode
  <2>2. row'[w] = row[w]
    BY <2>1 DEF TypeOK
  <2>3. UNCHANGED <<output, posted>>
    BY <1>3 DEF SpawnFails, RecordNode
  <2> QED BY <1>1, <2>2, <2>3
<1>4. ASSUME NEW r \in Runs, FinishNode(r) PROVE output'[w] \in posted'[w]
  <2>1. UNCHANGED posted /\ pc[r] = "finish"
    BY <1>4 DEF FinishNode
  <2>2. CASE got[r] = NoOutput
    <3>1. row'[w] = row[w] /\ UNCHANGED output
      BY <1>4, <2>2 DEF FinishNode, TypeOK
    <3> QED BY <1>1, <2>1, <3>1
  <2>3. CASE got[r] # NoOutput
    <3>1. got[r] \in posted[Current(r)]
      BY <2>1, <2>3 DEF RouteInv
    <3>2. /\ output' = [output EXCEPT ![Current(r)] = got[r]]
          /\ row' = [row EXCEPT ![Current(r)] = "completed"]
      BY <1>4, <2>3 DEF FinishNode
    <3>3. output'[w] = IF w = Current(r) THEN got[r] ELSE output[w]
      BY <3>2 DEF TypeOK
    <3>4. w # Current(r) => row'[w] = row[w]
      BY <3>2 DEF TypeOK
    <3> QED BY <1>1, <2>1, <3>1, <3>3, <3>4
  <2> QED BY <2>2, <2>3
<1>5. ASSUME NEW v \in Workers, NEW k \in BoardKeys, NEW x \in Outputs, Share(v, k, x)
      PROVE  output'[w] \in posted'[w]
  <2>1. posted[w] \subseteq posted'[w] /\ UNCHANGED <<row, output>>
    BY <1>5 DEF Share, TypeOK
  <2> QED BY <1>1, <2>1
<1> QED BY <1>2, <1>3, <1>4, <1>5
        DEF Next, Engine, Claim, Cancel, Exit, Refuse, Create, CreateFails, EnterNode, SpawnNode, CheckRun,
            Look, KillNode, FinishRun, Notify, Release, vars

-----------------------------------------------------------------------------
(* The invariants of the specification.                                    *)

LEMMA InitInv == Init => WorkflowInv
<1> SUFFICES ASSUME Init PROVE WorkflowInv
  OBVIOUS
<1>1. TypeOK
  BY WorkflowAssumption, EmptySeq DEF Init, TypeOK, Valid
<1>2. \A r \in Runs : path[r] = <<>> /\ Len(path[r]) = 0 /\ pc[r] = "none" /\ MaxIterations[r] \in Nat
  BY WorkflowAssumption, EmptySeq DEF Init
<1>3. PathInv
  BY <1>2 DEF PathInv, Init
<1>4. RouteInv
  BY <1>2, WorkflowAssumption DEF RouteInv, Init
<1>5. RouteFollowsWorker
  BY <1>2 DEF RouteFollowsWorker, Routed, Recorded, Init
<1>6. NoStrayWorker
  BY DEF NoStrayWorker, Init
<1>7. CapHeld
  <2>1. Holding = {} /\ Working = {}
    BY <1>2 DEF Holding, Working, HoldsSlot, Driven
  <2>2. Cardinality(Holding) = 0 /\ Cardinality(Working) = 0
    BY <2>1, FS_EmptySet
  <2> QED BY <2>2, WorkflowAssumption DEF CapHeld, Holding, Working, Init
<1> QED BY <1>1, <1>3, <1>4, <1>5, <1>6, <1>7 DEF WorkflowInv

LEMMA InvStep == WorkflowInv /\ [Next]_vars => WorkflowInv'
<1> SUFFICES ASSUME WorkflowInv, [Next]_vars PROVE WorkflowInv'
  OBVIOUS
<1>1. CapHeld' /\ active' \in Nat
  BY CapStep DEF WorkflowInv
<1>2. TypeOK'
  BY <1>1, TypeStep DEF WorkflowInv
<1>3. PathInv' /\ NoStrayWorker' /\ RouteInv' /\ RouteFollowsWorker'
  BY PathStep, RouteStep, RecordedStep DEF WorkflowInv, RouteFollowsWorker
<1> QED BY <1>1, <1>2, <1>3 DEF WorkflowInv

\* The inductive invariant: types, the path of each run and the workers' places on it, what is on
\* the board and what engines took from it (workflow_engine.rs drive, wait_for_output).
THEOREM WorkflowInvariant == Spec => []WorkflowInv
<1>1. Init => WorkflowInv
  BY InitInv
<1>2. WorkflowInv /\ [Next]_vars => WorkflowInv'
  BY InvStep
<1> QED BY <1>1, <1>2, PTL DEF Spec

\* However many calls of run_workflow interleave with one another and with runs that end, no more
\* engines than the cap are at work and the count is of those that hold a slot (manager.rs
\* run_workflow, the Slot guard).
THEOREM CapSafety == Spec => []CapHeld
<1>1. WorkflowInv => CapHeld
  BY DEF WorkflowInv
<1> QED BY <1>1, WorkflowInvariant, PTL

\* A run follows the edges its own nodes' workers chose, whatever late workers of earlier turns
\* post under the same keys (workflow_engine.rs drive, wait_for_output).
THEOREM RouteSafety == Spec => []RouteFollowsWorker
<1>1. WorkflowInv => RouteFollowsWorker
  BY DEF WorkflowInv
<1> QED BY <1>1, WorkflowInvariant, PTL

\* A worker that nobody has told to end is the one its engine waits for (workflow_engine.rs drive,
\* manager.kill).
THEOREM StraySafety == Spec => []NoStrayWorker
<1>1. WorkflowInv => NoStrayWorker
  BY DEF WorkflowInv
<1> QED BY <1>1, WorkflowInvariant, PTL
=============================================================================
