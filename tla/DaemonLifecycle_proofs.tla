----------------------- MODULE DaemonLifecycle_proofs -----------------------
(***************************************************************************)
(* Proofs about DaemonLifecycle: for any number of daemons, operations of  *)
(* the app and faults, who serves is who holds the lock file in the        *)
(* directory, but for daemons that were replaced; and what follows from    *)
(* it for the token, the agents, the store and its rows.                   *)
(***************************************************************************)
EXTENDS DaemonLifecycle, TLAPS

USE DEF files, boot, disk, idling, app, headless, history

-----------------------------------------------------------------------------
(* Types.                                                                  *)

LEMMA TypeInit == Init => TypeOK
<1> SUFFICES ASSUME Init PROVE TypeOK
  OBVIOUS
<1>1. NoOp \in Op
  BY DEF NoOp, Op, Pcs
<1>2. op \in [Clients -> Op]
  BY <1>1 DEF Init
<1>3. /\ at \in [Daemons -> Stages]
      /\ opened \in [Daemons -> Daemons \cup {None}] /\ pid \in [Daemons -> Daemons \cup {None}]
      /\ keeps \in [Daemons -> Daemons \cup {None}]
  BY LifecycleAssumption DEF Init, Stages
<1>4. end \in [Daemons -> {"none", "exit"} \cup DOMAIN After]
  BY DEF Init
<1>5. alone \in [Daemons -> BOOLEAN] /\ fresh \in [Daemons -> BOOLEAN] /\ scheduled \in BOOLEAN /\ rotten \in BOOLEAN
  BY DEF Init
<1>6. ops \in 0 .. MaxOps /\ faults \in 0 .. MaxFaults
  BY LifecycleAssumption DEF Init
<1>7. /\ lockFile \in Daemons \cup {None} /\ socket \in Daemons \cup {None} /\ token \in Daemons \cup {None}
      /\ store \in Daemons \cup {None} /\ restarting \in Clients \cup {None}
      /\ deaf \subseteq Daemons /\ told \subseteq Daemons /\ agents \subseteq Daemons /\ running \subseteq Daemons
      /\ moved \subseteq Daemons /\ replaced \subseteq Daemons /\ blind \subseteq Daemons
      /\ late \subseteq Daemons /\ quit \subseteq Daemons
      /\ runs \subseteq Daemons /\ spawning \subseteq Daemons
  BY LifecycleAssumption DEF Init
<1> QED BY <1>2, <1>3, <1>4, <1>5, <1>6, <1>7 DEF TypeOK

LEMMA TypeBoot ==
  ASSUME TypeOK, NEW d \in Daemons, Boot(d) PROVE TypeOK'
<1> USE DEF TypeOK, To, Stages
<1>1. CASE OpenLock(d)
  BY <1>1 DEF OpenLock
<1>2. CASE Flock(d)
  BY <1>2 DEF Flock
<1>3. CASE WriteToken(d)
  BY <1>3 DEF WriteToken
<1>4. CASE Look(d)
  BY <1>4 DEF Look
<1>5. CASE Bind(d)
  BY <1>5 DEF Bind
<1>6. CASE OpenStore(d)
  <2>1. /\ at' \in [Daemons -> Stages] /\ store' \in Daemons \cup {None}
        /\ keeps' \in [Daemons -> Daemons \cup {None}] /\ running' \subseteq Daemons
    BY <1>6 DEF OpenStore, OpenFails, Keep
  <2>2. faults' \in 0 .. MaxFaults
    BY <1>6, LifecycleAssumption DEF OpenStore, OpenFails
  <2> QED BY <1>6, <2>1, <2>2 DEF OpenStore
<1>7. CASE MoveAside(d)
  <2>1. rotten' \in BOOLEAN
    BY <1>7 DEF MoveAside
  <2>3. scheduled' \in {FALSE, scheduled}
    BY <1>7, Zenon DEF MoveAside
  <2>4. scheduled' \in BOOLEAN
    BY <2>3, Zenon
  <2>2. store' \in Daemons \cup {None} /\ running' \subseteq Daemons /\ moved' \subseteq Daemons
    <3>1. CASE store = None
      BY <1>7, <3>1 DEF MoveAside
    <3>2. CASE store # None
      <4>1. store' = None /\ running' = {} /\ moved' \in {moved, moved \cup {store}}
        BY <1>7, <3>2, Zenon DEF MoveAside
      <4>2. store \in Daemons
        BY <3>2
      <4> QED BY <4>1, <4>2
    <3> QED BY <3>1, <3>2
  <2>5. at' \in [Daemons -> Stages]
    BY <1>7 DEF MoveAside
  <2> QED BY <1>7, <2>1, <2>2, <2>4, <2>5 DEF MoveAside
<1>8. CASE Renew(d)
  BY <1>8, LifecycleAssumption DEF Renew, Keep
<1>9. CASE RenameFails(d) \/ SweepOrphans(d)
  BY <1>9 DEF RenameFails, SweepOrphans
<1> QED BY <1>1, <1>2, <1>3, <1>4, <1>5, <1>6, <1>7, <1>8, <1>9 DEF Boot

LEMMA TypeEnd ==
  ASSUME TypeOK, NEW d \in Daemons,
         Tick(d) \/ GraceEnds(d) \/ End(d) \/ Crash(d) \/ Wedge(d) \/ AgentExits(d) \/ Headless(d)
  PROVE  TypeOK'
<1> USE DEF TypeOK, To, Stages
<1>1. CASE Reap(d)
  BY <1>1 DEF Reap
<1>2. CASE SeeNobody(d)
  BY <1>2 DEF SeeNobody
<1>3. CASE Decide(d)
  BY <1>3 DEF Decide, After
<1>4. CASE GraceEnds(d)
  BY <1>4 DEF GraceEnds
<1>5. CASE Signalled(d)
  BY <1>5 DEF Signalled, KillAll, After
<1>6. CASE Cleanup(d)
  <2>1. end' \in [Daemons -> {"none", "exit"} \cup DOMAIN After]
    BY <1>6 DEF Cleanup, After
  <2>2. replaced' \subseteq Daemons
    BY <1>6 DEF Cleanup, Displaces, Robbed, Holders
  <2> QED BY <1>6, <2>1, <2>2 DEF Cleanup
<1>7. CASE Exit(d)
  BY <1>7 DEF Exit
<1>8. CASE Crash(d)
  BY <1>8, LifecycleAssumption DEF Crash
<1>9. CASE Wedge(d)
  BY <1>9, LifecycleAssumption DEF Wedge
<1>10. CASE AgentExits(d)
  BY <1>10 DEF AgentExits
<1>11. CASE HeadlessSpawn(d)
  BY <1>11 DEF HeadlessSpawn, RecordSession
<1>12. CASE TouchAfter(d)
  BY <1>12 DEF TouchAfter, Touch
<1> QED BY <1>1, <1>2, <1>3, <1>4, <1>5, <1>6, <1>7, <1>8, <1>9, <1>10, <1>11, <1>12 DEF Tick, End, Headless

LEMMA TypeApp ==
  ASSUME TypeOK, PeerInv, NEW c \in Clients, Begin(c) \/ BeginRead(c) \/ Step(c) PROVE TypeOK' /\ PeerInv'
<1> DEFINE OpOK(o) == o \in Op /\ (o.pc \in {"hello", "sent", "using"} => o.peer # None)
<1>0. op[c] \in Op /\ OpOK(op[c]) /\ \A b \in Clients : OpOK(op[b])
  BY DEF TypeOK, PeerInv
<1>a. ASSUME NEW o, OpOK(o), Do(c, o) PROVE op' \in [Clients -> Op] /\ PeerInv'
  BY <1>0, <1>a DEF Do, TypeOK, PeerInv
<1> USE DEF TypeOK, To, Stages
<1>b. OpOK(NoOp) /\ OpOK(Failed(c))
  <2>1. OpOK(NoOp)
    BY DEF NoOp, Op, Pcs
  <2>2. [op[c] EXCEPT !.pc = "aim"] \in Op /\ [op[c] EXCEPT !.pc = "aim"].pc = "aim"
    BY <1>0 DEF Op, Pcs
  <2> QED BY <1>0, <2>1, <2>2 DEF Failed
<1>c. ASSUME NEW pc \in Pcs, pc \notin {"hello", "sent"}, Move(c, pc), pc = "using" => op[c].peer # None
      PROVE  op' \in [Clients -> Op] /\ PeerInv'
  <2>1. [op[c] EXCEPT !.pc = pc] \in Op
    BY <1>0, <1>c DEF Op
  <2>2. OpOK([op[c] EXCEPT !.pc = pc])
    BY <1>0, <1>c, <2>1 DEF Op
  <2> QED BY <1>a, <1>c, <2>2 DEF Move
<1>1. CASE BeginRead(c)
  <2>1. OpOK([NoOp EXCEPT !.pc = "connect", !.mode = "read"])
    BY DEF NoOp, Op, Pcs
  <2>2. op' \in [Clients -> Op] /\ PeerInv'
    BY <1>1, <1>a, <2>1 DEF BeginRead
  <2> QED BY <1>1, <2>2, LifecycleAssumption DEF BeginRead
<1>2. CASE Begin(c)
  <2>1. OpOK([NoOp EXCEPT !.pc = "connect"]) /\ OpOK([NoOp EXCEPT !.pc = "wait"])
    BY DEF NoOp, Op, Pcs
  <2>2. op' \in [Clients -> Op] /\ PeerInv'
    BY <1>2, <1>a, <2>1 DEF Begin
  <2>3. at' \in [Daemons -> Stages]
    BY <1>2 DEF Begin, Spawn
  <2> QED BY <1>2, <2>2, <2>3, LifecycleAssumption DEF Begin
<1>3. CASE Wait(c)
  <2>1. OpOK([op[c] EXCEPT !.pc = "connect", !.mode = IF Is(c, "await") THEN "retry" ELSE @])
    BY <1>0 DEF Op, Pcs
  <2>2. op' \in [Clients -> Op] /\ PeerInv'
    BY <1>3, <1>a, <1>b, <2>1 DEF Wait
  <2> QED BY <1>3, <2>2 DEF Wait
<1>4. CASE Connect(c)
  <2>1. Connectable => OpOK([op[c] EXCEPT !.pc = "hello", !.peer = socket])
    BY <1>0 DEF Op, Pcs, Connectable
  <2>2. op' \in [Clients -> Op] /\ PeerInv'
    BY <1>4, <1>a, <1>b, <2>1 DEF Connect
  <2> QED BY <1>4, <2>2 DEF Connect
<1>5. CASE ReadToken(c)
  <2>1. OpOK([op[c] EXCEPT !.pc = "sent", !.key = token])
    BY <1>0, <1>5 DEF Op, Pcs, ReadToken, Is
  <2>2. op' \in [Clients -> Op] /\ PeerInv'
    BY <1>5, <1>a, <2>1 DEF ReadToken
  <2> QED BY <1>5, <2>2 DEF ReadToken
<1>6. CASE Answered(c)
  <2>1. OpOK([op[c] EXCEPT !.pc = "connect", !.mode = "retry"])
    BY <1>0 DEF Op, Pcs
  <2>2. op' \in [Clients -> Op] /\ PeerInv'
    BY <1>0, <1>6, <1>a, <1>c, <2>1 DEF Answered, Is, Pcs
  <2> QED BY <1>6, <2>2 DEF Answered, Touch
<1>7. CASE Unusable(c)
  <2>1. OpOK([op[c] EXCEPT !.pc = "restart"])
    BY <1>0 DEF Op, Pcs
  <2>2. op' \in [Clients -> Op] /\ PeerInv'
    BY <1>7, <1>a, <1>b, <2>1 DEF Unusable
  <2> QED BY <1>7, <2>2 DEF Unusable
<1>8. CASE PeerGone(c)
  BY <1>8, <1>a, <1>b DEF PeerGone
<1>9. CASE Use(c)
  <2>1. op' \in [Clients -> Op] /\ PeerInv'
    BY <1>9, <1>a, <1>b DEF Use
  <2>2. op[c].peer \in Daemons
    BY <1>0, <1>9 DEF Use, Is, Op
  <2> QED BY <1>9, <2>1, <2>2 DEF Use, Touch, RecordSession
<1>10. CASE LockRestart(c)
  <2>1. OpOK([op[c] EXCEPT !.pc = "connect", !.mode = "again"])
    BY <1>0 DEF Op, Pcs
  <2>2. op' \in [Clients -> Op] /\ PeerInv'
    BY <1>10, <1>a, <2>1 DEF LockRestart
  <2> QED BY <1>10, <2>2 DEF LockRestart
<1>11. CASE Aim(c)
  BY <1>11, <1>c DEF Aim, Pcs
<1>12. CASE RemoveSocket(c)
  BY <1>12, <1>c DEF RemoveSocket, Pcs, Robbed
<1>13. CASE RemoveToken(c)
  BY <1>13, <1>c DEF RemoveToken, Pcs, Robbed
<1>14. CASE RemoveLock(c)
  BY <1>14, <1>c DEF RemoveLock, Pcs, Holders
<1>15. CASE Respawn(c)
  <2>1. op' \in [Clients -> Op] /\ PeerInv'
    BY <1>15, <1>c DEF Respawn, Pcs
  <2>2. at' \in [Daemons -> Stages]
    BY <1>15 DEF Respawn, Spawn
  <2> QED BY <1>15, <2>1, <2>2 DEF Respawn
<1> QED BY <1>1, <1>2, <1>3, <1>4, <1>5, <1>6, <1>7, <1>8, <1>9, <1>10, <1>11, <1>12, <1>13, <1>14, <1>15
        DEF Step, Restart

LEMMA TypeStep == TypeOK /\ PeerInv /\ [Next]_vars => TypeOK' /\ PeerInv'
<1> SUFFICES ASSUME TypeOK, PeerInv, [Next]_vars PROVE TypeOK' /\ PeerInv'
  OBVIOUS
<1>1. ASSUME NEW d \in Daemons,
             Boot(d) \/ Tick(d) \/ GraceEnds(d) \/ End(d) \/ Crash(d) \/ Wedge(d) \/ AgentExits(d) \/ Headless(d)
      PROVE  TypeOK' /\ PeerInv'
  <2>1. UNCHANGED op
    BY <1>1 DEF Boot, OpenLock, Flock, WriteToken, Look, Bind, OpenStore, MoveAside, RenameFails, Renew, SweepOrphans,
                Tick, Reap, SeeNobody, Decide, GraceEnds, End, Signalled, Cleanup, Exit, Crash, Wedge, AgentExits, Headless, HeadlessSpawn, TouchAfter
  <2>2. TypeOK'
    BY <1>1, TypeBoot, TypeEnd
  <2> QED BY <2>1, <2>2 DEF PeerInv
<1>2. CASE Rot
  <2>1. TypeOK'
    BY <1>2, LifecycleAssumption DEF Rot, TypeOK
  <2> QED BY <1>2, <2>1 DEF Rot, PeerInv
<1>3. CASE UNCHANGED vars
  BY <1>3 DEF vars, TypeOK, PeerInv
<1> QED BY <1>1, <1>2, <1>3, TypeApp DEF Next

-----------------------------------------------------------------------------
(* The lock file.                                                          *)

LEMMA LockInit == Init => LockInv
BY LifecycleAssumption DEF Init, LockInv, Holds, In

\* Two daemons that are in, and were not replaced, are one.
LEMMA OneIn ==
  ASSUME LockInv, NEW d \in Daemons \ Irregular, NEW e \in Daemons \ Irregular, In(d), In(e) PROVE d = e
BY DEF LockInv, In

\* A daemon only goes on, or ends, and the files and the history of who was
\* replaced stay.
LEMMA LockGoesOn ==
  ASSUME TypeOK, LockInv, UNCHANGED <<opened, lockFile, replaced, blind>>,
         \A d \in Daemons : \/ at'[d] = at[d]
                            \/ Holds(d) /\ at'[d] \notin {"off", "open", "lock"}
                            \/ at[d] = "off" /\ at'[d] = "open"
                            \/ at'[d] = "gone",
         \A d \in Daemons : \/ end'[d] = end[d] /\ (end[d] = "none" \/ at'[d] = at[d] \/ at'[d] = "gone")
                            \/ at[d] = "serve" /\ at'[d] = "serve" /\ end[d] # "exit"
  PROVE  LockInv'
<1>0. Irregular' = Irregular
  BY DEF Irregular
<1>1. ASSUME NEW d \in Daemons
      PROVE  /\ (at[d] \in {"off", "open"} <=> opened[d] = None /\ at[d] # "gone")'
             /\ (end[d] # "none" => at[d] \in {"serve", "gone"})'
  BY DEF LockInv, Holds
<1>2. ASSUME NEW d \in Daemons, NEW e \in Daemons, Holds(d)', Holds(e)', opened'[d] = opened'[e] PROVE d = e
  BY <1>2 DEF LockInv, Holds
<1>3. ASSUME NEW d \in Daemons \ Irregular, In(d)' PROVE opened'[d] = lockFile'
  BY <1>3 DEF LockInv, Holds, In
<1> QED BY <1>0, <1>1, <1>2, <1>3 DEF LockInv

LEMMA LockBoot ==
  ASSUME TypeOK, LockInv, NEW d \in Daemons, Boot(d) PROVE LockInv'
<1> USE DEF TypeOK, To
<1>0. None \notin Daemons
  BY LifecycleAssumption
<1>1. CASE OpenLock(d)
  <2>1. /\ at[d] = "open" /\ at' = [at EXCEPT ![d] = "lock"] /\ opened' = [opened EXCEPT ![d] = lockFile']
        /\ lockFile' # None /\ (lockFile # None => lockFile' = lockFile)
        /\ UNCHANGED <<end, replaced, blind>>
    BY <1>0, <1>1 DEF OpenLock
  <2>2. ASSUME NEW e \in Daemons PROVE Holds(e)' = Holds(e) /\ In(e)' = In(e) /\ (Holds(e) => opened'[e] = opened[e])
    BY <2>1 DEF Holds, In
  <2>3. ASSUME NEW e \in Daemons \ Irregular, In(e) PROVE opened'[e] = lockFile'
    BY <2>1, <2>2, <2>3 DEF LockInv, In, Holds
  <2>4. Irregular' = Irregular
    BY <2>1 DEF Irregular
  <2>5. ASSUME NEW e \in Daemons
        PROVE  /\ (at[e] \in {"off", "open"} <=> opened[e] = None /\ at[e] # "gone")'
               /\ (end[e] # "none" => at[e] \in {"serve", "gone"})'
    BY <2>1 DEF LockInv
  <2> QED BY <2>2, <2>3, <2>4, <2>5 DEF LockInv
<1>2. CASE Flock(d)
  <2>1. CASE Locked(opened[d])
    <3>1. at[d] = "lock" /\ at' = [at EXCEPT ![d] = "gone"] /\ UNCHANGED <<opened, lockFile, end, replaced, blind>>
      BY <1>2, <2>1 DEF Flock
    <3> QED BY <3>1, LockGoesOn
  <2>2. CASE ~Locked(opened[d])
    <3>1. /\ at[d] = "lock" /\ at' = [at EXCEPT ![d] = "token"] /\ UNCHANGED <<opened, lockFile, end, replaced>>
          /\ blind' = IF lockFile = opened[d] THEN blind ELSE blind \cup {d}
      BY <1>2, <2>2 DEF Flock
    <3>2. ASSUME NEW e \in Daemons, Holds(e), e # d PROVE opened[e] # opened[d]
      BY <2>2, <3>1, <3>2 DEF Locked, Alive, Holds, LockInv
    <3>3. ASSUME NEW e \in Daemons, e # d PROVE Holds(e)' = Holds(e) /\ In(e)' = In(e)
      BY <3>1, <3>3 DEF Holds, In
    <3>4. Irregular \subseteq Irregular' /\ (lockFile # opened[d] => d \in Irregular')
      BY <3>1 DEF Irregular
    <3>5. ASSUME NEW e \in Daemons, NEW f \in Daemons, Holds(e)', Holds(f)', opened'[e] = opened'[f] PROVE e = f
      BY <3>1, <3>2, <3>3, <3>5 DEF LockInv
    <3>6. ASSUME NEW e \in Daemons \ Irregular', In(e)' PROVE opened'[e] = lockFile'
      BY <3>1, <3>3, <3>4, <3>6 DEF LockInv
    <3>7. ASSUME NEW e \in Daemons
          PROVE  /\ (at[e] \in {"off", "open"} <=> opened[e] = None /\ at[e] # "gone")'
                 /\ (end[e] # "none" => at[e] \in {"serve", "gone"})'
      BY <3>1 DEF LockInv
    <3> QED BY <3>5, <3>6, <3>7 DEF LockInv
  <2> QED BY <2>1, <2>2
<1>3. ASSUME UNCHANGED <<opened, lockFile, end, replaced, blind>>, Holds(d), at[d] # "serve",
             NEW p \in {"look", "unlink", "bind", "load", "aside", "renew", "sweep", "serve", "gone"}, To(d, p)
      PROVE  LockInv'
  <2>1. end[d] = "none"
    BY <1>3 DEF Holds, LockInv
  <2> QED BY <1>3, <2>1, LockGoesOn
<1>4. CASE WriteToken(d) \/ Look(d) \/ Bind(d) \/ OpenStore(d) \/ MoveAside(d) \/ RenameFails(d) \/ Renew(d) \/ SweepOrphans(d)
  <2>1. Holds(d) /\ at[d] # "serve" /\ UNCHANGED <<opened, lockFile, end, replaced, blind>>
    BY <1>4 DEF WriteToken, Look, Bind, OpenStore, MoveAside, RenameFails, Renew, SweepOrphans, Holds
  <2>2. \E p \in {"look", "unlink", "bind", "load", "aside", "renew", "sweep", "serve", "gone"} : To(d, p)
    BY <1>4 DEF WriteToken, Look, Bind, OpenStore, OpenFails, MoveAside, RenameFails, Renew, SweepOrphans
  <2> QED BY <1>3, <2>1, <2>2
<1> QED BY <1>1, <1>2, <1>4 DEF Boot
\* Whoever removes the lock file of another takes it from its holder, who counts
\* as replaced, or holds it.
LEMMA LockRemoved ==
  ASSUME TypeOK, LockInv, lockFile' = None, UNCHANGED <<at, opened, blind>>, replaced \subseteq replaced',
         \A d \in Daemons : end'[d] = end[d] \/ (at[d] = "serve" /\ end'[d] = "exit"),
         \A d \in Holders(lockFile) : Holds(d) => d \in Irregular' \/ end'[d] = "exit"
  PROVE  LockInv'
<1>0. Irregular \subseteq Irregular'
  BY DEF Irregular
<1>1. ASSUME NEW d \in Daemons \ Irregular', In(d)' PROVE FALSE
  <2>1. In(d) /\ d \notin Irregular
    BY <1>0, <1>1 DEF In, Holds
  <2>2. opened[d] = lockFile /\ opened[d] # None
    BY <2>1 DEF LockInv, In, Holds
  <2>3. d \in Holders(lockFile)
    BY <2>1, <2>2 DEF Holders, Alive, In, Holds
  <2> QED BY <1>1, <2>1, <2>3 DEF In
<1>2. \A d \in Daemons : Holds(d)' = Holds(d)
  BY DEF Holds
<1> QED BY <1>1, <1>2 DEF LockInv

LEMMA LockEnd ==
  ASSUME TypeOK, LockInv, NEW d \in Daemons, Decide(d) \/ End(d) \/ Crash(d) PROVE LockInv'
<1> USE DEF TypeOK, To
<1>1. CASE Decide(d)
  <2>1. /\ at[d] = "serve" /\ UNCHANGED <<at, opened, lockFile, replaced, blind>>
        /\ end[d] = "none" /\ end' \in {end, [end EXCEPT ![d] = "socket"]}
    BY <1>1 DEF Decide, Running
  <2> QED BY <2>1, LockGoesOn
<1>2. CASE Signalled(d)
  <2>1. UNCHANGED <<opened, lockFile, replaced, blind>>
    BY <1>2 DEF Signalled
  <2>2. CASE at[d] = "serve" /\ end[d] = "none" /\ end' = [end EXCEPT ![d] = "socket"] /\ UNCHANGED at
    BY <2>1, <2>2, LockGoesOn
  <2>3. CASE at' = [at EXCEPT ![d] = "gone"] /\ UNCHANGED end
    BY <2>1, <2>3, LockGoesOn
  <2>4. CASE UNCHANGED <<at, end>>
    BY <2>1, <2>4, LockGoesOn
  <2> QED BY <1>2, <2>2, <2>3, <2>4 DEF Signalled
<1>3. CASE Cleanup(d)
  <2>1. /\ at[d] = "serve" /\ UNCHANGED <<at, opened, blind>> /\ end[d] \in {"socket", "token", "lock"}
        /\ end' = [end EXCEPT ![d] = After[@]] /\ replaced \subseteq replaced'
        /\ lockFile' = IF end[d] = "lock" THEN None ELSE lockFile
        /\ IF d \notin Irregular THEN replaced' = replaced
           ELSE Holders(lockFile) \ {d} \subseteq replaced'
    BY <1>3 DEF Cleanup, After, Displaces
  <2>2. CASE end[d] = "lock"
    <3>1. end' = [end EXCEPT ![d] = "exit"] /\ lockFile' = None
      BY <2>1, <2>2 DEF After
    <3>2. ASSUME NEW e \in Holders(lockFile), Holds(e) PROVE e \in Irregular' \/ end'[e] = "exit"
      <4>1. CASE e = d
        BY <3>1, <4>1 DEF Holders
      <4>2. CASE e # d /\ d \in Irregular
        BY <2>1, <4>2 DEF Irregular
      <4>3. CASE e # d /\ d \notin Irregular
        <5>1. opened[d] = lockFile /\ opened[e] = lockFile /\ Holds(d)
          BY <2>1, <2>2, <4>3 DEF LockInv, Holds, In, Holders
        <5> QED BY <3>2, <4>3, <5>1 DEF LockInv, Holders
      <4> QED BY <4>1, <4>2, <4>3
    <3> QED BY <2>1, <3>1, <3>2, LockRemoved
  <2>3. CASE end[d] # "lock"
    <3>1. lockFile' = lockFile /\ Irregular \subseteq Irregular' /\ end'[d] \in {"token", "lock"}
      BY <2>1, <2>3 DEF After, Irregular
    <3>2. \A e \in Daemons : Holds(e)' = Holds(e) /\ In(e)' = In(e)
      BY <2>1, <3>1 DEF Holds, In
    <3> QED BY <2>1, <3>1, <3>2 DEF LockInv
  <2> QED BY <2>2, <2>3
<1>4. CASE Exit(d) \/ Crash(d)
  <2>1. at' = [at EXCEPT ![d] = "gone"] /\ UNCHANGED <<opened, lockFile, end, replaced, blind>>
    BY <1>4 DEF Exit, Crash
  <2> QED BY <2>1, LockGoesOn
<1> QED BY <1>1, <1>2, <1>3, <1>4 DEF End
LEMMA LockApp ==
  ASSUME TypeOK, LockInv, NEW c \in Clients, Begin(c) \/ Respawn(c) \/ RemoveSocket(c) \/ RemoveToken(c) \/ RemoveLock(c)
  PROVE  LockInv'
<1> USE DEF TypeOK
<1>1. CASE Begin(c) \/ Respawn(c)
  <2>1. UNCHANGED <<opened, lockFile, end, replaced, blind>>
    BY <1>1 DEF Begin, Respawn
  <2>2. UNCHANGED at \/ \E d \in Daemons : at[d] = "off" /\ at' = [at EXCEPT ![d] = "open"]
    BY <1>1 DEF Begin, Respawn, Spawn, To
  <2>3. \A d \in Daemons : at'[d] = at[d] \/ (at[d] = "off" /\ at'[d] = "open" /\ end[d] = "none")
    BY <2>2 DEF LockInv
  <2> QED BY <2>1, <2>3, LockGoesOn
<1>2. CASE RemoveSocket(c) \/ RemoveToken(c)
  <2>1. UNCHANGED <<at, opened, lockFile, end>> /\ Irregular \subseteq Irregular'
    BY <1>2 DEF RemoveSocket, RemoveToken, Irregular
  <2>2. \A e \in Daemons : Holds(e)' = Holds(e) /\ In(e)' = In(e)
    BY <2>1 DEF Holds, In
  <2> QED BY <2>1, <2>2 DEF LockInv
<1>3. CASE RemoveLock(c)
  <2>1. /\ lockFile' = None /\ UNCHANGED <<at, opened, blind, end>>
        /\ replaced' = replaced \cup Holders(lockFile)
    BY <1>3 DEF RemoveLock
  <2>2. \A d \in Holders(lockFile) : d \in Irregular'
    BY <2>1 DEF Irregular
  <2> QED BY <2>1, <2>2, LockRemoved
<1> QED BY <1>1, <1>2, <1>3

LEMMA LockKept ==
  ASSUME LockInv, UNCHANGED <<at, opened, lockFile, end, replaced, blind>> PROVE LockInv'
<1>1. Irregular' = Irregular /\ \A e \in Daemons : Holds(e)' = Holds(e) /\ In(e)' = In(e)
  BY DEF Holds, In, Irregular
<1> QED BY <1>1 DEF LockInv

LEMMA LockStep == TypeOK /\ LockInv /\ [Next]_vars => LockInv'
<1> SUFFICES ASSUME TypeOK, LockInv, [Next]_vars PROVE LockInv'
  OBVIOUS
<1>1. ASSUME NEW d \in Daemons, Reap(d) \/ SeeNobody(d) \/ GraceEnds(d) \/ Wedge(d) \/ AgentExits(d) \/ Headless(d) PROVE LockInv'
  BY <1>1, LockKept DEF Reap, SeeNobody, GraceEnds, Wedge, AgentExits, Headless, HeadlessSpawn, TouchAfter
<1>2. CASE Rot \/ UNCHANGED vars
  BY <1>2, LockKept DEF Rot, vars
<1>3. ASSUME NEW c \in Clients,
             \/ BeginRead(c) \/ Wait(c) \/ Connect(c) \/ ReadToken(c) \/ Answered(c) \/ Unusable(c) \/ PeerGone(c)
             \/ Use(c) \/ LockRestart(c) \/ Aim(c)
      PROVE  LockInv'
  BY <1>3, LockKept DEF BeginRead, Wait, Connect, ReadToken, Answered, Unusable, PeerGone, Use, LockRestart, Aim
<1> QED BY <1>1, <1>2, <1>3, LockBoot, LockEnd, LockApp DEF Next, Tick, Step, Restart
-----------------------------------------------------------------------------
(* Socket and token.                                                       *)

Bound == {"load", "aside", "renew", "sweep", "serve"}
Unbound == {"look", "unlink", "bind"}

LEMMA TokenInit == Init => TokenInv
BY LifecycleAssumption DEF Init, TokenInv, Irregular, Connectable, Listening

\* As long as nobody was replaced, the daemon that boots or listens is the one
\* that is in.
LEMMA BooterIsIn ==
  ASSUME TypeOK, LockInv, TokenInv, Irregular = {}
  PROVE  /\ \A d, e \in Daemons : In(d) /\ at[e] \in Unbound => d = e
         /\ Connectable => \A d \in Daemons : In(d) => d = socket
<1>1. \A d \in Daemons : at[d] # "serve" /\ Holds(d) => In(d)
  BY DEF LockInv, In, Holds
<1>2. \A d, e \in Daemons : In(d) /\ In(e) => d = e
  BY OneIn
<1>3. ASSUME Connectable PROVE socket \in Daemons /\ In(socket)
  <2>1. socket \in Daemons /\ at[socket] \in Bound
    BY <1>3 DEF Connectable, Listening, TypeOK, Bound
  <2> QED BY <1>1, <2>1 DEF TokenInv, In, Holds, Bound
<1> QED BY <1>1, <1>2, <1>3 DEF In, Holds, Unbound

\* A daemon goes on, or ends, and leaves both files.
LEMMA TokenGoesOn ==
  ASSUME TypeOK, TokenInv, UNCHANGED <<socket, token>>, Irregular \subseteq Irregular',
         \A d \in Daemons : \/ at'[d] = at[d]
                            \/ at'[d] = "gone"
                            \/ at[d] \in {"off", "open", "lock"} /\ at'[d] \in {"open", "lock", "token"}
                            \/ at[d] = "look" /\ at'[d] \in Unbound
                            \/ at[d] \in Bound /\ at'[d] \in Bound /\ (at'[d] = "serve" => end[d] = "none"),
         \A d \in Daemons : \/ end'[d] = end[d]
                            \/ end[d] = "none" /\ end'[d] = "socket"
                            \/ at'[d] = at[d] /\ end[d] \notin {"none", "socket"}
  PROVE  TokenInv'
<1>1. ASSUME NEW d \in Daemons, socket = d
      PROVE  at'[d] \in Bound \cup {"gone"} /\ (at'[d] = "serve" => end'[d] \in {"none", "socket"})
  BY <1>1 DEF TokenInv, Bound, Unbound
<1>2. ASSUME Irregular' = {}, NEW d \in Daemons, at'[d] \in Unbound PROVE token = d
  BY <1>2 DEF TokenInv, Bound, Unbound
<1>3. ASSUME Irregular' = {}, Connectable' PROVE token = socket
  <2>1. socket \in Daemons /\ at'[socket] \in Bound
    BY <1>3 DEF Connectable, Listening, TypeOK, Bound
  <2>2. at[socket] \in Bound
    BY <2>1 DEF Bound, Unbound, TokenInv
  <2> QED BY <1>3, <2>1, <2>2 DEF TokenInv, Connectable, Listening, Bound, TypeOK
<1> QED BY <1>1, <1>2, <1>3 DEF TokenInv, Bound, Unbound

LEMMA TokenBoot ==
  ASSUME TypeOK, LockInv, TokenInv, NEW d \in Daemons, Boot(d) PROVE TokenInv'
<1> USE DEF TypeOK, To
<1>0. UNCHANGED <<end, replaced>> /\ blind \subseteq blind' /\ Irregular \subseteq Irregular'
  BY DEF Boot, OpenLock, Flock, WriteToken, Look, Bind, OpenStore, MoveAside, RenameFails, Renew, SweepOrphans, Irregular
<1>1. CASE OpenLock(d) \/ Flock(d)
  <2>1. /\ UNCHANGED <<socket, token>> /\ at[d] \in {"open", "lock"}
        /\ \E p \in {"lock", "token", "gone"} : at' = [at EXCEPT ![d] = p]
    BY <1>1 DEF OpenLock, Flock
  <2> QED BY <1>0, <2>1, TokenGoesOn
<1>2. CASE WriteToken(d)
  <2>1. /\ at[d] = "token" /\ at' = [at EXCEPT ![d] = "look"] /\ token' = d /\ UNCHANGED <<socket, end>>
    BY <1>2 DEF WriteToken
  <2>2. In(d) /\ socket # d
    BY <2>1 DEF In, Holds, LockInv, TokenInv
  <2>3. ASSUME Irregular' = {} PROVE ~Connectable /\ \A e \in Daemons : at[e] \notin Unbound
    BY <1>0, <2>1, <2>2, <2>3, BooterIsIn DEF Unbound
  <2>4. Connectable' => Connectable
    BY <2>1, <2>2 DEF Connectable, Listening
  <2>5. \A e \in Daemons : socket = e => at'[e] = at[e]
    BY <2>1, <2>2
  <2> QED BY <1>0, <2>1, <2>3, <2>4, <2>5 DEF TokenInv, Unbound
<1>3. CASE Look(d)
  <2>1. /\ UNCHANGED <<socket, token>> /\ at[d] = "look"
        /\ \E p \in {"bind", "unlink", "gone"} : at' = [at EXCEPT ![d] = p]
    BY <1>3 DEF Look
  <2> QED BY <1>0, <2>1, TokenGoesOn DEF Unbound
<1>4. CASE Bind(d)
  <2>1. CASE UNCHANGED socket /\ at' = [at EXCEPT ![d] = "gone"]
    BY <1>0, <1>4, <2>1, TokenGoesOn DEF Bind
  <2>2. CASE socket' = d /\ at' = [at EXCEPT ![d] = "load"]
    <3>1. at[d] \in Unbound /\ UNCHANGED token
      BY <1>4 DEF Bind, Unbound
    <3>2. Irregular' = {} => token = d
      BY <1>0, <3>1 DEF TokenInv, Unbound
    <3> QED BY <1>0, <2>2, <3>1, <3>2 DEF TokenInv, Unbound
  <2> QED BY <1>4, <2>1, <2>2 DEF Bind
<1>5. CASE OpenStore(d) \/ MoveAside(d) \/ RenameFails(d) \/ Renew(d) \/ SweepOrphans(d)
  <2>1. /\ UNCHANGED <<socket, token>> /\ at[d] \in Bound \ {"serve"}
        /\ \E p \in Bound : at' = [at EXCEPT ![d] = p]
    BY <1>5 DEF OpenStore, OpenFails, MoveAside, RenameFails, Renew, SweepOrphans, Bound
  <2>2. end[d] = "none"
    BY <2>1 DEF LockInv, Bound
  <2> QED BY <1>0, <2>1, <2>2, TokenGoesOn
<1> QED BY <1>1, <1>2, <1>3, <1>4, <1>5 DEF Boot

LEMMA TokenEnd ==
  ASSUME TypeOK, LockInv, TokenInv, NEW d \in Daemons, Decide(d) \/ End(d) \/ Crash(d) PROVE TokenInv'
<1> USE DEF TypeOK, To
<1>0. Irregular \subseteq Irregular'
  BY DEF Decide, End, Signalled, Cleanup, Displaces, Exit, Crash, Irregular
<1>1. CASE Decide(d)
  <2>1. UNCHANGED <<at, socket, token>> /\ end[d] = "none" /\ end' \in {end, [end EXCEPT ![d] = "socket"]}
    BY <1>1 DEF Decide, Running
  <2> QED BY <1>0, <2>1, TokenGoesOn
<1>2. CASE Signalled(d)
  <2>1. /\ UNCHANGED <<socket, token>>
        /\ \/ end[d] = "none" /\ end' = [end EXCEPT ![d] = "socket"] /\ UNCHANGED at
           \/ at' = [at EXCEPT ![d] = "gone"] /\ UNCHANGED end
           \/ UNCHANGED <<at, end>>
    BY <1>2 DEF Signalled
  <2> QED BY <1>0, <2>1, TokenGoesOn
<1>3. CASE Cleanup(d)
  <2>1. /\ at[d] = "serve" /\ UNCHANGED <<at>> /\ end[d] \in {"socket", "token", "lock"}
        /\ end' = [end EXCEPT ![d] = After[@]]
        /\ socket' = IF end[d] = "socket" THEN None ELSE socket
        /\ token' = IF end[d] = "token" THEN None ELSE token
    BY <1>3 DEF Cleanup, After
  <2>2. CASE end[d] = "socket"
    <3>1. socket' = None /\ token' = token
      BY <2>1, <2>2
    <3> QED BY <1>0, <2>1, <3>1, LifecycleAssumption DEF TokenInv, Connectable
  <2>3. CASE end[d] = "token"
    <3>1. socket' = socket /\ token' = None /\ In(d) /\ socket # d
      BY <2>1, <2>3 DEF In, Holds, TokenInv
    <3>2. ASSUME Irregular' = {} PROVE ~Connectable /\ \A e \in Daemons : at[e] \notin Unbound
      BY <1>0, <2>1, <3>1, <3>2, BooterIsIn DEF Unbound
    <3>3. Connectable' = Connectable /\ \A e \in Daemons : socket = e => end'[e] = end[e]
      BY <2>1, <3>1 DEF Connectable, Listening
    <3> QED BY <1>0, <2>1, <3>1, <3>2, <3>3 DEF TokenInv, Unbound
  <2>4. CASE end[d] = "lock"
    BY <1>0, <2>1, <2>4, TokenGoesOn
  <2> QED BY <2>1, <2>2, <2>3, <2>4
<1>4. CASE Exit(d) \/ Crash(d)
  <2>1. at' = [at EXCEPT ![d] = "gone"] /\ UNCHANGED <<socket, token, end>>
    BY <1>4 DEF Exit, Crash
  <2> QED BY <1>0, <2>1, TokenGoesOn
<1> QED BY <1>1, <1>2, <1>3, <1>4 DEF End

LEMMA TokenApp ==
  ASSUME TypeOK, LockInv, TokenInv, NEW c \in Clients,
         Begin(c) \/ Respawn(c) \/ RemoveSocket(c) \/ RemoveToken(c) \/ RemoveLock(c)
  PROVE  TokenInv'
<1> USE DEF TypeOK
<1>0. Irregular \subseteq Irregular' /\ UNCHANGED end
  BY DEF Begin, Respawn, RemoveSocket, RemoveToken, RemoveLock, Irregular
<1>1. CASE Begin(c) \/ Respawn(c)
  <2>1. UNCHANGED <<socket, token>>
    BY <1>1 DEF Begin, Respawn
  <2>2. UNCHANGED at \/ \E d \in Daemons : at[d] = "off" /\ at' = [at EXCEPT ![d] = "open"]
    BY <1>1 DEF Begin, Respawn, Spawn, To
  <2> QED BY <1>0, <2>1, <2>2, TokenGoesOn
<1>2. CASE RemoveSocket(c)
  <2>1. socket' = None /\ UNCHANGED <<at, token>>
    BY <1>2 DEF RemoveSocket
  <2> QED BY <1>0, <2>1, LifecycleAssumption DEF TokenInv, Connectable
<1>3. CASE RemoveToken(c)
  <2>1. UNCHANGED <<at, socket>> /\ replaced' = replaced \cup Robbed(token)
    BY <1>3 DEF RemoveToken
  <2>2. ASSUME Irregular' = {} PROVE ~Connectable /\ \A e \in Daemons : at[e] \notin Unbound
    <3>1. \A e \in Daemons : token = e => ~Alive(e)
      BY <2>1, <2>2 DEF Irregular, Robbed
    <3>2. Connectable => socket \in Daemons /\ Alive(socket) /\ token = socket
      BY <1>0, <2>2 DEF TokenInv, Connectable, Listening, Alive
    <3>3. \A e \in Daemons : at[e] \in Unbound => token = e /\ Alive(e)
      BY <1>0, <2>2 DEF TokenInv, Unbound, Alive
    <3> QED BY <3>1, <3>2, <3>3
  <2>3. Connectable' = Connectable
    BY <2>1 DEF Connectable, Listening
  <2> QED BY <1>0, <2>1, <2>2, <2>3 DEF TokenInv, Unbound
<1>4. CASE RemoveLock(c)
  BY <1>0, <1>4, TokenGoesOn DEF RemoveLock
<1> QED BY <1>1, <1>2, <1>3, <1>4

LEMMA TokenStep == TypeOK /\ LockInv /\ TokenInv /\ [Next]_vars => TokenInv'
<1> SUFFICES ASSUME TypeOK, LockInv, TokenInv, [Next]_vars PROVE TokenInv'
  OBVIOUS
<1>0. ASSUME UNCHANGED <<at, socket, token, end, replaced, blind>> PROVE TokenInv'
  BY <1>0 DEF TokenInv, Irregular, Connectable, Listening
<1>1. ASSUME NEW d \in Daemons, Reap(d) \/ SeeNobody(d) \/ GraceEnds(d) \/ Wedge(d) \/ AgentExits(d) \/ Headless(d) PROVE TokenInv'
  BY <1>0, <1>1 DEF Reap, SeeNobody, GraceEnds, Wedge, AgentExits, Headless, HeadlessSpawn, TouchAfter
<1>2. CASE Rot \/ UNCHANGED vars
  BY <1>0, <1>2 DEF Rot, vars
<1>3. ASSUME NEW c \in Clients,
             \/ BeginRead(c) \/ Wait(c) \/ Connect(c) \/ ReadToken(c) \/ Answered(c) \/ Unusable(c) \/ PeerGone(c)
             \/ Use(c) \/ LockRestart(c) \/ Aim(c)
      PROVE  TokenInv'
  BY <1>0, <1>3 DEF BeginRead, Wait, Connect, ReadToken, Answered, Unusable, PeerGone, Use, LockRestart, Aim
<1> QED BY <1>1, <1>2, <1>3, TokenBoot, TokenEnd, TokenApp DEF Next, Tick, Step, Restart
-----------------------------------------------------------------------------
(* The store.                                                              *)

LEMMA StoreInit == Init => StoreInv
BY LifecycleAssumption DEF Init, StoreInv, Unopened, Irregular

\* The disk stays, but for a store that rots.
LEMMA StoreGoesOn ==
  ASSUME TypeOK, StoreInv, UNCHANGED <<store, keeps, moved>>, Irregular \subseteq Irregular', rotten => rotten',
         \A d \in Daemons : \/ at'[d] = at[d]
                            \/ at'[d] \notin Unopened
                            \/ at[d] \in Unopened /\ at'[d] \in Unopened \ {"aside"}
  PROVE  StoreInv'
<1>1. ASSUME NEW d \in Daemons, at'[d] \in Unopened PROVE at[d] \in Unopened
  BY <1>1
<1>2. ASSUME NEW d \in Daemons, at'[d] = "aside" PROVE at[d] = "aside"
  BY <1>2 DEF Unopened
<1> QED BY <1>1, <1>2 DEF StoreInv, Unopened

\* A daemon opens the store there is, or makes one.
LEMMA StoreOpened ==
  ASSUME TypeOK, StoreInv, NEW d \in Daemons, at[d] \in {"load", "renew"}, To(d, "sweep"), Irregular \subseteq Irregular',
         store' = (IF store = None THEN d ELSE store), keeps' = [keeps EXCEPT ![d] = store'], UNCHANGED <<rotten, moved>>
  PROVE  StoreInv'
<1>0. at' = [at EXCEPT ![d] = "sweep"] /\ at[d] \in Unopened /\ None \notin Daemons
  BY LifecycleAssumption DEF To, Unopened
<1>1. ASSUME NEW e \in Daemons, at'[e] \in Unopened
      PROVE  keeps'[e] = None /\ store' # e /\ \A f \in Daemons : keeps'[f] # e
  <2>1. e # d /\ at[e] \in Unopened
    BY <1>0, <1>1 DEF TypeOK, Unopened
  <2>2. keeps[e] = None /\ store # e /\ \A f \in Daemons : keeps[f] # e
    BY <2>1 DEF StoreInv
  <2> QED BY <2>1, <2>2 DEF TypeOK
<1>2. ASSUME Irregular' = {} PROVE moved' = {} /\ \A e \in Daemons : at'[e] = "aside" => rotten'
  BY <1>0, <1>2 DEF StoreInv, TypeOK
<1> QED BY <1>1, <1>2 DEF StoreInv

LEMMA StoreBoot ==
  ASSUME TypeOK, LockInv, StoreInv, NEW d \in Daemons, Boot(d) PROVE StoreInv'
<1> USE DEF TypeOK
<1>0. Irregular \subseteq Irregular'
  BY DEF Boot, OpenLock, Flock, WriteToken, Look, Bind, OpenStore, MoveAside, RenameFails, Renew, SweepOrphans, Irregular
<1>1. CASE OpenLock(d) \/ Flock(d) \/ WriteToken(d) \/ Look(d) \/ Bind(d)
  <2>1. /\ UNCHANGED <<store, keeps, moved, rotten>> /\ at[d] \in Unopened
        /\ \E p \in {"lock", "token", "look", "unlink", "bind", "load", "gone"} : at' = [at EXCEPT ![d] = p]
    BY <1>1 DEF OpenLock, Flock, WriteToken, Look, Bind, To, Unopened
  <2>2. \A e \in Daemons : \/ at'[e] = at[e]
                           \/ at'[e] = "gone"
                           \/ at[e] \in Unopened /\ at'[e] \in {"lock", "token", "look", "unlink", "bind", "load"}
    BY <2>1
  <2>3. \A e \in Daemons : \/ at'[e] = at[e]
                           \/ at'[e] \notin Unopened
                           \/ at[e] \in Unopened /\ at'[e] \in Unopened \ {"aside"}
    BY <2>2 DEF Unopened
  <2> QED BY <1>0, <2>1, <2>3, StoreGoesOn
<1>2. CASE OpenStore(d)
  <2>1. CASE OpenFails(d)
    <3>1. /\ UNCHANGED <<store, keeps, moved, rotten>> /\ at[d] = "load"
          /\ at' = [at EXCEPT ![d] = IF rotten THEN "aside" ELSE "sweep"]
      BY <1>2, <2>1 DEF OpenStore, OpenFails, IsCorruption, To
    <3>2. ASSUME NEW e \in Daemons, at'[e] \in Unopened PROVE at[e] \in Unopened
      BY <3>1, <3>2 DEF Unopened
    <3>3. ASSUME NEW e \in Daemons, at'[e] = "aside" PROVE at[e] = "aside" \/ rotten
      BY <3>1, <3>3
    <3> QED BY <1>0, <3>1, <3>2, <3>3 DEF StoreInv
  <2>2. CASE ~OpenFails(d)
    BY <1>0, <1>2, <2>2, StoreOpened DEF OpenStore, Keep
  <2> QED BY <2>1, <2>2
<1>3. CASE MoveAside(d)
  <2>1. at[d] = "aside" /\ UNCHANGED <<keeps, replaced, blind>>
    BY <1>3 DEF MoveAside
  <2>2. CASE store = None
    <3>1. at' = [at EXCEPT ![d] = "sweep"] /\ UNCHANGED <<store, rotten, moved>>
      BY <1>3, <2>2 DEF MoveAside, To
    <3>2. \A e \in Daemons : at'[e] = at[e] \/ at'[e] \notin Unopened
      BY <3>1 DEF Unopened
    <3> QED BY <1>0, <2>1, <3>1, <3>2, StoreGoesOn
  <2>3. CASE store # None
    <3>1. /\ at' = [at EXCEPT ![d] = "renew"] /\ store' = None
          /\ moved' = IF rotten THEN moved ELSE moved \cup {store}
      BY <1>3, <2>3 DEF MoveAside, To
    <3>2. ASSUME NEW e \in Daemons, at'[e] \in Unopened
          PROVE  keeps'[e] = None /\ store' # e /\ \A f \in Daemons : keeps'[f] # e
      BY <2>1, <3>1, <3>2, LifecycleAssumption DEF StoreInv, Unopened
    <3>3. ASSUME Irregular' = {} PROVE moved' = {} /\ \A e \in Daemons : at'[e] # "aside"
      <4>1. Irregular = {} /\ rotten /\ moved = {}
        BY <1>0, <2>1, <3>3 DEF StoreInv
      <4>2. ASSUME NEW e \in Daemons, at[e] = "aside" PROVE e = d
        <5>1. In(e) /\ In(d)
          BY <2>1, <4>2 DEF In, Holds, LockInv
        <5> QED BY <4>1, <5>1, OneIn
      <4> QED BY <3>1, <4>1, <4>2
    <3> QED BY <3>2, <3>3 DEF StoreInv
  <2> QED BY <2>2, <2>3
<1>4. CASE Renew(d)
  <2>1. CASE UNCHANGED <<store, keeps, running>>
    <3>1. at' = [at EXCEPT ![d] = "sweep"] /\ UNCHANGED <<store, keeps, moved, rotten>>
      BY <1>4, <2>1 DEF Renew, To
    <3>2. \A e \in Daemons : at'[e] = at[e] \/ at'[e] \notin Unopened
      BY <3>1 DEF Unopened
    <3> QED BY <1>0, <3>1, <3>2, StoreGoesOn
  <2>2. CASE ~UNCHANGED <<store, keeps, running>>
    BY <1>0, <1>4, <2>2, StoreOpened DEF Renew, Keep
  <2> QED BY <2>1, <2>2
<1>5. CASE RenameFails(d) \/ SweepOrphans(d)
  <2>1. /\ UNCHANGED <<store, keeps, moved, rotten>>
        /\ at' = [at EXCEPT ![d] = "serve"] \/ at' = [at EXCEPT ![d] = "sweep"]
    BY <1>5 DEF RenameFails, SweepOrphans, To
  <2>2. \A e \in Daemons : at'[e] = at[e] \/ at'[e] \notin Unopened
    BY <2>1 DEF Unopened
  <2> QED BY <1>0, <2>1, <2>2, StoreGoesOn
<1> QED BY <1>1, <1>2, <1>3, <1>4, <1>5 DEF Boot

LEMMA StoreStep == TypeOK /\ LockInv /\ StoreInv /\ [Next]_vars => StoreInv'
<1> SUFFICES ASSUME TypeOK, LockInv, StoreInv, [Next]_vars PROVE StoreInv'
  OBVIOUS
<1>1. ASSUME NEW d \in Daemons, Tick(d) \/ GraceEnds(d) \/ End(d) \/ Crash(d) \/ Wedge(d) \/ AgentExits(d) \/ Headless(d) PROVE StoreInv'
  <2>1. UNCHANGED <<store, keeps, moved, rotten>> /\ Irregular \subseteq Irregular'
    BY <1>1 DEF Tick, Reap, SeeNobody, Decide, GraceEnds, End, Signalled, Cleanup, Displaces, Exit, Crash, Wedge,
                AgentExits, Headless, HeadlessSpawn, TouchAfter, Irregular
  <2>2. UNCHANGED at \/ at' = [at EXCEPT ![d] = "gone"]
    BY <1>1 DEF Tick, Reap, SeeNobody, Decide, GraceEnds, End, Signalled, Cleanup, Exit, Crash, Wedge, AgentExits, Headless, HeadlessSpawn, TouchAfter, To
  <2>3. \A e \in Daemons : at'[e] = at[e] \/ at'[e] \notin Unopened
    BY <2>2 DEF TypeOK, Unopened
  <2> QED BY <2>1, <2>3, StoreGoesOn
<1>2. ASSUME NEW c \in Clients, Begin(c) \/ BeginRead(c) \/ Step(c) PROVE StoreInv'
  <2>1. UNCHANGED <<store, keeps, moved, rotten>> /\ Irregular \subseteq Irregular'
    BY <1>2 DEF Begin, BeginRead, Step, Wait, Connect, ReadToken, Answered, Unusable, PeerGone, Use, Restart,
                LockRestart, Aim, RemoveSocket, RemoveToken, RemoveLock, Respawn, Irregular
  <2>2. UNCHANGED at \/ \E d \in Daemons : at[d] = "off" /\ at' = [at EXCEPT ![d] = "open"]
    BY <1>2 DEF Begin, BeginRead, Step, Wait, Connect, ReadToken, Answered, Unusable, PeerGone, Use, Restart,
                LockRestart, Aim, RemoveSocket, RemoveToken, RemoveLock, Respawn, Spawn, To
  <2>3. \A e \in Daemons : at'[e] = at[e] \/ (at[e] \in Unopened /\ at'[e] \in Unopened \ {"aside"})
    BY <2>2 DEF TypeOK, Unopened
  <2> QED BY <2>1, <2>3, StoreGoesOn
<1>3. CASE Rot \/ UNCHANGED vars
  <2>1. UNCHANGED <<store, keeps, moved, at, replaced, blind>> /\ (rotten => rotten')
    BY <1>3 DEF Rot, vars
  <2> QED BY <2>1, StoreGoesOn DEF Irregular
<1> QED BY <1>1, <1>2, <1>3, StoreBoot DEF Next
-----------------------------------------------------------------------------
(* What a step leaves as it was.                                           *)

\* A daemon comes to know the store in place by opening it, and never again.
LEMMA KnowsStep ==
  ASSUME TypeOK, StoreInv, [Next]_vars, NEW d \in Daemons, Knows(d)'
  PROVE  Knows(d) \/ (running' = {} /\ at[d] \in Unopened)
<1> USE DEF TypeOK
<1>0. None \notin Daemons
  BY LifecycleAssumption
<1>1. CASE UNCHANGED <<store, keeps, rotten>>
  BY <1>1 DEF Knows
<1>2. ASSUME NEW e \in Daemons, at[e] \in {"load", "renew"}, running' = {}, UNCHANGED rotten,
             store' = (IF store = None THEN e ELSE store), keeps' = [keeps EXCEPT ![e] = store']
      PROVE  Knows(d) \/ (running' = {} /\ at[d] \in Unopened)
  <2>1. CASE e = d
    BY <1>2, <2>1 DEF Unopened
  <2>2. CASE e # d
    <3>1. keeps'[d] = keeps[d] /\ keeps[d] # e /\ keeps'[d] # None /\ keeps'[d] = store' /\ ~rotten
      BY <1>2, <2>2 DEF StoreInv, Knows, Unopened
    <3> QED BY <1>2, <3>1 DEF Knows
  <2> QED BY <2>1, <2>2
<1>3. ASSUME NEW e \in Daemons, OpenStore(e) PROVE Knows(d) \/ (running' = {} /\ at[d] \in Unopened)
  <2>1. CASE OpenFails(e)
    BY <1>1, <1>3, <2>1 DEF OpenStore, OpenFails
  <2>2. CASE ~OpenFails(e)
    BY <1>2, <1>3, <2>2 DEF OpenStore, Keep
  <2> QED BY <2>1, <2>2
<1>4. ASSUME NEW e \in Daemons, MoveAside(e) PROVE Knows(d) \/ (running' = {} /\ at[d] \in Unopened)
  <2>1. CASE store = None
    BY <1>1, <1>4, <2>1 DEF MoveAside
  <2>2. CASE store # None
    BY <1>4, <2>2 DEF MoveAside, Knows
  <2> QED BY <2>1, <2>2
<1>5. ASSUME NEW e \in Daemons, Renew(e) PROVE Knows(d) \/ (running' = {} /\ at[d] \in Unopened)
  <2>1. CASE UNCHANGED <<store, keeps, running>>
    BY <1>1, <1>5, <2>1 DEF Renew
  <2>2. CASE ~UNCHANGED <<store, keeps, running>>
    BY <1>2, <1>5, <2>2 DEF Renew, Keep
  <2> QED BY <2>1, <2>2
<1>6. CASE Rot
  BY <1>6 DEF Rot, Knows
<1>7. ASSUME NEW e \in Daemons,
             \/ OpenLock(e) \/ Flock(e) \/ WriteToken(e) \/ Look(e) \/ Bind(e) \/ RenameFails(e) \/ SweepOrphans(e)
             \/ Tick(e) \/ GraceEnds(e) \/ End(e) \/ Crash(e) \/ Wedge(e) \/ AgentExits(e) \/ Headless(e)
      PROVE  UNCHANGED <<store, keeps, rotten>>
  BY <1>7 DEF OpenLock, Flock, WriteToken, Look, Bind, RenameFails, SweepOrphans, Tick, Reap, SeeNobody, Decide, GraceEnds,
              End, Signalled, Cleanup, Exit, Crash, Wedge, AgentExits, Headless, HeadlessSpawn, TouchAfter
<1>8. ASSUME NEW c \in Clients, Begin(c) \/ BeginRead(c) \/ Step(c) PROVE UNCHANGED <<store, keeps, rotten>>
  BY <1>8 DEF Begin, BeginRead, Step, Wait, Connect, ReadToken, Answered, Unusable, PeerGone, Use, Restart,
              LockRestart, Aim, RemoveSocket, RemoveToken, RemoveLock, Respawn
<1>9. CASE UNCHANGED vars
  BY <1>1, <1>9 DEF vars
<1> QED BY <1>1, <1>3, <1>4, <1>5, <1>6, <1>7, <1>8, <1>9 DEF Next, Boot

\* Who was replaced, locked a deleted file or got work late stays in the history.
LEMMA HistoryStep == [Next]_vars => Irregular \subseteq Irregular' /\ late \subseteq late'
<1> SUFFICES ASSUME [Next]_vars PROVE Irregular \subseteq Irregular' /\ late \subseteq late'
  OBVIOUS
<1> USE DEF Irregular
<1>1. ASSUME NEW d \in Daemons, Boot(d) PROVE Irregular \subseteq Irregular' /\ late \subseteq late'
  BY <1>1 DEF Boot, OpenLock, Flock, WriteToken, Look, Bind, OpenStore, MoveAside, RenameFails, Renew, SweepOrphans
<1>2. ASSUME NEW d \in Daemons, Tick(d) \/ GraceEnds(d) \/ End(d) \/ Crash(d) \/ Wedge(d) \/ AgentExits(d) \/ Headless(d)
      PROVE  Irregular \subseteq Irregular' /\ late \subseteq late'
  BY <1>2 DEF Tick, Reap, SeeNobody, Decide, GraceEnds, End, Signalled, Cleanup, Displaces, Exit, Crash, Wedge,
              AgentExits, Headless, HeadlessSpawn, TouchAfter
<1>3. ASSUME NEW c \in Clients, Begin(c) \/ BeginRead(c) \/ Step(c) PROVE Irregular \subseteq Irregular' /\ late \subseteq late'
  BY <1>3 DEF Begin, BeginRead, Step, Wait, Connect, ReadToken, Answered, Unusable, PeerGone, Use, Restart,
              LockRestart, Aim, RemoveSocket, RemoveToken, RemoveLock, Respawn
<1>4. CASE Rot \/ UNCHANGED vars
  BY <1>4 DEF Rot, vars
<1> QED BY <1>1, <1>2, <1>3, <1>4 DEF Next

\* A daemon that has had its turn with the store does not start anew: it serves,
\* or ends, or is gone.
LEMMA OnceIn ==
  ASSUME TypeOK, LockInv, [Next]_vars, NEW d \in Daemons, at[d] \notin Unopened, In(d)' PROVE In(d)
<1> USE DEF TypeOK
<1>0. at'[d] \notin {"off", "open", "lock", "gone"} /\ end'[d] # "exit" /\ at[d] \notin {"off", "open", "lock"}
  BY DEF In, Holds, Unopened
<1>1. ASSUME NEW e \in Daemons, Boot(e) PROVE In(d)
  <2>1. UNCHANGED end /\ at[e] \notin {"off", "gone"} /\ \E p \in Stages : at' = [at EXCEPT ![e] = p]
    BY <1>1 DEF Boot, OpenLock, Flock, WriteToken, Look, Bind, OpenStore, OpenFails, MoveAside, RenameFails, Renew, SweepOrphans,
                To, Stages
  <2>2. at[d] # "gone"
    BY <1>0, <2>1
  <2> QED BY <1>0, <2>1, <2>2 DEF In, Holds
<1>2. ASSUME NEW e \in Daemons, Tick(e) \/ GraceEnds(e) \/ End(e) \/ Crash(e) \/ Wedge(e) \/ AgentExits(e) \/ Headless(e) PROVE In(d)
  <2>1. UNCHANGED at \/ at' = [at EXCEPT ![e] = "gone"]
    BY <1>2 DEF Tick, Reap, SeeNobody, Decide, GraceEnds, End, Signalled, Cleanup, Exit, Crash, Wedge, AgentExits, Headless, HeadlessSpawn, TouchAfter, To
  <2>2. UNCHANGED end \/ (end[e] # "exit" /\ \E p \in {"socket", "token", "lock", "exit"} : end' = [end EXCEPT ![e] = p])
    <3>1. CASE Cleanup(e)
      <4>1. end[e] \in {"socket", "token", "lock"} /\ end' = [end EXCEPT ![e] = After[end[e]]]
        BY <3>1 DEF Cleanup, After
      <4>2. After[end[e]] \in {"socket", "token", "lock", "exit"}
        BY <4>1 DEF After
      <4> QED BY <4>1, <4>2
    <3> QED BY <1>2, <3>1 DEF Tick, Reap, SeeNobody, Decide, Running, GraceEnds, End, Signalled, Exit, Crash, Wedge, AgentExits, Headless, HeadlessSpawn, TouchAfter
  <2> QED BY <1>0, <2>1, <2>2 DEF In, Holds
<1>3. ASSUME NEW c \in Clients, Begin(c) \/ BeginRead(c) \/ Step(c) PROVE In(d)
  <2>1. UNCHANGED at \/ \E e \in Daemons : at[e] = "off" /\ at' = [at EXCEPT ![e] = "open"]
    BY <1>3 DEF Begin, BeginRead, Step, Wait, Connect, ReadToken, Answered, Unusable, PeerGone, Use, Restart,
                LockRestart, Aim, RemoveSocket, RemoveToken, RemoveLock, Respawn, Spawn, To
  <2>2. UNCHANGED end
    BY <1>3 DEF Begin, BeginRead, Step, Wait, Connect, ReadToken, Answered, Unusable, PeerGone, Use, Restart,
                LockRestart, Aim, RemoveSocket, RemoveToken, RemoveLock, Respawn
  <2> QED BY <1>0, <2>1, <2>2 DEF In, Holds
<1>4. CASE Rot \/ UNCHANGED vars
  BY <1>0, <1>4 DEF Rot, vars, In, Holds
<1> QED BY <1>1, <1>2, <1>3, <1>4 DEF Next
-----------------------------------------------------------------------------
(* Idleness.                                                               *)

LEMMA IdleInit == Init => IdleInv
BY DEF Init, IdleInv

\* Nothing new to stay for, no clock reset undone, and nobody decides to end.
LEMMA IdleGoesOn ==
  ASSUME TypeOK, StoreInv, IdleInv, [Next]_vars, agents' \subseteq agents, quit' = quit, scheduled' => scheduled,
         \A d \in Daemons : d \in agents' => at'[d] = at[d] \/ at'[d] = "gone",
         \A d \in Daemons : at'[d] = "serve" => at[d] = "serve" \/ end[d] = "none",
         \A d \in Daemons : alone'[d] /\ d \in agents' =>
                             alone[d] /\ (fresh[d] \/ d \in spawning => fresh'[d] \/ d \in spawning'),
         \A d \in Daemons : \/ end'[d] = end[d]
                            \/ end[d] = "none" /\ end'[d] # "none" /\ d \notin agents' /\ d \notin quit'
                            \/ end[d] # "none" /\ end'[d] # "none"
  PROVE  IdleInv'
<1>0. late \subseteq late'
  BY HistoryStep
<1>1. ASSUME NEW d \in Daemons
      PROVE  /\ d \in agents' => at'[d] \in {"serve", "gone"}
             /\ alone'[d] /\ end'[d] = "none" /\ d \in agents' => fresh'[d] \/ d \in spawning'
             /\ at'[d] = "serve" /\ end'[d] # "none" /\ d \in agents' => d \in late'
             /\ d \in quit' => end'[d] # "none"
  BY <1>0 DEF IdleInv
<1>2. ASSUME NEW d \in Daemons, d \in quit', at'[d] = "serve", scheduled', Knows(d)' PROVE d \in late'
  <2>1. at[d] = "serve"
    BY <1>2 DEF IdleInv
  <2>2. Knows(d)
    BY <1>2, <2>1, KnowsStep DEF Unopened
  <2> QED BY <1>0, <1>2, <2>1, <2>2 DEF IdleInv
<1> QED BY <1>1, <1>2 DEF IdleInv

LEMMA IdleDaemon ==
  ASSUME TypeOK, LockInv, StoreInv, IdleInv, [Next]_vars, NEW d \in Daemons,
         Boot(d) \/ Tick(d) \/ GraceEnds(d) \/ End(d) \/ Crash(d) \/ Wedge(d) \/ AgentExits(d) \/ Headless(d)
  PROVE  IdleInv'
<1> USE DEF TypeOK, To
<1>1. CASE Boot(d)
  <2>1. UNCHANGED <<end, alone, fresh, quit, spawning>> /\ agents' \subseteq agents
    BY <1>1 DEF Boot, OpenLock, Flock, WriteToken, Look, Bind, OpenStore, MoveAside, RenameFails, Renew, SweepOrphans
  <2>2. scheduled' => scheduled
    <3>1. CASE MoveAside(d)
      BY <3>1 DEF MoveAside
    <3> QED BY <1>1, <3>1 DEF Boot, OpenLock, Flock, WriteToken, Look, Bind, OpenStore, RenameFails, Renew, SweepOrphans,
                              headless
  <2>3. at[d] \notin {"serve", "gone"} /\ \E p \in Stages : at' = [at EXCEPT ![d] = p]
    BY <1>1 DEF Boot, OpenLock, Flock, WriteToken, Look, Bind, OpenStore, OpenFails, MoveAside, RenameFails, Renew, SweepOrphans,
                Stages
  <2>4. d \notin agents /\ end[d] = "none"
    BY <2>3 DEF IdleInv, LockInv
  <2> QED BY <2>1, <2>2, <2>3, <2>4, IdleGoesOn
<1>2. CASE Reap(d) \/ SeeNobody(d) \/ GraceEnds(d) \/ Wedge(d) \/ AgentExits(d) \/ TouchAfter(d)
  <2>1. UNCHANGED <<at, end, quit, scheduled>> /\ agents' \subseteq agents
    BY <1>2 DEF Reap, SeeNobody, GraceEnds, Wedge, AgentExits, TouchAfter
  <2>2. ASSUME NEW e \in Daemons, alone'[e], e \in agents'
        PROVE  alone[e] /\ (fresh[e] \/ e \in spawning => fresh'[e] \/ e \in spawning')
    BY <1>2, <2>2 DEF Reap, SeeNobody, GraceEnds, Wedge, AgentExits, TouchAfter, Touch
  <2> QED BY <2>1, <2>2, IdleGoesOn
<1>3. CASE Decide(d)
  <2>1. /\ at[d] = "serve" /\ end[d] = "none" /\ alone[d] /\ alone' = [alone EXCEPT ![d] = FALSE]
        /\ UNCHANGED <<at, fresh, agents, scheduled, spawning, store, rotten, keeps>> /\ late \subseteq late'
    BY <1>3 DEF Decide, Running
  <2>2. CASE LooksIdle(d)
    <3>1. /\ end' = [end EXCEPT ![d] = "socket"] /\ quit' = quit \cup {d}
          /\ d \in spawning => d \in late'
      BY <1>3, <2>2 DEF Decide
    <3>2. (d \in agents => d \in late') /\ ~(scheduled /\ Knows(d))
      BY <2>1, <2>2, <3>1 DEF LooksIdle, IdleInv
    <3>3. ASSUME NEW e \in Daemons, e # d
          PROVE /\ e \in agents' => at'[e] \in {"serve", "gone"}
                /\ alone'[e] /\ end'[e] = "none" /\ e \in agents' => fresh'[e] \/ e \in spawning'
                /\ at'[e] = "serve" /\ end'[e] # "none" /\ e \in agents' => e \in late'
                /\ e \in quit' => end'[e] # "none"
                /\ e \in quit' /\ at'[e] = "serve" /\ scheduled' /\ Knows(e)' => e \in late'
      BY <2>1, <3>1, <3>3 DEF IdleInv, Knows
    <3>4. /\ d \in agents' => d \in late' /\ at'[d] = "serve"
          /\ end'[d] = "socket" /\ ~(scheduled /\ Knows(d))'
      BY <2>1, <3>1, <3>2 DEF Knows
    <3> QED BY <3>3, <3>4 DEF IdleInv
  <2>3. CASE ~LooksIdle(d)
    <3>1. UNCHANGED <<end, quit>>
      BY <1>3, <2>3 DEF Decide
    <3>2. \A e \in Daemons : alone'[e] => alone[e]
      BY <2>1
    <3> QED BY <2>1, <3>1, <3>2, IdleGoesOn
  <2> QED BY <2>2, <2>3
<1>4. CASE Signalled(d)
  <2>1. /\ UNCHANGED <<alone, fresh, quit, scheduled, spawning>> /\ agents' \subseteq agents
        /\ \/ UNCHANGED at /\ at[d] = "serve" /\ end[d] = "none" /\ end' = [end EXCEPT ![d] = "socket"] /\ d \notin agents'
           \/ at' = [at EXCEPT ![d] = "gone"] /\ UNCHANGED end
           \/ UNCHANGED <<at, end>>
    BY <1>4 DEF Signalled, KillAll
  <2>2. end[d] = "none" => d \notin quit
    BY DEF IdleInv
  <2> QED BY <2>1, <2>2, IdleGoesOn
<1>5. CASE Cleanup(d)
  <2>1. /\ UNCHANGED <<at, alone, fresh, quit, scheduled, spawning, agents>> /\ end[d] \in {"socket", "token", "lock"}
        /\ end' = [end EXCEPT ![d] = After[@]]
    BY <1>5 DEF Cleanup, After
  <2>2. After[end[d]] # "none"
    BY <2>1 DEF After
  <2> QED BY <2>1, <2>2, IdleGoesOn
<1>6. CASE Exit(d) \/ Crash(d)
  <2>1. UNCHANGED <<alone, fresh, quit, scheduled, spawning, end>> /\ agents' \subseteq agents /\ at' = [at EXCEPT ![d] = "gone"]
    BY <1>6 DEF Exit, Crash
  <2> QED BY <2>1, IdleGoesOn
<1>7. CASE HeadlessSpawn(d)
  <2>1. /\ UNCHANGED <<at, end, alone, fresh, quit, scheduled, store, rotten, keeps>>
        /\ agents' = agents \cup {d} /\ spawning' = spawning \cup {d} /\ at[d] = "serve"
        /\ end[d] # "none" => d \in late'
    BY <1>7 DEF HeadlessSpawn, idling
  <2>2. late \subseteq late'
    BY HistoryStep
  <2>3. ASSUME NEW e \in Daemons
        PROVE  /\ e \in agents' => at'[e] \in {"serve", "gone"}
               /\ alone'[e] /\ end'[e] = "none" /\ e \in agents' => fresh'[e] \/ e \in spawning'
               /\ at'[e] = "serve" /\ end'[e] # "none" /\ e \in agents' => e \in late'
               /\ e \in quit' => end'[e] # "none"
               /\ e \in quit' /\ at'[e] = "serve" /\ scheduled' /\ Knows(e)' => e \in late'
    BY <2>1, <2>2 DEF IdleInv, Knows
  <2> QED BY <2>3 DEF IdleInv
<1> QED BY <1>1, <1>2, <1>3, <1>4, <1>5, <1>6, <1>7 DEF Tick, End, Headless

LEMMA IdleApp ==
  ASSUME TypeOK, PeerInv, StoreInv, IdleInv, [Next]_vars, NEW c \in Clients, Begin(c) \/ BeginRead(c) \/ Step(c)
  PROVE  IdleInv'
<1> USE DEF TypeOK
<1>1. CASE ~Use(c)
  <2>1. UNCHANGED <<alone, quit, scheduled, spawning, end, agents>>
    BY <1>1 DEF Begin, BeginRead, Step, Wait, Connect, ReadToken, Answered, Unusable, PeerGone, Restart,
                LockRestart, Aim, RemoveSocket, RemoveToken, RemoveLock, Respawn
  <2>2. UNCHANGED at \/ \E e \in Daemons : at[e] = "off" /\ at' = [at EXCEPT ![e] = "open"]
    BY <1>1 DEF Begin, BeginRead, Step, Wait, Connect, ReadToken, Answered, Unusable, PeerGone, Restart,
                LockRestart, Aim, RemoveSocket, RemoveToken, RemoveLock, Respawn, Spawn, To
  <2>3. \A e \in Daemons : fresh[e] => fresh'[e]
    BY <1>1 DEF Begin, BeginRead, Step, Wait, Connect, ReadToken, Answered, Unusable, PeerGone, Restart,
                LockRestart, Aim, RemoveSocket, RemoveToken, RemoveLock, Respawn, Touch
  <2>4. \A e \in Daemons : e \in agents => at[e] # "off"
    BY DEF IdleInv
  <2> QED BY <2>1, <2>2, <2>3, <2>4, IdleGoesOn
<1>2. CASE Use(c)
  <2> DEFINE d == op[c].peer
  <2>0. d \in Daemons /\ at[d] = "serve"
    BY <1>2 DEF Use, Is, PeerInv, Op
  <2>1. /\ fresh' = [fresh EXCEPT ![d] = TRUE]
        /\ UNCHANGED <<at, end, alone, quit, spawning, store, rotten, keeps>>
        /\ agents' = agents \/ (agents' = agents \cup {d} /\ (end[d] # "none" => d \in late'))
        /\ scheduled' = scheduled \/ \A e \in Daemons : end[e] # "none" => e \in late'
    BY <1>2, <2>0 DEF Use, Touch
  <2>2. late \subseteq late'
    BY HistoryStep
  <2>3. ASSUME NEW e \in Daemons
        PROVE  /\ e \in agents' => at'[e] \in {"serve", "gone"}
               /\ alone'[e] /\ end'[e] = "none" /\ e \in agents' => fresh'[e] \/ e \in spawning'
               /\ at'[e] = "serve" /\ end'[e] # "none" /\ e \in agents' => e \in late'
               /\ e \in quit' => end'[e] # "none"
    BY <2>0, <2>1, <2>2 DEF IdleInv
  <2>4. ASSUME NEW e \in Daemons, e \in quit', at'[e] = "serve", scheduled', Knows(e)' PROVE e \in late'
    <3>1. e \in quit /\ at[e] = "serve" /\ end[e] # "none" /\ Knows(e)
      BY <2>1, <2>4 DEF Knows, IdleInv
    <3>2. CASE scheduled
      BY <2>2, <3>1, <3>2 DEF IdleInv
    <3>3. CASE ~scheduled
      BY <2>1, <2>4, <3>1, <3>3
    <3> QED BY <3>2, <3>3
  <2> QED BY <2>3, <2>4 DEF IdleInv
<1> QED BY <1>1, <1>2

LEMMA IdleStep == TypeOK /\ PeerInv /\ LockInv /\ StoreInv /\ IdleInv /\ [Next]_vars => IdleInv'
<1> SUFFICES ASSUME TypeOK, PeerInv, LockInv, StoreInv, IdleInv, [Next]_vars PROVE IdleInv'
  OBVIOUS
<1>1. CASE Rot \/ UNCHANGED vars
  <2>1. UNCHANGED <<alone, fresh, quit, scheduled, spawning, end, agents, at>>
    BY <1>1 DEF Rot, vars
  <2> QED BY <2>1, IdleGoesOn
<1> QED BY <1>1, IdleDaemon, IdleApp DEF Next

-----------------------------------------------------------------------------
(* The rows.                                                               *)

LEMMA GhostInit == Init => GhostInv
BY DEF Init, GhostInv

LEMMA GhostStep == TypeOK /\ PeerInv /\ LockInv /\ StoreInv /\ GhostInv /\ [Next]_vars => GhostInv'
<1> SUFFICES ASSUME TypeOK, PeerInv, LockInv, StoreInv, GhostInv, [Next]_vars,
                    NEW d \in Daemons \ Irregular', In(d)', Knows(d)', NEW e \in running', e # d
             PROVE  e \in Irregular' \cup late'
  BY DEF GhostInv
<1>0. Irregular \subseteq Irregular' /\ late \subseteq late' /\ running \subseteq Daemons
  BY HistoryStep DEF TypeOK
<1>1. Knows(d) /\ In(d) /\ d \notin Irregular
  <2>1. Knows(d)
    BY KnowsStep
  <2>2. at[d] \notin Unopened
    BY <2>1 DEF StoreInv, Knows
  <2> QED BY <1>0, <2>1, <2>2, OnceIn
<1>2. CASE e \in running
  BY <1>0, <1>1, <1>2 DEF GhostInv
<1>3. CASE e \notin running
  <2>1. (\E c \in Clients : Use(c)) \/ (\E x \in Daemons : HeadlessSpawn(x))
    <3>1. ASSUME NEW x \in Daemons,
                 \/ Boot(x) \/ Tick(x) \/ GraceEnds(x) \/ End(x) \/ Crash(x) \/ Wedge(x) \/ AgentExits(x) \/ TouchAfter(x)
          PROVE  running' \subseteq running
      <4>1. CASE MoveAside(x) \/ Renew(x) \/ OpenStore(x)
        BY <4>1 DEF MoveAside, Renew, OpenStore, OpenFails, Keep
      <4> QED BY <3>1, <4>1 DEF Boot, RenameFails, OpenLock, Flock, WriteToken, Look, Bind, SweepOrphans, Tick, Reap, SeeNobody,
                Decide, GraceEnds, End, Signalled, Cleanup, Exit, Crash, Wedge, AgentExits, TouchAfter
    <3>2. ASSUME NEW c \in Clients, Begin(c) \/ BeginRead(c) \/ Step(c), ~Use(c) PROVE UNCHANGED running
      BY <3>2 DEF Begin, BeginRead, Step, Wait, Connect, ReadToken, Answered, Unusable, PeerGone, Restart,
                  LockRestart, Aim, RemoveSocket, RemoveToken, RemoveLock, Respawn
    <3>3. CASE Rot \/ UNCHANGED vars
      BY <1>3, <3>3 DEF Rot, vars
    <3> QED BY <1>3, <3>1, <3>2, <3>3 DEF Next, Headless
  <2>2. at[e] = "serve" /\ e \in Daemons /\ (end[e] # "none" => e \in late')
    <3>1. ASSUME NEW c \in Clients, Use(c)
          PROVE  at[e] = "serve" /\ e \in Daemons /\ (end[e] # "none" => e \in late')
      BY <1>3, <3>1 DEF Use, RecordSession, TypeOK, PeerInv, Is, Op
    <3>2. ASSUME NEW x \in Daemons, HeadlessSpawn(x)
          PROVE  at[e] = "serve" /\ e \in Daemons /\ (end[e] # "none" => e \in late')
      BY <1>3, <3>2 DEF HeadlessSpawn, RecordSession, TypeOK
    <3> QED BY <2>1, <3>1, <3>2
  <2>3. CASE end[e] # "none"
    BY <2>2, <2>3
  <2>4. CASE end[e] = "none"
    <3>1. In(e)
      BY <2>2, <2>4 DEF In, Holds
    <3> QED BY <1>0, <1>1, <2>2, <3>1, OneIn
  <2> QED BY <2>3, <2>4
<1> QED BY <1>2, <1>3
-----------------------------------------------------------------------------
(* The theorems.                                                           *)

\* The invariant of the runtime directory and the store: acquire_lock makes the
\* holder of the lock file the one daemon that is in, and what the others have of
\* files, store and agents is left over or taken by a replacement.
THEOREM LifecycleInvariant == Spec => []LifecycleInv
<1>1. Init => LifecycleInv
  <2>1. Init => PeerInv
    BY DEF Init, PeerInv, NoOp
  <2> QED BY <2>1, TypeInit, LockInit, TokenInit, StoreInit, IdleInit, GhostInit DEF LifecycleInv
<1>2. LifecycleInv /\ [Next]_vars => LifecycleInv'
  BY TypeStep, LockStep, TokenStep, StoreStep, IdleStep, GhostStep DEF LifecycleInv
<1> QED BY <1>1, <1>2, PTL DEF Spec

\* At most one daemon serves, however many are started and however they end, but
\* for one that was replaced and one that locked a file being deleted
\* (runtime.rs acquire_lock, cleanup).
THEOREM ServerSafety == Spec => []OneServer
<1>1. LifecycleInv => OneServer
  <2> SUFFICES ASSUME LifecycleInv, NEW d \in Daemons, NEW e \in Daemons, Serving(d), Serving(e),
                      d \notin Irregular, e \notin Irregular
               PROVE  d = e
    BY DEF OneServer
  <2>1. LockInv /\ In(d) /\ In(e)
    BY DEF LifecycleInv, Serving, In, Holds
  <2> QED BY <2>1, OneIn
<1> QED BY <1>1, LifecycleInvariant, PTL

\* Whoever can connect finds the token of the daemon it connects to (main.rs:
\* the token is written before the socket is bound), as long as nobody was
\* replaced.
THEOREM TokenSafety == Spec => []TokenOnDisk
<1>1. LifecycleInv => TokenOnDisk
  BY DEF LifecycleInv, TokenInv, TokenOnDisk
<1> QED BY <1>1, LifecycleInvariant, PTL

\* sweep_orphan_agents of a daemon that boots finds no agent of a running one,
\* unless one of the two was replaced, or the running one got work as it ended.
THEOREM OrphanSafety == Spec => []SweepSparesLive
<1>1. LifecycleInv => SweepSparesLive
  <2> SUFFICES ASSUME LifecycleInv, NEW d \in Daemons, NEW e \in Daemons, at[d] = "sweep", Alive(e), e \in agents,
                      d \notin Irregular, e \notin Irregular \cup late
               PROVE  FALSE
    BY DEF SweepSparesLive
  <2>1. LockInv /\ at[e] = "serve" /\ end[e] = "none"
    BY DEF LifecycleInv, IdleInv, Alive
  <2>2. In(d) /\ In(e)
    BY <2>1 DEF In, Holds, LockInv
  <2> QED BY <2>1, <2>2, OneIn
<1> QED BY <1>1, LifecycleInvariant, PTL

\* A daemon that decided in gc_tick to end for idleness has neither agent nor an
\* enabled schedule it knows of, but for work that came after the decision.
THEOREM IdleSafety == Spec => []IdleMeansIdle
<1>1. LifecycleInv => IdleMeansIdle
  <2> SUFFICES ASSUME LifecycleInv, NEW d \in quit, at[d] = "serve", d \in agents \/ (scheduled /\ Knows(d))
               PROVE  d \in late
    BY DEF IdleMeansIdle
  <2>1. d \in Daemons /\ IdleInv
    BY DEF LifecycleInv, TypeOK
  <2> QED BY <2>1 DEF IdleInv
<1> QED BY <1>1, LifecycleInvariant, PTL

\* open_or_recover moves no healthy store aside while no daemon was replaced:
\* nobody else is there to put one in the place of the corrupt one.
THEOREM StoreSafety == Spec => []HealthyStays
<1>1. LifecycleInv => HealthyStays
  BY DEF LifecycleInv, StoreInv, HealthyStays
<1> QED BY <1>1, LifecycleInvariant, PTL

\* A daemon that serves shows no session of a dead daemon as running: migrate
\* closes the rows it finds, and after that only the daemon itself adds some.
THEOREM RowSafety == Spec => []NoGhost
<1>1. LifecycleInv => NoGhost
  <2> SUFFICES ASSUME LifecycleInv, NEW d \in Daemons \ Irregular, Serving(d), Knows(d), NEW e \in running
               PROVE  Alive(e) \/ e \in Irregular \cup late
    BY DEF NoGhost
  <2>1. In(d) /\ Alive(d)
    BY DEF Serving, In, Holds, Alive
  <2> QED BY <2>1 DEF LifecycleInv, GhostInv
<1> QED BY <1>1, LifecycleInvariant, PTL
=============================================================================
