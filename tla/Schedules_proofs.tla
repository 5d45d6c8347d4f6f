-------------------------- MODULE Schedules_proofs --------------------------
(***************************************************************************)
(* Proofs about Schedules: for any number of schedules, overlapping checks *)
(* and calls of the user, of instants, faults and crashes, nothing fires   *)
(* twice for an instant, what is due is wanted, and no task is orphaned.   *)
(***************************************************************************)
EXTENDS Schedules, FiniteSetTheorems, TLAPS

USE DEF book, history, CreateTask

\* Steps of a check, of a call, and of neither.
Checking(t) ==
  \/ StartCheck(t) \/ ReadDue(t) \/ GateFails(t) \/ GatePasses(t) \/ EndCheck(t)
  \/ \E c \in job[t].todo : Claim(t, c) \/ ClaimFails(t, c)
Calling(h) ==
  \/ RunClaims(h) \/ CreateRow(h) \/ Forward(h) \/ DeleteRow(h) \/ StatementFails(h)
  \/ \E s \in Names :
       RunNow(h, s) \/ Enable(h, s) \/ DeleteFile(h, s) \/ \E d \in Def : CreateFile(h, s, d)
Elsewhere ==
  \/ \E s \in Names : Disable(s) \/ \E d \in Def : HandWrite(s, d)
  \/ Tick \/ UNCHANGED vars

LEMMA StepCases ==
  ASSUME [Next]_vars
  PROVE  \/ \E t \in Checks : Checking(t)
         \/ \E t \in Threads : Shot(t)
         \/ \E h \in Handlers : Calling(h)
         \/ Elsewhere \/ Crash \/ Boot
BY DEF Next, Check, Call, Checking, Calling, Elsewhere, Threads

-----------------------------------------------------------------------------
(* What the threads hold.                                                  *)

CheckingOK == checking = (\E t \in Checks : job[t].pc # "idle")
JobOK == job \in [Threads -> Job] /\ CheckingOK /\ JobInv

\* JobInv of what one thread holds.
Shape(t, j) ==
  /\ j \in Job
  /\ j.pc \in {"idle", "read", "rows"} <=> j.on = NoRow
  /\ j.minted => j.pc \in {"fire", "rollback"}
  /\ j.pc = "rollback" => j.minted
  /\ j.todo # {} => j.pc \in {"rows"} \cup Firing
  /\ t \in Checks => j.pc \in {"idle", "read", "rows"} \cup Firing
  /\ t \in Handlers => j.pc \notin {"read", "rows", "gate"} /\ j.todo = {}

LEMMA IdleShape == \A t \in Threads : Shape(t, Idle)
BY ScheduleAssumption DEF Shape, Idle, Job, Places, Firing, Threads

LEMMA ShapeOf == ASSUME JobOK, NEW t \in Threads PROVE Shape(t, job[t])
BY DEF JobOK, JobInv, Shape, Threads

\* One thread moves: the flag follows it if it is a check.
LEMMA OneMoves ==
  ASSUME JobOK, NEW t \in Threads, NEW j, Shape(t, j), job' = [job EXCEPT ![t] = j],
         up, up' = up,
         checking' = IF t \in Checks THEN j.pc # "idle" ELSE checking,
         t \in Checks /\ job[t].pc = "idle" => ~checking
  PROVE  JobOK'
<1>1. job' \in [Threads -> Job] /\ job'[t] = j /\ \A u \in Threads \ {t} : job'[u] = job[u]
  BY DEF JobOK, Shape
<1>2. \A u \in Threads : Shape(u, job'[u])
  BY <1>1, ShapeOf
<1>3. \A u, v \in Checks : job'[u].pc # "idle" /\ job'[v].pc # "idle" => u = v
  <2> SUFFICES ASSUME NEW u \in Checks, NEW v \in Checks,
                      job'[u].pc # "idle", job'[v].pc # "idle", u # v
               PROVE  FALSE
    OBVIOUS
  <2>0. u \in Threads /\ v \in Threads
    BY DEF Threads
  <2>1. CASE u # t /\ v # t
    BY <1>1, <2>0, <2>1 DEF JobOK, JobInv
  <2>2. ASSUME NEW w \in {u, v}, w # t, t \in {u, v} PROVE FALSE
    <3>1. job[w].pc # "idle"
      BY <1>1, <2>0, <2>2
    <3> QED BY <2>2, <3>1 DEF JobOK, JobInv, CheckingOK
  <2> QED BY <2>1, <2>2
<1>4. CheckingOK'
  <2>1. CASE t \in Checks
    <3>1. checking' = (j.pc # "idle")
      BY <2>1
    <3>2. ASSUME NEW u \in Checks, u # t, job'[u].pc # "idle" PROVE j.pc # "idle"
      <4>1. job[u].pc # "idle"
        BY <1>1, <3>2 DEF Threads
      <4>2. FALSE
        BY <2>1, <3>2, <4>1 DEF JobOK, JobInv, CheckingOK
      <4> QED BY <4>2
    <3> QED BY <1>1, <2>1, <3>1, <3>2 DEF CheckingOK
  <2>2. CASE t \notin Checks
    BY <1>1, <2>2 DEF JobOK, CheckingOK, Threads
  <2> QED BY <2>1, <2>2
<1> QED BY <1>1, <1>2, <1>3, <1>4 DEF JobOK, JobInv, Shape, Threads

\* One thread moves, and the flag stays.
LEMMA OneGoes ==
  ASSUME JobOK, NEW t \in Threads, NEW j, Shape(t, j), job' = [job EXCEPT ![t] = j],
         up, UNCHANGED <<up, checking>>,
         t \in Checks => job[t].pc # "idle" /\ j.pc # "idle"
  PROVE  JobOK'
<1>1. checking' = IF t \in Checks THEN j.pc # "idle" ELSE checking
  BY DEF JobOK, CheckingOK
<1> QED BY <1>1, OneMoves

\* A place a thread is at, and what it then holds.
LEMMA AtPlace ==
  ASSUME JobOK, NEW t \in Threads
  PROVE  /\ job[t] \in Job /\ job[t].todo \subseteq Copy
         /\ job[t].pc \notin {"idle", "read", "rows"} => job[t].on \in Copy
BY ShapeOf DEF Shape, Job

LEMMA CopyType == \A s \in Names : TypeOK /\ Known(s) => CopyOf(s) \in Copy
BY DEF TypeOK, Known, CopyOf, Copy, Row

LEMMA ShotJob == ASSUME TypeOK, JobOK, NEW t \in Threads, Shot(t) PROVE JobOK'
<1> USE DEF Shape, Job, Places, Firing
<1>a. Shape(t, job[t]) /\ NoRow \notin Copy
  BY ShapeOf, ScheduleAssumption
<1>1. CASE Target(t)
  <2> DEFINE j == [job[t] EXCEPT !.pc = "fire", !.minted = job[t].on.def.mints]
  <2>1. job[t].pc = "target" /\ up /\ UNCHANGED <<up, checking>> /\ job' = [job EXCEPT ![t] = j]
    BY <1>1 DEF Target, At
  <2>2. job[t].on.def.mints \in BOOLEAN
    BY <1>a, <2>1, ScheduleAssumption DEF Copy
  <2>3. Shape(t, j)
    BY <1>a, <2>1, <2>2
  <2> QED BY <2>1, <2>3, OneGoes
<1>2. CASE TargetFails(t)
  <2> DEFINE j == [job[t] EXCEPT !.pc = "fire"]
  <2>1. job[t].pc = "target" /\ up /\ UNCHANGED <<up, checking>> /\ job' = [job EXCEPT ![t] = j]
    BY <1>2 DEF TargetFails, At, Goto
  <2>2. Shape(t, j)
    BY <1>a, <2>1
  <2> QED BY <2>1, <2>2, OneGoes
<1>3. CASE FireFails(t) /\ job[t].minted
  <2> DEFINE j == [job[t] EXCEPT !.pc = "rollback"]
  <2>1. job[t].pc = "fire" /\ up /\ UNCHANGED <<up, checking>> /\ job' = [job EXCEPT ![t] = j]
    BY <1>3 DEF FireFails, At, Goto
  <2>2. Shape(t, j)
    BY <1>a, <1>3, <2>1
  <2> QED BY <2>1, <2>2, OneGoes
<1>4. CASE Fire(t) \/ (FireFails(t) /\ ~job[t].minted) \/ Rollback(t) \/ RollbackFails(t)
  <2>1. /\ job[t].pc \in {"fire", "rollback"} /\ up /\ UNCHANGED <<up, checking>>
        /\ \/ job' = [job EXCEPT ![t] = AfterFire(t)]
           \/ job' = [job EXCEPT ![t] = AfterFailure(t)]
    BY <1>4 DEF Fire, FireFails, Rollback, RollbackFails, At, Become
  <2>2. Shape(t, AfterFire(t)) /\ (t \in Checks => AfterFire(t).pc = "rows")
    <3>1. CASE t \in Checks
      <4> DEFINE j == [job[t] EXCEPT !.pc = "rows", !.on = NoRow, !.minted = FALSE]
      <4>1. AfterFire(t) = j /\ t \notin Handlers
        BY <3>1, ScheduleAssumption DEF AfterFire
      <4>2. Shape(t, j) /\ j.pc = "rows"
        BY <1>a, <2>1, <3>1, <4>1
      <4> QED BY <4>1, <4>2
    <3>2. CASE t \notin Checks
      <4> DEFINE j == [job[t] EXCEPT !.pc = "claim", !.minted = FALSE]
      <4>1. AfterFire(t) = j /\ t \in Handlers
        BY <3>2 DEF AfterFire, Threads
      <4>2. Shape(t, j)
        BY <1>a, <2>1, <3>2, <4>1
      <4> QED BY <3>2, <4>1, <4>2
    <3> QED BY <3>1, <3>2
  <2>3. Shape(t, AfterFailure(t)) /\ (t \in Checks => AfterFailure(t).pc = "rows")
    BY <2>2, IdleShape DEF AfterFailure
  <2>4. job[t].pc # "idle"
    BY <2>1
  <2> QED BY <2>1, <2>2, <2>3, <2>4, OneGoes
<1> QED BY <1>1, <1>2, <1>3, <1>4 DEF Shot

LEMMA CheckJob == ASSUME TypeOK, JobOK, NEW t \in Checks, Checking(t) PROVE JobOK'
<1> USE DEF Shape, Job, Places, Firing
<1>a. t \in Threads /\ Shape(t, job[t]) /\ NoRow \notin Copy /\ t \notin Handlers
  BY ShapeOf, ScheduleAssumption DEF Threads
<1>1. CASE StartCheck(t)
  <2> DEFINE j == [job[t] EXCEPT !.pc = "read"]
  <2>1. /\ job[t].pc = "idle" /\ up /\ UNCHANGED up /\ ~checking /\ checking'
        /\ job' = [job EXCEPT ![t] = j]
    BY <1>1 DEF StartCheck, At, Goto
  <2>2. Shape(t, j)
    BY <1>a, <2>1
  <2> QED BY <1>a, <2>1, <2>2, OneMoves DEF JobOK, CheckingOK
<1>2. CASE ReadDue(t)
  <2> DEFINE j == [Idle EXCEPT !.pc = "rows", !.todo = {CopyOf(s) : s \in {s \in Names : Due(s)}}]
  <2>1. /\ job[t].pc = "read" /\ up /\ UNCHANGED <<up, checking>>
        /\ job' = [job EXCEPT ![t] = j]
    BY <1>2 DEF ReadDue, At, Become
  <2>2. j.todo \subseteq Copy
    BY CopyType DEF Due, Idle
  <2>3. Shape(t, j)
    BY <1>a, <2>2 DEF Idle
  <2> QED BY <1>a, <2>1, <2>3, OneGoes
<1>3. CASE GateFails(t) \/ GatePasses(t)
  <2> DEFINE j == [job[t] EXCEPT !.pc = "rows", !.on = NoRow]
             k == [job[t] EXCEPT !.pc = "target"]
  <2>1. /\ job[t].pc = "gate" /\ up /\ UNCHANGED <<up, checking>>
        /\ job' = [job EXCEPT ![t] = j] \/ job' = [job EXCEPT ![t] = k]
    BY <1>3 DEF GateFails, GatePasses, At, Become, Goto
  <2>2. Shape(t, j) /\ Shape(t, k)
    BY <1>a, <2>1
  <2> QED BY <1>a, <2>1, <2>2, OneGoes
<1>4. CASE EndCheck(t)
  <2>1. /\ job[t].pc = "rows" /\ up /\ UNCHANGED up /\ checking' = FALSE
        /\ job' = [job EXCEPT ![t] = Idle]
    BY <1>4 DEF EndCheck, At, Become
  <2>2. Idle.pc = "idle"
    BY DEF Idle
  <2> QED BY <1>a, <2>1, <2>2, IdleShape, OneMoves
<1>5. ASSUME NEW c \in job[t].todo, Claim(t, c) \/ ClaimFails(t, c) PROVE JobOK'
  <2> DEFINE j == [job[t] EXCEPT !.pc = "gate", !.todo = @ \ {c}, !.on = c]
  <2>1. /\ job[t].pc = "rows" /\ up /\ UNCHANGED <<up, checking>>
        /\ job' = [job EXCEPT ![t] = j]
    BY <1>5 DEF Claim, ClaimFails, Take, At, Become
  <2>2. c \in Copy
    BY <1>a
  <2>3. Shape(t, j)
    BY <1>a, <2>1, <2>2
  <2> QED BY <1>a, <2>1, <2>3, OneGoes
<1> QED BY <1>1, <1>2, <1>3, <1>4, <1>5 DEF Checking

LEMMA CallJob == ASSUME TypeOK, JobOK, NEW h \in Handlers, Calling(h) PROVE JobOK'
<1> USE DEF Shape, Job, Places, Firing
<1>a. h \in Threads /\ h \notin Checks /\ NoRow \notin Copy
  BY ScheduleAssumption DEF Threads
<1>1. CASE RunClaims(h) \/ CreateRow(h) \/ Forward(h) \/ DeleteRow(h) \/ StatementFails(h)
  <2>1. up /\ UNCHANGED <<up, checking>> /\ job' = [job EXCEPT ![h] = Idle]
    BY <1>1 DEF RunClaims, CreateRow, Forward, DeleteRow, StatementFails, At, Become
  <2> QED BY <1>a, <2>1, IdleShape, OneGoes
<1>2. ASSUME NEW s \in Names,
             RunNow(h, s) \/ Enable(h, s) \/ DeleteFile(h, s) \/ \E d \in Def : CreateFile(h, s, d)
      PROVE  JobOK'
  <2>1. PICK p \in {"target", "forward", "drop", "upsert"}, c \in Copy :
          /\ up /\ UNCHANGED <<up, checking>>
          /\ job' = [job EXCEPT ![h] = [Idle EXCEPT !.pc = p, !.on = c]]
    <3>1. CASE RunNow(h, s) \/ Enable(h, s) \/ DeleteFile(h, s)
      BY <3>1, CopyType DEF RunNow, Enable, DeleteFile, At, Become
    <3>2. ASSUME NEW d \in Def, CreateFile(h, s, d)
          PROVE  \E p \in {"target", "forward", "drop", "upsert"}, c \in Copy :
                   /\ up /\ UNCHANGED <<up, checking>>
                   /\ job' = [job EXCEPT ![h] = [Idle EXCEPT !.pc = p, !.on = c]]
      <4>1. [name |-> s, def |-> d, due |-> NextRun] \in Copy
        BY ScheduleAssumption DEF Copy, Instants, NextRun, TypeOK
      <4> QED BY <3>2, <4>1 DEF CreateFile, At, Become
    <3> QED BY <1>2, <3>1, <3>2
  <2>2. Shape(h, [Idle EXCEPT !.pc = p, !.on = c])
    BY <1>a DEF Idle
  <2> QED BY <1>a, <2>1, <2>2, OneGoes
<1> QED BY <1>1, <1>2 DEF Calling

LEMMA JobStep == TypeOK /\ JobOK /\ [Next]_vars => JobOK'
<1> SUFFICES ASSUME TypeOK, JobOK, [Next]_vars PROVE JobOK'
  OBVIOUS
<1>1. CASE Elsewhere
  <2>1. UNCHANGED <<up, checking, job>>
    BY <1>1 DEF Elsewhere, Disable, HandWrite, Tick, vars
  <2> QED BY <2>1 DEF JobOK, CheckingOK, JobInv
<1>2. CASE Crash \/ Boot
  <2>1. \A t \in Threads : job'[t] = Idle
    <3>1. CASE Crash
      BY <3>1 DEF Crash
    <3>2. CASE Boot
      BY <3>2 DEF Boot, JobOK, JobInv
    <3> QED BY <1>2, <3>1, <3>2
  <2>2. job' \in [Threads -> Job]
    BY <1>2, IdleShape DEF Crash, Boot, JobOK, Shape
  <2>3. checking' = FALSE
    <3>1. CASE Crash
      BY <3>1 DEF Crash
    <3>2. CASE Boot
      <4>1. UNCHANGED <<job, checking>>
        BY <3>2 DEF Boot
      <4>2. \A t \in Checks : job[t].pc = "idle"
        BY <2>1, <4>1 DEF Threads, Idle
      <4> QED BY <4>1, <4>2 DEF JobOK, CheckingOK
    <3> QED BY <1>2, <3>1, <3>2
  <2>4. Idle.pc = "idle"
    BY DEF Idle
  <2>5. \A t \in Threads : Shape(t, job'[t])
    BY <2>1, IdleShape
  <2> QED BY <2>1, <2>2, <2>3, <2>4, <2>5 DEF JobOK, CheckingOK, JobInv, Shape, Threads
<1> QED BY <1>1, <1>2, ShotJob, CheckJob, CallJob, StepCases

-----------------------------------------------------------------------------
(* Types.                                                                  *)

BookTypes ==
  /\ clock \in 0 .. MaxClock /\ up \in BOOLEAN
  /\ file \in [Names -> Def \cup {NoRow}] /\ row \in [Names -> Row \cup {NoRow}]

HistoryTypes ==
  /\ faults \in 0 .. MaxFaults /\ crashes \in 0 .. MaxCrashes
  /\ wanted \subseteq Names /\ leftover \subseteq Names /\ settled \in [Names -> Instants]
  /\ excused \subseteq Names /\ loose \in Nat /\ strays \in Nat

LEMMA TypeParts == TypeOK /\ JobInv <=> BookTypes /\ HistoryTypes /\ JobOK
BY DEF TypeOK, BookTypes, HistoryTypes, JobOK, CheckingOK

\* Where a statement of the store moves a row to.
LEMMA NextRunType == BookTypes => NextRun \in Instants /\ NextRun = clock + 1 /\ clock \in Nat
BY ScheduleAssumption DEF BookTypes, NextRun, Instants

LEMMA AdvanceType ==
  ASSUME BookTypes, NEW s \in Names, Advance(s)
  PROVE  row' \in [Names -> Row \cup {NoRow}]
<1>1. \A r \in Row : [r EXCEPT !.next = NextRun] \in Row
  BY NextRunType DEF Row
<1> QED BY <1>1 DEF Advance, BookTypes

LEMMA UpsertedType ==
  \A old \in Row \cup {NoRow}, d \in Def, n \in Instants :
    /\ Upserted(old, d, n) \in Row
    /\ Upserted(old, d, n).next = n
    /\ Upserted(old, d, n).enabled = IF old = NoRow THEN TRUE ELSE old.enabled
<1> TAKE old \in Row \cup {NoRow}, d \in Def, n \in Instants
<1>1. (IF old = NoRow THEN TRUE ELSE old.enabled) \in BOOLEAN
  BY DEF Row
<1> QED BY <1>1 DEF Upserted, Row

\* A row after the start: it is of the row or of the file, on as it was, and past the clock
\* unless it could not be moved; then it is the row that was there.
LEMMA LoadedType ==
  ASSUME BookTypes, NEW s \in Names, NEW lost, NEW stuck
  PROVE  LET r == Loaded(s, lost, stuck) IN
         /\ r \in Row \cup {NoRow}
         /\ r = NoRow => row[s] = NoRow /\ (file[s] = NoRow \/ s \in lost)
         /\ r # NoRow => /\ row[s] # NoRow \/ file[s] # NoRow
                        /\ r.enabled = IF row[s] = NoRow THEN TRUE ELSE row[s].enabled
         /\ r # NoRow /\ r.enabled =>
              r.next = NextRun \/ r.next > clock \/ Stuck(s, lost, stuck)
<1>0. NoRow \notin Row /\ NoRow \notin Def /\ clock \in Int
  BY ScheduleAssumption DEF BookTypes
<1> DEFINE i == Ingested(s, lost)
<1>1. /\ i \in Row \cup {NoRow}
      /\ i = NoRow => row[s] = NoRow /\ (file[s] = NoRow \/ s \in lost)
      /\ i # NoRow => /\ row[s] # NoRow \/ file[s] # NoRow
                     /\ i.enabled = IF row[s] = NoRow THEN TRUE ELSE row[s].enabled
  <2>1. CASE file[s] = NoRow \/ s \in lost
    BY <1>0, <2>1 DEF Ingested, BookTypes
  <2>2. CASE ~(file[s] = NoRow \/ s \in lost)
    <3>1. row[s] \in Row \cup {NoRow} /\ file[s] \in Def
      BY <2>2 DEF BookTypes
    <3>2. i = Upserted(row[s], file[s], NextRun)
      BY <2>2 DEF Ingested
    <3> DEFINE old == row[s]
               d == file[s]
               n == NextRun
    <3>5. old \in Row \cup {NoRow} /\ d \in Def /\ n \in Instants /\ i = Upserted(old, d, n)
      BY <3>1, <3>2, NextRunType
    <3> HIDE DEF old, d, i, n
    <3>3. /\ Upserted(old, d, n) \in Row
          /\ Upserted(old, d, n).enabled = IF old = NoRow THEN TRUE ELSE old.enabled
      <4>1. (IF old = NoRow THEN TRUE ELSE old.enabled) \in BOOLEAN
        BY <3>5 DEF Row
      <4> QED BY <3>5, <4>1 DEF Upserted, Row
    <3>4. /\ i \in Row /\ i # NoRow
          /\ i.enabled = IF row[s] = NoRow THEN TRUE ELSE row[s].enabled
      BY <1>0, <3>5, <3>3 DEF old
    <3> QED BY <2>2, <3>4
  <2> QED BY <2>1, <2>2
<1>2. \A r \in Row : /\ [r EXCEPT !.next = NextRun] \in Row
                     /\ [r EXCEPT !.next = NextRun].enabled = r.enabled
                     /\ [r EXCEPT !.next = NextRun].next = NextRun
  BY NextRunType DEF Row
<1>3. \A r \in Row : r.next \in Int /\ r.enabled \in BOOLEAN
  BY ScheduleAssumption DEF Row, Instants
<1> HIDE DEF i
<1>4. Loaded(s, lost, stuck) =
        IF i # NoRow /\ i.enabled /\ s \notin stuck THEN [i EXCEPT !.next = NextRun] ELSE i
  BY DEF Loaded, i
<1>5. Stuck(s, lost, stuck) <=> s \in stuck /\ i # NoRow /\ i.enabled /\ i.next <= clock
  BY DEF Stuck, i
<1>6. CASE i # NoRow /\ i.enabled /\ s \notin stuck
  BY <1>0, <1>1, <1>2, <1>4, <1>6
<1>7. CASE ~(i # NoRow /\ i.enabled /\ s \notin stuck)
  <2>1. Loaded(s, lost, stuck) = i
    BY <1>4, <1>7
  <2>2. i # NoRow /\ i.enabled => i.next > clock \/ Stuck(s, lost, stuck)
    BY <1>0, <1>1, <1>3, <1>5, <1>7
  <2> QED BY <1>1, <2>1, <2>2
<1> QED BY <1>6, <1>7

LEMMA BookStep == BookTypes /\ JobOK /\ [Next]_vars => BookTypes'
<1> SUFFICES ASSUME BookTypes, JobOK, [Next]_vars PROVE BookTypes'
  OBVIOUS
<1>1. ASSUME NEW t \in Checks, Checking(t) PROVE BookTypes'
  <2>1. CASE \E c \in job[t].todo : Claim(t, c)
    <3> PICK c \in job[t].todo : Claim(t, c)
      BY <2>1
    <3>1. c.name \in Names
      BY AtPlace DEF Copy, Threads
    <3>2. Advance(c.name) /\ UNCHANGED <<clock, up, file>>
      BY DEF Claim
    <3> QED BY <3>1, <3>2, AdvanceType DEF BookTypes
  <2>2. CASE UNCHANGED <<clock, up, book>>
    BY <2>2 DEF BookTypes
  <2> QED BY <1>1, <2>1, <2>2
          DEF Checking, StartCheck, ReadDue, GateFails, GatePasses, EndCheck, ClaimFails
<1>2. ASSUME NEW t \in Threads, Shot(t) PROVE BookTypes'
  BY <1>2 DEF BookTypes, Shot, Target, TargetFails, Fire, FireFails, Rollback, RollbackFails
<1>3. ASSUME NEW h \in Handlers, Calling(h) PROVE BookTypes'
  <2>0. h \in Threads
    BY DEF Threads
  <2>1. CASE RunClaims(h) \/ Forward(h)
    <3>1. job[h].on.name \in Names
      BY <2>0, <2>1, AtPlace DEF RunClaims, Forward, At, Copy
    <3>2. Advance(job[h].on.name) /\ UNCHANGED <<clock, up, file>>
      BY <2>1 DEF RunClaims, Forward
    <3> QED BY <3>1, <3>2, AdvanceType DEF BookTypes
  <2>2. CASE CreateRow(h)
    <3>1. job[h].on.name \in Names /\ job[h].on.def \in Def /\ job[h].on.due \in Instants
      BY <2>0, <2>2, AtPlace DEF CreateRow, At, Copy
    <3>2. row[job[h].on.name] \in Row \cup {NoRow}
      BY <3>1 DEF BookTypes
    <3>3. Upserted(row[job[h].on.name], job[h].on.def, job[h].on.due) \in Row
      BY <3>1, <3>2, UpsertedType
    <3> QED BY <2>2, <3>1, <3>3 DEF CreateRow, BookTypes
  <2>3. CASE DeleteRow(h) \/ StatementFails(h)
    BY <2>3 DEF DeleteRow, StatementFails, BookTypes
  <2>4. ASSUME NEW s \in Names, Enable(h, s) PROVE BookTypes'
    BY <2>4 DEF Enable, BookTypes, Known, Row
  <2>5. ASSUME NEW s \in Names, RunNow(h, s) \/ DeleteFile(h, s) \/ \E d \in Def : CreateFile(h, s, d)
        PROVE  BookTypes'
    BY <2>5 DEF RunNow, DeleteFile, CreateFile, BookTypes
  <2> QED BY <1>3, <2>1, <2>2, <2>3, <2>4, <2>5 DEF Calling
<1>4. CASE Elsewhere
  <2>1. ASSUME NEW s \in Names, Disable(s) PROVE BookTypes'
    BY <2>1 DEF Disable, BookTypes, Known, Row
  <2>2. ASSUME NEW s \in Names, NEW d \in Def, HandWrite(s, d) PROVE BookTypes'
    BY <2>2 DEF HandWrite, BookTypes
  <2>3. CASE Tick \/ UNCHANGED vars
    BY <2>3, ScheduleAssumption DEF Tick, vars, BookTypes
  <2> QED BY <1>4, <2>1, <2>2, <2>3 DEF Elsewhere
<1>5. CASE Crash
  BY <1>5 DEF Crash, BookTypes
<1>6. CASE Boot
  <2>1. PICK lost \in SUBSET Names, stuck \in SUBSET Names :
          /\ row' = [s \in Names |-> Loaded(s, lost, stuck)]
          /\ up' = TRUE /\ UNCHANGED <<clock, file>>
    BY <1>6 DEF Boot
  <2>2. \A s \in Names : Loaded(s, lost, stuck) \in Row \cup {NoRow}
    BY LoadedType
  <2> QED BY <2>1, <2>2 DEF BookTypes
<1> QED BY <1>1, <1>2, <1>3, <1>4, <1>5, <1>6, StepCases

-----------------------------------------------------------------------------
(* The tasks made for runs, and the types of the history.                  *)

Minted == {t \in Threads : job[t].minted}

LEMMA MintedFinite ==
  IsFiniteSet(Threads) /\ IsFiniteSet(Minted) /\ Cardinality(Minted) \in Nat
<1>1. IsFiniteSet(Threads)
  BY ScheduleAssumption, FS_Union DEF Threads
<1>2. IsFiniteSet(Minted)
  BY <1>1, FS_Subset DEF Minted
<1> QED BY <1>1, <1>2, FS_CardinalityType

\* One thread moves: how many tasks are held.
LEMMA MintedMoves ==
  ASSUME JobOK, NEW t \in Threads, NEW j \in Job, job' = [job EXCEPT ![t] = j]
  PROVE  /\ j.minted = job[t].minted => Minted' = Minted
         /\ j.minted /\ ~job[t].minted => Cardinality(Minted') = Cardinality(Minted) + 1
         /\ ~j.minted /\ job[t].minted =>
              Cardinality(Minted') = Cardinality(Minted) - 1 /\ Cardinality(Minted) > 0
<1>1. job'[t] = j /\ \A u \in Threads \ {t} : job'[u] = job[u]
  BY DEF JobOK
<1>2. ASSUME j.minted = job[t].minted PROVE Minted' = Minted
  BY <1>1, <1>2 DEF Minted
<1>3. ASSUME j.minted, ~job[t].minted PROVE Cardinality(Minted') = Cardinality(Minted) + 1
  <2>1. Minted' = Minted \cup {t} /\ t \notin Minted
    BY <1>1, <1>3 DEF Minted
  <2> QED BY <2>1, MintedFinite, FS_AddElement
<1>4. ASSUME ~j.minted, job[t].minted
      PROVE  Cardinality(Minted') = Cardinality(Minted) - 1 /\ Cardinality(Minted) > 0
  <2>1. Minted' = Minted \ {t} /\ t \in Minted
    BY <1>1, <1>4 DEF Minted
  <2>2. Cardinality(Minted') = Cardinality(Minted) - 1
    BY <2>1, MintedFinite, FS_RemoveElement
  <2>3. Cardinality(Minted) # 0
    BY <2>1, MintedFinite, FS_EmptySet
  <2> QED BY <2>2, <2>3, MintedFinite
<1> QED BY <1>2, <1>3, <1>4

LEMMA ShotHistory ==
  ASSUME BookTypes, HistoryTypes, JobOK, NoOrphanTask, NEW t \in Threads, Shot(t)
  PROVE  HistoryTypes' /\ NoOrphanTask'
<1> DEFINE n == Cardinality(Minted)
           m == Cardinality(Minted')
<1>0. /\ loose = strays + n /\ n \in Nat /\ loose \in Nat /\ strays \in Nat
      /\ NoOrphanTask' <=> loose' = strays' + m
  BY MintedFinite DEF NoOrphanTask, Minted, HistoryTypes
<1>a. Shape(t, job[t]) /\ job[t].minted \in BOOLEAN
  BY ShapeOf DEF Shape, Job
<1>b. job' \in [Threads -> Job]
  BY ShotJob, TypeParts DEF JobOK
<1>c. PICK j \in Job : job' = [job EXCEPT ![t] = j] /\ j = job'[t] /\ j.minted \in BOOLEAN
  <2>1. job' = [job EXCEPT ![t] = job'[t]]
    BY DEF Shot, Target, TargetFails, Fire, FireFails, Rollback, RollbackFails, Goto, Become, JobOK
  <2>2. job'[t] \in Job /\ job'[t].minted \in BOOLEAN
    BY <1>b DEF Job
  <2> QED BY <2>1, <2>2
<1> HIDE DEF n, m
<1>d. /\ j.minted = job[t].minted => m = n
      /\ j.minted /\ ~job[t].minted => m = n + 1
      /\ ~j.minted /\ job[t].minted => m = n - 1 /\ n > 0
  BY <1>c, MintedMoves DEF m, n
<1>e. j = AfterFire(t) \/ j = AfterFailure(t) => ~j.minted
  <2>1. AfterFire(t).minted = FALSE
    <3>1. CASE t \in Checks
      BY <1>a, <3>1 DEF AfterFire, Shape, Job
    <3>2. CASE t \notin Checks
      BY <1>a, <3>2 DEF AfterFire, Shape, Job
    <3> QED BY <3>1, <3>2
  <2>2. AfterFailure(t).minted = FALSE
    BY <2>1 DEF AfterFailure, Idle
  <2> QED BY <2>1, <2>2
<1> USE DEF HistoryTypes
<1>1. CASE Target(t)
  <2>1. ~job[t].minted
    BY <1>1, <1>a DEF Target, At, Shape
  <2>2. j = [job[t] EXCEPT !.pc = "fire", !.minted = job[t].on.def.mints]
    BY <1>1, <1>c DEF Target, JobOK
  <2>3. j.minted = job[t].on.def.mints
    BY <1>a, <2>2 DEF Shape, Job
  <2>4. /\ strays' = strays /\ UNCHANGED <<faults, crashes, wanted, leftover, settled, excused>>
        /\ loose' = IF job[t].on.def.mints THEN loose + 1 ELSE loose
    BY <1>1 DEF Target
  <2>5. loose' = strays' + m /\ loose' \in Nat
    BY <1>0, <1>a, <1>c, <1>d, <2>1, <2>3, <2>4
  <2> QED BY <1>0, <2>4, <2>5
<1>2. CASE TargetFails(t)
  <2>1. j.minted = job[t].minted
    BY <1>2, <1>c, <1>a DEF TargetFails, Goto, Shape, Job, JobOK
  <2>2. faults' \in 0 .. MaxFaults /\ UNCHANGED <<crashes, history>>
    BY <1>2, ScheduleAssumption DEF TargetFails, Fault
  <2> QED BY <1>0, <1>d, <2>1, <2>2
<1>3. CASE Fire(t)
  <2>1. ~j.minted
    BY <1>3, <1>c, <1>e DEF Fire, Become, JobOK
  <2>2. /\ UNCHANGED <<faults, crashes, wanted, leftover, excused, strays>>
        /\ loose' = IF job[t].minted THEN loose - 1 ELSE loose
    BY <1>3 DEF Fire
  <2>3. job[t].on.name \in Names /\ job[t].on.due \in Instants
    BY <1>3, AtPlace DEF Fire, At, Copy
  <2>4. settled' \in [Names -> Instants]
    BY <1>3, <2>3 DEF Fire
  <2>5. loose' = strays' + m /\ loose' \in Nat
    BY <1>0, <1>a, <1>c, <1>d, <2>1, <2>2
  <2> QED BY <1>0, <2>2, <2>4, <2>5
<1>4. CASE FireFails(t)
  <2>1. j.minted = job[t].minted
    <3>1. CASE job[t].minted
      <4>1. j = [job[t] EXCEPT !.pc = "rollback"]
        BY <1>4, <3>1, <1>c DEF FireFails, Goto, JobOK
      <4> QED BY <4>1, <1>a DEF Shape, Job
    <3>2. CASE ~job[t].minted
      <4>1. j = AfterFailure(t)
        BY <1>4, <3>2, <1>c DEF FireFails, Become, JobOK
      <4>2. ~j.minted
        BY <4>1, <1>e
      <4> QED BY <4>2, <3>2, <1>a, <1>c
    <3> QED BY <3>1, <3>2
  <2>2. UNCHANGED <<faults, crashes, history>>
    BY <1>4 DEF FireFails
  <2> QED BY <1>0, <1>d, <2>1, <2>2
<1>5. CASE Rollback(t) \/ RollbackFails(t)
  <2>1. ~j.minted /\ job[t].minted
    BY <1>5, <1>a, <1>c, <1>e DEF Rollback, RollbackFails, At, Become, JobOK, Shape
  <2>2. /\ faults' \in 0 .. MaxFaults /\ UNCHANGED <<crashes, wanted, leftover, settled, excused>>
        /\ \/ loose' = loose - 1 /\ strays' = strays
           \/ loose' = loose /\ strays' = strays + 1
    BY <1>5, ScheduleAssumption DEF Rollback, RollbackFails, Fault
  <2>3. loose' = strays' + m /\ loose' \in Nat /\ strays' \in Nat
    BY <1>0, <1>d, <2>1, <2>2
  <2> QED BY <1>0, <2>2, <2>3
<1> QED BY <1>1, <1>2, <1>3, <1>4, <1>5 DEF Shot

\* Who makes no task holds none, before and after.
LEMMA QuietMove ==
  ASSUME JobOK, NoOrphanTask, NEW t \in Threads, ~job[t].minted, ~job'[t].minted,
         job' = [job EXCEPT ![t] = job'[t]], job'[t] \in Job, UNCHANGED <<loose, strays>>
  PROVE  NoOrphanTask'
<1>1. Minted' = Minted
  BY DEF Minted, JobOK
<1> QED BY <1>1 DEF NoOrphanTask, Minted

LEMMA CheckHistory ==
  ASSUME BookTypes, HistoryTypes, JobOK, NoOrphanTask, NEW t \in Checks, Checking(t)
  PROVE  HistoryTypes' /\ NoOrphanTask'
<1>0. t \in Threads /\ Shape(t, job[t]) /\ JobOK'
  BY ShapeOf, CheckJob, TypeParts DEF Threads, JobOK
<1>1. HistoryTypes'
  <2>1. ASSUME NEW c \in job[t].todo, ClaimFails(t, c) PROVE HistoryTypes'
    <3>1. c.name \in Names
      BY <1>0, AtPlace DEF Copy
    <3> QED BY <2>1, <3>1, ScheduleAssumption DEF ClaimFails, Fault, HistoryTypes
  <2>2. CASE UNCHANGED <<faults, crashes, history>>
    BY <2>2 DEF HistoryTypes
  <2> QED BY <2>1, <2>2
          DEF Checking, StartCheck, ReadDue, GateFails, GatePasses, EndCheck, Claim
<1>2. UNCHANGED <<loose, strays>> /\ job' = [job EXCEPT ![t] = job'[t]]
  BY DEF Checking, StartCheck, ReadDue, GateFails, GatePasses, EndCheck, Claim, ClaimFails,
         Take, Goto, Become, JobOK
<1>3. job[t].pc \in {"idle", "read", "rows", "gate"}
  BY DEF Checking, StartCheck, ReadDue, GateFails, GatePasses, EndCheck, Claim, ClaimFails, At
<1>4. job'[t].pc \in {"idle", "read", "rows", "gate", "target"}
  <2> USE <1>0 DEF JobOK, Shape, Job
  <2>1. CASE StartCheck(t)
    BY <2>1 DEF StartCheck, Goto
  <2>2. CASE ReadDue(t)
    BY <2>2 DEF ReadDue, Become, Idle
  <2>3. CASE EndCheck(t)
    BY <2>3 DEF EndCheck, Become, Idle
  <2>4. CASE GateFails(t)
    BY <2>4 DEF GateFails, Become
  <2>5. CASE GatePasses(t)
    BY <2>5 DEF GatePasses, Goto
  <2>6. ASSUME NEW c \in job[t].todo, Claim(t, c) \/ ClaimFails(t, c) PROVE job'[t].pc = "gate"
    BY <2>6 DEF Claim, ClaimFails, Take, Become
  <2> QED BY <2>1, <2>2, <2>3, <2>4, <2>5, <2>6 DEF Checking
<1>5. job'[t] \in Job /\ ~job[t].minted /\ ~job'[t].minted
  <2>1. ~job[t].minted
    BY <1>0, <1>3 DEF Shape
  <2>2. job'[t] \in Job /\ (job'[t].minted => job'[t].pc \in {"fire", "rollback"})
    BY <1>0 DEF JobOK, JobInv
  <2> QED BY <1>4, <2>1, <2>2
<1> QED BY <1>0, <1>1, <1>2, <1>5, QuietMove

LEMMA CallHistory ==
  ASSUME BookTypes, HistoryTypes, JobOK, NoOrphanTask, NEW h \in Handlers, Calling(h)
  PROVE  HistoryTypes' /\ NoOrphanTask'
<1>0. h \in Threads /\ Shape(h, job[h]) /\ JobOK'
  BY ShapeOf, CallJob, TypeParts DEF Threads, JobOK
<1>1. HistoryTypes'
  <2>1. CASE RunClaims(h) \/ Forward(h) \/ StatementFails(h)
    BY <2>1, ScheduleAssumption DEF RunClaims, Forward, StatementFails, Fault, HistoryTypes
  <2>5. CASE CreateRow(h)
    <3>1. job[h].on.name \in Names
      BY <1>0, <2>5, AtPlace DEF CreateRow, At, Copy
    <3> QED BY <2>5, <3>1 DEF CreateRow, HistoryTypes
  <2>2. CASE DeleteRow(h)
    <3>1. job[h].on.name \in Names
      BY <1>0, <2>2, AtPlace DEF DeleteRow, At, Copy
    <3> QED BY <2>2, <3>1 DEF DeleteRow, HistoryTypes
  <2>3. ASSUME NEW s \in Names, RunNow(h, s) \/ Enable(h, s) \/ DeleteFile(h, s) PROVE HistoryTypes'
    BY <2>3, ScheduleAssumption DEF RunNow, Enable, DeleteFile, Fault, HistoryTypes
  <2>4. ASSUME NEW s \in Names, NEW d \in Def, CreateFile(h, s, d) PROVE HistoryTypes'
    BY <2>4 DEF CreateFile, HistoryTypes
  <2> QED BY <2>1, <2>2, <2>3, <2>4, <2>5 DEF Calling
<1>2. UNCHANGED <<loose, strays>> /\ job' = [job EXCEPT ![h] = job'[h]]
  BY DEF Calling, RunClaims, CreateRow, Forward, DeleteRow, StatementFails, RunNow, Enable,
         DeleteFile, CreateFile, Become, JobOK
<1>3. job[h].pc \in {"idle", "claim", "upsert", "forward", "drop"}
  BY DEF Calling, RunClaims, CreateRow, Forward, DeleteRow, StatementFails, RunNow, Enable,
         DeleteFile, CreateFile, At
<1>4. job'[h].pc \in {"idle", "target", "upsert", "forward", "drop"}
  <2> USE <1>0 DEF JobOK, Idle
  <2>1. CASE RunClaims(h) \/ CreateRow(h) \/ Forward(h) \/ DeleteRow(h) \/ StatementFails(h)
    BY <2>1 DEF RunClaims, CreateRow, Forward, DeleteRow, StatementFails, Become
  <2>2. ASSUME NEW s \in Names, RunNow(h, s) PROVE job'[h].pc = "target"
    BY <2>2 DEF RunNow, Become
  <2>3. ASSUME NEW s \in Names, Enable(h, s) PROVE job'[h].pc = "forward"
    BY <2>3 DEF Enable, Become
  <2>4. ASSUME NEW s \in Names, DeleteFile(h, s) PROVE job'[h].pc = "drop"
    BY <2>4 DEF DeleteFile, Become
  <2>5. ASSUME NEW s \in Names, NEW d \in Def, CreateFile(h, s, d) PROVE job'[h].pc = "upsert"
    BY <2>5 DEF CreateFile, Become
  <2> QED BY <2>1, <2>2, <2>3, <2>4, <2>5 DEF Calling
<1>5. job'[h] \in Job /\ ~job[h].minted /\ ~job'[h].minted
  <2>1. ~job[h].minted
    BY <1>0, <1>3 DEF Shape
  <2>2. job'[h] \in Job /\ (job'[h].minted => job'[h].pc \in {"fire", "rollback"})
    BY <1>0 DEF JobOK, JobInv
  <2> QED BY <1>4, <2>1, <2>2
<1> QED BY <1>0, <1>1, <1>2, <1>5, QuietMove

LEMMA HistoryStep ==
  BookTypes /\ HistoryTypes /\ JobOK /\ NoOrphanTask /\ [Next]_vars => HistoryTypes' /\ NoOrphanTask'
<1> SUFFICES ASSUME BookTypes, HistoryTypes, JobOK, NoOrphanTask, [Next]_vars
             PROVE  HistoryTypes' /\ NoOrphanTask'
  OBVIOUS
<1>1. CASE Elsewhere
  <2>1. UNCHANGED <<job, loose, strays>>
    BY <1>1 DEF Elsewhere, Disable, HandWrite, Tick, vars
  <2>2. UNCHANGED <<faults, crashes, settled, leftover, excused>> /\ wanted' \subseteq Names
    BY <1>1 DEF Elsewhere, Disable, HandWrite, Tick, vars, HistoryTypes
  <2> QED BY <2>1, <2>2 DEF NoOrphanTask, HistoryTypes
<1>2. CASE Crash
  <2>1. Minted' = {}
    BY <1>2 DEF Crash, Minted, Idle
  <2>2. Cardinality(Minted') = 0
    BY <2>1, FS_EmptySet
  <2>3. loose' = loose /\ strays' = loose /\ loose \in Nat
    BY <1>2 DEF Crash, HistoryTypes
  <2>4. NoOrphanTask'
    BY <2>2, <2>3 DEF NoOrphanTask, Minted
  <2> QED BY <1>2, <2>4, ScheduleAssumption DEF Crash, HistoryTypes
<1>3. CASE Boot
  <2>1. NoOrphanTask'
    BY <1>3 DEF Boot, NoOrphanTask
  <2>2. clock \in Instants
    BY ScheduleAssumption DEF BookTypes, Instants
  <2>3. excused' \subseteq Names /\ faults' \in 0 .. MaxFaults
    BY <1>3, ScheduleAssumption DEF Boot, Fault, HistoryTypes
  <2> QED BY <1>3, <2>1, <2>2, <2>3 DEF Boot, HistoryTypes
<1> QED BY <1>1, <1>2, <1>3, ShotHistory, CheckHistory, CallHistory, StepCases

-----------------------------------------------------------------------------
(* No instant twice: FreshInv.                                             *)

RowsFresh ==
  /\ \A s \in Names : settled[s] <= clock
  /\ \A s \in Names : Known(s) /\ row[s].enabled => Fresh(s, row[s].next)
CheckFresh(t) ==
  /\ \A c \in Held(t) : c.due <= clock /\ Fresh(c.name, c.due)
  /\ \A c, d \in Held(t) : c.name = d.name => c = d
  /\ job[t].pc \in Firing \ {"rollback"} =>
       LET c == job[t].on IN
       /\ c \notin job[t].todo
       /\ c.name \notin excused /\ Known(c.name) => row[c.name].next > c.due

LEMMA FreshParts == FreshInv <=> RowsFresh /\ \A t \in Checks : CheckFresh(t)
BY DEF FreshInv, RowsFresh, CheckFresh

\* What may become of a row: it stays, goes, is put past the clock or excused, or keeps its
\* instant.
RowMove(s) ==
  \/ row'[s] = row[s]
  \/ row'[s] = NoRow
  \/ row'[s].next = clock + 1
  \/ row'[s].next > clock \/ s \in excused'
  \/ /\ Known(s) /\ row'[s].next = row[s].next
     /\ row'[s].enabled => row[s].enabled \/ s \in excused' \/ row[s].next > clock
\* What may become of what a check holds: it drops of it.
HoldsLess(t) ==
  /\ job'[t].todo \subseteq job[t].todo
  /\ job'[t].pc \in Firing \ {"rollback"} =>
       job[t].pc \in Firing \ {"rollback"} /\ job'[t].on = job[t].on
Onward == UNCHANGED settled /\ clock' >= clock /\ excused \subseteq excused'

\* The state a step of FreshInv starts from, and the types it ends in.
FreshPre == BookTypes /\ HistoryTypes /\ JobOK /\ FreshInv /\ BookTypes' /\ JobOK'

LEMMA Numbers ==
  ASSUME BookTypes, HistoryTypes
  PROVE  /\ clock \in Int /\ \A s \in Names : settled[s] \in Int
         /\ \A s \in Names : Known(s) => row[s] \in Row /\ row[s].next \in Int
         /\ \A c \in Copy : c.name \in Names /\ c.due \in Int
BY ScheduleAssumption DEF BookTypes, HistoryTypes, Instants, Row, Copy, Known

LEMMA HeldType == ASSUME JobOK, NEW t \in Checks PROVE Held(t) \subseteq Copy
BY AtPlace DEF Held, Firing, Threads

LEMMA RowsFrame ==
  ASSUME FreshPre, Onward, \A s \in Names : RowMove(s)
  PROVE  RowsFresh'
<1> USE DEF FreshPre
<1>1. /\ clock \in Int /\ clock' \in Int /\ clock' >= clock
      /\ \A s \in Names : settled[s] \in Int /\ settled'[s] = settled[s]
      /\ \A s \in Names : Known(s) => row[s].next \in Int
  BY Numbers, ScheduleAssumption DEF Onward, BookTypes
<1>2. RowsFresh
  BY FreshParts
<1>3. ASSUME NEW s \in Names PROVE settled'[s] <= clock'
  BY <1>1, <1>2 DEF RowsFresh
<1>4. ASSUME NEW s \in Names, Known(s)', row'[s].enabled, s \notin excused'
      PROVE  settled'[s] < row'[s].next
  <2>1. s \notin excused /\ settled[s] <= clock
    BY <1>2, <1>4 DEF Onward, RowsFresh
  <2>2. CASE row'[s] = row[s]
    BY <1>1, <1>2, <1>4, <2>1, <2>2 DEF RowsFresh, Fresh, Known
  <2>3. CASE row'[s].next = clock + 1
    BY <1>1, <2>1, <2>3
  <2>4. CASE Known(s) /\ row'[s].next = row[s].next /\ (row[s].enabled \/ row[s].next > clock)
    BY <1>1, <1>2, <2>1, <2>4 DEF RowsFresh, Fresh
  <2>5. CASE row'[s].next > clock
    <3>1. row'[s].next \in Int
      BY <1>4, ScheduleAssumption DEF Known, BookTypes, Row, Instants
    <3> QED BY <1>1, <2>1, <2>5, <3>1
  <2> QED BY <1>4, <2>2, <2>3, <2>4, <2>5 DEF RowMove, Known
<1> QED BY <1>3, <1>4 DEF RowsFresh, Fresh

LEMMA HeldFrame ==
  ASSUME FreshPre, Onward, \A s \in Names : RowMove(s), NEW t \in Checks, HoldsLess(t)
  PROVE  CheckFresh(t)'
<1> USE DEF FreshPre
<1> DEFINE c == job[t].on
<1>1. /\ clock \in Int /\ clock' \in Int /\ clock' >= clock
      /\ \A s \in Names : settled[s] \in Int /\ settled'[s] = settled[s]
      /\ \A s \in Names : Known(s) => row[s].next \in Int
      /\ \A d \in Copy : d.name \in Names /\ d.due \in Int
  BY Numbers, ScheduleAssumption DEF Onward, BookTypes
<1>2. CheckFresh(t) /\ Held(t) \subseteq Copy
  BY FreshParts, HeldType
<1>3. Held(t)' \subseteq Held(t)
  BY DEF Held, HoldsLess
<1>4. ASSUME NEW d \in Held(t)' PROVE d.due <= clock' /\ Fresh(d.name, d.due)'
  BY <1>1, <1>2, <1>3 DEF CheckFresh, Fresh, Onward
<1>5. ASSUME NEW d \in Held(t)', NEW e \in Held(t)', d.name = e.name PROVE d = e
  BY <1>2, <1>3, <1>5 DEF CheckFresh
<1>6. ASSUME job'[t].pc \in Firing \ {"rollback"}
      PROVE  /\ job'[t].on = c /\ c \notin job'[t].todo
             /\ c.name \notin excused' /\ row'[c.name] # NoRow => row'[c.name].next > c.due
  <2>1. job[t].pc \in Firing \ {"rollback"} /\ job'[t].on = c /\ job'[t].todo \subseteq job[t].todo
    BY <1>6 DEF HoldsLess
  <2>2. c \in Held(t) /\ c \in Copy /\ c.due <= clock
    BY <1>2, <2>1 DEF Held, CheckFresh
  <2>3. ASSUME c.name \notin excused', row'[c.name] # NoRow PROVE row'[c.name].next > c.due
    <3>1. c.name \in Names /\ c.due \in Int /\ c.name \notin excused
      BY <1>1, <2>2, <2>3 DEF Onward
    <3>2. Known(c.name) => row[c.name].next > c.due
      BY <1>2, <2>1, <3>1 DEF CheckFresh
    <3>3. \/ row'[c.name] = row[c.name]
          \/ row'[c.name].next = clock + 1 \/ row'[c.name].next > clock
          \/ Known(c.name) /\ row'[c.name].next = row[c.name].next
      BY <2>3, <3>1 DEF RowMove
    <3>4. CASE row'[c.name].next = clock + 1 \/ row'[c.name].next > clock
      <4>1. row'[c.name].next \in Int
        BY <2>3, <3>1, ScheduleAssumption DEF BookTypes, Row, Instants
      <4> QED BY <1>1, <2>2, <3>1, <3>4, <4>1
    <3>5. CASE row'[c.name] = row[c.name] \/ (Known(c.name) /\ row'[c.name].next = row[c.name].next)
      BY <2>3, <3>2, <3>5 DEF Known
    <3> QED BY <3>3, <3>4, <3>5
  <2> QED BY <1>2, <2>1, <2>3 DEF CheckFresh
<1> QED BY <1>4, <1>5, <1>6 DEF CheckFresh, Known

LEMMA FreshFrame ==
  ASSUME FreshPre, Onward, \A s \in Names : RowMove(s), \A t \in Checks : HoldsLess(t)
  PROVE  FreshInv'
<1>1. RowsFresh' /\ \A t \in Checks : CheckFresh(t)'
  BY RowsFrame, HeldFrame
<1> QED BY <1>1 DEF FreshInv, RowsFresh, CheckFresh

LEMMA AdvanceMove ==
  ASSUME BookTypes, NEW n \in Names, Advance(n) PROVE \A s \in Names : RowMove(s)
<1>1. row[n] # NoRow => row'[n].next = clock + 1
  <2>1. row[n] # NoRow => row[n] \in Row
    BY DEF BookTypes
  <2> QED BY <2>1 DEF Advance, NextRun, BookTypes, Row
<1>2. \A s \in Names : row'[s] = row[s] \/ (s = n /\ row[n] # NoRow)
  BY DEF Advance, BookTypes
<1> QED BY <1>1, <1>2 DEF RowMove

\* Another check than the one that is on: it is idle, and holds nothing.
LEMMA OthersIdle ==
  ASSUME JobOK, NEW t \in Checks, job[t].pc # "idle"
  PROVE  \A u \in Checks \ {t} : job[u].pc = "idle" /\ Held(u) = {}
<1> TAKE u \in Checks \ {t}
<1>1. job[u].pc = "idle"
  BY DEF JobOK, JobInv
<1>2. job[u].todo = {}
  BY <1>1 DEF JobOK, JobInv, Firing, Threads
<1> QED BY <1>1, <1>2 DEF Held, Firing

LEMMA CallFresh == ASSUME FreshPre, NEW h \in Handlers, Calling(h) PROVE FreshInv'
<1> USE DEF FreshPre
<1>0. h \in Threads /\ h \notin Checks /\ NoRow \notin Row
  BY ScheduleAssumption DEF Threads
<1>1. \A t \in Checks : HoldsLess(t)
  <2>1. \A t \in Checks : job'[t] = job[t]
    BY <1>0 DEF Calling, RunClaims, CreateRow, Forward, DeleteRow, StatementFails, RunNow, Enable,
                DeleteFile, CreateFile, Become, JobOK, Threads
  <2> QED BY <2>1 DEF HoldsLess
<1>2. UNCHANGED <<settled, clock>> /\ excused \subseteq excused'
  BY DEF Calling, RunClaims, CreateRow, Forward, DeleteRow, StatementFails, RunNow, Enable,
         DeleteFile, CreateFile
<1>3. Onward
  BY <1>2, Numbers DEF Onward
<1>4. \A s \in Names : RowMove(s)
  <2>1. CASE RunClaims(h) \/ Forward(h)
    <3>1. job[h].on.name \in Names
      BY <1>0, <2>1, AtPlace DEF RunClaims, Forward, At, Copy
    <3>2. Advance(job[h].on.name)
      BY <2>1 DEF RunClaims, Forward
    <3> QED BY <3>1, <3>2, AdvanceMove
  <2>2. CASE CreateRow(h)
    <3> DEFINE n == job[h].on.name
               d == job[h].on.def
               i == job[h].on.due
    <3>1. n \in Names /\ d \in Def /\ i \in Instants
      BY <1>0, <2>2, AtPlace DEF CreateRow, At, Copy
    <3>2. /\ row[n] \in Row \cup {NoRow} /\ row' = [row EXCEPT ![n] = Upserted(row[n], d, i)]
          /\ excused' = excused \cup {s \in {n} : i <= clock}
      BY <2>2, <3>1 DEF CreateRow, BookTypes
    <3>3. Upserted(row[n], d, i).next = i
      BY <3>1, <3>2, UpsertedType
    <3>4. \A s \in Names \ {n} : row'[s] = row[s]
      BY <3>2 DEF BookTypes
    <3>5. row'[n].next = i
      BY <3>1, <3>2, <3>3 DEF BookTypes
    <3>6. i > clock \/ n \in excused'
      BY <3>1, <3>2, NextRunType, ScheduleAssumption DEF Instants
    <3> HIDE DEF n, d, i
    <3> QED BY <3>4, <3>5, <3>6 DEF RowMove
  <2>3. CASE DeleteRow(h) \/ StatementFails(h)
    BY <2>3 DEF DeleteRow, StatementFails, RowMove, BookTypes
  <2>4. ASSUME NEW n \in Names, Enable(h, n) PROVE \A s \in Names : RowMove(s)
    <3>1. /\ row[n] \in Row /\ row' = [row EXCEPT ![n].enabled = TRUE]
          /\ n \in excused' \/ ~(row[n].next <= clock)
      BY <2>4 DEF Enable, Known, BookTypes
    <3>2. row'[n].next = row[n].next /\ Known(n)
      BY <2>4, <3>1 DEF Enable, Row, BookTypes
    <3>3. n \in excused' \/ row[n].next > clock
      BY <3>1, <3>2, Numbers
    <3>4. \A s \in Names \ {n} : row'[s] = row[s]
      BY <3>1 DEF BookTypes
    <3> QED BY <3>2, <3>3, <3>4 DEF RowMove
  <2>5. ASSUME NEW n \in Names, RunNow(h, n) \/ DeleteFile(h, n) \/ \E d \in Def : CreateFile(h, n, d)
        PROVE  \A s \in Names : RowMove(s)
    BY <2>5 DEF RunNow, DeleteFile, CreateFile, RowMove
  <2> QED BY <2>1, <2>2, <2>3, <2>4, <2>5 DEF Calling
<1> QED BY <1>1, <1>3, <1>4, FreshFrame

LEMMA BootFresh == ASSUME FreshPre, Boot PROVE FreshInv'
<1> USE DEF FreshPre
<1>0. PICK lost \in SUBSET Names, stuck \in SUBSET Names :
        /\ row' = [s \in Names |-> Loaded(s, lost, stuck)]
        /\ excused' = excused \cup {s \in Names : Stuck(s, lost, stuck)}
        /\ settled' = [s \in Names |-> clock] /\ UNCHANGED clock
  BY DEF Boot
<1>1. /\ \A s \in Names : settled'[s] = clock /\ row'[s] = Loaded(s, lost, stuck)
      /\ clock' = clock /\ clock \in Int
  BY <1>0, Numbers
<1>2. \A s \in Names : Known(s)' /\ row'[s].enabled /\ s \notin excused' => row'[s].next > clock
  <2> SUFFICES ASSUME NEW s \in Names, Known(s)', row'[s].enabled, s \notin excused'
               PROVE  row'[s].next > clock
    OBVIOUS
  <2>1. row'[s].next = NextRun \/ row'[s].next > clock \/ Stuck(s, lost, stuck)
    BY <1>1, LoadedType DEF Known
  <2>2. ~Stuck(s, lost, stuck)
    BY <1>0
  <2> QED BY <1>1, <2>1, <2>2 DEF NextRun
<1>3. RowsFresh'
  BY <1>1, <1>2 DEF RowsFresh, Fresh
<1>4. \A t \in Checks : job'[t] = Idle
  BY DEF Boot, JobOK, JobInv, Threads
<1>5. \A t \in Checks : Held(t)' = {}
  BY <1>4 DEF Held, Idle, Firing
<1>6. \A t \in Checks : job'[t].pc \notin Firing
  BY <1>4 DEF Idle, Firing
<1>7. \A t \in Checks : CheckFresh(t)'
  BY <1>5, <1>6 DEF CheckFresh
<1> QED BY <1>3, <1>7 DEF FreshInv, RowsFresh, CheckFresh

\* The other checks of a step of check t are idle, and keep what they hold.
LEMMA OthersFresh ==
  ASSUME JobOK, NEW t \in Checks, job[t].pc # "idle", NEW j, job' = [job EXCEPT ![t] = j],
         NEW u \in Checks \ {t}
  PROVE  CheckFresh(u)'
<1>1. job'[u] = job[u] /\ job[u].pc = "idle" /\ Held(u) = {}
  BY OthersIdle DEF JobOK, Threads
<1>2. Held(u)' = {} /\ job'[u].pc = "idle"
  BY <1>1 DEF Held
<1> QED BY <1>2 DEF CheckFresh, Firing

LEMMA ReadFresh == ASSUME FreshPre, NEW t \in Checks, ReadDue(t) PROVE FreshInv'
<1> USE DEF FreshPre
<1> DEFINE todo == {CopyOf(s) : s \in {s \in Names : Due(s)}}
           j == [Idle EXCEPT !.pc = "rows", !.todo = todo]
<1>1. /\ job[t].pc = "read" /\ job' = [job EXCEPT ![t] = j] /\ UNCHANGED <<clock, row, settled, excused>>
  BY DEF ReadDue, At, Become
<1>2. job'[t].pc = "rows" /\ job'[t].todo = todo
  BY <1>1 DEF JobOK, Threads, Idle
<1>3. Held(t)' = todo
  BY <1>2 DEF Held, Firing
<1>4. ASSUME NEW c \in todo PROVE c.due <= clock' /\ Fresh(c.name, c.due)'
  <2>1. PICK s \in Names : Due(s) /\ c = CopyOf(s)
    OBVIOUS
  <2>2. c.name = s /\ c.due = row[s].next
    BY <2>1 DEF CopyOf
  <2>3. c.due <= clock /\ Fresh(s, c.due)
    BY <2>1, <2>2, FreshParts DEF Due, RowsFresh
  <2> QED BY <1>1, <2>2, <2>3 DEF Fresh
<1>5. ASSUME NEW c \in todo, NEW d \in todo, c.name = d.name PROVE c = d
  BY <1>5 DEF CopyOf
<1>6. CheckFresh(t)'
  BY <1>2, <1>3, <1>4, <1>5 DEF CheckFresh, Firing
<1>7. \A u \in Checks \ {t} : CheckFresh(u)'
  BY <1>1, OthersFresh
<1>8. RowsFresh'
  BY <1>1, FreshParts DEF RowsFresh, Fresh, Known
<1> QED BY <1>6, <1>7, <1>8 DEF FreshInv, RowsFresh, CheckFresh

LEMMA ClaimFresh ==
  ASSUME FreshPre, NEW t \in Checks, NEW c \in job[t].todo, Claim(t, c) \/ ClaimFails(t, c)
  PROVE  FreshInv'
<1> USE DEF FreshPre
<1> DEFINE j == [job[t] EXCEPT !.pc = "gate", !.todo = @ \ {c}, !.on = c]
<1>0. t \in Threads /\ job[t] \in Job /\ c \in Copy
  BY AtPlace DEF Threads
<1>1. /\ job[t].pc = "rows" /\ job' = [job EXCEPT ![t] = j]
      /\ UNCHANGED <<clock, settled>> /\ excused \subseteq excused'
      /\ c.name \in excused' \/ Advance(c.name)
      /\ UNCHANGED row \/ Advance(c.name)
  BY DEF Claim, ClaimFails, Take, At, Become
<1>2. job'[t].pc = "gate" /\ job'[t].todo = job[t].todo \ {c} /\ job'[t].on = c
  BY <1>0, <1>1 DEF JobOK, Job
<1>3. Held(t)' = Held(t) /\ c \in Held(t)
  BY <1>1, <1>2 DEF Held, Firing
<1>4. CheckFresh(t) /\ c.due <= clock /\ clock \in Int /\ c.due \in Int /\ c.name \in Names
  BY <1>0, <1>3, FreshParts, Numbers DEF CheckFresh
<1>5. \A d \in Held(t)' : d.due <= clock' /\ Fresh(d.name, d.due)'
  BY <1>1, <1>3, <1>4 DEF CheckFresh, Fresh
<1>6. \A d, e \in Held(t)' : d.name = e.name => d = e
  BY <1>3, <1>4 DEF CheckFresh
<1>7. c.name \notin excused' /\ row'[c.name] # NoRow => row'[c.name].next > c.due
  <2> SUFFICES ASSUME Advance(c.name), row'[c.name] # NoRow PROVE row'[c.name].next > c.due
    BY <1>1
  <2>1. row'[c.name].next = clock + 1
    <3>1. row[c.name] \in Row
      BY <1>4 DEF Advance, BookTypes
    <3> QED BY <1>4, <3>1 DEF Advance, NextRun, BookTypes, Row
  <2> QED BY <1>4, <2>1
<1>8. CheckFresh(t)'
  BY <1>2, <1>5, <1>6, <1>7 DEF CheckFresh, Known
<1>9. \A u \in Checks \ {t} : CheckFresh(u)'
  BY <1>1, OthersFresh
<1>10. RowsFresh'
  <2>1. Onward
    BY <1>1, <1>4 DEF Onward
  <2>2. \A s \in Names : RowMove(s)
    BY <1>1, <1>4, AdvanceMove DEF RowMove
  <2> QED BY <2>1, <2>2, RowsFrame
<1> QED BY <1>8, <1>9, <1>10 DEF FreshInv, RowsFresh, CheckFresh

LEMMA FireFresh == ASSUME FreshPre, NEW t \in Checks, Fire(t) PROVE FreshInv'
<1> USE DEF FreshPre
<1> DEFINE c == job[t].on
<1>0. t \in Threads /\ job[t] \in Job /\ job[t].pc = "fire" /\ c \in Copy
  BY AtPlace DEF Threads, Fire, At
<1>1. /\ job' = [job EXCEPT ![t] = AfterFire(t)] /\ UNCHANGED <<clock, row, excused>>
      /\ settled' = [settled EXCEPT ![c.name] = IF c.due > @ THEN c.due ELSE @]
  BY <1>0 DEF Fire, Become
<1>2. job'[t].pc = "rows" /\ job'[t].todo = job[t].todo
  BY <1>0, <1>1 DEF AfterFire, JobOK, Job
<1>3. CheckFresh(t) /\ RowsFresh
  BY FreshParts
<1>4. c \in Held(t) /\ c \notin job[t].todo /\ c.name \in Names /\ c.due \in Int /\ c.due <= clock
  BY <1>0, <1>3, Numbers DEF Held, CheckFresh, Firing
<1>5. /\ settled'[c.name] = c.due \/ settled'[c.name] = settled[c.name]
      /\ \A s \in Names \ {c.name} : settled'[s] = settled[s]
  BY <1>1, <1>4 DEF HistoryTypes
<1>6. RowsFresh'
  <2>1. c.name \notin excused /\ Known(c.name) => row[c.name].next > c.due
    BY <1>0, <1>3 DEF CheckFresh, Firing
  <2>2. \A s \in Names : settled'[s] <= clock
    BY <1>3, <1>4, <1>5 DEF RowsFresh
  <2>3. ASSUME NEW s \in Names, Known(s), row[s].enabled, s \notin excused
        PROVE  settled'[s] < row[s].next
    <3>1. settled[s] < row[s].next
      BY <1>3, <2>3 DEF RowsFresh, Fresh
    <3>2. CASE s = c.name /\ settled'[s] = c.due
      <4>1. row[s].next > c.due /\ row[s].next \in Int
        BY <2>1, <2>3, <3>2, Numbers
      <4> QED BY <1>4, <3>2, <4>1
    <3>3. CASE settled'[s] = settled[s]
      BY <3>1, <3>3
    <3> QED BY <1>5, <3>2, <3>3
  <2> QED BY <1>1, <2>2, <2>3 DEF RowsFresh, Fresh, Known
<1>7. CheckFresh(t)'
  <2>1. Held(t)' = job[t].todo /\ Held(t)' \subseteq Held(t)
    BY <1>2 DEF Held, Firing
  <2>2. ASSUME NEW d \in Held(t)' PROVE d.due <= clock' /\ Fresh(d.name, d.due)'
    <3>1. d \in Held(t) /\ d.name # c.name /\ d \in Copy
      BY <1>0, <1>3, <1>4, <2>1, AtPlace DEF CheckFresh
    <3>2. settled'[d.name] = settled[d.name]
      BY <1>5, <3>1 DEF Copy
    <3> QED BY <1>1, <1>3, <3>1, <3>2 DEF CheckFresh, Fresh
  <2>3. \A d, e \in Held(t)' : d.name = e.name => d = e
    BY <1>3, <2>1 DEF CheckFresh
  <2> QED BY <1>2, <2>2, <2>3 DEF CheckFresh, Firing
<1>8. \A u \in Checks \ {t} : CheckFresh(u)'
  BY <1>0, <1>1, OthersFresh
<1> QED BY <1>6, <1>7, <1>8 DEF FreshInv, RowsFresh, CheckFresh

LEMMA FreshStep ==
  BookTypes /\ HistoryTypes /\ JobOK /\ FreshInv /\ NoOrphanTask /\ [Next]_vars => FreshInv'
<1> SUFFICES ASSUME BookTypes, HistoryTypes, JobOK, FreshInv, NoOrphanTask, [Next]_vars
             PROVE  FreshInv'
  OBVIOUS
<1>0. FreshPre /\ clock \in Int
  BY BookStep, JobStep, TypeParts, Numbers DEF FreshPre, JobOK
<1>1. ASSUME UNCHANGED <<clock, row, settled, excused>>, \A t \in Checks : HoldsLess(t) PROVE FreshInv'
  BY <1>0, <1>1, FreshFrame DEF Onward, RowMove
<1>2. ASSUME NEW t \in Checks, Checking(t) PROVE FreshInv'
  <2>1. CASE StartCheck(t) \/ EndCheck(t) \/ GateFails(t) \/ GatePasses(t)
    <3>0. t \in Threads /\ job[t] \in Job
      BY AtPlace DEF Threads
    <3>1. \A u \in Checks \ {t} : job'[u] = job[u]
      BY <2>1 DEF StartCheck, EndCheck, GateFails, GatePasses, Goto, Become, JobOK, Threads
    <3>2. /\ job'[t].todo \subseteq job[t].todo
          /\ job'[t].pc \in Firing \ {"rollback"} => job[t].pc = "gate" /\ job'[t].on = job[t].on
      <4>1. CASE StartCheck(t)
        BY <3>0, <4>1 DEF StartCheck, Goto, JobOK, Job, Firing
      <4>2. CASE EndCheck(t)
        BY <3>0, <4>2 DEF EndCheck, Become, JobOK, Job, Idle, Firing
      <4>3. CASE GateFails(t)
        BY <3>0, <4>3 DEF GateFails, Become, JobOK, Job, Firing
      <4>4. CASE GatePasses(t)
        BY <3>0, <4>4 DEF GatePasses, At, Goto, JobOK, Job, Firing
      <4> QED BY <2>1, <4>1, <4>2, <4>3, <4>4
    <3>3. \A u \in Checks : HoldsLess(u)
      BY <3>1, <3>2 DEF HoldsLess, Firing
    <3>4. UNCHANGED <<clock, row, settled, excused>>
      BY <2>1 DEF StartCheck, EndCheck, GateFails, GatePasses
    <3> QED BY <1>1, <3>3, <3>4
  <2> QED BY <1>0, <1>2, <2>1, ReadFresh, ClaimFresh DEF Checking
<1>3. ASSUME NEW t \in Threads, Shot(t), ~(Fire(t) /\ t \in Checks) PROVE FreshInv'
  <2>0. job[t] \in Job /\ Shape(t, job[t])
    BY AtPlace, ShapeOf
  <2>1. UNCHANGED <<clock, row, settled, excused>>
    BY <1>3 DEF Shot, Target, TargetFails, Fire, FireFails, Rollback, RollbackFails
  <2>2. \A u \in Checks \ {t} : job'[u] = job[u]
    BY <1>3 DEF Shot, Target, TargetFails, Fire, FireFails, Rollback, RollbackFails, Goto, Become,
                JobOK, Threads
  <2>3. ASSUME t \in Checks PROVE HoldsLess(t)
    <3>1. CASE Target(t)
      BY <2>0, <3>1 DEF Target, At, JobOK, Job, HoldsLess, Firing
    <3>2. CASE TargetFails(t)
      BY <2>0, <3>2 DEF TargetFails, At, Goto, JobOK, Job, HoldsLess, Firing
    <3>3. CASE FireFails(t) /\ job[t].minted
      BY <2>0, <3>3 DEF FireFails, At, Goto, JobOK, Job, HoldsLess, Firing
    <3>4. CASE (FireFails(t) /\ ~job[t].minted) \/ Rollback(t) \/ RollbackFails(t)
      <4>1. job' = [job EXCEPT ![t] = AfterFire(t)]
        BY <2>3, <3>4 DEF FireFails, Rollback, RollbackFails, Become, AfterFailure
      <4>2. job'[t].todo = job[t].todo /\ job'[t].pc = "rows"
        BY <2>0, <2>3, <4>1 DEF AfterFire, JobOK, Job
      <4> QED BY <4>2 DEF HoldsLess, Firing
    <3> QED BY <1>3, <2>3, <3>1, <3>2, <3>3, <3>4 DEF Shot
  <2>4. \A u \in Checks : HoldsLess(u)
    BY <2>2, <2>3 DEF HoldsLess
  <2> QED BY <1>1, <2>1, <2>4
<1>4. CASE Elsewhere
  <2>1. \A t \in Checks : HoldsLess(t)
    BY <1>4 DEF Elsewhere, Disable, HandWrite, Tick, vars, HoldsLess
  <2>2. Onward
    BY <1>0, <1>4 DEF Elsewhere, Disable, HandWrite, Tick, vars, Onward
  <2>3. \A s \in Names : RowMove(s)
    <3>1. ASSUME NEW n \in Names, Disable(n) PROVE \A s \in Names : RowMove(s)
      <4>1. row[n] \in Row /\ row' = [row EXCEPT ![n].enabled = FALSE] /\ Known(n)
        BY <3>1 DEF Disable, Known, BookTypes
      <4>2. row'[n].next = row[n].next /\ row'[n].enabled = FALSE
        BY <4>1 DEF Row, BookTypes
      <4> QED BY <4>1, <4>2 DEF RowMove, BookTypes
    <3>2. CASE UNCHANGED row
      BY <3>2 DEF RowMove
    <3> QED BY <1>4, <3>1, <3>2 DEF Elsewhere, HandWrite, Tick, vars
  <2> QED BY <1>0, <2>1, <2>2, <2>3, FreshFrame
<1>5. CASE Crash
  <2>1. \A t \in Checks : job'[t] = Idle
    BY <1>5 DEF Crash, Threads
  <2>2. \A t \in Checks : HoldsLess(t)
    BY <2>1 DEF HoldsLess, Idle, Firing
  <2>3. UNCHANGED <<clock, row, settled, excused>>
    BY <1>5 DEF Crash
  <2> QED BY <1>1, <2>2, <2>3
<1> QED BY <1>0, <1>2, <1>3, <1>4, <1>5, FireFresh, CallFresh, BootFresh, StepCases

-----------------------------------------------------------------------------
(* Who is on is wanted: WantedInv.                                         *)

WantedAt(s) ==
  /\ Known(s) /\ row[s].enabled => s \in wanted
  /\ ~Known(s) /\ (file[s] # NoRow \/ Half("upsert", s)) => s \in wanted
  /\ Half("drop", s) => file[s] = NoRow

\* A step that neither switches a schedule on nor begins a creation or a deletion of it.
HalfLess(s) == (Half("upsert", s)' => Half("upsert", s)) /\ (Half("drop", s)' => Half("drop", s))
RowKept(s) == Known(s)' = Known(s) /\ (Known(s) => row'[s].enabled = row[s].enabled)

LEMMA WantedFrame ==
  ASSUME NEW s \in Names, WantedAt(s), HalfLess(s), RowKept(s), file'[s] = file[s],
         s \in wanted => s \in wanted'
  PROVE  WantedAt(s)'
BY DEF WantedAt, HalfLess, RowKept

LEMMA HalfMoves ==
  ASSUME JobOK, NEW t \in Threads, \A u \in Threads \ {t} : job'[u] = job[u], NEW s,
         t \in Handlers => job'[t].pc \notin {"upsert", "drop"} \/ job'[t].on.name # s
  PROVE  HalfLess(s)
<1>1. ASSUME NEW p \in {"upsert", "drop"}, Half(p, s)' PROVE Half(p, s)
  <2>1. PICK h \in Handlers : job'[h].pc = p /\ job'[h].on.name = s
    BY <1>1 DEF Half
  <2>2. h # t /\ h \in Threads
    BY <2>1 DEF Threads
  <2>3. job'[h] = job[h]
    BY <2>2
  <2> QED BY <2>1, <2>3 DEF Half
<1> QED BY <1>1 DEF HalfLess

LEMMA AdvanceKeeps ==
  ASSUME BookTypes, NEW n \in Names, Advance(n) PROVE \A s \in Names : RowKept(s)
<1>0. NoRow \notin Row
  BY ScheduleAssumption
<1>1. \A s \in Names \ {n} : row'[s] = row[s]
  BY DEF Advance, BookTypes
<1>2. row'[n] = IF row[n] = NoRow THEN row[n] ELSE [row[n] EXCEPT !.next = NextRun]
  BY DEF Advance, BookTypes
<1>3. RowKept(n)
  <2>1. CASE row[n] = NoRow
    BY <1>2, <2>1 DEF RowKept, Known
  <2>2. CASE row[n] # NoRow
    <3>1. row[n] \in Row
      BY <2>2 DEF BookTypes
    <3>2. [row[n] EXCEPT !.next = NextRun] \in Row
      BY <3>1, NextRunType DEF Row
    <3>3. row'[n] # NoRow
      BY <1>0, <1>2, <2>2, <3>2
    <3>4. row'[n].enabled = row[n].enabled
      BY <1>2, <2>2, <3>1 DEF Row
    <3> QED BY <2>2, <3>3, <3>4 DEF RowKept, Known
  <2> QED BY <2>1, <2>2
<1> QED BY <1>1, <1>3 DEF RowKept, Known

\* The state a step of WantedInv starts from.
WantedPre == BookTypes /\ HistoryTypes /\ JobOK /\ WantedInv

LEMMA CallWanted == ASSUME WantedPre, NEW h \in Handlers, Calling(h) PROVE WantedInv'
<1> USE DEF WantedPre
<1>0. /\ h \in Threads /\ NoRow \notin Def /\ NoRow \notin Row
      /\ \A s \in Names \ leftover : WantedAt(s)
  BY ScheduleAssumption DEF Threads, WantedInv, WantedAt
<1>a. /\ \A u \in Threads \ {h} : job'[u] = job[u]
      /\ up /\ leftover \subseteq leftover'
  BY DEF Calling, RunClaims, CreateRow, Forward, DeleteRow, StatementFails, RunNow, Enable,
         DeleteFile, CreateFile, Become, JobOK, Threads, At
<1> SUFFICES ASSUME NEW x \in Names, x \notin leftover', WantedAt(x) PROVE WantedAt(x)'
  BY <1>0, <1>a DEF WantedInv, WantedAt
<1>b. job'[h].pc \notin {"upsert", "drop"} \/ job'[h].on.name # x => HalfLess(x)
  BY <1>0, <1>a, HalfMoves
<1>1. CASE RunClaims(h) \/ Forward(h)
  <2>1. job[h].on.name \in Names
    BY <1>0, <1>1, AtPlace DEF RunClaims, Forward, At, Copy
  <2>2. RowKept(x)
    BY <1>1, <2>1, AdvanceKeeps DEF RunClaims, Forward
  <2>3. job'[h].pc = "idle" /\ UNCHANGED <<file, wanted>>
    BY <1>0, <1>1 DEF RunClaims, Forward, Become, JobOK, Idle
  <2> QED BY <1>b, <2>2, <2>3, WantedFrame
<1>8. CASE StatementFails(h)
  <2>1. job'[h].pc = "idle" /\ UNCHANGED <<row, file, wanted>>
    BY <1>0, <1>8 DEF StatementFails, Become, JobOK, Idle
  <2> QED BY <1>b, <2>1, WantedFrame DEF RowKept, Known
<1>2. CASE CreateRow(h)
  <2> DEFINE n == job[h].on.name
             d == job[h].on.def
             i == job[h].on.due
  <2>1. n \in Names /\ d \in Def /\ i \in Instants /\ job[h].pc = "upsert"
    BY <1>0, <1>2, AtPlace DEF CreateRow, At, Copy
  <2>2. /\ row' = [row EXCEPT ![n] = Upserted(row[n], d, i)] /\ UNCHANGED <<file, wanted>>
        /\ job'[h].pc = "idle" /\ row[n] \in Row \cup {NoRow}
    BY <1>0, <1>2, <2>1 DEF CreateRow, Become, JobOK, Idle, BookTypes
  <2>3. HalfLess(x)
    BY <1>b, <2>2
  <2>4. CASE x # n
    BY <2>1, <2>2, <2>3, <2>4, WantedFrame DEF RowKept, Known, BookTypes
  <2>5. CASE x = n
    <3>1. row'[x] = Upserted(row[x], d, i)
      BY <2>1, <2>2, <2>5 DEF BookTypes
    <3>2. /\ Upserted(row[x], d, i) \in Row
          /\ Upserted(row[x], d, i).enabled = IF row[x] = NoRow THEN TRUE ELSE row[x].enabled
      <4> DEFINE old == row[x]
      <4>1. old \in Row \cup {NoRow}
        BY <2>2, <2>5
      <4> HIDE DEF n, d, i, old
      <4>2. /\ Upserted(old, d, i) \in Row
            /\ Upserted(old, d, i).enabled = IF old = NoRow THEN TRUE ELSE old.enabled
        <5>1. (IF old = NoRow THEN TRUE ELSE old.enabled) \in BOOLEAN
          BY <4>1 DEF Row
        <5> QED BY <2>1, <4>1, <5>1 DEF Upserted, Row
      <4> QED BY <4>2 DEF old
    <3>3. row'[x] # NoRow /\ (row'[x].enabled => row[x] = NoRow \/ row[x].enabled)
      BY <1>0, <3>1, <3>2
    <3>4. Half("upsert", x)
      BY <2>1, <2>5 DEF Half
    <3>5. x \in wanted' \/ ~row'[x].enabled
      BY <2>2, <3>3, <3>4 DEF WantedAt, Known
    <3> QED BY <2>2, <2>3, <3>3, <3>5 DEF WantedAt, HalfLess, Known
  <2> QED BY <2>4, <2>5
<1>3. CASE DeleteRow(h)
  <2> DEFINE n == job[h].on.name
  <2>1. n \in Names /\ job[h].pc = "drop"
    BY <1>0, <1>3, AtPlace DEF DeleteRow, At, Copy
  <2>2. /\ row' = [row EXCEPT ![n] = NoRow] /\ file' = file /\ wanted' = wanted \ {n}
        /\ job'[h].pc = "idle"
    BY <1>0, <1>3 DEF DeleteRow, Become, JobOK, Idle
  <2>3. HalfLess(x)
    BY <1>b, <2>2
  <2>4. CASE x # n
    BY <2>1, <2>2, <2>3, <2>4, WantedFrame DEF RowKept, Known, BookTypes
  <2>5. CASE x = n
    <3>1. ~Half("upsert", x)
      BY <1>3, <1>a, <2>5 DEF DeleteRow, Half, At
    <3>2. Half("drop", x)
      BY <2>1, <2>5 DEF Half
    <3>3. row'[x] = NoRow
      BY <2>1, <2>2, <2>5 DEF BookTypes
    <3> QED BY <2>2, <2>3, <3>1, <3>2, <3>3 DEF WantedAt, HalfLess, Known
  <2> QED BY <2>4, <2>5
<1>4. ASSUME NEW n \in Names, RunNow(h, n) PROVE WantedAt(x)'
  <2>1. job'[h].pc = "target" /\ UNCHANGED <<row, file, wanted>>
    BY <1>0, <1>4 DEF RunNow, Become, JobOK
  <2> QED BY <1>b, <2>1, WantedFrame DEF RowKept, Known
<1>5. ASSUME NEW n \in Names, Enable(h, n) PROVE WantedAt(x)'
  <2>1. /\ job'[h].pc = "forward" /\ UNCHANGED file /\ wanted' = wanted \cup {n}
        /\ row' = [row EXCEPT ![n].enabled = TRUE] /\ row[n] \in Row /\ row[n] # NoRow
    BY <1>0, <1>5 DEF Enable, Become, JobOK, Known, BookTypes
  <2>2. HalfLess(x)
    BY <1>b, <2>1
  <2>3. CASE x # n
    BY <2>1, <2>2, <2>3, WantedFrame DEF RowKept, Known, BookTypes
  <2>4. CASE x = n
    <3>1. row'[x] = [row[x] EXCEPT !.enabled = TRUE]
      BY <2>1, <2>4 DEF BookTypes
    <3>2. row'[x] \in Row
      BY <2>1, <2>4, <3>1 DEF Row
    <3>3. row'[x] # NoRow
      BY <1>0, <3>2
    <3> QED BY <2>1, <2>2, <2>4, <3>3 DEF WantedAt, HalfLess, Known
  <2> QED BY <2>3, <2>4
<1>6. ASSUME NEW n \in Names, DeleteFile(h, n) PROVE WantedAt(x)'
  <2>1. /\ job'[h].pc = "drop" /\ job'[h].on = CopyOf(n) /\ UNCHANGED <<row, wanted>> /\ Known(n)
        /\ file' = [file EXCEPT ![n] = NoRow] \/ (n \in leftover' /\ UNCHANGED file)
    BY <1>0, <1>6 DEF DeleteFile, Become, JobOK
  <2>2. CASE x # n
    <3>1. job'[h].on.name # x
      BY <2>1, <2>2 DEF CopyOf
    <3>2. HalfLess(x)
      BY <1>b, <3>1
    <3>3. file'[x] = file[x]
      BY <2>1, <2>2 DEF BookTypes
    <3> QED BY <2>1, <3>2, <3>3, WantedFrame DEF RowKept, Known
  <2>3. CASE x = n
    <3>1. file'[x] = NoRow
      BY <2>1, <2>3 DEF BookTypes
    <3> QED BY <2>1, <2>3, <3>1 DEF WantedAt, Known
  <2> QED BY <2>2, <2>3
<1>7. ASSUME NEW n \in Names, NEW d \in Def, CreateFile(h, n, d) PROVE WantedAt(x)'
  <2>1. /\ job'[h].pc = "upsert" /\ job'[h].on.name = n /\ UNCHANGED row
        /\ file' = [file EXCEPT ![n] = d] /\ wanted' = IF Known(n) THEN wanted ELSE wanted \cup {n}
    BY <1>0, <1>7 DEF CreateFile, Become, JobOK
  <2>2. CASE x # n
    <3>1. HalfLess(x)
      BY <1>b, <2>1, <2>2
    <3>2. file'[x] = file[x] /\ (x \in wanted => x \in wanted')
      BY <2>1, <2>2 DEF BookTypes
    <3> QED BY <2>1, <3>1, <3>2, WantedFrame DEF RowKept, Known
  <2>3. CASE x = n
    <3>1. ~Half("drop", x)
      BY <1>7, <1>a, <2>3 DEF CreateFile, Half, At
    <3>2. ~Half("drop", x)'
      <4>1. SUFFICES ASSUME NEW g \in Handlers, job'[g].pc = "drop", job'[g].on.name = x PROVE FALSE
        BY DEF Half
      <4>2. g # h /\ g \in Threads
        BY <2>1, <4>1 DEF Threads
      <4> QED BY <1>a, <3>1, <4>1, <4>2 DEF Half
    <3>3. x \in wanted => x \in wanted'
      BY <2>1
    <3> QED BY <2>1, <2>3, <3>2, <3>3 DEF WantedAt, Known
  <2> QED BY <2>2, <2>3
<1> QED BY <1>1, <1>2, <1>3, <1>4, <1>5, <1>6, <1>7, <1>8 DEF Calling

LEMMA BootWanted == ASSUME WantedPre, Boot PROVE WantedInv'
<1> USE DEF WantedPre
<1>1. \A h \in Handlers : job'[h] = Idle
  BY DEF Boot, JobOK, JobInv, Threads
<1>2. \A s \in Names : ~Half("upsert", s)' /\ ~Half("drop", s)'
  BY <1>1 DEF Half, Idle
<1>3. PICK lost \in SUBSET Names, stuck \in SUBSET Names :
        /\ UNCHANGED <<file, wanted, leftover>>
        /\ row' = [s \in Names |-> Loaded(s, lost, stuck)]
  BY DEF Boot
<1>4. ASSUME NEW s \in Names, s \notin leftover PROVE WantedAt(s)'
  <2>1. WantedAt(s)
    BY <1>4 DEF WantedInv, WantedAt
  <2>2. ~Known(s)' => ~Known(s)
    BY <1>3, LoadedType DEF Known
  <2>3. Known(s)' /\ row'[s].enabled => (row[s] = NoRow /\ file[s] # NoRow) \/ (Known(s) /\ row[s].enabled)
    BY <1>3, LoadedType DEF Known
  <2> QED BY <1>2, <1>3, <2>1, <2>2, <2>3 DEF WantedAt, Known
<1> QED BY <1>3, <1>4 DEF WantedInv, WantedAt

LEMMA WantedStep == WantedPre /\ [Next]_vars => WantedInv'
<1> SUFFICES ASSUME WantedPre, [Next]_vars PROVE WantedInv'
  OBVIOUS
<1> USE DEF WantedPre
<1>0. \A s \in Names \ leftover : WantedAt(s)
  BY DEF WantedInv, WantedAt
<1>a. ASSUME UNCHANGED <<file, wanted, leftover>>, \A s \in Names : RowKept(s) /\ HalfLess(s)
      PROVE  WantedInv'
  <2>1. \A s \in Names \ leftover' : WantedAt(s)'
    BY <1>0, <1>a, WantedFrame
  <2> QED BY <2>1 DEF WantedInv, WantedAt
<1>1. ASSUME NEW t \in Checks, Checking(t) PROVE WantedInv'
  <2>0. t \in Threads /\ t \notin Handlers
    BY ScheduleAssumption DEF Threads
  <2>1. \A u \in Threads \ {t} : job'[u] = job[u]
    BY <1>1 DEF Checking, StartCheck, ReadDue, GateFails, GatePasses, EndCheck, Claim, ClaimFails,
                Take, Goto, Become, JobOK, Threads
  <2>2. \A s \in Names : HalfLess(s)
    BY <2>0, <2>1, HalfMoves
  <2>3. \A s \in Names : RowKept(s)
    <3>1. ASSUME NEW c \in job[t].todo, Claim(t, c) PROVE \A s \in Names : RowKept(s)
      <4>1. c.name \in Names /\ Advance(c.name)
        BY <2>0, <3>1, AtPlace DEF Claim, Copy
      <4> QED BY <4>1, AdvanceKeeps
    <3>2. CASE UNCHANGED row
      BY <3>2 DEF RowKept, Known
    <3> QED BY <1>1, <3>1, <3>2
            DEF Checking, StartCheck, ReadDue, GateFails, GatePasses, EndCheck, ClaimFails
  <2>4. UNCHANGED <<file, wanted, leftover>>
    BY <1>1 DEF Checking, StartCheck, ReadDue, GateFails, GatePasses, EndCheck, Claim, ClaimFails
  <2> QED BY <1>a, <2>2, <2>3, <2>4
<1>2. ASSUME NEW t \in Threads, Shot(t) PROVE WantedInv'
  <2>0. job[t] \in Job
    BY AtPlace
  <2>1. \A u \in Threads \ {t} : job'[u] = job[u]
    BY <1>2 DEF Shot, Target, TargetFails, Fire, FireFails, Rollback, RollbackFails, Goto, Become,
                JobOK
  <2>2. job'[t].pc \notin {"upsert", "drop"}
    <3>1. CASE Target(t)
      BY <2>0, <3>1 DEF Target, JobOK, Job
    <3>2. CASE TargetFails(t)
      BY <2>0, <3>2 DEF TargetFails, Goto, JobOK, Job
    <3>3. CASE FireFails(t) /\ job[t].minted
      BY <2>0, <3>3 DEF FireFails, Goto, JobOK, Job
    <3>4. CASE Fire(t) \/ (FireFails(t) /\ ~job[t].minted) \/ Rollback(t) \/ RollbackFails(t)
      <4>1. job'[t] = AfterFire(t) \/ job'[t] = AfterFailure(t)
        BY <3>4 DEF Fire, FireFails, Rollback, RollbackFails, Become, JobOK
      <4>2. AfterFire(t).pc \in {"rows", "claim"}
        <5>1. CASE t \in Checks
          BY <2>0, <5>1 DEF AfterFire, Job
        <5>2. CASE t \notin Checks
          BY <2>0, <5>2 DEF AfterFire, Job
        <5> QED BY <5>1, <5>2
      <4>3. AfterFailure(t).pc \in {"rows", "claim", "idle"}
        BY <4>2 DEF AfterFailure, Idle
      <4> QED BY <4>1, <4>2, <4>3
    <3> QED BY <1>2, <3>1, <3>2, <3>3, <3>4 DEF Shot
  <2>3. \A s \in Names : HalfLess(s)
    BY <2>1, <2>2, HalfMoves
  <2>4. UNCHANGED <<file, row, wanted, leftover>>
    BY <1>2 DEF Shot, Target, TargetFails, Fire, FireFails, Rollback, RollbackFails
  <2> QED BY <1>a, <2>3, <2>4 DEF RowKept, Known
<1>3. CASE Elsewhere
  <2>0. UNCHANGED <<job, leftover>> /\ \A s \in Names : HalfLess(s)
    BY <1>3 DEF Elsewhere, Disable, HandWrite, Tick, vars, HalfLess, Half
  <2>1. ASSUME NEW n \in Names, Disable(n) PROVE WantedInv'
    <3>1. /\ row' = [row EXCEPT ![n].enabled = FALSE] /\ row[n] \in Row /\ UNCHANGED file
          /\ wanted' = wanted \ {n}
      BY <2>1 DEF Disable, Known, BookTypes
    <3>2. ASSUME NEW x \in Names, x \notin leftover' PROVE WantedAt(x)'
      <4>0. WantedAt(x) /\ HalfLess(x)
        BY <1>0, <2>0, <3>2
      <4>1. CASE x # n
        BY <3>1, <4>0, <4>1, WantedFrame DEF RowKept, Known, BookTypes
      <4>2. CASE x = n
        <5>1. row'[x] = [row[x] EXCEPT !.enabled = FALSE]
          BY <3>1, <4>2 DEF BookTypes
        <5>2. row'[x] \in Row /\ row'[x].enabled = FALSE
          BY <3>1, <4>2, <5>1 DEF Row
        <5>3. row'[x] # NoRow
          BY <5>2, ScheduleAssumption
        <5> QED BY <3>1, <4>0, <5>2, <5>3 DEF WantedAt, HalfLess, Known
      <4> QED BY <4>1, <4>2
    <3> QED BY <3>2 DEF WantedInv, WantedAt
  <2>2. ASSUME NEW n \in Names, NEW d \in Def, HandWrite(n, d) PROVE WantedInv'
    <3>1. /\ UNCHANGED row /\ file' = [file EXCEPT ![n] = d]
          /\ wanted' = IF Known(n) THEN wanted ELSE wanted \cup {n}
      BY <2>2 DEF HandWrite
    <3>2. \A h \in Handlers : job'[h] = Idle
      BY <2>0, <2>2 DEF HandWrite, JobOK, JobInv, Threads
    <3>3. ASSUME NEW x \in Names, x \notin leftover' PROVE WantedAt(x)'
      <4>0. WantedAt(x) /\ ~Half("upsert", x)' /\ ~Half("drop", x)'
        BY <1>0, <2>0, <3>2, <3>3 DEF Half, Idle
      <4>1. CASE x # n
        <5>1. file'[x] = file[x] /\ (x \in wanted => x \in wanted')
          BY <3>1, <4>1 DEF BookTypes
        <5> QED BY <3>1, <4>0, <5>1 DEF WantedAt, Known
      <4>2. CASE x = n
        <5>1. (x \in wanted => x \in wanted') /\ (~Known(x) => x \in wanted')
          BY <3>1, <4>2
        <5> QED BY <3>1, <4>0, <5>1 DEF WantedAt, Known
      <4> QED BY <4>1, <4>2
    <3> QED BY <3>3 DEF WantedInv, WantedAt
  <2>3. CASE Tick \/ UNCHANGED vars
    BY <1>a, <2>0, <2>3 DEF Tick, vars, RowKept, Known
  <2> QED BY <1>3, <2>1, <2>2, <2>3 DEF Elsewhere
<1>4. CASE Crash
  <2>1. \A h \in Handlers : job'[h] = Idle
    BY <1>4 DEF Crash, Threads
  <2>2. \A s \in Names : HalfLess(s)
    BY <2>1 DEF HalfLess, Half, Idle
  <2> QED BY <1>4, <1>a, <2>2 DEF Crash, RowKept, Known
<1> QED BY <1>1, <1>2, <1>3, <1>4, BootWanted, CallWanted, StepCases

-----------------------------------------------------------------------------
(* The invariants of the specification.                                    *)

LEMMA ScheduleParts ==
  ScheduleInv <=> BookTypes /\ HistoryTypes /\ JobOK /\ FreshInv /\ WantedInv /\ NoOrphanTask
BY TypeParts DEF ScheduleInv

LEMMA InitInv == Init => ScheduleInv
<1> SUFFICES ASSUME Init PROVE ScheduleInv
  OBVIOUS
<1>1. BookTypes /\ HistoryTypes
  BY ScheduleAssumption DEF Init, BookTypes, HistoryTypes, Instants
<1>2. \A t \in Threads : job[t] = Idle /\ Shape(t, job[t])
  BY IdleShape DEF Init
<1>3. JobOK
  <2>1. job \in [Threads -> Job]
    BY IdleShape DEF Init, Shape
  <2>2. \A t \in Threads : job[t].pc = "idle"
    BY <1>2 DEF Idle
  <2> QED BY <1>2, <2>1, <2>2 DEF Init, JobOK, CheckingOK, JobInv, Shape, Threads
<1>4. FreshInv
  <2>1. \A t \in Checks : Held(t) = {} /\ job[t].pc \notin Firing
    BY <1>2 DEF Held, Idle, Firing, Threads
  <2> QED BY <2>1 DEF Init, FreshInv, Known
<1>5. WantedInv
  <2>1. \A h \in Handlers : job[h].pc = "idle"
    BY <1>2 DEF Idle, Threads
  <2> QED BY <2>1 DEF Init, WantedInv, Known, Half
<1>6. NoOrphanTask
  <2>1. Minted = {}
    BY <1>2 DEF Minted, Idle
  <2>2. Cardinality(Minted) = 0
    BY <2>1, FS_EmptySet
  <2> QED BY <2>2 DEF Init, NoOrphanTask, Minted
<1> QED BY <1>1, <1>3, <1>4, <1>5, <1>6, ScheduleParts

LEMMA InvStep == ScheduleInv /\ [Next]_vars => ScheduleInv'
<1> SUFFICES ASSUME ScheduleInv, [Next]_vars PROVE ScheduleInv'
  OBVIOUS
<1>1. BookTypes /\ HistoryTypes /\ JobOK /\ FreshInv /\ WantedInv /\ NoOrphanTask /\ TypeOK
  BY ScheduleParts DEF ScheduleInv
<1>2. BookTypes' /\ HistoryTypes' /\ JobOK' /\ FreshInv' /\ WantedInv' /\ NoOrphanTask'
  BY <1>1, BookStep, HistoryStep, JobStep, FreshStep, WantedStep DEF WantedPre
<1>3. TypeOK'
  BY <1>2 DEF TypeOK, BookTypes, HistoryTypes, JobOK, CheckingOK
<1> QED BY <1>2, <1>3 DEF ScheduleInv, JobOK

\* The inductive invariant: types, what each thread holds, the freshness of every instant read
\* or written, and who wanted what (manager.rs check_schedules, fire_schedule, and the calls).
THEOREM ScheduleInvariant == Spec => []ScheduleInv
<1>1. Init => ScheduleInv
  BY InitInv
<1>2. ScheduleInv /\ [Next]_vars => ScheduleInv'
  BY InvStep
<1> QED BY <1>1, <1>2, PTL DEF Spec

\* The tick never fires a schedule for an instant it has fired for, or that came before the
\* daemon started, whatever checks, gates, runs, deletions and restarts come between, unless its
\* row kept an instant that had passed: a claim or a move at the start that failed, a switch on
\* past due, an edit overtaken by its own first instant (manager.rs fire_schedule "CLAIM up
\* front", create_schedule).
THEOREM NoInstantTwice == Spec => []FreshInstant
<1>1. ScheduleInv => FreshInstant
  <2> SUFFICES ASSUME ScheduleInv, NEW t \in Checks, At(t, "fire"), job[t].on.name \notin excused
               PROVE  settled[job[t].on.name] < job[t].on.due
    BY DEF FreshInstant
  <2>1. job[t].on \in Held(t)
    BY DEF At, Held, Firing
  <2> QED BY <2>1 DEF ScheduleInv, FreshInv, Fresh
<1> QED BY <1>1, ScheduleInvariant, PTL

\* A schedule that would fire is one the user left on: an edit, a restart and a half-done deletion
\* bring none back, but for a file that stayed and a creation under way (store.rs upsert_schedule).
THEOREM OnIsWanted == Spec => []DueIsWanted
<1>1. ScheduleInv => DueIsWanted
  BY DEF ScheduleInv, WantedInv, DueIsWanted, Due
<1> QED BY <1>1, ScheduleInvariant, PTL

\* Every task made for a run is with an agent, with a thread that will launch or roll it back, or
\* among those a crash or a failing delete left (manager.rs fire_schedule).
THEOREM TasksAccounted == Spec => []NoOrphanTask
<1>1. ScheduleInv => NoOrphanTask
  BY DEF ScheduleInv
<1> QED BY <1>1, ScheduleInvariant, PTL
=============================================================================
