----------------------------- MODULE Worktrees -----------------------------
(***************************************************************************)
(* The isolated checkouts of agents and what becomes of them: provisioned  *)
(* (worktree.rs provision), archived into refs/taime/archive/<agent> and   *)
(* then removed by the retention sweep, by the collapse that is run once   *)
(* of what older daemons left, by "clean up now" or by the deletion of the *)
(* workspace (manager.rs archive_and_reclaim and its callers), each on a   *)
(* blocking thread of its own.                                             *)
(*                                                                         *)
(* An agent's work is a version, 0 while nothing differs from its base.    *)
(* All agents are isolated ones of one workspace.                          *)
(***************************************************************************)
EXTENDS Integers, Sequences, FiniteSets

CONSTANTS
  Agents,
  Threads,      \* blocking threads that archive and remove
  Nobody,       \* no agent
  NoWork,       \* no archive, no cached patch
  Torn,         \* the content of a checkout that was being removed
  Keep,         \* newest checkouts the sweep leaves (TAIME_WORKTREE_KEEP)
  MaxWork,      \* bound of the model: versions an agent writes
  MaxJobs,      \* bound of the model: sweeps, reclaims and deletions
  MaxCrashes    \* bound of the model: crashes of the daemon

ASSUME WorktreeAssumption ==
  /\ Keep \in Nat /\ MaxWork \in Nat /\ MaxJobs \in Nat /\ MaxCrashes \in Nat
  /\ Nobody \notin Agents /\ NoWork \notin Nat /\ Torn \notin Nat /\ NoWork # Torn

VARIABLES
  phase, age,           \* each agent's session, and how old its checkout is
  order,                \* agents by the time they were provisioned, the oldest first
  work, checkout,       \* what it has written; its checkout on disk
  ref, row, archived,   \* its archive ref; its worktree row and the row's archive_ref
  cached,                \* its cached review patch
  gced,                 \* worktrees_gced
  collapse,             \* how far the collapse is, and its mark in taime_meta
  job, jobs,            \* what each thread is doing, and how many they were given
  crashes,
  torn, unsaved, destroyed  \* history: agents whose checkout was read while it was being removed,
                            \*   was written after it was read, whose archive was dropped on request

session == <<phase, age, order, work>>
disk == <<checkout, ref>>
store == <<row, archived, cached>>
losses == <<torn, unsaved, destroyed>>
worktreeVars == <<session, disk, store, gced, collapse, job, jobs, crashes, losses>>

-----------------------------------------------------------------------------
Kinds == {"sweep", "collapse", "reclaim", "soft", "hard"}
Places == {"idle", "next", "look", "read", "ref", "patch", "mark", "remove", "removing",
           "record", "destroy", "destroying", "drop", "forget"}
Job == [pc : Places, kind : Kinds, agent : Agents \cup {Nobody}, todo : SUBSET Agents,
        drop : SUBSET Agents, keep : SUBSET Agents, snap : 1 .. MaxWork \cup {NoWork, Torn}]
Idle == [pc |-> "idle", kind |-> "sweep", agent |-> Nobody, todo |-> {},
         drop |-> {}, keep |-> {}, snap |-> NoWork]

WorktreesInit ==
  /\ phase = [a \in Agents |-> "none"] /\ age = [a \in Agents |-> "fresh"] /\ order = <<>>
  /\ work = [a \in Agents |-> 0] /\ checkout = [a \in Agents |-> "absent"]
  /\ ref = [a \in Agents |-> NoWork] /\ row = [a \in Agents |-> "none"]
  /\ archived = [a \in Agents |-> FALSE] /\ cached = [a \in Agents |-> NoWork]
  /\ gced = {} /\ collapse \in {"due", "done"} /\ job = [t \in Threads |-> Idle] /\ jobs = 0 /\ crashes = 0
  /\ torn = {} /\ unsaved = {} /\ destroyed = {}

HasSession(a) == phase[a] \in {"live", "killed"}
Recorded == {a \in Agents : row[a] \in {"open", "reclaimed"}}

-----------------------------------------------------------------------------
(* Agents.                                                                 *)

\* mint_agent_id: a random ID that no row and no archive has.
Free(a) == phase[a] = "none" /\ row[a] \in {"none", "deleted"} /\ ref[a] = NoWork

\* The checkout, then its row, whose failure is logged.
NewCheckout(a) == checkout' = [checkout EXCEPT ![a] = "whole"]
Upsert(a) == row' = [row EXCEPT ![a] = "open"]
Provision(a) ==
  /\ Free(a)
  /\ phase' = [phase EXCEPT ![a] = "provisioned"] /\ order' = Append(order, a)
  /\ NewCheckout(a)
  /\ Upsert(a) \/ UNCHANGED row
  /\ UNCHANGED <<age, work, ref, archived, cached, gced, collapse, job, jobs, crashes, losses>>

Spawn(a) ==
  /\ phase[a] = "provisioned"
  /\ phase' = [phase EXCEPT ![a] = "live"]
  /\ UNCHANGED <<age, order, work, disk, store, gced, collapse, job, jobs, crashes, losses>>

\* Somebody has read the checkout and will remove it.
BeingReclaimed(a) ==
  \E t \in Threads : job[t].agent = a /\ job[t].pc \in {"ref", "patch", "mark", "remove", "removing"}

Write(a) ==
  /\ HasSession(a) /\ checkout[a] = "whole" /\ work[a] < MaxWork
  /\ work' = [work EXCEPT ![a] = @ + 1]
  /\ unsaved' = IF BeingReclaimed(a) THEN unsaved \cup {a} ELSE unsaved
  /\ UNCHANGED <<phase, age, order, disk, store, gced, collapse, job, jobs, crashes, torn, destroyed>>

Exit(a) ==
  /\ HasSession(a)
  /\ phase' = [phase EXCEPT ![a] = "dead"]
  /\ UNCHANGED <<age, order, work, disk, store, gced, collapse, job, jobs, crashes, losses>>

\* The grace (10 minutes) and the longest idle time (14 days) go by; they count
\* for an agent without a session only.  An agent is spawned within the grace.
Age(a) ==
  /\ phase[a] = "dead" /\ age[a] # "idle"
  /\ age' = [age EXCEPT ![a] = IF @ = "fresh" THEN "graced" ELSE "idle"]
  /\ UNCHANGED <<phase, order, work, disk, store, gced, collapse, job, jobs, crashes, losses>>

-----------------------------------------------------------------------------
(* Who archives and removes.                                               *)

Busy(t, j) == job' = [job EXCEPT ![t] = j]
Begin(t, j) == job[t].pc = "idle" /\ jobs < MaxJobs /\ jobs' = jobs + 1 /\ Busy(t, j)
Step(t, place) == Busy(t, [job[t] EXCEPT !.pc = place])
At(t, place) == job[t].pc = place

\* physical_isolated_worktrees, the newest first: an agent's rank among them.
Physical == SelectSeq(order, LAMBDA a : row[a] = "open")
Newer(a) == {b \in Agents : \E i, j \in DOMAIN Physical :
                              i < j /\ Physical[i] = a /\ Physical[j] = b}

\* select_reclaim_victims.
Evicted(a) == Cardinality(Newer(a)) >= Keep \/ age[a] = "idle"
Victims == {a \in Agents : row[a] = "open" /\ ~HasSession(a) /\ age[a] # "fresh" /\ Evicted(a)}

Sweep(t) ==
  /\ Victims # {}
  /\ Begin(t, [Idle EXCEPT !.pc = "next", !.kind = "sweep", !.todo = Victims])
  /\ UNCHANGED <<session, disk, store, gced, collapse, crashes, losses>>

Reclaimable == {a \in Agents : row[a] = "open" /\ ~HasSession(a)}

\* Started with the daemon, in the background: every checkout without a session, however young.
Collapse(t) ==
  /\ collapse = "due" /\ collapse' = "running"
  /\ Begin(t, [Idle EXCEPT !.pc = "next", !.kind = "collapse", !.todo = Reclaimable])
  /\ UNCHANGED <<session, disk, store, gced, crashes, losses>>

\* reclaim_agent refuses a live agent and a reclaimed one.
ReclaimAgent(t, a) ==
  /\ a \in Reclaimable
  /\ Begin(t, [Idle EXCEPT !.pc = "look", !.kind = "reclaim", !.agent = a])
  /\ UNCHANGED <<session, disk, store, gced, collapse, crashes, losses>>

\* delete_workspace reads the rows and tells the live agents to end.
Delete(t, kind) ==
  LET drop == {a \in Recorded : kind = "hard" /\ archived[a]} IN
  /\ Recorded # {}
  /\ Begin(t, [Idle EXCEPT !.pc = "next", !.kind = kind, !.todo = Recorded, !.drop = drop,
              !.keep = {a \in Recorded \ drop : row[a] = "reclaimed"}])
  /\ phase' = [a \in Agents |-> IF a \in Recorded /\ phase[a] = "live" THEN "killed" ELSE phase[a]]
  /\ UNCHANGED <<age, order, work, disk, store, gced, collapse, crashes, losses>>

\* The next agent of a sweep, unless it was done by another thread meanwhile;
\* the next of a deletion, archived, destroyed or left as it is.
Pick(t, a) ==
  LET j == job[t] IN
  /\ At(t, "next") /\ a \in j.todo
  /\ Busy(t, [j EXCEPT !.todo = @ \ {a}, !.agent = a,
                       !.pc = IF j.kind = "sweep" THEN IF a \in gced THEN "next" ELSE "look"
                              ELSE IF j.kind = "collapse" THEN "look"
                              ELSE IF a \in j.drop THEN "destroy"
                              ELSE IF a \in j.keep THEN "forget" ELSE "look"])
  /\ UNCHANGED <<session, disk, store, gced, collapse, jobs, crashes, losses>>

Finish(t) ==
  /\ At(t, "next") /\ job[t].todo = {}
  /\ Busy(t, Idle)
  /\ collapse' = IF job[t].kind = "collapse" THEN "done" ELSE collapse
  /\ UNCHANGED <<session, disk, store, gced, jobs, crashes, losses>>

\* Where a thread goes when it is done with an agent's archive.
Done(t) == CASE job[t].kind \in {"sweep", "collapse"} -> "next" [] job[t].kind = "reclaim" -> "idle"
             [] OTHER -> "forget"

-----------------------------------------------------------------------------
(* archive_and_reclaim, and archive_agent within it.                       *)

Look(t) ==
  /\ At(t, "look")
  /\ Step(t, IF checkout[job[t].agent] = "absent" THEN "record" ELSE "read")
  /\ UNCHANGED <<session, disk, store, gced, collapse, jobs, crashes, losses>>

\* git add -A into a throwaway index; what is there may be half a checkout.
\* Mutant: git add -u, which leaves new files out.
ContentTracked(a) == IF checkout[a] = "whole" THEN 0 ELSE Torn
Content(a) == IF checkout[a] = "whole" THEN work[a] ELSE Torn

Read(t) ==
  LET a == job[t].agent IN
  /\ At(t, "read") /\ checkout[a] # "absent"
  /\ Busy(t, [job[t] EXCEPT !.pc = IF Content(a) = 0 THEN "mark" ELSE "ref",
                            !.snap = IF Content(a) = 0 THEN NoWork ELSE Content(a)])
  /\ torn' = IF Content(a) = Torn THEN torn \cup {a} ELSE torn
  /\ UNCHANGED <<session, disk, store, gced, collapse, jobs, crashes, unsaved, destroyed>>

\* Any git step may fail, and does when the checkout is gone: it is kept.
ReadFails(t) ==
  /\ job[t].pc \in {"read", "ref"}
  /\ Step(t, Done(t))
  /\ UNCHANGED <<session, disk, store, gced, collapse, jobs, crashes, losses>>

\* update-ref.  Mutant: the patch is not cached.
UpdateRefOnly(t) ==
  /\ At(t, "ref")
  /\ ref' = [ref EXCEPT ![job[t].agent] = job[t].snap] /\ Step(t, "mark")
  /\ UNCHANGED <<session, checkout, store, gced, collapse, jobs, crashes, losses>>
UpdateRef(t) ==
  /\ At(t, "ref")
  /\ ref' = [ref EXCEPT ![job[t].agent] = job[t].snap] /\ Step(t, "patch")
  /\ UNCHANGED <<session, checkout, store, gced, collapse, jobs, crashes, losses>>

\* put_review_patch, and mark_archived: updates of a row that may be gone.
CachePatch(t) ==
  /\ At(t, "patch")
  /\ cached' = [cached EXCEPT ![job[t].agent] = job[t].snap] /\ Step(t, "mark")
  /\ UNCHANGED <<session, disk, row, archived, gced, collapse, jobs, crashes, losses>>

MarkArchived(t) ==
  LET a == job[t].agent IN
  /\ At(t, "mark")
  /\ archived' = [archived EXCEPT ![a] = IF row[a] = "deleted" THEN @ ELSE job[t].snap # NoWork]
  /\ Step(t, "remove")
  /\ UNCHANGED <<session, disk, row, cached, gced, collapse, jobs, crashes, losses>>

\* git worktree remove --force, which takes its time.
StartRemoval(t) ==
  LET a == job[t].agent IN
  /\ At(t, "remove")
  /\ checkout' = [checkout EXCEPT ![a] = IF @ = "whole" THEN "part" ELSE @] /\ Step(t, "removing")
  /\ UNCHANGED <<session, ref, store, gced, collapse, jobs, crashes, losses>>

EndRemoval(t) ==
  /\ At(t, "removing")
  /\ checkout' = [checkout EXCEPT ![job[t].agent] = "absent"] /\ Step(t, "record")
  /\ UNCHANGED <<session, ref, store, gced, collapse, jobs, crashes, losses>>

MarkReclaimed(t) ==
  LET a == job[t].agent IN
  /\ At(t, "record")
  /\ row' = [row EXCEPT ![a] = IF @ = "open" THEN "reclaimed" ELSE @]
  /\ gced' = gced \cup {a} /\ Step(t, Done(t))
  /\ UNCHANGED <<session, disk, archived, cached, collapse, jobs, crashes, losses>>

-----------------------------------------------------------------------------
(* The rest of a deletion.                                                 *)

\* remove_force of what is still there, then drop_archive_ref.
StartDestroy(t) ==
  LET a == job[t].agent IN
  /\ At(t, "destroy")
  /\ checkout' = [checkout EXCEPT ![a] = IF @ = "whole" THEN "part" ELSE @] /\ Step(t, "destroying")
  /\ destroyed' = destroyed \cup {a}
  /\ UNCHANGED <<session, ref, store, gced, collapse, jobs, crashes, torn, unsaved>>

EndDestroy(t) ==
  /\ At(t, "destroying")
  /\ checkout' = [checkout EXCEPT ![job[t].agent] = "absent"] /\ Step(t, "drop")
  /\ UNCHANGED <<session, ref, store, gced, collapse, jobs, crashes, losses>>

DropRef(t) ==
  /\ At(t, "drop")
  /\ ref' = [ref EXCEPT ![job[t].agent] = NoWork] /\ Step(t, "forget")
  /\ UNCHANGED <<session, checkout, store, gced, collapse, jobs, crashes, losses>>

\* delete_review_patch and delete_worktree_row.
Forget(t) ==
  LET a == job[t].agent IN
  /\ At(t, "forget")
  /\ cached' = [cached EXCEPT ![a] = NoWork] /\ row' = [row EXCEPT ![a] = "deleted"]
  /\ archived' = [archived EXCEPT ![a] = FALSE] /\ Step(t, "next")
  /\ UNCHANGED <<session, disk, gced, collapse, jobs, crashes, losses>>

\* The daemon dies, and its agents with it; another starts.  A git that was
\* removing a checkout dies with it or not.
Crash ==
  /\ crashes < MaxCrashes /\ crashes' = crashes + 1
  /\ phase' = [a \in Agents |-> IF HasSession(a) THEN "dead" ELSE phase[a]]
  /\ job' = [t \in Threads |-> Idle] /\ gced' = {}
  /\ collapse' = IF collapse = "done" THEN "done" ELSE "due"
  /\ \E gone \in SUBSET {a \in Agents : checkout[a] = "part"} :
       checkout' = [a \in Agents |-> IF a \in gone THEN "absent" ELSE checkout[a]]
  /\ UNCHANGED <<age, order, work, ref, store, jobs, losses>>

-----------------------------------------------------------------------------
Archive(t) ==
  \/ Look(t) \/ Read(t) \/ ReadFails(t) \/ UpdateRef(t) \/ CachePatch(t) \/ MarkArchived(t)
  \/ StartRemoval(t) \/ EndRemoval(t) \/ MarkReclaimed(t)

Deletion(t) == StartDestroy(t) \/ EndDestroy(t) \/ DropRef(t) \/ Forget(t)

WorktreesNext ==
  \/ \E a \in Agents : Provision(a) \/ Spawn(a) \/ Write(a) \/ Exit(a) \/ Age(a)
  \/ \E t \in Threads :
       \/ Sweep(t) \/ Collapse(t) \/ Finish(t) \/ Archive(t) \/ Deletion(t)
       \/ \E a \in Agents : ReclaimAgent(t, a) \/ Pick(t, a)
       \/ \E kind \in {"soft", "hard"} : Delete(t, kind)
  \/ Crash

WorktreesSpec == WorktreesInit /\ [][WorktreesNext]_worktreeVars

-----------------------------------------------------------------------------
(* Types.                                                                  *)
WorktreesTypeOK ==
  /\ phase \in [Agents -> {"none", "provisioned", "live", "killed", "dead"}]
  /\ age \in [Agents -> {"fresh", "graced", "idle"}] /\ order \in Seq(Agents)
  /\ work \in [Agents -> 0 .. MaxWork] /\ checkout \in [Agents -> {"absent", "whole", "part"}]
  /\ ref \in [Agents -> 1 .. MaxWork \cup {NoWork, Torn}]
  /\ cached \in [Agents -> 1 .. MaxWork \cup {NoWork, Torn}]
  /\ row \in [Agents -> {"none", "open", "reclaimed", "deleted"}] /\ archived \in [Agents -> BOOLEAN]
  /\ gced \subseteq Agents
  /\ collapse \in {"due", "running", "done"} /\ job \in [Threads -> Job] /\ jobs \in 0 .. MaxJobs /\ crashes \in 0 .. MaxCrashes
  /\ torn \subseteq Agents /\ unsaved \subseteq Agents /\ destroyed \subseteq Agents

\* What the agent wrote is in its checkout or in its archive.
Excused == torn \cup unsaved \cup destroyed
Safe(a) == work[a] = 0 \/ checkout[a] = "whole" \/ ref[a] = work[a]

(* Archive-then-reclaim is non-lossy but for three things: work dropped on *)
(* request, work written after the checkout was read, and an archive taken *)
(* from a checkout another removal had begun to empty (manager.rs          *)
(* archive_and_reclaim, worktree.rs archive_agent).                        *)
LossIsKnown == \A a \in Agents : Safe(a) \/ a \in Excused

(* A reclaimed agent's review shows what its archive holds, after any      *)
(* crash and whoever reclaimed it (manager.rs review_source: "a reclaimed  *)
(* agent stays fully reviewable").                                         *)
ReviewShowsArchive ==
  \A a \in Agents \ Excused : row[a] = "reclaimed" => cached[a] = ref[a]

(* The sweep never works on the checkout of an agent that has a session,   *)
(* though it holds no lock from its look at the sessions to the removal    *)
(* (manager.rs sweep_worktrees: "Live agents ... are never touched").      *)
SweepSparesLive ==
  \A t \in Threads :
    job[t].kind = "sweep" /\ job[t].agent # Nobody => ~HasSession(job[t].agent)

-----------------------------------------------------------------------------
(* The inductive invariant (Review_proofs).                                *)

\* What a thread works on was provisioned, and what a sweep works on is dead for
\* good; what is noted as removed or to be forgotten is so.
Work(t) == job[t].todo \cup ({job[t].agent} \ {Nobody})
InHand(t) ==
  /\ job[t].pc \notin {"idle", "next"} => job[t].agent # Nobody
  /\ \A a \in Work(t) : phase[a] # "none" /\ (job[t].kind = "sweep" => phase[a] = "dead")
  /\ job[t].pc = "record" => checkout[job[t].agent] = "absent"
  /\ job[t].pc \in {"destroying", "drop"} => job[t].agent \in destroyed
ThreadInv == \A t \in Threads : InHand(t)

\* Only an agent that was provisioned has a row, only a dead one grows old, and a
\* row that says reclaimed is of a checkout that is gone.
AgentInv ==
  \A a \in Agents :
    /\ row[a] # "none" => phase[a] # "none"
    /\ age[a] # "fresh" => phase[a] = "dead"
    /\ row[a] = "reclaimed" => checkout[a] = "absent"

\* The archive holds what the agent wrote; the cached patch shows the archive.
Kept(a) == work[a] = 0 \/ ref[a] = work[a]
Shown(a) == row[a] = "deleted" \/ cached[a] = ref[a]

\* They do, of an agent without an excuse, from the moment a thread is past the
\* two writes, and for as long as the checkout is not whole.
Secured(a) ==
  /\ work[a] = 0 => ref[a] = NoWork /\ cached[a] = NoWork
  /\ checkout[a] # "whole" => Kept(a) /\ Shown(a)
OnPath(t) ==
  LET a == job[t].agent IN
  /\ job[t].pc \in {"ref", "patch"} => job[t].snap = work[a] /\ work[a] # 0
  /\ job[t].pc = "patch" => ref[a] = work[a]
  /\ job[t].pc \in {"mark", "remove", "removing"} => Kept(a) /\ Shown(a)
ArchiveInv ==
  /\ \A a \in Agents \ Excused : Secured(a)
  /\ \A t \in Threads : job[t].agent \in Agents \ Excused => OnPath(t)

WorktreesInv == WorktreesTypeOK /\ ThreadInv /\ AgentInv /\ ArchiveInv
=============================================================================
