----------------------------- MODULE ReviewGate -----------------------------
(***************************************************************************)
(* The review acknowledgement and the merge or revert of one agent's work: *)
(* the watcher's reports invalidate the ack (session.rs note_fs_changes),  *)
(* the app marks, merges and reverts (store.ts, DiffView.tsx), the         *)
(* daemon's gate (manager.rs) hands the selected hunks to git (diff.rs)    *)
(* and a commit's provenance to the ledger, while the agent goes on        *)
(* writing, the user edits the target, and the agent's checkout, once it   *)
(* has ended, is reclaimed: its work is then read from the archive.        *)
(*                                                                         *)
(* A file's content is a version: 0 is the base both trees start from,     *)
(* every other is one writing of it, numbered.  A patch is the tree it leads to,    *)
(* and its digest is the patch (no collisions).                            *)
(***************************************************************************)
EXTENDS Integers

CONSTANTS
  Paths,        \* files of the agent's worktree
  Untracked,    \* those the agent created: new files to git
  NoPaths,      \* nothing served yet
  Conflict,     \* a file with conflict markers
  CommitsFail,  \* whether git may refuse a commit (a hook)
  MaxWrites,    \* bound of the model: writes by the agent
  MaxEdits,     \* bound of the model: edits of the target by the user
  MaxMerges     \* bound of the model: merges asked for

ASSUME GateAssumption ==
  /\ Untracked \subseteq Paths /\ CommitsFail \in BOOLEAN
  /\ MaxWrites \in Nat /\ MaxEdits \in Nat /\ MaxMerges \in Nat
  /\ Conflict \notin Nat /\ NoPaths \notin [Paths -> Nat]

VARIABLES
  tree, writes, unreported,   \* the agent's worktree; paths the watcher has yet to report
  source,                     \* where the work is read from: live, or archived
  dirty, clearing,            \* fs_all_dirty; a report on its way to the store
  ack, ackedOver,             \* the review row; history: what was dirty when it was written
  marking,                    \* where markFrameReviewed is
  served,                     \* the hunked_diff the client holds
  merge, kind, from, sel, digest, reviewed, full, patch, merges,  \* the merge in progress
  report,                     \* its answer
  rows, commits,              \* rows of taime_merges; history: merges that made a commit
  moved, foreign,             \* history: whether the agent wrote, and paths the user edited, since
                              \*   the merge counted its hunks
  target, head, edits         \* the target's working tree and its last commit

treeVars == <<tree, writes, unreported, source>>
ackVars == <<dirty, clearing, ack, ackedOver, marking>>
request == <<kind, from, sel, digest, merges>>
record == <<rows, commits>>
history == <<moved, foreign>>
mergeVars == <<merge, request, reviewed, full, patch, report, record, history>>
targetVars == <<target, head, edits>>
vars == <<treeVars, ackVars, served, mergeVars, targetVars>>

Base == [p \in Paths |-> 0]
Changed(t) == {p \in Paths : t[p] # 0}

Init ==
  /\ tree = Base /\ writes = 0 /\ unreported = {} /\ source = "live"
  /\ dirty = {} /\ clearing = FALSE /\ ack = FALSE /\ ackedOver = {} /\ marking = "idle"
  /\ served = NoPaths
  /\ merge = "idle" /\ kind = "commit" /\ from = "live" /\ sel = {} /\ digest = Base
  /\ reviewed = FALSE /\ full = FALSE /\ patch = Base /\ merges = 0 /\ report = "none"
  /\ rows = 0 /\ commits = 0 /\ moved = FALSE /\ foreign = {}
  /\ target = Base /\ head = Base /\ edits = 0

-----------------------------------------------------------------------------
(* The agent and its watcher.                                              *)

AgentWrites(p, version) ==
  /\ source = "live"
  /\ writes < MaxWrites /\ version # tree[p]
  /\ writes' = writes + 1
  /\ tree' = [tree EXCEPT ![p] = version]
  /\ unreported' = unreported \cup {p}
  /\ moved' = TRUE
  /\ UNCHANGED <<source, ackVars, served, merge, request, reviewed, full, patch, report, record,
                 foreign, targetVars>>

\* The agent has ended and archive_and_reclaim removes its checkout, what it
\* holds being in the archive (Worktrees).  A clean one leaves nothing behind.
Reclaim ==
  /\ source = "live"
  /\ source' = IF tree = Base THEN "empty" ELSE "archived"
  /\ UNCHANGED <<tree, writes, unreported, ackVars, served, mergeVars, targetVars>>

FirstDirt(batch) == dirty = {}
Grew(batch) == ~(batch \subseteq dirty)

\* note_fs_changes, under the session's lock: one debounced batch joins the set.
WatcherReports ==
  /\ source = "live" /\ unreported # {} /\ ~clearing
  /\ unreported' = {} /\ dirty' = dirty \cup unreported
  /\ clearing' = Grew(unreported)
  /\ UNCHANGED <<tree, writes, source, ack, ackedOver, marking, served, mergeVars, targetVars>>

\* clear_reviewed.
DropAck == ack' = FALSE

\* ... and, with the lock released, the store drops the ack.
WatcherClearsAck ==
  /\ clearing
  /\ clearing' = FALSE /\ DropAck
  /\ UNCHANGED <<treeVars, dirty, ackedOver, marking, served, mergeVars, targetVars>>

-----------------------------------------------------------------------------
(* The client.                                                             *)

Serve ==
  /\ served # tree
  /\ served' = tree
  /\ UNCHANGED <<treeVars, ackVars, mergeVars, targetVars>>

FetchDiff == source = "live" /\ Serve

\* Of a reclaimed agent: the cached patch, or nothing.
FetchArchived == source # "live" /\ Serve

\* mark_reviewed.
Acknowledge == ack' = TRUE /\ ackedOver' = dirty

\* markFrameReviewed: clear_dirty, which empties the set and then drops the ack,
\* is awaited before mark_reviewed.
ClearDirty ==
  /\ marking = "idle" /\ served # NoPaths
  /\ dirty' = {} /\ marking' = "cleared"
  /\ UNCHANGED <<treeVars, clearing, ack, ackedOver, served, mergeVars, targetVars>>

ClearDirtyDropsAck ==
  /\ marking = "cleared"
  /\ DropAck /\ marking' = "dropped"
  /\ UNCHANGED <<treeVars, dirty, clearing, ackedOver, served, mergeVars, targetVars>>

MarkReviewed ==
  /\ marking = "dropped"
  /\ Acknowledge /\ marking' = "idle"
  /\ UNCHANGED <<treeVars, dirty, clearing, served, mergeVars, targetVars>>

-----------------------------------------------------------------------------
(* commit_merge and apply_selection.                                       *)

MayAsk(paths) ==
  /\ merge = "idle" /\ merges < MaxMerges
  /\ served # NoPaths /\ paths \subseteq Changed(served) /\ paths # {}

Ask(what, paths) ==
  /\ kind' = what /\ from' = source /\ sel' = paths /\ digest' = served /\ merges' = merges + 1
  /\ report' = "none" /\ moved' = FALSE /\ foreign' = {}
  /\ UNCHANGED <<patch, full, record>>

\* The app's merge: merging is the review act, so the ack is recorded first.
ClickMerge(paths) ==
  /\ MayAsk(paths) /\ Ask("commit", paths)
  /\ Acknowledge /\ merge' = "acked" /\ UNCHANGED reviewed
  /\ UNCHANGED <<treeVars, dirty, clearing, marking, served, targetVars>>

\* has_review_ack; a store that cannot be read has none.
HasReviewAck == ack

\* commit_merge looks where the work is, and reads the ack for the record only.
CommitGate ==
  /\ merge = "acked"
  /\ from' = source /\ reviewed' = HasReviewAck /\ merge' = "gated"
  /\ UNCHANGED <<treeVars, ackVars, served, kind, sel, digest, merges, full, patch, report, record,
                 history, targetVars>>

\* apply_selection refuses a merge without a standing ack.
ApplyGate(paths) ==
  /\ MayAsk(paths) /\ HasReviewAck
  /\ Ask("apply", paths)
  /\ reviewed' = TRUE /\ merge' = "clear"
  /\ UNCHANGED <<treeVars, ackVars, served, targetVars>>

\* ... but not a revert, the safe direction; there must be a checkout to revert.
RevertGate(paths) ==
  /\ MayAsk(paths) /\ source = "live"
  /\ Ask("revert", paths)
  /\ merge' = "clear" /\ UNCHANGED reviewed
  /\ UNCHANGED <<treeVars, ackVars, served, targetVars>>

Answer(what) == merge' = "idle" /\ report' = what
Goes(step) == merge' = step /\ UNCHANGED report
Otherwise == UNCHANGED <<request, reviewed, record, history>>
AnswerOnly(what) ==
  /\ Answer(what)
  /\ UNCHANGED <<treeVars, ackVars, served, request, reviewed, full, patch, record, history, targetVars>>

\* An archive without a patch: nothing to merge.
NothingThere ==
  /\ merge \in {"gated", "clear"} /\ from = "empty"
  /\ AnswerOnly("empty")

\* The target is no worktree of the agent's workspace.
TargetRefused ==
  /\ merge \in {"gated", "clear"} /\ from # "empty"
  /\ AnswerOnly("no target")

\* count_selected: every hunk there is now is selected.
Counted == sel = Changed(tree)

\* The hunks are counted for the message; then commit_preflight: a selected path
\* the target has uncommitted edits of.
CommitPreflight ==
  /\ merge = "gated" /\ from # "empty"
  /\ full' = Counted /\ moved' = FALSE
  /\ IF \A p \in sel : target[p] = head[p] THEN Goes("clear") ELSE Answer("dirty target")
  /\ UNCHANGED <<treeVars, ackVars, served, request, reviewed, patch, record, foreign, targetVars>>

\* Mutant: the digest is not compared.
AssembleUnchecked ==
  /\ merge = "clear" /\ from = "live"
  /\ patch' = tree /\ Goes("assembled")
  /\ UNCHANGED <<treeVars, ackVars, served, full, targetVars>> /\ Otherwise

\* The patch is assembled from the worktree as it is now; a checkout removed
\* meanwhile reads as no patch at all.
Gone == from = "live" /\ source # "live"

Assemble ==
  /\ merge = "clear" /\ from = "live"
  /\ patch' = tree
  /\ IF tree = digest /\ ~Gone THEN Goes("assembled") ELSE Answer("stale")
  /\ UNCHANGED <<treeVars, ackVars, served, full, targetVars>> /\ Otherwise

\* get_review_patch: what the checkout held when it was reclaimed.
Cached == tree

\* The patch is the cached one, which may be laid out differently from the one
\* served of the live worktree and is then another to the digest.
AssembleArchived ==
  /\ merge = "clear" /\ from = "archived"
  /\ patch' = Cached
  /\ \/ Cached = digest /\ Goes("assembled")
     \/ Answer("stale")
  /\ UNCHANGED <<treeVars, ackVars, served, full, targetVars>> /\ Otherwise

\* A new file that the target has is compared with the agent's file once more.
AlreadyThere(p) == p \in Untracked /\ target[p] # 0 /\ target[p] = tree[p] /\ ~Gone
InTheWay(p) == p \in Untracked /\ target[p] # 0 /\ ~AlreadyThere(p)

\* git apply: a patch fits where the target has its base, or has its result.
Misfits == {p \in sel \ Untracked : target[p] \notin {0, patch[p]}}

Patched(paths) ==
  [p \in Paths |-> IF p \in sel /\ ~AlreadyThere(p)
                   THEN IF p \in paths THEN Conflict ELSE patch[p]
                   ELSE target[p]]

Applied == target' = Patched({})

Merging == merge = "assembled" /\ kind # "revert"

ApplyClean ==
  /\ Merging
  /\ ~\E p \in sel : InTheWay(p)
  /\ Misfits = {}
  /\ Applied
  /\ IF kind = "commit" THEN Goes("applied") ELSE Answer("applied")
  /\ UNCHANGED <<treeVars, ackVars, served, full, patch, head, edits>> /\ Otherwise

\* Mutant: conflicts are not told from a clean apply.
CommitsConflicts ==
  /\ Merging
  /\ ~\E p \in sel : InTheWay(p)
  /\ Misfits # {}
  /\ target' = Patched(Misfits) /\ Goes("applied")
  /\ UNCHANGED <<treeVars, ackVars, served, full, patch, head, edits>> /\ Otherwise

\* --3way writes markers where it can, or refuses the whole patch.
ApplyConflicted ==
  /\ Merging
  /\ ~\E p \in sel : InTheWay(p)
  /\ Misfits # {}
  /\ target' \in {Patched(Misfits), target}
  /\ Answer("conflicted")
  /\ UNCHANGED <<treeVars, ackVars, served, full, patch, head, edits>> /\ Otherwise

ApplyRefused ==
  /\ Merging
  /\ \E p \in sel : InTheWay(p)
  /\ AnswerOnly("conflicted")

\* git apply --reverse, in the agent's own worktree: all or nothing, and nothing
\* where the agent has written since.  What is reverted is a change like any
\* other to the watcher.
Reverted == [p \in Paths |-> IF p \in sel THEN 0 ELSE tree[p]]
Revert ==
  /\ merge = "assembled" /\ kind = "revert"
  /\ IF ~Gone /\ \A p \in sel : tree[p] \in {0, patch[p]}
       THEN /\ tree' = Reverted /\ Answer("applied")
            /\ unreported' = unreported \cup {p \in sel : tree[p] # 0}
       ELSE Answer("conflicted") /\ UNCHANGED <<tree, unreported>>
  /\ UNCHANGED <<writes, source, ackVars, served, full, patch, targetVars>> /\ Otherwise

Committed == [p \in Paths |-> IF p \in sel THEN target[p] ELSE head[p]]

\* finish_commit: a partial commit of the selected paths as the working tree has
\* them now.
FinishCommit ==
  /\ merge = "applied"
  /\ \/ Committed = head /\ AnswerOnly("noop")
     \/ CommitsFail /\ AnswerOnly("uncommitted")
     \/ /\ Committed # head
        /\ head' = Committed /\ commits' = commits + 1 /\ Goes("committed")
        /\ UNCHANGED <<treeVars, ackVars, served, request, reviewed, full, patch, rows, history,
                       target, edits>>

\* finalize_merge: the note and the row, for a merge that committed.  Mutant: for
\* any merge that was applied.
RecordAnyApply ==
  /\ merge \in {"applied", "committed"}
  /\ rows' = rows + 1 /\ Answer("committed")
  /\ UNCHANGED <<treeVars, ackVars, served, request, reviewed, full, patch, commits, history, targetVars>>

FinalizeMerge ==
  /\ merge = "committed"
  /\ rows' \in {rows, rows + 1} /\ Answer("committed")
  /\ UNCHANGED <<treeVars, ackVars, served, request, reviewed, full, patch, commits, history, targetVars>>

-----------------------------------------------------------------------------
(* The user, in the target.                                                *)

UserEdits(p) ==
  /\ edits < MaxEdits
  /\ edits' = edits + 1
  /\ target' = [target EXCEPT ![p] = MaxWrites + edits + 1]
  /\ foreign' = foreign \cup {p}
  /\ UNCHANGED <<treeVars, ackVars, served, merge, request, reviewed, full, patch, report, record,
                 moved, head>>

UserCommits ==
  /\ head # target
  /\ head' = target
  /\ UNCHANGED <<treeVars, ackVars, served, mergeVars, target, edits>>

-----------------------------------------------------------------------------
\* apply_selection, of a worktree or of its archive: the patch assembled, then applied.
ApplySelection ==
  \/ Assemble \/ AssembleArchived
  \/ ApplyClean \/ ApplyConflicted \/ ApplyRefused \/ Revert

\* commit_selection: the same, between the preflight and the commit.
CommitSelection == CommitPreflight \/ ApplySelection \/ FinishCommit

Merge == CommitGate \/ NothingThere \/ TargetRefused \/ CommitSelection \/ FinalizeMerge

Next ==
  \/ \E p \in Paths, version \in {0, writes + 1} : AgentWrites(p, version)
  \/ \E p \in Paths : UserEdits(p)
  \/ WatcherReports \/ WatcherClearsAck \/ Reclaim
  \/ FetchDiff \/ FetchArchived \/ ClearDirty \/ ClearDirtyDropsAck \/ MarkReviewed
  \/ \E paths \in SUBSET Paths : ClickMerge(paths) \/ ApplyGate(paths) \/ RevertGate(paths)
  \/ Merge \/ UserCommits

Spec == Init /\ [][Next]_vars

-----------------------------------------------------------------------------
(* Properties.                                                             *)

Contents == Nat \cup {Conflict}

Reports ==
  {"none", "dirty target", "stale", "empty", "no target", "applied", "conflicted", "noop",
   "committed", "uncommitted"}

\* Types; and a merge past its checks is of the very patch its digest names.
StateOK ==
  /\ tree \in [Paths -> Nat] /\ writes \in Nat /\ unreported \subseteq Paths
  /\ source \in {"live", "archived", "empty"} /\ from \in {"live", "archived", "empty"}
  /\ dirty \subseteq Paths /\ clearing \in BOOLEAN /\ ack \in BOOLEAN /\ ackedOver \subseteq Paths
  /\ marking \in {"idle", "cleared", "dropped"}
  /\ served \in [Paths -> Nat] \cup {NoPaths}
  /\ merge \in {"idle", "acked", "gated", "clear", "assembled", "applied", "committed"}
  /\ kind \in {"commit", "apply", "revert"} /\ sel \subseteq Paths /\ digest \in [Paths -> Nat]
  /\ reviewed \in BOOLEAN /\ full \in BOOLEAN /\ patch \in [Paths -> Nat] /\ merges \in Nat
  /\ rows \in Nat /\ commits \in Nat /\ moved \in BOOLEAN /\ foreign \subseteq Paths
  /\ target \in [Paths -> Contents] /\ head \in [Paths -> Contents] /\ edits \in Nat
  /\ merge \in {"assembled", "applied", "committed"} => patch = digest

TypeOK == StateOK /\ report \in Reports

\* An ack that no report is about to drop covers every path reported dirty.
AckCoversReports == ack /\ ~clearing => dirty \subseteq ackedOver

\* diff.rs:404-408: never a merge of content nobody reviewed.  Whatever a merge
\* writes into the target, and whatever a revert discards, is the file the
\* reviewer was served, at a selected path, the work read from the worktree or
\* from the archive.
ServedOnly ==
  [][merge = "assembled" /\ merge' # merge =>
       \A p \in Paths :
         /\ target'[p] # target[p] => p \in sel /\ target'[p] \in {digest[p], Conflict}
         /\ tree'[p] # tree[p] => p \in sel /\ tree[p] = digest[p] /\ tree'[p] = 0]_vars

\* What a merge commits under the agent's name is what its digest names, but for
\* a selected file the user edited since (finish_commit commits the working
\* tree): never a file with conflict markers, never the user's own earlier edit.
CommittedWasServed ==
  [][merge = "applied" /\ head' # head /\ merge' # merge =>
       \A p \in Paths : head'[p] # head[p] => p \in sel /\ (head'[p] = digest[p] \/ p \in foreign)]_vars

\* The ledger is of commits: a row for no merge but one that committed, and a row
\* that says "full" is of everything its digest names, unless the agent wrote
\* between the counting of its hunks and the check of its digest.
RecordIsTrue ==
  [][rows' # rows =>
       /\ rows' = rows + 1 /\ rows < commits
       /\ full = (sel = Changed(digest)) \/ moved]_vars

-----------------------------------------------------------------------------
(* The inductive invariant (Review_proofs).                                *)

\* What a commit will take: a selected file is what the last commit has, as the
\* preflight saw it, or the merge's, or the user edited it meanwhile.
CommitInv ==
  /\ merge \in {"acked", "gated", "applied", "committed"} => kind = "commit"
  /\ kind = "commit" /\ merge \in {"clear", "assembled", "applied"} =>
       \A p \in sel : target[p] = head[p] \/ target[p] = digest[p] \/ p \in foreign

\* What the ledger will say: a commit is ahead of its row, and the count of its
\* hunks is of the worktree it will be assembled from, then of what was assembled.
LedgerInv ==
  /\ rows <= commits /\ (merge = "committed" => rows < commits)
  /\ kind = "commit" /\ merge = "clear" => moved \/ (full <=> sel = Changed(tree))
  /\ kind = "commit" /\ merge \in {"assembled", "applied", "committed"} =>
       moved \/ (full <=> sel = Changed(digest))

GateInv == TypeOK /\ AckCoversReports /\ CommitInv /\ LedgerInv
=============================================================================
