---------------------------- MODULE Review_proofs ----------------------------
(***************************************************************************)
(* Proofs about ReviewGate and Worktrees: for any files, writes, edits and *)
(* merges, and any agents, threads, jobs and crashes, a merge is of what   *)
(* the reviewer was served, and what is served of a reclaimed agent is     *)
(* what it wrote.                                                          *)
(***************************************************************************)
EXTENDS ReviewGate, Worktrees, TLAPS

USE DEF treeVars, ackVars, request, record, history, mergeVars, targetVars
USE DEF session, disk, store, losses

-----------------------------------------------------------------------------
(* The review gate: types.                                                 *)

LEMMA GateTypeInit == Init => TypeOK
<1> SUFFICES ASSUME Init PROVE TypeOK
  OBVIOUS
<1>1. Base \in [Paths -> Nat] /\ Base \in [Paths -> Contents]
  BY DEF Base, Contents
<1> QED BY <1>1 DEF Init, TypeOK, StateOK, Reports

LEMMA GateStateStep ==
  ASSUME StateOK, [Next]_vars PROVE StateOK'
<1> USE DEF StateOK, Contents
<1>0. CASE UNCHANGED vars
  BY <1>0 DEF vars
<1>1. ASSUME NEW p \in Paths, NEW version \in {0, writes + 1}, AgentWrites(p, version) PROVE StateOK'
  BY <1>1 DEF AgentWrites
<1>2. ASSUME NEW p \in Paths, UserEdits(p) PROVE StateOK'
  <2>1. MaxWrites + edits + 1 \in Nat /\ edits + 1 \in Nat
    BY GateAssumption
  <2>2. target' \in [Paths -> Contents]
    BY <1>2, <2>1 DEF UserEdits, Contents
  <2> QED BY <1>2, <2>1, <2>2 DEF UserEdits
<1>3. CASE WatcherReports
  BY <1>3 DEF WatcherReports, Grew
<1>4. CASE WatcherClearsAck
  <2>1. ack' \in BOOLEAN /\ clearing' \in BOOLEAN
    BY <1>4 DEF WatcherClearsAck, DropAck
  <2> QED BY <1>4, <2>1 DEF WatcherClearsAck
<1>5. CASE Reclaim
  BY <1>5 DEF Reclaim
<1>6. CASE FetchDiff \/ FetchArchived
  BY <1>6 DEF FetchDiff, FetchArchived, Serve
<1>7. CASE ClearDirty \/ ClearDirtyDropsAck \/ MarkReviewed
  <2>1. CASE ClearDirty
    BY <2>1 DEF ClearDirty
  <2>2. CASE ClearDirtyDropsAck
    <3>1. ack' \in BOOLEAN /\ marking' \in {"idle", "cleared", "dropped"}
      BY <2>2 DEF ClearDirtyDropsAck, DropAck
    <3> QED BY <2>2, <3>1 DEF ClearDirtyDropsAck
  <2>3. CASE MarkReviewed
    BY <2>3 DEF MarkReviewed, Acknowledge
  <2> QED BY <1>7, <2>1, <2>2, <2>3
<1>8. ASSUME NEW paths \in SUBSET Paths, ClickMerge(paths) PROVE StateOK'
  <2>1. digest' \in [Paths -> Nat] /\ merges' \in Nat
    BY <1>8 DEF ClickMerge, MayAsk, Ask
  <2>2. merge' = "acked" /\ kind' = "commit" /\ ack' = TRUE /\ ackedOver' = dirty /\ moved' = FALSE
        /\ foreign' = {}
    BY <1>8 DEF ClickMerge, Ask, Acknowledge
  <2> QED BY <1>8, <2>1, <2>2 DEF ClickMerge, Ask
<1>9. ASSUME NEW paths \in SUBSET Paths, ApplyGate(paths) \/ RevertGate(paths) PROVE StateOK'
  <2>1. digest' \in [Paths -> Nat] /\ merges' \in Nat
    BY <1>9 DEF ApplyGate, RevertGate, MayAsk, Ask
  <2>2. merge' = "clear" /\ kind' \in {"apply", "revert"} /\ reviewed' \in BOOLEAN /\ moved' = FALSE
        /\ foreign' = {}
    BY <1>9 DEF ApplyGate, RevertGate, Ask
  <2> QED BY <1>9, <2>1, <2>2 DEF ApplyGate, RevertGate, Ask
<1>10. CASE Merge
  <2> USE DEF Answer, AnswerOnly, Goes, Otherwise
  <2>1. CASE CommitGate
    BY <2>1 DEF CommitGate, HasReviewAck
  <2>2. CASE NothingThere \/ TargetRefused \/ ApplyRefused
    <3>1. merge' = "idle" /\ UNCHANGED <<treeVars, ackVars, served, request, reviewed, full, patch, record,
                                        history, targetVars>>
      BY <2>2 DEF NothingThere, TargetRefused, ApplyRefused
    <3> QED BY <3>1
  <2>3. CASE CommitPreflight
    BY <2>3 DEF CommitPreflight, Counted
  <2>4. CASE Assemble
    BY <2>4 DEF Assemble
  <2>5. CASE AssembleArchived
    BY <2>5 DEF AssembleArchived, Cached
  <2>6. ASSUME NEW paths \in SUBSET sel PROVE Patched(paths) \in [Paths -> Contents]
    BY DEF Patched, Contents
  <2>7. CASE ApplyClean
    <3>1. target' \in [Paths -> Contents]
      BY <2>6, <2>7 DEF ApplyClean, Applied
    <3>2. merge' \in {"applied", "idle"} 
      BY <2>7 DEF ApplyClean
    <3>3. merge' = "applied" => patch = digest
      BY <2>7 DEF ApplyClean, Merging
    <3> QED BY <2>7, <3>1, <3>2, <3>3 DEF ApplyClean
  <2>8. CASE ApplyConflicted
    <3>1. target' \in [Paths -> Contents]
      BY <2>6, <2>8 DEF ApplyConflicted, Misfits
    <3> QED BY <2>8, <3>1 DEF ApplyConflicted
  <2>9. CASE Revert
    <3>1. Reverted \in [Paths -> Nat]
      BY DEF Reverted
    <3>2. tree' \in [Paths -> Nat] /\ unreported' \subseteq Paths
      BY <2>9, <3>1 DEF Revert
    <3>3. merge' = "idle" 
      BY <2>9 DEF Revert
    <3> QED BY <2>9, <3>2, <3>3 DEF Revert
  <2>10. CASE FinishCommit
    <3>1. Committed \in [Paths -> Contents]
      BY DEF Committed
    <3> QED BY <2>10, <3>1 DEF FinishCommit
  <2>11. CASE FinalizeMerge
    BY <2>11 DEF FinalizeMerge
  <2> QED BY <1>10, <2>1, <2>2, <2>3, <2>4, <2>5, <2>7, <2>8, <2>9, <2>10, <2>11 DEF Merge, CommitSelection, ApplySelection
<1>11. CASE UserCommits
  BY <1>11 DEF UserCommits
<1> QED BY <1>0, <1>1, <1>2, <1>3, <1>4, <1>5, <1>6, <1>7, <1>8, <1>9, <1>10, <1>11 DEF Next


LEMMA GateTypeStep ==
  ASSUME TypeOK, [Next]_vars PROVE TypeOK'
<1> USE DEF Reports
<1>1. ASSUME NEW paths \in SUBSET Paths, ClickMerge(paths) \/ ApplyGate(paths) \/ RevertGate(paths)
      PROVE report' \in Reports
  BY <1>1 DEF ClickMerge, ApplyGate, RevertGate, Ask
<1>2. ASSUME NEW p \in Paths, NEW version \in {0, writes + 1}, AgentWrites(p, version) \/ UserEdits(p)
      PROVE UNCHANGED report
  BY <1>2 DEF AgentWrites, UserEdits
<1>3. CASE WatcherReports \/ WatcherClearsAck \/ Reclaim \/ FetchDiff \/ FetchArchived
           \/ ClearDirty \/ ClearDirtyDropsAck \/ MarkReviewed \/ UserCommits \/ UNCHANGED vars
  <2>1. UNCHANGED report
    BY <1>3 DEF WatcherReports, WatcherClearsAck, Reclaim, FetchDiff, FetchArchived, Serve, ClearDirty,
                ClearDirtyDropsAck, MarkReviewed, UserCommits, vars
  <2> QED BY <2>1, GateStateStep DEF TypeOK
<1>4. ASSUME Merge PROVE report' \in Reports
  BY <1>4 DEF Merge, CommitSelection, ApplySelection, CommitGate, NothingThere, TargetRefused, CommitPreflight, Assemble, AssembleArchived,
              ApplyClean, ApplyConflicted, ApplyRefused, Revert, FinishCommit, FinalizeMerge,
              Answer, AnswerOnly, Goes, TypeOK
<1> QED BY <1>1, <1>2, <1>3, <1>4, GateStateStep DEF Next, TypeOK

-----------------------------------------------------------------------------
(* The review gate: the acknowledgement, the commit and the ledger.        *)

LEMMA AckStep ==
  ASSUME StateOK, AckCoversReports, [Next]_vars PROVE AckCoversReports'
<1> USE DEF AckCoversReports, StateOK
<1>1. CASE UNCHANGED <<dirty, clearing, ack, ackedOver>>
  BY <1>1
<1>2. CASE WatcherReports
  BY <1>2 DEF WatcherReports, Grew
<1>3. CASE WatcherClearsAck \/ ClearDirty \/ ClearDirtyDropsAck \/ MarkReviewed
  BY <1>3 DEF WatcherClearsAck, ClearDirty, ClearDirtyDropsAck, MarkReviewed, DropAck, Acknowledge
<1>4. ASSUME NEW paths \in SUBSET Paths, ClickMerge(paths) PROVE AckCoversReports'
  BY <1>4 DEF ClickMerge, Acknowledge
<1>5. ASSUME NEW p \in Paths, NEW version \in {0, writes + 1}, AgentWrites(p, version) \/ UserEdits(p)
      PROVE UNCHANGED <<dirty, clearing, ack, ackedOver>>
  BY <1>5 DEF AgentWrites, UserEdits
<1>6. ASSUME NEW paths \in SUBSET Paths, ApplyGate(paths) \/ RevertGate(paths)
      PROVE UNCHANGED <<dirty, clearing, ack, ackedOver>>
  BY <1>6 DEF ApplyGate, RevertGate
<1>7. CASE Reclaim \/ FetchDiff \/ FetchArchived \/ UserCommits \/ UNCHANGED vars
  BY <1>7 DEF Reclaim, FetchDiff, FetchArchived, Serve, UserCommits, vars
<1>8. CASE Merge
  BY <1>8 DEF Merge, CommitSelection, ApplySelection, CommitGate, NothingThere, TargetRefused, CommitPreflight, Assemble, AssembleArchived,
              ApplyClean, ApplyConflicted, ApplyRefused, Revert, FinishCommit, FinalizeMerge, AnswerOnly
<1> QED BY <1>1, <1>2, <1>3, <1>4, <1>5, <1>6, <1>7, <1>8 DEF Next

\* A merge's preflight finds the target clean at the files selected; from then on
\* only the user's edits, on record, and the apply itself touch them.
LEMMA CommitStep ==
  ASSUME StateOK, CommitInv, [Next]_vars PROVE CommitInv'
<1> USE DEF CommitInv, StateOK
<1>1. CASE UNCHANGED <<merge, kind, sel, target, head, digest, foreign>>
  BY <1>1
<1>2. ASSUME NEW p \in Paths, UserEdits(p) PROVE CommitInv'
  BY <1>2 DEF UserEdits
<1>3. CASE UserCommits
  BY <1>3 DEF UserCommits
<1>4. ASSUME NEW paths \in SUBSET Paths, ClickMerge(paths) \/ ApplyGate(paths) \/ RevertGate(paths)
      PROVE CommitInv'
  BY <1>4 DEF ClickMerge, ApplyGate, RevertGate, Ask
<1>5. ASSUME NEW p \in Paths, NEW version \in {0, writes + 1}, AgentWrites(p, version)
      PROVE UNCHANGED <<merge, kind, sel, target, head, digest, foreign>>
  BY <1>5 DEF AgentWrites
<1>6. CASE WatcherReports \/ WatcherClearsAck \/ Reclaim \/ FetchDiff \/ FetchArchived
           \/ ClearDirty \/ ClearDirtyDropsAck \/ MarkReviewed \/ UNCHANGED vars
  BY <1>6 DEF WatcherReports, WatcherClearsAck, Reclaim, FetchDiff, FetchArchived, Serve, ClearDirty,
              ClearDirtyDropsAck, MarkReviewed, vars
<1>7. CASE Merge
  <2> USE DEF Answer, AnswerOnly, Goes, Otherwise
  <2>1. CASE CommitGate \/ NothingThere \/ TargetRefused \/ ApplyRefused
    BY <2>1 DEF CommitGate, NothingThere, TargetRefused, ApplyRefused
  <2>2. CASE CommitPreflight
    BY <2>2 DEF CommitPreflight
  <2>3. CASE Assemble \/ AssembleArchived
    BY <2>3 DEF Assemble, AssembleArchived
  <2>4. CASE ApplyClean
    <3>1. merge' = "applied" => kind = "commit"
      BY <2>4 DEF ApplyClean
    <3>2. patch = digest
      BY <2>4 DEF ApplyClean, Merging
    <3>3. \A p \in sel : target'[p] \in {digest[p], target[p]}
      BY <2>4, <3>2 DEF ApplyClean, Applied, Patched
    <3> QED BY <2>4, <3>1, <3>3 DEF ApplyClean, Merging
  <2>5. CASE ApplyConflicted \/ Revert \/ FinalizeMerge
    BY <2>5 DEF ApplyConflicted, Revert, FinalizeMerge
  <2>6. CASE FinishCommit
    BY <2>6 DEF FinishCommit
  <2> QED BY <1>7, <2>1, <2>2, <2>3, <2>4, <2>5, <2>6 DEF Merge, CommitSelection, ApplySelection
<1> QED BY <1>1, <1>2, <1>3, <1>4, <1>5, <1>6, <1>7 DEF Next

LEMMA LedgerStep ==
  ASSUME StateOK, CommitInv, LedgerInv, [Next]_vars PROVE LedgerInv'
<1> USE DEF LedgerInv, StateOK
<1> DEFINE counted == <<merge, kind, sel, digest, full, moved, rows, commits>>
<1>1. CASE UNCHANGED <<counted, tree>>
  BY <1>1 DEF Changed
<1>2. ASSUME NEW p \in Paths, NEW version \in {0, writes + 1}, AgentWrites(p, version) PROVE LedgerInv'
  BY <1>2 DEF AgentWrites
<1>3. ASSUME NEW paths \in SUBSET Paths, ClickMerge(paths) \/ ApplyGate(paths) \/ RevertGate(paths)
      PROVE LedgerInv'
  BY <1>3 DEF ClickMerge, ApplyGate, RevertGate, Ask
<1>4. ASSUME NEW p \in Paths, UserEdits(p) PROVE UNCHANGED <<counted, tree>>
  BY <1>4 DEF UserEdits
<1>5. CASE WatcherReports \/ WatcherClearsAck \/ Reclaim \/ FetchDiff \/ FetchArchived
           \/ ClearDirty \/ ClearDirtyDropsAck \/ MarkReviewed \/ UserCommits \/ UNCHANGED vars
  BY <1>5 DEF WatcherReports, WatcherClearsAck, Reclaim, FetchDiff, FetchArchived, Serve, ClearDirty,
              ClearDirtyDropsAck, MarkReviewed, UserCommits, vars
<1>6. CASE Merge
  <2> USE DEF Answer, AnswerOnly, Goes, Otherwise
  <2>1. CASE CommitGate \/ NothingThere \/ TargetRefused \/ ApplyRefused
    BY <2>1 DEF CommitGate, NothingThere, TargetRefused, ApplyRefused
  <2>2. CASE CommitPreflight
    BY <2>2 DEF CommitPreflight, Counted, Changed
  <2>3. CASE Assemble \/ AssembleArchived
    <3>1. merge = "clear" /\ merge' \in {"assembled", "idle"} /\ (merge' = "assembled" => tree = digest)
      BY <2>3 DEF Assemble, AssembleArchived, Cached
    <3>2. UNCHANGED <<kind, sel, digest, full, moved, rows, commits>>
      BY <2>3 DEF Assemble, AssembleArchived
    <3> QED BY <3>1, <3>2
  <2>4. CASE ApplyClean \/ ApplyConflicted \/ Revert
    <3>1. merge = "assembled" /\ merge' \in {"applied", "idle"}
      BY <2>4 DEF ApplyClean, ApplyConflicted, Revert, Merging
    <3>2. UNCHANGED <<kind, sel, digest, full, moved, rows, commits>>
      BY <2>4 DEF ApplyClean, ApplyConflicted, Revert
    <3> QED BY <3>1, <3>2 DEF Changed
  <2>5. CASE FinishCommit
    BY <2>5 DEF FinishCommit, Changed
  <2>6. CASE FinalizeMerge
    BY <2>6 DEF FinalizeMerge
  <2> QED BY <1>6, <2>1, <2>2, <2>3, <2>4, <2>5, <2>6 DEF Merge, CommitSelection, ApplySelection
<1> QED BY <1>1, <1>2, <1>3, <1>4, <1>5, <1>6 DEF Next

\* The inductive invariant of the review gate.
THEOREM GateInvariant == Spec => []GateInv
<1>1. Init => GateInv
  <2>1. Init => AckCoversReports /\ CommitInv /\ LedgerInv
    BY DEF Init, AckCoversReports, CommitInv, LedgerInv
  <2> QED BY <2>1, GateTypeInit DEF GateInv
<1>2. GateInv /\ [Next]_vars => GateInv'
  BY GateTypeStep, AckStep, CommitStep, LedgerStep DEF GateInv, TypeOK
<1> QED BY <1>1, <1>2, PTL DEF Spec

\* An acknowledgement that no report is about to drop covers every path reported
\* dirty, however marking and reporting interleave (session.rs note_fs_changes,
\* clear_fs_dirty, manager.rs mark_reviewed).
THEOREM AckSafety == Spec => []AckCoversReports
BY GateInvariant, PTL DEF GateInv, TypeOK

\* What a merge writes into the target and what a revert discards is the file the
\* reviewer was served (diff.rs apply_selection, assemble_and_apply).
THEOREM ServedSafety == Spec => ServedOnly
<1> DEFINE Served ==
      merge = "assembled" /\ merge' # merge =>
       \A p \in Paths :
         /\ target'[p] # target[p] => p \in sel /\ target'[p] \in {digest[p], Conflict}
         /\ tree'[p] # tree[p] => p \in sel /\ tree[p] = digest[p] /\ tree'[p] = 0
<1>1. ASSUME StateOK, [Next]_vars PROVE Served
  <2> SUFFICES ASSUME merge = "assembled", merge' # merge PROVE Served
    OBVIOUS
  <2> USE DEF StateOK
  <2>1. patch = digest
    BY <1>1
  <2>2. ApplyClean \/ ApplyConflicted \/ ApplyRefused \/ Revert
    <3>1. ~ UNCHANGED vars
      BY DEF vars
    <3>2. ASSUME NEW p \in Paths, NEW version \in {0, writes + 1} PROVE ~AgentWrites(p, version) /\ ~UserEdits(p)
      BY DEF AgentWrites, UserEdits
    <3>3. ~(WatcherReports \/ WatcherClearsAck \/ Reclaim \/ FetchDiff \/ FetchArchived
            \/ ClearDirty \/ ClearDirtyDropsAck \/ MarkReviewed \/ UserCommits)
      BY DEF WatcherReports, WatcherClearsAck, Reclaim, FetchDiff, FetchArchived, Serve, ClearDirty,
             ClearDirtyDropsAck, MarkReviewed, UserCommits
    <3>4. ASSUME NEW paths \in SUBSET Paths PROVE ~ClickMerge(paths) /\ ~ApplyGate(paths) /\ ~RevertGate(paths)
      BY DEF ClickMerge, ApplyGate, RevertGate, MayAsk
    <3>5. Merge
      BY <1>1, <3>1, <3>2, <3>3, <3>4 DEF Next
    <3> QED BY <3>5 DEF Merge, CommitSelection, ApplySelection, CommitGate, NothingThere, TargetRefused, CommitPreflight, Assemble,
                        AssembleArchived, FinishCommit, FinalizeMerge
  <2>3. CASE ApplyClean
    <3>1. \A p \in Paths : target'[p] # target[p] => p \in sel /\ target'[p] = patch[p]
      BY <2>3 DEF ApplyClean, Applied, Patched
    <3> QED BY <2>1, <2>3, <3>1 DEF ApplyClean
  <2>4. CASE ApplyConflicted
    <3>1. \A p \in Paths : target'[p] # target[p] => p \in sel /\ target'[p] \in {patch[p], Conflict}
      BY <2>4 DEF ApplyConflicted, Patched
    <3> QED BY <2>1, <2>4, <3>1 DEF ApplyConflicted
  <2>5. CASE ApplyRefused
    BY <2>5 DEF ApplyRefused, AnswerOnly
  <2>6. CASE Revert
    BY <2>1, <2>6 DEF Revert, Reverted
  <2> QED BY <2>2, <2>3, <2>4, <2>5, <2>6
<1> QED BY <1>1, GateInvariant, PTL DEF GateInv, TypeOK, Spec, ServedOnly

\* What a merge commits under the agent's name is what its digest names, but for
\* what the user edited meanwhile (diff.rs commit_preflight, finish_commit).
THEOREM CommittedSafety == Spec => CommittedWasServed
<1> DEFINE Taken ==
      merge = "applied" /\ head' # head /\ merge' # merge =>
       \A p \in Paths : head'[p] # head[p] => p \in sel /\ (head'[p] = digest[p] \/ p \in foreign)
<1>1. ASSUME StateOK, CommitInv, [Next]_vars PROVE Taken
  <2> SUFFICES ASSUME merge = "applied", head' # head, merge' # merge PROVE Taken
    OBVIOUS
  <2>1. FinishCommit
    <3>1. ASSUME NEW p \in Paths, NEW version \in {0, writes + 1} PROVE ~AgentWrites(p, version) /\ ~UserEdits(p)
      BY DEF AgentWrites, UserEdits
    <3>2. ASSUME NEW paths \in SUBSET Paths PROVE ~ClickMerge(paths) /\ ~ApplyGate(paths) /\ ~RevertGate(paths)
      BY DEF ClickMerge, ApplyGate, RevertGate
    <3>3. ~(UNCHANGED vars \/ WatcherReports \/ WatcherClearsAck \/ Reclaim \/ FetchDiff \/ FetchArchived
            \/ ClearDirty \/ ClearDirtyDropsAck \/ MarkReviewed \/ UserCommits)
      BY DEF vars, WatcherReports, WatcherClearsAck, Reclaim, FetchDiff, FetchArchived, Serve, ClearDirty,
             ClearDirtyDropsAck, MarkReviewed, UserCommits
    <3>4. Merge
      BY <1>1, <3>1, <3>2, <3>3 DEF Next
    <3> QED BY <3>4 DEF Merge, CommitSelection, ApplySelection, CommitGate, NothingThere, TargetRefused, CommitPreflight, Assemble,
                        AssembleArchived, ApplyClean, ApplyConflicted, ApplyRefused, Revert, Merging, FinalizeMerge
  <2>2. head' = Committed
    BY <2>1 DEF FinishCommit, AnswerOnly
  <2>3. \A p \in Paths : head'[p] # head[p] => p \in sel /\ head'[p] = target[p]
    BY <1>1, <2>2 DEF Committed, StateOK
  <2>4. \A p \in sel : target[p] = head[p] \/ target[p] = digest[p] \/ p \in foreign
    BY <1>1, <2>1 DEF CommitInv, FinishCommit
  <2> QED BY <2>3, <2>4
<1> QED BY <1>1, GateInvariant, PTL DEF GateInv, TypeOK, Spec, CommittedWasServed

\* The ledger of merges is of commits, and a row that says full is of everything its
\* digest names unless the agent wrote while the merge was counted (manager.rs
\* finalize_merge, diff.rs count_selected).
THEOREM LedgerSafety == Spec => RecordIsTrue
<1> DEFINE Entry ==
      rows' # rows =>
       /\ rows' = rows + 1 /\ rows < commits
       /\ full = (sel = Changed(digest)) \/ moved
<1>1. ASSUME StateOK, CommitInv, LedgerInv, [Next]_vars PROVE Entry
  <2> SUFFICES ASSUME rows' # rows PROVE Entry
    OBVIOUS
  <2>1. FinalizeMerge
    <3>1. ASSUME NEW p \in Paths, NEW version \in {0, writes + 1} PROVE ~AgentWrites(p, version) /\ ~UserEdits(p)
      BY DEF AgentWrites, UserEdits
    <3>2. ASSUME NEW paths \in SUBSET Paths PROVE ~ClickMerge(paths) /\ ~ApplyGate(paths) /\ ~RevertGate(paths)
      BY DEF ClickMerge, ApplyGate, RevertGate, Ask
    <3>3. ~(UNCHANGED vars \/ WatcherReports \/ WatcherClearsAck \/ Reclaim \/ FetchDiff \/ FetchArchived
            \/ ClearDirty \/ ClearDirtyDropsAck \/ MarkReviewed \/ UserCommits)
      BY DEF vars, WatcherReports, WatcherClearsAck, Reclaim, FetchDiff, FetchArchived, Serve, ClearDirty,
             ClearDirtyDropsAck, MarkReviewed, UserCommits
    <3>4. Merge
      BY <1>1, <3>1, <3>2, <3>3 DEF Next
    <3> QED BY <3>4 DEF Merge, CommitSelection, ApplySelection, CommitGate, NothingThere, TargetRefused, CommitPreflight, Assemble, AssembleArchived,
                        ApplyClean, ApplyConflicted, ApplyRefused, Revert, FinishCommit, AnswerOnly, Otherwise
  <2>2. merge = "committed" /\ rows' = rows + 1
    BY <2>1 DEF FinalizeMerge
  <2>3. kind = "commit" /\ rows < commits
    BY <1>1, <2>2 DEF CommitInv, LedgerInv
  <2>4. moved \/ (full <=> sel = Changed(digest))
    BY <1>1, <2>2, <2>3 DEF LedgerInv
  <2>5. full \in BOOLEAN
    BY <1>1 DEF StateOK
  <2>6. full = (sel = Changed(digest)) \/ moved
    BY <2>4, <2>5
  <2> QED BY <2>2, <2>3, <2>6
<1> QED BY <1>1, GateInvariant, PTL DEF GateInv, TypeOK, Spec, RecordIsTrue

-----------------------------------------------------------------------------
(* The worktrees: types.                                                   *)

LEMMA JobStep ==
  ASSUME job \in [Threads -> Job], NEW t \in Threads, NEW j \in Job, Busy(t, j)
  PROVE  job' \in [Threads -> Job]
BY DEF Busy

LEMMA PlaceStep ==
  ASSUME job \in [Threads -> Job], NEW t \in Threads, NEW place \in Places, Step(t, place)
  PROVE  job' \in [Threads -> Job]
<1>1. [job[t] EXCEPT !.pc = place] \in Job
  BY DEF Job
<1> QED BY <1>1, JobStep DEF Step

LEMMA IdleJob == Idle \in Job
BY DEF Idle, Job, Places, Kinds

LEMMA WorktreesTypeInit == WorktreesInit => WorktreesTypeOK
BY IdleJob, WorktreeAssumption DEF WorktreesInit, WorktreesTypeOK

\* The actions of agents and time.
LEMMA AgentTypeStep ==
  ASSUME WorktreesTypeOK, NEW a \in Agents,
         Provision(a) \/ Spawn(a) \/ Write(a) \/ Exit(a) \/ Age(a)
  PROVE  WorktreesTypeOK'
<1> USE DEF WorktreesTypeOK
<1>1. CASE Provision(a)
  <2>1. order' \in Seq(Agents)
    BY <1>1 DEF Provision
  <2>2. row' \in [Agents -> {"none", "open", "reclaimed", "deleted"}]
    BY <1>1 DEF Provision, Upsert
  <2>3. phase' \in [Agents -> {"none", "provisioned", "live", "killed", "dead"}]
    BY <1>1 DEF Provision
  <2> QED BY <1>1, <2>1, <2>2, <2>3 DEF Provision, NewCheckout, Job
<1>2. CASE Spawn(a)
  BY <1>2 DEF Spawn, Job
<1>3. CASE Write(a)
  <2>1. work' \in [Agents -> 0 .. MaxWork]
    BY <1>3, WorktreeAssumption DEF Write
  <2>2. unsaved' \subseteq Agents
    BY <1>3 DEF Write
  <2> QED BY <1>3, <2>1, <2>2 DEF Write, Job
<1>4. CASE Exit(a)
  BY <1>4 DEF Exit, Job
<1>5. CASE Age(a)
  BY <1>5 DEF Age, Job
<1> QED BY <1>1, <1>2, <1>3, <1>4, <1>5

\* The actions that begin, pick and end a job.
LEMMA BeginTypeStep ==
  ASSUME WorktreesTypeOK, NEW t \in Threads,
         \/ Sweep(t) \/ Collapse(t) \/ Finish(t)
         \/ \E a \in Agents : ReclaimAgent(t, a) \/ Pick(t, a)
         \/ \E what \in {"soft", "hard"} : Delete(t, what)
  PROVE  WorktreesTypeOK'
<1> USE IdleJob DEF WorktreesTypeOK
<1>1. ASSUME job' \in [Threads -> Job], jobs' \in 0 .. MaxJobs,
             collapse' \in {"due", "running", "done"},
             UNCHANGED <<phase, age, order, work, disk, store, gced, crashes, losses>>
      PROVE  WorktreesTypeOK'
  BY <1>1, IdleJob DEF Job
<1>2. ASSUME NEW j \in Job, Begin(t, j) PROVE job' \in [Threads -> Job] /\ jobs' \in 0 .. MaxJobs
  <2>1. job' \in [Threads -> Job]
    BY <1>2, JobStep DEF Begin
  <2>2. jobs' \in 0 .. MaxJobs
    BY <1>2, WorktreeAssumption DEF Begin
  <2> QED BY <2>1, <2>2
<1>3. CASE Sweep(t)
  <2>1. [Idle EXCEPT !.pc = "next", !.kind = "sweep", !.todo = Victims] \in Job
    BY DEF Idle, Job, Places, Kinds, Victims
  <2> QED BY <1>3, <2>1, <1>2, <1>1 DEF Sweep
<1>4. CASE Collapse(t)
  <2>1. [Idle EXCEPT !.pc = "next", !.kind = "collapse", !.todo = Reclaimable] \in Job
    BY DEF Idle, Job, Places, Kinds, Reclaimable
  <2> QED BY <1>4, <2>1, <1>2, <1>1 DEF Collapse
<1>5. CASE Finish(t)
  <2>1. job' \in [Threads -> Job]
    BY <1>5, JobStep DEF Finish
  <2> QED BY <1>5, <2>1, <1>1 DEF Finish
<1>6. ASSUME NEW a \in Agents, ReclaimAgent(t, a) PROVE WorktreesTypeOK'
  <2>1. [Idle EXCEPT !.pc = "look", !.kind = "reclaim", !.agent = a] \in Job
    BY DEF Idle, Job, Places, Kinds
  <2> QED BY <1>6, <2>1, <1>2, <1>1 DEF ReclaimAgent
<1>7. ASSUME NEW a \in Agents, Pick(t, a) PROVE WorktreesTypeOK'
  <2>1. PICK place \in {"next", "look", "destroy", "forget"} :
          Busy(t, [job[t] EXCEPT !.todo = job[t].todo \ {a}, !.agent = a, !.pc = place])
    BY <1>7 DEF Pick
  <2>2. job[t] \in Job /\ place \in Places
    BY DEF Places
  <2>3. [job[t] EXCEPT !.todo = job[t].todo \ {a}, !.agent = a, !.pc = place] \in Job
    BY <2>2 DEF Job
  <2>4. job' \in [Threads -> Job]
    BY <2>1, <2>3, JobStep
  <2> QED BY <1>7, <2>4, <1>1 DEF Pick
<1>8. ASSUME NEW what \in {"soft", "hard"}, Delete(t, what) PROVE WorktreesTypeOK'
  <2>1. PICK drop \in SUBSET Agents, keep \in SUBSET Agents :
          Begin(t, [Idle EXCEPT !.pc = "next", !.kind = what, !.todo = Recorded, !.drop = drop, !.keep = keep])
    BY <1>8 DEF Delete, Recorded
  <2>2. [Idle EXCEPT !.pc = "next", !.kind = what, !.todo = Recorded, !.drop = drop, !.keep = keep] \in Job
    BY DEF Idle, Job, Places, Kinds, Recorded
  <2>3. job' \in [Threads -> Job] /\ jobs' \in 0 .. MaxJobs
    BY <2>1, <2>2, <1>2
  <2>4. phase' \in [Agents -> {"none", "provisioned", "live", "killed", "dead"}]
    BY <1>8 DEF Delete
  <2> QED BY <1>8, <2>3, <2>4 DEF Delete
<1> QED BY <1>3, <1>4, <1>5, <1>6, <1>7, <1>8

\* The steps of an archive, of a destruction, and a crash.
LEMMA WorktreesTypeStep ==
  ASSUME WorktreesTypeOK, ThreadInv, [WorktreesNext]_worktreeVars PROVE WorktreesTypeOK'
<1> USE DEF WorktreesTypeOK
<1>1. ASSUME NEW t \in Threads, NEW place \in Places, Step(t, place),
             checkout' \in [Agents -> {"absent", "whole", "part"}],
             ref' \in [Agents -> 1 .. MaxWork \cup {NoWork, Torn}],
             cached' \in [Agents -> 1 .. MaxWork \cup {NoWork, Torn}],
             row' \in [Agents -> {"none", "open", "reclaimed", "deleted"}],
             archived' \in [Agents -> BOOLEAN], gced' \subseteq Agents, destroyed' \subseteq Agents,
             UNCHANGED <<session, collapse, jobs, crashes, torn, unsaved>>
      PROVE  WorktreesTypeOK'
  <2>1. job' \in [Threads -> Job]
    BY <1>1, PlaceStep
  <2> QED BY <1>1, <2>1
<1>2. ASSUME NEW t \in Threads
      PROVE Done(t) \in Places /\ (job[t].pc \in {"read", "record", "destroy"} => job[t].agent \in Agents)
  BY DEF Done, Places, ThreadInv, InHand, Job
<1>3. ASSUME NEW t \in Threads, Archive(t) PROVE WorktreesTypeOK'
  <2>1. CASE Look(t)
    <3>1. PICK place \in {"record", "read"} : Step(t, place)
      BY <2>1 DEF Look
    <3> QED BY <2>1, <3>1, <1>1 DEF Look, Places
  <2>2. CASE Read(t)
    <3> DEFINE a == job[t].agent
    <3>0. a \in Agents /\ Content(a) \in 0 .. MaxWork \cup {Torn}
      BY <2>2, <1>2 DEF Content, Read, At
    <3>1. PICK place \in {"mark", "ref"}, snap \in 1 .. MaxWork \cup {NoWork, Torn} :
            Busy(t, [job[t] EXCEPT !.pc = place, !.snap = snap])
      <4>1. CASE Content(a) = 0
        BY <2>2, <4>1 DEF Read
      <4>2. CASE Content(a) # 0
        <5>1. Content(a) \in 1 .. MaxWork \cup {NoWork, Torn}
          BY <3>0, <4>2, WorktreeAssumption
        <5> QED BY <2>2, <4>2, <5>1 DEF Read
      <4> QED BY <4>1, <4>2
    <3> HIDE DEF a
    <3>5. job[t] \in Job /\ place \in Places
      BY DEF Places
    <3>2. [job[t] EXCEPT !.pc = place, !.snap = snap] \in Job
      BY <3>5 DEF Job
    <3>3. job' \in [Threads -> Job]
      BY <3>1, <3>2, JobStep
    <3>4. torn' \subseteq Agents
      BY <2>2, <3>0 DEF Read, a
    <3> QED BY <2>2, <3>3, <3>4 DEF Read
  <2>3. CASE ReadFails(t)
    BY <2>3, <1>1, <1>2 DEF ReadFails
  <2>4. CASE UpdateRef(t)
    BY <2>4, <1>1 DEF UpdateRef, Places, Job
  <2>5. CASE CachePatch(t)
    BY <2>5, <1>1 DEF CachePatch, Places, Job
  <2>6. CASE MarkArchived(t)
    <3>1. archived' \in [Agents -> BOOLEAN]
      BY <2>6 DEF MarkArchived
    <3> QED BY <2>6, <3>1, <1>1 DEF MarkArchived, Places
  <2>7. CASE StartRemoval(t)
    BY <2>7, <1>1 DEF StartRemoval, Places
  <2>8. CASE EndRemoval(t)
    BY <2>8, <1>1 DEF EndRemoval, Places
  <2>9. CASE MarkReclaimed(t)
    BY <2>9, <1>1, <1>2 DEF MarkReclaimed, At
  <2> QED BY <1>3, <2>1, <2>2, <2>3, <2>4, <2>5, <2>6, <2>7, <2>8, <2>9 DEF Archive
<1>4. ASSUME NEW t \in Threads, Deletion(t) PROVE WorktreesTypeOK'
  <2>1. CASE StartDestroy(t)
    BY <2>1, <1>1, <1>2 DEF StartDestroy, Places, At
  <2>2. CASE EndDestroy(t)
    BY <2>2, <1>1 DEF EndDestroy, Places
  <2>3. CASE DropRef(t)
    BY <2>3, <1>1 DEF DropRef, Places
  <2>4. CASE Forget(t)
    BY <2>4, <1>1 DEF Forget, Places
  <2> QED BY <1>4, <2>1, <2>2, <2>3, <2>4 DEF Deletion
<1>5. CASE Crash
  <2>1. job' \in [Threads -> Job]
    BY <1>5, IdleJob DEF Crash
  <2>2. checkout' \in [Agents -> {"absent", "whole", "part"}]
    BY <1>5 DEF Crash
  <2>3. phase' \in [Agents -> {"none", "provisioned", "live", "killed", "dead"}]
    BY <1>5 DEF Crash
  <2>4. crashes' \in 0 .. MaxCrashes /\ collapse' \in {"due", "running", "done"}
    BY <1>5, WorktreeAssumption DEF Crash
  <2> QED BY <1>5, <2>1, <2>2, <2>3, <2>4 DEF Crash
<1>6. CASE UNCHANGED worktreeVars
  BY <1>6 DEF worktreeVars, Job
<1> QED BY <1>3, <1>4, <1>5, <1>6, AgentTypeStep, BeginTypeStep DEF WorktreesNext

-----------------------------------------------------------------------------
(* The worktrees: what threads work on, and what rows say.                 *)

\* What an agent was it stays: provisioned, dead, its checkout gone once it is.
LEMMA PastStays ==
  ASSUME WorktreesTypeOK, [WorktreesNext]_worktreeVars, NEW a \in Agents
  PROVE  /\ phase[a] # "none" => phase'[a] # "none"
         /\ phase[a] = "dead" => phase'[a] = "dead"
         /\ phase[a] # "none" /\ checkout[a] = "absent" => checkout'[a] = "absent"
         /\ destroyed \subseteq destroyed'
<1> USE DEF WorktreesTypeOK
<1> DEFINE Stays ==
           /\ phase[a] # "none" => phase'[a] # "none"
           /\ phase[a] = "dead" => phase'[a] = "dead"
           /\ phase[a] # "none" /\ checkout[a] = "absent" => checkout'[a] = "absent"
           /\ destroyed \subseteq destroyed'
<1>1. CASE UNCHANGED <<phase, checkout, destroyed>>
  BY <1>1
<1>2. ASSUME NEW b \in Agents, Provision(b) PROVE Stays
  BY <1>2 DEF Provision, Free, NewCheckout
<1>3. ASSUME NEW b \in Agents, Spawn(b) \/ Write(b) \/ Exit(b) \/ Age(b) PROVE Stays
  BY <1>3 DEF Spawn, Write, Exit, Age, HasSession
<1>4. ASSUME NEW t \in Threads,
             \/ Sweep(t) \/ Collapse(t) \/ Finish(t)
             \/ \E b \in Agents : ReclaimAgent(t, b) \/ Pick(t, b)
      PROVE  UNCHANGED <<phase, checkout, destroyed>>
  BY <1>4 DEF Sweep, Collapse, Finish, ReclaimAgent, Pick
<1>5. ASSUME NEW t \in Threads, NEW what \in {"soft", "hard"}, Delete(t, what) PROVE Stays
  BY <1>5 DEF Delete
<1>6. ASSUME NEW t \in Threads, Archive(t) PROVE Stays
  BY <1>6 DEF Archive, Look, Read, ReadFails, UpdateRef, CachePatch, MarkArchived, StartRemoval, EndRemoval,
              MarkReclaimed
<1>7. ASSUME NEW t \in Threads, Deletion(t) PROVE Stays
  BY <1>7 DEF Deletion, StartDestroy, EndDestroy, DropRef, Forget
<1>8. CASE Crash
  BY <1>8 DEF Crash, HasSession
<1>9. CASE UNCHANGED worktreeVars
  BY <1>9 DEF worktreeVars
<1> QED BY <1>1, <1>2, <1>3, <1>4, <1>5, <1>6, <1>7, <1>8, <1>9 DEF WorktreesNext

LEMMA Untouched ==
  ASSUME WorktreesTypeOK, [WorktreesNext]_worktreeVars, NEW u \in Threads, InHand(u), job'[u] = job[u]
  PROVE  InHand(u)'
<1>1. job[u].agent \in Agents \cup {Nobody} /\ job[u].todo \subseteq Agents
  BY DEF WorktreesTypeOK, Job
<1>2. Work(u)' = Work(u) /\ Work(u) \subseteq Agents
  BY <1>1 DEF Work
<1>3. job[u].pc \notin {"idle", "next"} => job[u].agent \in Work(u)
  BY DEF InHand, Work
<1>4. \A a \in Work(u) : /\ phase'[a] # "none"
                         /\ phase[a] = "dead" => phase'[a] = "dead"
                         /\ checkout[a] = "absent" => checkout'[a] = "absent"
                         /\ destroyed \subseteq destroyed'
  BY <1>2, PastStays DEF InHand
<1> QED BY <1>2, <1>3, <1>4 DEF InHand

\* A job that is idle, or one that begins with agents that were provisioned.
LEMMA BeginStep ==
  ASSUME WorktreesTypeOK, ThreadInv, AgentInv, [WorktreesNext]_worktreeVars, NEW t \in Threads,
         \/ Sweep(t) \/ Collapse(t) \/ Finish(t)
         \/ \E a \in Agents : ReclaimAgent(t, a)
         \/ \E what \in {"soft", "hard"} : Delete(t, what)
  PROVE  InHand(t)'
<1>1. PICK j \in Job :
        /\ job' = [job EXCEPT ![t] = j]
        /\ j.pc \in {"idle", "next", "look"} /\ (j.pc = "look" => j.agent # Nobody)
        /\ \A a \in j.todo \cup ({j.agent} \ {Nobody}) :
             a \in Agents /\ phase[a] # "none" /\ (j.kind = "sweep" => phase[a] = "dead")
  <2> USE DEF Begin, Busy
  <2>1. CASE Sweep(t)
    <3> DEFINE j == [Idle EXCEPT !.pc = "next", !.kind = "sweep", !.todo = Victims]
    <3>1. j \in Job /\ j.pc = "next" /\ j.todo = Victims /\ j.agent = Nobody
      BY DEF Idle, Job, Places, Kinds, Victims
    <3>2. \A a \in Victims : a \in Agents /\ phase[a] = "dead"
      BY DEF Victims, AgentInv
    <3>3. job' = [job EXCEPT ![t] = j]
      BY <2>1 DEF Sweep
    <3> QED BY <3>1, <3>2, <3>3
  <2>2. CASE Collapse(t)
    <3> DEFINE j == [Idle EXCEPT !.pc = "next", !.kind = "collapse", !.todo = Reclaimable]
    <3>1. j \in Job /\ j.pc = "next" /\ j.todo = Reclaimable /\ j.agent = Nobody /\ j.kind = "collapse"
      BY DEF Idle, Job, Places, Kinds, Reclaimable
    <3>2. \A a \in Reclaimable : a \in Agents /\ phase[a] # "none"
      BY DEF Reclaimable, AgentInv
    <3>3. job' = [job EXCEPT ![t] = j]
      BY <2>2 DEF Collapse
    <3> QED BY <3>1, <3>2, <3>3
  <2>3. CASE Finish(t)
    BY <2>3, IdleJob DEF Finish, Idle
  <2>4. CASE \E a \in Agents : ReclaimAgent(t, a)
    <3>1. PICK a \in Agents : ReclaimAgent(t, a)
      BY <2>4
    <3> DEFINE j == [Idle EXCEPT !.pc = "look", !.kind = "reclaim", !.agent = a]
    <3>2. j \in Job /\ j.pc = "look" /\ j.todo = {} /\ j.agent = a /\ j.kind = "reclaim" /\ a # Nobody
      BY WorktreeAssumption DEF Idle, Job, Places, Kinds
    <3>3. phase[a] # "none"
      BY <3>1 DEF ReclaimAgent, Reclaimable, AgentInv
    <3>4. job' = [job EXCEPT ![t] = j]
      BY <3>1 DEF ReclaimAgent
    <3> QED BY <3>2, <3>3, <3>4
  <2>5. CASE \E what \in {"soft", "hard"} : Delete(t, what)
    <3>1. PICK what \in {"soft", "hard"} : Delete(t, what)
      BY <2>5
    <3>2. PICK drop \in SUBSET Agents, keep \in SUBSET Agents :
            job' = [job EXCEPT ![t] = [Idle EXCEPT !.pc = "next", !.kind = what, !.todo = Recorded,
                                                   !.drop = drop, !.keep = keep]]
      BY <3>1 DEF Delete, Recorded
    <3> DEFINE j == [Idle EXCEPT !.pc = "next", !.kind = what, !.todo = Recorded, !.drop = drop, !.keep = keep]
    <3>3. j \in Job /\ j.pc = "next" /\ j.todo = Recorded /\ j.agent = Nobody /\ j.kind # "sweep"
      BY DEF Idle, Job, Places, Kinds, Recorded
    <3>4. \A a \in Recorded : a \in Agents /\ phase[a] # "none"
      BY DEF Recorded, AgentInv
    <3> QED BY <3>2, <3>3, <3>4
  <2> QED BY <2>1, <2>2, <2>3, <2>4, <2>5
<1>2. job'[t] = j
  BY <1>1 DEF WorktreesTypeOK
<1>3. \A a \in Work(t)' : phase'[a] # "none" /\ (j.kind = "sweep" => phase'[a] = "dead")
  BY <1>1, <1>2, PastStays DEF Work
<1> QED BY <1>1, <1>2, <1>3 DEF InHand

\* The steps of a job under way.
LEMMA WorkStep ==
  ASSUME WorktreesTypeOK, ThreadInv, AgentInv, [WorktreesNext]_worktreeVars, NEW t \in Threads,
         Archive(t) \/ Deletion(t) \/ \E a \in Agents : Pick(t, a)
  PROVE  InHand(t)'
<1> DEFINE a == job[t].agent
<1>1. job[t] \in Job /\ job \in [Threads -> Job]
  BY DEF WorktreesTypeOK
<1>2. InHand(t) /\ Work(t) \subseteq Agents
  BY <1>1 DEF ThreadInv, Work, Job
<1>3. ASSUME NEW place \in Places, job'[t].pc = place, job'[t].agent = a, job'[t].todo = job[t].todo,
             job'[t].kind = job[t].kind, job[t].pc \notin {"idle", "next"},
             place = "record" => checkout'[a] = "absent",
             place \in {"destroying", "drop"} => a \in destroyed'
      PROVE  InHand(t)'
  <2>1. Work(t)' = Work(t)
    BY <1>3 DEF Work
  <2>2. \A b \in Work(t) : phase'[b] # "none" /\ (phase[b] = "dead" => phase'[b] = "dead")
    BY <1>2, PastStays DEF InHand
  <2> QED BY <1>2, <1>3, <2>1, <2>2 DEF InHand
<1>4. ASSUME NEW place \in Places, Step(t, place)
      PROVE  job'[t].pc = place /\ job'[t].agent = a /\ job'[t].todo = job[t].todo /\ job'[t].kind = job[t].kind
  BY <1>1, <1>4 DEF Step, Busy, Job
<1>5. Done(t) \in Places \ {"record", "destroying", "drop"}
  BY DEF Done, Places
<1>6. job[t].pc \notin {"idle", "next"} => a \in Agents
  BY <1>1, <1>2 DEF InHand, Job
<1> HIDE DEF a
<1>7. CASE Archive(t)
  <2> USE DEF At
  <2>1. CASE Look(t)
    <3>1. CASE checkout[a] = "absent"
      BY <2>1, <3>1, <1>3, <1>4 DEF Look, Places, a
    <3>2. CASE checkout[a] # "absent"
      BY <2>1, <3>2, <1>3, <1>4 DEF Look, Places, a
    <3> QED BY <3>1, <3>2
  <2>2. CASE Read(t)
    <3>1. /\ job'[t].pc \in {"mark", "ref"} /\ job'[t].agent = a /\ job'[t].todo = job[t].todo
          /\ job'[t].kind = job[t].kind
      BY <2>2, <1>1 DEF Read, Busy, Job, a
    <3> QED BY <2>2, <3>1, <1>3 DEF Read, Places
  <2>3. CASE ReadFails(t)
    BY <2>3, <1>3, <1>4, <1>5 DEF ReadFails
  <2>4. CASE UpdateRef(t) \/ CachePatch(t) \/ MarkArchived(t) \/ StartRemoval(t)
    BY <2>4, <1>3, <1>4 DEF UpdateRef, CachePatch, MarkArchived, StartRemoval, Places
  <2>5. CASE EndRemoval(t)
    <3>1. checkout'[a] = "absent"
      BY <2>5, <1>6 DEF EndRemoval, WorktreesTypeOK, a
    <3> QED BY <2>5, <3>1, <1>3, <1>4 DEF EndRemoval, Places
  <2>6. CASE MarkReclaimed(t)
    BY <2>6, <1>3, <1>4, <1>5 DEF MarkReclaimed
  <2> QED BY <1>7, <2>1, <2>2, <2>3, <2>4, <2>5, <2>6 DEF Archive
<1>8. CASE Deletion(t)
  <2> USE DEF At
  <2>1. CASE StartDestroy(t)
    BY <2>1, <1>3, <1>4 DEF StartDestroy, Places, a
  <2>2. CASE EndDestroy(t)
    BY <2>2, <1>2, <1>3, <1>4 DEF EndDestroy, Places, InHand, a
  <2>3. CASE DropRef(t)
    BY <2>3, <1>3, <1>4 DEF DropRef, Places
  <2>4. CASE Forget(t)
    BY <2>4, <1>3, <1>4 DEF Forget, Places
  <2> QED BY <1>8, <2>1, <2>2, <2>3, <2>4 DEF Deletion
<1>9. ASSUME NEW b \in Agents, Pick(t, b) PROVE InHand(t)'
  <2>1. /\ job'[t].pc \in {"next", "look", "destroy", "forget"} /\ job'[t].agent = b
        /\ job'[t].todo = job[t].todo \ {b} /\ job'[t].kind = job[t].kind
    BY <1>1, <1>9 DEF Pick, Busy, Job
  <2>2. Work(t)' \subseteq Work(t) /\ b \in Work(t)
    BY <1>9, <2>1 DEF Work, Pick
  <2>3. \A c \in Work(t) : phase'[c] # "none" /\ (phase[c] = "dead" => phase'[c] = "dead")
    BY <1>2, PastStays DEF InHand
  <2>4. b # Nobody
    BY WorktreeAssumption
  <2> QED BY <1>2, <2>1, <2>2, <2>3, <2>4 DEF InHand
<1> QED BY <1>7, <1>8, <1>9

LEMMA ThreadStep ==
  ASSUME WorktreesTypeOK, ThreadInv, AgentInv, [WorktreesNext]_worktreeVars PROVE ThreadInv'
<1> SUFFICES ASSUME NEW u \in Threads PROVE InHand(u)'
  BY DEF ThreadInv
<1>1. InHand(u) /\ job \in [Threads -> Job]
  BY DEF ThreadInv, WorktreesTypeOK
<1>2. CASE job'[u] = job[u]
  BY <1>1, <1>2, Untouched
<1>3. ASSUME NEW t \in Threads,
             \/ Sweep(t) \/ Collapse(t) \/ Finish(t)
             \/ \E a \in Agents : ReclaimAgent(t, a)
             \/ \E what \in {"soft", "hard"} : Delete(t, what)
      PROVE  InHand(u)'
  <2>1. u # t => job'[u] = job[u]
    BY <1>1, <1>3 DEF Sweep, Collapse, Finish, ReclaimAgent, Delete, Begin, Busy
  <2> QED BY <2>1, <1>2, <1>3, BeginStep
<1>4. ASSUME NEW t \in Threads, Archive(t) \/ Deletion(t) \/ \E a \in Agents : Pick(t, a)
      PROVE  InHand(u)'
  <2>1. u # t => job'[u] = job[u]
    BY <1>1, <1>4 DEF Archive, Look, Read, ReadFails, UpdateRef, CachePatch, MarkArchived, StartRemoval,
          EndRemoval, MarkReclaimed, Deletion, StartDestroy, EndDestroy, DropRef, Forget, Pick, Step, Busy
  <2> QED BY <2>1, <1>2, <1>4, WorkStep
<1>5. ASSUME NEW a \in Agents, Provision(a) \/ Spawn(a) \/ Write(a) \/ Exit(a) \/ Age(a)
      PROVE  job' = job
  BY <1>5 DEF Provision, Spawn, Write, Exit, Age
<1>6. CASE Crash
  <2>1. job'[u] = Idle
    BY <1>6 DEF Crash
  <2> QED BY <2>1 DEF InHand, Work, Idle
<1>7. CASE UNCHANGED worktreeVars
  BY <1>7, <1>2 DEF worktreeVars
<1> QED BY <1>2, <1>3, <1>4, <1>5, <1>6, <1>7 DEF WorktreesNext

LEMMA AgentStep ==
  ASSUME WorktreesTypeOK, ThreadInv, AgentInv, [WorktreesNext]_worktreeVars PROVE AgentInv'
<1> USE DEF WorktreesTypeOK
<1> SUFFICES ASSUME NEW a \in Agents
             PROVE  /\ row'[a] # "none" => phase'[a] # "none"
                    /\ age'[a] # "fresh" => phase'[a] = "dead"
                    /\ row'[a] = "reclaimed" => checkout'[a] = "absent"
  BY DEF AgentInv
<1>1. /\ row[a] # "none" => phase[a] # "none"
      /\ age[a] # "fresh" => phase[a] = "dead"
      /\ row[a] = "reclaimed" => checkout[a] = "absent"
  BY DEF AgentInv
<1>2. CASE UNCHANGED <<row, age>>
  BY <1>1, <1>2, PastStays
<1>3. CASE UNCHANGED age /\ row'[a] = "deleted" /\ phase[a] # "none"
  BY <1>1, <1>3, PastStays
<1>4. ASSUME NEW b \in Agents, Provision(b)
      PROVE  (row'[b] # "none" => phase'[b] # "none") /\ row'[b] # "reclaimed" /\ age' = age
             /\ phase'[b] # "none" /\ age[b] = "fresh"
             /\ (a # b => row'[a] = row[a] /\ phase'[a] = phase[a] /\ checkout'[a] = checkout[a])
  BY <1>4 DEF Provision, Free, NewCheckout, Upsert, AgentInv
<1>5. ASSUME NEW b \in Agents, Spawn(b) \/ Write(b) \/ Exit(b) PROVE UNCHANGED <<row, age>>
  BY <1>5 DEF Spawn, Write, Exit
<1>6. ASSUME NEW b \in Agents, Age(b)
      PROVE  UNCHANGED <<row, phase, checkout>> /\ (age'[a] # "fresh" => phase[a] = "dead")
  BY <1>1, <1>6 DEF Age
<1>7. ASSUME NEW t \in Threads, MarkReclaimed(t)
      PROVE  /\ UNCHANGED <<phase, age, checkout>>
             /\ row'[a] # row[a] => row[a] = "open" /\ checkout[a] = "absent"
  <2>1. a = job[t].agent => checkout[a] = "absent"
    BY <1>7 DEF MarkReclaimed, At, ThreadInv, InHand
  <2> QED BY <1>7, <2>1 DEF MarkReclaimed
<1>8. ASSUME NEW t \in Threads, Forget(t)
      PROVE  UNCHANGED <<phase, age, checkout>> /\ (row'[a] # row[a] => row'[a] = "deleted" /\ phase[a] # "none")
  <2>1. job[t].agent \in Work(t)
    BY <1>8 DEF Forget, At, ThreadInv, InHand, Work
  <2>2. phase[job[t].agent] # "none"
    BY <2>1 DEF ThreadInv, InHand
  <2> QED BY <1>8, <2>2 DEF Forget
<1>9. ASSUME NEW t \in Threads,
             \/ Sweep(t) \/ Collapse(t) \/ Finish(t)
             \/ \E b \in Agents : ReclaimAgent(t, b) \/ Pick(t, b)
             \/ \E what \in {"soft", "hard"} : Delete(t, what)
             \/ Archive(t) /\ ~MarkReclaimed(t)
             \/ Deletion(t) /\ ~Forget(t)
      PROVE  UNCHANGED <<row, age>>
  BY <1>9 DEF Sweep, Collapse, Finish, ReclaimAgent, Pick, Delete, Archive, Look, Read, ReadFails, UpdateRef,
              CachePatch, MarkArchived, StartRemoval, EndRemoval, Deletion, StartDestroy, EndDestroy, DropRef
<1>10. CASE Crash \/ UNCHANGED worktreeVars
  BY <1>2, <1>10 DEF Crash, worktreeVars
<1>11. ASSUME NEW b \in Agents, Provision(b)
       PROVE  /\ row'[a] # "none" => phase'[a] # "none"
              /\ age'[a] # "fresh" => phase'[a] = "dead"
              /\ row'[a] = "reclaimed" => checkout'[a] = "absent"
  BY <1>1, <1>4, <1>11, PastStays
<1> QED BY <1>1, <1>2, <1>3, <1>5, <1>6, <1>7, <1>8, <1>9, <1>10, <1>11 DEF WorktreesNext

-----------------------------------------------------------------------------
(* The worktrees: archives.                                                *)

\* Nothing that the two invariants of an agent's archive speak of changes for the
\* worse.
Same(a) ==
  /\ work'[a] = work[a] /\ ref'[a] = ref[a] /\ cached'[a] = cached[a]
  /\ row[a] = "deleted" => row'[a] = "deleted"

LEMMA SecuredFrame ==
  ASSUME NEW a \in Agents, Same(a), Secured(a), checkout'[a] # "whole" => checkout[a] # "whole" \/ (Kept(a) /\ Shown(a))
  PROVE  Secured(a)'
BY DEF Same, Secured, Kept, Shown

LEMMA PathFrame ==
  ASSUME NEW t \in Threads, Same(job[t].agent), job'[t] = job[t], OnPath(t)
  PROVE  OnPath(t)'
BY DEF Same, OnPath, Kept, Shown

\* The two writes of an archive, the two of a deletion and the agent's own are
\* all that touches what an archive is judged by.
Touches(t) == UpdateRef(t) \/ CachePatch(t) \/ DropRef(t) \/ Forget(t)

LEMMA SameStep ==
  ASSUME WorktreesTypeOK, AgentInv, [WorktreesNext]_worktreeVars, NEW a \in Agents,
         \A b \in Agents : ~Write(b), \A t \in Threads : ~Touches(t)
  PROVE  Same(a)
<1> USE DEF Same
<1>1. ASSUME NEW b \in Agents, Provision(b) PROVE Same(a)
  <2>1. row[b] = "none"
    BY <1>1 DEF Provision, Free, AgentInv
  <2> QED BY <1>1, <2>1 DEF Provision, Upsert, WorktreesTypeOK
<1>2. ASSUME NEW b \in Agents, Spawn(b) \/ Exit(b) \/ Age(b) PROVE Same(a)
  BY <1>2 DEF Spawn, Exit, Age
<1>3. ASSUME NEW t \in Threads,
             \/ Sweep(t) \/ Collapse(t) \/ Finish(t)
             \/ \E b \in Agents : ReclaimAgent(t, b) \/ Pick(t, b)
             \/ \E what \in {"soft", "hard"} : Delete(t, what)
      PROVE  Same(a)
  BY <1>3 DEF Sweep, Collapse, Finish, ReclaimAgent, Pick, Delete
<1>4. ASSUME NEW t \in Threads, Archive(t) PROVE Same(a)
  <2>1. CASE MarkReclaimed(t)
    BY <2>1 DEF MarkReclaimed, WorktreesTypeOK
  <2>2. CASE Look(t) \/ Read(t) \/ ReadFails(t) \/ MarkArchived(t) \/ StartRemoval(t) \/ EndRemoval(t)
    BY <2>2 DEF Look, Read, ReadFails, MarkArchived, StartRemoval, EndRemoval
  <2> QED BY <1>4, <2>1, <2>2 DEF Archive, Touches
<1>5. ASSUME NEW t \in Threads, Deletion(t) PROVE Same(a)
  BY <1>5 DEF Deletion, Touches, StartDestroy, EndDestroy
<1>6. CASE Crash \/ UNCHANGED worktreeVars
  BY <1>6 DEF Crash, worktreeVars
<1> QED BY <1>1, <1>2, <1>3, <1>4, <1>5, <1>6 DEF WorktreesNext

LEMMA ExcusesStay ==
  ASSUME [WorktreesNext]_worktreeVars PROVE Excused \subseteq Excused'
<1> USE DEF Excused
<1>1. ASSUME NEW a \in Agents, Provision(a) \/ Spawn(a) \/ Write(a) \/ Exit(a) \/ Age(a)
      PROVE  Excused \subseteq Excused'
  BY <1>1 DEF Provision, Spawn, Write, Exit, Age
<1>2. ASSUME NEW t \in Threads,
             \/ Sweep(t) \/ Collapse(t) \/ Finish(t)
             \/ \E b \in Agents : ReclaimAgent(t, b) \/ Pick(t, b)
             \/ \E what \in {"soft", "hard"} : Delete(t, what)
      PROVE  Excused \subseteq Excused'
  BY <1>2 DEF Sweep, Collapse, Finish, ReclaimAgent, Pick, Delete
<1>3. ASSUME NEW t \in Threads, Archive(t) \/ Deletion(t) PROVE Excused \subseteq Excused'
  BY <1>3 DEF Archive, Look, Read, ReadFails, UpdateRef, CachePatch, MarkArchived, StartRemoval, EndRemoval,
              MarkReclaimed, Deletion, StartDestroy, EndDestroy, DropRef, Forget
<1>4. CASE Crash \/ UNCHANGED worktreeVars
  BY <1>4 DEF Crash, worktreeVars
<1> QED BY <1>1, <1>2, <1>3, <1>4 DEF WorktreesNext

\* What a step of a thread on its agent's archive does to that agent, and to no
\* other; the agent has no excuse.
LEMMA TouchStep ==
  ASSUME WorktreesTypeOK, ThreadInv, ArchiveInv, NEW t \in Threads, Touches(t), NEW a \in Agents \ Excused
  PROVE  /\ a # job[t].agent => Same(a)
         /\ a = job[t].agent =>
              /\ UNCHANGED <<work, checkout>>
              /\ (UpdateRef(t) \/ CachePatch(t)) => work[a] # 0 /\ ref'[a] = work[a] /\ row' = row
              /\ UpdateRef(t) => cached' = cached
              /\ CachePatch(t) => ref' = ref /\ cached'[a] = work[a]
              /\ ~DropRef(t)
              /\ Forget(t) => ref' = ref /\ cached'[a] = NoWork /\ row'[a] = "deleted"
<1> USE DEF WorktreesTypeOK, At
<1>1. a # job[t].agent => Same(a)
  BY DEF Touches, UpdateRef, CachePatch, DropRef, Forget, Same
<1>2. CASE a = job[t].agent
  <2>1. OnPath(t)
    BY <1>2 DEF ArchiveInv
  <2>2. ~DropRef(t)
    BY <1>2 DEF DropRef, ThreadInv, InHand, Excused
  <2>3. UNCHANGED <<work, checkout>>
    BY <2>2 DEF Touches, UpdateRef, CachePatch, Forget
  <2>4. UpdateRef(t) => work[a] # 0 /\ ref'[a] = work[a] /\ row' = row /\ cached' = cached
    BY <1>2, <2>1 DEF UpdateRef, OnPath
  <2>5. CachePatch(t) => work[a] # 0 /\ ref' = ref /\ ref[a] = work[a] /\ row' = row /\ cached'[a] = work[a]
    BY <1>2, <2>1 DEF CachePatch, OnPath
  <2>6. Forget(t) => ref' = ref /\ cached'[a] = NoWork /\ row'[a] = "deleted"
    BY <1>2 DEF Forget
  <2>7. (UpdateRef(t) \/ CachePatch(t)) => work[a] # 0 /\ ref'[a] = work[a] /\ row' = row
    BY <2>4, <2>5
  <2> QED BY <1>1, <2>2, <2>3, <2>4, <2>5, <2>6, <2>7
<1> QED BY <1>1, <1>2

\* What is no longer whole was kept before it was touched, and is shown.
LEMMA SecuredStep ==
  ASSUME WorktreesTypeOK, ThreadInv, AgentInv, ArchiveInv, [WorktreesNext]_worktreeVars,
         NEW a \in Agents \ Excused'
  PROVE  Secured(a)'
<1> USE DEF WorktreesTypeOK, At
<1>1. a \in Agents \ Excused /\ Secured(a)
  BY ExcusesStay DEF ArchiveInv
<1>2. ASSUME NEW b \in Agents, Write(b) PROVE Secured(a)'
  <2>1. CASE a = b
    BY <1>2, <2>1 DEF Write, Secured
  <2>2. CASE a # b
    <3>1. Same(a) /\ checkout'[a] = checkout[a]
      BY <1>2, <2>2 DEF Write, Same
    <3> QED BY <1>1, <3>1, SecuredFrame
  <2> QED BY <2>1, <2>2
<1>3. ASSUME NEW t \in Threads, Touches(t) PROVE Secured(a)'
  <2>1. checkout' = checkout
    BY <1>3 DEF Touches, UpdateRef, CachePatch, DropRef, Forget
  <2>2. CASE a = job[t].agent
    BY <1>1, <1>3, <2>1, <2>2, TouchStep DEF Secured, Kept, Shown, Touches
  <2>3. CASE a # job[t].agent
    BY <1>1, <1>3, <2>1, <2>3, TouchStep, SecuredFrame
  <2> QED BY <2>2, <2>3
<1>4. ASSUME \A b \in Agents : ~Write(b), \A t \in Threads : ~Touches(t) PROVE Secured(a)'
  <2>1. Same(a)
    BY <1>4, SameStep
  <2>2. checkout'[a] # "whole" => checkout[a] # "whole" \/ (Kept(a) /\ Shown(a))
    <3>1. ASSUME NEW b \in Agents, Provision(b) \/ Spawn(b) \/ Exit(b) \/ Age(b)
          PROVE  checkout'[a] # "whole" => checkout[a] # "whole"
      BY <3>1 DEF Provision, NewCheckout, Spawn, Exit, Age
    <3>2. ASSUME NEW t \in Threads,
                 \/ Sweep(t) \/ Collapse(t) \/ Finish(t)
                 \/ \E b \in Agents : ReclaimAgent(t, b) \/ Pick(t, b)
                 \/ \E what \in {"soft", "hard"} : Delete(t, what)
          PROVE  checkout' = checkout
      BY <3>2 DEF Sweep, Collapse, Finish, ReclaimAgent, Pick, Delete
    <3>3. ASSUME NEW t \in Threads, StartRemoval(t) \/ EndRemoval(t)
          PROVE  checkout'[a] # checkout[a] => Kept(a) /\ Shown(a)
      <4>1. checkout'[a] # checkout[a] => a = job[t].agent /\ job[t].pc \in {"remove", "removing"}
        BY <3>3 DEF StartRemoval, EndRemoval
      <4> QED BY <1>1, <4>1 DEF ArchiveInv, OnPath
    <3>4. ASSUME NEW t \in Threads, StartDestroy(t) \/ EndDestroy(t) PROVE checkout'[a] = checkout[a]
      <4>1. CASE StartDestroy(t)
        BY <4>1 DEF StartDestroy, Excused
      <4>2. CASE EndDestroy(t)
        <5>1. job[t].agent \in destroyed
          BY <4>2 DEF EndDestroy, ThreadInv, InHand
        <5> QED BY <1>1, <4>2, <5>1 DEF EndDestroy, Excused
      <4> QED BY <3>4, <4>1, <4>2
    <3>5. ASSUME NEW t \in Threads,
                 Look(t) \/ Read(t) \/ ReadFails(t) \/ MarkArchived(t) \/ MarkReclaimed(t)
          PROVE  checkout' = checkout
      BY <3>5 DEF Look, Read, ReadFails, MarkArchived, MarkReclaimed
    <3>6. CASE Crash
      BY <3>6 DEF Crash
    <3>7. CASE UNCHANGED worktreeVars
      BY <3>7 DEF worktreeVars
    <3> QED BY <1>4, <3>1, <3>2, <3>3, <3>4, <3>5, <3>6, <3>7 DEF WorktreesNext, Archive, Deletion, Touches
  <2> QED BY <1>1, <2>1, <2>2, SecuredFrame
<1> QED BY <1>2, <1>3, <1>4

\* A thread that does not move finds its agent's archive no worse.
LEMMA PathKept ==
  ASSUME WorktreesTypeOK, ThreadInv, AgentInv, ArchiveInv, [WorktreesNext]_worktreeVars, NEW u \in Threads,
         job'[u] = job[u], job[u].agent \in Agents \ Excused'
  PROVE  OnPath(u)'
<1> USE DEF WorktreesTypeOK
<1> DEFINE a == job[u].agent
<1>1. a \in Agents \ Excused /\ OnPath(u)
  BY ExcusesStay DEF ArchiveInv
<1>2. CASE Same(a)
  BY <1>1, <1>2, PathFrame
<1>3. ASSUME NEW b \in Agents, Write(b), a = b PROVE OnPath(u)'
  <2>1. ~BeingReclaimed(a)
    BY <1>3 DEF Write, Excused
  <2>2. job[u].pc \notin {"ref", "patch", "mark", "remove", "removing"}
    BY <2>1 DEF BeingReclaimed
  <2> QED BY <2>2 DEF OnPath
<1>4. ASSUME NEW b \in Agents, Write(b), a # b PROVE Same(a)
  BY <1>4 DEF Write, Same
<1>5. ASSUME NEW t \in Threads, Touches(t), a = job[t].agent PROVE OnPath(u)'
  <2>1. CASE UpdateRef(t)
    <3>1. work' = work /\ cached' = cached /\ row' = row /\ ref'[a] = work[a] /\ work[a] # 0
      BY <1>1, <1>5, <2>1, TouchStep
    <3> QED BY <1>1, <3>1 DEF OnPath, Kept, Shown
  <2>2. CASE CachePatch(t)
    <3>1. work' = work /\ ref' = ref /\ row' = row /\ cached'[a] = work[a] /\ ref'[a] = work[a]
      BY <1>1, <1>5, <2>2, TouchStep
    <3> QED BY <1>1, <3>1 DEF OnPath, Kept, Shown
  <2>3. CASE Forget(t)
    <3>1. work' = work /\ ref' = ref /\ row'[a] = "deleted"
      BY <1>1, <1>5, <2>3, TouchStep
    <3> QED BY <1>1, <3>1 DEF OnPath, Kept, Shown
  <2> QED BY <1>1, <1>5, <2>1, <2>2, <2>3, TouchStep DEF Touches
<1>6. ASSUME NEW t \in Threads, Touches(t), a # job[t].agent PROVE Same(a)
  BY <1>1, <1>6, TouchStep
<1> QED BY <1>1, <1>2, <1>3, <1>4, <1>5, <1>6, SameStep

\* A thread that moves comes to the places of OnPath through Read and the two writes.
LEMMA PathTaken ==
  ASSUME WorktreesTypeOK, ThreadInv, AgentInv, ArchiveInv, [WorktreesNext]_worktreeVars, NEW t \in Threads,
         Archive(t) \/ Deletion(t), job'[t].agent \in Agents \ Excused'
  PROVE  OnPath(t)'
<1> USE DEF WorktreesTypeOK, At
<1> DEFINE a == job[t].agent
<1>1. job[t] \in Job
  OBVIOUS
<1>2. ASSUME NEW place, Step(t, place)
      PROVE  job'[t].pc = place /\ job'[t].agent = a /\ job'[t].snap = job[t].snap
  BY <1>1, <1>2 DEF Step, Busy, Job
<1>3. CASE Read(t)
  <2>1. job'[t].agent = a /\ job'[t].pc \in {"mark", "ref"}
        /\ (Content(a) = 0 => job'[t].pc = "mark") /\ (Content(a) # 0 => job'[t].pc = "ref" /\ job'[t].snap = Content(a))
    BY <1>1, <1>3 DEF Read, Busy, Job
  <2>2. Content(a) # Torn
    BY <1>3, <2>1 DEF Read, Excused
  <2>3. Content(a) = work[a]
    BY <2>2 DEF Content
  <2>4. a \in Agents \ Excused
    BY <2>1, ExcusesStay
  <2>5. UNCHANGED <<work, ref, cached, row>> /\ Secured(a)
    BY <1>3, <2>4 DEF Read, ArchiveInv
  <2> QED BY <2>1, <2>3, <2>5 DEF OnPath, Secured, Kept, Shown
<1>4. ASSUME job'[t].agent = a PROVE a \in Agents \ Excused /\ OnPath(t)
  BY <1>4, ExcusesStay DEF ArchiveInv
<1>5. CASE UpdateRef(t)
  <2>1. job'[t].pc = "patch" /\ job'[t].agent = a /\ job'[t].snap = job[t].snap
    BY <1>2, <1>5 DEF UpdateRef
  <2>2. ref'[a] = work[a] /\ work' = work
    BY <1>4, <1>5, <2>1, TouchStep DEF Touches
  <2> QED BY <1>4, <1>5, <2>1, <2>2 DEF OnPath, UpdateRef
<1>6. CASE CachePatch(t)
  <2>1. job'[t].pc = "mark" /\ job'[t].agent = a
    BY <1>2, <1>6 DEF CachePatch
  <2>2. ref'[a] = work[a] /\ cached'[a] = work[a] /\ work' = work
    BY <1>4, <1>6, <2>1, TouchStep DEF Touches
  <2> QED BY <2>1, <2>2 DEF OnPath, Kept, Shown
<1>7. CASE MarkArchived(t) \/ StartRemoval(t)
  <2>1. job'[t].pc \in {"remove", "removing"} /\ job'[t].agent = a /\ job[t].pc \in {"mark", "remove"}
    BY <1>2, <1>7 DEF MarkArchived, StartRemoval
  <2>2. UNCHANGED <<work, ref, cached, row>>
    BY <1>7 DEF MarkArchived, StartRemoval
  <2> QED BY <1>4, <2>1, <2>2 DEF OnPath, Kept, Shown
<1>8. CASE Look(t) \/ ReadFails(t) \/ EndRemoval(t) \/ MarkReclaimed(t) \/ Deletion(t)
  <2>1. Done(t) \in {"next", "idle", "forget"}
    BY DEF Done
  <2>2. job'[t].pc \in {"record", "read", "next", "idle", "forget", "destroying", "drop"}
    BY <1>2, <1>8, <2>1 DEF Look, ReadFails, EndRemoval, MarkReclaimed, Deletion, StartDestroy, EndDestroy,
                            DropRef, Forget
  <2> QED BY <2>2 DEF OnPath
<1> QED BY <1>3, <1>5, <1>6, <1>7, <1>8 DEF Archive

LEMMA PathStep ==
  ASSUME WorktreesTypeOK, ThreadInv, AgentInv, ArchiveInv, [WorktreesNext]_worktreeVars, NEW u \in Threads,
         job'[u].agent \in Agents \ Excused'
  PROVE  OnPath(u)'
<1> USE DEF WorktreesTypeOK
<1>1. CASE job'[u] = job[u]
  BY <1>1, PathKept
<1>2. CASE job'[u].pc \in {"idle", "next", "look", "destroy", "forget"}
  BY <1>2 DEF OnPath
<1>3. ASSUME NEW t \in Threads, Archive(t) \/ Deletion(t) PROVE OnPath(u)'
  <2>1. u # t => job'[u] = job[u]
    BY <1>3 DEF Archive, Look, Read, ReadFails, UpdateRef, CachePatch, MarkArchived, StartRemoval,
          EndRemoval, MarkReclaimed, Deletion, StartDestroy, EndDestroy, DropRef, Forget, Step, Busy
  <2> QED BY <1>1, <1>3, <2>1, PathTaken
<1>4. ASSUME NEW t \in Threads,
             \/ Sweep(t) \/ Collapse(t) \/ Finish(t)
             \/ \E b \in Agents : ReclaimAgent(t, b) \/ Pick(t, b)
             \/ \E what \in {"soft", "hard"} : Delete(t, what)
      PROVE  OnPath(u)'
  <2>1. u # t => job'[u] = job[u]
    BY <1>4 DEF Sweep, Collapse, Finish, ReclaimAgent, Pick, Delete, Begin, Busy
  <2>2. job[t] \in Job
    OBVIOUS
  <2>3. job'[t].pc \in {"idle", "next", "look", "destroy", "forget"}
    <3>1. CASE Sweep(t) \/ Collapse(t) \/ \E b \in Agents : ReclaimAgent(t, b)
      <4>1. CASE Sweep(t)
        BY <4>1 DEF Sweep, Begin, Busy, Idle
      <4>2. CASE Collapse(t)
        BY <4>2 DEF Collapse, Begin, Busy, Idle
      <4>3. ASSUME NEW b \in Agents, ReclaimAgent(t, b)
            PROVE  job'[t].pc \in {"idle", "next", "look", "destroy", "forget"}
        BY <4>3 DEF ReclaimAgent, Begin, Busy, Idle
      <4> QED BY <3>1, <4>1, <4>2, <4>3
    <3>2. CASE \E what \in {"soft", "hard"} : Delete(t, what)
      BY <3>2 DEF Delete, Begin, Busy, Idle
    <3>3. CASE Finish(t)
      BY <3>3 DEF Finish, Busy, Idle
    <3>4. CASE \E b \in Agents : Pick(t, b)
      BY <2>2, <3>4 DEF Pick, Busy, Job
    <3> QED BY <1>4, <3>1, <3>2, <3>3, <3>4
  <2> QED BY <1>1, <1>2, <2>1, <2>3
<1>5. ASSUME NEW b \in Agents, Provision(b) \/ Spawn(b) \/ Write(b) \/ Exit(b) \/ Age(b) PROVE job' = job
  BY <1>5 DEF Provision, Spawn, Write, Exit, Age
<1>6. CASE Crash
  BY <1>2, <1>6 DEF Crash, Idle
<1>7. CASE UNCHANGED worktreeVars
  BY <1>1, <1>7 DEF worktreeVars
<1> QED BY <1>1, <1>3, <1>4, <1>5, <1>6, <1>7 DEF WorktreesNext

\* The inductive invariant of the worktrees.
THEOREM WorktreesInvariant == WorktreesSpec => []WorktreesInv
<1>1. WorktreesInit => WorktreesInv
  <2> SUFFICES ASSUME WorktreesInit PROVE ThreadInv /\ AgentInv /\ ArchiveInv
    BY WorktreesTypeInit DEF WorktreesInv
  <2>1. ThreadInv
    BY DEF WorktreesInit, ThreadInv, InHand, Work, Idle
  <2>2. AgentInv
    BY DEF WorktreesInit, AgentInv
  <2>3. ArchiveInv
    BY DEF WorktreesInit, ArchiveInv, Secured, OnPath, Kept, Shown, Idle
  <2> QED BY <2>1, <2>2, <2>3
<1>2. WorktreesInv /\ [WorktreesNext]_worktreeVars => WorktreesInv'
  <2> SUFFICES ASSUME WorktreesInv, [WorktreesNext]_worktreeVars PROVE WorktreesInv'
    OBVIOUS
  <2>1. WorktreesTypeOK /\ ThreadInv /\ AgentInv /\ ArchiveInv
    BY DEF WorktreesInv
  <2>2. WorktreesTypeOK' /\ ThreadInv' /\ AgentInv'
    BY <2>1, WorktreesTypeStep, ThreadStep, AgentStep
  <2>3. ArchiveInv'
    BY <2>1, SecuredStep, PathStep DEF ArchiveInv
  <2> QED BY <2>2, <2>3 DEF WorktreesInv
<1> QED BY <1>1, <1>2, PTL DEF WorktreesSpec

\* What an agent wrote is in its checkout or its archive, but for work dropped on
\* request, written after the checkout was read, or read off a checkout that was
\* being removed (manager.rs archive_and_reclaim, worktree.rs archive_agent).
THEOREM LossSafety == WorktreesSpec => []LossIsKnown
<1>1. WorktreesInv => LossIsKnown
  BY DEF WorktreesInv, ArchiveInv, Secured, Kept, LossIsKnown, Safe
<1> QED BY <1>1, WorktreesInvariant, PTL

\* A reclaimed agent's review shows what its archive holds (manager.rs
\* review_source, store.rs put_review_patch).
THEOREM ArchiveSafety == WorktreesSpec => []ReviewShowsArchive
<1>1. WorktreesInv => ReviewShowsArchive
  BY DEF WorktreesInv, AgentInv, ArchiveInv, Secured, Shown, ReviewShowsArchive
<1> QED BY <1>1, WorktreesInvariant, PTL

\* A sweep works on no agent that has a session, without a lock from its look at the
\* sessions to the removal (manager.rs sweep_worktrees).
THEOREM SparedSafety == WorktreesSpec => []SweepSparesLive
<1>1. WorktreesInv => SweepSparesLive
  <2> SUFFICES ASSUME WorktreesInv, NEW t \in Threads, job[t].kind = "sweep", job[t].agent # Nobody
               PROVE  ~HasSession(job[t].agent)
    BY DEF SweepSparesLive
  <2>1. job[t].agent \in Work(t)
    BY DEF Work
  <2>2. phase[job[t].agent] = "dead"
    BY <2>1 DEF WorktreesInv, ThreadInv, InHand
  <2> QED BY <2>2 DEF HasSession
<1> QED BY <1>1, WorktreesInvariant, PTL

=============================================================================
