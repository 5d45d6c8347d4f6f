---------------------------- MODULE MCReviewGate ----------------------------
(* One file the agent changes and one it creates.  The view leaves out what *)
(* no step reads: the last answer, what an ack that was dropped covered,    *)
(* between merges the last one's request, and how many rows the ledger has  *)
(* beyond whether the last commit has its own.                              *)
EXTENDS ReviewGate

CONSTANTS changed, created

Request ==
  IF merge = "idle" THEN <<>> ELSE <<kind, from, sel, digest, reviewed, full, patch, history>>
View ==
  <<treeVars, dirty, clearing, ack, IF ack THEN ackedOver ELSE {}, marking, served,
    merge, merges, rows < commits, targetVars, Request>>
=============================================================================
