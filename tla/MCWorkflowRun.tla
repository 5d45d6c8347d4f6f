------------------------- MODULE MCWorkflowRun -------------------------
\* Build again while it fails, then test, both under one key; two nodes at most.
\* The second run fails at once at its own limit, if it gets a slot.
EXTENDS WorkflowRun
CONSTANTS r1, r2, build, test, result, pass, fail
MCEdges == << [from |-> build, to |-> build, when |-> fail],
              [from |-> build, to |-> test, when |-> Always] >>
MCOutputKey == [n \in {build, test} |-> result]
MCIterations == [r \in {r1, r2} |-> IF r = r1 THEN 2 ELSE 0]
=============================================================================
