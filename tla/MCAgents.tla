------------------------------ MODULE MCAgents ------------------------------
(* Three agents, one worker each at most: enough for an agent that assigns *)
(* anew, and for a worker that tries to assign.                            *)
EXTENDS Agents
=============================================================================
