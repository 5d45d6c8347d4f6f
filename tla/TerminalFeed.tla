---------------------------- MODULE TerminalFeed ----------------------------
(***************************************************************************)
(* What a session promises the terminals that watch it, with no threads,   *)
(* queues or watermarks: the agent's output only grows, and every terminal *)
(* shows the exact state after some prefix of that output and only ever    *)
(* moves forward.  (Session::attach and the reader, session.rs.)           *)
(***************************************************************************)
EXTENDS Naturals

CONSTANT Terminals

VARIABLES produced, screen
vars == <<produced, screen>>

Init == produced = 0 /\ screen = [t \in Terminals |-> 0]

\* The daemon reads a chunk of output.
Produce ==
  /\ produced' \in Nat /\ produced' > produced
  /\ UNCHANGED screen

\* A terminal is repainted, or applies the chunk that follows what it shows.
Show(t) ==
  /\ \E p \in screen[t]..produced : screen' = [screen EXCEPT ![t] = p]
  /\ UNCHANGED produced

Next == Produce \/ \E t \in Terminals : Show(t)

Spec == Init /\ [][Next]_vars
=============================================================================
