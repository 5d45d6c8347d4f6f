--------------------------- MODULE MCInteractions ---------------------------
(* Two agents, three request and reply calls, one other message; a          *)
(* statement of a call or the marking of a row fails, or an interaction is  *)
(* pruned.                                                                  *)
EXTENDS Interactions
=============================================================================
