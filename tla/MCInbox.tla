------------------------------ MODULE MCInbox -------------------------------
(* Two receivers and two messages, for one of them or one for each; two    *)
(* updates of the store fail.                                              *)
EXTENDS Inbox
=============================================================================
