-------------------------- MODULE MCSessionStream --------------------------
(* One connection that attaches again and again, an agent that writes at    *)
(* most MaxOut bytes.  What several connections do to one another is proved *)
(* of any set of them (Terminal_proofs).                                    *)
EXTENDS SessionStream
=============================================================================
