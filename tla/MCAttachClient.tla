--------------------------- MODULE MCAttachClient ---------------------------
(* Two views, one after the other; an attach fails or a connection breaks. *)
EXTENDS AttachClient
=============================================================================
