------------------------------ MODULE MCTurns -------------------------------
(* One file, two bytes of output, of one turn or of two.                   *)
EXTENDS Turns
=============================================================================
