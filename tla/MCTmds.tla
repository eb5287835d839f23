-------------------------------- MODULE MCTmds --------------------------------
(* Every byte. *)
EXTENDS Tmds

MCData == 0 .. 255

=============================================================================
