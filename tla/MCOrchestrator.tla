--------------------------- MODULE MCOrchestrator ---------------------------
(* Four pixels, two cameras, one unit as in top_level.sv.  A unit answers    *)
(* after 14 edges at the earliest, as in the hardware, and after 20 at the   *)
(* latest instead of 255: the preparation of a frame takes 17, so answers    *)
(* before and after its end both occur.  Four resets interrupt or repeat     *)
(* frames at any edge.                                                       *)
EXTENDS Orchestrator

=============================================================================
