---------------------------- MODULE MCRegionFile -----------------------------
(***************************************************************************)
(* Three chunks in a file of at most five sectors of eight bytes: data of  *)
(* exactly one sector, and of two with room to spare.                      *)
(***************************************************************************)
EXTENDS RegionFile, TLC

CONSTANTS exact, large

MCData == {exact, large}
MCTotalLen(d) == IF d = exact THEN 8 ELSE 14

ChunkSymmetry == Permutations(Chunks)
==============================================================================
