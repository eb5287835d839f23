---------------------------- MODULE MCChunkWorld -----------------------------
(***************************************************************************)
(* Two chunks that may be missing, broken or saved, each with two values;  *)
(* a channel back that one answer fills; two unloads and two requests      *)
(* waiting.  The second handle of a chunk is there for a wrong model.      *)
(***************************************************************************)
EXTENDS ChunkWorld
==============================================================================
