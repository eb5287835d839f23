---------------------------- MODULE MCL2System ----------------------------
(* Two ports and three addresses over two entries, so that both ports evict *)
(* what the other needs, every address holding a different block.           *)
EXTENDS L2System

MCRom(a) == a + 1

=============================================================================
