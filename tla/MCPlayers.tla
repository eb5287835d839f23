------------------------------ MODULE MCPlayers -------------------------------
(* Three chunks in a row, of which each of two places sees two; two users,  *)
(* two keys and three entities, so that a key and a user come again while   *)
(* the last entity of either is still there.                                *)
EXTENDS Players

CONSTANTS e1, e2, e3, u1, u2, p, q

MCAround == (p :> {1, 2}) @@ (q :> {2, 3})

Symmetric == Permutations(Entities) \cup Permutations(Users)
==============================================================================
