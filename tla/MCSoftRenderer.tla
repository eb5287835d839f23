--------------------------- MODULE MCSoftRenderer ---------------------------
(* Three pixels and two cameras in a world of eight voxels that share the    *)
(* cache's two entries.  Rays alternate axes; one camera can be placed in a  *)
(* solid voxel, and one ray meets nothing.                                   *)
EXTENDS SoftRenderer, Sequences

MCQuery(a) == CASE a = 3 -> "grass" [] a = 5 -> "water" [] OTHER -> "air"

\* Where each ray goes: by camera, by pixel (one past the frame included).
MCPaths ==
    [open |-> <<<<0, 1, 2, 3>>, <<0, 1, 4, 5>>, <<0, 2, 6, 7>>, <<0, 6, 1, 4>>>>,
     low  |-> <<<<2, 1, 0, 3>>, <<2, 6, 7, 0>>, <<2, 3, 1, 0>>, <<2, 0, 1, 6>>>>,
     inside |-> <<<<5, 1, 2, 3>>, <<5, 1, 4, 5>>, <<5, 2, 6, 7>>, <<5, 6, 1, 4>>>>]

MCVoxel(r, n) == MCPaths[r.camera][r.pixel + 1][(n % 4) + 1]
MCAxis(r, n) == IF (r.pixel + n) % 2 = 0 THEN "x" ELSE "y"
MCSign(r, axis) == IF (axis = "x") = (r.pixel = 1) THEN 1 ELSE -1

=============================================================================
