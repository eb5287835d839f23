------------------------------- MODULE BlockPos -------------------------------
(***************************************************************************)
(* Positions of blocks and where chunk.sv keeps them in its block RAM      *)
(* (hw/src/hdl/types.sv, chunk.sv).                                        *)
(***************************************************************************)
EXTENDS FixedPoint

CONSTANT CoordBits      \* $clog2(CHUNK_WIDTH), 6 in types.sv

ASSUME CoordBitsAssumption == CoordBits \in 2 .. B - D

CHUNK_WIDTH == 2^CoordBits

Coord == -(2^(CoordBits - 1)) .. 2^(CoordBits - 1) - 1

BlockPositions == [Axes -> Coord]

\* The position a VTU asks for: ray_pos cut down to CoordBits bits.
BlockPosOf(pos) == [i \in Axes |-> Signed(pos[i], CoordBits)]

\* The bounds are those of a chunk twice as wide as the coordinates reach.
oob(a) == \E i \in Axes : a[i] >= CHUNK_WIDTH \/ a[i] < -CHUNK_WIDTH

\* Row-major, shifted by 40 along each axis and cut to the RAM's address width.
flat_addr(a) ==
    LET W == CHUNK_WIDTH
    IN  ((a["z"] + 40) * (W * W) + (a["y"] + 40) * W + (a["x"] + 40)) % (W * W * W)

=============================================================================
