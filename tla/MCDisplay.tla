------------------------------ MODULE MCDisplay ------------------------------
(* A raster of eighteen pixels by eleven lines, with porches of one, two and  *)
(* three so that no two of them can be taken for each other, six of them off  *)
(* screen at the end of a line; a buffer of two by two pixels, each of another *)
(* blue, which the three columns of the raster overrun.                       *)
EXTENDS Display

MCPicture(a) == 8 * (a + 1)
MCData == {0, 8, 16, 24, 32}

==============================================================================
