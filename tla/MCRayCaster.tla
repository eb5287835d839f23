---------------------------- MODULE MCRayCaster ----------------------------
(* The full chunk (64 wide) and the full step limit (60), with the latencies *)
(* of the hardware: only the rays and the world are chosen.                  *)
EXTENDS RayCaster

V(x, y, z) == [i \in Axes |-> CASE i = "x" -> x [] i = "y" -> y [] OTHER -> z]

\* A ground below y = -1, a tree, a canopy and a block far along x, told apart.
MCRom(a) ==
    CASE a = V(3, 1, 2)  -> "log"
      [] a = V(-3, 0, 1) -> "leaves"
      [] a = V(12, 0, 0) -> "dirt"
      [] a["y"] = 9 -> "leaves"
      [] a["y"] <= -2 -> "grass"
      [] OTHER -> "air"

R(o, d) == [origin |-> o, direction |-> d]

\* Rays from voxel 0, or pointing down the axes on which they are not.
NearRays ==
    {R(V(128, 64, 200), d) : d \in
        {V(256, 90, 170), V(-256, 10, 60), V(40, -256, 30), V(256, 0, 0),
         V(10, 256, -20), V(0, 0, 256), V(-100, -100, -100)}}
      \cup {R(V(700, 900, 128), V(-256, -120, 0)), R(V(128, -300, 64), V(0, -256, 0))}

\* The rays chosen are ones for which the hardware's cast is the reference's.
ASSUME MCAssumption == \A r \in NearRays : Comparable(r)

=============================================================================
