------------------------------ MODULE RayCaster ------------------------------
(***************************************************************************)
(* One voxel traversal unit with its voxel memory, wired and driven as     *)
(* hw/src/hdl/orchestrator.sv does: the ray registers change at the edge   *)
(* that raises rst, the unit is in reset at the edges that see rst or the  *)
(* pin rst_in, and the memory at those that see rst_in only.               *)
(***************************************************************************)
EXTENDS VTU

CONSTANTS
    Rays,       \* the rays that may be cast: records [origin, direction]
    Rom(_),     \* block stored for a position
    RomBase     \* word 0 of the memory

ASSUME RaysAssumption == Rays \subseteq [origin : vec3, direction : vec3]

VARIABLES
    rst_in, rst,
    addr_pipe, ram_data, rom_out, ram_out, edges_since_reset,   \* the memory
    age         \* history: edges since the unit's last reset

Memory == INSTANCE Chunk WITH
    Addr <- BlockPositions, ZeroPos <- vzero, Oob <- oob,
    addr <- ram_addr, read_enable <- ram_read_enable, out <- ram_out

pins == <<ray_origin, ray_direction>>
castervars == <<pins, vtuvars, rst_in, rst, addr_pipe, ram_data, rom_out,
                ram_out, edges_since_reset, age>>

ram_valid == Memory!Valid(ram_addr, ram_read_enable)

\* Edges from the last reset to the first and to the last answer: thirteen to
\* prepare, one for the voxel of the origin, four for each further voxel, one
\* to give up.
EarliestAnswer == 14
LatestAnswer == 15 + 4 * MaxSteps

-----------------------------------------------------------------------------
(* The reference: VoxelTraversalUnit::mock_cast of sw/src/vtu.rs, "a ray   *)
(* cast that finishes instantly", over the numbers of the hardware.        *)

MockRay(r) ==
    LET dir == vnormalize(r.direction)
        pos == vfloor(r.origin)
        step == [i \in Axes |-> IF dir[i] > 0 THEN 1 ELSE -1]
        t_delta == [i \in Axes |-> fabs(recip(dir[i]))]
        offset == [i \in Axes |-> fsub(r.origin[i], pos[i] * 2^D)]
        dist == [i \in Axes |-> IF step[i] > 0 THEN fsub(FIXED_1, offset[i])
                                               ELSE offset[i]]
    IN  [pos |-> pos, step |-> step, t_delta |-> t_delta, last |-> "none",
         t_max |-> [i \in Axes |-> IF dir[i] = 0 THEN FIXED_MAX
                                   ELSE fmul(t_delta[i], dist[i])]]

MockStep(m) ==
    LET i == NextAxis(m.t_max)
    IN  [pos |-> [m.pos EXCEPT ![i] = @ + m.step[i]],
         step |-> m.step, t_delta |-> m.t_delta, last |-> i,
         t_max |-> [m.t_max EXCEPT ![i] = fadd(@, m.t_delta[i])]]

MockWalk(r) ==
    LET walk[n \in 0 .. MaxSteps] ==
            IF n = 0 THEN MockRay(r) ELSE MockStep(walk[n - 1])
    IN  walk

\* The query of the reference's memory answers nothing outside the chunk.
InChunk(pos) == pos \in BlockPositions

MockCast(r) ==
    LET walk == MockWalk(r)
        stops == {n \in 0 .. MaxSteps :
                    ~InChunk(walk[n].pos) \/ Rom(walk[n].pos) # Air}
        first == CHOOSE n \in stops : \A k \in stops : n <= k
        end == walk[first]
    IN  IF stops = {} \/ ~InChunk(end.pos)
        THEN [block |-> Air, norm |-> vzero]
        ELSE [block |-> Rom(end.pos),
              norm |-> [i \in Axes |-> IF i = end.last THEN -end.step[i] * 2^D ELSE 0]]

(* Where the hardware's cast is the reference's: vtu.sv chooses its steps  *)
(* by the direction and not by the normalized one, adds the corner where   *)
(* the reference subtracts it when a step is positive, and comes back on   *)
(* the other side when it leaves the chunk.                                *)

SameStart(r) ==
    \A i \in Axes :
        /\ r.direction[i] > 0 <=> vnormalize(r.direction)[i] > 0
        /\ r.direction[i] > 0 => vfloor(r.origin)[i] = 0

\* A block that the ray meets after it left the chunk is not the first one.
NothingBeyondTheEdge(r) ==
    LET walk == MockWalk(r)
        solid(n) == Rom(BlockPosOf(walk[n].pos)) # Air
    IN  \A n \in 0 .. MaxSteps : \A out \in 0 .. n :
            ~InChunk(walk[out].pos) /\ solid(n) => \E k \in 0 .. out - 1 : solid(k)

Comparable(r) == SameStart(r) /\ NothingBeyondTheEdge(r)

-----------------------------------------------------------------------------
Put(r) == ray_origin' = r.origin /\ ray_direction' = r.direction

Init ==
    /\ \E r \in Rays : ray_origin = r.origin /\ ray_direction = r.direction
    /\ VTUInit
    /\ Memory!ChunkInit
    /\ rst_in = TRUE
    /\ rst = FALSE
    /\ age = 0

Older == age' = IF age < LatestAnswer THEN age + 1 ELSE age

UnitAndMemory ==
    /\ IF rst_in \/ rst THEN VTUReset /\ age' = 0
                        ELSE VTUEdge(ram_out, ram_valid) /\ Older
    /\ IF rst_in THEN Memory!ChunkReset ELSE Memory!ChunkEdge

\* An edge at which the driver takes the answer and hands out the next ray.
Assign ==
    /\ UnitAndMemory
    /\ hit_valid /\ ~rst /\ ~rst_in
    /\ \E r \in Rays : Put(r)
    /\ rst' = TRUE
    /\ rst_in' \in BOOLEAN

\* Any other edge; rst is not cleared by rst_in.
Wait ==
    /\ UnitAndMemory
    /\ rst' = (rst_in /\ rst)
    /\ rst_in' \in BOOLEAN
    /\ UNCHANGED pins

Next == Assign \/ Wait

\* The clock ticks; that the pin rst_in rises is never forced by it, even when
\* nothing else is left to happen.
Spec == Init /\ [][Next]_castervars /\ WF_castervars(Next /\ ~rst_in')

-----------------------------------------------------------------------------
\* The ray on the pins.
CurrentRay == [origin |-> ray_origin, direction |-> ray_direction]

\* The answer shown is what the reference finds for the ray on the pins: the
\* preparation latched the right values out of the pipelines, no voxel was
\* skipped, visited twice or read for another address, in any cast of a
\* sequence of casts and resets.
CastMatchesReference ==
    hit_valid /\ ~rst /\ ~rst_in =>
        [block |-> hit, norm |-> hit_norm] = MockCast(CurrentRay)

\* The traversal never takes the memory's word for a voxel it has left.
NoStaleVoxel == state = "TRAVERSING" /\ ram_valid => ram_out = Rom(ram_addr)

\* The unit with its memory is a RayPromise.
Promised == INSTANCE RayPromise WITH
    Earliest <- EarliestAnswer, Latest <- LatestAnswer,
    NoAnswer <- [block |-> Air, norm |-> vzero], Answer <- MockCast,
    ray <- CurrentRay, age <- age, answered <- hit_valid,
    answer <- [block |-> hit, norm |-> hit_norm]

KeepsPromise == Promised!Promise

\* Once resets stop, every ray is answered: no ray can make the unit wait for
\* its memory for ever.
EveryRayAnswered == <>[](~rst_in) => []<>hit_valid

=============================================================================
