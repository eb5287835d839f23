--------------------------------- MODULE VTU ---------------------------------
(***************************************************************************)
(* The voxel traversal unit of hw/src/hdl/vtu.sv: prepares a ray in        *)
(* thirteen edges, timed by init_timer against the latencies of the        *)
(* normalizer (six edges) and of the reciprocal unit (three), and then     *)
(* walks the ray voxel by voxel until it meets a block or has taken more   *)
(* than MaxSteps steps.                                                    *)
(*                                                                         *)
(* Every action is one rising edge of clk_in.  The ray pins are variables  *)
(* of the driver; the memory's answer is a parameter of the edge.  The two *)
(* arithmetic pipelines hold the inputs in flight: their outputs are a     *)
(* function of what entered them a fixed number of edges ago.              *)
(***************************************************************************)
EXTENDS BlockPos

CONSTANTS
    Block,      \* the values of BlockType
    Air,        \* BLOCK_AIR
    MaxSteps    \* 60: a ray that has taken more steps hits nothing

ASSUME VTUAssumption ==
    /\ Air \in Block
    /\ MaxSteps \in Nat

VARIABLES
    ray_origin, ray_direction,      \* input pins, held while a ray is cast
    state, init_timer,
    ray_ori, ray_dir, ray_pos, ray_step,
    ray_d_dt, ray_dist, ray_t_max,
    last_step, num_steps,
    hit, hit_norm, hit_valid,
    ram_read_enable,
    recip_in,
    normalizing,                    \* inputs in flight in normalize_ray_dir
    inverting                       \* inputs in flight in recip

rayvars == <<ray_ori, ray_dir, ray_pos, ray_step, ray_d_dt, ray_dist, ray_t_max>>
walkvars == <<last_step, num_steps, hit, hit_norm, hit_valid>>
vtuvars == <<state, init_timer, rayvars, walkvars, ram_read_enable, recip_in,
             normalizing, inverting>>

-----------------------------------------------------------------------------
(* Combinational outputs.                                                  *)

\* The position asked for has fewer bits than ray_pos.
ram_addr == BlockPosOf(ray_pos)

ray_direction_normalized == vnormalize(normalizing[6])
recip_out == recip(inverting[3])

\* What every edge feeds to the two pipelines.
Shift ==
    /\ normalizing' = [i \in 1 .. 6 |-> IF i = 1 THEN ray_direction ELSE normalizing[i - 1]]
    /\ inverting' = [i \in 1 .. 3 |-> IF i = 1 THEN recip_in ELSE inverting[i - 1]]

-----------------------------------------------------------------------------
VTUInit ==
    /\ state = "INIT"
    /\ init_timer = 0
    /\ ray_ori = vzero /\ ray_dir = vzero /\ ray_pos = vzero
    /\ ray_step = [i \in Axes |-> -1]
    /\ ray_d_dt = vzero /\ ray_dist = vzero /\ ray_t_max = vzero
    /\ last_step = "none" /\ num_steps = 0
    /\ hit = Air /\ hit_norm = vzero /\ hit_valid = FALSE
    /\ ram_read_enable = FALSE
    /\ recip_in = 0
    /\ normalizing = [i \in 1 .. 6 |-> vzero]
    /\ inverting = [i \in 1 .. 3 |-> 0]

\* An edge with rst_in high latches the origin; the direction must stay on its
\* pins until init_timer is 5.
VTUReset ==
    /\ state' = "INIT"
    /\ init_timer' = 0
    /\ ray_ori' = ray_origin
    /\ ray_pos' = vfloor(ray_origin)
    /\ ray_step' = [i \in Axes |-> IF ray_direction[i] > 0 THEN 1 ELSE -1]
    /\ ray_dir' = vzero /\ ray_d_dt' = vzero /\ ray_dist' = vzero /\ ray_t_max' = vzero
    /\ last_step' = "none" /\ num_steps' = 0
    /\ hit' = Air /\ hit_norm' = vzero /\ hit_valid' = FALSE
    /\ ram_read_enable' = FALSE
    /\ recip_in' = 0
    /\ Shift

\* The distance, along each axis, from the origin to the first boundary.
FirstDistance(i) ==
    LET corner == Signed(ray_pos[i] * 2^D, B)
    IN  IF ray_step[i] > 0 THEN fsub(FIXED_1, fadd(ray_ori[i], corner))
                           ELSE fsub(ray_ori[i], corner)

FirstBoundary(i) ==
    IF ray_dir[i] = 0 THEN FIXED_MAX ELSE fmul(ray_d_dt[i], ray_dist[i])

\* Values of init_timer at which the normalizer has finished with the direction
\* and the reciprocal unit with its x component.
MutDirectionReadyAt == 4
DirectionReadyAt == 5
ReciprocalReadyAt == 9

\* An edge of the preparation.
InitEdge ==
    LET at(t) == init_timer = t
    IN  /\ state = "INIT"
        /\ init_timer' = init_timer + 1
        /\ ray_dir' = IF at(DirectionReadyAt) THEN ray_direction_normalized ELSE ray_dir
        /\ ray_dist' = IF at(DirectionReadyAt) THEN [i \in Axes |-> FirstDistance(i)] ELSE ray_dist
        /\ recip_in' = CASE at(DirectionReadyAt) -> ray_direction_normalized["x"]
                         [] at(DirectionReadyAt + 1) -> ray_dir["y"]
                         [] at(DirectionReadyAt + 2) -> ray_dir["z"]
                         [] OTHER -> recip_in
        /\ ray_d_dt' = CASE at(ReciprocalReadyAt) -> [ray_d_dt EXCEPT !["x"] = fabs(recip_out)]
                         [] at(ReciprocalReadyAt + 1) -> [ray_d_dt EXCEPT !["y"] = fabs(recip_out)]
                         [] at(ReciprocalReadyAt + 2) -> [ray_d_dt EXCEPT !["z"] = fabs(recip_out)]
                         [] OTHER -> ray_d_dt
        /\ ray_t_max' = IF at(12) THEN [i \in Axes |-> FirstBoundary(i)] ELSE ray_t_max
        /\ state' = IF at(12) THEN "TRAVERSING" ELSE "INIT"
        /\ ram_read_enable' = at(12)
        /\ Shift
        /\ UNCHANGED <<ray_ori, ray_pos, ray_step, walkvars>>

\* The axis whose boundary comes first; the last axis tried wins ties.
NextAxis(t) ==
    IF t["x"] < t["y"] /\ t["x"] < t["z"] THEN "x"
    ELSE IF t["x"] >= t["y"] /\ t["y"] < t["z"] THEN "y"
    ELSE "z"

\* Towards where the ray came from, one unit long.
FacingNormal ==
    [i \in Axes |-> IF i = last_step THEN fneg(ray_step[i] * 2^D) ELSE 0]

MutFinishOnlyHits(block, normal) ==
    /\ hit' = block
    /\ hit_norm' = normal
    /\ hit_valid' = (block # Air)
    /\ ram_read_enable' = FALSE
    /\ state' = "IDLE"

Finish(block, normal) ==
    /\ hit' = block
    /\ hit_norm' = normal
    /\ hit_valid' = TRUE
    /\ ram_read_enable' = FALSE
    /\ state' = "IDLE"

\* Move into the next voxel.
Advance ==
    LET i == NextAxis(ray_t_max)
    IN  /\ ray_pos' = [ray_pos EXCEPT ![i] = Signed(@ + ray_step[i], B - D)]
        /\ ray_t_max' = [ray_t_max EXCEPT ![i] = fadd(@, ray_d_dt[i])]
        /\ last_step' = i
        /\ num_steps' = num_steps + 1
        /\ UNCHANGED <<ray_ori, ray_dir, ray_step, ray_d_dt, ray_dist>>

MutTooFar == num_steps > MaxSteps + 1

TooFar == num_steps > MaxSteps

\* An edge of the traversal.  A block that is answered at the very edge the
\* unit gives up at overrides the giving up.
TraverseEdge(ram_out, ram_valid) ==
    LET found == ram_valid /\ ram_out # Air
    IN  /\ state = "TRAVERSING"
        /\ CASE found            -> Finish(ram_out, FacingNormal)
             [] ~found /\ TooFar -> Finish(Air, vzero)
             [] OTHER            -> UNCHANGED <<hit, hit_norm, hit_valid,
                                                ram_read_enable, state>>
        /\ IF ram_valid /\ ~found THEN Advance
                                  ELSE UNCHANGED <<rayvars, last_step, num_steps>>
        /\ Shift
        /\ UNCHANGED <<init_timer, recip_in>>

IdleEdge ==
    /\ state = "IDLE"
    /\ Shift
    /\ UNCHANGED <<state, init_timer, rayvars, walkvars, ram_read_enable, recip_in>>

\* An edge with rst_in low.
VTUEdge(ram_out, ram_valid) ==
    InitEdge \/ TraverseEdge(ram_out, ram_valid) \/ IdleEdge

=============================================================================
