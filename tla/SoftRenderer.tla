----------------------------- MODULE SoftRenderer -----------------------------
(***************************************************************************)
(* The software model of the renderer, sw/src: traversal units (vtu.rs)    *)
(* and the orchestrator (orchestrator.rs) over the caches of SoftCache,    *)
(* stepped by top_level.rs and by the window's update loop (main.rs).      *)
(*                                                                         *)
(* One call of TopLevel::rising_clk_edge runs the parts one after the      *)
(* other, so that each sees what the parts before it left in this very     *)
(* edge; pc says whose rising_clk_edge comes next.  A ray is a pixel and   *)
(* the camera it was aimed from; the arithmetic that picks its voxels is   *)
(* represented by the path it yields.                                      *)
(***************************************************************************)
EXTENDS SoftCache

CONSTANTS
    NumPixels,      \* Orchestrator::NUM_PIXELS
    MaxSteps,       \* 110: units look no further
    Camera,         \* camera_pos_in with camera_heading_in
    Home,           \* the camera TopLevel sets on reset
    Voxel(_, _),    \* the n-th voxel on a ray's path
    Axis(_, _),     \* the axis of the step into it, for n > 0
    Sign(_, _)      \* the direction of a ray's steps along an axis

\* The rays cast: the last one given out in a frame is past its pixels.
Ray == [pixel : 0 .. NumPixels, camera : Camera]

ASSUME SoftRendererAssumption ==
    /\ NumPixels \in Nat \ {0} /\ MaxSteps \in Nat /\ Home \in Camera
    /\ \A r \in Ray : /\ \A n \in 0 .. MaxSteps + 1 : Voxel(r, n) \in Addr
                      /\ \A n \in 1 .. MaxSteps + 1 : Axis(r, n) \in {"x", "y", "z"}

VARIABLES
    pc, reset, loop,        \* main.rs: the running while of update
    camera_in,              \* camera_pos_in, camera_heading_in
    vtu,                    \* the units
    next_pixel, camera, frame_buffer, frame_done_out,
    shown                   \* history: camera of the frame last finished, if any

orchestratorvars == <<next_pixel, camera, frame_buffer, frame_done_out, shown>>
mainvars == <<reset, loop, camera_in>>
vars == <<pc, mainvars, cachevars, vtu, orchestratorvars>>

NoNormal == <<"none", 0>>
Forward == <<"z", 1>>
NoAnswer == [block |-> Air, normal |-> NoNormal]

-----------------------------------------------------------------------------
(* The traversal units.                                                    *)

AtHome == [pixel |-> 0, camera |-> Home]

Normal(r, axis) == IF axis = "none" THEN NoNormal ELSE <<axis, -Sign(r, axis)>>

TooFar(u) == u.num_steps > MaxSteps

\* What unit v does at its edge: the first of these that applies.
Doing(v) ==
    IF reset THEN "reset"
    ELSE IF vtu[v].ray_init_in THEN "init"
    ELSE IF vtu[v].valid THEN "hold"
    ELSE IF TooFar(vtu[v]) THEN "give up"
    ELSE IF ~valid_out[v] THEN "stall"
    ELSE IF voxel_out[v] # Air THEN "hit"
    ELSE "advance"

\* num_steps and valid start afresh; last_step and normal are left alone.
InitRay(u) == [u EXCEPT !.ray = u.ray_in, !.num_steps = 0, !.valid = FALSE]

\* The mutant remembers the step before.
MutAdvance(u) == [u EXCEPT !.last_step = Axis(u.ray, u.num_steps), !.num_steps = @ + 1]

Advance(u) == [u EXCEPT !.last_step = Axis(u.ray, u.num_steps + 1), !.num_steps = @ + 1]

After(u, doing, voxel) ==
    CASE doing = "reset"   -> [u EXCEPT !.hit = Air, !.valid = FALSE, !.normal = Forward,
                                        !.ray = AtHome, !.num_steps = 0, !.last_step = "none"]
      [] doing = "init"    -> InitRay(u)
      [] doing = "give up" -> [u EXCEPT !.hit = Air, !.valid = TRUE]
      [] doing = "hit"     -> [u EXCEPT !.hit = voxel, !.valid = TRUE,
                                        !.normal = Normal(u.ray, u.last_step)]
      [] doing = "advance" -> Advance(u)
      [] OTHER             -> u

MutQueries == {"advance"}

\* What makes a unit query the voxel it has come to, or query no more.
StartsQuery == {"init", "advance"}
StopsQuery == {"reset", "give up", "hit"}

VTUEdge ==
    /\ vtu' = [v \in VTUs |-> After(vtu[v], Doing(v), voxel_out[v])]
    /\ addr_in' = [v \in VTUs |->
                     IF Doing(v) \in StartsQuery THEN Voxel(vtu'[v].ray, vtu'[v].num_steps)
                                                 ELSE addr_in[v]]
    /\ read_enable_in' = [v \in VTUs |->
                     Doing(v) \in StartsQuery
                         \/ (read_enable_in[v] /\ Doing(v) \notin StopsQuery)]
    /\ UNCHANGED <<answers, entries, next_replacement, l3in, l3out>>

-----------------------------------------------------------------------------
(* The orchestrator.                                                       *)

OrchestratorReset ==
    /\ frame_buffer' = [p \in 0 .. NumPixels - 1 |-> NoAnswer]
    /\ frame_done_out' = FALSE
    /\ camera' = Home
    /\ next_pixel' = NumPixels
    /\ UNCHANGED <<vtu, shown>>

FrameOver == next_pixel = NumPixels

\* All units start with the first pixel.
StartFrame ==
    /\ frame_done_out' = (next_pixel = NumPixels - 1)
    /\ next_pixel' = 0
    /\ camera' = camera_in
    /\ shown' = IF frame_done_out THEN <<camera>> ELSE shown
    /\ vtu' = [v \in VTUs |->
                 [vtu[v] EXCEPT !.ray_in = [pixel |-> 0, camera |-> camera_in],
                                !.ray_init_in = TRUE, !.current_pixel = 0]]
    /\ UNCHANGED frame_buffer

Ready == {v \in VTUs : vtu[v].valid}

\* Mutant: the answer goes where the next ray will.
MutServe(v) ==
    /\ frame_buffer' = [frame_buffer EXCEPT ![(next_pixel + 1) % NumPixels] =
                          [block |-> vtu[v].hit, normal |-> vtu[v].normal]]
    /\ next_pixel' = next_pixel + 1
    /\ vtu' = [w \in VTUs |->
                 IF w # v THEN [vtu[w] EXCEPT !.ray_init_in = FALSE]
                 ELSE [vtu[v] EXCEPT !.ray_in = [pixel |-> next_pixel', camera |-> camera],
                                     !.current_pixel = next_pixel', !.ray_init_in = TRUE]]

\* Draw unit v's pixel and give it the next ray.
Serve(v) ==
    /\ frame_buffer' = [frame_buffer EXCEPT ![vtu[v].current_pixel] =
                          [block |-> vtu[v].hit, normal |-> vtu[v].normal]]
    /\ next_pixel' = next_pixel + 1
    /\ vtu' = [w \in VTUs |->
                 IF w # v THEN [vtu[w] EXCEPT !.ray_init_in = FALSE]
                 ELSE [vtu[v] EXCEPT !.ray_in = [pixel |-> next_pixel', camera |-> camera],
                                     !.current_pixel = next_pixel', !.ray_init_in = TRUE]]

\* Only the first unit that is ready is served.
Draw ==
    /\ frame_done_out' = (next_pixel = NumPixels - 1)
    /\ IF Ready # {} THEN Serve(First(Ready))
       ELSE /\ vtu' = [v \in VTUs |-> [vtu[v] EXCEPT !.ray_init_in = FALSE]]
            /\ UNCHANGED <<next_pixel, frame_buffer>>
    /\ UNCHANGED <<camera, shown>>

-----------------------------------------------------------------------------
(* TopLevel::rising_clk_edge, and the loop around it.                      *)

Init ==
    /\ CacheInit
    /\ pc = "l2" /\ reset = TRUE /\ loop = "done" /\ camera_in = Home
    /\ vtu = [v \in VTUs |->
                [ray_in |-> AtHome, ray_init_in |-> FALSE, current_pixel |-> 0,
                 ray |-> AtHome, num_steps |-> 0, last_step |-> "none",
                 hit |-> Air, normal |-> NoNormal, valid |-> FALSE]]
    /\ next_pixel = 0 /\ camera = Home /\ shown = <<>> /\ frame_done_out = FALSE
    /\ frame_buffer = [p \in 0 .. NumPixels - 1 |-> NoAnswer]

StepL2 ==
    /\ pc = "l2" /\ pc' = "l3"
    /\ IF reset THEN L2Reset ELSE L2Edge
    /\ UNCHANGED <<mainvars, vtu, orchestratorvars>>

StepL3 ==
    /\ pc = "l3" /\ pc' = "vtu"
    /\ IF reset THEN L3Reset ELSE L3Edge
    /\ UNCHANGED <<mainvars, vtu, orchestratorvars>>

StepVTU ==
    /\ pc = "vtu" /\ pc' = "orchestrator"
    /\ VTUEdge
    /\ UNCHANGED <<mainvars, orchestratorvars>>

StepOrchestrator ==
    /\ pc = "orchestrator" /\ pc' = "main"
    /\ CASE reset              -> OrchestratorReset
         [] ~reset /\ FrameOver -> StartFrame
         [] OTHER              -> Draw
    /\ reset' = FALSE
    /\ UNCHANGED <<loop, camera_in, cachevars>>

\* "while !frame_done_out" and then "while frame_done_out" step the edges.
Clock ==
    /\ pc = "main"
    /\ ~(loop = "done" /\ ~frame_done_out)
    /\ pc' = "l2"
    /\ loop' = IF frame_done_out THEN "done" ELSE loop
    /\ UNCHANGED <<reset, camera_in, cachevars, vtu, orchestratorvars>>

\* Between two calls of update the frame is shown and the camera moves.
Update(c) ==
    /\ pc = "main"
    /\ loop = "done" /\ ~frame_done_out
    /\ camera_in' = c
    /\ loop' = "rendering"
    /\ UNCHANGED <<pc, reset, cachevars, vtu, orchestratorvars>>

Next == \/ StepL2 \/ StepL3 \/ StepVTU \/ StepOrchestrator \/ Clock
        \/ \E c \in Camera : Update(c)

Spec == Init /\ [][Next]_vars /\ WF_vars(Next)

-----------------------------------------------------------------------------
(* The reference: mock_cast, looking no further than the clocked units, in *)
(* every pixel of mock_render.                                             *)

MockCast(r) ==
    LET solid == {n \in 0 .. MaxSteps : Query(Voxel(r, n)) # Air}
        n == First(solid)
    IN  IF solid = {} THEN NoAnswer
        ELSE [block |-> Query(Voxel(r, n)),
              normal |-> IF n = 0 THEN NoNormal
                         ELSE <<Axis(r, n), -Sign(r, Axis(r, n))>>]

MockRender(c) ==
    [p \in 0 .. NumPixels - 1 |-> MockCast([pixel |-> p, camera |-> c]).block]

Shown == [p \in 0 .. NumPixels - 1 |-> frame_buffer[p].block]

-----------------------------------------------------------------------------
\* The assertion of the L2 on every fill, "make sure there are no duplicates".
NoDuplicateFill == pc = "l2" /\ ~reset /\ l3_valid_out => Holding(entries, l3_addr_in) = {}

\* The L2 answers a unit for the voxel the unit is at, although the answer was
\* for another voxel, or another ray, an edge ago.
SeesItsVoxel ==
    pc = "vtu" => \A v \in VTUs :
        Doing(v) \in {"hit", "advance"} =>
            voxel_out[v] = Query(Voxel(vtu[v].ray, vtu[v].num_steps))

\* When the orchestrator looks, a valid answer is the reference's for the ray on
\* the unit's inputs: its block always, its normal once the ray has taken a step.
\* The normal of a ray that starts in a solid voxel is left out: the last_step it
\* answers with is that of the ray before it.
AnswerMatchesMock ==
    pc = "orchestrator" =>
        \A v \in Ready :
            LET expected == MockCast(vtu[v].ray_in)
            IN  /\ vtu[v].hit = expected.block
                /\ vtu[v].hit # Air /\ vtu[v].num_steps > 0 =>
                       vtu[v].normal = expected.normal

\* The frame the window shows after an update is the reference's, all of it, for
\* one camera: the one in place when the frame was started.
FrameComplete ==
    pc = "main" /\ loop = "done" /\ ~frame_done_out /\ shown # <<>> =>
        Shown = MockRender(shown[1])

\* update returns: every frame is finished, whatever the world looks like.
FramesFollow == []<>(loop = "rendering") /\ []<>(loop = "done")

=============================================================================
