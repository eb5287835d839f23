----------------------------- MODULE Orchestrator -----------------------------
(***************************************************************************)
(* The frame renderer of hw/src/hdl/orchestrator.sv: on rst_in it latches  *)
(* the camera, derives the camera's basis in seventeen edges through one   *)
(* normalizer, then hands the pixels of the frame, one after the other, to *)
(* the voxel traversal units and writes their answers to the frame buffer. *)
(*                                                                         *)
(* Every step is one rising edge of clk_in.  Each unit with its memory is  *)
(* a RayPromise, which RayCaster implements.  A vector is represented by   *)
(* what it was computed from: the camera, and whether it lies along the    *)
(* heading, the side or the up direction; whatever mixes cameras or        *)
(* directions is Garbage.                                                  *)
(***************************************************************************)
EXTENDS Integers, Sequences, FiniteSets

CONSTANTS
    NumVTU,             \* NUM_VTU
    FrameArea,          \* FRAME_AREA
    Camera,             \* camera positions with their headings
    Earliest, Latest,   \* edges a unit takes to answer
    MaxResets           \* bound: edges with rst_in high in a behaviour

ASSUME OrchestratorAssumption ==
    /\ NumVTU \in Nat \ {0}
    /\ FrameArea \in Nat \ {0}
    /\ Earliest \in Nat \ {0} /\ Latest \in Nat /\ Earliest <= Latest
    /\ MaxResets \in Nat \ {0}

VARIABLES
    rst_in,                             \* input pin
    resets,                             \* edges with rst_in high so far
    state, init_timer,
    camera_pos, w, u, v,
    viewport,                           \* viewport_u and viewport_v
    pixel_delta,                        \* pixel_du and pixel_dv
    pixel0_loc,
    normalize_in,
    normalizing,                        \* inputs in flight in the normalizer
    next_pixel_addr, frame_done,
    rst, uninit, ray, vtu_write_addr,   \* per unit, registers
    age, hit_valid, hit,                \* per unit, the RayPromise
    frame_buffer                        \* blk_mem_gen_0 of top_level.sv

cameravars == <<camera_pos, w, u, v, viewport, pixel_delta, pixel0_loc, normalize_in>>
unitvars == <<rst, uninit, ray, vtu_write_addr>>
promises == <<age, hit_valid, hit>>
vars == <<rst_in, resets, state, init_timer, cameravars, normalizing, next_pixel_addr,
          frame_done, unitvars, promises, frame_buffer>>

VTUs == 0 .. NumVTU - 1
Pixels == 0 .. FrameArea - 1

-----------------------------------------------------------------------------
(* Vectors, rays and answers.                                              *)

Garbage == [of |-> "garbage"]
Vector(of, c) == [of |-> of, cam |-> c]
Vectors == {Garbage} \cup [of : {"position", "heading", "side", "up"}, cam : Camera]

\* The result of a computation that needs vectors a and b of one camera, along
\* the directions given.
Derive(a, of_a, b, of_b, of) ==
    IF /\ a # Garbage /\ b # Garbage
       /\ a.of = of_a /\ b.of = of_b /\ a.cam = b.cam
    THEN Vector(of, a.cam) ELSE Garbage

\* A ray to a pixel from the camera its three parts agree on.
Rays == [pixel : Pixels, from : Vectors]

NoAnswer == [pixel |-> 0, from |-> Garbage]
Answer(r) == r

-----------------------------------------------------------------------------
(* Combinational signals.                                                  *)

MutVtuValidInReset(j) == hit_valid[j]

vtu_valid(j) == hit_valid[j] /\ ~rst[j]

Answering == {j \in VTUs : vtu_valid(j)}

\* The last unit of the loop that answers drives the port of the frame buffer.
Chosen == CHOOSE j \in Answering : \A k \in Answering : k <= j

sbuf_write_enable == ~rst_in /\ state = "RENDERING" /\ Answering # {}
sbuf_addr == vtu_write_addr[Chosen] % FrameArea
sbuf_data == hit[Chosen]

\* The ray to next_pixel_addr; the column and the row use the low bits only.
NextRay ==
    [pixel |-> next_pixel_addr % FrameArea,
     from |-> Derive(Derive(camera_pos, "position", pixel0_loc, "position", "position"),
                     "position", pixel_delta, "up", "position")]

normalize_out == normalizing[6]

-----------------------------------------------------------------------------
(* Parts of an edge.                                                       *)

Shift == normalizing' = <<normalize_in>> \o SubSeq(normalizing, 1, 5)

\* rst_in may rise and fall at any edge, while the bound allows it.
Pins == /\ resets' = IF rst_in THEN resets + 1 ELSE resets
        /\ rst_in' \in IF resets' < MaxResets THEN BOOLEAN ELSE {FALSE}

Unit(j) == INSTANCE RayPromise WITH
    ray <- ray[j], age <- age[j], answered <- hit_valid[j], answer <- hit[j]

\* Every unit sees the edge; those in Resetting see it with rst_in | rst.
UnitsEdge(Resetting) ==
    \E deliver \in SUBSET {j \in VTUs \ Resetting : ~hit_valid[j]} :
        /\ age' = [j \in VTUs |->
                     IF j \in Resetting THEN 0
                     ELSE IF age[j] < Latest THEN age[j] + 1 ELSE age[j]]
        /\ hit_valid' = [j \in VTUs |->
                           j \notin Resetting /\ (hit_valid[j] \/ j \in deliver)]
        /\ hit' = [j \in VTUs |-> IF j \in Resetting THEN NoAnswer
                                  ELSE IF j \in deliver THEN Answer(ray[j])
                                  ELSE hit[j]]
        /\ \A j \in VTUs : IF j \in Resetting THEN Unit(j)!Start ELSE Unit(j)!Tick

InReset == {j \in VTUs : rst[j]}

\* Units to be given a ray at an edge of the rendering.
Reassigned == {j \in VTUs : vtu_valid(j) \/ uninit[j]}

MutAssignRaysSticky ==
    /\ rst' = [j \in VTUs |-> rst[j] \/ j \in Reassigned]
    /\ uninit' = [j \in VTUs |-> uninit[j] /\ j \notin Reassigned]
    /\ ray' = [j \in VTUs |-> IF j \in Reassigned THEN NextRay ELSE ray[j]]
    /\ vtu_write_addr' = [j \in VTUs |-> IF j \in Reassigned THEN next_pixel_addr
                                         ELSE vtu_write_addr[j]]

AssignRays ==
    /\ rst' = [j \in VTUs |-> j \in Reassigned]
    /\ uninit' = [j \in VTUs |-> uninit[j] /\ j \notin Reassigned]
    /\ ray' = [j \in VTUs |-> IF j \in Reassigned THEN NextRay ELSE ray[j]]
    /\ vtu_write_addr' = [j \in VTUs |-> IF j \in Reassigned THEN next_pixel_addr
                                         ELSE vtu_write_addr[j]]

-----------------------------------------------------------------------------
Init ==
    /\ rst_in = TRUE /\ resets = 0
    /\ state = "INIT" /\ init_timer = 0
    /\ camera_pos = Garbage /\ w = Garbage /\ u = Garbage /\ v = Garbage
    /\ viewport = Garbage /\ pixel_delta = Garbage /\ pixel0_loc = Garbage
    /\ normalize_in = Garbage /\ normalizing = [i \in 1 .. 6 |-> Garbage]
    /\ next_pixel_addr = 0 /\ frame_done = FALSE
    /\ rst \in [VTUs -> BOOLEAN] /\ uninit = [j \in VTUs |-> FALSE]
    /\ ray = [j \in VTUs |-> NoAnswer] /\ vtu_write_addr = [j \in VTUs |-> 0]
    /\ age = [j \in VTUs |-> 0] /\ hit_valid = [j \in VTUs |-> FALSE]
    /\ hit = [j \in VTUs |-> NoAnswer]
    /\ frame_buffer = [p \in Pixels |-> NoAnswer]

\* An edge with rst_in high starts a frame with the camera now on the pins.  The
\* units' registers, rst among them, keep their values.
ResetEdge(camera) ==
    /\ rst_in
    /\ frame_done' = FALSE
    /\ state' = "INIT" /\ init_timer' = 0
    /\ camera_pos' = Vector("position", camera)
    /\ normalize_in' = Vector("heading", camera)
    /\ next_pixel_addr' = 0
    /\ uninit' = [j \in VTUs |-> TRUE]
    /\ UnitsEdge(VTUs)
    /\ Shift /\ Pins
    /\ UNCHANGED <<w, u, v, viewport, pixel_delta, pixel0_loc, rst, ray,
                   vtu_write_addr, frame_buffer>>

\* Values of init_timer at which the normalizer has finished w and u.
HeadingReadyAt == 6
MutSideReadyAt == 12
SideReadyAt == 13

\* The preparation of a frame.
InitEdge ==
    LET at(t) == init_timer = t
    IN  /\ ~rst_in /\ state = "INIT"
        /\ init_timer' = init_timer + 1
        /\ w' = IF at(HeadingReadyAt) THEN normalize_out ELSE w
        /\ normalize_in' = IF at(HeadingReadyAt)
                           THEN Derive(normalize_out, "heading", normalize_out, "heading", "side")
                           ELSE normalize_in
        /\ u' = IF at(SideReadyAt) THEN normalize_out ELSE u
        /\ v' = IF at(14) THEN Derive(w, "heading", u, "side", "up") ELSE v
        /\ viewport' = IF at(15) THEN Derive(u, "side", v, "up", "up") ELSE viewport
        /\ pixel_delta' = IF at(15) THEN Derive(u, "side", v, "up", "up") ELSE pixel_delta
        /\ pixel0_loc' = IF at(16)
                         THEN Derive(Derive(camera_pos, "position", w, "heading", "position"),
                                     "position",
                                     Derive(viewport, "up", pixel_delta, "up", "up"), "up",
                                     "position")
                         ELSE pixel0_loc
        /\ state' = IF at(16) THEN "RENDERING" ELSE "INIT"
        /\ UnitsEdge(InReset)
        /\ Shift /\ Pins
        /\ UNCHANGED <<camera_pos, next_pixel_addr, frame_done, unitvars, frame_buffer>>

MutFrameOverEarly == next_pixel_addr = FrameArea - 1

FrameOver == next_pixel_addr = FrameArea

\* The rendering: an answer is written, its unit gets the next pixel, and the
\* counter advances by one for any number of answers.
RenderEdge ==
    /\ ~rst_in /\ state = "RENDERING"
    /\ frame_buffer' = IF sbuf_write_enable
                       THEN [frame_buffer EXCEPT ![sbuf_addr] = sbuf_data]
                       ELSE frame_buffer
    /\ AssignRays
    /\ next_pixel_addr' = IF Answering # {} THEN next_pixel_addr + 1 ELSE next_pixel_addr
    /\ IF FrameOver
       THEN state' = "IDLE" /\ frame_done' = TRUE
       ELSE UNCHANGED <<state, frame_done>>
    /\ UnitsEdge(InReset)
    /\ Shift /\ Pins
    /\ UNCHANGED <<init_timer, cameravars>>

IdleEdge ==
    /\ ~rst_in /\ state = "IDLE"
    /\ UnitsEdge(InReset)
    /\ Shift /\ Pins
    /\ UNCHANGED <<state, init_timer, cameravars, next_pixel_addr, frame_done,
                   unitvars, frame_buffer>>

Next == (\E camera \in Camera : ResetEdge(camera)) \/ InitEdge \/ RenderEdge \/ IdleEdge

\* The clock ticks; that the pin rst_in rises is never forced by it, even when
\* nothing else is left to happen.
Spec == Init /\ [][Next]_vars /\ WF_vars(Next /\ ~rst_in')

-----------------------------------------------------------------------------
\* What pixel p of the frame being rendered must show.
Expected(p) == [pixel |-> p, from |-> camera_pos]

\* Once the rays are handed out, everything they are computed from belongs to
\* the camera latched by the last reset, although the normalizer may still hold
\* vectors of an earlier frame when it was interrupted.
FrameHasOneCamera ==
    state # "INIT" => NextRay.from = camera_pos /\ camera_pos # Garbage

\* After the first write of a frame, every write is the pixel before the next
\* one to be handed out, with its own ray: no pixel is skipped, swapped with
\* another or taken from another frame.
WritesInOrder ==
    sbuf_write_enable /\ next_pixel_addr > 0 =>
        /\ sbuf_addr = next_pixel_addr - 1
        /\ sbuf_data = Expected(sbuf_addr)

\* When the frame is done every pixel but the last shows this frame.
DoneButLast ==
    frame_done => \A p \in Pixels \ {FrameArea - 1} : frame_buffer[p] = Expected(p)

\* After the last reset the frame is finished and stays so, whichever legal times
\* the units take for their answers.
FrameFinishes == <>[]frame_done

=============================================================================
