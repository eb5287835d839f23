-------------------------- MODULE OrchestratorProofs --------------------------
(***************************************************************************)
(* Theorems about the orchestrator.  CameraInv follows the vectors of the   *)
(* latched camera through the normalizer and the registers, edge by edge;   *)
(* what resets have left in the later stages never reaches a register of    *)
(* the frame.  It holds for any number of units.  PixelInv follows the one  *)
(* pixel that is out and the pixels that are in; it needs that there is one *)
(* unit, as in top_level.sv: of several that answer at the same edge only   *)
(* one is written.  Nothing is assumed of when a unit answers.              *)
(***************************************************************************)
EXTENDS Orchestrator, SequenceTheorems, TLAPS

Directions == {"position", "heading", "side", "up"}

-----------------------------------------------------------------------------
(* Vectors, and the shift of the normalizer.                               *)

LEMMA VectorFacts ==
    \A of \in Directions, c \in Camera :
        /\ Vector(of, c) \in Vectors
        /\ Vector(of, c) # Garbage
        /\ Vector(of, c).of = of
        /\ Vector(of, c).cam = c
BY DEF Vector, Vectors, Garbage, Directions

LEMMA DeriveSame ==
    \A c \in Camera, a, b, of \in Directions :
        Derive(Vector(a, c), a, Vector(b, c), b, of) = Vector(of, c)
BY VectorFacts DEF Derive

LEMMA GarbageIsVector == Garbage \in Vectors
BY DEF Vectors

LEMMA ShiftEffect ==
    ASSUME normalizing \in Seq(Vectors), Len(normalizing) = 6, normalize_in \in Vectors, Shift
    PROVE  /\ normalizing' \in Seq(Vectors)
           /\ Len(normalizing') = 6
           /\ normalizing'[1] = normalize_in
           /\ \A i \in 2 .. 6 : normalizing'[i] = normalizing[i - 1]
<1> DEFINE kept == SubSeq(normalizing, 1, 5)
           first == <<normalize_in>>
<1>1. \A i \in 1 .. 5 : normalizing[i] \in Vectors OBVIOUS
<1>2. /\ kept \in Seq(Vectors)
      /\ Len(kept) = IF 1 <= 5 THEN 5 - 1 + 1 ELSE 0
      /\ \A i \in 1 .. 5 - 1 + 1 : kept[i] = normalizing[1 + i - 1]
      BY <1>1, SubSeqProperties
<1>3. Len(kept) = 5 /\ \A i \in 1 .. 5 : kept[i] = normalizing[i] BY <1>1, <1>2
<1>4. first \in Seq(Vectors) /\ Len(first) = 1 /\ first[1] = normalize_in OBVIOUS
<1>5. normalizing' = first \o kept BY DEF Shift
<1> HIDE DEF kept, first
<1>6. /\ first \o kept \in Seq(Vectors)
      /\ Len(first \o kept) = Len(first) + Len(kept)
      /\ \A i \in 1 .. Len(first) + Len(kept) :
            (first \o kept)[i] = IF i <= Len(first) THEN first[i] ELSE kept[i - Len(first)]
      BY <1>2, <1>4, ConcatProperties
<1>7. /\ Len(normalizing') = 6
      /\ \A i \in 1 .. 6 : normalizing'[i] = IF i <= 1 THEN first[i] ELSE kept[i - 1]
      BY <1>3, <1>4, <1>5, <1>6
<1> QED BY <1>3, <1>4, <1>5, <1>6, <1>7

-----------------------------------------------------------------------------
(* The camera's basis, for any number of units.                            *)

\* A vector of the camera latched last.
Of(of) == Vector(of, camera_pos.cam)

PrepTypeOK ==
    /\ state \in {"INIT", "RENDERING", "IDLE"}
    /\ init_timer \in Nat
    /\ normalize_in \in Vectors
    /\ normalizing \in Seq(Vectors) /\ Len(normalizing) = 6

\* Only before the first reset is there no camera.
CameraLatched ==
    \/ camera_pos = Garbage /\ rst_in /\ state = "INIT"
    \/ \E c \in Camera : camera_pos = Vector("position", c)

\* What the preparation has reached when init_timer shows t.  What an earlier
\* frame left in the normalizer is in the stages behind the first t.
Prepared(t) ==
    /\ t <= 16
    /\ t <= 6 => /\ normalize_in = Of("heading")
                 /\ \A i \in 1 .. 6 : i <= t => normalizing[i] = Of("heading")
    /\ t >= 7 => /\ w = Of("heading")
                 /\ normalize_in = Of("side")
                 /\ \A i \in 1 .. 6 : i <= t - 7 => normalizing[i] = Of("side")
    /\ t >= 14 => u = Of("side")
    /\ t >= 15 => v = Of("up")
    /\ t >= 16 => viewport = Of("up") /\ pixel_delta = Of("up")

CameraInv ==
    /\ PrepTypeOK
    /\ CameraLatched
    /\ state = "INIT" /\ camera_pos # Garbage => Prepared(init_timer)
    /\ state # "INIT" => pixel0_loc = Of("position") /\ pixel_delta = Of("up")

LEMMA CameraInvInit == Init => CameraInv
<1> SUFFICES ASSUME Init PROVE CameraInv OBVIOUS
<1>1. normalizing = [i \in 1 .. 6 |-> Garbage] BY DEF Init
<1>2. normalizing \in Seq(Vectors) /\ Len(normalizing) = 6
      BY <1>1, GarbageIsVector
<1> QED BY <1>2, GarbageIsVector DEF Init, CameraInv, PrepTypeOK, CameraLatched

LEMMA ResetKeepsCamera ==
    ASSUME CameraInv, NEW c \in Camera, ResetEdge(c)
    PROVE CameraInv'
<1>1. /\ camera_pos' = Vector("position", c) /\ normalize_in' = Vector("heading", c)
      /\ state' = "INIT" /\ init_timer' = 0 /\ Shift
      BY DEF ResetEdge
<1>2. /\ normalize_in' \in Vectors /\ camera_pos'.cam = c
      BY <1>1, VectorFacts DEF Directions
<1>3. normalizing' \in Seq(Vectors) /\ Len(normalizing') = 6
      BY <1>1, ShiftEffect DEF CameraInv, PrepTypeOK
<1>4. Prepared(init_timer)' BY <1>1, <1>2 DEF Prepared, Of
<1> QED BY <1>1, <1>2, <1>3, <1>4 DEF CameraInv, PrepTypeOK, CameraLatched

LEMMA InitKeepsCamera ==
    ASSUME CameraInv, InitEdge
    PROVE CameraInv'
<1>1. PICK c \in Camera : camera_pos = Vector("position", c)
      BY DEF CameraInv, CameraLatched, InitEdge
<1> DEFINE h == Vector("heading", c)
           s == Vector("side", c)
           p == Vector("position", c)
           n == Vector("up", c)
<1>2. /\ camera_pos # Garbage /\ camera_pos.cam = c /\ camera_pos' = camera_pos
      BY <1>1, VectorFacts DEF InitEdge, Directions
<1>3. /\ Of("heading") = h /\ Of("heading")' = h /\ Of("side") = s /\ Of("side")' = s
      /\ Of("position") = p /\ Of("position")' = p /\ Of("up") = n /\ Of("up")' = n
      BY <1>2 DEF Of
<1>4. /\ init_timer \in Nat /\ state = "INIT" /\ ~rst_in /\ Prepared(init_timer)
      /\ normalizing \in Seq(Vectors) /\ Len(normalizing) = 6 /\ normalize_in \in Vectors
      BY <1>2 DEF InitEdge, CameraInv, PrepTypeOK
<1>5. /\ normalizing' \in Seq(Vectors) /\ Len(normalizing') = 6
      /\ normalizing'[1] = normalize_in
      /\ \A i \in 2 .. 6 : normalizing'[i] = normalizing[i - 1]
      BY <1>4, ShiftEffect DEF InitEdge
<1>6. /\ h \in Vectors /\ s \in Vectors
      /\ Derive(h, "heading", h, "heading", "side") = s
      /\ Derive(h, "heading", s, "side", "up") = n
      /\ Derive(s, "side", n, "up", "up") = n
      /\ Derive(n, "up", n, "up", "up") = n
      /\ Derive(p, "position", h, "heading", "position") = p
      /\ Derive(p, "position", n, "up", "position") = p
      BY VectorFacts, DeriveSame DEF Directions
<1> HIDE DEF h, s, p, n
<1>7. /\ init_timer' = init_timer + 1
      /\ init_timer = 6 =>
           /\ w' = normalizing[6]
           /\ normalize_in' = Derive(normalizing[6], "heading", normalizing[6], "heading", "side")
      /\ init_timer # 6 => w' = w /\ normalize_in' = normalize_in
      /\ u' = IF init_timer = 13 THEN normalizing[6] ELSE u
      /\ v' = IF init_timer = 14 THEN Derive(w, "heading", u, "side", "up") ELSE v
      /\ viewport' = IF init_timer = 15 THEN Derive(u, "side", v, "up", "up") ELSE viewport
      /\ pixel_delta' = IF init_timer = 15 THEN Derive(u, "side", v, "up", "up") ELSE pixel_delta
      /\ init_timer = 16 =>
           pixel0_loc' = Derive(Derive(camera_pos, "position", w, "heading", "position"),
                                "position", Derive(viewport, "up", pixel_delta, "up", "up"),
                                "up", "position")
      /\ state' = IF init_timer = 16 THEN "RENDERING" ELSE "INIT"
      BY DEF InitEdge, HeadingReadyAt, SideReadyAt, normalize_out
<1>8. /\ init_timer <= 16
      /\ init_timer <= 6 => /\ normalize_in = h
                            /\ \A i \in 1 .. 6 : i <= init_timer => normalizing[i] = h
      /\ init_timer >= 7 => /\ w = h /\ normalize_in = s
                            /\ \A i \in 1 .. 6 : i <= init_timer - 7 => normalizing[i] = s
      /\ init_timer >= 14 => u = s
      /\ init_timer >= 15 => v = n
      /\ init_timer >= 16 => viewport = n /\ pixel_delta = n
      BY <1>3, <1>4 DEF Prepared
<1>9. normalize_in' \in Vectors
  <2>1. CASE init_timer = 6
        BY <2>1, <1>4, <1>6, <1>7, <1>8
  <2>2. CASE init_timer # 6 BY <2>2, <1>4, <1>7
  <2> QED BY <2>1, <2>2
<1>10. CASE init_timer < 6
  <2>1. \A i \in 1 .. 6 : i <= init_timer + 1 => normalizing'[i] = h
        BY <1>4, <1>5, <1>8, <1>10
  <2>2. Prepared(init_timer)'
        BY <1>3, <1>4, <1>7, <1>8, <1>10, <2>1 DEF Prepared
  <2> QED BY <1>1, <1>2, <1>4, <1>5, <1>7, <1>9, <1>10, <2>2 DEF CameraInv, PrepTypeOK, CameraLatched
<1>11. CASE init_timer = 6
  <2>1. w' = h /\ normalize_in' = s BY <1>6, <1>7, <1>8, <1>11
  <2>2. Prepared(init_timer)'
        BY <1>3, <1>7, <1>11, <2>1 DEF Prepared
  <2> QED BY <1>1, <1>2, <1>4, <1>5, <1>7, <1>9, <1>11, <2>2 DEF CameraInv, PrepTypeOK, CameraLatched
<1>12. CASE init_timer \in 7 .. 15
  <2>1. \A i \in 1 .. 6 : i <= init_timer + 1 - 7 => normalizing'[i] = s
        BY <1>4, <1>5, <1>8, <1>12
  <2>2. w' = h /\ normalize_in' = s BY <1>7, <1>8, <1>12
  <2>3. init_timer + 1 >= 14 => u' = s BY <1>7, <1>8, <1>12
  <2>4. init_timer + 1 >= 15 => v' = n BY <1>6, <1>7, <1>8, <1>12
  <2>5. init_timer + 1 >= 16 => viewport' = n /\ pixel_delta' = n
        BY <1>6, <1>7, <1>8, <1>12
  <2>6. Prepared(init_timer)'
        BY <1>3, <1>7, <1>12, <2>1, <2>2, <2>3, <2>4, <2>5 DEF Prepared
  <2> QED BY <1>1, <1>2, <1>4, <1>5, <1>7, <1>9, <1>12, <2>6 DEF CameraInv, PrepTypeOK, CameraLatched
<1>13. CASE init_timer = 16
  <2>1. pixel0_loc' = p /\ pixel_delta' = n
        BY <1>1, <1>6, <1>7, <1>8, <1>13 DEF p
  <2> QED BY <1>1, <1>2, <1>3, <1>4, <1>5, <1>7, <1>9, <1>13, <2>1
          DEF CameraInv, PrepTypeOK, CameraLatched
<1> QED BY <1>4, <1>8, <1>10, <1>11, <1>12, <1>13

LEMMA RestKeepsCamera ==
    ASSUME CameraInv, RenderEdge \/ IdleEdge
    PROVE CameraInv'
<1>1. /\ UNCHANGED cameravars /\ UNCHANGED init_timer /\ Shift
      /\ state # "INIT" /\ state' \in {"RENDERING", "IDLE"} /\ ~rst_in
      BY DEF RenderEdge, IdleEdge
<1>2. normalizing' \in Seq(Vectors) /\ Len(normalizing') = 6
      BY <1>1, ShiftEffect DEF CameraInv, PrepTypeOK
<1> QED BY <1>1, <1>2 DEF CameraInv, PrepTypeOK, CameraLatched, cameravars, Of

LEMMA CameraInvStep == CameraInv /\ [Next]_vars => CameraInv'
<1> SUFFICES ASSUME CameraInv, [Next]_vars PROVE CameraInv' OBVIOUS
<1>1. CASE \E c \in Camera : ResetEdge(c) BY <1>1, ResetKeepsCamera
<1>2. CASE InitEdge BY <1>2, InitKeepsCamera
<1>3. CASE RenderEdge \/ IdleEdge BY <1>3, RestKeepsCamera
<1>4. CASE UNCHANGED vars
      BY <1>4 DEF vars, cameravars, CameraInv, PrepTypeOK, CameraLatched, Prepared, Of
<1> QED BY <1>1, <1>2, <1>3, <1>4 DEF Next

\* What the rays of a frame start from.
LEMMA RaysOfTheCamera ==
    ASSUME CameraInv, state # "INIT"
    PROVE  /\ camera_pos # Garbage
           /\ NextRay = [pixel |-> next_pixel_addr % FrameArea, from |-> camera_pos]
<1>1. PICK c \in Camera : camera_pos = Vector("position", c)
      BY DEF CameraInv, CameraLatched
<1>2. camera_pos # Garbage /\ camera_pos.cam = c BY <1>1, VectorFacts DEF Directions
<1>3. /\ pixel0_loc = Vector("position", c) /\ pixel_delta = Vector("up", c)
      BY <1>2 DEF CameraInv, Of
<1>4. Derive(Derive(camera_pos, "position", pixel0_loc, "position", "position"),
             "position", pixel_delta, "up", "position") = camera_pos
      BY <1>1, <1>3, DeriveSame DEF Directions
<1> QED BY <1>2, <1>4 DEF NextRay

\* However resets interrupt the preparation of a frame (orchestrator.sv), and
\* whatever the normalizer then still holds: the rays of a frame are all of the
\* camera latched last, for any number of units.
THEOREM OneCameraPerFrame == Spec => []FrameHasOneCamera
<1>1. CameraInv => FrameHasOneCamera BY RaysOfTheCamera DEF FrameHasOneCamera
<1> QED BY <1>1, CameraInvInit, CameraInvStep, PTL DEF Spec

-----------------------------------------------------------------------------
(* The pixels, with the one unit of top_level.sv.                          *)

PixelTypeOK ==
    /\ next_pixel_addr \in Nat
    /\ rst \in [VTUs -> BOOLEAN] /\ hit_valid \in [VTUs -> BOOLEAN]
    /\ uninit \in [VTUs -> BOOLEAN]
    /\ DOMAIN frame_buffer = Pixels

\* Where the frame stands.
FrameStage ==
    /\ state = "INIT" => next_pixel_addr = 0
    /\ state = "RENDERING" => next_pixel_addr <= FrameArea
    /\ frame_done => state = "IDLE"

\* The unit has the ray of the pixel handed out last; an answer that counts is
\* the answer to it.  Before the first pixel is handed out neither need be so.
UnitHasLastPixel ==
    state = "RENDERING" /\ next_pixel_addr > 0 =>
        /\ ~uninit[0]
        /\ ray[0] = Expected(next_pixel_addr - 1)
        /\ vtu_write_addr[0] = next_pixel_addr - 1
        /\ vtu_valid(0) => hit[0] = ray[0]

\* The pixels before that one are in the frame buffer.
PixelsWritten ==
    /\ state = "RENDERING" =>
         \A p \in Pixels : p < next_pixel_addr - 1 => frame_buffer[p] = Expected(p)
    /\ state = "IDLE" => \A p \in Pixels \ {FrameArea - 1} : frame_buffer[p] = Expected(p)

PixelInv == PixelTypeOK /\ FrameStage /\ UnitHasLastPixel /\ PixelsWritten

LEMMA ModSmall == \A k \in Pixels : k % FrameArea = k
BY OrchestratorAssumption DEF Pixels

LEMMA OnlyUnit ==
    ASSUME NumVTU = 1
    PROVE  VTUs = {0}
BY DEF VTUs

LEMMA PixelInvInit == NumVTU = 1 /\ Init => PixelInv
BY OnlyUnit DEF Init, PixelInv, PixelTypeOK, FrameStage, UnitHasLastPixel, PixelsWritten

\* An edge of the units in a frame: an answer that is new is for the ray on the pins.
LEMMA UnitsAnswer ==
    ASSUME UnitsEdge(InReset)
    PROVE  /\ hit_valid' \in [VTUs -> BOOLEAN]
           /\ \A j \in VTUs : hit_valid'[j] => /\ ~rst[j]
                                               /\ \/ hit_valid[j] /\ hit'[j] = hit[j]
                                                  \/ hit'[j] = ray[j]
<1>1. PICK deliver \in SUBSET {j \in VTUs \ InReset : ~hit_valid[j]} :
        /\ hit_valid' = [j \in VTUs |-> j \notin InReset /\ (hit_valid[j] \/ j \in deliver)]
        /\ hit' = [j \in VTUs |-> IF j \in InReset THEN NoAnswer
                                  ELSE IF j \in deliver THEN Answer(ray[j])
                                  ELSE hit[j]]
      BY DEF UnitsEdge
<1>2. hit_valid' \in [VTUs -> BOOLEAN] BY <1>1
<1>3. ASSUME NEW j \in VTUs, hit_valid'[j]
      PROVE  ~rst[j] /\ ((hit_valid[j] /\ hit'[j] = hit[j]) \/ hit'[j] = ray[j])
  <2>1. j \notin InReset /\ (hit_valid[j] \/ j \in deliver) BY <1>1, <1>3
  <2>2. hit'[j] = IF j \in deliver THEN ray[j] ELSE hit[j] BY <1>1, <2>1 DEF Answer
  <2> QED BY <2>1, <2>2 DEF InReset
<1> QED BY <1>2, <1>3

LEMMA ResetKeepsPixels ==
    ASSUME NumVTU = 1, PixelInv, NEW c \in Camera, ResetEdge(c)
    PROVE  PixelInv'
<1>1. hit_valid' \in [VTUs -> BOOLEAN]
      BY DEF ResetEdge, UnitsEdge
<1> QED BY <1>1 DEF ResetEdge, PixelInv, PixelTypeOK, FrameStage, UnitHasLastPixel, PixelsWritten

LEMMA InitKeepsPixels ==
    ASSUME NumVTU = 1, PixelInv, InitEdge
    PROVE  PixelInv'
<1>1. hit_valid' \in [VTUs -> BOOLEAN]
      BY UnitsAnswer DEF InitEdge
<1>2. /\ next_pixel_addr' = 0 /\ state' \in {"INIT", "RENDERING"}
      /\ UNCHANGED <<rst, uninit, frame_buffer, frame_done>> /\ ~frame_done
      BY DEF InitEdge, unitvars, PixelInv, FrameStage
<1> QED BY <1>1, <1>2, OrchestratorAssumption
        DEF PixelInv, PixelTypeOK, FrameStage, UnitHasLastPixel, PixelsWritten, Pixels

LEMMA IdleKeepsPixels ==
    ASSUME NumVTU = 1, PixelInv, IdleEdge
    PROVE  PixelInv'
<1>1. hit_valid' \in [VTUs -> BOOLEAN]
      BY UnitsAnswer DEF IdleEdge
<1>2. /\ UNCHANGED <<state, next_pixel_addr, rst, uninit, frame_buffer, frame_done, camera_pos>>
      /\ state = "IDLE"
      BY DEF IdleEdge, unitvars, cameravars
<1> QED BY <1>1, <1>2
        DEF PixelInv, PixelTypeOK, FrameStage, UnitHasLastPixel, PixelsWritten, Expected

LEMMA RenderKeepsPixels ==
    ASSUME NumVTU = 1, CameraInv, PixelInv, RenderEdge
    PROVE  PixelInv'
<1>1. /\ state = "RENDERING" /\ ~rst_in /\ camera_pos' = camera_pos
      /\ next_pixel_addr \in Nat /\ next_pixel_addr <= FrameArea /\ ~frame_done
      /\ FrameOver => state' = "IDLE"
      /\ ~FrameOver => state' = "RENDERING" /\ ~frame_done'
      BY DEF RenderEdge, cameravars, PixelInv, PixelTypeOK, FrameStage
<1>2. VTUs = {0} BY OnlyUnit
<1>3. /\ Answering = IF vtu_valid(0) THEN {0} ELSE {}
      /\ Reassigned = IF vtu_valid(0) \/ uninit[0] THEN {0} ELSE {}
      BY <1>2 DEF Answering, Reassigned
<1>4. /\ hit_valid' \in [VTUs -> BOOLEAN]
      /\ hit_valid'[0] => ~rst[0] /\ ((hit_valid[0] /\ hit'[0] = hit[0]) \/ hit'[0] = ray[0])
      BY <1>2, UnitsAnswer DEF RenderEdge
<1>5. /\ rst' = [j \in VTUs |-> j \in Reassigned]
      /\ uninit' = [j \in VTUs |-> uninit[j] /\ j \notin Reassigned]
      /\ ray' = [j \in VTUs |-> IF j \in Reassigned THEN NextRay ELSE ray[j]]
      /\ vtu_write_addr' = [j \in VTUs |-> IF j \in Reassigned THEN next_pixel_addr
                                           ELSE vtu_write_addr[j]]
      BY DEF RenderEdge, AssignRays
<1>6. 0 \in Reassigned <=> vtu_valid(0) \/ uninit[0] BY <1>3
<1>7. /\ rst' \in [VTUs -> BOOLEAN] /\ uninit' \in [VTUs -> BOOLEAN]
      /\ rst'[0] <=> vtu_valid(0) \/ uninit[0]
      /\ ~uninit'[0]
      /\ ray'[0] = IF vtu_valid(0) \/ uninit[0] THEN NextRay ELSE ray[0]
      /\ vtu_write_addr'[0] = IF vtu_valid(0) \/ uninit[0] THEN next_pixel_addr
                              ELSE vtu_write_addr[0]
  <2>1. 0 \in VTUs BY <1>2
  <2>2. rst' \in [VTUs -> BOOLEAN] /\ (rst'[0] <=> 0 \in Reassigned)
    <3>1. rst' \in [VTUs -> BOOLEAN] BY <1>5
    <3>2. rst'[0] = (0 \in Reassigned) BY <1>5, <2>1, Zenon
    <3> QED BY <3>1, <3>2
  <2>3. uninit' \in [VTUs -> BOOLEAN] /\ (uninit'[0] <=> uninit[0] /\ 0 \notin Reassigned)
        BY <1>5, <2>1
  <2>4. /\ ray'[0] = IF 0 \in Reassigned THEN NextRay ELSE ray[0]
        /\ vtu_write_addr'[0] = IF 0 \in Reassigned THEN next_pixel_addr ELSE vtu_write_addr[0]
        BY <1>5, <2>1
  <2> QED BY <1>6, <2>2, <2>3, <2>4
<1>8. next_pixel_addr' = IF vtu_valid(0) THEN next_pixel_addr + 1 ELSE next_pixel_addr
      BY <1>3 DEF RenderEdge
<1>9. PixelTypeOK'
  <2>1. DOMAIN frame_buffer' = Pixels BY DEF RenderEdge, PixelInv, PixelTypeOK
  <2> QED BY <1>1, <1>4, <1>7, <1>8, <2>1 DEF PixelTypeOK
<1>10. FrameStage'
      BY <1>1, <1>8, OrchestratorAssumption DEF FrameStage, FrameOver
<1>11. UnitHasLastPixel'
  <2> SUFFICES ASSUME state' = "RENDERING", next_pixel_addr' > 0
               PROVE  /\ ~uninit'[0]
                      /\ ray'[0] = Expected(next_pixel_addr - 1)'
                      /\ vtu_write_addr'[0] = next_pixel_addr' - 1
                      /\ vtu_valid(0)' => hit'[0] = ray'[0]
      BY DEF UnitHasLastPixel
  <2>1. next_pixel_addr \in Pixels BY <1>1, OrchestratorAssumption DEF FrameOver, Pixels
  <2>2. CASE vtu_valid(0)
    <3>1. NextRay = Expected(next_pixel_addr)
          BY <1>1, <2>1, RaysOfTheCamera, ModSmall DEF Expected
    <3>2. Expected(next_pixel_addr - 1)' = Expected(next_pixel_addr)
          BY <1>1, <1>8, <2>2 DEF Expected
    <3>3. next_pixel_addr' - 1 = next_pixel_addr BY <1>1, <1>8, <2>2
    <3>4. ~vtu_valid(0)' BY <1>7, <2>2 DEF vtu_valid
    <3> QED BY <1>7, <2>2, <3>1, <3>2, <3>3, <3>4
  <2>3. CASE ~vtu_valid(0)
    <3>1. /\ next_pixel_addr' = next_pixel_addr /\ next_pixel_addr > 0
          BY <1>8, <2>3
    <3>2. /\ ~uninit[0] /\ ray[0] = Expected(next_pixel_addr - 1)
          /\ vtu_write_addr[0] = next_pixel_addr - 1
          BY <1>1, <3>1 DEF PixelInv, UnitHasLastPixel
    <3>3. Expected(next_pixel_addr - 1)' = Expected(next_pixel_addr - 1)
          BY <1>1, <3>1 DEF Expected
    <3>4. hit_valid'[0] => hit'[0] = ray[0] BY <1>4, <2>3 DEF vtu_valid
    <3> QED BY <1>7, <2>3, <3>1, <3>2, <3>3, <3>4 DEF vtu_valid
  <2> QED BY <2>2, <2>3
<1>12. \A p \in Pixels : p < next_pixel_addr' - 1 \/ (FrameOver /\ p < FrameArea - 1)
                           => frame_buffer'[p] = Expected(p)
  <2> SUFFICES ASSUME NEW p \in Pixels,
                      p < next_pixel_addr' - 1 \/ (FrameOver /\ p < FrameArea - 1)
               PROVE  frame_buffer'[p] = Expected(p)
      OBVIOUS
  <2>1. CASE sbuf_write_enable /\ next_pixel_addr > 0
    <3>1. vtu_valid(0) /\ Chosen = 0
          BY <1>3, <2>1 DEF sbuf_write_enable, Chosen
    <3>2. /\ vtu_write_addr[0] = next_pixel_addr - 1
          /\ hit[0] = Expected(next_pixel_addr - 1)
          BY <1>1, <2>1, <3>1 DEF PixelInv, UnitHasLastPixel
    <3>3. next_pixel_addr - 1 \in Pixels BY <1>1, <2>1, OrchestratorAssumption DEF Pixels
    <3>4. sbuf_addr = next_pixel_addr - 1 /\ sbuf_data = Expected(next_pixel_addr - 1)
          BY <3>1, <3>2, <3>3, ModSmall DEF sbuf_addr, sbuf_data
    <3>5. frame_buffer' = [frame_buffer EXCEPT ![next_pixel_addr - 1] = Expected(next_pixel_addr - 1)]
          BY <2>1, <3>4 DEF RenderEdge
    <3>6. CASE p = next_pixel_addr - 1
          BY <3>3, <3>5, <3>6 DEF PixelInv, PixelTypeOK
    <3>7. CASE p # next_pixel_addr - 1
      <4>1. p < next_pixel_addr - 1
            BY <1>1, <1>8, <3>1, <3>7 DEF Pixels, FrameOver
      <4> QED BY <1>1, <3>5, <3>7, <4>1 DEF PixelInv, PixelTypeOK, PixelsWritten
    <3> QED BY <3>6, <3>7
  <2>2. CASE sbuf_write_enable /\ next_pixel_addr = 0
        BY <1>1, <1>8, <2>2, OrchestratorAssumption DEF Pixels, FrameOver
  <2>3. CASE ~sbuf_write_enable
    <3>1. ~vtu_valid(0) /\ frame_buffer' = frame_buffer
          BY <1>1, <1>3, <2>3 DEF sbuf_write_enable, RenderEdge
    <3>2. p < next_pixel_addr - 1
          BY <1>1, <1>8, <3>1 DEF FrameOver
    <3> QED BY <1>1, <3>1, <3>2 DEF PixelInv, PixelsWritten
  <2> QED BY <1>1, <2>1, <2>2, <2>3
<1>13. PixelsWritten'
  <2>1. \A p \in Pixels : Expected(p)' = Expected(p) BY <1>1 DEF Expected
  <2>2. ASSUME state' = "RENDERING", NEW p \in Pixels, p < next_pixel_addr' - 1
        PROVE  frame_buffer'[p] = Expected(p)'
    <3>1. frame_buffer'[p] = Expected(p) BY <1>12, <2>2
    <3> QED BY <2>1, <3>1
  <2>3. ASSUME state' = "IDLE", NEW p \in Pixels \ {FrameArea - 1}
        PROVE  frame_buffer'[p] = Expected(p)'
    <3>1. FrameOver BY <1>1, <2>3
    <3>2. p < FrameArea - 1 BY OrchestratorAssumption DEF Pixels
    <3> QED BY <1>12, <2>1, <3>1, <3>2
  <2> QED BY <2>2, <2>3 DEF PixelsWritten
<1> QED BY <1>9, <1>10, <1>11, <1>13 DEF PixelInv

LEMMA PixelInvStep == NumVTU = 1 /\ CameraInv /\ PixelInv /\ [Next]_vars => PixelInv'
<1> SUFFICES ASSUME NumVTU = 1, CameraInv, PixelInv, [Next]_vars PROVE PixelInv' OBVIOUS
<1>1. CASE \E c \in Camera : ResetEdge(c) BY <1>1, ResetKeepsPixels
<1>2. CASE InitEdge BY <1>2, InitKeepsPixels
<1>3. CASE RenderEdge BY <1>3, RenderKeepsPixels
<1>4. CASE IdleEdge BY <1>4, IdleKeepsPixels
<1>5. CASE UNCHANGED vars
      BY <1>5 DEF vars, cameravars, unitvars, promises, PixelInv, PixelTypeOK, FrameStage,
                  UnitHasLastPixel, PixelsWritten, Expected, vtu_valid
<1> QED BY <1>1, <1>2, <1>3, <1>4, <1>5 DEF Next

LEMMA PixelInvAlways ==
    ASSUME NumVTU = 1
    PROVE  Spec => []PixelInv
<1>1. Init => CameraInv /\ PixelInv BY CameraInvInit, PixelInvInit
<1>2. CameraInv /\ PixelInv /\ [Next]_vars => (CameraInv /\ PixelInv)'
      BY CameraInvStep, PixelInvStep
<1> QED BY <1>1, <1>2, PTL DEF Spec

\* With one unit, after the first write of a frame each write to the frame buffer
\* (sbuf_write_enable of orchestrator.sv) is the next pixel in order with its own
\* ray, for any frame area, any cameras, any resets and any time units take.
THEOREM PixelsInOrder ==
    ASSUME NumVTU = 1
    PROVE  Spec => []WritesInOrder
<1>1. PixelInv => WritesInOrder
  <2> SUFFICES ASSUME PixelInv, sbuf_write_enable, next_pixel_addr > 0
               PROVE  sbuf_addr = next_pixel_addr - 1 /\ sbuf_data = Expected(sbuf_addr)
      BY DEF WritesInOrder
  <2>1. /\ vtu_valid(0) /\ Chosen = 0 /\ state = "RENDERING"
        BY OnlyUnit DEF sbuf_write_enable, Chosen, Answering
  <2>2. /\ vtu_write_addr[0] = next_pixel_addr - 1
        /\ hit[0] = Expected(next_pixel_addr - 1)
        BY <2>1 DEF PixelInv, UnitHasLastPixel
  <2>3. next_pixel_addr - 1 \in Pixels
        BY <2>1, OrchestratorAssumption DEF PixelInv, PixelTypeOK, FrameStage, Pixels
  <2> QED BY <2>1, <2>2, <2>3, ModSmall DEF sbuf_addr, sbuf_data
<1> QED BY <1>1, PixelInvAlways, PTL

\* With one unit, frame_done of orchestrator.sv says that every pixel but the
\* last is in the frame buffer and of this frame's camera.
THEOREM FrameDoneButLast ==
    ASSUME NumVTU = 1
    PROVE  Spec => []DoneButLast
<1>1. PixelInv => DoneButLast
      BY DEF PixelInv, FrameStage, PixelsWritten, DoneButLast
<1> QED BY <1>1, PixelInvAlways, PTL
===============================================================================
