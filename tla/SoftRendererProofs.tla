------------------------- MODULE SoftRendererProofs -------------------------
(***************************************************************************)
(* The software model of the renderer draws what mock_render draws, for    *)
(* every world, every path of a ray through it, every size of the cache    *)
(* and of the frame.                                                       *)
(*                                                                         *)
(* A unit reads an answer that its port was given an edge before, to a     *)
(* query that may have been another one: what makes it right is that a     *)
(* port's answer goes with what the port asks at that edge (AnswersRight), *)
(* and that a port asks for the voxel its unit is at (AsksForItsVoxel).    *)
(* With it, all voxels a ray has passed are air (OnItsPath), so that the   *)
(* first solid one it meets is the reference's.  CacheInv is about the two *)
(* levels of the cache, UnitsInv about any number of units, and FrameInv   *)
(* about the frame that the one unit of the program draws.                 *)
(***************************************************************************)
EXTENDS SoftRenderer, WellFoundedInduction, TLAPS

Axes == {"x", "y", "z"}
Normals == {NoNormal, Forward} \cup {Normal(r, a) : r \in Ray, a \in Axes \cup {"none"}}
Unit ==
    [ray_in : Ray, ray_init_in : BOOLEAN, current_pixel : 0 .. NumPixels, ray : Ray,
     num_steps : 0 .. MaxSteps + 1, last_step : Axes \cup {"none"},
     hit : Block, normal : Normals, valid : BOOLEAN]

Entry == [key : Addr, value : Block]

CacheTypeOK ==
    /\ addr_in \in [VTUs -> Addr] /\ read_enable_in \in [VTUs -> BOOLEAN]
    /\ voxel_out \in [VTUs -> Block] /\ valid_out \in [VTUs -> BOOLEAN]
    /\ entries \in [Slots -> {<<>>} \cup {<<entry>> : entry \in Entry}]
    /\ next_replacement \in Slots
    /\ l3_addr_in \in Addr /\ l3_read_enable_in \in BOOLEAN
    /\ l3_voxel_out \in Block /\ l3_valid_out \in BOOLEAN

RendererTypeOK ==
    /\ pc \in {"l2", "l3", "vtu", "orchestrator", "main"}
    /\ reset \in BOOLEAN /\ loop \in {"rendering", "done"} /\ camera_in \in Camera
    /\ vtu \in [VTUs -> Unit]
    /\ next_pixel \in 0 .. NumPixels /\ camera \in Camera /\ frame_done_out \in BOOLEAN
    /\ frame_buffer \in [0 .. NumPixels - 1 -> [block : Block, normal : Normals]]

\* Every entry holds the voxel of its key.
EntriesRight == \A e \in Slots : entries[e] # <<>> => entries[e][1].value = Query(entries[e][1].key)

\* The voxel that L3 is asked for is not in the cache, and L3's answer is that voxel
\* but for the moment in which the L2 asks anew.
L3InStep ==
    /\ l3_read_enable_in => Holding(entries, l3_addr_in) = {}
    /\ pc # "l3" /\ l3_valid_out => l3_read_enable_in /\ l3_voxel_out = Query(l3_addr_in)

\* What the L2 has just answered is what the port asks.
AnswersRight ==
    pc \in {"l3", "vtu"} =>
        \A v \in VTUs : valid_out[v] => read_enable_in[v] /\ voxel_out[v] = Query(addr_in[v])

CacheInv == CacheTypeOK /\ EntriesRight /\ L3InStep /\ AnswersRight

\* A port asks for the voxel its unit is at.
AsksForItsVoxel ==
    \A v \in VTUs : read_enable_in[v] => addr_in[v] = Voxel(vtu[v].ray, vtu[v].num_steps)

\* All voxels before the one a unit is at are air, and what it answers is the
\* reference's for the ray it is casting.
OnItsPath(u) ==
    /\ \A k \in 0 .. u.num_steps - 1 : Query(Voxel(u.ray, k)) = Air
    /\ u.num_steps > 0 => u.last_step = Axis(u.ray, u.num_steps)
    /\ u.valid => /\ u.hit = MockCast(u.ray).block
                  /\ u.hit # Air /\ u.num_steps > 0 => u.normal = MockCast(u.ray).normal

\* A unit casts the ray on its inputs, but for the moment in which that is new.
CastsItsInput ==
    \A v \in VTUs : pc = "orchestrator" \/ ~vtu[v].ray_init_in => vtu[v].ray = vtu[v].ray_in

QuietInReset ==
    reset => /\ pc # "main" /\ shown = <<>> /\ loop = "done" /\ next_pixel = 0 /\ ~frame_done_out
             /\ \A v \in VTUs : ~vtu[v].ray_init_in /\ vtu[v].ray_in = AtHome

UnitsInv ==
    /\ RendererTypeOK /\ AsksForItsVoxel /\ (\A v \in VTUs : OnItsPath(vtu[v]))
    /\ CastsItsInput /\ QuietInReset

RendererInv == CacheInv /\ UnitsInv

\* The frame, with one unit: it casts the next pixel, and those before are drawn.
PixelRight(p) == frame_buffer[p].block = MockCast([pixel |-> p, camera |-> camera]).block
FrameInv ==
    /\ next_pixel < NumPixels => vtu[0].current_pixel = next_pixel
                                   /\ vtu[0].ray_in = [pixel |-> next_pixel, camera |-> camera]
    /\ next_pixel < NumPixels \/ frame_done_out => \A p \in 0 .. next_pixel - 1 : PixelRight(p)
    /\ frame_done_out => next_pixel >= NumPixels - 1
    /\ loop = "done" /\ ~frame_done_out /\ shown # <<>> => pc = "main" /\ Shown = MockRender(shown[1])

-----------------------------------------------------------------------------
\* The smallest of a set of ports or entries is one of them.
LEMMA FirstIs ==
    ASSUME NEW S, S \subseteq Nat, S # {}
    PROVE  First(S) \in S /\ \A y \in S : First(S) <= y
<1> DEFINE Below == OpToRel(<, Nat)
<1>1. IsWellFoundedOn(Below, Nat) BY NatLessThanWellFounded
<1> HIDE DEF Below
<1>2. PICK x \in S : \A y \in S : ~(<<y, x>> \in Below) BY <1>1, WFMin
<1>3. \A y \in S : ~(y < x) BY <1>2 DEF Below, OpToRel
<1>4. \A y \in S : x <= y BY <1>3
<1> QED BY <1>2, <1>4 DEF First

LEMMA PortsAndSlots ==
    /\ VTUs \subseteq Nat /\ Slots \subseteq Nat /\ 0 \in Slots /\ 0 \in VTUs
    /\ \A n \in Slots : (n + 1) % CacheSize \in Slots
BY SoftCacheAssumption DEF VTUs, Slots

-----------------------------------------------------------------------------
(* The caches. *)

LEMMA CacheInvInit == Init => CacheInv
<1> SUFFICES ASSUME Init PROVE CacheInv OBVIOUS
<1>1. CacheTypeOK BY SoftCacheAssumption, PortsAndSlots DEF Init, CacheInit, CacheTypeOK
<1>2. EntriesRight BY DEF Init, CacheInit, EntriesRight
<1>3. L3InStep /\ AnswersRight BY DEF Init, CacheInit, L3InStep, AnswersRight
<1> QED BY <1>1, <1>2, <1>3 DEF CacheInv

\* The entries after the fill of an edge hold what L3 answered.
LEMMA FillRight ==
    ASSUME CacheInv, pc = "l2"
    PROVE  /\ AfterFill \in [Slots -> {<<>>} \cup {<<entry>> : entry \in Entry}]
           /\ \A e \in Slots : AfterFill[e] # <<>> => AfterFill[e][1].value = Query(AfterFill[e][1].key)
<1> DEFINE filled == [key |-> l3_addr_in, value |-> l3_voxel_out]
<1>1. CacheTypeOK /\ EntriesRight BY DEF CacheInv
<1>2. CASE l3_valid_out
  <2>1. AfterFill = [entries EXCEPT ![next_replacement] = <<filled>>] BY <1>2 DEF AfterFill
  <2>2. filled \in Entry /\ filled.value = Query(filled.key)
        BY <1>1, <1>2 DEF CacheInv, CacheTypeOK, L3InStep, Entry
  <2> HIDE DEF filled
  <2> QED BY <1>1, <2>1, <2>2 DEF CacheTypeOK, EntriesRight
<1>3. CASE ~l3_valid_out BY <1>1, <1>3 DEF AfterFill, CacheTypeOK, EntriesRight
<1> QED BY <1>2, <1>3

\* An edge of the L2 asks for what it does not hold, and answers with what it holds.
LEMMA L2EdgeKeeps ==
    ASSUME CacheInv, pc = "l2", pc' = "l3", L2Edge
    PROVE  CacheInv'
<1> DEFINE missing == {v \in VTUs : read_enable_in[v]} \ Hits(AfterFill)
<1>1. /\ entries' = AfterFill /\ next_replacement' = NextReplacement
      /\ Answer(AfterFill) /\ Arbitrate(missing)
      /\ UNCHANGED <<addr_in, read_enable_in, l3_voxel_out, l3_valid_out>>
      BY DEF L2Edge, queries, l3out
<1>2. CacheTypeOK BY DEF CacheInv
<1>3. /\ entries' \in [Slots -> {<<>>} \cup {<<entry>> : entry \in Entry}]
      /\ \A e \in Slots : entries'[e] # <<>> => entries'[e][1].value = Query(entries'[e][1].key)
      BY <1>1, FillRight
<1>4. \A v \in Hits(AfterFill) :
          LET e == First(Holding(AfterFill, addr_in[v]))
          IN  /\ v \in VTUs /\ read_enable_in[v]
              /\ e \in Slots /\ AfterFill[e] # <<>> /\ AfterFill[e][1].key = addr_in[v]
  <2> SUFFICES ASSUME NEW v \in Hits(AfterFill)
               PROVE  LET e == First(Holding(AfterFill, addr_in[v]))
                      IN  /\ v \in VTUs /\ read_enable_in[v]
                          /\ e \in Slots /\ AfterFill[e] # <<>> /\ AfterFill[e][1].key = addr_in[v]
      OBVIOUS
  <2>1. v \in VTUs /\ read_enable_in[v] /\ Holding(AfterFill, addr_in[v]) # {} BY DEF Hits
  <2>2. Holding(AfterFill, addr_in[v]) \subseteq Nat BY PortsAndSlots DEF Holding
  <2>3. First(Holding(AfterFill, addr_in[v])) \in Holding(AfterFill, addr_in[v])
        BY <2>1, <2>2, FirstIs
  <2> QED BY <2>1, <2>3 DEF Holding
<1>5. \A v \in Hits(AfterFill) : voxel_out'[v] = Query(addr_in[v]) /\ voxel_out'[v] \in Block
  <2> SUFFICES ASSUME NEW v \in Hits(AfterFill)
               PROVE  voxel_out'[v] = Query(addr_in[v]) /\ voxel_out'[v] \in Block
      OBVIOUS
  <2>1. PICK e \in Slots : e = First(Holding(AfterFill, addr_in[v])) BY <1>4
  <2>2. v \in VTUs /\ AfterFill[e] # <<>> /\ AfterFill[e][1].key = addr_in[v] BY <1>4, <2>1
  <2>3. voxel_out'[v] = AfterFill[e][1].value BY <1>1, <2>1, <2>2 DEF Answer
  <2>4. voxel_out'[v] = Query(addr_in[v]) BY <1>1, <1>3, <2>2, <2>3
  <2> QED BY <1>2, <2>2, <2>4, SoftCacheAssumption DEF CacheTypeOK
<1>6. missing # {} => First(missing) \in missing
  <2>1. missing \subseteq Nat BY PortsAndSlots
  <2> HIDE DEF missing
  <2> QED BY <2>1, FirstIs
<1>7. CacheTypeOK'
  <2>1. voxel_out' \in [VTUs -> Block]
    <3>1. \A v \in VTUs : v \notin Hits(AfterFill) => voxel_out'[v] \in Block
          BY <1>1, <1>2 DEF Answer, CacheTypeOK
    <3> QED BY <1>1, <1>5, <3>1 DEF Answer
  <2>2. valid_out' \in [VTUs -> BOOLEAN] BY <1>1 DEF Answer
  <2>3. l3_addr_in' \in Addr /\ l3_read_enable_in' \in BOOLEAN
        BY <1>1, <1>2, <1>6 DEF Arbitrate, CacheTypeOK
  <2>4. next_replacement' \in Slots BY <1>1, <1>2, PortsAndSlots DEF NextReplacement, CacheTypeOK
  <2> QED BY <1>1, <1>2, <1>3, <2>1, <2>2, <2>3, <2>4 DEF CacheTypeOK
<1>8. L3InStep'
  <2> SUFFICES ASSUME l3_read_enable_in' PROVE Holding(entries', l3_addr_in') = {}
      BY DEF L3InStep, Holding
  <2>1. l3_addr_in' = addr_in[First(missing)] /\ First(missing) \in missing
        BY <1>1, <1>6 DEF Arbitrate
  <2>2. Holding(AfterFill, addr_in[First(missing)]) = {} BY <2>1 DEF Hits
  <2> QED BY <1>1, <2>1, <2>2
<1>9. AnswersRight'
  <2>1. \A v \in VTUs : valid_out'[v] => v \in Hits(AfterFill) BY <1>1 DEF Answer
  <2> QED BY <1>1, <1>4, <1>5, <2>1 DEF AnswersRight
<1> QED BY <1>3, <1>7, <1>8, <1>9 DEF CacheInv, EntriesRight

LEMMA L2ResetKeeps ==
    ASSUME CacheInv, pc = "l2", pc' = "l3", L2Reset
    PROVE  CacheInv'
<1>1. CacheTypeOK' BY SoftCacheAssumption, PortsAndSlots DEF CacheInv, CacheTypeOK, L2Reset, queries, l3in, l3out
<1>2. EntriesRight' BY DEF EntriesRight, L2Reset
<1>3. L3InStep' BY DEF L3InStep, Holding, L2Reset, l3in, l3out
<1>4. AnswersRight' BY DEF AnswersRight, L2Reset, queries
<1> QED BY <1>1, <1>2, <1>3, <1>4 DEF CacheInv

LEMMA L3Keeps ==
    ASSUME CacheInv, pc = "l3", pc' = "vtu", L3Edge \/ L3Reset
    PROVE  CacheInv'
<1>1. UNCHANGED <<addr_in, read_enable_in, voxel_out, valid_out, entries, next_replacement, l3_addr_in, l3_read_enable_in>>
      BY DEF L3Edge, L3Reset, queries, answers, l3in
<1>2. /\ l3_valid_out' \in BOOLEAN /\ l3_voxel_out' \in Block
      /\ l3_valid_out' => l3_read_enable_in /\ l3_voxel_out' = Query(l3_addr_in)
  <2>1. CASE L3Edge BY <2>1, SoftCacheAssumption DEF CacheInv, CacheTypeOK, L3Edge
  <2>2. CASE L3Reset BY <2>2, SoftCacheAssumption DEF L3Reset
  <2> QED BY <2>1, <2>2
<1>3. CacheTypeOK' BY <1>1, <1>2 DEF CacheInv, CacheTypeOK
<1>4. EntriesRight' /\ AnswersRight' BY <1>1 DEF CacheInv, EntriesRight, AnswersRight
<1>5. L3InStep' BY <1>1, <1>2 DEF CacheInv, L3InStep, Holding
<1> QED BY <1>3, <1>4, <1>5 DEF CacheInv

\* The rest of an edge leaves the caches alone but for the queries.
LEMMA OthersKeepCache ==
    ASSUME CacheInv, pc # "l2", pc # "l3", pc' \notin {"l3", "vtu"},
           addr_in' \in [VTUs -> Addr], read_enable_in' \in [VTUs -> BOOLEAN],
           UNCHANGED <<voxel_out, valid_out, entries, next_replacement, l3in, l3out>>
    PROVE  CacheInv'
<1>1. UNCHANGED <<l3_addr_in, l3_read_enable_in, l3_voxel_out, l3_valid_out>> BY DEF l3in, l3out
<1> QED BY <1>1 DEF CacheInv, CacheTypeOK, EntriesRight, L3InStep, AnswersRight, Holding

-----------------------------------------------------------------------------
(* The traversal units. *)

\* The reference stops at the first voxel that is not air.
LEMMA MockCastHits ==
    ASSUME NEW r \in Ray, NEW n \in 0 .. MaxSteps,
           \A k \in 0 .. n - 1 : Query(Voxel(r, k)) = Air, Query(Voxel(r, n)) # Air
    PROVE  MockCast(r) = [block |-> Query(Voxel(r, n)),
                          normal |-> IF n = 0 THEN NoNormal ELSE <<Axis(r, n), -Sign(r, Axis(r, n))>>]
<1> DEFINE solid == {m \in 0 .. MaxSteps : Query(Voxel(r, m)) # Air}
<1>1. solid \subseteq Nat /\ solid # {} /\ n \in solid OBVIOUS
<1>2. \A m \in solid : m \notin 0 .. n - 1 OBVIOUS
<1>3. MockCast(r) = IF solid = {} THEN NoAnswer
                    ELSE [block |-> Query(Voxel(r, First(solid))),
                          normal |-> IF First(solid) = 0 THEN NoNormal
                                     ELSE <<Axis(r, First(solid)), -Sign(r, Axis(r, First(solid)))>>]
      BY DEF MockCast
<1> HIDE DEF solid
<1>4. First(solid) \in solid /\ First(solid) <= n BY <1>1, FirstIs
<1>5. First(solid) = n
  <2>1. PICK m : m = First(solid) OBVIOUS
  <2>2. m \in Nat /\ n \in Nat /\ m <= n /\ m \notin 0 .. n - 1 BY <1>1, <1>2, <1>4, <2>1
  <2>3. m = n BY ONLY <2>2
  <2> QED BY <2>1, <2>3
<1> QED BY <1>1, <1>3, <1>5

LEMMA MockCastMisses ==
    ASSUME NEW r \in Ray, \A k \in 0 .. MaxSteps : Query(Voxel(r, k)) = Air
    PROVE  MockCast(r) = NoAnswer
BY DEF MockCast

\* A unit that goes by what the cache says is at the voxel the answer is for.
LEMMA UnitSees == RendererInv => SeesItsVoxel
<1> SUFFICES ASSUME RendererInv, pc = "vtu", NEW v \in VTUs, Doing(v) \in {"hit", "advance"}
             PROVE  voxel_out[v] = Query(Voxel(vtu[v].ray, vtu[v].num_steps))
    BY DEF SeesItsVoxel
<1>1. valid_out[v] BY DEF Doing
<1> QED BY <1>1 DEF RendererInv, CacheInv, AnswersRight, UnitsInv, AsksForItsVoxel

LEMMA UnitStep ==
    ASSUME RendererInv, pc = "vtu", NEW v \in VTUs,
           NEW u, u = vtu[v], NEW new, new = After(u, Doing(v), voxel_out[v])
    PROVE  /\ new \in Unit /\ OnItsPath(new)
           /\ new.ray_in = u.ray_in /\ new.ray_init_in = u.ray_init_in /\ new.current_pixel = u.current_pixel
           /\ new.ray = new.ray_in
           /\ Doing(v) \in {"hold", "stall"} => new = u
<1>1. u \in Unit /\ OnItsPath(u) BY DEF RendererInv, UnitsInv, RendererTypeOK
<1>2. u.ray_in \in Ray /\ u.ray \in Ray /\ u.num_steps \in 0 .. MaxSteps + 1 /\ u.ray_init_in \in BOOLEAN
      BY <1>1 DEF Unit
<1>3. MaxSteps \in Nat /\ 0 \in 0 .. MaxSteps + 1 BY SoftRendererAssumption
<1>4. reset => ~u.ray_init_in /\ u.ray_in = AtHome BY DEF RendererInv, UnitsInv, QuietInReset
<1>5. ~u.ray_init_in => u.ray = u.ray_in BY DEF RendererInv, UnitsInv, CastsItsInput
<1>6. AtHome \in Ray /\ NoNormal \in Normals /\ Forward \in Normals /\ Air \in Block
      BY SoftRendererAssumption, SoftCacheAssumption DEF AtHome, Ray, Normals
<1>7. CASE Doing(v) = "reset"
  <2>1. reset BY <1>7 DEF Doing
  <2>2. new = [u EXCEPT !.hit = Air, !.valid = FALSE, !.normal = Forward, !.ray = AtHome,
                        !.num_steps = 0, !.last_step = "none"]
        BY <1>7 DEF After
  <2>3. new \in Unit
    <3>1. "none" \in Axes \cup {"none"} OBVIOUS
    <3> QED BY <1>1, <1>3, <1>6, <2>2, <3>1 DEF Unit
  <2>4. /\ new.ray_in = u.ray_in /\ new.ray_init_in = u.ray_init_in /\ new.current_pixel = u.current_pixel
        /\ new.ray = AtHome /\ new.num_steps = 0 /\ new.valid = FALSE
        BY <1>1, <2>2 DEF Unit
  <2> QED BY <1>4, <1>7, <2>1, <2>3, <2>4 DEF OnItsPath
<1>8. CASE Doing(v) = "init"
  <2>2. new = [u EXCEPT !.ray = u.ray_in, !.num_steps = 0, !.valid = FALSE]
        BY <1>8 DEF After, InitRay
  <2>3. new \in Unit BY <1>1, <1>2, <1>3, <2>2 DEF Unit
  <2>4. /\ new.ray_in = u.ray_in /\ new.ray_init_in = u.ray_init_in /\ new.current_pixel = u.current_pixel
        /\ new.ray = u.ray_in /\ new.num_steps = 0 /\ new.valid = FALSE
        BY <1>1, <2>2 DEF Unit
  <2> QED BY <1>8, <2>3, <2>4 DEF OnItsPath
<1>9. Doing(v) \notin {"reset", "init"} => u.ray = u.ray_in BY <1>2, <1>5 DEF Doing
<1>10. CASE Doing(v) \in {"hold", "stall"}
  <2>1. new = u BY <1>10 DEF After
  <2> QED BY <1>1, <1>9, <1>10, <2>1
<1>11. CASE Doing(v) = "give up"
  <2>1. new = [u EXCEPT !.hit = Air, !.valid = TRUE] BY <1>11 DEF After
  <2>2. new \in Unit BY <1>1, <1>6, <2>1 DEF Unit
  <2>3. /\ new.ray_in = u.ray_in /\ new.ray_init_in = u.ray_init_in /\ new.current_pixel = u.current_pixel
        /\ new.ray = u.ray /\ new.num_steps = u.num_steps /\ new.last_step = u.last_step /\ new.hit = Air
        BY <1>1, <2>1 DEF Unit
  <2>4. u.num_steps > MaxSteps BY <1>11 DEF Doing, TooFar
  <2>5. \A k \in 0 .. MaxSteps : Query(Voxel(u.ray, k)) = Air BY <1>1, <1>2, <1>3, <2>4 DEF OnItsPath
  <2>6. MockCast(u.ray).block = Air BY <1>2, <2>5, MockCastMisses DEF NoAnswer
  <2> QED BY <1>1, <1>9, <1>11, <2>2, <2>3, <2>6 DEF OnItsPath
<1>12. Doing(v) \in {"hit", "advance"} =>
           /\ u.num_steps \in 0 .. MaxSteps /\ voxel_out[v] = Query(Voxel(u.ray, u.num_steps))
           /\ voxel_out[v] \in Block
           /\ Doing(v) = "hit" <=> voxel_out[v] # Air
  <2>1. Doing(v) \in {"hit", "advance"} => voxel_out[v] = Query(Voxel(u.ray, u.num_steps))
        BY UnitSees DEF SeesItsVoxel
  <2>2. Doing(v) \in {"hit", "advance"} => ~(u.num_steps > MaxSteps) BY DEF Doing, TooFar
  <2>3. Doing(v) \in {"hit", "advance"} => (Doing(v) = "hit" <=> voxel_out[v] # Air) BY DEF Doing
  <2>4. voxel_out[v] \in Block BY DEF RendererInv, CacheInv, CacheTypeOK
  <2> QED BY <1>2, <1>3, <2>1, <2>2, <2>3, <2>4
<1>13. CASE Doing(v) = "hit"
  <2>1. new = [u EXCEPT !.hit = voxel_out[v], !.valid = TRUE, !.normal = Normal(u.ray, u.last_step)]
        BY <1>13 DEF After
  <2>2. u.last_step \in Axes \cup {"none"} BY <1>1 DEF Unit
  <2>3. Normal(u.ray, u.last_step) \in Normals BY <1>2, <2>2 DEF Normals
  <2>4. new \in Unit BY <1>1, <1>12, <1>13, <2>1, <2>3 DEF Unit
  <2>5. /\ new.ray_in = u.ray_in /\ new.ray_init_in = u.ray_init_in /\ new.current_pixel = u.current_pixel
        /\ new.ray = u.ray /\ new.num_steps = u.num_steps /\ new.last_step = u.last_step
        /\ new.hit = voxel_out[v] /\ new.normal = Normal(u.ray, u.last_step)
        BY <1>1, <2>1 DEF Unit
  <2>6. MockCast(u.ray) = [block |-> voxel_out[v],
                           normal |-> IF u.num_steps = 0 THEN NoNormal
                                      ELSE <<Axis(u.ray, u.num_steps), -Sign(u.ray, Axis(u.ray, u.num_steps))>>]
        BY <1>1, <1>2, <1>12, <1>13, MockCastHits DEF OnItsPath
  <2>7. u.num_steps > 0 => Normal(u.ray, u.last_step) = MockCast(u.ray).normal
    <3> SUFFICES ASSUME u.num_steps > 0 PROVE Normal(u.ray, u.last_step) = MockCast(u.ray).normal OBVIOUS
    <3>1. u.last_step = Axis(u.ray, u.num_steps) BY <1>1 DEF OnItsPath
    <3>2. u.last_step \in {"x", "y", "z"} BY <1>2, <1>3, <3>1, SoftRendererAssumption
    <3>3. Normal(u.ray, u.last_step) = <<u.last_step, -Sign(u.ray, u.last_step)>> BY <3>2 DEF Normal
    <3>4. u.num_steps # 0 BY <1>2
    <3> QED BY <2>6, <3>1, <3>3, <3>4
  <2> QED BY <1>1, <1>9, <1>13, <2>4, <2>5, <2>6, <2>7 DEF OnItsPath
<1>14. CASE Doing(v) = "advance"
  <2>1. new = [u EXCEPT !.last_step = Axis(u.ray, u.num_steps + 1), !.num_steps = u.num_steps + 1]
        BY <1>1, <1>14 DEF After, Advance, Unit
  <2>2. u.num_steps + 1 \in 1 .. MaxSteps + 1 /\ u.num_steps \in Nat BY <1>3, <1>12, <1>14
  <2>3. Axis(u.ray, u.num_steps + 1) \in Axes BY <1>2, <2>2, SoftRendererAssumption DEF Axes
  <2>4. new \in Unit
    <3>1. u.num_steps + 1 \in 0 .. MaxSteps + 1 BY <2>2
    <3> QED BY <1>1, <2>1, <2>3, <3>1 DEF Unit
  <2>5. /\ new.ray_in = u.ray_in /\ new.ray_init_in = u.ray_init_in /\ new.current_pixel = u.current_pixel
        /\ new.ray = u.ray /\ new.num_steps = u.num_steps + 1
        /\ new.last_step = Axis(u.ray, u.num_steps + 1) /\ new.valid = u.valid
        BY <1>1, <2>1 DEF Unit
  <2>6. u.valid = FALSE
    <3>1. ~u.valid BY <1>14 DEF Doing
    <3> QED BY <1>1, <3>1 DEF Unit
  <2>7. \A k \in 0 .. u.num_steps : Query(Voxel(u.ray, k)) = Air
    <3>1. Query(Voxel(u.ray, u.num_steps)) = Air BY <1>12, <1>14
    <3>2. \A k \in 0 .. u.num_steps : k = u.num_steps \/ k \in 0 .. u.num_steps - 1 BY <2>2
    <3> QED BY <1>1, <3>1, <3>2 DEF OnItsPath
  <2>8. OnItsPath(new)
    <3>1. 0 .. new.num_steps - 1 = 0 .. u.num_steps BY <2>2, <2>5
    <3> QED BY <2>5, <2>6, <2>7, <3>1 DEF OnItsPath
  <2> QED BY <1>9, <1>14, <2>4, <2>5, <2>8
<1> QED BY <1>7, <1>8, <1>10, <1>11, <1>13, <1>14 DEF Doing

-----------------------------------------------------------------------------
LEMMA UnitsInvInit == Init => UnitsInv
<1> SUFFICES ASSUME Init PROVE UnitsInv OBVIOUS
<1>1. NumPixels \in Nat \ {0} /\ MaxSteps \in Nat /\ Home \in Camera /\ Air \in Block
      BY SoftRendererAssumption, SoftCacheAssumption
<1> DEFINE first == [ray_in |-> AtHome, ray_init_in |-> FALSE, current_pixel |-> 0,
                     ray |-> AtHome, num_steps |-> 0, last_step |-> "none",
                     hit |-> Air, normal |-> NoNormal, valid |-> FALSE]
<1>2. \A v \in VTUs : vtu[v] = first BY DEF Init
<1>3. AtHome \in Ray /\ NoNormal \in Normals BY <1>1 DEF AtHome, Ray, Normals
<1>4. first \in Unit
  <2>1. 0 \in 0 .. MaxSteps + 1 /\ 0 \in 0 .. NumPixels BY <1>1
  <2> QED BY <1>1, <1>3, <2>1 DEF Unit
<1>5. RendererTypeOK
  <2>1. vtu \in [VTUs -> Unit] BY <1>4 DEF Init
  <2>2. frame_buffer \in [0 .. NumPixels - 1 -> [block : Block, normal : Normals]]
        BY <1>1, <1>3 DEF Init, NoAnswer
  <2> QED BY <1>1, <2>1, <2>2 DEF Init, RendererTypeOK
<1>6. AsksForItsVoxel BY DEF Init, CacheInit, AsksForItsVoxel
<1>7. \A v \in VTUs : OnItsPath(vtu[v])
  <2>1. OnItsPath(first) BY DEF OnItsPath
  <2> QED BY <1>2, <2>1
<1>8. CastsItsInput BY <1>2 DEF CastsItsInput
<1>9. QuietInReset BY <1>2 DEF QuietInReset, Init
<1> QED BY <1>5, <1>6, <1>7, <1>8, <1>9 DEF UnitsInv

LEMMA VTUKeeps ==
    ASSUME RendererInv, StepVTU
    PROVE  RendererInv'
<1>1. /\ pc = "vtu" /\ pc' = "orchestrator"
      /\ vtu' = [v \in VTUs |-> After(vtu[v], Doing(v), voxel_out[v])]
      /\ addr_in' = [v \in VTUs |-> IF Doing(v) \in StartsQuery
                                    THEN Voxel(vtu'[v].ray, vtu'[v].num_steps) ELSE addr_in[v]]
      /\ read_enable_in' = [v \in VTUs |-> Doing(v) \in StartsQuery
                                               \/ (read_enable_in[v] /\ Doing(v) \notin StopsQuery)]
      /\ UNCHANGED <<voxel_out, valid_out, entries, next_replacement, l3in, l3out>>
      /\ UNCHANGED <<reset, loop, camera_in, next_pixel, camera, frame_buffer, frame_done_out, shown>>
      BY DEF StepVTU, VTUEdge, mainvars, orchestratorvars, answers
<1>2. \A v \in VTUs : /\ vtu'[v] \in Unit /\ OnItsPath(vtu'[v])
                      /\ vtu'[v].ray_in = vtu[v].ray_in /\ vtu'[v].ray_init_in = vtu[v].ray_init_in
                      /\ vtu'[v].current_pixel = vtu[v].current_pixel
                      /\ vtu'[v].ray = vtu'[v].ray_in
                      /\ Doing(v) \in {"hold", "stall"} => vtu'[v] = vtu[v]
  <2> SUFFICES ASSUME NEW v \in VTUs
               PROVE  /\ vtu'[v] \in Unit /\ OnItsPath(vtu'[v])
                      /\ vtu'[v].ray_in = vtu[v].ray_in /\ vtu'[v].ray_init_in = vtu[v].ray_init_in
                      /\ vtu'[v].current_pixel = vtu[v].current_pixel
                      /\ vtu'[v].ray = vtu'[v].ray_in
                      /\ Doing(v) \in {"hold", "stall"} => vtu'[v] = vtu[v]
      OBVIOUS
  <2>1. PICK u : u = vtu[v] OBVIOUS
  <2>2. PICK new : new = After(u, Doing(v), voxel_out[v]) OBVIOUS
  <2>3. vtu'[v] = new BY <1>1, <2>1, <2>2
  <2>4. /\ new \in Unit /\ OnItsPath(new)
        /\ new.ray_in = u.ray_in /\ new.ray_init_in = u.ray_init_in /\ new.current_pixel = u.current_pixel
        /\ new.ray = new.ray_in
        /\ Doing(v) \in {"hold", "stall"} => new = u
        BY <1>1, <2>1, <2>2, UnitStep
  <2> QED BY <2>1, <2>3, <2>4
<1>3. \A v \in VTUs : /\ Voxel(vtu'[v].ray, vtu'[v].num_steps) \in Addr
                      /\ Doing(v) \in {"reset", "init", "hold", "give up", "stall", "hit", "advance"}
  <2>1. \A v \in VTUs : vtu'[v].ray \in Ray /\ vtu'[v].num_steps \in 0 .. MaxSteps + 1
        BY <1>2 DEF Unit
  <2> QED BY <2>1, SoftRendererAssumption DEF Doing
<1>4. addr_in' \in [VTUs -> Addr] /\ read_enable_in' \in [VTUs -> BOOLEAN]
  <2>1. \A v \in VTUs : addr_in[v] \in Addr BY DEF RendererInv, CacheInv, CacheTypeOK
  <2> QED BY <1>1, <1>3, <2>1
<1>5. CacheInv' BY <1>1, <1>4, OthersKeepCache DEF RendererInv
<1>6. RendererTypeOK'
  <2>1. vtu' \in [VTUs -> Unit] BY <1>1, <1>2
  <2> QED BY <1>1, <2>1 DEF RendererInv, UnitsInv, RendererTypeOK
<1>7. AsksForItsVoxel'
  <2> SUFFICES ASSUME NEW v \in VTUs, read_enable_in'[v]
               PROVE  addr_in'[v] = Voxel(vtu'[v].ray, vtu'[v].num_steps)
      BY DEF AsksForItsVoxel
  <2>1. CASE Doing(v) \in StartsQuery BY <1>1, <2>1
  <2>2. CASE Doing(v) \notin StartsQuery
    <3>1. read_enable_in[v] /\ Doing(v) \notin StopsQuery BY <1>1, <2>2
    <3>2. Doing(v) \in {"hold", "stall"} BY <1>3, <2>2, <3>1 DEF StartsQuery, StopsQuery
    <3> QED BY <1>1, <1>2, <2>2, <3>1, <3>2 DEF RendererInv, UnitsInv, AsksForItsVoxel
  <2> QED BY <2>1, <2>2
<1>8. CastsItsInput' BY <1>2 DEF CastsItsInput
<1>9. QuietInReset' BY <1>1, <1>2 DEF RendererInv, UnitsInv, QuietInReset
<1> QED BY <1>2, <1>5, <1>6, <1>7, <1>8, <1>9 DEF RendererInv, UnitsInv

\* What the orchestrator gives a unit: a ray, whether it is new, the pixel it is for.
LEMMA GivesRays ==
    ASSUME RendererInv, StepOrchestrator,
           vtu' \in [VTUs -> Unit],
           \A v \in VTUs : /\ vtu'[v].ray = vtu[v].ray /\ vtu'[v].num_steps = vtu[v].num_steps
                           /\ vtu'[v].last_step = vtu[v].last_step /\ vtu'[v].hit = vtu[v].hit
                           /\ vtu'[v].normal = vtu[v].normal /\ vtu'[v].valid = vtu[v].valid
                           /\ ~vtu'[v].ray_init_in => vtu'[v].ray_in = vtu[v].ray_in,
           next_pixel' \in 0 .. NumPixels, camera' \in Camera, frame_done_out' \in BOOLEAN,
           frame_buffer' \in [0 .. NumPixels - 1 -> [block : Block, normal : Normals]]
    PROVE  RendererInv'
<1>1. /\ pc = "orchestrator" /\ pc' = "main" /\ reset' = FALSE
      /\ UNCHANGED <<loop, camera_in, cachevars>>
      BY DEF StepOrchestrator
<1>2. CacheInv' BY <1>1, OthersKeepCache DEF RendererInv, CacheInv, CacheTypeOK, cachevars, queries, answers
<1>3. RendererTypeOK' BY <1>1 DEF RendererInv, UnitsInv, RendererTypeOK
<1>4. AsksForItsVoxel' BY <1>1 DEF RendererInv, UnitsInv, AsksForItsVoxel, cachevars, queries
<1>5. \A v \in VTUs : OnItsPath(vtu'[v]) BY DEF RendererInv, UnitsInv, OnItsPath
<1>6. CastsItsInput' BY <1>1 DEF RendererInv, UnitsInv, CastsItsInput
<1>7. QuietInReset' BY <1>1 DEF QuietInReset
<1> QED BY <1>2, <1>3, <1>4, <1>5, <1>6, <1>7 DEF RendererInv, UnitsInv

LEMMA OrchestratorTypes ==
    RendererTypeOK =>
        /\ NumPixels \in Nat \ {0} /\ next_pixel \in 0 .. NumPixels
        /\ camera \in Camera /\ camera_in \in Camera
        /\ vtu \in [VTUs -> Unit]
        /\ frame_buffer \in [0 .. NumPixels - 1 -> [block : Block, normal : Normals]]
BY SoftRendererAssumption DEF RendererTypeOK

LEMMA ResetFrameKeeps ==
    ASSUME RendererInv, StepOrchestrator, OrchestratorReset
    PROVE  RendererInv'
<1>1. RendererTypeOK BY DEF RendererInv, UnitsInv
<1>2. NoAnswer \in [block : Block, normal : Normals] /\ Home \in Camera
      BY SoftCacheAssumption, SoftRendererAssumption DEF NoAnswer, Normals
<1>3. /\ vtu' = vtu /\ next_pixel' = NumPixels /\ camera' = Home /\ frame_done_out' = FALSE
      /\ frame_buffer' = [p \in 0 .. NumPixels - 1 |-> NoAnswer]
      BY DEF OrchestratorReset
<1>4. next_pixel' \in 0 .. NumPixels BY <1>1, <1>3, OrchestratorTypes
<1> QED BY <1>1, <1>2, <1>3, <1>4, OrchestratorTypes, GivesRays

LEMMA StartKeeps ==
    ASSUME RendererInv, StepOrchestrator, StartFrame
    PROVE  RendererInv'
<1>1. RendererTypeOK BY DEF RendererInv, UnitsInv
<1>2. /\ next_pixel' = 0 /\ camera' = camera_in /\ frame_buffer' = frame_buffer
      /\ frame_done_out' = (next_pixel = NumPixels - 1)
      /\ vtu' = [v \in VTUs |-> [vtu[v] EXCEPT !.ray_in = [pixel |-> 0, camera |-> camera_in],
                                               !.ray_init_in = TRUE, !.current_pixel = 0]]
      BY DEF StartFrame
<1>3. 0 \in 0 .. NumPixels BY <1>1, OrchestratorTypes
<1>4. [pixel |-> 0, camera |-> camera_in] \in Ray BY <1>1, <1>3, OrchestratorTypes DEF Ray
<1>5. \A v \in VTUs : vtu[v] \in Unit BY <1>1, OrchestratorTypes
<1>6. vtu' \in [VTUs -> Unit] BY <1>2, <1>3, <1>4, <1>5 DEF Unit
<1>7. \A v \in VTUs : /\ vtu'[v].ray = vtu[v].ray /\ vtu'[v].num_steps = vtu[v].num_steps
                      /\ vtu'[v].last_step = vtu[v].last_step /\ vtu'[v].hit = vtu[v].hit
                      /\ vtu'[v].normal = vtu[v].normal /\ vtu'[v].valid = vtu[v].valid
                      /\ vtu'[v].ray_init_in = TRUE
      BY <1>2, <1>5 DEF Unit
<1> QED BY <1>1, <1>2, <1>3, <1>6, <1>7, OrchestratorTypes, GivesRays

\* The unit served first, if any is ready.
LEMMA FirstReady == Ready # {} => First(Ready) \in Ready /\ First(Ready) \in VTUs
<1>1. Ready \subseteq VTUs /\ Ready \subseteq Nat BY PortsAndSlots DEF Ready
<1> QED BY <1>1, FirstIs

LEMMA DrawKeeps ==
    ASSUME RendererInv, StepOrchestrator, Draw, ~FrameOver
    PROVE  RendererInv'
<1>1. RendererTypeOK BY DEF RendererInv, UnitsInv
<1>2. camera' = camera /\ frame_done_out' = (next_pixel = NumPixels - 1) BY DEF Draw
<1>3. \A v \in VTUs : vtu[v] \in Unit BY <1>1, OrchestratorTypes
<1>4. CASE Ready = {}
  <2>1. /\ vtu' = [v \in VTUs |-> [vtu[v] EXCEPT !.ray_init_in = FALSE]]
        /\ next_pixel' = next_pixel /\ frame_buffer' = frame_buffer
        BY <1>4 DEF Draw
  <2>2. vtu' \in [VTUs -> Unit] BY <1>3, <2>1 DEF Unit
  <2>3. \A v \in VTUs : /\ vtu'[v].ray = vtu[v].ray /\ vtu'[v].num_steps = vtu[v].num_steps
                        /\ vtu'[v].last_step = vtu[v].last_step /\ vtu'[v].hit = vtu[v].hit
                        /\ vtu'[v].normal = vtu[v].normal /\ vtu'[v].valid = vtu[v].valid
                        /\ vtu'[v].ray_in = vtu[v].ray_in
        BY <1>3, <2>1 DEF Unit
  <2> QED BY <1>1, <1>2, <2>1, <2>2, <2>3, OrchestratorTypes, GivesRays
<1>5. CASE Ready # {}
  <2>1. PICK s \in VTUs : s = First(Ready) BY <1>5, FirstReady
  <2>2. PICK next \in Nat : next = next_pixel + 1 BY <1>1, OrchestratorTypes
  <2>3. next \in 0 .. NumPixels BY <1>1, <2>2, OrchestratorTypes DEF FrameOver
  <2>4. /\ next_pixel' = next
        /\ frame_buffer' = [frame_buffer EXCEPT ![vtu[s].current_pixel] =
                               [block |-> vtu[s].hit, normal |-> vtu[s].normal]]
        /\ vtu' = [w \in VTUs |->
                     IF w # s THEN [vtu[w] EXCEPT !.ray_init_in = FALSE]
                     ELSE [vtu[s] EXCEPT !.ray_in = [pixel |-> next, camera |-> camera],
                                         !.current_pixel = next, !.ray_init_in = TRUE]]
        BY <1>5, <2>1, <2>2 DEF Draw, Serve
  <2>5. [pixel |-> next, camera |-> camera] \in Ray BY <1>1, <2>3, OrchestratorTypes DEF Ray
  <2>6. vtu' \in [VTUs -> Unit] BY <1>3, <2>3, <2>4, <2>5 DEF Unit
  <2>7. \A v \in VTUs : /\ vtu'[v].ray = vtu[v].ray /\ vtu'[v].num_steps = vtu[v].num_steps
                        /\ vtu'[v].last_step = vtu[v].last_step /\ vtu'[v].hit = vtu[v].hit
                        /\ vtu'[v].normal = vtu[v].normal /\ vtu'[v].valid = vtu[v].valid
                        /\ ~vtu'[v].ray_init_in => vtu'[v].ray_in = vtu[v].ray_in
        BY <1>3, <2>4 DEF Unit
  <2>8. [block |-> vtu[s].hit, normal |-> vtu[s].normal] \in [block : Block, normal : Normals]
        BY <1>3 DEF Unit
  <2>9. frame_buffer' \in [0 .. NumPixels - 1 -> [block : Block, normal : Normals]]
        BY <1>1, <2>4, <2>8, OrchestratorTypes
  <2> QED BY <1>1, <1>2, <2>3, <2>4, <2>6, <2>7, <2>9, OrchestratorTypes, GivesRays
<1> QED BY <1>4, <1>5

LEMMA RendererInvStep == RendererInv /\ [Next]_vars => RendererInv'
<1> SUFFICES ASSUME RendererInv, [Next]_vars PROVE RendererInv' OBVIOUS
<1>1. CASE StepL2 \/ StepL3
  <2>1. /\ UNCHANGED <<reset, loop, camera_in, vtu, next_pixel, camera, frame_buffer, frame_done_out, shown>>
        /\ UNCHANGED <<addr_in, read_enable_in>> /\ pc' \in {"l3", "vtu"} /\ pc \in {"l2", "l3"}
        BY <1>1 DEF StepL2, StepL3, mainvars, orchestratorvars, L2Reset, L2Edge, L3Reset, L3Edge, queries
  <2>2. CacheInv'
    <3>1. CASE StepL2 BY <3>1, L2EdgeKeeps, L2ResetKeeps DEF StepL2, RendererInv
    <3>2. CASE StepL3 BY <3>2, L3Keeps DEF StepL3, RendererInv
    <3> QED BY <1>1, <3>1, <3>2
  <2>3. UnitsInv' BY <2>1 DEF RendererInv, UnitsInv, RendererTypeOK, AsksForItsVoxel, CastsItsInput, QuietInReset
  <2> QED BY <2>2, <2>3 DEF RendererInv
<1>2. CASE StepVTU BY <1>2, VTUKeeps
<1>3. CASE StepOrchestrator
  <2>1. OrchestratorReset \/ StartFrame \/ (Draw /\ ~FrameOver)
        BY <1>3 DEF StepOrchestrator, RendererInv, UnitsInv, RendererTypeOK
  <2> QED BY <1>3, <2>1, ResetFrameKeeps, StartKeeps, DrawKeeps
<1>4. CASE Clock \/ (\E c \in Camera : Update(c))
  <2>1. /\ pc = "main" /\ pc' \in {"l2", "main"} /\ loop' \in {"rendering", "done"} /\ camera_in' \in Camera
        /\ UNCHANGED <<reset, cachevars, vtu, next_pixel, camera, frame_buffer, frame_done_out, shown>>
        /\ ~reset
    <3>1. RendererTypeOK BY DEF RendererInv, UnitsInv
    <3>2. /\ pc = "main" /\ pc' \in {"l2", "main"} /\ loop' \in {"rendering", "done"} /\ camera_in' \in Camera
          /\ UNCHANGED <<reset, cachevars, vtu, next_pixel, camera, frame_buffer, frame_done_out, shown>>
          BY <1>4, <3>1 DEF Clock, Update, RendererTypeOK, orchestratorvars
    <3> QED BY <3>2 DEF RendererInv, UnitsInv, QuietInReset
  <2>2. CacheInv'
        BY <2>1, OthersKeepCache DEF RendererInv, CacheInv, CacheTypeOK, cachevars, queries, answers
  <2>3. UnitsInv'
        BY <2>1 DEF RendererInv, UnitsInv, RendererTypeOK, AsksForItsVoxel, CastsItsInput, QuietInReset,
           cachevars, queries
  <2> QED BY <2>2, <2>3 DEF RendererInv
<1>5. CASE UNCHANGED vars
  <2>1. UNCHANGED <<pc, reset, loop, camera_in, addr_in, read_enable_in, voxel_out, valid_out, entries,
                    next_replacement, l3_addr_in, l3_read_enable_in, l3_voxel_out, l3_valid_out, vtu,
                    next_pixel, camera, frame_buffer, frame_done_out, shown>>
        BY <1>5 DEF vars, mainvars, cachevars, queries, answers, l3in, l3out, orchestratorvars
  <2>2. CacheInv' BY <2>1 DEF RendererInv, CacheInv, CacheTypeOK, EntriesRight, L3InStep, AnswersRight, Holding
  <2>3. UnitsInv' BY <2>1 DEF RendererInv, UnitsInv, RendererTypeOK, AsksForItsVoxel, CastsItsInput, QuietInReset
  <2> QED BY <2>2, <2>3 DEF RendererInv
<1> QED BY <1>1, <1>2, <1>3, <1>4, <1>5 DEF Next

-----------------------------------------------------------------------------
(* The frame of one unit. *)

LEMMA OneUnit == NumVTU = 1 => VTUs = {0}
BY DEF VTUs

\* The orchestrator with one unit, one edge.
LEMMA FrameEdge ==
    ASSUME NumVTU = 1, RendererInv, FrameInv, StepOrchestrator
    PROVE  FrameInv'
<1>1. /\ pc = "orchestrator" /\ pc' = "main" /\ loop' = loop /\ VTUs = {0}
      BY OneUnit DEF StepOrchestrator
<1>2. RendererTypeOK /\ NumPixels \in Nat \ {0} /\ next_pixel \in 0 .. NumPixels /\ vtu[0] \in Unit
      BY <1>1, OrchestratorTypes DEF RendererInv, UnitsInv
<1>3. CASE OrchestratorReset /\ reset
  <2>1. next_pixel' = NumPixels /\ frame_done_out' = FALSE /\ shown' = shown
        BY <1>3 DEF OrchestratorReset
  <2>2. shown = <<>> BY <1>3 DEF RendererInv, UnitsInv, QuietInReset
  <2> QED BY <1>2, <2>1, <2>2 DEF FrameInv
<1>4. CASE StartFrame /\ FrameOver
  <2>1. /\ next_pixel' = 0 /\ camera' = camera_in /\ frame_buffer' = frame_buffer
        /\ frame_done_out' = (next_pixel = NumPixels - 1)
        /\ shown' = (IF frame_done_out THEN <<camera>> ELSE shown)
        /\ vtu' = [v \in VTUs |-> [vtu[v] EXCEPT !.ray_in = [pixel |-> 0, camera |-> camera_in],
                                                 !.ray_init_in = TRUE, !.current_pixel = 0]]
        BY <1>4 DEF StartFrame
  <2>2. next_pixel = NumPixels /\ frame_done_out' = FALSE
    <3>1. next_pixel = NumPixels BY <1>4 DEF FrameOver
    <3>2. ~(next_pixel = NumPixels - 1) BY <1>2, <3>1
    <3> QED BY <2>1, <3>1, <3>2
  <2>3. vtu'[0].current_pixel = 0 /\ vtu'[0].ray_in = [pixel |-> 0, camera |-> camera_in]
        BY <1>1, <1>2, <2>1 DEF Unit
  <2>4. ASSUME loop = "done", shown' # <<>> PROVE Shown' = MockRender(shown'[1])
    <3>1. frame_done_out
      <4>1. ~frame_done_out => shown = <<>> BY <1>1, <2>4 DEF FrameInv
      <4> QED BY <2>1, <2>4, <4>1
    <3>2. shown'[1] = camera BY <2>1, <3>1
    <3>3. \A p \in 0 .. NumPixels - 1 : frame_buffer[p].block = MockCast([pixel |-> p, camera |-> camera]).block
          BY <2>2, <3>1 DEF FrameInv, PixelRight
    <3>4. Shown' = [p \in 0 .. NumPixels - 1 |-> frame_buffer[p].block] BY <2>1 DEF Shown
    <3>5. MockRender(camera) = [p \in 0 .. NumPixels - 1 |-> MockCast([pixel |-> p, camera |-> camera]).block]
          BY DEF MockRender
    <3>6. Shown' = MockRender(camera) BY <3>3, <3>4, <3>5
    <3> QED BY <3>2, <3>6
  <2>5. \A p \in 0 .. next_pixel' - 1 : FALSE
    <3>1. \A n \in Nat : n = 0 => \A p \in 0 .. n - 1 : FALSE OBVIOUS
    <3> QED BY <2>1, <3>1
  <2> QED BY <1>1, <2>1, <2>2, <2>3, <2>4, <2>5 DEF FrameInv
<1>5. CASE Draw /\ ~FrameOver
  <2>1. camera' = camera /\ shown' = shown /\ frame_done_out' = (next_pixel = NumPixels - 1)
        BY <1>5 DEF Draw
  <2>2. next_pixel \in 0 .. NumPixels - 1 /\ next_pixel < NumPixels
    <3>1. next_pixel # NumPixels BY <1>5 DEF FrameOver
    <3> QED BY <1>2, <3>1
  <2>3. vtu[0].current_pixel = next_pixel /\ vtu[0].ray_in = [pixel |-> next_pixel, camera |-> camera]
        /\ \A p \in 0 .. next_pixel - 1 : PixelRight(p)
        BY <2>2 DEF FrameInv
  <2>4. ~(loop = "done" /\ ~frame_done_out' /\ shown' # <<>>)
    <3>1. loop = "done" /\ shown # <<>> => frame_done_out BY <1>1 DEF FrameInv
    <3>2. frame_done_out => next_pixel = NumPixels - 1
      <4>1. frame_done_out => next_pixel >= NumPixels - 1 BY DEF FrameInv
      <4> QED BY <1>2, <2>2, <4>1
    <3> QED BY <2>1, <3>1, <3>2
  <2>5. CASE Ready = {}
    <3>1. /\ vtu' = [v \in VTUs |-> [vtu[v] EXCEPT !.ray_init_in = FALSE]]
          /\ next_pixel' = next_pixel /\ frame_buffer' = frame_buffer
          BY <1>5, <2>5 DEF Draw
    <3>2. vtu'[0].current_pixel = next_pixel /\ vtu'[0].ray_in = [pixel |-> next_pixel, camera |-> camera]
          BY <1>1, <1>2, <2>3, <3>1 DEF Unit
    <3>3. \A p \in 0 .. next_pixel - 1 : PixelRight(p)' BY <2>1, <2>3, <3>1 DEF PixelRight
    <3>4. frame_done_out' => next_pixel' >= NumPixels - 1
      <4>1. frame_done_out' => next_pixel = NumPixels - 1 BY <2>1
      <4> QED BY <1>2, <3>1, <4>1
    <3> QED BY <1>1, <2>1, <2>4, <3>1, <3>2, <3>3, <3>4 DEF FrameInv
  <2>6. CASE Ready # {}
    <3>1. First(Ready) = 0 /\ vtu[0].valid
      <4>1. First(Ready) \in Ready /\ First(Ready) \in VTUs BY <2>6, FirstReady
      <4> QED BY <1>1, <4>1 DEF Ready
    <3>2. PICK next \in Nat : next = next_pixel + 1 BY <2>2
    <3>3. PICK answer : answer = [block |-> vtu[0].hit, normal |-> vtu[0].normal] OBVIOUS
    <3>4. /\ next_pixel' = next
          /\ frame_buffer' = [frame_buffer EXCEPT ![next_pixel] = answer]
          /\ vtu' = [w \in VTUs |->
                       IF w # 0 THEN [vtu[w] EXCEPT !.ray_init_in = FALSE]
                       ELSE [vtu[0] EXCEPT !.ray_in = [pixel |-> next, camera |-> camera],
                                           !.current_pixel = next, !.ray_init_in = TRUE]]
          BY <1>5, <2>3, <2>6, <3>1, <3>2, <3>3 DEF Draw, Serve
    <3>5. vtu'[0].current_pixel = next /\ vtu'[0].ray_in = [pixel |-> next, camera |-> camera]
          BY <1>1, <1>2, <3>4 DEF Unit
    <3>6. answer.block = MockCast([pixel |-> next_pixel, camera |-> camera]).block
      <4>1. vtu[0].ray = vtu[0].ray_in BY <1>1 DEF RendererInv, UnitsInv, CastsItsInput
      <4>2. vtu[0].hit = MockCast(vtu[0].ray).block BY <1>1, <3>1 DEF RendererInv, UnitsInv, OnItsPath
      <4> QED BY <2>3, <3>3, <4>1, <4>2
    <3>7. \A p \in 0 .. next - 1 : PixelRight(p)'
      <4> SUFFICES ASSUME NEW p \in 0 .. next - 1
                   PROVE  frame_buffer'[p].block = MockCast([pixel |-> p, camera |-> camera]).block
          BY <2>1 DEF PixelRight
      <4>1. frame_buffer \in [0 .. NumPixels - 1 -> [block : Block, normal : Normals]]
            BY <1>2, OrchestratorTypes
      <4>2. p \in 0 .. NumPixels - 1 /\ (p = next_pixel \/ p \in 0 .. next_pixel - 1) BY <1>2, <2>2, <3>2
      <4>3. CASE p = next_pixel BY <2>2, <3>4, <3>6, <4>1, <4>3
      <4>4. CASE p \in 0 .. next_pixel - 1
        <5>1. p # next_pixel BY <2>2, <4>4
        <5>2. frame_buffer'[p] = frame_buffer[p] BY <3>4, <4>1, <4>2, <5>1
        <5> QED BY <2>3, <4>4, <5>2 DEF PixelRight
      <4> QED BY <4>2, <4>3, <4>4
    <3>8. frame_done_out' => next_pixel' >= NumPixels - 1
      <4>1. frame_done_out' => next_pixel = NumPixels - 1 BY <2>1
      <4>2. next >= next_pixel BY <2>2, <3>2
      <4> QED BY <1>2, <2>2, <3>2, <3>4, <4>1, <4>2
    <3> QED BY <1>1, <2>1, <2>4, <3>4, <3>5, <3>7, <3>8 DEF FrameInv
  <2> QED BY <2>5, <2>6
<1>6. (OrchestratorReset /\ reset) \/ (StartFrame /\ FrameOver) \/ (Draw /\ ~FrameOver)
      BY <1>2 DEF StepOrchestrator, RendererTypeOK
<1> QED BY <1>3, <1>4, <1>5, <1>6

LEMMA FrameInvStep ==
    ASSUME NumVTU = 1
    PROVE  RendererInv /\ FrameInv /\ [Next]_vars => FrameInv'
<1> SUFFICES ASSUME RendererInv, FrameInv, [Next]_vars PROVE FrameInv' OBVIOUS
<1>1. CASE StepOrchestrator BY <1>1, FrameEdge
<1>2. CASE StepL2 \/ StepL3 \/ StepVTU
  <2>1. /\ pc # "main" /\ UNCHANGED <<loop, next_pixel, camera, frame_buffer, frame_done_out, shown>>
        BY <1>2 DEF StepL2, StepL3, StepVTU, mainvars, orchestratorvars
  <2>2. vtu'[0].current_pixel = vtu[0].current_pixel /\ vtu'[0].ray_in = vtu[0].ray_in
    <3>1. CASE StepL2 \/ StepL3 BY <3>1 DEF StepL2, StepL3
    <3>2. CASE StepVTU
      <4>1. PICK u : u = vtu[0] OBVIOUS
      <4>2. PICK new : new = After(u, Doing(0), voxel_out[0]) OBVIOUS
      <4>3. vtu'[0] = new BY <3>2, <4>1, <4>2, PortsAndSlots DEF StepVTU, VTUEdge
      <4>4. new.ray_in = u.ray_in /\ new.current_pixel = u.current_pixel
            BY <3>2, <4>1, <4>2, UnitStep, PortsAndSlots DEF StepVTU
      <4> QED BY <4>1, <4>3, <4>4
    <3> QED BY <1>2, <3>1, <3>2
  <2> QED BY <2>1, <2>2 DEF FrameInv, PixelRight
<1>3. CASE Clock \/ (\E c \in Camera : Update(c)) \/ UNCHANGED vars
  <2>1. /\ UNCHANGED <<vtu, next_pixel, camera, frame_buffer, frame_done_out, shown>>
        BY <1>3 DEF Clock, Update, vars, orchestratorvars
  <2>2. loop' = "done" /\ ~frame_done_out => pc' = pc /\ loop' = loop
        BY <1>3 DEF Clock, Update, vars, mainvars
  <2> QED BY <2>1, <2>2 DEF FrameInv, PixelRight, Shown
<1> QED BY <1>1, <1>2, <1>3 DEF Next

-----------------------------------------------------------------------------
LEMMA RendererAlwaysInv == Spec => []RendererInv
<1>1. Init => RendererInv BY CacheInvInit, UnitsInvInit DEF RendererInv
<1> QED BY <1>1, RendererInvStep, PTL DEF Spec

\* l2.rs "make sure there are no duplicates": the entry that an edge fills is
\* never one of two for its voxel, for any number of units and entries.
THEOREM FillsOnlyMisses == Spec => []NoDuplicateFill
<1>1. RendererInv => NoDuplicateFill
      BY DEF RendererInv, CacheInv, L3InStep, NoDuplicateFill
<1> QED BY <1>1, RendererAlwaysInv, PTL

\* vtu.rs reads the answer of an L2 that was asked an edge before: it is that for
\* the voxel the unit is at, whichever unit's query was filled and replaced meanwhile.
THEOREM UnitSeesItsVoxel == Spec => []SeesItsVoxel
BY UnitSees, RendererAlwaysInv, PTL

\* A clocked cast is mock_cast, for any world, path, number of units and entries.
THEOREM ClockedCastIsMock == Spec => []AnswerMatchesMock
<1>1. RendererInv => AnswerMatchesMock
  <2> SUFFICES ASSUME RendererInv, pc = "orchestrator", NEW v \in Ready
               PROVE  LET expected == MockCast(vtu[v].ray_in)
                      IN  /\ vtu[v].hit = expected.block
                          /\ vtu[v].hit # Air /\ vtu[v].num_steps > 0 => vtu[v].normal = expected.normal
      BY DEF AnswerMatchesMock
  <2>1. v \in VTUs /\ vtu[v].valid BY DEF Ready
  <2>2. vtu[v].ray = vtu[v].ray_in BY <2>1 DEF RendererInv, UnitsInv, CastsItsInput
  <2> QED BY <2>1, <2>2 DEF RendererInv, UnitsInv, OnItsPath
<1> QED BY <1>1, RendererAlwaysInv, PTL

\* With the one unit of top_level.rs, the frame update shows is mock_render's from
\* the camera it was started with, all of it: no pixel is skipped, stale or of
\* another camera.
THEOREM OneUnitRendersMock == ASSUME NumVTU = 1 PROVE Spec => []FrameComplete
<1>1. Init => FrameInv
  <2> SUFFICES ASSUME Init PROVE FrameInv OBVIOUS
  <2>1. vtu[0].current_pixel = 0 /\ vtu[0].ray_in = [pixel |-> 0, camera |-> Home]
        BY OneUnit DEF Init, AtHome
  <2>2. /\ next_pixel = 0 /\ camera = Home /\ ~frame_done_out /\ shown = <<>>
        BY DEF Init
  <2>3. \A p \in 0 .. next_pixel - 1 : FALSE BY <2>2
  <2> QED BY <2>1, <2>2, <2>3 DEF FrameInv
<1>2. FrameInv => FrameComplete BY DEF FrameInv, FrameComplete
<1> QED BY <1>1, <1>2, RendererAlwaysInv, FrameInvStep, PTL DEF Spec

=============================================================================
