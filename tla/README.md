# A voxel ray tracer on an FPGA and the Minecraft server that feeds it, in TLA+

This directory models two things of the repository. The first is its own design: SystemVerilog under
`hw/src/hdl` that casts one ray per pixel through a 64x64x64 chunk of voxels, a cycle-level Rust
model of it under `sw/src`, the benches under `hw/src/sim`, and the serial link between the two
boards. The second is the part of the vendored Minecraft server (`server/feather`) through which the
chunks come that are to be shown: how chunks are kept in files, loaded, changed, cached and saved,
and how players make them come and go. The modules are written from the source at the lines
`PROJECT.json` ("map") gives; paths below are relative to `src/`.

In the hardware everything clocked is modelled one rising edge per step. A module's variables are
the registers of its Verilog module, primed values are what the non-blocking assignments leave (the
last assignment wins), unprimed values are what every `always_ff` and `assign` reads, and input pins
are either variables an environment moves or parameters of the step. In the server a step is what
one thread does before another can see or disturb it: a system of the tick, or one message of a
channel, or one write to a file.

## 1. Inventory

| Part | Source | State | Operations | Talks to |
|---|---|---|---|---|
| Voxel cache (L2) | `l2_cache.sv` | tags, entries, occupied, replacement pointer, one request to L3, per-port answers | reset, look-up with hit/miss, fill | any number of reading ports; one L3 |
| Voxel memory | `chunk.sv` + Xilinx RAM | three addresses in flight, two RAM registers, output register | reset, read | one VTU, or the L2 as its L3 |
| L3 cache | `l3_cache.sv` | block RAM, window pointers | read, write, move the window | not instantiated |
| Numbers | `fixed.sv`, `vec3.sv`, `vec3i.sv`, `types.sv` | pipelines of the inverse square root and of the reciprocal | arithmetic on 20-bit fixed point | VTU, orchestrator |
| Voxel traversal unit (VTU) | `vtu.sv` | three-state machine, ray registers, timer, step counter, hit | reset, 13 edges of preparation, traversal, hold the answer | a voxel memory; the orchestrator |
| Orchestrator | `orchestrator.sv` | three-state machine, camera basis, next pixel, per-unit ray registers | reset (new frame), 17 edges of preparation, hand out and collect rays | VTUs; frame buffer |
| Top level | `top_level.sv` | frame buffer, display coordinates, clocks | wires camera, orchestrator, frame buffer, display | everything |
| Display | `vsg.sv`, `tm_choice.sv`, `tmds_encoder.sv`, `tmds_serializer.sv` | counters, running disparity | video timing, 8b/10b-like encoding | HDMI |
| Link | `uart_receiver.sv`, `uart_transmitter.sv` | state, baud counter, shift register | receive/send a byte | host |
| Small parts | `debouncer.sv`, `evt_counter.sv`, `util.sv` | counters | | buttons |
| Software model | `sw/src` | the same parts as Rust structs with a `rising_clk_edge` | | reference cast `mock_cast` |
| Region file | `base/src/anvil/region.rs` | the header, sectors of 4 KiB, the handle's allocator | open, create, load, save, close | the region worker |
| Region worker | `common/src/region_worker.rs` | open handles, a queue of requests | serve loads and saves in order | the world, by two channels |
| World | `common/src/world.rs`, `chunk/{loading,worker,cache}.rs`, `base/src/chunk_lock.rs` | chunk map, cache, tickets, unload queue, loads under way and cancelled, a lock per chunk | load, unload, set a block, answer of worker or generator | the worker, a thread pool, whoever holds a chunk |
| Players | `common/src/view.rs`, `server/src/{lib,client,chunk_subscriptions}.rs`, `systems/player_{join,leave}.rs` | entities with views, clients by key, tickets, subscriptions | join, move, leave | events of `ecs/src`; connections |
| Plugin | `server/plugin` | a serial port | send a chunk block by block | link |

How they interact. The orchestrator writes a ray to a unit's registers and raises the unit's `rst`
for an edge; the unit reads voxels from its memory by holding an address until `valid` belongs to
it; when `hit_valid` rises the orchestrator writes the answer to the frame buffer and hands out the
next pixel at the same edge. All parts share one clock: concurrency is what several registers do at
one edge, what the pipelines still hold from earlier edges, when `rst_in` comes, and how long
another part takes.

In the server one thread runs the systems of a tick one after the other. Players' systems leave
events (components that live until the system that inserted them runs again) which say which chunks
came into view; those become tickets, tickets become loads, and a load goes through an unbounded
channel to the region worker, back through a bounded one, and, if the chunk is not on disk, on to a
pool of generators and a third channel. A chunk's handle (`Arc<ChunkLock>`) may be held by packets
and plugins after the chunk has left the map.

What is hard, and therefore what properties are aimed at (the list with lines is in `PROJECT.json`,
"hazards"):

* **L2**: a second port's miss redirects a request that L3 is already serving; a fill and a miss at
  one edge; replacement order; starvation behind a static priority.
* **Memory**: answers for an address that has meanwhile moved.
* **VTU**: values taken out of two pipelines at hand-counted edges; giving up and hitting at the
  same edge; signs of the first boundary.
* **Orchestrator**: resets in the middle of a frame with old vectors in the normalizer and old rays
  in the units; one-edge windows in the `hit_valid`/`rst` handshake; end of the frame; a unit that
  never answers.
* **Software model**: each part sees what the parts before it left in the same edge, so answers are
  for questions of one edge or of two edges ago; a window loop that ends only if every ray is
  answered.
* **Link**: clocks of two boards that drift apart over ten samples; a dip of the idle line that
  starts the receiver just before the real start bit; no back-pressure.
* **Display**: every timing signal is a register set one pixel ahead; a five-bit running disparity;
  a frame buffer that answers four pixels late.
* **Region file**: sectors given away twice or lost over many saves; a stop between any two writes
  of a save; padding at the boundary of a sector; a region opened again.
* **World**: the worker reads a chunk when it gets to its save, by when the chunk may be anywhere; a
  chunk purged, loaded or unloaded at the wrong moment is two chunks, or lost blocks; a bounded
  channel between threads that wait for each other.
* **Players**: events removed by type when two systems insert the same type; keys of clients used
  again while the last user's entity is still there; unwraps that rest on the order of systems over
  several ticks.

## 2. Modules

```
FixedPoint <- BlockPos <- VTU <- RayCaster = VTU + Chunk + driver
                                     | implements
L2Cache <- L2System = L2Cache        v
           + readers + Chunk     RayPromise <- Orchestrator (units are promises)
Chunk (used by RayCaster, L2System)

SoftCache <- SoftRenderer            the software model, as one system

UartTransmitter, UartReceiver <- UartLink --implements--> ByteChannel

VideoTiming <- Display = VideoTiming + frame-buffer reads + Tmds

RegionFile --implements--> RegionStore      one region file; what it promises
ChunkWorld (its disk is a map, as RegionStore's)
Players (its chunks are those of ChunkWorld, which sees "has a ticket")

*Proofs: theorems      MC*: instances for TLC
```

* **L2Cache**: `Reset`, `LookupEdge` and `FillEdge` are the three paths through the clocked block;
  the pins (`addr`, `read_enable`, `l3_out`) are parameters and completely free, so the invariants
  hold for any readers and any L3. The loops over ports and entries, in which the last assignment
  wins, are `Last` of a set. `filled` is a history variable: the addresses of the last `CacheSize`
  fills in their order, which the replacement pointer has to reproduce without keeping it
  (`OnlyOldestEvicted`).
* **L2System** puts that cache between readers that follow `query_l2_cache` of `test_l2_cache.py`
  (set the address, one edge, then wait for `valid`) and `chunk.sv`, which its comment calls "a ROM
  version of the L3 cache". The bench waits three edges after a reset (`quiet`); without them a
  first read of position 0 can be answered from the registers of before the reset.
* **Chunk**: `ChunkReset`, `ChunkEdge` and the combinational `Valid`. Power-up values are those of
  the RAM's registers (zero) and anything for `out`, which has no reset. `edges_since_reset` is a
  history variable.
* **FixedPoint**: raw integers with two's complement wrapping at 20 bits, the rounding of the
  arithmetic shift, the logical shift on the unsigned packed struct in the inverse square root, and
  both look-up tables. The tables are written as the formulas that generate them where they follow
  one.
* **BlockPos**: coordinates of `CoordBits` bits, the bounds test and the address of `chunk.sv`.
* **VTU**: every register, bit-exact. The two arithmetic pipelines are the inputs in flight: an
  output is the function applied to the input of six (normalizer) or three (reciprocal) edges ago.
  `FirstDistance` keeps the sign the source has.
* **RayPromise**: what the orchestrator relies on: an answer for the ray on the pins, between
  `Earliest` and `Latest` edges after the last reset, kept until the next.
* **RayCaster** composes VTU and Chunk and drives them as the orchestrator does (`rst` raised for
  the edge after the ray registers change, `rst_in` resetting both unit and memory, `rst` the unit
  only). `MockCast` is the reference, `VoxelTraversalUnit::mock_cast` of `sw/src/vtu.rs`, over the
  hardware's numbers, as `MockStep` and `MockWalk`; its limit of 220 steps is taken to be the
  hardware's. `Comparable` says for which rays the two can agree: the steps up begin in voxel 0 and
  go the way of the normalized direction (`SameStart`), and no block lies where the ray comes back
  in after it left the chunk (`NothingBeyondTheEdge`). `KeepsPromise` is the refinement: with
  `answered <- hit_valid` and `answer <- (hit, hit_norm)` the composition implements `RayPromise`.
* **Orchestrator**: all three states, `rst_in` at any edge. Units are instances of `RayPromise`,
  which is what `RayCaster` is shown to implement. Vectors are represented by their provenance (a
  camera and a direction), so that a value taken from the pipeline one edge early, or from another
  camera, is `Garbage` and stays so; the six inputs in flight in the normalizer are kept. The frame
  buffer is the block RAM of `top_level.sv`, seen from the write side only.
* **SoftCache** and **SoftRenderer**: `sw/src`, where one call of `TopLevel::rising_clk_edge` steps
  L2, L3, units and orchestrator one after the other on shared structs. `pc` says whose
  `rising_clk_edge` is next, and `Clock` and `Update` are the loops of `main.rs` around them. A unit
  is a record (`vtu.rs`), an optional cache entry a sequence of length 0 or 1. A ray is a pixel and
  a camera; the arithmetic that picks its voxels is a constant path (`Voxel`, `Axis`, `Sign`), the
  same for the reference (`MockCast`, `MockRender`), because the arithmetic is the subject of
  RayCaster and the traffic is the subject here. `shown` is a history variable.
* **UartTransmitter**, **UartReceiver**: both state machines with their edge counters. **UartLink**
  joins them by a wire and maps them to **ByteChannel**, in which a byte is handed over, announced
  once, and only then the next is handed over. Their bit periods are constants of their own. A dip
  (`Dip`) is one low edge of the idle line, seen while the receiver is idle.
* **VideoTiming**: `vsg.sv`, one action per branch of its state machine, for any resolution.
* **Tmds**: `tm_choice.sv` and `tmds_encoder.sv`; `last` and `disparity` are history variables that
  say what a character stands for and what has really been on the line. `Decode` is the receiver of
  the DVI scheme, outside the repository.
* **Display**: the wiring of `top_level.sv` on the pixel clock: the counters go to the frame buffer
  at a quarter, the colour comes back through three registers and the encoder's, drawing and syncs
  do not. Of the three identical channels the blue one is modelled, since it also carries the syncs.
  The buffer's two registers are those its IP is configured with (`blk_mem_gen_0.xci`, output
  register of port B on).
* **RegionFile**: `save_chunk` as the writes it makes, one step each: free and allocate (first gap
  that is long enough, else at the end), length word, data, padding, header. `Crash` stops the
  process between any two of them; the handle is lost and `load_region` rebuilds the allocator from
  the header (`Open`). It may also fail on a file that is there: `region_file_handle` turns every
  error into `None`, and a save then runs `create_region` over the file (`Create`), whose header is
  emptied while the other sectors keep their bytes, since nothing truncates it. `CreateCut` is the
  same stopped half way, with some chunks forgotten and others not. Compressed NBT is a payload cut
  into parts of a sector: what is read back decodes only if it is one payload from its first part to
  its last.
* **RegionStore** is what that promises whoever does not look at sectors: a map from chunks to what
  they load as. A chunk being saved may load as anything of its own, or not; afterwards it is what
  was saved; the others stay. The exceptions the code makes are named in it: a chunk whose own save
  was cut short may break at any later save (its header still names sectors that may be given away
  after they were freed), data that ends at the end of a sector breaks its neighbour (5.1), and a
  file that is made anew forgets all chunks (5, `region_worker.rs:92`; `Anew`, `AnewCut`). That last
  one needs the worker to be without a handle: between opening and closing a region nothing is
  forgotten.
* **ChunkWorld**: the systems of the tick that touch chunks in their order (`phase`), the region
  worker (`ServeLoad`, `ServeSave`), the generators (`Generate`, in any order), and the holders of
  handles (`TakeHandle`, `Release`). Blocks are set through the map (`SetBlock`), which the flag of
  the lock must allow. A `ChunkLock` is its blocks and the `loaded` flag; a handle is which lock.
  The cache drops a chunk when nobody else holds its handle. A region file that is there is taken to
  open: when it does not, a load answers `Missing` as well (`region_worker.rs:116`), the chunk is
  generated anew, and its blocks are lost. `latest` is a history variable: what was last written to
  each chunk.
* **Players**: the order of systems is the executor's (`phase`); each action is a whole system.
  Events are a component and the list of entities whose event a system has to take away (`tracked`),
  as in `ecs/src/event.rs`. `clients` with `vacant` is the slab, with the order in which it gives
  keys out again. `lost` is a history variable: who missed an event.

## 3. Runs

| Run | Question | Instance |
|---|---|---|
| `l2_system` | Is an address cached once, is what was filled first evicted first, are reads right while ports evict each other's blocks, is the preferred port served? | 2 ports, 3 addresses over 2 entries, chunk as L3, 1 reset; 158,802 states |
| `raycaster` | Does every cast equal the reference, in time, for any history of casts and resets? | full width and step limit; 9 rays: diagonals, axis-parallel, negative steps, a hit at the start, one that meets nothing; 41,736 |
| `orchestrator` | Is a frame made of one camera, in order, all but its last pixel, and does it finish? | 1 unit as on the board, 4 pixels, 2 cameras, 4 reset edges at any time; 130,460 |
| `soft_renderer` | Are the answers of the software's caches those of the voxel a unit is at, is each frame shown the reference's, and do frames keep coming? | 1 unit as in `top_level.rs`, 3 pixels, 8 voxels over 2 cache entries, 3 cameras, one of them in a solid voxel; 8,332 |
| `uart_link` | Does the link implement the byte channel, and does every byte arrive? | bit periods 20 and 21 edges, 4 bytes, dips and resets at any edge; 31,256 |
| `tmds` | Do characters decode and stay balanced? | all 256 bytes and 4 control characters, in every order the tally tells apart; 2,309 |
| `display` | Are the signals right at every pixel, and what does the picture look like on the cable? | 18 x 11 positions, 64 frames for the frame counter to wrap, resets at any pixel; 12,919 |
| `region_file` | Are sectors shared or leaked, and does the file implement the store, with a stop between any two writes? | 3 chunks of exactly 1 sector or 2, 5 sectors, made anew at any time; 247,837 |
| `region_padding` | Does the padding stay in the chunk's own sectors? | violated, see 5.1 |
| `chunk_world` | Is a chunk in one place with one handle, is the last block written what is read next, do loads finish and unused chunks go? | 2 chunks, 2 values, 2 handles each, channels of 1 and 2; 555,012 |
| `players` | Has each player its own client and the tickets and subscriptions of its view; can a system panic; who leaves tickets behind? | 3 entities, 2 users, 2 keys, 3 chunks, 2 places; 235,644 |
| `players_events` | Does every event stay until each system had its chance? | violated, see 5.2 |

What `display` shows is worth spelling out. `PictureOnScreen` says exactly what is sent: the picture
is four screen pixels (one buffer pixel) to the right of where the counters asked for it, each line
below the first starts with two black pixels and two that were asked for off screen, and the syncs
are those of the position. No comment in the source claims more. At the board's sizes the screen is
320 x 180 scaled pixels over a buffer of 64 x 32 whose address wraps, so that the picture repeats;
the instance has three columns over two for the same reason.

### Bounds

* Two ports are the smallest number with a conflict; three addresses over two entries make every
  fill an eviction and let an evicted block be fetched again.
* `MaxResets` (4 for the orchestrator, 1 for the L2 system) bounds edges with `rst_in`. Two separate
  resets are needed to interrupt a frame and finish the next; four allow double resets and two
  interruptions.
* `Latest = 20` for the orchestrator, where the hardware has `15 + 4 * 60 = 255`. What matters is
  whether an answer comes before or after the 17 edges of preparation end; 14 (the true `Earliest`)
  to 20 has both.
* `FrameArea = 4` where the board has 64 x 32. The counter is compared with the frame area and
  incremented; four pixels give first, last and two inner ones.
* The rays of `raycaster` start in voxel 0 on every axis on which they step up, where the code's
  first boundary agrees with the reference (see 5). That choice is visible in `MCRayCaster`
  (`NearRays`), where TLC checks that they are all `Comparable` (`MCAssumption`).
* Eight voxels over two entries make the software's cache evict at nearly every step; three pixels
  give a first, an inner and a last one; the walk looks three steps far where the code looks 110,
  which both a hit and a miss reach.
* Bit periods 20 and 21 are the shortest that differ and still meet `Compatible`, the assumption
  that all ten samples fall into their bits (with half a bit lost to a dip); the source has 217 at
  460800 baud and a 100 MHz clock.
* The raster has porches of one, two and three, all different, so that no two can be taken for each
  other.
* A region file of five sectors is two of header and three of data, for three chunks of one or two
  sectors: every kind of gap (too short, exact, too long, at the end) occurs, and growth is refused
  by `MaxSectors` only. Sizes of 8 and 14 bytes over sectors of 8 are exactly one and across two;
  the code's sectors have 4096. What lies within one sector differs from the last part of what lies
  across two in nothing. The header counts sectors in eight bits, so data is assumed to have at most
  255 of them (`RegionAssumption`), a little less than the 1 MiB above which `load_chunk` refuses to
  read; a chunk of this program comes near neither.
* Two chunks compete for the channels and each can be loaded, cached, queued and held at once. The
  channel of results holds one where the code has 256: the worker then blocks, which is the case
  worth having. `MaxRequests = 2` makes the tick wait while two requests are pending, `MaxQueue = 2`
  bounds the unload queue. Two handles are one more than are ever in use, which `OneHandlePerChunk`
  shows.
* Two users and two keys for three entities let a key and a user come again while the last entity of
  either is still in the ECS. Nobody new comes once a key is in `lost`, since all that could follow
  is more of what was lost.

What a run shows of safety with these constants, section 4 proves for all of their values. The
guards that keep a model finite (`MaxResets`, `MaxQueue`, the bound on `Connect`, `lost`) belong to
the model and so to the theorems, with any bound.

### Fairness

The clock keeps ticking, and nothing else is assumed of the hardware. `RayCaster` and `Orchestrator`
state it as weak fairness of an edge that leaves `rst_in` low: fairness of every edge would let a
unit that hangs be rescued by the reset that is then the only step left that changes anything.
`L2System` has the clock's parity as a variable for the same reason (a reader must not be forced to
start a query because the cache hangs), so that weak fairness of its next-state relation says that
edges go on and no more. `RayPromise` bounds the time of an answer by safety, so the orchestrator's
liveness needs no fairness of the units, and `RayCaster` is shown to meet that bound. Resets may
come for ever in `RayCaster`: `EveryRayAnswered` assumes they stop; in the other modules they are
bounded.

`UartLink` assumes that the clock ticks (`WF_vars(Edge)`), and never that a reset comes.
`SoftRenderer` is one thread, whose steps go on (`WF_vars(Next)`); that includes the window calling
`update` again.

`FairWorld` assumes what the server's threads have: the tick loop goes on from system to system,
time passes, the region worker serves what is queued, and each generator finishes. Nothing is
assumed of players or of those who hold handles: they may never let go.

`PreferredPortServed` marks the limit of the arbitration, static priority by design ("last assigned
gets resolved first"): with more addresses in use than entries a lower port can starve for ever.

## 4. Proofs

Every safety invariant, action property and refinement that a passing run checks is also a theorem.
All constants are arbitrary but for the assumptions of their modules, which TLC evaluates on the
instances, and the hypotheses named here. Two invariants are proved under a hypothesis on constants:
the frame of the orchestrator and that of the software model, for the one unit both top levels have.
Two properties of the cast are proved for the rays for which the source makes them true
(`Comparable`).

`L2CacheProofs`. The inductive invariant of the cache, whatever is on its pins, is `L2Inv`:
`TypeOK`, `NoDuplicates`, `PendingIsMissing`, `FreeFirst` and `FillOrder`. `NoDuplicates` is not
inductive alone: a fill creates no duplicate because the address it tags missed until then
(`PendingIsMissing`), and a request stays one for a missing address because `LookupEdge` does not
touch the entries and `FillEdge` withdraws it. `FillOrder` finds the history of fills in the
entries: the i-th oldest fill is in entry i - 1 while the cache fills, and i - 1 entries past the
replacement pointer, around the end, once it is full. Hence the pointer is at the oldest fill
(`EvictsOnlyOldest`), for any number of entries. `Last`, a CHOOSE of the last port or entry, is well
defined because a non-empty set of naturals below a bound has a greatest element (`LastIsMember`).
Between its readers and the chunk the cache is right about the contents too (`SystemInv`): nobody
asks before three edges after a reset (`QuietAtFirst`), from when on an answer of the chunk is the
word at the address now requested (`MemoryInStep`), so that every entry matches the memory
(`CacheIsTheMemory`) and every port that is told valid was answered from such an entry
(`ReadersReadRight`). `SystemRunsTheCache` says that the system is one of the environments the first
theorems are about.

`RayCasterProofs`, in three layers.

* The memory under any driver (`AnswersTheAddressAsked`, hypothesis `ChunkAssumption` of the
  instance `Port`): each data register holds the word of the address beside it, once as many edges
  have passed since reset. It holds provided no address is outside the chunk (`NothingOutside`):
  `out` is replaced by air according to the address now on the port, not the one its data belongs
  to, so an address that leaves the chunk for an edge and returns would be answered wrongly.
  `NoPositionIsOutside` proves that coordinates, of six bits or any other width, cannot do that, and
  `ChunkOfTheProgram` combines the two. That the shift and the cut of `flat_addr` give each position
  a word of its own, so that contents may be a function of positions (`Rom`), is
  `AddressesDistinct`.
* The unit (`CastsAtOnce`): unit and memory implement `RayPromise` where the answer is `PathCast`,
  the walk of the hardware as a function of the ray. This is for every ray, world, limit of steps
  and width of a coordinate. The invariant has a part about control, which rests on no data
  (`Control`: how far `init_timer`, `steps` and the memory's pipeline are, hence
  `ReadsTheVoxelItIsIn` and the time an answer takes), and one about data: what the normalizer and
  the reciprocal give at each value of `init_timer` (`Prepared`: the taps are at the right edges),
  that every voxel passed is air and the registers are those of the walk after `steps` steps
  (`OnPath`), and what is shown (`ShowsCast`). The data is claimed only while `rst` is low, since a
  reset leaves old registers.
* The reference (`CastIsTheReference`, `CasterKeepsPromise`, for rays that are `Comparable`): walk
  and reference stay `Alike`, step by step, so that `PathCast` is `MockCast`.

A walk is a recursive function over the steps. The library's induction theorem is out of the
provers' reach, but a least counterexample is not (`Least`, from the well-foundedness of the
naturals): that is how the facts about every step of a walk are proved, and that the recursion
defines a function at all (`WalkExists`).

`OrchestratorProofs`. `CameraInv` says which registers and which stages of the normalizer hold
vectors of the camera latched last when `init_timer` shows t; what earlier frames left is in the
stages behind, and never reaches a register. `OneCameraPerFrame` follows for any number of units.
`PixelInv` is about one unit, as in `top_level.sv` (hypothesis `NumVTU = 1`): once a pixel has been
handed out the unit's registers hold that pixel and its ray, an answer that counts (`vtu_valid`) is
the answer to it, and all pixels before it are in the frame buffer. `PixelsInOrder` and
`FrameDoneButLast` follow for any frame area, whatever times the units take.

`SoftRendererProofs`. A unit reads an answer that its port was given an edge before, perhaps to
another query. `CacheInv` says that a port's answer, when it counts, is that of what the port asks
at that edge (`AnswersRight`); entries may be replaced meanwhile, they hold what their address has
(`EntriesRight`). `UnitsInv` adds that a port asks for the voxel its unit is at (`AsksForItsVoxel`)
and that all voxels before it were air (`OnItsPath`), so the first solid one is the reference's:
`UnitSeesItsVoxel` and `ClockedCastIsMock`, for any number of units, as is `FillsOnlyMisses`.
`OneUnitRendersMock` is about the frame (`FrameInv`) and has the hypothesis `NumVTU = 1`: several
units would all start with the first pixel, and as `next_pixel` counts answers the frame would end
with rays under way.

`PeripheralProofs`, the two ends of the chip.

* Timing, from `TimingAssumption` (every porch at least one pixel or line): `IInv` is `TypeOK` and
  `SignalsMatchCounters`, inductive together and neither alone. `ScansEveryPixel` is the action
  property: the branches of the state machine leave no position without a step. The assumption is
  needed: with a front porch of 0 the sync would have to rise while a branch is taken that does not
  assign it.
* Encoder. The recursion over the eight bits of a byte is unrolled. `EveryByteDecodes` follows from
  the bits; `TallyNeverOverflows` needs `Balanced`, that the true disparity is even and at most
  eight either way: that the tally fits its five bits is what makes it the disparity, and each
  character works against what there is (`TallyStep`).
* Display: the registers between buffer and encoder are in step with the counters, each holding what
  was asked for one edge before the one before it (`PipelineFollows`), so `DisplayShowsThePicture`
  for every resolution, buffer and picture. `DisplayRunsBoth` carries the theorems about timing and
  encoder over to the composition.
* Link (`Compatible`: the sender's bit is no longer than the receiver's, and half a bit and nine
  bits of the receiver are less than ten of the sender). `LinkInv` says how far apart the two
  machines are: while a byte is under way the receiver's time since its start is from one edge less
  to half a bit less one edge more than the sender's (`InStep`; a dip is what costs up to half a
  bit), so each sample falls into its bit (`SampleInSlot`, `StartInSlot`), and nothing is under way
  when the sender is free (`NothingInFlight`). `LinkIsChannel` is the refinement: every step is a
  step of `ByteChannel` or changes nothing there. `BusyUntilAnnounced` says that busy covers the
  byte.

`RegionFileProofs`. `FileInv` joins types, `BlocksApart` (no sector has two chunks) and
`AllocatorExact` to where the save stands: `BlockIsOurs` (the block allocated is no other chunk's)
and `FileCovers` (how far the file, which grows as it is written, reaches). `BlocksApart` needs
`AllocatorExact` (a first-fit gap is free of chunks because the allocator knows all theirs), which
needs `BlocksApart` (freeing a chunk's sectors frees nobody else's). `FileIsRegionStore` is the
refinement, step by step, and needs what is in the sectors (`ContentInv`): a block holds nothing of
another chunk's (`OwnBytes`), no length word points past the end of the file (`LengthsInFile`), the
data of a chunk whose last save ended fits in its block (`IntactFits`), and the parts written so far
are where they will be looked for (`Written`). The writes before the header change what no other
chunk loads as, except the padding over a neighbour's first sector that `RegionStore` names. All
three hold however often the file is made anew over what was there (`Create`): the header names no
chunk then, and whatever the old sectors still hold is never looked for; cut short (`CreateCut`),
those chunks that are left are as they were.

`ChunkWorldProofs`. `WorldInv` is the safety properties of `chunk_world` and three facts that make
them inductive: `HeldAtHome` (a handle that a queued save or a client holds is the one in the map or
the cache; `OneHandlePerChunk` follows), `JobsTrue` (an answer under way is what the disk says) and
`CachedIsSaved` (a cached chunk is as saved, or its save is queued with this very handle).
`NoLostBlock` is the deepest of them: it holds because the save that is queued holds the handle,
hence the cache does not drop the chunk before the worker has written it.

`PlayersProofs`. `ClientInv` adds to `OwnClient` that the vacant keys are free and each vacant once
(`VacantIsFree`), and that there are enough of them for those who wait (`EnoughKeys`: the bound on
`Connect`, where the code's slab grows). `UnwrapFindsClient` is the panic of `player_leave.rs:64`
that cannot happen. `EventInv` follows the events through the phases of a tick: the tickets of a
player and the lists of its key are those of its view, or will be once the event it carries has been
applied (`Due`). It rests on which events can exist when (`EventsTracked`, `JoinEvents`) and on two
entities having one key only while one leaves and the other has not been heard of (`KeysApart`).
`TickNeverPanics`, `TicketsAreTheView`, `LeaksNeedLateEvents` and `SubscriptionsAreTheView` follow.
Of the constants it assumes that a view is empty everywhere or nowhere, since all views have one
distance (`View::is_empty`), and that entities and keys are told apart.

The proofs read a definition that TLC evaluates in order, and so the conditions of the models that
came after others in the source (`Doing`, `TallyAfter`, `NextAxis`) are IF chains, as there: in a
CASE whose conditions overlap any may be chosen.

Only model-checked are the liveness properties (`PreferredPortServed`, `EveryRayAnswered`,
`FrameFinishes`, `FramesFollow`, `EveryByteArrives`, `LoadsFinish`, `UnusedChunksGo`), since
fairness and ENABLED are beyond the prover. The two violated runs are TLC's by nature.

## 5. Where code and documents disagree

Two disagreements are runs that TLC refutes:

1. **Padding** (`region_padding`; `region.rs:303`). Data that ends at the end of a sector is
   followed by a whole sector of zeros, over the first sector of whichever chunk lies there. The
   comment above says "Write padding to align to sector count".
2. **A lost event** (`players_events`; `ecs/src/event.rs:66`). Events are removed from an entity by
   type. The system that announced a player's join removes the event another system has just
   inserted for the player's first move, so no system sees that move; `ecs/src/lib.rs:119` says "all
   systems have exactly one chance to observe the event before it is dropped". Its chunks get no
   tickets and no subscriptions until the next move.

Others are stated by the models and checked only as exceptions of properties that hold:

* `vtu.sv:117` subtracts `ori + pos` from one for a positive step, where `sw/src/vtu.rs:86` has `1 -
  ori + pos`: they agree in voxel 0 only (`SameStart` is a hypothesis of `CastIsTheReference`), and
  the camera of `top_level.sv` is at y = 3.0.
* `orchestrator.sv:224` raises `frame_done` before the last pixel is written (`DoneButLast`).
* `orchestrator.sv:36`: a unit restarted by `rst_in` casts the old frame's ray again; an answer
  within the 17 edges of preparation, possible when the ray starts in a solid voxel, is written into
  the new frame as a first pixel.
* `l2_cache.sv:85` tags an answer with the address requested now; an L3 that latches its address,
  like the bench's `mock_l3_cache`, then has an answer stored under another address when a second
  port misses. The chunk answers for the address it sees.
* `top_level.sv:56` counts frames "0 to 59 then rollover"; the counter of `vsg.sv:82` has six bits
  and rolls over at 63.
* `chunk.sv:20` tests bounds that six-bit coordinates cannot reach (proved: `NoPositionIsOutside`),
  so a ray that leaves the chunk re-enters on the other side where the reference meets air.
* `vtu.rs:219` does not reset `last_step`: a software ray that starts in a solid voxel reports the
  face of the ray before it; `AnswerMatchesMock` compares the normals of rays that took a step.
* `orchestrator.rs:15` says `frame_done_out` is "high for one cycle after a frame is done
  rendering"; `orchestrator.rs:141` sets it while the last pixel is being cast, for as long as that
  takes. The window loop of `main.rs` waits for both edges, which is enough (`FramesFollow`).
* `orchestrator.rs:90` shades a pixel of the reference before its ray is cast, by the normal of the
  ray before it; the clocked frame (`orchestrator.rs:198`) uses the ray's own, and other colours.
  `FrameComplete` therefore compares the blocks of the two frames and not their shading.
* `region_worker.rs:92`: when `load_region` fails for any reason (out of file handles, an error
  while reading the header), `save_chunk` calls `create_region` on the file that is there and
  empties its header: the chunks of the region are forgotten, and their sectors given away.
  `region.rs:684` warns that the file "will be __overwritten__. Care must be taken to ensure that
  this function is only called for nonexistent regions." `RegionStore` has the loss as its action
  `Anew`; that nothing else forgets a chunk is `IsRegionStore`. A load that finds no handle answers
  `Missing` (`region_worker.rs:116`), so that the chunk is generated anew.
* `world.rs:116` with `world.rs:88`: a cancelled load stays cancelled although its chunk has tickets
  again when it arrives; `loading.rs:109-112` says a ticket keeps its chunk loaded.
* `loading.rs:151`: a chunk queued to be unloaded, wanted again and given up again is unloaded by
  the older entry of the queue, early.
* `loading.rs:162`: a player that moves or joins in the tick in which it leaves gets tickets after
  its tickets were taken; they stay, and so do the chunks (`OnlyLateEventsLeak`).
* `world.rs:86`: a chunk whose file cannot be read stays in `loading_chunks`; nobody can ask for it
  again (`OneJobPerLoad`, `LoadsFinish` exempt it). `region_worker.rs:76`: an error while saving
  ends the worker's thread; saves are taken to succeed.

## 6. Not modelled, and why

* `l3_cache.sv`, `debouncer.sv`, `evt_counter.sv` and `pipeline` are instantiated nowhere, the first
  of them unfinished (its addresses are assigned on some paths only). The L2 cache and the VTU are
  not connected anywhere in the design, so they are not composed; `valid` of the L2 is registered,
  and a VTU, which looks at it with the address of the same edge, could not use it as it is.
* Vendor IP, the serializer's primitives, constraint files, the contents of `chunk.mem`, colours;
  the frame buffer is written and read on two clocks, and the picture is whatever was written by
  then.
* The plugin has no state but its port: one pass over the blocks of a chunk, three bytes each.
* The input handling and drawing of the window in `sw/src/main.rs`; several units, which neither top
  level has.
* Of the server: `purge_all` and `purge_old_unused` of the cache, which nobody calls; what happens
  at shutdown (chunks in the map are not saved, there is no code to model); player data; chat and
  the tab list; the sending of chunks to clients (`waiting_chunks`); two logins of one user within
  one poll of new players.
* The rest of `server/feather` is more than nine tenths of the lines of the repository: generated
  tables of blocks and items, packet definitions, the NBT and Anvil formats, world generation, the
  plugin host, inventories and commands, and an older server (`old/`) that is not built. They are
  data, or functions from data to data without a state of their own; a model of a table would be the
  table. This is why the share of the repository's lines that the modules stand for is small.
