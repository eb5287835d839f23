--------------------------- MODULE RayCasterProofs ---------------------------
(***************************************************************************)
(* Proofs about one voxel traversal unit and its memory, for any rays, any *)
(* world, any limit of steps and any width of a coordinate.                *)
(*                                                                         *)
(* The memory: an answer marked valid belongs to the address on the port   *)
(* now, whatever the port's driver does (Port), and so does every answer   *)
(* that the unit takes (Control).                                          *)
(*                                                                         *)
(* The unit: what the two arithmetic pipelines hold at each value of       *)
(* init_timer (Prepared), what the walk has passed after each number of    *)
(* steps (OnPath) and what is shown at the end (ShowsCast) make the unit   *)
(* an implementation of a cast that takes no time (PathCast).  For rays    *)
(* that are Comparable that cast is the one of the software model.         *)
(***************************************************************************)
EXTENDS RayCaster, WellFoundedInduction, TLAPS

(* A memory of the same kind with a driver of its own.                     *)
CONSTANTS Addr, ZeroPos, Oob(_)
VARIABLES addr, read_enable, out
Port == INSTANCE Chunk

-----------------------------------------------------------------------------
(* Addresses.                                                              *)

\* The widths of a coordinate.
LEMMA Widths ==
    /\ CoordBits \in 2 .. 12 /\ B - D = 12
    /\ \A w \in 2 .. 12 : 2 ^ (w - 1) \in Nat \ {0} /\ 2 ^ w = 2 * 2 ^ (w - 1)
<1>1. B - D = 12 BY DEF B, D
<1>2. \A w \in 2 .. 12 : 2 ^ (w - 1) \in Nat \ {0} /\ 2 ^ w = 2 * 2 ^ (w - 1)
  <2>1. /\ 2 ^ 1 = 2 /\ 2 ^ 2 = 4 /\ 2 ^ 3 = 8 /\ 2 ^ 4 = 16 /\ 2 ^ 5 = 32 /\ 2 ^ 6 = 64
        /\ 2 ^ 7 = 128 /\ 2 ^ 8 = 256 /\ 2 ^ 9 = 512 /\ 2 ^ 10 = 1024 /\ 2 ^ 11 = 2048
        /\ 2 ^ 12 = 4096
        OBVIOUS
  <2> SUFFICES ASSUME NEW w \in 2 .. 12
               PROVE  2 ^ (w - 1) \in Nat \ {0} /\ 2 ^ w = 2 * 2 ^ (w - 1)
      OBVIOUS
  <2>2. CASE w = 2 BY <2>1, <2>2
  <2>3. CASE w = 3 BY <2>1, <2>3
  <2>4. CASE w = 4 BY <2>1, <2>4
  <2>5. CASE w = 5 BY <2>1, <2>5
  <2>6. CASE w = 6 BY <2>1, <2>6
  <2>7. CASE w = 7 BY <2>1, <2>7
  <2>8. CASE w = 8 BY <2>1, <2>8
  <2>9. CASE w = 9 BY <2>1, <2>9
  <2>10. CASE w = 10 BY <2>1, <2>10
  <2>11. CASE w = 11 BY <2>1, <2>11
  <2>12. CASE w = 12 BY <2>1, <2>12
  <2> QED BY <2>2, <2>3, <2>4, <2>5, <2>6, <2>7, <2>8, <2>9, <2>10, <2>11, <2>12
<1> QED BY <1>1, <1>2, CoordBitsAssumption

\* What is cut to w bits fits in w bits.
LEMMA SignedInRange ==
    ASSUME NEW x \in Int, NEW w \in 2 .. 12
    PROVE  Signed(x, w) \in -(2 ^ (w - 1)) .. 2 ^ (w - 1) - 1 /\ Signed(x, w) \in Int
<1>1. PICK h \in Nat \ {0} : h = 2 ^ (w - 1) /\ 2 ^ w = 2 * h BY Widths
<1>2. Signed(x, w) = ((x + h) % (2 * h)) - h BY <1>1 DEF Signed
<1>3. \A l \in Int, m \in Nat \ {0} : l % m \in 0 .. m - 1 OBVIOUS
<1>4. 2 * h \in Nat \ {0} /\ x + h \in Int BY <1>1
<1>5. PICK k \in 0 .. 2 * h - 1 : k = (x + h) % (2 * h) BY <1>3, <1>4
<1> QED BY <1>1, <1>2, <1>5

\* The position a unit asks for is one of the chunk.
LEMMA PositionInChunk == \A p \in [Axes -> Int] : BlockPosOf(p) \in BlockPositions
<1> SUFFICES ASSUME NEW p \in [Axes -> Int] PROVE BlockPosOf(p) \in BlockPositions OBVIOUS
<1>1. \A i \in Axes : Signed(p[i], CoordBits) \in Coord BY SignedInRange, Widths DEF Coord
<1> QED BY <1>1 DEF BlockPosOf, BlockPositions

\* types.sv and chunk.sv: the bits of a coordinate are too few to leave the
\* bounds chunk.sv tests.
THEOREM NoPositionIsOutside == \A a \in BlockPositions : ~oob(a)
<1>1. PICK h \in Nat \ {0} : h = 2 ^ (CoordBits - 1) /\ 2 ^ CoordBits = 2 * h BY Widths
<1> SUFFICES ASSUME NEW a \in BlockPositions, NEW i \in Axes
             PROVE  ~(a[i] >= CHUNK_WIDTH) /\ ~(a[i] < -CHUNK_WIDTH)
    BY DEF oob
<1>2. a[i] \in -h .. h - 1 BY <1>1 DEF BlockPositions, Coord
<1> QED BY <1>1, <1>2 DEF CHUNK_WIDTH

\* Numbers with the same remainder differ by a multiple.
LEMMA FoldMod ==
    ASSUME NEW n \in Nat \ {0}, NEW p \in Int, NEW q \in Int, p % n = q % n
    PROVE  \E m \in Int : p - q = m * n
<1>1. p = n * (p \div n) + (p % n) /\ p \div n \in Int
    BY SMT
<1>2. q = n * (q \div n) + (q % n) /\ q \div n \in Int
    BY SMT
<1>3. p - q = (p \div n - q \div n) * n
    BY <1>1, <1>2, SMT
<1>4. p \div n - q \div n \in Int
    BY <1>1, <1>2
<1> QED BY <1>3, <1>4

\* The only multiple of n less than n away from zero is zero.
LEMMA SmallMultiple ==
    ASSUME NEW n \in Nat \ {0}, NEW k \in Int, NEW x \in Int, x = k * n, -n < x, x < n
    PROVE  k = 0 /\ x = 0
<1>1. CASE k >= 1
    <2>1. k * n >= n BY <1>1, SMT
    <2> QED BY <2>1
<1>2. CASE k <= -1
    <2>1. k * n <= -n BY <1>2, SMT
    <2> QED BY <2>1
<1> QED BY <1>1, <1>2, SMT

\* Three digits, each less than n away from zero, make a multiple of n cubed only
\* if all are zero.
LEMMA Digits ==
    ASSUME NEW n \in Nat \ {0}, NEW m \in Int, NEW x \in Int, NEW y \in Int, NEW z \in Int,
           -n < x, x < n, -n < y, y < n, -n < z, z < n,
           z * (n * n) + y * n + x = m * (n * n * n)
    PROVE  x = 0 /\ y = 0 /\ z = 0
<1>1. x = (m * (n * n) - z * n - y) * n /\ m * (n * n) - z * n - y \in Int
    BY SMT
<1>2. x = 0 /\ m * (n * n) - z * n - y = 0
    <2> DEFINE k == m * (n * n) - z * n - y
    <2>1. k \in Int /\ x = k * n BY <1>1
    <2> HIDE DEF k
    <2>2. k = 0 /\ x = 0 BY <2>1, SmallMultiple
    <2> QED BY <2>2 DEF k
<1>3. y = (m * n - z) * n /\ m * n - z \in Int
    BY <1>2, SMT
<1>4. y = 0 /\ m * n - z = 0
    <2> DEFINE k == m * n - z
    <2>1. k \in Int /\ y = k * n BY <1>3
    <2> HIDE DEF k
    <2>2. k = 0 /\ y = 0 BY <2>1, SmallMultiple
    <2> QED BY <2>2 DEF k
<1>5. z = m * n BY <1>4
<1>6. z = 0 BY <1>5, SmallMultiple
<1> QED BY <1>2, <1>4, <1>6

\* chunk.sv:25-27: shifted and cut to the width of the RAM's address, the word of
\* a position is its own, so that what the RAM holds is a function of positions.
THEOREM AddressesDistinct ==
    \A a, b \in BlockPositions : flat_addr(a) = flat_addr(b) => a = b
<1>1. PICK h \in Nat \ {0} : h = 2 ^ (CoordBits - 1) /\ 2 ^ CoordBits = 2 * h
    BY Widths
<1> SUFFICES ASSUME NEW a \in BlockPositions, NEW b \in BlockPositions,
                    flat_addr(a) = flat_addr(b)
             PROVE  a = b
    OBVIOUS
<1> DEFINE n == 2 * h
<1>2. n \in Nat \ {0} /\ CHUNK_WIDTH = n
    BY <1>1 DEF CHUNK_WIDTH
<1>3. \A i \in Axes : /\ a[i] \in Int /\ b[i] \in Int
                      /\ -n < a[i] - b[i] /\ a[i] - b[i] < n
    BY <1>1 DEF BlockPositions, Coord
<1> HIDE DEF n
<1> DEFINE place(c) == (c["z"] + 40) * (n * n) + (c["y"] + 40) * n + (c["x"] + 40)
<1>4. "x" \in Axes /\ "y" \in Axes /\ "z" \in Axes
    BY DEF Axes
<1>5. /\ n * n * n \in Nat \ {0} /\ place(a) \in Int /\ place(b) \in Int
      /\ place(a) % (n * n * n) = place(b) % (n * n * n)
    <2>1. n * n \in Nat \ {0}
        BY <1>2, SMT
    <2>2. n * n * n \in Nat \ {0}
        BY <1>2, <2>1, SMT
    <2>3. place(a) \in Int /\ place(b) \in Int
        BY <1>2, <1>3, <1>4, <2>1
    <2>4. flat_addr(a) = place(a) % (n * n * n) /\ flat_addr(b) = place(b) % (n * n * n)
        BY <1>2 DEF flat_addr
    <2> QED BY <2>2, <2>3, <2>4
<1>6. PICK m \in Int : place(a) - place(b) = m * (n * n * n)
    <2> HIDE DEF place
    <2> QED BY <1>5, FoldMod
<1>7. (a["z"] - b["z"]) * (n * n) + (a["y"] - b["y"]) * n + (a["x"] - b["x"]) = m * (n * n * n)
    BY <1>2, <1>3, <1>4, <1>6, SMT
<1>8. a["x"] = b["x"] /\ a["y"] = b["y"] /\ a["z"] = b["z"]
    <2>1. PICK x \in Int, y \in Int, z \in Int :
              x = a["x"] - b["x"] /\ y = a["y"] - b["y"] /\ z = a["z"] - b["z"]
        BY <1>3, <1>4
    <2>2. z * (n * n) + y * n + x = m * (n * n * n)
        BY <1>7, <2>1
    <2>3. -n < x /\ x < n /\ -n < y /\ y < n /\ -n < z /\ z < n
        BY <1>3, <1>4, <2>1
    <2>4. x = 0 /\ y = 0 /\ z = 0
        BY <1>2, <2>2, <2>3, Digits
    <2> QED BY <1>3, <1>4, <2>1, <2>4
<1>9. \A i \in Axes : a[i] = b[i]
    <2> HIDE DEF place
    <2> QED BY <1>8 DEF Axes
<1> QED BY <1>9 DEF BlockPositions

\* A step of the ray changes the address, however few bits of the position it keeps.
LEMMA StepChangesAddress ==
    ASSUME NEW p \in [Axes -> Int], NEW i \in Axes, NEW s \in {-1, 1}
    PROVE  BlockPosOf([p EXCEPT ![i] = Signed(@ + s, B - D)]) # BlockPosOf(p)
<1>1. PICK x \in Int : x = p[i] OBVIOUS
<1>2. PICK y \in Int : y = Signed(x + s, 12) BY SignedInRange
<1>3. y = ((x + s + 2048) % 4096) - 2048
  <2>1. 2 ^ (12 - 1) = 2048 /\ 2 ^ 12 = 4096 OBVIOUS
  <2> QED BY <1>2, <2>1 DEF Signed
<1>4. Signed(y, CoordBits) # Signed(x, CoordBits)
  <2>1. /\ 2 ^ 1 = 2 /\ 2 ^ 2 = 4 /\ 2 ^ 3 = 8 /\ 2 ^ 4 = 16 /\ 2 ^ 5 = 32 /\ 2 ^ 6 = 64
        /\ 2 ^ 7 = 128 /\ 2 ^ 8 = 256 /\ 2 ^ 9 = 512 /\ 2 ^ 10 = 1024 /\ 2 ^ 11 = 2048
        /\ 2 ^ 12 = 4096
        OBVIOUS
  <2>2. CASE CoordBits = 2 BY <1>3, <2>1, <2>2 DEF Signed
  <2>3. CASE CoordBits = 3 BY <1>3, <2>1, <2>3 DEF Signed
  <2>4. CASE CoordBits = 4 BY <1>3, <2>1, <2>4 DEF Signed
  <2>5. CASE CoordBits = 5 BY <1>3, <2>1, <2>5 DEF Signed
  <2>6. CASE CoordBits = 6 BY <1>3, <2>1, <2>6 DEF Signed
  <2>7. CASE CoordBits = 7 BY <1>3, <2>1, <2>7 DEF Signed
  <2>8. CASE CoordBits = 8 BY <1>3, <2>1, <2>8 DEF Signed
  <2>9. CASE CoordBits = 9 BY <1>3, <2>1, <2>9 DEF Signed
  <2>10. CASE CoordBits = 10 BY <1>3, <2>1, <2>10 DEF Signed
  <2>11. CASE CoordBits = 11 BY <1>3, <2>1, <2>11 DEF Signed
  <2>12. CASE CoordBits = 12 BY <1>3, <2>1, <2>12 DEF Signed
  <2> QED BY <2>2, <2>3, <2>4, <2>5, <2>6, <2>7, <2>8, <2>9, <2>10, <2>11, <2>12, Widths
<1>5. BlockPosOf([p EXCEPT ![i] = Signed(@ + s, B - D)])[i] = Signed(y, CoordBits)
      BY <1>1, <1>2, Widths DEF BlockPosOf
<1>6. BlockPosOf(p)[i] = Signed(x, CoordBits) BY <1>1 DEF BlockPosOf
<1> QED BY <1>4, <1>5, <1>6

-----------------------------------------------------------------------------
(* The memory, with any driver.                                            *)

\* What chunk.sv's bounds come to for every position the program has.
NothingOutside == \A a \in Addr : ~Oob(a)

\* Each register of data holds the word of the address beside it.
InStep ==
    /\ edges_since_reset >= 1 => ram_data = Port!RomWord(addr_pipe[1])
    /\ edges_since_reset >= 2 => rom_out = Port!RomWord(addr_pipe[2])
    /\ edges_since_reset >= 3 => out = Port!RomWord(addr_pipe[3])

ChunkInv == Port!TypeOK /\ InStep

(* The RAM stores a block at every address.                                *)
LEMMA RomWordType == ASSUME Port!ChunkAssumption PROVE \A a \in Addr : Port!RomWord(a) \in Block
  BY DEF Port!RomWord, Port!ChunkAssumption

(* The registers keep their types over every edge.                         *)
LEMMA TypeStep ==
    ASSUME Port!ChunkAssumption PROVE Port!TypeOK /\ [Port!Next]_(Port!vars) => Port!TypeOK'
<1> SUFFICES ASSUME Port!TypeOK, [Port!Next]_(Port!vars) PROVE Port!TypeOK'
  OBVIOUS
<1>1. CASE Port!ChunkReset /\ addr' \in Addr /\ read_enable' \in BOOLEAN
  BY <1>1, RomWordType DEF Port!TypeOK, Port!ChunkReset, Port!Depth, Port!ChunkAssumption
<1>2. CASE Port!ChunkEdge /\ addr' \in Addr /\ read_enable' \in BOOLEAN
  <2>1. addr_pipe' \in [Port!Depth -> Addr]
    BY <1>2 DEF Port!ChunkEdge, Port!TypeOK, Port!Depth
  <2>2. /\ ram_data' \in Block /\ rom_out' \in Block /\ out' \in Block
        /\ edges_since_reset' \in 0 .. 3
    BY <1>2, RomWordType DEF Port!ChunkEdge, Port!TypeOK, Port!ChunkAssumption
  <2> QED BY <1>2, <2>1, <2>2 DEF Port!TypeOK
<1>3. CASE UNCHANGED Port!vars
  BY <1>3 DEF Port!TypeOK, Port!vars, Port!chunkvars
<1> QED BY <1>1, <1>2, <1>3 DEF Port!Next

(* The registers of data follow the addresses over every edge.             *)
LEMMA InStepStep ==
    NothingOutside /\ ChunkInv /\ [Port!Next]_(Port!vars) => InStep'
<1> SUFFICES ASSUME NothingOutside, ChunkInv, [Port!Next]_(Port!vars) PROVE InStep'
  OBVIOUS
<1>1. CASE Port!ChunkReset
  BY <1>1 DEF Port!ChunkReset, InStep
<1>2. CASE Port!ChunkEdge
  <2>1. /\ addr_pipe'[1] = addr
        /\ addr_pipe'[2] = addr_pipe[1]
        /\ addr_pipe'[3] = addr_pipe[2]
    BY <1>2 DEF Port!ChunkEdge, Port!Depth
  <2>2. /\ edges_since_reset \in 0 .. 3
        /\ edges_since_reset' >= 2 => edges_since_reset >= 1
        /\ edges_since_reset' >= 3 => edges_since_reset >= 2
    BY <1>2 DEF Port!ChunkEdge, ChunkInv, Port!TypeOK
  <2>3. /\ ram_data' = Port!RomWord(addr)
        /\ rom_out' = ram_data
        /\ out' = rom_out
    BY <1>2 DEF Port!ChunkEdge, ChunkInv, Port!TypeOK, NothingOutside
  <2> QED BY <2>1, <2>2, <2>3 DEF ChunkInv, InStep, Port!RomWord
<1>3. CASE UNCHANGED Port!vars
  BY <1>3 DEF ChunkInv, InStep, Port!vars, Port!chunkvars, Port!RomWord
<1> QED BY <1>1, <1>2, <1>3 DEF Port!Next

(* chunk.sv: an answer marked valid is the block at the address on the     *)
(* port now, however the port was moved before.                            *)
THEOREM AnswersTheAddressAsked ==
    ASSUME Port!ChunkAssumption, NothingOutside PROVE Port!Spec => []Port!ValidMeansCurrent
<1>1. Port!Init => ChunkInv
  BY DEF Port!Init, Port!ChunkInit, ChunkInv, Port!ChunkAssumption, Port!TypeOK, InStep, Port!Depth
<1>2. ChunkInv /\ [Port!Next]_(Port!vars) => ChunkInv'
  BY TypeStep, InStepStep DEF ChunkInv
<1>3. ChunkInv => Port!ValidMeansCurrent
  BY DEF ChunkInv, InStep, Port!TypeOK, NothingOutside, Port!ValidMeansCurrent, Port!Valid, Port!RomWord
<1> QED BY <1>1, <1>2, <1>3, PTL DEF Port!Spec

(* chunk.sv as it is built: every answer marked valid is the block at the  *)
(* address on the port.                                                    *)
COROLLARY ChunkOfTheProgram ==
    ASSUME Port!ChunkAssumption,
           Addr = BlockPositions,
           \A a \in Addr : Oob(a) = oob(a)
    PROVE  Port!Spec => []Port!ValidMeansCurrent
<1>1. NothingOutside
  BY NoPositionIsOutside DEF NothingOutside
<1> QED BY <1>1, AnswersTheAddressAsked

-----------------------------------------------------------------------------
(* The control of the unit and its memory, which needs no arithmetic.      *)

\* The stages of the pipeline of addresses.
Depth == 1 .. 3

\* Types of the registers the control depends on.
Shapes ==
    /\ ray_origin \in vec3 /\ ray_direction \in vec3
    /\ ray_pos \in [Axes -> Int]
    /\ ray_step \in [Axes -> {-1, 1}]
    /\ addr_pipe \in [Depth -> BlockPositions]
    /\ edges_since_reset \in 0 .. 3
    /\ num_steps \in 0 .. MaxSteps + 1
    /\ age \in Nat

\* Each register of data holds the block of the address beside it.
DataBesideAddress ==
    /\ edges_since_reset >= 1 => ram_data = Rom(addr_pipe[1])
    /\ edges_since_reset >= 2 => rom_out = Rom(addr_pipe[2])
    /\ edges_since_reset >= 3 => ram_out = Rom(addr_pipe[3])

\* There is no answer yet.
Nothing == hit = Air /\ hit_norm = vzero /\ ~hit_valid

\* INIT: the timer is the age, and the address has stood since the reset.
Preparing ==
    /\ init_timer \in 0 .. 12
    /\ age = init_timer
    /\ edges_since_reset = 3 \/ edges_since_reset >= init_timer
    /\ num_steps = 0 /\ last_step = "none"
    /\ Nothing /\ ~ram_read_enable
    /\ \A i \in Depth : i <= init_timer => addr_pipe[i] = ram_addr

\* phase: the edges since the step into the voxel.
Walking ==
    /\ edges_since_reset = 3
    /\ Nothing /\ ram_read_enable
    /\ \E phase \in 0 .. 3 :
        /\ age = 10 + 4 * num_steps + phase
        /\ num_steps = 0 => phase = 3
        /\ num_steps = MaxSteps + 1 => phase = 0
        /\ \A i \in Depth : addr_pipe[i] = ram_addr <=> i <= phase

\* IDLE.
Answered == hit_valid /\ ~ram_read_enable

\* The control of the unit and its memory.
Control ==
    /\ Shapes
    /\ DataBesideAddress
    /\ \/ state = "INIT" /\ Preparing
       \/ state = "TRAVERSING" /\ Walking
       \/ state = "IDLE" /\ Answered

\* The floor of a vector is a vector of integers.
LEMMA FloorIsInt == \A v \in vec3 : vfloor(v) \in [Axes -> Int]
<1> SUFFICES ASSUME NEW v \in vec3, NEW i \in Axes PROVE v[i] \div 2 ^ D \in Int
    BY DEF vfloor
<1>1. 2 ^ D = 256 BY DEF D
<1>2. v[i] \in Int
  <2>1. 2 ^ (B - 1) = 524288 BY DEF B
  <2> QED BY <2>1 DEF vec3, fixed, FIXED_MAX
<1> QED BY <1>1, <1>2

\* The reset value of the pipeline of addresses is a position.
LEMMA ZeroInChunk == vzero \in BlockPositions
<1>1. PICK h \in Nat \ {0} : h = 2 ^ (CoordBits - 1) /\ 2 ^ CoordBits = 2 * h BY Widths
<1> QED BY <1>1 DEF vzero, BlockPositions, Coord

\* The memory is never asked for a position outside.
LEMMA RomWordIsRom == \A a \in BlockPositions : Memory!RomWord(a) = Rom(a)
BY NoPositionIsOutside DEF Memory!RomWord

\* The rays of the driver are pairs of vectors.
LEMMA RayOnPins == \A r \in Rays : r.origin \in vec3 /\ r.direction \in vec3
BY RaysAssumption

\* The address on the port is one of the chunk.
LEMMA AddressInChunk == Shapes => ram_addr \in BlockPositions
BY PositionInChunk DEF Shapes, ram_addr

\* The memory answers the unit when the address has stood for three edges.
LEMMA ValidMeansSettled ==
    Shapes => (ram_valid <=> ram_read_enable /\ ram_addr = addr_pipe[3])
BY AddressInChunk, NoPositionIsOutside DEF ram_valid, Memory!Valid

\* The driver's part of a step.
LEMMA PinsStep == Shapes /\ Next => ray_origin' \in vec3 /\ ray_direction' \in vec3
BY RayOnPins DEF Shapes, Next, Assign, Wait, Put, pins

\* What an edge does to the memory.
LEMMA MemoryStep ==
    ASSUME Shapes, DataBesideAddress, UnitAndMemory
    PROVE  /\ addr_pipe' \in [Depth -> BlockPositions]
           /\ edges_since_reset' \in 0 .. 3
           /\ DataBesideAddress'
           /\ ~rst_in => /\ addr_pipe'[1] = ram_addr
                         /\ addr_pipe'[2] = addr_pipe[1]
                         /\ addr_pipe'[3] = addr_pipe[2]
                         /\ edges_since_reset' = IF edges_since_reset < 3
                                                 THEN edges_since_reset + 1 ELSE 3
<1>1. ram_addr \in BlockPositions /\ Memory!RomWord(ram_addr) = Rom(ram_addr) /\ ~oob(ram_addr)
      BY AddressInChunk, RomWordIsRom, NoPositionIsOutside
<1>2. CASE rst_in
  <2>1. Memory!ChunkReset BY <1>2 DEF UnitAndMemory
  <2>2. addr_pipe' = [i \in Depth |-> vzero] /\ edges_since_reset' = 0
        BY <2>1 DEF Memory!ChunkReset, Memory!Depth, Depth
  <2> QED BY <1>2, <2>2, ZeroInChunk DEF DataBesideAddress
<1>3. CASE ~rst_in
  <2>1. Memory!ChunkEdge BY <1>3 DEF UnitAndMemory
  <2>2. /\ addr_pipe' = [i \in Depth |-> IF i = 1 THEN ram_addr ELSE addr_pipe[i - 1]]
        /\ ram_data' = Rom(ram_addr) /\ rom_out' = ram_data /\ ram_out' = rom_out
        /\ edges_since_reset' = IF edges_since_reset < 3 THEN edges_since_reset + 1 ELSE 3
        BY <1>1, <2>1 DEF Memory!ChunkEdge, Memory!Depth, Depth
  <2>3. addr_pipe' \in [Depth -> BlockPositions]
        BY <1>1, <2>2 DEF Shapes, Depth
  <2>4. addr_pipe'[1] = ram_addr /\ addr_pipe'[2] = addr_pipe[1] /\ addr_pipe'[3] = addr_pipe[2]
        BY <2>2 DEF Depth
  <2>5. edges_since_reset \in 0 .. 3 BY DEF Shapes
  <2>6. DataBesideAddress'
        BY <2>2, <2>4, <2>5 DEF DataBesideAddress
  <2> QED BY <2>2, <2>3, <2>4, <2>5, <2>6
<1> QED BY <1>2, <1>3

\* The control at power-up.
LEMMA ControlInit == Init => Control
<1> SUFFICES ASSUME Init PROVE Control OBVIOUS
<1>1. ray_origin \in vec3 /\ ray_direction \in vec3 BY RayOnPins DEF Init
<1>2. ray_pos = vzero /\ ray_step = [i \in Axes |-> -1] /\ num_steps = 0 /\ state = "INIT"
      /\ init_timer = 0 /\ last_step = "none" /\ Nothing /\ ~ram_read_enable /\ age = 0
      BY DEF Init, VTUInit, Nothing
<1>3. addr_pipe = [i \in Depth |-> vzero] /\ edges_since_reset = 0
      BY DEF Init, Memory!ChunkInit, Memory!Depth, Depth
<1>4. Shapes
      BY <1>1, <1>2, <1>3, ZeroInChunk, VTUAssumption DEF Shapes, vzero
<1>5. Preparing BY <1>2, <1>3 DEF Preparing, Depth
<1> QED BY <1>2, <1>3, <1>4, <1>5 DEF Control, DataBesideAddress

\* The control over an edge of reset.
LEMMA ControlReset ==
    ASSUME Control, Next, rst_in \/ rst PROVE Control'
<1>1. Shapes /\ DataBesideAddress BY DEF Control
<1>2. UnitAndMemory BY DEF Next, Assign, Wait
<1>3. /\ addr_pipe' \in [Depth -> BlockPositions] /\ edges_since_reset' \in 0 .. 3
      /\ DataBesideAddress'
      BY <1>1, <1>2, MemoryStep
<1>4. ray_origin' \in vec3 /\ ray_direction' \in vec3 BY <1>1, PinsStep
<1>5. VTUReset /\ age' = 0 BY <1>2 DEF UnitAndMemory
<1>6. ray_pos' = vfloor(ray_origin) /\ num_steps' = 0 /\ state' = "INIT" /\ init_timer' = 0
      /\ last_step' = "none" /\ Nothing' /\ ~ram_read_enable'
      /\ ray_step' = [i \in Axes |-> IF ray_direction[i] > 0 THEN 1 ELSE -1]
      BY <1>5 DEF VTUReset, Nothing
<1>7. Shapes' BY <1>1, <1>3, <1>4, <1>5, <1>6, FloorIsInt, VTUAssumption DEF Shapes
<1>8. Preparing' BY <1>3, <1>5, <1>6 DEF Preparing, Depth
<1> QED BY <1>3, <1>6, <1>7, <1>8 DEF Control

\* The control over an edge of the preparation.
LEMMA ControlPrepare ==
    ASSUME Control, Next, ~rst_in, ~rst, InitEdge PROVE Control'
<1>1. Shapes /\ DataBesideAddress /\ Preparing BY DEF Control, InitEdge
<1>2. UnitAndMemory BY DEF Next, Assign, Wait
<1>3. /\ addr_pipe' \in [Depth -> BlockPositions] /\ edges_since_reset' \in 0 .. 3
      /\ DataBesideAddress'
      /\ addr_pipe'[1] = ram_addr /\ addr_pipe'[2] = addr_pipe[1] /\ addr_pipe'[3] = addr_pipe[2]
      /\ edges_since_reset' = IF edges_since_reset < 3 THEN edges_since_reset + 1 ELSE 3
      BY <1>1, <1>2, MemoryStep
<1>4. ray_origin' \in vec3 /\ ray_direction' \in vec3 BY <1>1, PinsStep
<1>5. age' = age + 1
  <2>1. Older BY <1>2 DEF UnitAndMemory, InitEdge
  <2>2. age <= 12 /\ age \in Nat BY <1>1 DEF Preparing, Shapes
  <2> QED BY <2>1, <2>2, VTUAssumption DEF Older, LatestAnswer
<1>6. /\ ray_pos' = ray_pos /\ ray_step' = ray_step /\ num_steps' = num_steps
      /\ last_step' = last_step /\ hit' = hit /\ hit_norm' = hit_norm /\ hit_valid' = hit_valid
      /\ init_timer' = init_timer + 1
      /\ state' = IF init_timer = 12 THEN "TRAVERSING" ELSE "INIT"
      /\ ram_read_enable' = (init_timer = 12)
      BY DEF InitEdge, walkvars
<1>7. ram_addr' = ram_addr BY <1>6 DEF ram_addr
<1>8. Shapes' BY <1>1, <1>3, <1>4, <1>5, <1>6 DEF Shapes
<1>9. Nothing' BY <1>1, <1>6 DEF Preparing, Nothing
<1>10. edges_since_reset \in 0 .. 3 /\ init_timer \in 0 .. 12
       BY <1>1 DEF Shapes, Preparing
<1>11. \A i \in Depth : i <= init_timer + 1 => addr_pipe'[i] = ram_addr
  <2>1. 1 <= init_timer => addr_pipe[1] = ram_addr
        BY <1>1 DEF Preparing, Depth
  <2>2. 2 <= init_timer => addr_pipe[2] = ram_addr
        BY <1>1 DEF Preparing, Depth
  <2> QED BY <1>3, <1>10, <2>1, <2>2 DEF Depth
<1>12. CASE init_timer = 12
  <2>1. edges_since_reset' = 3 BY <1>1, <1>3, <1>10, <1>12 DEF Preparing
  <2>2. age' = 10 + 4 * num_steps' + 3 /\ num_steps' = 0
        BY <1>1, <1>5, <1>6, <1>12 DEF Preparing
  <2>3. \A i \in Depth : addr_pipe'[i] = ram_addr' <=> i <= 3
        BY <1>7, <1>11, <1>12 DEF Depth
  <2>4. Walking'
    <3>1. ram_read_enable' BY <1>6, <1>12
    <3>2. num_steps' # MaxSteps + 1 BY <2>2, VTUAssumption
    <3>3. \E phase \in 0 .. 3 :
            /\ age' = 10 + 4 * num_steps' + phase
            /\ num_steps' = 0 => phase = 3
            /\ num_steps' = MaxSteps + 1 => phase = 0
            /\ \A i \in Depth : addr_pipe'[i] = ram_addr' <=> i <= phase
          <4> WITNESS 3 \in 0 .. 3
          <4> QED BY <2>2, <2>3, <3>2
    <3> QED BY <1>9, <2>1, <3>1, <3>3 DEF Walking
  <2> QED BY <1>3, <1>6, <1>8, <1>12, <2>4 DEF Control
<1>13. CASE init_timer # 12
  <2>1. Preparing'
    <3>1. init_timer' \in 0 .. 12 /\ age' = init_timer'
          BY <1>1, <1>5, <1>6, <1>10, <1>13 DEF Preparing
    <3>2. edges_since_reset' = 3 \/ edges_since_reset' >= init_timer'
          BY <1>1, <1>3, <1>6, <1>10 DEF Preparing
    <3>3. num_steps' = 0 /\ last_step' = "none" /\ ~ram_read_enable'
          BY <1>1, <1>6, <1>13 DEF Preparing
    <3>4. \A i \in Depth : i <= init_timer' => addr_pipe'[i] = ram_addr'
          BY <1>6, <1>7, <1>11
    <3> QED BY <1>9, <3>1, <3>2, <3>3, <3>4 DEF Preparing
  <2> QED BY <1>3, <1>6, <1>8, <1>13, <2>1 DEF Control
<1> QED BY <1>12, <1>13

\* The control over an edge of the traversal: the block is found, the unit
\* gives up, it waits for the memory, or it steps into the next voxel.
LEMMA ControlTraverse ==
    ASSUME Control, Next, ~rst_in, ~rst, TraverseEdge(ram_out, ram_valid) PROVE Control'
<1>1. Shapes /\ DataBesideAddress /\ Walking BY DEF Control, TraverseEdge
<1>2. UnitAndMemory BY DEF Next, Assign, Wait
<1>3. /\ addr_pipe' \in [Depth -> BlockPositions] /\ edges_since_reset' \in 0 .. 3
      /\ DataBesideAddress'
      /\ addr_pipe'[1] = ram_addr /\ addr_pipe'[2] = addr_pipe[1] /\ addr_pipe'[3] = addr_pipe[2]
      /\ edges_since_reset' = 3
      BY <1>1, <1>2, MemoryStep DEF Walking
<1>4. ray_origin' \in vec3 /\ ray_direction' \in vec3 BY <1>1, PinsStep
<1>5. PICK phase \in 0 .. 3 :
        /\ age = 10 + 4 * num_steps + phase
        /\ num_steps = 0 => phase = 3
        /\ num_steps = MaxSteps + 1 => phase = 0
        /\ \A i \in Depth : addr_pipe[i] = ram_addr <=> i <= phase
      BY <1>1 DEF Walking
<1>6. num_steps \in 0 .. MaxSteps + 1 /\ MaxSteps \in Nat BY <1>1, VTUAssumption DEF Shapes
<1>7. age' = age + 1
  <2>1. Older BY <1>2 DEF UnitAndMemory, TraverseEdge
  <2>2. age < LatestAnswer BY <1>5, <1>6 DEF LatestAnswer
  <2> QED BY <2>1, <2>2 DEF Older
<1>8. ram_valid <=> phase = 3
  <2>1. ram_valid <=> ram_addr = addr_pipe[3] BY <1>1, ValidMeansSettled DEF Walking
  <2> QED BY <1>5, <2>1 DEF Depth
<1>9. age' \in Nat BY <1>1, <1>7 DEF Shapes
<1>10. CASE ram_valid /\ ram_out # Air
  <2>1. Finish(ram_out, FacingNormal) /\ UNCHANGED <<rayvars, last_step, num_steps>>
        BY <1>10 DEF TraverseEdge
  <2> QED BY <1>1, <1>3, <1>4, <1>9, <2>1 DEF Finish, rayvars, Control, Answered, Shapes
<1>11. CASE ~(ram_valid /\ ram_out # Air) /\ TooFar
  <2>1. num_steps = MaxSteps + 1 BY <1>6, <1>11 DEF TooFar
  <2>2. ~ram_valid BY <1>5, <1>8, <2>1
  <2>3. Finish(Air, vzero) /\ UNCHANGED <<rayvars, last_step, num_steps>>
        BY <1>11, <2>2 DEF TraverseEdge
  <2> QED BY <1>1, <1>3, <1>4, <1>9, <2>3 DEF Finish, rayvars, Control, Answered, Shapes
<1>12. CASE ~ram_valid /\ ~TooFar
  <2>1. UNCHANGED <<hit, hit_norm, hit_valid, ram_read_enable, state>>
        /\ UNCHANGED <<rayvars, last_step, num_steps>>
        BY <1>12 DEF TraverseEdge
  <2>2. Shapes' BY <1>1, <1>3, <1>4, <1>9, <2>1 DEF Shapes, rayvars
  <2>3. ram_addr' = ram_addr BY <2>1 DEF ram_addr, rayvars
  <2>4. num_steps # MaxSteps + 1 BY <1>6, <1>12 DEF TooFar
  <2>5. phase + 1 \in 0 .. 3 /\ num_steps # 0
    <3>1. phase # 3 BY <1>8, <1>12
    <3> QED BY <1>5, <3>1
  <2>6. \A i \in Depth : addr_pipe'[i] = ram_addr' <=> i <= phase + 1
        BY <1>3, <1>5, <2>3 DEF Depth
  <2>7. \E p \in 0 .. 3 :
            /\ age' = 10 + 4 * num_steps' + p
            /\ num_steps' = 0 => p = 3
            /\ num_steps' = MaxSteps + 1 => p = 0
            /\ \A i \in Depth : addr_pipe'[i] = ram_addr' <=> i <= p
    <3>1. /\ age' = 10 + 4 * num_steps' + (phase + 1)
          /\ num_steps' = 0 => phase + 1 = 3
          /\ num_steps' = MaxSteps + 1 => phase + 1 = 0
          BY <1>5, <1>6, <1>7, <2>1, <2>4, <2>5
    <3> QED BY <2>5, <2>6, <3>1
  <2>8. Walking' BY <1>1, <1>3, <2>1, <2>7 DEF Walking, Nothing
  <2> QED BY <1>3, <2>1, <2>2, <2>8 DEF Control, TraverseEdge
<1>13. CASE ram_valid /\ ram_out = Air
  <2>1. phase = 3 /\ num_steps \in 0 .. MaxSteps BY <1>5, <1>6, <1>8, <1>13
  <2>2. ~TooFar BY <1>6, <2>1 DEF TooFar
  <2>3. UNCHANGED <<hit, hit_norm, hit_valid, ram_read_enable, state>> /\ Advance
        BY <1>13, <2>2 DEF TraverseEdge
  <2>4. PICK i \in Axes : i = NextAxis(ray_t_max) BY DEF NextAxis, Axes
  <2>5. /\ ray_pos' = [ray_pos EXCEPT ![i] = Signed(@ + ray_step[i], B - D)]
        /\ num_steps' = num_steps + 1 /\ ray_step' = ray_step
        BY <2>3, <2>4 DEF Advance
  <2>6. ray_pos \in [Axes -> Int] /\ ray_step \in [Axes -> {-1, 1}] BY <1>1 DEF Shapes
  <2>7. ray_pos' \in [Axes -> Int]
    <3>1. PICK x \in Int : x = ray_pos[i] + ray_step[i] BY <2>6
    <3>2. Signed(x, B - D) \in Int BY SignedInRange, Widths
    <3> QED BY <2>5, <2>6, <3>1, <3>2
  <2>8. num_steps' \in 0 .. MaxSteps + 1 BY <2>1, <2>5, <1>6
  <2>9. Shapes' BY <1>1, <1>3, <1>4, <1>9, <2>5, <2>7, <2>8 DEF Shapes
  <2>10. ram_addr' # ram_addr
    <3>1. PICK s \in {-1, 1} : s = ray_step[i] BY <2>6
    <3>2. BlockPosOf([ray_pos EXCEPT ![i] = Signed(@ + s, B - D)]) # BlockPosOf(ray_pos)
          BY <2>6, StepChangesAddress
    <3> QED BY <2>5, <3>1, <3>2 DEF ram_addr
  <2>11. \A j \in Depth : addr_pipe'[j] = ram_addr' <=> j <= 0
    <3>1. addr_pipe[1] = ram_addr /\ addr_pipe[2] = ram_addr BY <1>5, <2>1 DEF Depth
    <3> QED BY <1>3, <2>10, <3>1 DEF Depth
  <2>12. \E p \in 0 .. 3 :
            /\ age' = 10 + 4 * num_steps' + p
            /\ num_steps' = 0 => p = 3
            /\ num_steps' = MaxSteps + 1 => p = 0
            /\ \A j \in Depth : addr_pipe'[j] = ram_addr' <=> j <= p
    <3> WITNESS 0 \in 0 .. 3
    <3> QED BY <1>5, <1>7, <2>1, <2>5, <2>11
  <2>13. Walking' BY <1>1, <1>3, <2>3, <2>12 DEF Walking, Nothing
  <2> QED BY <1>3, <2>3, <2>9, <2>13 DEF Control, TraverseEdge
<1> QED BY <1>10, <1>11, <1>12, <1>13

\* The control over an edge with the answer out.
LEMMA ControlIdle ==
    ASSUME Control, Next, ~rst_in, ~rst, IdleEdge PROVE Control'
<1>1. Shapes /\ DataBesideAddress /\ Answered BY DEF Control, IdleEdge
<1>2. UnitAndMemory BY DEF Next, Assign, Wait
<1>3. /\ addr_pipe' \in [Depth -> BlockPositions] /\ edges_since_reset' \in 0 .. 3
      /\ DataBesideAddress'
      BY <1>1, <1>2, MemoryStep
<1>4. ray_origin' \in vec3 /\ ray_direction' \in vec3 BY <1>1, PinsStep
<1>5. age' \in Nat
  <2>1. Older BY <1>2 DEF UnitAndMemory, IdleEdge
  <2> QED BY <1>1, <2>1 DEF Older, Shapes
<1>6. UNCHANGED <<state, init_timer, rayvars, walkvars, ram_read_enable, recip_in>>
      BY DEF IdleEdge
<1>7. Shapes' BY <1>1, <1>3, <1>4, <1>5, <1>6 DEF Shapes, rayvars, walkvars
<1>8. state' = "IDLE" /\ Answered'
      BY <1>1, <1>6 DEF Answered, walkvars, IdleEdge
<1> QED BY <1>3, <1>7, <1>8 DEF Control

\* The control over any step.
LEMMA ControlStep == Control /\ [Next]_castervars => Control'
<1> SUFFICES ASSUME Control, [Next]_castervars PROVE Control' OBVIOUS
<1>1. CASE Next /\ (rst_in \/ rst) BY <1>1, ControlReset
<1>2. CASE Next /\ ~(rst_in \/ rst)
  <2>1. VTUEdge(ram_out, ram_valid)
        BY <1>2 DEF Next, Assign, Wait, UnitAndMemory
  <2> QED BY <1>2, <2>1, ControlPrepare, ControlTraverse, ControlIdle DEF VTUEdge
<1>3. CASE UNCHANGED castervars
  <2>1. ram_addr' = ram_addr BY <1>3 DEF castervars, vtuvars, rayvars, ram_addr
  <2> QED BY <1>3, <2>1 DEF castervars, pins, vtuvars, rayvars, walkvars, Control, Shapes,
        DataBesideAddress, Preparing, Walking, Answered, Nothing
<1> QED BY <1>1, <1>2, <1>3

\* vtu.sv and chunk.sv: the unit never takes the memory's word for a voxel it
\* has left, whatever ray it casts and whenever it is reset.
THEOREM ReadsTheVoxelItIsIn == Spec => []NoStaleVoxel
<1>1. Control => NoStaleVoxel
  <2> SUFFICES ASSUME Control, state = "TRAVERSING", ram_valid PROVE ram_out = Rom(ram_addr)
      BY DEF NoStaleVoxel
  <2>1. Shapes /\ DataBesideAddress /\ Walking BY DEF Control
  <2> QED BY <2>1, ValidMeansSettled DEF DataBesideAddress, Walking
<1> QED BY ControlInit, ControlStep, <1>1, PTL DEF Spec

-----------------------------------------------------------------------------
(* The cast that takes no time, in the arithmetic of the hardware.         *)

\* A set of numbers that is not empty has a least member.
LEMMA Least ==
    ASSUME NEW S \in SUBSET Nat, S # {} PROVE \E m \in S : \A k \in S : m <= k
<1> DEFINE less == {p \in Nat \X Nat : p[1] < p[2]}
<1>1. IsWellFoundedOn(less, Nat) BY NatLessThanWellFounded DEF OpToRel
<1>2. \A m, k \in Nat : k < m => <<k, m>> \in less OBVIOUS
<1>3. \A m, k \in Nat : m <= k \/ k < m OBVIOUS
<1> HIDE DEF less
<1>4. PICK m \in S : \A k \in S : <<k, m>> \notin less BY <1>1, WFMin
<1>5. m \in Nat /\ \A k \in S : k \in Nat OBVIOUS
<1>6. \A k \in S : m <= k BY <1>2, <1>3, <1>4, <1>5
<1> QED BY <1>6

\* The distances to the first boundaries, as vtu.sv computes ray_dist.
PathDistance(r) ==
    [i \in Axes |->
        LET corner == Signed(vfloor(r.origin)[i] * 2^D, B)
        IN  IF r.direction[i] > 0 THEN fsub(FIXED_1, fadd(r.origin[i], corner))
                                  ELSE fsub(r.origin[i], corner)]

\* The first voxel of the walk and what its preparation comes to.
PathRay(r) ==
    LET dir == vnormalize(r.direction)
        t_delta == [i \in Axes |-> fabs(recip(dir[i]))]
    IN  [pos |-> vfloor(r.origin),
         step |-> [i \in Axes |-> IF r.direction[i] > 0 THEN 1 ELSE -1],
         t_delta |-> t_delta, last |-> "none",
         t_max |-> [i \in Axes |-> IF dir[i] = 0 THEN FIXED_MAX
                                   ELSE fmul(t_delta[i], PathDistance(r)[i])]]

\* The next voxel; a position keeps twelve bits.
PathStep(m) ==
    LET i == NextAxis(m.t_max)
    IN  [pos |-> [m.pos EXCEPT ![i] = Signed(@ + m.step[i], B - D)],
         step |-> m.step, t_delta |-> m.t_delta, last |-> i,
         t_max |-> [m.t_max EXCEPT ![i] = fadd(@, m.t_delta[i])]]

\* The voxels of the walk, up to the one at which the unit gives up.
PathWalk(r) ==
    LET walk[n \in 0 .. MaxSteps + 1] ==
            IF n = 0 THEN PathRay(r) ELSE PathStep(walk[n - 1])
    IN  walk

\* The first block of the walk and the face it is entered by.
PathCast(r) ==
    LET walk == PathWalk(r)
        solid == {n \in 0 .. MaxSteps : Rom(BlockPosOf(walk[n].pos)) # Air}
        first == CHOOSE n \in solid : \A k \in solid : n <= k
        end == walk[first]
    IN  IF solid = {}
        THEN [block |-> Air, norm |-> vzero]
        ELSE [block |-> Rom(BlockPosOf(end.pos)),
              norm |-> [i \in Axes |-> IF i = end.last THEN fneg(end.step[i] * 2^D) ELSE 0]]

\* A step of this walk, or of the reference's.
StepOf(m, reference) == IF reference THEN MockStep(m) ELSE PathStep(m)

\* There is a walk of N steps.
HasWalk(start, reference, N) ==
    \E f : f = [n \in 0 .. N |-> IF n = 0 THEN start ELSE StepOf(f[n - 1], reference)]

\* A walk of any length exists: the recursive functions are well defined.
LEMMA WalkExists ==
    \A start, reference : \A N \in Nat : HasWalk(start, reference, N)
<1> SUFFICES ASSUME NEW start, NEW reference
             PROVE  \A N \in Nat : HasWalk(start, reference, N)
    OBVIOUS
<1> DEFINE G(f, n) == IF n = 0 THEN start ELSE StepOf(f[n - 1], reference)
           none == {N \in Nat : ~ \E f : f = [n \in 0 .. N |-> G(f, n)]}
<1> SUFFICES none = {} BY DEF HasWalk
<1> SUFFICES ASSUME none # {} PROVE FALSE OBVIOUS
<1>1. none \in SUBSET Nat OBVIOUS
<1>2. PICK N \in none : \A k \in none : N <= k
  <2> HIDE DEF none
  <2> QED BY <1>1, Least
<1>3. CASE N = 0
  <2> DEFINE f == [n \in 0 .. 0 |-> start]
  <2>1. f = [n \in 0 .. 0 |-> G(f, n)] BY \A n \in 0 .. 0 : n = 0
  <2> QED BY <1>3, <2>1
<1>4. CASE N # 0
  <2>1. N - 1 \in Nat /\ N \in Nat BY <1>1, <1>4
  <2>2. N - 1 \notin none
    <3>1. ~(N <= N - 1) BY <2>1
    <3> QED BY <1>2, <3>1
  <2>3. PICK g : g = [n \in 0 .. N - 1 |-> G(g, n)] BY <2>1, <2>2
  <2> DEFINE f == [n \in 0 .. N |-> IF n = N THEN G(g, N) ELSE g[n]]
  <2>4. \A n \in 0 .. N : f[n] = G(f, n)
    <3> SUFFICES ASSUME NEW n \in 0 .. N PROVE f[n] = G(f, n) OBVIOUS
    <3>1. CASE n = N
      <4>1. N - 1 \in 0 .. N /\ N - 1 # N BY <2>1
      <4>2. f[N - 1] = g[N - 1] BY <4>1
      <4> QED BY <1>4, <3>1, <4>2
    <3>2. CASE n # N /\ n # 0
      <4>1. n \in 0 .. N - 1 /\ n - 1 \in 0 .. N /\ n - 1 # N BY <2>1, <3>2
      <4>2. f[n] = g[n] /\ f[n - 1] = g[n - 1] BY <3>2, <4>1
      <4>3. g[n] = G(g, n)
        <5> HIDE DEF G
        <5> QED BY <2>3, <4>1, Zenon
      <4> QED BY <3>2, <4>2, <4>3
    <3>3. CASE n # N /\ n = 0
      <4>1. 0 \in 0 .. N - 1 BY <2>1, <1>4
      <4>2. g[0] = G(g, 0)
        <5> HIDE DEF G
        <5> QED BY <2>3, <4>1, Zenon
      <4> QED BY <3>3, <4>2
    <3> QED BY <3>1, <3>2, <3>3
  <2>5. f = [n \in 0 .. N |-> G(f, n)]
    <3>1. f = [n \in 0 .. N |-> f[n]] OBVIOUS
    <3> HIDE DEF f, G
    <3> QED BY <2>4, <3>1
  <2> HIDE DEF f, G
  <2>6. \E h : h = [n \in 0 .. N |-> G(h, n)] BY <2>5
  <2> QED BY <2>6
<1> QED BY <1>3, <1>4

\* A walk of the unit exists.
LEMMA PathExists ==
    ASSUME NEW r, NEW N \in Nat
    PROVE  \E f : f = [n \in 0 .. N |-> IF n = 0 THEN PathRay(r) ELSE PathStep(f[n - 1])]
<1> HasWalk(PathRay(r), FALSE, N) BY WalkExists
<1>1. PICK f : f = [n \in 0 .. N |-> IF n = 0 THEN PathRay(r) ELSE StepOf(f[n - 1], FALSE)]
  BY DEF HasWalk
<1>2. \A m : StepOf(m, FALSE) = PathStep(m) BY DEF StepOf
<1>3. f = [n \in 0 .. N |-> IF n = 0 THEN PathRay(r) ELSE PathStep(f[n - 1])] BY <1>1, <1>2
<1> QED BY <1>3

\* A walk of the reference exists.
LEMMA MockExists ==
    ASSUME NEW r, NEW N \in Nat
    PROVE  \E f : f = [n \in 0 .. N |-> IF n = 0 THEN MockRay(r) ELSE MockStep(f[n - 1])]
<1> HasWalk(MockRay(r), TRUE, N) BY WalkExists
<1>1. PICK f : f = [n \in 0 .. N |-> IF n = 0 THEN MockRay(r) ELSE StepOf(f[n - 1], TRUE)]
  BY DEF HasWalk
<1>2. \A m : StepOf(m, TRUE) = MockStep(m) BY DEF StepOf
<1>3. f = [n \in 0 .. N |-> IF n = 0 THEN MockRay(r) ELSE MockStep(f[n - 1])] BY <1>1, <1>2
<1> QED BY <1>3

\* What the walk is: its first voxel and what a step makes of the one before.
LEMMA PathWalkStep ==
    ASSUME NEW r
    PROVE  /\ PathWalk(r)[0] = PathRay(r)
           /\ \A n \in 0 .. MaxSteps : PathWalk(r)[n + 1] = PathStep(PathWalk(r)[n])
<1> DEFINE w == PathWalk(r)
<1>1. MaxSteps + 1 \in Nat BY VTUAssumption
<1>2. w = [n \in 0 .. MaxSteps + 1 |-> IF n = 0 THEN PathRay(r) ELSE PathStep(w[n - 1])]
      BY <1>1, PathExists, Zenon DEF PathWalk
<1> HIDE DEF w
<1>3. w[0] = PathRay(r) BY <1>1, <1>2
<1>4. ASSUME NEW n \in 0 .. MaxSteps PROVE w[n + 1] = PathStep(w[n])
  <2>1. PICK k \in 0 .. MaxSteps + 1 : k = n + 1 BY VTUAssumption
  <2>2. k # 0 /\ k - 1 = n BY <2>1
  <2>3. w[k] = IF k = 0 THEN PathRay(r) ELSE PathStep(w[k - 1]) BY <1>2, Zenon
  <2> QED BY <2>1, <2>2, <2>3
<1> QED BY <1>3, <1>4 DEF w

-----------------------------------------------------------------------------
(* What the registers hold while the pins keep a ray.                      *)

\* The component that is i-th to enter the reciprocal unit, the last one for ever.
Component(i) == IF i <= 0 THEN "x" ELSE IF i = 1 THEN "y" ELSE "z"

\* INIT: how far the direction has come through the normalizer and its
\* components through the reciprocal unit, at each value of the timer.
Prepared ==
    LET dir == vnormalize(ray_direction)
    IN  /\ ray_ori = ray_origin
        /\ ray_pos = vfloor(ray_origin)
        /\ ray_step = [i \in Axes |-> IF ray_direction[i] > 0 THEN 1 ELSE -1]
        /\ ray_d_dt = [i \in Axes |-> ray_d_dt[i]]
        /\ \A i \in 1 .. 6 : i <= init_timer + 1 => normalizing[i] = ray_direction
        /\ init_timer >= 6 => /\ ray_dir = dir
                              /\ ray_dist = PathDistance(CurrentRay)
                              /\ recip_in = dir[Component(init_timer - 6)]
        /\ \A i \in 1 .. 3 : init_timer - i >= 6 =>
                inverting[i] = dir[Component(init_timer - i - 6)]
        /\ \A k \in 0 .. 2 : init_timer >= 10 + k =>
                ray_d_dt[Component(k)] = fabs(recip(dir[Component(k)]))

\* The voxel the walk is in after n steps is filled.
Solid(r, n) == Rom(BlockPosOf(PathWalk(r)[n].pos)) # Air

\* The unit is where a walk is.
UnitIs(m) ==
    /\ ray_pos = m.pos /\ ray_step = m.step /\ ray_d_dt = m.t_delta
    /\ last_step = m.last /\ ray_t_max = m.t_max

\* TRAVERSING: the unit is on the walk and has met nothing before.
OnPath ==
    /\ UnitIs(PathWalk(CurrentRay)[num_steps])
    /\ \A k \in 0 .. num_steps - 1 : ~Solid(CurrentRay, k)

\* IDLE: the answer is the one of the walk.
ShowsCast == [block |-> hit, norm |-> hit_norm] = PathCast(CurrentRay)

\* What the registers hold once a reset has taken the ray on the pins.
Data ==
    /\ state = "INIT" => Prepared
    /\ state = "TRAVERSING" => OnPath
    /\ state = "IDLE" => ShowsCast

\* The cast ends at the first block.
LEMMA CastAtFirst ==
    ASSUME NEW r, NEW n \in 0 .. MaxSteps, Solid(r, n),
           \A k \in 0 .. n - 1 : ~Solid(r, k)
    PROVE  PathCast(r) =
             LET end == PathWalk(r)[n]
             IN  [block |-> Rom(BlockPosOf(end.pos)),
                  norm |-> [i \in Axes |-> IF i = end.last THEN fneg(end.step[i] * 2^D) ELSE 0]]
<1> DEFINE solid == {k \in 0 .. MaxSteps : Rom(BlockPosOf(PathWalk(r)[k].pos)) # Air}
<1>1. n \in solid BY DEF Solid
<1>2. \A k \in solid : n <= k
  <2> SUFFICES ASSUME NEW k \in solid, k < n PROVE FALSE BY VTUAssumption
  <2>1. k \in 0 .. n - 1 BY VTUAssumption
  <2> QED BY <2>1 DEF Solid
<1>3. solid \subseteq Nat BY VTUAssumption
<1>4. n = CHOOSE f \in solid : \A k \in solid : f <= k
  <2> HIDE DEF solid
  <2>1. \A f \in solid : (\A k \in solid : f <= k) => f = n
    <3> SUFFICES ASSUME NEW f \in solid, \A k \in solid : f <= k PROVE f = n OBVIOUS
    <3>1. f <= n /\ n <= f /\ f \in Nat /\ n \in Nat BY <1>1, <1>2, <1>3
    <3> QED BY <3>1
  <2> QED BY <1>1, <1>2, <2>1
<1>5. solid # {} BY <1>1
<1> DEFINE first == CHOOSE f \in solid : \A k \in solid : f <= k
           answer(end) ==
             [block |-> Rom(BlockPosOf(end.pos)),
              norm |-> [i \in Axes |-> IF i = end.last THEN fneg(end.step[i] * 2^D) ELSE 0]]
<1>6. PathCast(r) = IF solid = {} THEN [block |-> Air, norm |-> vzero]
                    ELSE answer(PathWalk(r)[first])
      BY Zenon DEF PathCast
<1>7. first = n BY <1>4
<1> HIDE DEF solid, first, answer
<1>8. PathCast(r) = answer(PathWalk(r)[n]) BY <1>5, <1>6, <1>7
<1> QED BY <1>8 DEF answer

\* The cast of a ray that meets no block.
LEMMA CastOfNothing ==
    ASSUME NEW r, \A n \in 0 .. MaxSteps : ~Solid(r, n)
    PROVE  PathCast(r) = [block |-> Air, norm |-> vzero]
BY Zenon DEF PathCast, Solid

\* The data after an edge of reset.
LEMMA DataReset == ASSUME Control, VTUReset, UNCHANGED pins PROVE Data'
<1>1. state' = "INIT" /\ init_timer' = 0 BY DEF VTUReset
<1>2. /\ ray_ori' = ray_origin' /\ ray_pos' = vfloor(ray_origin')
      /\ ray_step' = [i \in Axes |-> IF ray_direction'[i] > 0 THEN 1 ELSE -1]
      BY DEF VTUReset, pins
<1>3. ray_d_dt' = [i \in Axes |-> ray_d_dt'[i]]
  <2>1. ray_d_dt' = [i \in Axes |-> 0] BY DEF VTUReset, vzero
  <2> QED BY <2>1
<1>4. normalizing'[1] = ray_direction' BY DEF VTUReset, Shift, pins
<1>5. \A i \in 1 .. 6 : i <= 0 + 1 => normalizing'[i] = ray_direction'
  <2>1. \A i \in 1 .. 6 : i <= 0 + 1 => i = 1 OBVIOUS
  <2> QED BY <1>4, <2>1
<1>6. Prepared' BY <1>1, <1>2, <1>3, <1>5 DEF Prepared
<1> QED BY <1>1, <1>6 DEF Data

\* The pipelines at an edge of the preparation.
LEMMA PipelinesStep ==
    ASSUME Control, Prepared, InitEdge, UNCHANGED pins, NEW t \in 0 .. 12, init_timer = t
    PROVE  LET dir == vnormalize(ray_direction)
           IN  /\ t + 1 >= 6 => /\ ray_dir' = dir
                                /\ ray_dist' = PathDistance(CurrentRay)
                                /\ recip_in' = dir[Component(t + 1 - 6)]
               /\ \A i \in 1 .. 6 : i <= t + 2 => normalizing'[i] = ray_direction
               /\ \A i \in 1 .. 3 : t + 1 - i >= 6 =>
                      inverting'[i] = dir[Component(t + 1 - i - 6)]
               /\ ray_d_dt' = [i \in Axes |-> ray_d_dt'[i]]
               /\ \A k \in 0 .. 2 : t + 1 >= 10 + k =>
                      ray_d_dt'[Component(k)] = fabs(recip(dir[Component(k)]))
<1> DEFINE dir == vnormalize(ray_direction)
<1>1. /\ ray_ori = ray_origin
      /\ ray_pos = vfloor(ray_origin)
      /\ ray_step = [i \in Axes |-> IF ray_direction[i] > 0 THEN 1 ELSE -1]
      /\ ray_d_dt = [i \in Axes |-> ray_d_dt[i]]
      /\ \A i \in 1 .. 6 : i <= t + 1 => normalizing[i] = ray_direction
      BY DEF Prepared
<1>2. t >= 6 => /\ ray_dir = dir
                /\ ray_dist = PathDistance(CurrentRay)
                /\ recip_in = dir[Component(t - 6)]
      BY Zenon DEF Prepared
<1>3. \A i \in 1 .. 3 : t - i >= 6 => inverting[i] = dir[Component(t - i - 6)]
      BY Zenon DEF Prepared
<1>4. \A k \in 0 .. 2 : t >= 10 + k =>
            ray_d_dt[Component(k)] = fabs(recip(dir[Component(k)]))
      BY Zenon DEF Prepared
<1>5. Component(0) = "x" /\ Component(1) = "y" /\ \A i \in Nat : i >= 2 => Component(i) = "z"
      BY DEF Component
<1>6. \A i \in 1 .. 6 : i <= t + 2 => normalizing'[i] = ray_direction
  <2>1. \A i \in 1 .. 6 : normalizing'[i] = IF i = 1 THEN ray_direction ELSE normalizing[i - 1]
        BY DEF InitEdge, Shift
  <2>2. \A i \in 1 .. 6 : i # 1 => i - 1 \in 1 .. 6 /\ (i <= t + 2 => i - 1 <= t + 1) OBVIOUS
  <2> QED BY <1>1, <2>1, <2>2
<1>7. inverting'[1] = recip_in /\ inverting'[2] = inverting[1] /\ inverting'[3] = inverting[2]
      BY DEF InitEdge, Shift
<1>8. t = 5 => ray_direction_normalized = dir
      BY <1>1 DEF ray_direction_normalized
<1>9. t = 5 => ray_dist' = PathDistance(CurrentRay)
  <2> SUFFICES ASSUME t = 5 PROVE ray_dist' = PathDistance(CurrentRay) OBVIOUS
  <2>1. ray_dist' = [i \in Axes |-> FirstDistance(i)] BY DEF InitEdge, DirectionReadyAt
  <2>2. \A i \in Axes : FirstDistance(i) = PathDistance(CurrentRay)[i]
    <3> SUFFICES ASSUME NEW i \in Axes PROVE FirstDistance(i) = PathDistance(CurrentRay)[i]
        OBVIOUS
    <3>1. ray_pos[i] = vfloor(ray_origin)[i] /\ ray_ori[i] = ray_origin[i]
          /\ ray_step[i] = IF ray_direction[i] > 0 THEN 1 ELSE -1
          BY <1>1
    <3>2. CurrentRay.origin = ray_origin /\ CurrentRay.direction = ray_direction
          BY DEF CurrentRay
    <3>3. ray_step[i] > 0 <=> ray_direction[i] > 0 BY <3>1
    <3> QED BY <3>1, <3>2, <3>3 DEF FirstDistance, PathDistance
  <2>3. PathDistance(CurrentRay) = [i \in Axes |-> PathDistance(CurrentRay)[i]]
        BY DEF PathDistance
  <2> QED BY <2>1, <2>2, <2>3
<1>10. t + 1 >= 6 => ray_dir' = dir /\ ray_dist' = PathDistance(CurrentRay)
  <2>1. t = 5 => ray_dir' = dir BY <1>8 DEF InitEdge, DirectionReadyAt
  <2>2. t # 5 => ray_dir' = ray_dir /\ ray_dist' = ray_dist BY DEF InitEdge, DirectionReadyAt
  <2>3. t + 1 >= 6 => t = 5 \/ t >= 6 OBVIOUS
  <2> HIDE DEF dir
  <2> QED BY <1>2, <1>9, <2>1, <2>2, <2>3
<1>11. t + 1 >= 6 => recip_in' = dir[Component(t + 1 - 6)]
  <2>1. t = 5 => recip_in' = ray_direction_normalized["x"] BY DEF InitEdge, DirectionReadyAt
  <2>2. t = 6 => recip_in' = ray_dir["y"] BY DEF InitEdge, DirectionReadyAt
  <2>3. t = 7 => recip_in' = ray_dir["z"] BY DEF InitEdge, DirectionReadyAt
  <2>4. t >= 8 => recip_in' = recip_in BY DEF InitEdge, DirectionReadyAt
  <2> HIDE DEF dir
  <2>5. CASE t = 5 BY <1>5, <1>8, <2>1, <2>5
  <2>6. CASE t = 6 BY <1>2, <1>5, <2>2, <2>6
  <2>7. CASE t = 7 BY <1>2, <1>5, <2>3, <2>7
  <2>8. CASE t >= 8
    <3>1. Component(t - 6) = "z" /\ Component(t + 1 - 6) = "z" BY <1>5, <2>8
    <3> QED BY <1>2, <2>4, <2>8, <3>1
  <2> QED BY <2>5, <2>6, <2>7, <2>8
<1>12. \A i \in 1 .. 3 : t + 1 - i >= 6 => inverting'[i] = dir[Component(t + 1 - i - 6)]
  <2> HIDE DEF dir
  <2>1. t + 1 - 1 >= 6 => inverting'[1] = dir[Component(t + 1 - 1 - 6)]
    <3>1. t + 1 - 1 - 6 = t - 6 /\ t + 1 - 1 = t OBVIOUS
    <3> QED BY <1>2, <1>7, <3>1
  <2>2. t + 1 - 2 >= 6 => inverting'[2] = dir[Component(t + 1 - 2 - 6)]
    <3>1. t + 1 - 2 - 6 = t - 1 - 6 /\ t + 1 - 2 = t - 1 OBVIOUS
    <3> QED BY <1>3, <1>7, <3>1
  <2>3. t + 1 - 3 >= 6 => inverting'[3] = dir[Component(t + 1 - 3 - 6)]
    <3>1. t + 1 - 3 - 6 = t - 2 - 6 /\ t + 1 - 3 = t - 2 OBVIOUS
    <3> QED BY <1>3, <1>7, <3>1
  <2>4. \A i \in 1 .. 3 : i = 1 \/ i = 2 \/ i = 3 OBVIOUS
  <2> QED BY <2>1, <2>2, <2>3, <2>4
<1>13. /\ ray_d_dt' = [i \in Axes |-> ray_d_dt'[i]]
       /\ \A k \in 0 .. 2 : t + 1 >= 10 + k =>
              ray_d_dt'[Component(k)] = fabs(recip(dir[Component(k)]))
  <2>1. t = 9 => ray_d_dt' = [ray_d_dt EXCEPT !["x"] = fabs(recip_out)]
        BY DEF InitEdge, ReciprocalReadyAt
  <2>2. t = 10 => ray_d_dt' = [ray_d_dt EXCEPT !["y"] = fabs(recip_out)]
        BY DEF InitEdge, ReciprocalReadyAt
  <2>3. t = 11 => ray_d_dt' = [ray_d_dt EXCEPT !["z"] = fabs(recip_out)]
        BY DEF InitEdge, ReciprocalReadyAt
  <2>4. t \notin {9, 10, 11} => ray_d_dt' = ray_d_dt
        BY DEF InitEdge, ReciprocalReadyAt
  <2> HIDE DEF dir
  <2>5. /\ t = 9 => recip_out = recip(dir["x"])
        /\ t = 10 => recip_out = recip(dir["y"])
        /\ t = 11 => recip_out = recip(dir["z"])
        BY <1>3, <1>5 DEF recip_out
  <2>6. ray_d_dt = [i \in Axes |-> ray_d_dt[i]] BY <1>1
  <2>7. /\ t >= 10 => ray_d_dt["x"] = fabs(recip(dir["x"]))
        /\ t >= 11 => ray_d_dt["y"] = fabs(recip(dir["y"]))
        /\ t >= 12 => ray_d_dt["z"] = fabs(recip(dir["z"]))
        BY <1>4, <1>5
  <2>8. ray_d_dt' = [i \in Axes |-> ray_d_dt'[i]]
    <3>1. CASE t = 9 BY <2>1, <2>6, <3>1
    <3>2. CASE t = 10 BY <2>2, <2>6, <3>2
    <3>3. CASE t = 11 BY <2>3, <2>6, <3>3
    <3>4. CASE t \notin {9, 10, 11} BY <2>4, <2>6, <3>4
    <3> QED BY <3>1, <3>2, <3>3, <3>4
  <2>9. /\ t >= 9 => ray_d_dt'["x"] = fabs(recip(dir["x"]))
        /\ t >= 10 => ray_d_dt'["y"] = fabs(recip(dir["y"]))
        /\ t >= 11 => ray_d_dt'["z"] = fabs(recip(dir["z"]))
    <3>1. CASE t = 9 BY <2>1, <2>5, <2>6, <3>1 DEF Axes
    <3>2. CASE t = 10 BY <2>2, <2>5, <2>6, <2>7, <3>2 DEF Axes
    <3>3. CASE t = 11 BY <2>3, <2>5, <2>6, <2>7, <3>3 DEF Axes
    <3>4. CASE t \notin {9, 10, 11} BY <2>4, <2>7, <3>4
    <3> QED BY <3>1, <3>2, <3>3, <3>4
  <2>10. \A k \in 0 .. 2 : k = 0 \/ k = 1 \/ k = 2 OBVIOUS
  <2>11. \A k \in 0 .. 2 : t + 1 >= 10 + k <=> t >= 9 + k OBVIOUS
  <2>12. Component(2) = "z" BY <1>5
  <2> QED BY <1>5, <2>8, <2>9, <2>10, <2>11, <2>12
<1> QED BY <1>6, <1>10, <1>11, <1>12, <1>13, Zenon

\* The ray is what is on the pins.
LEMMA SameRay == UNCHANGED pins => CurrentRay' = CurrentRay
BY DEF pins, CurrentRay

\* The data over an edge of the preparation.
LEMMA DataPrepare ==
    ASSUME Control, Prepared, InitEdge, UNCHANGED pins PROVE Data'
<1>1. PICK t \in 0 .. 12 : t = init_timer BY DEF Control, InitEdge, Preparing
<1> DEFINE dir == vnormalize(ray_direction)
<1>2. /\ t + 1 >= 6 => /\ ray_dir' = dir
                       /\ ray_dist' = PathDistance(CurrentRay)
                       /\ recip_in' = dir[Component(t + 1 - 6)]
      /\ \A i \in 1 .. 6 : i <= t + 2 => normalizing'[i] = ray_direction
      /\ \A i \in 1 .. 3 : t + 1 - i >= 6 =>
             inverting'[i] = dir[Component(t + 1 - i - 6)]
      /\ ray_d_dt' = [i \in Axes |-> ray_d_dt'[i]]
      /\ \A k \in 0 .. 2 : t + 1 >= 10 + k =>
             ray_d_dt'[Component(k)] = fabs(recip(dir[Component(k)]))
      BY <1>1, PipelinesStep, Zenon
<1>3. CurrentRay' = CurrentRay /\ ray_direction' = ray_direction /\ ray_origin' = ray_origin
      BY SameRay DEF pins
<1>4. init_timer' = t + 1 BY <1>1 DEF InitEdge
<1>5. /\ ray_ori' = ray_origin' /\ ray_pos' = vfloor(ray_origin')
      /\ ray_step' = [i \in Axes |-> IF ray_direction'[i] > 0 THEN 1 ELSE -1]
      BY <1>3 DEF Prepared, InitEdge
<1> HIDE DEF dir
<1>6. CASE t # 12
  <2>1. state' = "INIT" BY <1>1, <1>6 DEF InitEdge
  <2>2. \A i \in 1 .. 6 : i <= t + 1 + 1 => normalizing'[i] = ray_direction
    <3>1. t + 1 + 1 = t + 2 OBVIOUS
    <3> QED BY <1>2, <3>1
  <2>3. vnormalize(ray_direction') = dir BY <1>3 DEF dir
  <2>4. init_timer' >= 6 => /\ ray_dir' = dir
                            /\ ray_dist' = PathDistance(CurrentRay')
                            /\ recip_in' = dir[Component(init_timer' - 6)]
        BY <1>2, <1>3, <1>4
  <2>5. \A i \in 1 .. 3 : init_timer' - i >= 6 =>
             inverting'[i] = dir[Component(init_timer' - i - 6)]
        BY <1>2, <1>4
  <2>6. \A k \in 0 .. 2 : init_timer' >= 10 + k =>
             ray_d_dt'[Component(k)] = fabs(recip(dir[Component(k)]))
        BY <1>2, <1>4
  <2>7. \A i \in 1 .. 6 : i <= init_timer' + 1 => normalizing'[i] = ray_direction'
        BY <1>3, <1>4, <2>2
  <2>8. Prepared'
        BY <1>2, <1>5, <2>3, <2>4, <2>5, <2>6, <2>7, Zenon DEF Prepared, Component, PathDistance
  <2> QED BY <2>1, <2>8 DEF Data
<1>7. CASE t = 12
  <2>1. state' = "TRAVERSING" BY <1>1, <1>7 DEF InitEdge
  <2>2. num_steps' = 0 /\ last_step' = "none"
        BY DEF Control, Preparing, InitEdge, walkvars
  <2>3. ray_dir = dir /\ ray_dist = PathDistance(CurrentRay)
    <3>1. 12 >= 6 OBVIOUS
    <3> QED BY <1>1, <1>7, <3>1, Zenon DEF Prepared, dir
  <2>4. \A i \in Axes : ray_d_dt[i] = fabs(recip(dir[i]))
    <3>1. \A k \in 0 .. 2 : 12 >= 10 + k OBVIOUS
    <3>2. \A k \in 0 .. 2 : ray_d_dt[Component(k)] = fabs(recip(dir[Component(k)]))
          BY <1>1, <1>7, <3>1, Zenon DEF Prepared, dir
    <3>3. Component(0) = "x" /\ Component(1) = "y" /\ Component(2) = "z" BY DEF Component
    <3>4. 0 \in 0 .. 2 /\ 1 \in 0 .. 2 /\ 2 \in 0 .. 2 OBVIOUS
    <3>5. /\ ray_d_dt["x"] = fabs(recip(dir["x"])) /\ ray_d_dt["y"] = fabs(recip(dir["y"]))
          /\ ray_d_dt["z"] = fabs(recip(dir["z"]))
          BY <3>2, <3>3, <3>4, Zenon
    <3> QED BY <3>5 DEF Axes
  <2>5. ray_d_dt = [i \in Axes |-> fabs(recip(dir[i]))]
    <3>1. ray_d_dt = [i \in Axes |-> ray_d_dt[i]] BY DEF Prepared
    <3> QED BY <2>4, <3>1
  <2>6. ray_d_dt' = ray_d_dt BY <1>1, <1>7 DEF InitEdge, ReciprocalReadyAt
  <2>7. ray_t_max' = [i \in Axes |-> IF dir[i] = 0 THEN FIXED_MAX
                                     ELSE fmul(ray_d_dt[i], PathDistance(CurrentRay)[i])]
        BY <1>1, <1>7, <2>3 DEF InitEdge, FirstBoundary
  <2> DEFINE r == CurrentRay
  <2>8. r.direction = ray_direction /\ r.origin = ray_origin BY DEF CurrentRay
  <2> HIDE DEF r
  <2>9. PathRay(r) =
          [pos |-> vfloor(ray_origin),
           step |-> [i \in Axes |-> IF ray_direction[i] > 0 THEN 1 ELSE -1],
           t_delta |-> ray_d_dt, last |-> "none", t_max |-> ray_t_max']
    <3>1. PathRay(r) =
          [pos |-> vfloor(ray_origin),
           step |-> [i \in Axes |-> IF ray_direction[i] > 0 THEN 1 ELSE -1],
           t_delta |-> [i \in Axes |-> fabs(recip(dir[i]))], last |-> "none",
           t_max |-> [i \in Axes |-> IF dir[i] = 0 THEN FIXED_MAX
                                   ELSE fmul([j \in Axes |-> fabs(recip(dir[j]))][i],
                                             PathDistance(r)[i])]]
          BY <2>8, Zenon DEF PathRay, dir
    <3> QED BY <2>5, <2>7, <3>1, Zenon DEF r
  <2>10. UnitIs(PathRay(r))'
    <3>1. PathRay(r)' = PathRay(r) BY <1>3 DEF r
    <3>2. /\ ray_pos' = PathRay(r).pos /\ ray_step' = PathRay(r).step
          /\ ray_d_dt' = PathRay(r).t_delta /\ last_step' = PathRay(r).last
          /\ ray_t_max' = PathRay(r).t_max
          BY <1>3, <1>5, <2>2, <2>6, <2>9
    <3> QED BY <3>1, <3>2 DEF UnitIs
  <2>11. OnPath'
    <3>1. PathWalk(r)[0] = PathRay(r) BY PathWalkStep
    <3>2. r' = r BY <1>3 DEF r
    <3>3. UnitIs(PathWalk(CurrentRay)[num_steps])'
          BY <2>2, <2>10, <3>1, <3>2 DEF r, UnitIs
    <3>4. 0 .. num_steps' - 1 = {} BY <2>2
    <3> QED BY <3>3, <3>4 DEF OnPath
  <2> QED BY <2>1, <2>11 DEF Data
<1> QED BY <1>6, <1>7

\* The data over an edge of the traversal.
LEMMA DataTraverse ==
    ASSUME Control, OnPath, TraverseEdge(ram_out, ram_valid), UNCHANGED pins PROVE Data'
<1>1. Shapes /\ DataBesideAddress /\ Walking /\ state = "TRAVERSING"
      BY DEF Control, TraverseEdge
<1>2. num_steps \in 0 .. MaxSteps + 1 /\ MaxSteps \in Nat BY <1>1, VTUAssumption DEF Shapes
<1>3. PICK r : r = CurrentRay OBVIOUS
<1>4. CurrentRay' = r BY <1>3, SameRay
<1>5. PICK m : m = PathWalk(r)[num_steps] OBVIOUS
<1>6. UnitIs(m) /\ \A k \in 0 .. num_steps - 1 : ~Solid(r, k) BY <1>3, <1>5 DEF OnPath
<1>7. ram_valid => ram_out = Rom(BlockPosOf(m.pos)) /\ num_steps \in 0 .. MaxSteps
  <2> SUFFICES ASSUME ram_valid
               PROVE  ram_out = Rom(BlockPosOf(m.pos)) /\ num_steps \in 0 .. MaxSteps
      OBVIOUS
  <2>1. ram_out = Rom(addr_pipe[3]) /\ addr_pipe[3] = ram_addr
        BY <1>1, ValidMeansSettled DEF DataBesideAddress, Walking
  <2>2. ram_addr = BlockPosOf(m.pos) BY <1>6 DEF UnitIs, ram_addr
  <2>3. num_steps # MaxSteps + 1 BY <1>1, <2>1 DEF Walking, Depth
  <2> QED BY <1>2, <2>1, <2>2, <2>3
<1>8. CASE ram_valid /\ ram_out # Air
  <2>1. Finish(ram_out, FacingNormal) BY <1>8 DEF TraverseEdge
  <2>2. Solid(r, num_steps) BY <1>5, <1>7, <1>8 DEF Solid
  <2>3. PathCast(r) = [block |-> Rom(BlockPosOf(m.pos)),
                       norm |-> [i \in Axes |-> IF i = m.last THEN fneg(m.step[i] * 2^D) ELSE 0]]
        BY <1>5, <1>6, <1>7, <1>8, <2>2, CastAtFirst
  <2>4. FacingNormal = [i \in Axes |-> IF i = m.last THEN fneg(m.step[i] * 2^D) ELSE 0]
        BY <1>6 DEF FacingNormal, UnitIs
  <2>5. hit' = Rom(BlockPosOf(m.pos)) /\ hit_norm' = FacingNormal /\ state' = "IDLE"
        BY <1>7, <1>8, <2>1 DEF Finish
  <2>6. ShowsCast' BY <1>4, <2>3, <2>4, <2>5 DEF ShowsCast
  <2> QED BY <2>5, <2>6 DEF Data
<1>9. CASE ~(ram_valid /\ ram_out # Air) /\ TooFar
  <2>1. num_steps = MaxSteps + 1 BY <1>2, <1>9 DEF TooFar
  <2>2. Finish(Air, vzero) BY <1>9 DEF TraverseEdge
  <2>3. \A k \in 0 .. MaxSteps : ~Solid(r, k) BY <1>2, <1>6, <2>1
  <2>4. PathCast(r) = [block |-> Air, norm |-> vzero] BY <2>3, CastOfNothing
  <2>5. hit' = Air /\ hit_norm' = vzero /\ state' = "IDLE" BY <2>2 DEF Finish
  <2>6. ShowsCast' BY <1>4, <2>4, <2>5 DEF ShowsCast
  <2> QED BY <2>5, <2>6 DEF Data
<1>10. CASE ~ram_valid /\ ~TooFar
  <2>1. state' = "TRAVERSING" /\ UNCHANGED <<rayvars, last_step, num_steps>>
        BY <1>10 DEF TraverseEdge
  <2>2. UnitIs(m)' BY <1>6, <2>1 DEF UnitIs, rayvars
  <2>3. OnPath'
    <3>1. UnitIs(PathWalk(CurrentRay)[num_steps])' BY <1>4, <1>5, <2>1, <2>2 DEF UnitIs
    <3>2. \A k \in 0 .. num_steps' - 1 : ~Solid(CurrentRay', k) BY <1>4, <1>6, <2>1
    <3> QED BY <3>1, <3>2 DEF OnPath, Solid
  <2> QED BY <2>1, <2>3 DEF Data
<1>11. CASE ram_valid /\ ram_out = Air
  <2>1. num_steps \in 0 .. MaxSteps BY <1>7, <1>11
  <2>2. ~TooFar BY <1>2, <2>1 DEF TooFar
  <2>3. state' = "TRAVERSING" /\ Advance BY <1>11, <2>2 DEF TraverseEdge
  <2>4. ~Solid(r, num_steps) BY <1>5, <1>7, <1>11 DEF Solid
  <2>5. num_steps' = num_steps + 1 BY <2>3 DEF Advance
  <2>6. PathWalk(r)[num_steps + 1] = PathStep(m) BY <1>5, <2>1, PathWalkStep
  <2>7. UnitIs(PathStep(m))'
    <3>1. PICK i : i = NextAxis(m.t_max) OBVIOUS
    <3>2. PathStep(m) = [pos |-> [m.pos EXCEPT ![i] = Signed(@ + m.step[i], B - D)],
                         step |-> m.step, t_delta |-> m.t_delta, last |-> i,
                         t_max |-> [m.t_max EXCEPT ![i] = fadd(@, m.t_delta[i])]]
          BY <3>1, Zenon DEF PathStep
    <3>3. /\ ray_pos' = [m.pos EXCEPT ![i] = Signed(@ + m.step[i], B - D)]
          /\ ray_step' = m.step /\ ray_d_dt' = m.t_delta /\ last_step' = i
          /\ ray_t_max' = [m.t_max EXCEPT ![i] = fadd(@, m.t_delta[i])]
          BY <1>6, <2>3, <3>1 DEF Advance, UnitIs
    <3> QED BY <3>2, <3>3 DEF UnitIs
  <2>8. OnPath'
    <3>1. UnitIs(PathWalk(CurrentRay)[num_steps])' BY <1>4, <2>5, <2>6, <2>7 DEF UnitIs
    <3>2. \A k \in 0 .. num_steps' - 1 : ~Solid(CurrentRay', k)
      <4>1. \A k \in 0 .. num_steps' - 1 : k = num_steps \/ k \in 0 .. num_steps - 1
            BY <2>1, <2>5, <1>2
      <4> QED BY <1>4, <1>6, <2>4, <4>1
    <3> QED BY <3>1, <3>2 DEF OnPath, Solid
  <2> QED BY <2>3, <2>8 DEF Data
<1> QED BY <1>8, <1>9, <1>10, <1>11

\* The data over an edge with the answer out.
LEMMA DataIdle ==
    ASSUME ShowsCast, IdleEdge, UNCHANGED pins PROVE Data'
<1>1. state' = "IDLE" /\ hit' = hit /\ hit_norm' = hit_norm BY DEF IdleEdge, walkvars
<1>2. ShowsCast' BY <1>1, SameRay DEF ShowsCast
<1> QED BY <1>1, <1>2 DEF Data

-----------------------------------------------------------------------------
(* The unit is the cast that takes no time.                                *)

\* The inductive invariant: an edge that raises rst has changed the pins, so
\* the data counts from the reset that follows.
CasterInv == Control /\ (rst \/ rst_in \/ Data)

\* Only an edge that hands out a ray changes the pins.
LEMMA PinsHeld == Wait => UNCHANGED pins
BY DEF Wait

\* The data over any edge that hands out no ray.
LEMMA DataStep == ASSUME CasterInv, Wait PROVE Data'
<1>1. Control /\ Next /\ UnitAndMemory /\ UNCHANGED pins BY DEF CasterInv, Next, Wait
<1>2. CASE rst_in \/ rst
  <2>1. VTUReset BY <1>1, <1>2 DEF UnitAndMemory
  <2> QED BY <1>1, <2>1, DataReset
<1>3. CASE ~(rst_in \/ rst)
  <2>1. Data BY <1>3 DEF CasterInv
  <2>2. VTUEdge(ram_out, ram_valid) BY <1>1, <1>3 DEF UnitAndMemory
  <2>3. CASE InitEdge
    <3>1. Prepared BY <2>1, <2>3 DEF Data, InitEdge
    <3> QED BY <1>1, <2>3, <3>1, DataPrepare
  <2>4. CASE TraverseEdge(ram_out, ram_valid)
    <3>1. OnPath BY <2>1, <2>4 DEF Data, TraverseEdge
    <3> QED BY <1>1, <2>4, <3>1, DataTraverse
  <2>5. CASE IdleEdge
    <3>1. ShowsCast BY <2>1, <2>5 DEF Data, IdleEdge
    <3> QED BY <1>1, <2>5, <3>1, DataIdle
  <2> QED BY <2>2, <2>3, <2>4, <2>5 DEF VTUEdge
<1> QED BY <1>2, <1>3

\* The invariant over any step.
LEMMA CasterStep == CasterInv /\ [Next]_castervars => CasterInv'
<1> SUFFICES ASSUME CasterInv, [Next]_castervars PROVE CasterInv' OBVIOUS
<1>1. Control' BY ControlStep DEF CasterInv
<1>2. CASE Assign BY <1>1, <1>2 DEF Assign, CasterInv
<1>3. CASE Wait BY <1>1, <1>3, DataStep DEF CasterInv
<1>4. CASE UNCHANGED castervars
  <2>1. rst' = rst /\ rst_in' = rst_in BY <1>4 DEF castervars
  <2>2. Data => Data'
    <3>1. CurrentRay' = CurrentRay BY <1>4 DEF castervars, pins, CurrentRay
    <3> QED BY <1>4, <3>1 DEF castervars, pins, vtuvars, rayvars, walkvars, Data, Prepared,
            OnPath, ShowsCast, UnitIs, Solid
  <2> QED BY <1>1, <2>1, <2>2 DEF CasterInv
<1> QED BY <1>2, <1>3, <1>4 DEF Next

\* The invariant at power-up, when rst_in is high.
LEMMA CasterInit == Init => CasterInv
BY ControlInit DEF Init, CasterInv

\* The unit with its memory is a RayPromise that answers with the instant cast.
PathPromised == INSTANCE RayPromise WITH
    Earliest <- EarliestAnswer, Latest <- LatestAnswer,
    NoAnswer <- [block |-> Air, norm |-> vzero], Answer <- PathCast,
    ray <- CurrentRay, age <- age, answered <- hit_valid,
    answer <- [block |-> hit, norm |-> hit_norm]

\* Every step is a step of the promise, or none.
LEMMA PromiseStep ==
    CasterInv /\ [Next]_castervars =>
        [PathPromised!Start \/ PathPromised!Tick]_(PathPromised!promisevars)
<1> DEFINE answer == [block |-> hit, norm |-> hit_norm]
<1> SUFFICES ASSUME CasterInv, [Next]_castervars
             PROVE  \/ PathPromised!Start \/ PathPromised!Tick
                    \/ UNCHANGED <<age, hit_valid, answer>>
    BY DEF PathPromised!promisevars
<1>1. CASE UNCHANGED castervars
  BY <1>1 DEF castervars, vtuvars, walkvars
<1>2. CASE Next /\ (rst_in \/ rst)
  <2>1. VTUReset /\ age' = 0 BY <1>2 DEF Next, Assign, Wait, UnitAndMemory
  <2>2. PathPromised!Start BY <2>1 DEF PathPromised!Start, VTUReset
  <2> QED BY <2>2
<1>3. CASE Next /\ ~(rst_in \/ rst)
  <2>1. Control /\ Data BY <1>3 DEF CasterInv
  <2>2. VTUEdge(ram_out, ram_valid) /\ Older
        BY <1>3 DEF Next, Assign, Wait, UnitAndMemory
  <2>3. PathPromised!Older BY <2>2 DEF Older, PathPromised!Older
  <2>4. MaxSteps \in Nat BY VTUAssumption
  <2>5. CASE InitEdge
    <3>1. ~hit_valid /\ age \in 0 .. 12 BY <2>1, <2>5 DEF Control, InitEdge, Preparing, Nothing
    <3>2. UNCHANGED <<hit_valid, answer>> BY <2>5 DEF InitEdge, walkvars
    <3>3. age + 1 < LatestAnswer BY <2>4, <3>1 DEF LatestAnswer
    <3>4. PathPromised!Work BY <2>3, <3>1, <3>2, <3>3 DEF PathPromised!Work
    <3> QED BY <3>4 DEF PathPromised!Tick
  <2>6. CASE TraverseEdge(ram_out, ram_valid)
    <3>1. Wait
      <4>1. ~hit_valid BY <2>1, <2>6 DEF Control, TraverseEdge, Walking, Nothing
      <4> QED BY <1>3, <4>1 DEF Next, Assign
    <3>2. PICK phase \in 0 .. 3 :
            /\ age = 10 + 4 * num_steps + phase
            /\ num_steps = 0 => phase = 3
            /\ num_steps = MaxSteps + 1 => phase = 0
          BY <2>1, <2>6 DEF Control, TraverseEdge, Walking
    <3>3. num_steps \in 0 .. MaxSteps + 1 /\ ~hit_valid
          BY <2>1, <2>6 DEF Control, Shapes, TraverseEdge, Walking, Nothing
    <3>4. age + 1 >= EarliestAnswer BY <3>2, <3>3, <2>4 DEF EarliestAnswer
    <3>5. CASE hit_valid'
      <4>1. state' = "IDLE"
        <5>1. ~(UNCHANGED <<hit, hit_norm, hit_valid, ram_read_enable, state>>)
              BY <3>3, <3>5
        <5> QED BY <2>6, <5>1 DEF TraverseEdge, Finish
      <4>2. ShowsCast' BY <3>1, <4>1, DataStep DEF Data
      <4>3. answer' = PathCast(CurrentRay)
            BY <3>1, <4>2, PinsHeld, SameRay DEF ShowsCast
      <4>4. PathPromised!Deliver
            BY <2>3, <3>3, <3>4, <3>5, <4>3 DEF PathPromised!Deliver, TraverseEdge, Finish
      <4> QED BY <4>4 DEF PathPromised!Tick
    <3>6. CASE ~hit_valid'
      <4>1. ~TooFar /\ UNCHANGED <<hit, hit_norm, hit_valid>>
            BY <2>6, <3>6 DEF TraverseEdge, Finish
      <4>2. num_steps <= MaxSteps BY <3>3, <4>1, <2>4 DEF TooFar
      <4>3. age + 1 < LatestAnswer BY <2>4, <3>2, <3>3, <4>2 DEF LatestAnswer
      <4>4. PathPromised!Work BY <2>3, <3>3, <4>1, <4>3 DEF PathPromised!Work
      <4> QED BY <4>4 DEF PathPromised!Tick
    <3> QED BY <3>5, <3>6
  <2>7. CASE IdleEdge
    <3>1. hit_valid BY <2>1, <2>7 DEF Control, IdleEdge, Answered
    <3>2. UNCHANGED <<hit_valid, answer>> BY <2>7 DEF IdleEdge, walkvars
    <3>3. PathPromised!Hold BY <2>3, <3>1, <3>2 DEF PathPromised!Hold
    <3> QED BY <3>3 DEF PathPromised!Tick
  <2> QED BY <2>2, <2>5, <2>6, <2>7 DEF VTUEdge
<1> QED BY <1>1, <1>2, <1>3

\* vtu.sv with chunk.sv: for every ray, world and limit of steps the pipelined
\* unit answers with the cast that takes no time, between EarliestAnswer and
\* LatestAnswer edges after its reset, and holds the answer until the next.
THEOREM CastsAtOnce == Spec => PathPromised!Promise
<1>1. Init => PathPromised!PromiseInit
  BY DEF Init, VTUInit, PathPromised!PromiseInit
<1> QED BY <1>1, CasterInit, CasterStep, PromiseStep, PTL DEF Spec, PathPromised!Promise

-----------------------------------------------------------------------------
(* The reference: walks of the software model.                             *)

\* What the reference's walk is.
LEMMA MockWalkStep ==
    ASSUME NEW r
    PROVE  /\ MockWalk(r)[0] = MockRay(r)
           /\ \A n \in 0 .. MaxSteps - 1 : MockWalk(r)[n + 1] = MockStep(MockWalk(r)[n])
<1> DEFINE w == MockWalk(r)
<1>1. MaxSteps \in Nat BY VTUAssumption
<1>2. w = [n \in 0 .. MaxSteps |-> IF n = 0 THEN MockRay(r) ELSE MockStep(w[n - 1])]
      BY <1>1, MockExists, Zenon DEF MockWalk
<1> HIDE DEF w
<1>3. w[0] = MockRay(r) BY <1>1, <1>2
<1>4. ASSUME NEW n \in 0 .. MaxSteps - 1 PROVE w[n + 1] = MockStep(w[n])
  <2>1. PICK k \in 0 .. MaxSteps : k = n + 1 BY <1>1
  <2>2. k # 0 /\ k - 1 = n BY <2>1
  <2>3. w[k] = IF k = 0 THEN MockRay(r) ELSE MockStep(w[k - 1]) BY <1>2, Zenon
  <2> QED BY <2>1, <2>2, <2>3
<1> QED BY <1>3, <1>4 DEF w

\* The two widths of the unit in numbers.
LEMMA SignedFacts ==
    /\ \A x \in Int : Signed(x, B) = ((x + 524288) % 1048576) - 524288
    /\ \A x \in Int : Signed(x, B - D) = ((x + 2048) % 4096) - 2048
<1>1. 2 ^ (B - 1) = 524288 /\ 2 ^ B = 1048576
  <2>1. B - 1 = 19 /\ B = 20 BY DEF B
  <2>2. 2 ^ 19 = 524288 /\ 2 ^ 20 = 1048576 BY SMT
  <2> QED BY <2>1, <2>2, SMT
<1>2. 2 ^ (12 - 1) = 2048 /\ 2 ^ 12 = 4096 BY SMT
<1>3. ASSUME NEW x \in Int PROVE Signed(x, B) = ((x + 524288) % 1048576) - 524288
  <2>1. Signed(x, B) = ((x + 2 ^ (B - 1)) % 2 ^ B) - 2 ^ (B - 1) BY Zenon DEF Signed
  <2> QED BY <1>1, <2>1, SMT
<1>4. ASSUME NEW x \in Int PROVE Signed(x, B - D) = ((x + 2048) % 4096) - 2048
  <2>1. Signed(x, 12) = ((x + 2 ^ (12 - 1)) % 2 ^ 12) - 2 ^ (12 - 1) BY Zenon DEF Signed
  <2>2. Signed(x, B - D) = Signed(x, 12) BY Widths
  <2> QED BY <1>2, <2>1, <2>2, SMT
<1> QED BY <1>3, <1>4, SMT

\* Cutting a position to twelve bits and then to the coordinate's is cutting it
\* to the coordinate's.
LEMMA CutTwice ==
    \A x \in Int : Signed(Signed(x, B - D), CoordBits) = Signed(x, CoordBits)
<1> SUFFICES ASSUME NEW x \in Int
             PROVE  Signed(Signed(x, B - D), CoordBits) = Signed(x, CoordBits)
    OBVIOUS
<1>1. PICK y \in Int : y = Signed(x, B - D) BY SignedFacts
<1>2. y = ((x + 2048) % 4096) - 2048 BY <1>1, SignedFacts
<1>3. /\ 2 ^ 1 = 2 /\ 2 ^ 2 = 4 /\ 2 ^ 3 = 8 /\ 2 ^ 4 = 16 /\ 2 ^ 5 = 32 /\ 2 ^ 6 = 64
      /\ 2 ^ 7 = 128 /\ 2 ^ 8 = 256 /\ 2 ^ 9 = 512 /\ 2 ^ 10 = 1024 /\ 2 ^ 11 = 2048
      /\ 2 ^ 12 = 4096
      OBVIOUS
<1>4. Signed(y, CoordBits) = Signed(x, CoordBits)
  <2>2. CASE CoordBits = 2 BY <1>2, <1>3, <2>2 DEF Signed
  <2>3. CASE CoordBits = 3 BY <1>2, <1>3, <2>3 DEF Signed
  <2>4. CASE CoordBits = 4 BY <1>2, <1>3, <2>4 DEF Signed
  <2>5. CASE CoordBits = 5 BY <1>2, <1>3, <2>5 DEF Signed
  <2>6. CASE CoordBits = 6 BY <1>2, <1>3, <2>6 DEF Signed
  <2>7. CASE CoordBits = 7 BY <1>2, <1>3, <2>7 DEF Signed
  <2>8. CASE CoordBits = 8 BY <1>2, <1>3, <2>8 DEF Signed
  <2>9. CASE CoordBits = 9 BY <1>2, <1>3, <2>9 DEF Signed
  <2>10. CASE CoordBits = 10 BY <1>2, <1>3, <2>10 DEF Signed
  <2>11. CASE CoordBits = 11 BY <1>2, <1>3, <2>11 DEF Signed
  <2>12. CASE CoordBits = 12 BY <1>2, <1>3, <2>12 DEF Signed
  <2> QED BY <2>2, <2>3, <2>4, <2>5, <2>6, <2>7, <2>8, <2>9, <2>10, <2>11, <2>12, Widths
<1> QED BY <1>1, <1>4

\* A position inside the chunk is its own address.
LEMMA InChunkStays == \A p : InChunk(p) => BlockPosOf(p) = p
<1> SUFFICES ASSUME NEW p \in BlockPositions PROVE BlockPosOf(p) = p BY DEF InChunk
<1>1. PICK h \in Nat \ {0} : h = 2 ^ (CoordBits - 1) /\ 2 ^ CoordBits = 2 * h BY Widths
<1>2. \A a, m \in Nat : a < m => a % m = a OBVIOUS
<1>3. \A x \in Coord : Signed(x, CoordBits) = x
  <2> SUFFICES ASSUME NEW x \in Coord PROVE Signed(x, CoordBits) = x OBVIOUS
  <2>1. x \in -h .. h - 1 BY <1>1 DEF Coord
  <2>2. x + h \in Nat /\ 2 * h \in Nat /\ x + h < 2 * h BY <2>1
  <2>3. (x + h) % (2 * h) = x + h BY <1>2, <2>2
  <2> QED BY <1>1, <2>1, <2>3 DEF Signed
<1> QED BY <1>3 DEF BlockPosOf, BlockPositions

\* The range of a fixed in numbers.
LEMMA FixedIsInt == \A x \in fixed : x \in Int /\ -524288 <= x /\ x <= 524287
<1>1. 2 ^ (B - 1) = 524288
  <2>1. B - 1 = 19 BY DEF B
  <2>2. 2 ^ 19 = 524288 BY SMT
  <2> QED BY <2>1, <2>2, SMT
<1>2. PICK h : h = 2 ^ (B - 1) OBVIOUS
<1>3. h \in Int /\ h = 524288 BY <1>1, <1>2, SMT
<1>4. fixed = -h .. h - 1 BY <1>2, Zenon DEF fixed, FIXED_MAX
<1>5. h \in Int BY <1>3
<1>6. \A x \in fixed : x \in Int /\ -h <= x /\ x <= h - 1 BY ONLY <1>4, <1>5, SMT
<1> QED BY <1>3, <1>6, SMT

\* The corner of the voxel of a fixed needs no more bits than the fixed.
LEMMA CornerIsExact == \A o \in fixed : Signed((o \div 256) * 256, B) = (o \div 256) * 256
<1> SUFFICES ASSUME NEW o \in fixed PROVE Signed((o \div 256) * 256, B) = (o \div 256) * 256
    OBVIOUS
<1>1. o \in Int /\ -524288 <= o /\ o <= 524287 BY FixedIsInt, SMT
<1>2. PICK c \in Int : c = (o \div 256) * 256 BY <1>1, SMT
<1>3. -524288 <= c /\ c <= 524287 BY <1>1, <1>2, SMT
<1>4. Signed(c, B) = ((c + 524288) % 1048576) - 524288 BY SignedFacts, SMT
<1>5. Signed(c, B) = c BY <1>3, <1>4, SMT
<1> QED BY <1>2, <1>5, SMT

\* The unit prepares a ray as the reference does, where SameStart says so.
LEMMA SameRayStart ==
    ASSUME NEW r \in [origin : vec3, direction : vec3], SameStart(r)
    PROVE  PathRay(r) = MockRay(r)
<1> DEFINE dir == vnormalize(r.direction)
           pos == vfloor(r.origin)
           step == [i \in Axes |-> IF dir[i] > 0 THEN 1 ELSE -1]
           t_delta == [i \in Axes |-> fabs(recip(dir[i]))]
           offset == [i \in Axes |-> fsub(r.origin[i], pos[i] * 2 ^ D)]
           dist == [i \in Axes |-> IF step[i] > 0 THEN fsub(FIXED_1, offset[i]) ELSE offset[i]]
<1>1. MockRay(r) = [pos |-> pos, step |-> step, t_delta |-> t_delta, last |-> "none",
                    t_max |-> [i \in Axes |-> IF dir[i] = 0 THEN FIXED_MAX
                                              ELSE fmul(t_delta[i], dist[i])]]
      BY Zenon DEF MockRay
<1>2. step = [i \in Axes |-> IF r.direction[i] > 0 THEN 1 ELSE -1]
  <2> HIDE DEF dir
  <2> QED BY DEF SameStart, dir
<1>3. \A i \in Axes : dist[i] = PathDistance(r)[i]
  <2> SUFFICES ASSUME NEW i \in Axes PROVE dist[i] = PathDistance(r)[i] OBVIOUS
  <2>1. PICK o \in fixed : o = r.origin[i] BY DEF vec3
  <2>2. o \in Int BY <2>1, FixedIsInt, SMT
  <2>3. 2 ^ D = 256 BY DEF D
  <2>4. PICK p \in Int : p = pos[i] /\ p = o \div 256 BY <2>1, <2>2, <2>3 DEF vfloor
  <2>5. step[i] > 0 <=> r.direction[i] > 0 BY <1>2
  <2>6. PathDistance(r)[i] = IF r.direction[i] > 0
                             THEN fsub(FIXED_1, fadd(o, Signed(p * 256, B)))
                             ELSE fsub(o, Signed(p * 256, B))
        BY <2>1, <2>3, <2>4 DEF PathDistance
  <2>7. dist[i] = IF step[i] > 0 THEN fsub(FIXED_1, fsub(o, p * 256)) ELSE fsub(o, p * 256)
        BY <2>1, <2>3, <2>4
  <2>8. r.direction[i] > 0 => p = 0 BY <2>4 DEF SameStart
  <2>9. p = 0 => fadd(o, p * 256) = fsub(o, p * 256)
    <3>1. p = 0 => o + p * 256 = o - p * 256 BY <2>2
    <3> QED BY <3>1 DEF fadd, fsub
  <2>10. Signed(p * 256, B) = p * 256 BY <2>4, CornerIsExact
  <2> HIDE DEF step, dist
  <2> QED BY <2>5, <2>6, <2>7, <2>8, <2>9, <2>10
<1>4. PathRay(r) =
        [pos |-> pos, step |-> [i \in Axes |-> IF r.direction[i] > 0 THEN 1 ELSE -1],
         t_delta |-> t_delta, last |-> "none",
         t_max |-> [i \in Axes |-> IF dir[i] = 0 THEN FIXED_MAX
                                   ELSE fmul(t_delta[i], PathDistance(r)[i])]]
      BY Zenon DEF PathRay
<1> HIDE DEF dir, pos, step, t_delta, dist
<1> QED BY <1>1, <1>2, <1>3, <1>4

\* The two walks are in the same voxel, but for the bits a position keeps.
Alike(m, k) ==
    /\ k.pos \in [Axes -> Int]
    /\ m.pos = [i \in Axes |-> Signed(k.pos[i], B - D)]
    /\ k.step \in [Axes -> {-1, 1}]
    /\ m.step = k.step /\ m.t_delta = k.t_delta
    /\ m.last = k.last /\ m.t_max = k.t_max

\* The walks start alike.
LEMMA AlikeAtFirst ==
    ASSUME NEW r \in [origin : vec3, direction : vec3], SameStart(r)
    PROVE  Alike(PathRay(r), MockRay(r))
<1>1. PathRay(r) = MockRay(r) BY SameRayStart
<1>2. /\ PathRay(r).pos = vfloor(r.origin)
      /\ PathRay(r).step = [i \in Axes |-> IF r.direction[i] > 0 THEN 1 ELSE -1]
      BY DEF PathRay
<1>3. vfloor(r.origin) \in [Axes -> Int] BY FloorIsInt
<1>4. vfloor(r.origin) = [i \in Axes |-> Signed(vfloor(r.origin)[i], B - D)]
  <2>1. ASSUME NEW i \in Axes PROVE Signed(vfloor(r.origin)[i], B - D) = vfloor(r.origin)[i]
    <3>1. PICK o \in fixed : o = r.origin[i] BY <2>1 DEF vec3
    <3>2. o \in Int /\ -524288 <= o /\ o <= 524287 BY <3>1, FixedIsInt, SMT
    <3>3. 2 ^ D = 256 BY DEF D
    <3>4. PICK p \in Int : p = vfloor(r.origin)[i] /\ p = o \div 256
          BY <2>1, <3>1, <3>2, <3>3, SMT DEF vfloor
    <3>5. -2048 <= p /\ p <= 2047 BY <3>2, <3>4, SMT
    <3>6. Signed(p, B - D) = ((p + 2048) % 4096) - 2048 BY SignedFacts, SMT
    <3> QED BY <3>4, <3>5, <3>6, SMT
  <2> QED BY <1>3, <2>1
<1>5. [i \in Axes |-> IF r.direction[i] > 0 THEN 1 ELSE -1] \in [Axes -> {-1, 1}] OBVIOUS
<1> QED BY <1>1, <1>2, <1>3, <1>4, <1>5 DEF Alike

\* The walks stay alike over a step.
LEMMA AlikeAfterStep ==
    ASSUME NEW m, NEW k, Alike(m, k) PROVE Alike(PathStep(m), MockStep(k))
<1>1. PICK i \in Axes : i = NextAxis(k.t_max) BY DEF NextAxis, Axes
<1>2. PathStep(m) = [pos |-> [m.pos EXCEPT ![i] = Signed(@ + m.step[i], B - D)],
                     step |-> m.step, t_delta |-> m.t_delta, last |-> i,
                     t_max |-> [m.t_max EXCEPT ![i] = fadd(@, m.t_delta[i])]]
      BY <1>1 DEF PathStep, Alike
<1>3. MockStep(k) = [pos |-> [k.pos EXCEPT ![i] = @ + k.step[i]],
                     step |-> k.step, t_delta |-> k.t_delta, last |-> i,
                     t_max |-> [k.t_max EXCEPT ![i] = fadd(@, k.t_delta[i])]]
      BY <1>1 DEF MockStep
<1> DEFINE p == [k.pos EXCEPT ![i] = @ + k.step[i]]
           q == [m.pos EXCEPT ![i] = Signed(@ + m.step[i], B - D)]
<1>4. p \in [Axes -> Int] BY DEF Alike
<1>5. q = [j \in Axes |-> Signed(p[j], B - D)]
  <2>1. PICK s \in {-1, 1} : s = k.step[i] /\ s = m.step[i] BY DEF Alike
  <2>2. PICK x \in Int : x = k.pos[i] /\ m.pos[i] = Signed(x, B - D) BY DEF Alike
  <2>3. Signed(Signed(x, B - D) + s, B - D) = Signed(x + s, B - D)
    <3>1. PICK y \in Int : y = Signed(x, B - D) BY SignedFacts
    <3>2. y = ((x + 2048) % 4096) - 2048 BY <3>1, SignedFacts
    <3>3. /\ Signed(y + s, B - D) = ((y + s + 2048) % 4096) - 2048
          /\ Signed(x + s, B - D) = ((x + s + 2048) % 4096) - 2048
          BY SignedFacts
    <3>4. ((y + s + 2048) % 4096) = ((x + s + 2048) % 4096) BY <3>2
    <3> QED BY <3>1, <3>3, <3>4
  <2>4. q[i] = Signed(p[i], B - D) BY <2>1, <2>2, <2>3 DEF Alike
  <2>5. \A j \in Axes : j # i => q[j] = Signed(p[j], B - D) BY DEF Alike
  <2>6. q = [j \in Axes |-> q[j]] BY DEF Alike
  <2> HIDE DEF p, q
  <2> QED BY <2>4, <2>5, <2>6
<1> HIDE DEF p, q
<1>6. /\ PathStep(m).pos = q /\ PathStep(m).step = m.step /\ PathStep(m).t_delta = m.t_delta
      /\ PathStep(m).last = i /\ PathStep(m).t_max = [m.t_max EXCEPT ![i] = fadd(@, m.t_delta[i])]
      BY <1>2 DEF q
<1>7. /\ MockStep(k).pos = p /\ MockStep(k).step = k.step /\ MockStep(k).t_delta = k.t_delta
      /\ MockStep(k).last = i /\ MockStep(k).t_max = [k.t_max EXCEPT ![i] = fadd(@, k.t_delta[i])]
      BY <1>3 DEF p
<1> QED BY <1>4, <1>5, <1>6, <1>7 DEF Alike

\* The walks are alike in every voxel.
LEMMA WalksAlike ==
    ASSUME NEW r \in [origin : vec3, direction : vec3], SameStart(r)
    PROVE  \A n \in 0 .. MaxSteps : Alike(PathWalk(r)[n], MockWalk(r)[n])
<1> DEFINE apart == {n \in 0 .. MaxSteps : ~Alike(PathWalk(r)[n], MockWalk(r)[n])}
<1> SUFFICES ASSUME apart # {} PROVE FALSE OBVIOUS
<1>1. MaxSteps \in Nat BY VTUAssumption
<1>2. apart \in SUBSET Nat BY <1>1
<1>3. PICK n \in apart : \A k \in apart : n <= k
  <2> HIDE DEF apart
  <2> QED BY <1>2, Least
<1>4. n # 0
  <2>1. Alike(PathWalk(r)[0], MockWalk(r)[0])
        BY AlikeAtFirst, PathWalkStep, MockWalkStep
  <2> QED BY <2>1
<1>5. PICK k \in 0 .. MaxSteps - 1 : n = k + 1
  <2>1. n - 1 \in 0 .. MaxSteps - 1 /\ n = (n - 1) + 1 BY <1>1, <1>4
  <2> QED BY <2>1
<1>6. k \notin apart
  <2>1. ~(n <= k) BY <1>5
  <2> QED BY <1>3, <2>1
<1>7. Alike(PathWalk(r)[k], MockWalk(r)[k]) BY <1>1, <1>5, <1>6
<1>8. Alike(PathStep(PathWalk(r)[k]), MockStep(MockWalk(r)[k])) BY <1>7, AlikeAfterStep
<1>9. k \in 0 .. MaxSteps BY <1>1, <1>5
<1>10. PathWalk(r)[k + 1] = PathStep(PathWalk(r)[k]) /\ MockWalk(r)[k + 1] = MockStep(MockWalk(r)[k])
       BY <1>9, PathWalkStep, MockWalkStep
<1> QED BY <1>5, <1>8, <1>10

\* The walks meet the same blocks, and agree about the normal.
LEMMA SameVoxel ==
    ASSUME NEW m, NEW k, Alike(m, k)
    PROVE  /\ BlockPosOf(m.pos) = BlockPosOf(k.pos)
           /\ [i \in Axes |-> IF i = m.last THEN fneg(m.step[i] * 2^D) ELSE 0]
              = [i \in Axes |-> IF i = k.last THEN -k.step[i] * 2^D ELSE 0]
<1>1. ASSUME NEW i \in Axes
      PROVE  Signed(m.pos[i], CoordBits) = Signed(k.pos[i], CoordBits)
  <2>1. k.pos[i] \in Int /\ m.pos[i] = Signed(k.pos[i], B - D) BY DEF Alike
  <2> QED BY <2>1, CutTwice
<1>2. ASSUME NEW i \in Axes PROVE fneg(m.step[i] * 2^D) = -k.step[i] * 2^D
  <2>1. PICK s \in {-1, 1} : s = k.step[i] /\ s = m.step[i] BY DEF Alike
  <2>2. 2 ^ D = 256 BY DEF D
  <2>3. fneg(s * 256) = -s * 256
    <3>1. PICK v \in Int : v = -(s * 256) /\ -s * 256 = v BY SMT
    <3>2. v = 256 \/ v = 0 - 256 BY <3>1, SMT
    <3>3. Signed(v, B) = ((v + 524288) % 1048576) - 524288 BY SignedFacts, SMT
    <3>4. Signed(v, B) = v BY <3>2, <3>3, SMT
    <3> QED BY <3>1, <3>4 DEF fneg
  <2> QED BY <2>1, <2>2, <2>3
<1> QED BY <1>1, <1>2 DEF BlockPosOf, Alike

-----------------------------------------------------------------------------
(* The unit is the reference.                                              *)

\* The reference's cast ends where it leaves the chunk or meets a block.
LEMMA MockCastAt ==
    ASSUME NEW r, NEW n \in 0 .. MaxSteps,
           ~InChunk(MockWalk(r)[n].pos) \/ Rom(MockWalk(r)[n].pos) # Air,
           \A k \in 0 .. n - 1 : InChunk(MockWalk(r)[k].pos) /\ Rom(MockWalk(r)[k].pos) = Air
    PROVE  MockCast(r) =
             LET end == MockWalk(r)[n]
             IN  IF ~InChunk(end.pos) THEN [block |-> Air, norm |-> vzero]
                 ELSE [block |-> Rom(end.pos),
                       norm |-> [i \in Axes |-> IF i = end.last THEN -end.step[i] * 2^D ELSE 0]]
<1> DEFINE stops == {k \in 0 .. MaxSteps :
                       ~InChunk(MockWalk(r)[k].pos) \/ Rom(MockWalk(r)[k].pos) # Air}
           first == CHOOSE f \in stops : \A k \in stops : f <= k
           answer(end) ==
             [block |-> Rom(end.pos),
              norm |-> [i \in Axes |-> IF i = end.last THEN -end.step[i] * 2^D ELSE 0]]
<1>1. n \in stops OBVIOUS
<1>2. \A k \in stops : n <= k
  <2> SUFFICES ASSUME NEW k \in stops, k < n PROVE FALSE BY VTUAssumption
  <2>1. k \in 0 .. n - 1 BY VTUAssumption
  <2> QED BY <2>1
<1>3. stops \subseteq Nat BY VTUAssumption
<1>4. first = n
  <2> HIDE DEF stops
  <2>1. \A f \in stops : (\A k \in stops : f <= k) => f = n
    <3> SUFFICES ASSUME NEW f \in stops, \A k \in stops : f <= k PROVE f = n OBVIOUS
    <3>1. f <= n /\ n <= f /\ f \in Nat /\ n \in Nat BY <1>1, <1>2, <1>3
    <3> QED BY <3>1
  <2> QED BY <1>1, <1>2, <2>1
<1>5. stops # {} BY <1>1
<1>6. MockCast(r) = IF stops = {} \/ ~InChunk(MockWalk(r)[first].pos)
                    THEN [block |-> Air, norm |-> vzero]
                    ELSE answer(MockWalk(r)[first])
      BY Zenon DEF MockCast
<1> HIDE DEF stops, first, answer
<1>7. MockCast(r) = IF ~InChunk(MockWalk(r)[n].pos) THEN [block |-> Air, norm |-> vzero]
                    ELSE answer(MockWalk(r)[n])
      BY <1>4, <1>5, <1>6
<1> QED BY <1>7, Zenon DEF answer

\* The reference's cast of a ray that meets nothing inside the chunk.
LEMMA MockCastOfNothing ==
    ASSUME NEW r, \A n \in 0 .. MaxSteps : InChunk(MockWalk(r)[n].pos) /\ Rom(MockWalk(r)[n].pos) = Air
    PROVE  MockCast(r) = [block |-> Air, norm |-> vzero]
<1>1. {n \in 0 .. MaxSteps : ~InChunk(MockWalk(r)[n].pos) \/ Rom(MockWalk(r)[n].pos) # Air} = {}
      OBVIOUS
<1> QED BY <1>1, Zenon DEF MockCast

\* The unit's cast is the reference's.
LEMMA CastIsMock ==
    ASSUME NEW r \in [origin : vec3, direction : vec3], Comparable(r)
    PROVE  PathCast(r) = MockCast(r)
<1> DEFINE w == MockWalk(r)
           stop(n) == ~InChunk(w[n].pos) \/ Rom(w[n].pos) # Air
           solid(n) == Rom(BlockPosOf(w[n].pos)) # Air
<1>1. MaxSteps \in Nat BY VTUAssumption
<1>2. \A n \in 0 .. MaxSteps : Alike(PathWalk(r)[n], w[n]) BY WalksAlike DEF Comparable
<1>3. \A n \in 0 .. MaxSteps : Solid(r, n) <=> solid(n)
  <2> SUFFICES ASSUME NEW n \in 0 .. MaxSteps PROVE Solid(r, n) <=> solid(n) OBVIOUS
  <2>1. BlockPosOf(PathWalk(r)[n].pos) = BlockPosOf(w[n].pos) BY <1>2, SameVoxel
  <2> QED BY <2>1 DEF Solid
<1>4. \A n : InChunk(w[n].pos) => (stop(n) <=> solid(n)) BY InChunkStays
<1>5. \A n \in 0 .. MaxSteps : \A gone \in 0 .. n :
         ~InChunk(w[gone].pos) /\ solid(n) => \E k \in 0 .. gone - 1 : solid(k)
      BY Zenon DEF Comparable, NothingBeyondTheEdge
<1> HIDE DEF w, solid
<1>6. CASE \A n \in 0 .. MaxSteps : ~stop(n)
  <2>1. MockCast(r) = [block |-> Air, norm |-> vzero] BY <1>6, MockCastOfNothing DEF w
  <2>2. \A n \in 0 .. MaxSteps : ~Solid(r, n) BY <1>3, <1>4, <1>6
  <2> QED BY <2>1, <2>2, CastOfNothing
<1>7. CASE \E n \in 0 .. MaxSteps : stop(n)
  <2> DEFINE stops == {n \in 0 .. MaxSteps : stop(n)}
  <2>1. stops \in SUBSET Nat /\ stops # {} BY <1>1, <1>7
  <2>2. PICK n \in stops : \A k \in stops : n <= k
    <3> HIDE DEF stops
    <3> QED BY <2>1, Least
  <2>3. n \in 0 .. MaxSteps /\ stop(n) OBVIOUS
  <2>4. \A k \in 0 .. n - 1 : k \in 0 .. MaxSteps /\ ~stop(k)
    <3> SUFFICES ASSUME NEW k \in 0 .. n - 1 PROVE k \in 0 .. MaxSteps /\ ~stop(k) OBVIOUS
    <3>1. k \in 0 .. MaxSteps /\ ~(n <= k) BY <1>1, <2>3
    <3>2. k \notin stops BY <2>2, <3>1
    <3> QED BY <3>1, <3>2
  <2>5. \A k \in 0 .. n - 1 : ~Solid(r, k) BY <1>3, <1>4, <2>4
  <2>6. MockCast(r) = IF ~InChunk(w[n].pos) THEN [block |-> Air, norm |-> vzero]
                      ELSE [block |-> Rom(w[n].pos),
                            norm |-> [i \in Axes |-> IF i = w[n].last THEN -w[n].step[i] * 2^D ELSE 0]]
    <3>1. ~InChunk(MockWalk(r)[n].pos) \/ Rom(MockWalk(r)[n].pos) # Air BY <2>3 DEF w
    <3>2. \A k \in 0 .. n - 1 : InChunk(MockWalk(r)[k].pos) /\ Rom(MockWalk(r)[k].pos) = Air
          BY <2>4 DEF w
    <3> QED BY <2>3, <3>1, <3>2, MockCastAt DEF w
  <2>7. CASE InChunk(w[n].pos)
    <3>1. Solid(r, n) BY <1>3, <1>4, <2>3, <2>7
    <3>2. PathCast(r) = [block |-> Rom(BlockPosOf(PathWalk(r)[n].pos)),
                         norm |-> [i \in Axes |-> IF i = PathWalk(r)[n].last
                                     THEN fneg(PathWalk(r)[n].step[i] * 2^D) ELSE 0]]
          BY <2>3, <2>5, <3>1, CastAtFirst
    <3>3. /\ BlockPosOf(PathWalk(r)[n].pos) = BlockPosOf(w[n].pos)
          /\ [i \in Axes |-> IF i = PathWalk(r)[n].last
                             THEN fneg(PathWalk(r)[n].step[i] * 2^D) ELSE 0]
             = [i \in Axes |-> IF i = w[n].last THEN -w[n].step[i] * 2^D ELSE 0]
          BY <1>2, <2>3, SameVoxel
    <3>4. BlockPosOf(w[n].pos) = w[n].pos BY <2>7, InChunkStays
    <3> QED BY <2>6, <2>7, <3>2, <3>3, <3>4
  <2>8. CASE ~InChunk(w[n].pos)
    <3>1. \A k \in 0 .. MaxSteps : ~Solid(r, k)
      <4> SUFFICES ASSUME NEW k \in 0 .. MaxSteps, Solid(r, k) PROVE FALSE OBVIOUS
      <4>1. CASE k < n
        <5>1. k \in 0 .. n - 1 BY <4>1, <2>3
        <5> QED BY <2>5, <5>1
      <4>2. CASE ~(k < n)
        <5>1. n \in 0 .. k BY <4>2, <2>3, <1>1
        <5>2. PICK j \in 0 .. n - 1 : solid(j) BY <1>3, <1>5, <2>8, <5>1
        <5>3. Solid(r, j) BY <1>3, <2>4, <5>2
        <5> QED BY <2>5, <5>3
      <4> QED BY <4>1, <4>2
    <3>2. PathCast(r) = [block |-> Air, norm |-> vzero] BY <3>1, CastOfNothing
    <3> QED BY <2>6, <2>8, <3>2
  <2> QED BY <2>7, <2>8
<1> QED BY <1>6, <1>7

\* The ray on the pins is one of the driver's.
RayChosen == CurrentRay \in Rays

\* The driver chooses its rays from Rays.
LEMMA RayStaysChosen ==
    /\ Init => RayChosen
    /\ RayChosen /\ [Next]_castervars => RayChosen'
<1>1. ASSUME NEW r \in Rays PROVE [origin |-> r.origin, direction |-> r.direction] = r
  BY RaysAssumption
<1>2. Init => RayChosen BY <1>1 DEF Init, RayChosen, CurrentRay
<1>3. ASSUME RayChosen, Assign PROVE RayChosen'
  BY <1>1, <1>3 DEF Assign, Put, RayChosen, CurrentRay
<1>4. ASSUME RayChosen, UNCHANGED pins PROVE RayChosen'
  BY <1>4, SameRay DEF RayChosen
<1> QED BY <1>2, <1>3, <1>4 DEF Next, Wait, castervars

\* The answer shown, before the next ray is handed out.
LEMMA AnswerIsPath ==
    CasterInv => (hit_valid /\ ~rst /\ ~rst_in =>
                    [block |-> hit, norm |-> hit_norm] = PathCast(CurrentRay))
<1> SUFFICES ASSUME CasterInv, hit_valid, ~rst, ~rst_in PROVE ShowsCast
    BY DEF ShowsCast
<1>1. state = "IDLE" BY DEF CasterInv, Control, Preparing, Walking, Nothing
<1> QED BY <1>1 DEF CasterInv, Data

\* vtu.sv against mock_cast of vtu.rs: for rays on which the two can agree, the
\* answer shown is the reference's, after any sequence of casts and resets.
THEOREM CastIsTheReference ==
    ASSUME \A r \in Rays : Comparable(r) PROVE Spec => []CastMatchesReference
<1>1. CasterInv /\ RayChosen => CastMatchesReference
  BY AnswerIsPath, CastIsMock, RaysAssumption DEF CastMatchesReference, RayChosen
<1> QED BY <1>1, CasterInit, CasterStep, RayStaysChosen, PTL DEF Spec

\* Steps of the one promise are steps of the other.
LEMMA ReferencePromiseStep ==
    ASSUME \A r \in Rays : Comparable(r)
    PROVE  RayChosen /\ [PathPromised!Start \/ PathPromised!Tick]_(PathPromised!promisevars)
             => [Promised!Start \/ Promised!Tick]_(Promised!promisevars)
<1>1. RayChosen => PathCast(CurrentRay) = MockCast(CurrentRay)
  BY CastIsMock, RaysAssumption DEF RayChosen
<1> QED BY <1>1 DEF PathPromised!Start, PathPromised!Tick, PathPromised!Work,
      PathPromised!Deliver, PathPromised!Hold, PathPromised!Older, PathPromised!promisevars,
      Promised!Start, Promised!Tick, Promised!Work, Promised!Deliver, Promised!Hold,
      Promised!Older, Promised!promisevars

\* vtu.sv and chunk.sv, whole: for those rays the unit keeps its promise with
\* the reference for an answer.
THEOREM CasterKeepsPromise ==
    ASSUME \A r \in Rays : Comparable(r) PROVE Spec => KeepsPromise
<1>1. Init => Promised!PromiseInit
  BY DEF Init, VTUInit, Promised!PromiseInit
<1> QED BY <1>1, CasterInit, CasterStep, PromiseStep, RayStaysChosen, ReferencePromiseStep, PTL
      DEF Spec, KeepsPromise, Promised!Promise

=============================================================================
