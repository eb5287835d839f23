-------------------------------- MODULE Chunk --------------------------------
(***************************************************************************)
(* The voxel memory of hw/src/hdl/chunk.sv: a block RAM with an output     *)
(* register (two edges from address to rom_out), one more register for     *)
(* out, and a copy of the last three addresses that tells when out belongs *)
(* to the address now on the port.                                         *)
(*                                                                         *)
(* Every step is one rising edge of clk_in.  addr and read_enable are the  *)
(* input pins: between edges their driver may change them at will.  The    *)
(* module is used with other drivers by INSTANCE, which constrains only    *)
(* chunkvars.                                                              *)
(***************************************************************************)
EXTENDS Integers

CONSTANTS
    Addr,       \* the values of BlockPos
    Block,      \* the values of BlockType
    ZeroPos,    \* BlockPos'(0)
    Air,        \* BlockType'(0), which is BLOCK_AIR
    Rom(_),     \* the word of the block RAM that flat_addr selects for a position
    RomBase,    \* the word at address 0 of the block RAM
    Oob(_)      \* oob: is the position outside the chunk?

\* What the parameters are taken to be by the theorems of RayCasterProofs.
ChunkAssumption ==
    /\ ZeroPos \in Addr
    /\ Air \in Block
    /\ RomBase \in Block
    /\ \A a \in Addr : Rom(a) \in Block /\ Oob(a) \in BOOLEAN

VARIABLES
    addr,               \* input pin
    read_enable,        \* input pin
    addr_pipe,          \* the addresses of the last three edges, newest first
    ram_data,           \* register of the block RAM
    rom_out,            \* output register of the block RAM
    out,                \* output register of the module
    edges_since_reset   \* history: edges since the last reset, up to 3

chunkvars == <<addr_pipe, ram_data, rom_out, out, edges_since_reset>>
vars == <<addr, read_enable, chunkvars>>

Depth == 1 .. 3

TypeOK ==
    /\ addr \in Addr
    /\ read_enable \in BOOLEAN
    /\ addr_pipe \in [Depth -> Addr]
    /\ ram_data \in Block
    /\ rom_out \in Block
    /\ out \in Block
    /\ edges_since_reset \in 0 .. 3

-----------------------------------------------------------------------------
\* What the block RAM is asked for: an address outside is read at 0.
RomWord(a) == IF Oob(a) THEN RomBase ELSE Rom(a)

\* The mutant compares with the wrong stage.
MutValidEarly(a, enable) == enable /\ (Oob(a) \/ a = addr_pipe[2])

\* The combinational valid output.
Valid(a, enable) == enable /\ (Oob(a) \/ a = addr_pipe[3])

-----------------------------------------------------------------------------
\* Power-up: the RAM's registers are zero, out may hold anything.
ChunkInit ==
    /\ addr_pipe = [i \in Depth |-> ZeroPos]
    /\ ram_data = Air
    /\ rom_out = Air
    /\ out \in Block
    /\ edges_since_reset = 0

\* An edge with rst_in high clears addr_pipe and the RAM's output register,
\* and neither out nor the RAM's first register.
ChunkReset ==
    /\ addr_pipe' = [i \in Depth |-> ZeroPos]
    /\ ram_data' = RomWord(addr)
    /\ rom_out' = Air
    /\ edges_since_reset' = 0
    /\ UNCHANGED out

\* An edge with rst_in low.
ChunkEdge ==
    /\ addr_pipe' = [i \in Depth |-> IF i = 1 THEN addr ELSE addr_pipe[i - 1]]
    /\ ram_data' = RomWord(addr)
    /\ rom_out' = ram_data
    /\ out' = IF Oob(addr) THEN Air ELSE rom_out
    /\ edges_since_reset' = IF edges_since_reset < 3 THEN edges_since_reset + 1 ELSE 3

Init ==
    /\ addr \in Addr
    /\ read_enable \in BOOLEAN
    /\ ChunkInit

Next ==
    /\ ChunkReset \/ ChunkEdge
    /\ addr' \in Addr
    /\ read_enable' \in BOOLEAN

Spec == Init /\ [][Next]_vars

-----------------------------------------------------------------------------
\* An answer marked valid is the block at the address on the port now, even if
\* the address changed at every edge before ("assume the inputs are held until
\* valid is high" is not needed), once three edges have passed since reset.
\* Before that, position 0 is answered with whatever the registers held.
ValidMeansCurrent ==
    edges_since_reset = 3 /\ Valid(addr, read_enable) /\ ~Oob(addr) => out = Rom(addr)

=============================================================================
