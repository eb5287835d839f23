------------------------------- MODULE L2System -------------------------------
(***************************************************************************)
(* The cache of L2Cache between its readers and an L3 memory.  The readers *)
(* follow query_l2_cache of hw/src/sim/test_l2_cache.py: put an address on *)
(* the port, let one edge pass, then wait for valid at every edge.  The    *)
(* memory is hw/src/hdl/chunk.sv, "a ROM version of the L3 cache", which   *)
(* answers for the address on its port now; the test's mock_l3_cache,      *)
(* which answers for the address it latched, is left out.                  *)
(***************************************************************************)
EXTENDS L2Cache

CONSTANTS
    Rom(_),             \* what L3 holds
    MaxResets           \* bound: resets in a behaviour

ASSUME SystemAssumption ==
    /\ \A a \in Addr : Rom(a) \in Block
    /\ MaxResets \in Nat

VARIABLES
    clk_in,                                 \* parity of the edges so far
    addr, phase,                            \* per port, the reader
    quiet,                                  \* edges until the readers start
    resets,                                 \* resets so far
    addr_pipe, ram_data, rom_out, l3_out, edges_since_reset     \* the chunk

chunkvars == <<addr_pipe, ram_data, rom_out, l3_out, edges_since_reset>>
readervars == <<addr, phase, quiet, resets>>
vars == <<clk_in, l2vars, readervars, chunkvars>>

Chunk == INSTANCE Chunk WITH
    RomBase <- Air, Oob <- LAMBDA a : FALSE,
    addr <- l3_addr, read_enable <- l3_read_enable, out <- l3_out

\* Phases of a reader: not reading, the edge the port samples the address, and
\* the edges it looks at valid.
Phases == {"idle", "settling", "waiting"}

-----------------------------------------------------------------------------
(* The pins between the cache, the readers and the memory.                 *)

read_enable == [p \in Ports |-> phase[p] # "idle"]

l3_valid == Chunk!Valid(l3_addr, l3_read_enable)

\* A port whose answer its reader takes at the next edge.
Answered(p) == phase[p] = "waiting" /\ valid[p]

-----------------------------------------------------------------------------
\* The mutant looks at valid at the edge the port samples the address.
MutReaderDoesNotSettle(p, next_addr, next_phase) ==
    \/ /\ phase[p] = "idle" \/ Answered(p)
       /\ \/ next_phase = "idle" /\ next_addr = addr[p]
          \/ next_phase = "waiting" /\ next_addr \in Addr /\ quiet = 0
    \/ /\ phase[p] = "waiting" /\ ~valid[p]
       /\ next_phase = "waiting" /\ next_addr = addr[p]

\* Between edges a reader that has its answer, or has no query, may start one.
ReaderStep(p, next_addr, next_phase) ==
    \/ /\ phase[p] = "idle" \/ Answered(p)
       /\ \/ next_phase = "idle" /\ next_addr = addr[p]
          \/ next_phase = "settling" /\ next_addr \in Addr /\ quiet = 0
    \/ /\ phase[p] = "settling" \/ (phase[p] = "waiting" /\ ~valid[p])
       /\ next_phase = "waiting" /\ next_addr = addr[p]

Readers ==
    /\ addr' \in [Ports -> Addr]
    /\ phase' \in [Ports -> Phases]
    /\ \A p \in Ports : ReaderStep(p, addr'[p], phase'[p])
    /\ quiet' = IF quiet > 0 THEN quiet - 1 ELSE 0
    /\ UNCHANGED resets

-----------------------------------------------------------------------------
SystemInit ==
    /\ Init
    /\ clk_in = FALSE
    /\ addr = [p \in Ports |-> ZeroPos] /\ phase = [p \in Ports |-> "idle"]
    /\ quiet = 3 /\ resets = 0
    /\ Chunk!ChunkInit

Fill == /\ l3_valid /\ l3_read_enable
        /\ FillEdge(addr, read_enable, l3_out)
        /\ Readers
        /\ Chunk!ChunkEdge
        /\ clk_in' = ~clk_in

Look == /\ ~(l3_valid /\ l3_read_enable)
        /\ LookupEdge(addr, read_enable)
        /\ Readers
        /\ Chunk!ChunkEdge
        /\ clk_in' = ~clk_in

\* Reset reaches the cache and the chunk; the test's readers start afresh three
\* edges after it.
SystemReset ==
    /\ resets < MaxResets
    /\ resets' = resets + 1
    /\ Reset
    /\ phase' = [p \in Ports |-> "idle"] /\ quiet' = 3
    /\ Chunk!ChunkReset
    /\ clk_in' = ~clk_in
    /\ UNCHANGED addr

SystemNext == Fill \/ Look \/ SystemReset

\* The clock ticks, also when nothing but clk_in changes: no reader is forced to
\* start a query because the cache hangs.
SystemSpec == SystemInit /\ [][SystemNext]_vars /\ WF_vars(SystemNext)

-----------------------------------------------------------------------------
\* A reader that is told valid is given the block at the address it asked for,
\* whatever the other readers did to the request on its way to L3 and however
\* often the entry was replaced ("Did it read correctly?").
ReadsCorrect == \A p \in Ports : Answered(p) => out[p] = Rom(addr[p])

\* Every cached block is the one L3 holds at its tag.
CacheMatchesMemory == \A e \in Slots : occupied[e] => entries[e] = Rom(tags[e])

\* The port the arbitration prefers is always answered.
PreferredPortServed ==
    LET p == NumPorts - 1
    IN  phase[p] = "waiting" ~> (phase[p] # "waiting" \/ valid[p])

=============================================================================
