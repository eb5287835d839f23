------------------------------- MODULE L2Cache -------------------------------
(***************************************************************************)
(* The fully associative, FIFO-replaced voxel cache of                     *)
(* hw/src/hdl/l2_cache.sv.  NumPorts readers look addresses up in parallel;*)
(* one miss at a time is forwarded to the L3 memory.                       *)
(*                                                                         *)
(* Every step is one rising edge of clk_in.  The inputs the edge samples   *)
(* (addr, read_enable, l3_valid, l3_out) are parameters of the step and    *)
(* unconstrained here: what is stated in this module holds whatever the    *)
(* readers and the L3 memory do.                                           *)
(***************************************************************************)
EXTENDS Integers, FiniteSets, Sequences

CONSTANTS
    NumPorts,   \* PORTS
    CacheSize,  \* CACHE_SIZE
    Addr,       \* the values of BlockPos
    Block,      \* the values of BlockType
    ZeroPos,    \* BlockPos'(0)
    Air         \* BlockType'(0)

ASSUME L2Assumption ==
    /\ NumPorts \in Nat \ {0}
    /\ CacheSize \in Nat \ {0}
    /\ ZeroPos \in Addr
    /\ Air \in Block

VARIABLES
    tags,               \* address held by each entry
    entries,            \* block held by each entry
    occupied,           \* does the entry hold anything?
    next_replacement,   \* entry the next fill overwrites
    l3_addr,            \* address requested from L3
    l3_read_enable,     \* is there a request to L3?
    out,                \* per port, the block looked up
    valid,              \* per port, was the last look-up a hit?
    filled              \* history: the last CacheSize addresses filled since
                        \* reset, the oldest fill first

l2vars == <<tags, entries, occupied, next_replacement,
            l3_addr, l3_read_enable, out, valid, filled>>

Ports == 0 .. NumPorts - 1
Slots == 0 .. CacheSize - 1

TypeOK ==
    /\ tags \in [Slots -> Addr]
    /\ entries \in [Slots -> Block]
    /\ occupied \in [Slots -> BOOLEAN]
    /\ next_replacement \in Slots
    /\ l3_addr \in Addr
    /\ l3_read_enable \in BOOLEAN
    /\ out \in [Ports -> Block]
    /\ valid \in [Ports -> BOOLEAN]
    /\ filled \in Seq(Addr) /\ Len(filled) <= CacheSize

-----------------------------------------------------------------------------
(* Combinational helpers.                                                  *)

Lookup(a) == {e \in Slots : occupied[e] /\ tags[e] = a}

Misses(a) == Lookup(a) = {}

\* The last of the assignments a for-loop makes is the one that takes effect.
Last(S) == CHOOSE x \in S : \A y \in S : y <= x

MissingPorts(addr, read_enable) ==
    {p \in Ports : read_enable[p] /\ Misses(addr[p])}

-----------------------------------------------------------------------------
Init ==
    /\ tags = [e \in Slots |-> ZeroPos]
    /\ entries = [e \in Slots |-> Air]
    /\ occupied = [e \in Slots |-> FALSE]
    /\ next_replacement = 0
    /\ l3_addr = ZeroPos
    /\ l3_read_enable = FALSE
    /\ out = [p \in Ports |-> Air]
    /\ valid = [p \in Ports |-> FALSE]
    /\ filled = <<>>

\* What an edge with rst_in high clears, the replacement pointer apart.
Empty ==
    /\ tags' = [e \in Slots |-> ZeroPos]
    /\ entries' = [e \in Slots |-> Air]
    /\ occupied' = [e \in Slots |-> FALSE]
    /\ l3_addr' = ZeroPos
    /\ l3_read_enable' = FALSE
    /\ out' = [p \in Ports |-> Air]
    /\ valid' = [p \in Ports |-> FALSE]

Reset == Empty /\ next_replacement' = 0 /\ filled' = <<>>

\* Every port that reads is answered from the entries before this edge.
AnswerPorts(addr, read_enable) ==
    LET hit(p) == read_enable[p] /\ ~Misses(addr[p])
    IN  /\ valid' = [p \in Ports |-> hit(p)]
        /\ out' = [p \in Ports |->
                     IF hit(p) THEN entries[Last(Lookup(addr[p]))] ELSE out[p]]

\* Static priority arbitration: the highest-numbered missing port wins, even
\* over a request that is already on its way to L3.
ForwardMiss(addr, read_enable) ==
    LET missing == MissingPorts(addr, read_enable)
    IN  l3_addr' = IF missing = {} THEN l3_addr ELSE addr[Last(missing)]

\* What every edge does that is not a reset.
LookUp(addr, read_enable) ==
    AnswerPorts(addr, read_enable) /\ ForwardMiss(addr, read_enable)

\* The mutant never asks L3.
MutRequests(addr, read_enable) == FALSE

\* A miss is requested, and a request stays until it is answered.
Requests(addr, read_enable) ==
    l3_read_enable \/ MissingPorts(addr, read_enable) # {}

\* An edge that finds no answer from L3 to take (l3_valid low, or nothing
\* requested).
LookupEdge(addr, read_enable) ==
    /\ LookUp(addr, read_enable)
    /\ l3_read_enable' = Requests(addr, read_enable)
    /\ UNCHANGED <<tags, entries, occupied, next_replacement, filled>>

\* The mutant wraps one entry too early.
MutNextReplacement ==
    IF next_replacement >= CacheSize - 2 THEN 0 ELSE next_replacement + 1

NextReplacement ==
    IF next_replacement = CacheSize - 1 THEN 0 ELSE next_replacement + 1

\* L3's answer goes into the entry next_replacement points at, tagged with the
\* address now requested.
StoreAnswer(l3_out) ==
    /\ tags' = [tags EXCEPT ![next_replacement] = l3_addr]
    /\ entries' = [entries EXCEPT ![next_replacement] = l3_out]
    /\ occupied' = [occupied EXCEPT ![next_replacement] = TRUE]
    /\ next_replacement' = NextReplacement

\* The history of fills forgets the oldest once it has CacheSize of them.
RecordFill ==
    filled' = Append(IF Len(filled) < CacheSize THEN filled ELSE Tail(filled), l3_addr)

\* The mutant serves a miss of the same edge at once.
MutFillEdge(addr, read_enable, l3_out) ==
    /\ l3_read_enable
    /\ LookUp(addr, read_enable) /\ StoreAnswer(l3_out) /\ RecordFill
    /\ l3_read_enable' = (MissingPorts(addr, read_enable) # {})

\* An edge that takes L3's answer; l3_read_enable goes low for a cycle even if
\* a port misses at this edge.
FillEdge(addr, read_enable, l3_out) ==
    /\ l3_read_enable
    /\ LookUp(addr, read_enable) /\ StoreAnswer(l3_out) /\ RecordFill
    /\ l3_read_enable' = FALSE

Next ==
    \/ Reset
    \/ \E addr \in [Ports -> Addr], read_enable \in [Ports -> BOOLEAN] :
          \/ LookupEdge(addr, read_enable)
          \/ \E l3_out \in Block : FillEdge(addr, read_enable, l3_out)

Spec == Init /\ [][Next]_l2vars

-----------------------------------------------------------------------------
(* What the cache promises, whatever its environment does.                 *)

\* An address is cached at most once (the assertion the software model makes
\* on every fill).  A second copy would let a port read whichever entry the
\* look-up loop assigns last and would waste an entry.
NoDuplicates ==
    \A e, f \in Slots :
        occupied[e] /\ occupied[f] /\ tags[e] = tags[f] => e = f

\* What is being asked of L3 is not in the cache already, although ports keep
\* missing, hitting and redirecting the request while L3 is thinking.
PendingIsMissing == l3_read_enable => Misses(l3_addr)

\* While an entry is still free no cached block is thrown away: the occupied
\* entries are those below next_replacement until the cache is full.
FreeFirst ==
    (\E e \in Slots : ~occupied[e]) =>
        \A e \in Slots : occupied[e] <=> e < next_replacement

Cached == {a \in Addr : ~Misses(a)}

\* The blocks held for an address.
Held(a) == {entries[e] : e \in Lookup(a)}

\* First in, first out: an edge that is not a reset keeps every cached address
\* with its block, but for the one whose fill is the oldest of the last
\* CacheSize.  A replacement pointer that sticks, skips an entry or wraps at the
\* wrong one throws away a block that was filled later.
OnlyOldestEvicted ==
    [][ \A a \in Cached :
          \/ a \in Cached' /\ Held(a)' = Held(a)
          \/ Cached' = {}
          \/ Len(filled) = CacheSize /\ a = Head(filled) ]_l2vars

=============================================================================
