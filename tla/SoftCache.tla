------------------------------ MODULE SoftCache ------------------------------
(***************************************************************************)
(* The caches of the software model: L2Cache of sw/src/cache/l2.rs and the *)
(* L3Cache behind it, of sw/src/cache/l3.rs, each with its rising_clk_edge.*)
(* Unlike the hardware's, this L2 fills before it looks up, serves the     *)
(* lowest port first, and drops its request to L3 as soon as nothing       *)
(* misses.                                                                 *)
(***************************************************************************)
EXTENDS Integers, FiniteSets

CONSTANTS
    NumVTU,     \* ports of the L2, one per traversal unit
    CacheSize,  \* NUM_L2_ENTRIES
    Addr,       \* voxel positions
    Block,      \* the values of Block
    Air,        \* Block::Air
    Origin,     \* Vec3i::default()
    Query(_)    \* MockCache::query, air outside the chunk

ASSUME SoftCacheAssumption ==
    /\ NumVTU \in Nat \ {0} /\ CacheSize \in Nat \ {0}
    /\ Air \in Block /\ Origin \in Addr
    /\ \A a \in Addr : Query(a) \in Block

VARIABLES
    addr_in, read_enable_in,            \* per port, the query
    voxel_out, valid_out,               \* per port, the answer
    entries, next_replacement,
    l3_addr_in, l3_read_enable_in,      \* the query to L3
    l3_voxel_out, l3_valid_out          \* its answer

queries == <<addr_in, read_enable_in>>
answers == <<voxel_out, valid_out>>
l3in == <<l3_addr_in, l3_read_enable_in>>
l3out == <<l3_voxel_out, l3_valid_out>>
cachevars == <<queries, answers, entries, next_replacement, l3in, l3out>>

VTUs == 0 .. NumVTU - 1
Slots == 0 .. CacheSize - 1

-----------------------------------------------------------------------------
\* The smallest of a set of ports or entries: what iter().find() finds.
First(S) == CHOOSE x \in S : \A y \in S : x <= y

Holding(es, a) == {e \in Slots : es[e] # <<>> /\ es[e][1].key = a}

CacheInit ==
    /\ addr_in = [v \in VTUs |-> Origin] /\ read_enable_in = [v \in VTUs |-> FALSE]
    /\ voxel_out = [v \in VTUs |-> Air] /\ valid_out = [v \in VTUs |-> FALSE]
    /\ entries = [e \in Slots |-> <<>>] /\ next_replacement = 0
    /\ l3_addr_in = Origin /\ l3_read_enable_in = FALSE
    /\ l3_voxel_out = Air /\ l3_valid_out = FALSE

L2Reset ==
    /\ voxel_out' = [v \in VTUs |-> Air] /\ valid_out' = [v \in VTUs |-> FALSE]
    /\ entries' = [e \in Slots |-> <<>>] /\ next_replacement' = 0
    /\ UNCHANGED <<queries, l3in, l3out>>

\* The pointer after the fill of an edge, and the entries.
NextReplacement ==
    IF l3_valid_out THEN (next_replacement + 1) % CacheSize ELSE next_replacement

AfterFill ==
    IF l3_valid_out
    THEN [entries EXCEPT ![next_replacement] =
             <<[key |-> l3_addr_in, value |-> l3_voxel_out]>>]
    ELSE entries

Hits(es) == {v \in VTUs : read_enable_in[v] /\ Holding(es, addr_in[v]) # {}}

\* The mutant leaves valid_out as it was on a miss.
MutAnswer(es) ==
    /\ valid_out' = [v \in VTUs |-> v \in Hits(es) \/ (read_enable_in[v] /\ valid_out[v])]
    /\ voxel_out' = [v \in VTUs |-> IF v \in Hits(es)
                                    THEN es[First(Holding(es, addr_in[v]))][1].value
                                    ELSE voxel_out[v]]

Answer(es) ==
    /\ valid_out' = [v \in VTUs |-> v \in Hits(es)]
    /\ voxel_out' = [v \in VTUs |-> IF v \in Hits(es)
                                    THEN es[First(Holding(es, addr_in[v]))][1].value
                                    ELSE voxel_out[v]]

\* Ask L3 for what the lowest missing port wants, or for nothing.
Arbitrate(missing) ==
    IF missing = {}
    THEN l3_read_enable_in' = FALSE /\ UNCHANGED l3_addr_in
    ELSE l3_read_enable_in' = TRUE /\ l3_addr_in' = addr_in[First(missing)]

L2Edge ==
    LET reading == {v \in VTUs : read_enable_in[v]}
    IN  /\ entries' = AfterFill
        /\ next_replacement' = NextReplacement
        /\ Answer(AfterFill)
        /\ Arbitrate(reading \ Hits(AfterFill))
        /\ UNCHANGED <<queries, l3out>>

\* The mutant keeps its last answer valid while it is not asked.
MutL3Edge ==
    /\ l3_valid_out' = (l3_valid_out \/ l3_read_enable_in)
    /\ l3_voxel_out' = IF l3_read_enable_in THEN Query(l3_addr_in) ELSE l3_voxel_out
    /\ UNCHANGED <<queries, answers, entries, next_replacement, l3in>>

\* L3 answers in one edge and holds the answer only while it is asked.
L3Edge ==
    /\ l3_valid_out' = l3_read_enable_in
    /\ l3_voxel_out' = IF l3_read_enable_in THEN Query(l3_addr_in) ELSE l3_voxel_out
    /\ UNCHANGED <<queries, answers, entries, next_replacement, l3in>>

L3Reset ==
    /\ l3_voxel_out' = Air /\ l3_valid_out' = FALSE
    /\ UNCHANGED <<queries, answers, entries, next_replacement, l3in>>

=============================================================================
