---------------------------- MODULE L2CacheProofs ----------------------------
(***************************************************************************)
(* Proofs about L2Cache and L2System for every number of ports, entries,   *)
(* addresses and blocks.  L2Inv is inductive for the cache, whatever its   *)
(* environment does: NoDuplicates alone is not, because a fill duplicates  *)
(* an address exactly when the pending request is cached already, which    *)
(* PendingIsMissing excludes.  FillOrder finds the history of fills in the *)
(* entries: that is what makes the replaced one the oldest.                *)
(*                                                                         *)
(* Between its readers and the chunk the cache is right about the contents *)
(* too (SystemInv): a fill happens only once three edges have passed since *)
(* the reset, when an answer of the chunk is the word at the address now   *)
(* requested, so that every entry matches the memory, and a port that is   *)
(* told valid was answered from such an entry at the edge that sampled the *)
(* address its reader still holds.                                         *)
(***************************************************************************)
EXTENDS L2System, WellFoundedInduction, TLAPS

Full == \A e \in Slots : occupied[e]

\* The entry of the i-th oldest fill, once the cache is full.
SlotOf(i) ==
    IF next_replacement + i - 1 < CacheSize
    THEN next_replacement + i - 1
    ELSE next_replacement + i - 1 - CacheSize

\* Where the history of fills is to be found among the entries.
FillOrder ==
    /\ ~Full => /\ Len(filled) = next_replacement
                /\ \A i \in 1 .. Len(filled) : filled[i] = tags[i - 1]
    /\ Full => /\ Len(filled) = CacheSize
               /\ \A i \in 1 .. CacheSize : filled[i] = tags[SlotOf(i)]

L2Inv == TypeOK /\ NoDuplicates /\ PendingIsMissing /\ FreeFirst /\ FillOrder

(* Every non-empty set of iterations of a loop has a last one: the port the *)
(* arbitration picks and the entry a look-up reads are well defined.        *)
LEMMA LastIsMember ==
    ASSUME NEW n \in Nat, NEW S \in SUBSET (0 .. n - 1), S # {}
    PROVE  /\ Last(S) \in S
           /\ \A x \in S : x <= Last(S)
<1> DEFINE Bounds == {b \in Nat : \A x \in S : x <= b}
           Below  == OpToRel(<, Nat)
<1>1. n - 1 \in Bounds
    <2>1. PICK x \in S : x \in 0 .. n - 1
        OBVIOUS
    <2>2. n - 1 \in Nat
        BY <2>1
    <2>3. \A y \in S : y <= n - 1
        OBVIOUS
    <2> QED BY <2>2, <2>3
<1>2. PICK b \in Bounds : \A c \in Bounds : ~ (<<c, b>> \in Below)
    <2>1. Bounds \subseteq Nat /\ Bounds # {}
        BY <1>1
    <2> HIDE DEF Bounds, Below
    <2>2. IsWellFoundedOn(Below, Nat)
        BY NatLessThanWellFounded DEF Below
    <2> QED BY <2>1, <2>2, WFMin
<1>3. \A c \in Bounds : ~(c < b)
    BY <1>2 DEF OpToRel
<1>4. b \in S
    <2>1. SUFFICES ASSUME b \notin S PROVE FALSE
        OBVIOUS
    <2>2. \A x \in S : x \in Nat /\ x <= b - 1
        BY <2>1
    <2>3. PICK x \in S : x \in 0 .. n - 1
        OBVIOUS
    <2>4. b - 1 \in Nat
        BY <2>2, <2>3
    <2>5. b - 1 \in Bounds
        BY <2>2, <2>4
    <2> QED BY <2>5, <1>3
<1>5. \A x \in S : x <= b
    OBVIOUS
<1> QED BY <1>4, <1>5 DEF Last

(* The block a port is answered with on a hit is one of the cache's.        *)
LEMMA AnswerType ==
    ASSUME TypeOK, NEW addrs \in [Ports -> Addr],
           NEW enables \in [Ports -> BOOLEAN], AnswerPorts(addrs, enables)
    PROVE  out' \in [Ports -> Block] /\ valid' \in [Ports -> BOOLEAN]
<1>1. CacheSize \in Nat
    BY L2Assumption
<1>2. \A p \in Ports : ~Misses(addrs[p]) => Last(Lookup(addrs[p])) \in Slots
    <2> TAKE p \in Ports
    <2> HAVE ~Misses(addrs[p])
    <2>1. Lookup(addrs[p]) \in SUBSET (0 .. CacheSize - 1) /\ Lookup(addrs[p]) # {}
        BY DEF Lookup, Misses, Slots
    <2> QED BY <2>1, <1>1, LastIsMember DEF Slots
<1> QED BY <1>2 DEF AnswerPorts, TypeOK

(* The address an edge leaves in l3_addr, and whether a miss put it there.  *)
LEMMA ForwardedAddress ==
    ASSUME TypeOK, NEW addrs \in [Ports -> Addr],
           NEW enables \in [Ports -> BOOLEAN], ForwardMiss(addrs, enables)
    PROVE  /\ l3_addr' \in Addr
           /\ MissingPorts(addrs, enables) = {} => l3_addr' = l3_addr
           /\ MissingPorts(addrs, enables) # {} => Misses(l3_addr')
<1>1. CASE MissingPorts(addrs, enables) = {}
    BY <1>1 DEF ForwardMiss, TypeOK
<1>2. CASE MissingPorts(addrs, enables) # {}
    <2> DEFINE M == MissingPorts(addrs, enables)
    <2>1. NumPorts \in Nat /\ M \in SUBSET (0 .. NumPorts - 1)
        BY L2Assumption DEF MissingPorts, Ports
    <2>2. Last(M) \in M
        BY <1>2, <2>1, LastIsMember
    <2>3. Last(M) \in Ports /\ Misses(addrs[Last(M)])
        BY <2>2 DEF MissingPorts
    <2>4. l3_addr' = addrs[Last(M)]
        BY <1>2 DEF ForwardMiss
    <2>5. Lookup(l3_addr') = Lookup(addrs[Last(M)])
        BY <2>4
    <2> QED BY <1>2, <2>3, <2>4
<1> QED BY <1>1, <1>2

(* An empty cache satisfies the invariant, at power-up and after a reset.   *)
LEMMA InitInv == Init => L2Inv
<1> SUFFICES ASSUME Init PROVE L2Inv
    OBVIOUS
<1>1. 0 \in Slots
    BY L2Assumption DEF Slots
<1>2. TypeOK
    <2>1. filled \in Seq(Addr) /\ Len(filled) <= CacheSize
        BY L2Assumption DEF Init
    <2>2. /\ tags \in [Slots -> Addr] /\ entries \in [Slots -> Block]
          /\ occupied \in [Slots -> BOOLEAN] /\ next_replacement \in Slots
          /\ l3_addr \in Addr /\ l3_read_enable \in BOOLEAN
          /\ out \in [Ports -> Block] /\ valid \in [Ports -> BOOLEAN]
        BY <1>1, L2Assumption DEF Init
    <2> QED BY <2>1, <2>2 DEF TypeOK
<1>3. NoDuplicates /\ PendingIsMissing
    BY DEF Init, NoDuplicates, PendingIsMissing
<1>4. FreeFirst
    BY L2Assumption DEF Init, FreeFirst, Slots
<1>5. FillOrder
    BY <1>1 DEF Init, FillOrder, Full
<1> QED BY <1>2, <1>3, <1>4, <1>5 DEF L2Inv

(* A reset forgets every entry and every request.                           *)
LEMMA ResetInv == Reset => L2Inv'
<1> SUFFICES ASSUME Reset PROVE L2Inv'
    OBVIOUS
<1>1. 0 \in Slots
    BY L2Assumption DEF Slots
<1>2. TypeOK'
    <2>1. filled' \in Seq(Addr) /\ Len(filled') <= CacheSize
        BY L2Assumption DEF Reset
    <2>2. /\ tags' \in [Slots -> Addr] /\ entries' \in [Slots -> Block]
          /\ occupied' \in [Slots -> BOOLEAN] /\ next_replacement' \in Slots
          /\ l3_addr' \in Addr /\ l3_read_enable' \in BOOLEAN
          /\ out' \in [Ports -> Block] /\ valid' \in [Ports -> BOOLEAN]
        BY <1>1, L2Assumption DEF Reset, Empty
    <2> QED BY <2>1, <2>2 DEF TypeOK
<1>3. NoDuplicates' /\ PendingIsMissing'
    BY DEF Reset, Empty, NoDuplicates, PendingIsMissing
<1>4. FreeFirst'
    BY L2Assumption DEF Reset, Empty, FreeFirst, Slots
<1>5. FillOrder'
    BY <1>1 DEF Reset, Empty, FillOrder, Full
<1> QED BY <1>2, <1>3, <1>4, <1>5 DEF L2Inv

(* An edge without a fill leaves the entries alone, so a request can only   *)
(* become a request for an address that misses.                             *)
LEMMA LookupEdgeInv ==
    ASSUME L2Inv, NEW addrs \in [Ports -> Addr],
           NEW enables \in [Ports -> BOOLEAN], LookupEdge(addrs, enables)
    PROVE  L2Inv'
<1> USE DEF LookupEdge, LookUp, Requests
<1>1. TypeOK'
    <2>1. out' \in [Ports -> Block] /\ valid' \in [Ports -> BOOLEAN]
        BY AnswerType DEF L2Inv
    <2>2. l3_addr' \in Addr
        BY ForwardedAddress DEF L2Inv
    <2>3. l3_read_enable' \in BOOLEAN
        OBVIOUS
    <2> QED BY <2>1, <2>2, <2>3 DEF L2Inv, TypeOK
<1>2. NoDuplicates'
    BY DEF L2Inv, NoDuplicates
<1>3. PendingIsMissing'
    <2>1. Misses(l3_addr)' <=> {e \in Slots : occupied[e] /\ tags[e] = l3_addr'} = {}
        BY DEF Misses, Lookup
    <2>2. CASE MissingPorts(addrs, enables) = {}
        BY <2>1, <2>2, ForwardedAddress DEF L2Inv, PendingIsMissing, Misses, Lookup
    <2>3. CASE MissingPorts(addrs, enables) # {}
        BY <2>1, <2>3, ForwardedAddress DEF L2Inv, PendingIsMissing, Misses, Lookup
    <2> QED BY <2>2, <2>3
<1>4. FreeFirst'
    BY DEF L2Inv, FreeFirst
<1>5. FillOrder'
    BY DEF L2Inv, FillOrder, Full, SlotOf
<1> QED BY <1>1, <1>2, <1>3, <1>4, <1>5 DEF L2Inv

(* A fill into the first free entry appends to the history; once every entry *)
(* is taken it overwrites the entry of the oldest fill and moves every other *)
(* one a place up.                                                           *)
LEMMA FillKeepsOrder ==
    ASSUME L2Inv, NEW answer \in Block, StoreAnswer(answer), RecordFill
    PROVE  FillOrder' /\ filled' \in Seq(Addr) /\ Len(filled') <= CacheSize
<1> DEFINE np == next_replacement
<1>1. /\ CacheSize \in Nat \ {0} /\ np \in Nat /\ np < CacheSize /\ np \in Slots
      /\ filled \in Seq(Addr) /\ Len(filled) <= CacheSize /\ l3_addr \in Addr
      /\ tags \in [Slots -> Addr] /\ occupied \in [Slots -> BOOLEAN]
      /\ FreeFirst /\ FillOrder
    BY L2Assumption DEF L2Inv, TypeOK, Slots
<1>2. /\ tags' = [tags EXCEPT ![np] = l3_addr]
      /\ occupied' = [occupied EXCEPT ![np] = TRUE]
      /\ next_replacement' = IF np = CacheSize - 1 THEN 0 ELSE np + 1
    BY DEF StoreAnswer, NextReplacement
<1>3. CASE ~Full
    <2>1. Len(filled) = np /\ \A i \in 1 .. np : filled[i] = tags[i - 1]
        BY <1>1, <1>3 DEF FillOrder
    <2>2. \A e \in Slots : occupied[e] <=> e < np
        BY <1>1, <1>3 DEF FreeFirst, Full
    <2>3. filled' = Append(filled, l3_addr)
        BY <1>1, <2>1 DEF RecordFill
    <2>4. filled' \in Seq(Addr) /\ Len(filled') = np + 1
        BY <1>1, <2>1, <2>3
    <2>5. \A i \in 1 .. np + 1 : filled'[i] = tags'[i - 1]
        <3> TAKE i \in 1 .. np + 1
        <3>1. i - 1 \in Slots
            BY <1>1 DEF Slots
        <3>2. CASE i = np + 1
            BY <3>1, <3>2, <1>1, <1>2, <2>1, <2>3
        <3>3. CASE i # np + 1
            BY <3>1, <3>3, <1>1, <1>2, <2>1, <2>3
        <3> QED BY <3>2, <3>3
    <2>6. CASE np = CacheSize - 1
        <3>1. \A e \in Slots : occupied'[e]
            BY <1>1, <1>2, <2>2, <2>6 DEF Slots
        <3>2. \A i \in 1 .. CacheSize : SlotOf(i)' = i - 1
            BY <1>1, <1>2, <2>6 DEF SlotOf
        <3> QED BY <1>1, <2>4, <2>5, <2>6, <3>1, <3>2 DEF FillOrder, Full
    <2>7. CASE np # CacheSize - 1
        <3>1. np + 1 \in Slots /\ ~occupied'[np + 1]
            BY <1>1, <1>2, <2>2, <2>7 DEF Slots
        <3> QED BY <1>1, <1>2, <2>4, <2>5, <2>7, <3>1 DEF FillOrder, Full
    <2> QED BY <2>6, <2>7
<1>4. CASE Full
    <2>1. Len(filled) = CacheSize /\ \A i \in 1 .. CacheSize : filled[i] = tags[SlotOf(i)]
        BY <1>1, <1>4 DEF FillOrder
    <2>2. filled' = Append(Tail(filled), l3_addr)
        BY <2>1, <1>1 DEF RecordFill
    <2>3. /\ filled' \in Seq(Addr) /\ Len(filled') = CacheSize
          /\ \A i \in 1 .. CacheSize - 1 : filled'[i] = filled[i + 1]
          /\ filled'[CacheSize] = l3_addr
        BY <1>1, <2>1, <2>2
    <2>4. \A e \in Slots : occupied'[e]
        BY <1>1, <1>2, <1>4 DEF Full
    <2>5. \A i \in 1 .. CacheSize - 1 :
             SlotOf(i)' = SlotOf(i + 1) /\ SlotOf(i + 1) \in Slots /\ SlotOf(i + 1) # np
        BY <1>1, <1>2 DEF SlotOf, Slots
    <2>6. SlotOf(CacheSize)' = np
        BY <1>1, <1>2 DEF SlotOf
    <2>7. \A i \in 1 .. CacheSize : filled'[i] = tags'[SlotOf(i)']
        <3> TAKE i \in 1 .. CacheSize
        <3>1. CASE i = CacheSize
            BY <3>1, <1>1, <1>2, <2>3, <2>6
        <3>2. CASE i # CacheSize
            <4>1. i \in 1 .. CacheSize - 1 /\ i + 1 \in 1 .. CacheSize
                BY <1>1, <3>2
            <4>2. filled'[i] = tags[SlotOf(i + 1)]
                BY <4>1, <2>1, <2>3
            <4>3. tags'[SlotOf(i + 1)] = tags[SlotOf(i + 1)]
                BY <4>1, <1>1, <1>2, <2>5
            <4> QED BY <4>1, <4>2, <4>3, <2>5
        <3> QED BY <3>1, <3>2
    <2> QED BY <1>1, <2>3, <2>4, <2>7 DEF FillOrder, Full
<1> QED BY <1>3, <1>4

(* A fill stores an address that was in no entry, in the first free entry   *)
(* or over the oldest one, and withdraws the request.                       *)
LEMMA FillEdgeInv ==
    ASSUME L2Inv, NEW addrs \in [Ports -> Addr],
           NEW enables \in [Ports -> BOOLEAN], NEW answer \in Block,
           FillEdge(addrs, enables, answer)
    PROVE  L2Inv'
<1> USE DEF FillEdge, LookUp, StoreAnswer, NextReplacement
<1>1. next_replacement \in Slots /\ CacheSize \in Nat \ {0}
    BY L2Assumption DEF L2Inv, TypeOK
<1>2. FillOrder' /\ filled' \in Seq(Addr) /\ Len(filled') <= CacheSize
    BY FillKeepsOrder
<1>3. TypeOK'
    <2>1. out' \in [Ports -> Block] /\ valid' \in [Ports -> BOOLEAN]
        BY AnswerType DEF L2Inv
    <2>2. l3_addr' \in Addr
        BY ForwardedAddress DEF L2Inv
    <2>3. next_replacement' \in Slots
        BY <1>1 DEF Slots
    <2>4. tags' \in [Slots -> Addr] /\ entries' \in [Slots -> Block]
          /\ occupied' \in [Slots -> BOOLEAN]
        BY <1>1 DEF L2Inv, TypeOK
    <2>5. filled' \in Seq(Addr) /\ Len(filled') <= CacheSize
        BY <1>2
    <2> QED BY <2>1, <2>2, <2>3, <2>4, <2>5 DEF L2Inv, TypeOK
<1>4. NoDuplicates'
    <2>1. \A e \in Slots : occupied[e] => tags[e] # l3_addr
        BY DEF L2Inv, PendingIsMissing, Misses, Lookup
    <2> QED BY <2>1, <1>1 DEF L2Inv, TypeOK, NoDuplicates
<1>5. PendingIsMissing'
    BY DEF PendingIsMissing
<1>6. FreeFirst'
    BY <1>1 DEF L2Inv, TypeOK, FreeFirst, Slots
<1> QED BY <1>2, <1>3, <1>4, <1>5, <1>6 DEF L2Inv

(* Every edge keeps the invariant.                                          *)
LEMMA NextInv == L2Inv /\ [Next]_l2vars => L2Inv'
<1> SUFFICES ASSUME L2Inv, [Next]_l2vars
             PROVE  L2Inv'
    OBVIOUS
<1>1. CASE Reset
    BY <1>1, ResetInv
<1>2. ASSUME NEW addrs \in [Ports -> Addr], NEW enables \in [Ports -> BOOLEAN],
             LookupEdge(addrs, enables)
      PROVE  L2Inv'
    BY <1>2, LookupEdgeInv
<1>3. ASSUME NEW addrs \in [Ports -> Addr], NEW enables \in [Ports -> BOOLEAN],
             NEW answer \in Block, FillEdge(addrs, enables, answer)
      PROVE  L2Inv'
    BY <1>3, FillEdgeInv
<1>4. CASE UNCHANGED l2vars
    BY <1>4 DEF l2vars, L2Inv, TypeOK, NoDuplicates, PendingIsMissing,
        FreeFirst, FillOrder, Full, SlotOf, Misses, Lookup
<1> QED BY <1>1, <1>2, <1>3, <1>4 DEF Next

(* The inductive invariant holds of every behaviour of the cache.           *)
THEOREM Invariance == Spec => []L2Inv
<1>1. Init => L2Inv
    BY InitInv
<1>2. L2Inv /\ [Next]_l2vars => L2Inv'
    BY NextInv
<1> QED BY <1>1, <1>2, PTL DEF Spec

(* The registers keep their types: in particular the replacement pointer    *)
(* never leaves the entries, for a CacheSize that is not a power of two.    *)
THEOREM TypeCorrect == Spec => []TypeOK
<1>1. L2Inv => TypeOK
    BY DEF L2Inv
<1> QED BY <1>1, Invariance, PTL

(* No address is ever cached twice, whatever the ports ask and whenever L3  *)
(* answers.                                                                 *)
THEOREM NeverDuplicates == Spec => []NoDuplicates
<1>1. L2Inv => NoDuplicates
    BY DEF L2Inv
<1> QED BY <1>1, Invariance, PTL

(* The cache never asks L3 for an address it holds.                         *)
THEOREM RequestsOnlyMisses == Spec => []PendingIsMissing
<1>1. L2Inv => PendingIsMissing
    BY DEF L2Inv
<1> QED BY <1>1, Invariance, PTL

(* The entries fill in order before any of them is replaced.                *)
THEOREM FillsFreeFirst == Spec => []FreeFirst
<1>1. L2Inv => FreeFirst
    BY DEF L2Inv
<1> QED BY <1>1, Invariance, PTL

(* An address that an edge finds in an entry other than the one a fill       *)
(* overwrites is still cached after it, with the same block.                 *)
LEMMA OtherEntriesKept ==
    ASSUME L2Inv, NEW answer \in Block, StoreAnswer(answer), l3_read_enable,
           NEW a \in Cached, NEW e \in Slots, occupied[e], tags[e] = a,
           e # next_replacement
    PROVE  a \in Cached' /\ Held(a)' = Held(a)
<1>1. /\ tags' = [tags EXCEPT ![next_replacement] = l3_addr]
      /\ entries' = [entries EXCEPT ![next_replacement] = answer]
      /\ occupied' = [occupied EXCEPT ![next_replacement] = TRUE]
    BY DEF StoreAnswer
<1>2. /\ tags \in [Slots -> Addr] /\ entries \in [Slots -> Block]
      /\ occupied \in [Slots -> BOOLEAN] /\ next_replacement \in Slots /\ a \in Addr
    BY DEF L2Inv, TypeOK, Cached
<1>3. a # l3_addr
    BY DEF L2Inv, PendingIsMissing, Cached, Misses
<1>4. Lookup(a) = {e}
    BY <1>2 DEF Lookup, L2Inv, NoDuplicates
<1>5. Lookup(a)' = {e}
    <2>1. \A f \in Slots : occupied'[f] /\ tags'[f] = a <=> f = e
        BY <1>1, <1>2, <1>3 DEF L2Inv, NoDuplicates
    <2> QED BY <2>1 DEF Lookup
<1>6. Held(a) = {entries[e]} /\ Held(a)' = {entries'[e]}
    BY <1>4, <1>5 DEF Held
<1>7. entries'[e] = entries[e]
    BY <1>1, <1>2
<1> QED BY <1>2, <1>5, <1>6, <1>7 DEF Cached, Misses

(* First in, first out: no edge but a reset drops or changes a cached block  *)
(* other than the one whose fill is the oldest of the last CacheSize, for    *)
(* every size, a power of two or not.                                        *)
THEOREM EvictsOnlyOldest == Spec => OnlyOldestEvicted
<1> DEFINE Kept ==
        \A a \in Cached :
            \/ a \in Cached' /\ Held(a)' = Held(a)
            \/ Cached' = {}
            \/ Len(filled) = CacheSize /\ a = Head(filled)
<1>1. L2Inv /\ [Next]_l2vars => [Kept]_l2vars
    <2> SUFFICES ASSUME L2Inv, Next PROVE Kept
        OBVIOUS
    <2>1. CASE Reset
        <3>1. Cached' = {}
            BY <2>1 DEF Reset, Empty, Cached, Misses, Lookup
        <3> QED BY <3>1
    <2>2. ASSUME NEW addrs \in [Ports -> Addr], NEW enables \in [Ports -> BOOLEAN],
                 LookupEdge(addrs, enables)
          PROVE  Kept
        BY <2>2 DEF LookupEdge, Cached, Held, Misses, Lookup
    <2>3. ASSUME NEW addrs \in [Ports -> Addr], NEW enables \in [Ports -> BOOLEAN],
                 NEW answer \in Block, FillEdge(addrs, enables, answer)
          PROVE  Kept
        <3> SUFFICES ASSUME NEW a \in Cached,
                            ~(Len(filled) = CacheSize /\ a = Head(filled))
                     PROVE  a \in Cached' /\ Held(a)' = Held(a)
            OBVIOUS
        <3>1. PICK e \in Slots : occupied[e] /\ tags[e] = a
            BY DEF Cached, Misses, Lookup
        <3>2. e # next_replacement
            <4>1. CASE ~Full
                BY <4>1, <3>1 DEF Full, L2Inv, FreeFirst, Slots
            <4>2. CASE Full
                <5>1. CacheSize \in Nat \ {0} /\ next_replacement \in 0 .. CacheSize - 1
                      /\ filled \in Seq(Addr)
                    BY L2Assumption DEF L2Inv, TypeOK, Slots
                <5>2. SlotOf(1) = next_replacement
                    BY <5>1 DEF SlotOf
                <5>3. Len(filled) = CacheSize /\ Head(filled) = tags[next_replacement]
                    BY <4>2, <5>1, <5>2 DEF L2Inv, FillOrder
                <5> QED BY <5>3, <3>1
            <4> QED BY <4>1, <4>2
        <3> QED BY <2>3, <3>1, <3>2, OtherEntriesKept DEF FillEdge
    <2> QED BY <2>1, <2>2, <2>3 DEF Next
<1>2. Spec => [][Kept]_l2vars
    BY <1>1, Invariance, PTL DEF Spec
<1> QED BY <1>2 DEF OnlyOldestEvicted

-----------------------------------------------------------------------------
(* The cache between its readers and the memory.                            *)

SystemTypeOK ==
    /\ addr \in [Ports -> Addr]
    /\ phase \in [Ports -> Phases]
    /\ quiet \in 0 .. 3
    /\ addr_pipe \in [1 .. 3 -> Addr]
    /\ ram_data \in Block /\ rom_out \in Block /\ l3_out \in Block
    /\ edges_since_reset \in 0 .. 3

\* Each register of data of the chunk holds the word of the address beside it.
MemoryInStep ==
    /\ edges_since_reset >= 1 => ram_data = Rom(addr_pipe[1])
    /\ edges_since_reset >= 2 => rom_out = Rom(addr_pipe[2])
    /\ edges_since_reset = 3 => l3_out = Rom(addr_pipe[3])

\* Nobody asks before the chunk's pipeline holds what it was asked since reset.
QuietAtFirst ==
    /\ quiet + edges_since_reset = 3
    /\ quiet > 0 => l3_read_enable = FALSE /\ \A p \in Ports : phase[p] = "idle"

SystemInv ==
    /\ L2Inv
    /\ SystemTypeOK
    /\ MemoryInStep
    /\ QuietAtFirst
    /\ CacheMatchesMemory
    /\ ReadsCorrect

LEMMA ReadEnableType == read_enable \in [Ports -> BOOLEAN]
BY DEF read_enable

(* The ROM has a block at every address, and none is outside of it.          *)
LEMMA RomWordIs == \A a \in Addr : Chunk!RomWord(a) = Rom(a) /\ Rom(a) \in Block
BY SystemAssumption DEF Chunk!RomWord

LEMMA SystemInitInv == SystemInit => SystemInv
<1> SUFFICES ASSUME SystemInit PROVE SystemInv
    OBVIOUS
<1>1. L2Inv
    BY InitInv DEF SystemInit
<1>2. /\ addr = [p \in Ports |-> ZeroPos] /\ phase = [p \in Ports |-> "idle"]
      /\ quiet = 3 /\ addr_pipe = [i \in 1 .. 3 |-> ZeroPos] /\ ram_data = Air /\ rom_out = Air
      /\ l3_out \in Block /\ edges_since_reset = 0
      /\ l3_read_enable = FALSE /\ occupied = [e \in Slots |-> FALSE]
    BY DEF SystemInit, Init, Chunk!ChunkInit, Chunk!Depth
<1>3. SystemTypeOK
    BY <1>2, L2Assumption DEF SystemTypeOK, Phases
<1>4. MemoryInStep /\ QuietAtFirst
    BY <1>2 DEF MemoryInStep, QuietAtFirst
<1>5. CacheMatchesMemory /\ ReadsCorrect
    BY <1>2 DEF CacheMatchesMemory, ReadsCorrect, Answered
<1> QED BY <1>1, <1>3, <1>4, <1>5 DEF SystemInv

(* A reset starts the quiet edges again.                                     *)
LEMMA SystemResetInv == SystemInv /\ SystemReset => SystemInv'
<1> SUFFICES ASSUME SystemInv, SystemReset PROVE SystemInv'
    OBVIOUS
<1>1. /\ Reset /\ phase' = [p \in Ports |-> "idle"] /\ quiet' = 3 /\ addr' = addr
      /\ addr_pipe' = [i \in 1 .. 3 |-> ZeroPos] /\ ram_data' = Chunk!RomWord(l3_addr)
      /\ rom_out' = Air /\ edges_since_reset' = 0 /\ l3_out' = l3_out
    BY DEF SystemReset, Chunk!ChunkReset, Chunk!Depth
<1>2. l3_read_enable' = FALSE /\ occupied' = [e \in Slots |-> FALSE]
    BY <1>1 DEF Reset, Empty
<1>3. L2Inv'
    BY <1>1, ResetInv
<1>4. SystemTypeOK'
    <2>1. ram_data' \in Block
        BY <1>1, RomWordIs DEF SystemInv, L2Inv, TypeOK
    <2> QED BY <1>1, <2>1, L2Assumption DEF SystemInv, SystemTypeOK, Phases
<1>5. MemoryInStep' /\ QuietAtFirst'
    BY <1>1, <1>2 DEF MemoryInStep, QuietAtFirst
<1>6. CacheMatchesMemory' /\ ReadsCorrect'
    BY <1>1, <1>2 DEF CacheMatchesMemory, ReadsCorrect, Answered
<1> QED BY <1>3, <1>4, <1>5, <1>6 DEF SystemInv

(* The chunk and the readers over an edge, whether it fills or not.          *)
LEMMA ChunkEdgeInv ==
    ASSUME SystemInv, Chunk!ChunkEdge, Readers
    PROVE  SystemTypeOK' /\ MemoryInStep' /\ quiet' + edges_since_reset' = 3
           /\ (quiet > 0 => \A p \in Ports : phase'[p] = "idle")
<1>1. /\ addr_pipe' = [i \in 1 .. 3 |-> IF i = 1 THEN l3_addr ELSE addr_pipe[i - 1]]
      /\ ram_data' = Chunk!RomWord(l3_addr) /\ rom_out' = ram_data /\ l3_out' = rom_out
      /\ edges_since_reset' = IF edges_since_reset < 3 THEN edges_since_reset + 1 ELSE 3
    BY DEF Chunk!ChunkEdge, Chunk!Depth
<1>2. l3_addr \in Addr /\ SystemTypeOK /\ MemoryInStep /\ QuietAtFirst
    BY DEF SystemInv, L2Inv, TypeOK
<1>3. ram_data' = Rom(l3_addr) /\ Rom(l3_addr) \in Block
    BY <1>1, <1>2, RomWordIs
<1>4. /\ addr_pipe'[1] = l3_addr /\ addr_pipe'[2] = addr_pipe[1] /\ addr_pipe'[3] = addr_pipe[2]
      /\ addr_pipe' \in [1 .. 3 -> Addr]
    BY <1>1, <1>2 DEF SystemTypeOK
<1>5. /\ addr' \in [Ports -> Addr] /\ phase' \in [Ports -> Phases]
      /\ quiet' = IF quiet > 0 THEN quiet - 1 ELSE 0
      /\ \A p \in Ports : ReaderStep(p, addr'[p], phase'[p])
    BY DEF Readers
<1>6. edges_since_reset' \in 0 .. 3 /\ quiet' \in 0 .. 3 /\ quiet' + edges_since_reset' = 3
    BY <1>1, <1>2, <1>5 DEF SystemTypeOK, QuietAtFirst
<1>7. SystemTypeOK'
    BY <1>1, <1>2, <1>3, <1>4, <1>5, <1>6 DEF SystemTypeOK
<1>8. MemoryInStep'
    BY <1>1, <1>2, <1>3, <1>4 DEF MemoryInStep, SystemTypeOK
<1>9. quiet > 0 => \A p \in Ports : phase'[p] = "idle"
    BY <1>2, <1>5 DEF QuietAtFirst, ReaderStep, Answered
<1> QED BY <1>6, <1>7, <1>8, <1>9

(* Whatever an edge looks up while the cache matches the memory is right.    *)
LEMMA AnswersRight ==
    ASSUME SystemInv, Readers, LookUp(addr, read_enable)
    PROVE  ReadsCorrect'
<1> SUFFICES ASSUME NEW p \in Ports, phase'[p] = "waiting", valid'[p]
             PROVE  out'[p] = Rom(addr'[p])
    BY DEF ReadsCorrect, Answered
<1>1. addr'[p] = addr[p]
    BY DEF Readers, ReaderStep
<1>2. read_enable[p] /\ ~Misses(addr[p]) /\ out'[p] = entries[Last(Lookup(addr[p]))]
    BY DEF LookUp, AnswerPorts
<1>3. Last(Lookup(addr[p])) \in Lookup(addr[p])
    <2>1. Lookup(addr[p]) \in SUBSET (0 .. CacheSize - 1) /\ Lookup(addr[p]) # {}
        BY <1>2 DEF Lookup, Misses, Slots
    <2> QED BY <2>1, L2Assumption, LastIsMember
<1>4. entries[Last(Lookup(addr[p]))] = Rom(addr[p])
    BY <1>3 DEF SystemInv, CacheMatchesMemory, Lookup
<1> QED BY <1>1, <1>2, <1>4

LEMMA LookInv == SystemInv /\ Look => SystemInv'
<1> SUFFICES ASSUME SystemInv, Look PROVE SystemInv'
    OBVIOUS
<1>1. LookupEdge(addr, read_enable) /\ Readers /\ Chunk!ChunkEdge
    BY DEF Look
<1>2. L2Inv'
    BY <1>1, LookupEdgeInv, ReadEnableType DEF SystemInv, SystemTypeOK
<1>3. SystemTypeOK' /\ MemoryInStep' /\ quiet' + edges_since_reset' = 3
      /\ (quiet > 0 => \A p \in Ports : phase'[p] = "idle")
    BY <1>1, ChunkEdgeInv
<1>4. QuietAtFirst'
    <2>1. quiet' > 0 => quiet > 0
        BY <1>1 DEF Readers, SystemInv, SystemTypeOK
    <2>2. quiet > 0 => l3_read_enable' = FALSE
        <3>1. quiet > 0 => MissingPorts(addr, read_enable) = {}
            BY DEF SystemInv, QuietAtFirst, MissingPorts, read_enable
        <3> QED BY <1>1, <3>1 DEF SystemInv, QuietAtFirst, LookupEdge, Requests
    <2> QED BY <1>3, <2>1, <2>2 DEF QuietAtFirst
<1>5. CacheMatchesMemory'
    BY <1>1 DEF LookupEdge, SystemInv, CacheMatchesMemory
<1>6. ReadsCorrect'
    BY <1>1, AnswersRight DEF LookupEdge
<1> QED BY <1>2, <1>3, <1>4, <1>5, <1>6 DEF SystemInv

(* A fill stores the word of the address it is tagged with.                  *)
LEMMA FillInv == SystemInv /\ Fill => SystemInv'
<1> SUFFICES ASSUME SystemInv, Fill PROVE SystemInv'
    OBVIOUS
<1>1. /\ l3_valid /\ l3_read_enable /\ FillEdge(addr, read_enable, l3_out)
      /\ Readers /\ Chunk!ChunkEdge
    BY DEF Fill
<1>2. L2Inv'
    BY <1>1, FillEdgeInv, ReadEnableType DEF SystemInv, SystemTypeOK
<1>3. SystemTypeOK' /\ MemoryInStep' /\ quiet' + edges_since_reset' = 3
      /\ (quiet > 0 => \A p \in Ports : phase'[p] = "idle")
    BY <1>1, ChunkEdgeInv
<1>4. QuietAtFirst'
    <2>1. quiet' > 0 => quiet > 0
        BY <1>1 DEF Readers, SystemInv, SystemTypeOK
    <2> QED BY <1>1, <1>3, <2>1 DEF QuietAtFirst, FillEdge
<1>5. l3_out = Rom(l3_addr)
    <2>1. quiet = 0
        BY <1>1 DEF SystemInv, SystemTypeOK, QuietAtFirst
    <2>2. edges_since_reset = 3
        BY <2>1 DEF SystemInv, SystemTypeOK, QuietAtFirst
    <2>3. l3_addr = addr_pipe[3]
        BY <1>1 DEF l3_valid, Chunk!Valid
    <2> QED BY <2>2, <2>3 DEF SystemInv, MemoryInStep
<1>6. CacheMatchesMemory'
    <2>1. /\ tags' = [tags EXCEPT ![next_replacement] = l3_addr]
          /\ entries' = [entries EXCEPT ![next_replacement] = l3_out]
          /\ occupied' = [occupied EXCEPT ![next_replacement] = TRUE]
        BY <1>1 DEF FillEdge, StoreAnswer
    <2> QED BY <1>5, <2>1 DEF SystemInv, CacheMatchesMemory, L2Inv, TypeOK
<1>7. ReadsCorrect'
    BY <1>1, AnswersRight DEF FillEdge
<1> QED BY <1>2, <1>3, <1>4, <1>6, <1>7 DEF SystemInv

LEMMA SystemNextInv == SystemInv /\ [SystemNext]_vars => SystemInv'
<1> SUFFICES ASSUME SystemInv, [SystemNext]_vars PROVE SystemInv'
    OBVIOUS
<1>1. CASE SystemNext
    BY <1>1, FillInv, LookInv, SystemResetInv DEF SystemNext
<1>2. CASE UNCHANGED vars
    <2>1. UNCHANGED <<l2vars, readervars, chunkvars>>
        BY <1>2 DEF vars
    <2>2. L2Inv'
        BY <2>1, NextInv DEF SystemInv
    <2> QED BY <2>1, <2>2 DEF l2vars, readervars, chunkvars, SystemInv, SystemTypeOK,
            MemoryInStep, QuietAtFirst, CacheMatchesMemory, ReadsCorrect, Answered
<1> QED BY <1>1, <1>2

LEMMA SystemInvariance == SystemSpec => []SystemInv
BY SystemInitInv, SystemNextInv, PTL DEF SystemSpec

(* Every block the cache holds is the one the memory holds at its tag,       *)
(* although the request may be moved to another address while the memory is *)
(* answering and a reset may find its pipeline full.                         *)
THEOREM CacheIsTheMemory == SystemSpec => []CacheMatchesMemory
<1>1. SystemInv => CacheMatchesMemory
    BY DEF SystemInv
<1> QED BY <1>1, SystemInvariance, PTL

(* query_l2_cache: a reader that is told valid is given the block at the     *)
(* address it asked for, for any number of ports that compete for any number *)
(* of entries.                                                               *)
THEOREM ReadersReadRight == SystemSpec => []ReadsCorrect
<1>1. SystemInv => ReadsCorrect
    BY DEF SystemInv
<1> QED BY <1>1, SystemInvariance, PTL

(* Readers and memory are an environment of the cache like any other: what   *)
(* is proved of L2Cache above holds of the cache in the system.              *)
THEOREM SystemRunsTheCache == SystemSpec => Spec
<1>1. SystemInit => Init
    BY DEF SystemInit
<1>2. SystemInv /\ [SystemNext]_vars => [Next]_l2vars
    <2> SUFFICES ASSUME SystemInv, [SystemNext]_vars PROVE [Next]_l2vars
        OBVIOUS
    <2>1. addr \in [Ports -> Addr] /\ l3_out \in Block
        BY DEF SystemInv, SystemTypeOK
    <2>2. CASE Fill
        <3>1. FillEdge(addr, read_enable, l3_out)
            BY <2>2 DEF Fill
        <3> QED BY <2>1, <3>1, ReadEnableType DEF Next
    <2>3. CASE Look
        <3>1. LookupEdge(addr, read_enable)
            BY <2>3 DEF Look
        <3> QED BY <2>1, <3>1, ReadEnableType DEF Next
    <2>4. CASE SystemReset
        BY <2>4 DEF SystemReset, Next
    <2>5. CASE UNCHANGED vars
        BY <2>5 DEF vars
    <2> QED BY <2>2, <2>3, <2>4, <2>5 DEF SystemNext
<1> QED BY <1>1, <1>2, SystemInvariance, PTL DEF Spec, SystemSpec

=============================================================================
