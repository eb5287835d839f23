-------------------------- MODULE RegionFileProofs ---------------------------
(***************************************************************************)
(* Proofs about RegionFile for every set of chunks, sector size, size of   *)
(* the data and length of the file.  SectorsDisjoint is not inductive: a   *)
(* save publishes a block it was given several writes earlier, so the      *)
(* invariant adds what the allocator knows in between (AllocatorExact),    *)
(* that the block under way is nobody else's (BlockIsOurs) and how far the *)
(* file has grown to hold it (FileCovers).                                 *)
(*                                                                         *)
(* That a region file implements RegionStore needs to know what is in the  *)
(* sectors as well (ContentInv): a block holds nothing of another chunk,   *)
(* no length word points past the end of the file, what starts in the      *)
(* block of a chunk whose last save ended fits in it, and the parts of the *)
(* save under way are where they will be looked for.                       *)
(***************************************************************************)
EXTENDS RegionFile, FiniteSetTheorems, WellFoundedInduction, TLAPS

Phases == {"idle", "length", "data", "padding", "header"}

FileTypeOK ==
    /\ header \in [Chunks -> SectorBlock]
    /\ handle \in [open : BOOLEAN, used_sectors : SUBSET Nat, len : Nat]
    /\ saving \in [at : Phases, chunk : Chunks \cup {Nothing}, data : Data \cup {Nothing},
                   block : SectorBlock, done : Nat]
    /\ saving.at = "idle" => saving = Idle
    /\ saving.at # "idle" => saving.chunk \in Chunks

\* Every block that is in use or about to be, other than the one being replaced.
Others == Existing \ {saving.chunk}

BlockIsOurs ==
    saving.at # "idle" =>
        /\ handle.open
        /\ saving.block.offset >= 2 /\ saving.block.count >= 1
        /\ saving.block.offset + saving.block.count <= handle.len
        /\ \A c \in Others : Span(header[c]) \cap Span(saving.block) = {}

\* n is the length of the file; a block at its end grows it as it is written.
FileCovers(n) ==
    /\ DOMAIN file = 0 .. n - 1
    /\ handle.open => n >= 2 /\ handle.len >= 2
    /\ handle.open => \A c \in Existing : header[c].offset + header[c].count <= handle.len
    /\ \A c \in Existing : header[c].offset >= 2 /\ header[c].offset + header[c].count <= n
    /\ handle.open =>
           \/ handle.len <= n
           \/ /\ saving.at \in {"length", "data"}
              /\ handle.len = saving.block.offset + saving.block.count
    /\ saving.at = "length" => saving.block.offset <= n /\ saving.done = 0
    /\ saving.at = "data" => saving.block.offset + saving.done <= n /\ saving.done < saving.block.count
    /\ saving.at \in {"padding", "header"} => saving.block.offset + saving.block.count <= n

BlocksApart == \A c, d \in Existing : c # d => Span(header[c]) \cap Span(header[d]) = {}

FileInv ==
    /\ FileTypeOK
    /\ BlocksApart
    /\ AllocatorExact
    /\ BlockIsOurs
    /\ \E n \in Nat : FileCovers(n)

-----------------------------------------------------------------------------
(* A non-empty set of naturals has a least member.                          *)
LEMMA LeastMember ==
    ASSUME NEW S \in SUBSET Nat, S # {}
    PROVE  \E s \in S : \A t \in S : s <= t
<1> DEFINE Below == OpToRel(<, Nat)
<1>1. IsWellFoundedOn(Below, Nat)
    BY NatLessThanWellFounded
<1> HIDE DEF Below
<1>2. PICK s \in S : \A t \in S : ~ (<<t, s>> \in Below)
    BY <1>1, WFMin
<1>3. \A t \in S : ~ (t < s)
    BY <1>2 DEF Below, OpToRel
<1> QED BY <1>3

(* Data takes at least one sector.                                          *)
LEMMA SectorsPositive ==
    ASSUME NEW d \in Data
    PROVE  Sectors(TotalLen(d)) \in Nat /\ Sectors(TotalLen(d)) >= 1
<1>1. \A b, t \in Nat : b > 4 /\ t > 5 => (t + b - 1) \div b \in Nat /\ (t + b - 1) \div b >= 1
    OBVIOUS
<1>2. SectorBytes \in Nat /\ SectorBytes > 4 /\ TotalLen(d) \in Nat /\ TotalLen(d) > 5
    BY RegionAssumption
<1> QED BY <1>1, <1>2 DEF Sectors

(* The allocator gives sectors that are not in use: a gap, or the end.      *)
Fits(b, used, len, n) ==
    /\ b \in SectorBlock
    /\ b.count = n
    /\ b.offset >= 2
    /\ Span(b) \cap used = {}
    /\ b.offset = len \/ b.offset + n <= len

LEMMA AllocateFits ==
    ASSUME NEW used \in SUBSET Nat, NEW len \in Nat, NEW n \in Nat, n >= 1,
           HeaderSectors \subseteq used, len >= 2, \A s \in used : s < len
    PROVE  Fits(allocate(used, len, n), used, len, n)
<1> USE DEF Fits
<1>1. CASE Gaps(used, len, n) = {}
    <2>1. allocate(used, len, n) = [offset |-> len, count |-> n]
        BY <1>1 DEF allocate
    <2>2. (len .. len + n - 1) \cap used = {}
        OBVIOUS
    <2> QED BY <2>1, <2>2 DEF Span, SectorBlock
<1>2. CASE Gaps(used, len, n) # {}
    <2>1. Gaps(used, len, n) \in SUBSET Nat
        BY DEF Gaps
    <2>2. PICK s \in Gaps(used, len, n) : \A t \in Gaps(used, len, n) : s <= t
        BY <1>2, <2>1, LeastMember
    <2> DEFINE o == CHOOSE x \in Gaps(used, len, n) : \A t \in Gaps(used, len, n) : x <= t
    <2>3. o \in Gaps(used, len, n)
        BY <2>2
    <2>4. allocate(used, len, n) = [offset |-> o, count |-> n]
        BY <1>2 DEF allocate
    <2> HIDE DEF o
    <2>5. o \in Nat /\ o + n <= len /\ (o .. o + n - 1) \cap used = {}
        BY <2>3 DEF Gaps, Gap
    <2>6. o # 0 /\ o # 1
        <3>1. o \in o .. o + n - 1
            BY <2>5
        <3> QED BY <3>1, <2>5 DEF HeaderSectors
    <2> QED BY <2>4, <2>5, <2>6 DEF Span, SectorBlock
<1> QED BY <1>1, <1>2
(* What the parts of the invariant say of the types.                        *)
LEMMA TypeFacts ==
    ASSUME FileTypeOK
    PROVE  /\ \A x \in Existing : /\ x \in Chunks /\ header[x] \in SectorBlock
                                  /\ header[x].offset \in Nat /\ header[x].count \in Nat
           /\ handle.open \in BOOLEAN /\ handle.len \in Nat /\ handle.used_sectors \in SUBSET Nat
           /\ saving.at \in Phases /\ saving.block \in SectorBlock /\ saving.done \in Nat
           /\ saving.block.offset \in Nat /\ saving.block.count \in Nat
<1>1. \A x \in Existing : x \in Chunks
    BY DEF Existing
<1>2. \A x \in Chunks : header[x] \in SectorBlock
    BY DEF FileTypeOK
<1>3. \A b \in SectorBlock : b.offset \in Nat /\ b.count \in Nat
    BY DEF SectorBlock
<1>4. /\ handle.open \in BOOLEAN /\ handle.len \in Nat /\ handle.used_sectors \in SUBSET Nat
      /\ saving.at \in Phases /\ saving.block \in SectorBlock /\ saving.done \in Nat
    BY DEF FileTypeOK
<1> QED BY <1>1, <1>2, <1>3, <1>4

LEMMA IdleHasNoBlock == Idle.at = "idle" /\ Idle.chunk = Nothing /\ Span(Idle.block) = {}
<1>1. 0 .. 0 + 0 - 1 = {}
    OBVIOUS
<1> QED BY <1>1 DEF Idle, NoBlock, Span

(* The initial state: no file.                                              *)
LEMMA FileInvInit == Init => FileInv
<1> SUFFICES ASSUME Init PROVE FileInv
    OBVIOUS
<1>1. Existing = {}
    BY DEF Init, Existing, exists, NoBlock
<1>2. FileTypeOK
    BY DEF Init, FileTypeOK, SectorBlock, NoBlock, Closed, Idle, Phases
<1>3. BlocksApart
    BY <1>1 DEF BlocksApart
<1>4. AllocatorExact /\ BlockIsOurs
    BY DEF AllocatorExact, BlockIsOurs, Init, Closed, Idle
<1>5. FileCovers(0)
    <2>1. DOMAIN file = 0 .. 0 - 1
        BY DEF Init
    <2> QED BY <1>1, <2>1 DEF FileCovers, Init, Closed, Idle
<1> QED BY <1>2, <1>3, <1>4, <1>5 DEF FileInv

(* A write at most one past the end keeps the file in one piece.            *)
LEMMA PutGrows ==
    ASSUME NEW n \in Nat, DOMAIN file = 0 .. n - 1, NEW s \in Nat, s <= n, NEW content
    PROVE  DOMAIN Put(s, content) = 0 .. (IF s = n THEN n + 1 ELSE n) - 1
<1>1. DOMAIN Put(s, content) = (0 .. n - 1) \cup {s}
    BY DEF Put
<1> QED BY <1>1

(* A save that starts is given sectors of its own.                          *)
LEMMA SaveBeginKeeps ==
    ASSUME FileInv, NEW c \in Chunks, NEW d \in Data, SaveBegin(c, d)
    PROVE  FileInv'
<1> DEFINE k == Sectors(TotalLen(d))
           block == allocate(Freed(c), handle.len, k)
<1>0. FileTypeOK /\ BlocksApart /\ AllocatorExact /\ BlockIsOurs
    BY DEF FileInv
<1>1. PICK n \in Nat : FileCovers(n)
    BY DEF FileInv
<1>t. /\ \A x \in Existing : /\ x \in Chunks /\ header[x] \in SectorBlock
                             /\ header[x].offset \in Nat /\ header[x].count \in Nat
      /\ handle.open \in BOOLEAN /\ handle.len \in Nat /\ handle.used_sectors \in SUBSET Nat
      /\ saving.at \in Phases /\ saving.block \in SectorBlock /\ saving.done \in Nat
      /\ saving.block.offset \in Nat /\ saving.block.count \in Nat
    BY <1>0, TypeFacts
<1>8. /\ handle.open /\ saving.at = "idle"
      /\ handle' = [open |-> TRUE, used_sectors |-> Freed(c) \cup Span(block),
                    len |-> IF block.offset = handle.len THEN handle.len + block.count ELSE handle.len]
      /\ saving' = [at |-> "length", chunk |-> c, data |-> d, block |-> block, done |-> 0]
      /\ header' = header /\ file' = file
    BY <1>0, <1>t, <1>0, <1>t DEF SaveBegin, block, k
<1>2. saving = Idle /\ Nothing \notin Chunks
    BY <1>0, <1>8, RegionAssumption DEF FileTypeOK
<1>3. k \in Nat /\ k >= 1
    BY SectorsPositive
<1>4. handle.used_sectors = HeaderSectors \cup UNION {Span(header[x]) : x \in Existing}
    <2>1. Span(saving.block) = {} /\ Existing \ {saving.chunk} = Existing
        BY <1>t, <1>2, IdleHasNoBlock
    <2> QED BY <1>0, <1>t, <2>1, <1>8 DEF AllocatorExact
<1>5. Freed(c) = HeaderSectors \cup UNION {Span(header[x]) : x \in Existing \ {c}}
    <2>1. \A x \in Existing : Span(header[x]) \cap HeaderSectors = {}
        BY <1>t, <1>1 DEF FileCovers, Span, HeaderSectors
    <2>2. CASE c \in Existing
        <3>1. \A x \in Existing \ {c} : Span(header[x]) \cap Span(header[c]) = {}
            BY <1>0, <1>t, <2>2 DEF BlocksApart
        <3> QED BY <1>0, <1>t, <1>4, <2>1, <2>2, <3>1 DEF Freed, Existing
    <2>3. CASE c \notin Existing
        BY <1>0, <1>t, <1>4, <2>3 DEF Freed, Existing
    <2> QED BY <1>0, <1>t, <2>2, <2>3
<1>6. Freed(c) \in SUBSET Nat /\ HeaderSectors \subseteq Freed(c) /\ \A s \in Freed(c) : s < handle.len
    <2>1. Freed(c) \subseteq handle.used_sectors
        BY <1>0, <1>t, <1>4, <1>5
    <2>2. \A x \in Existing : \A s \in Span(header[x]) : s < handle.len
        BY <1>t, <1>1, <1>8 DEF FileCovers, Span
    <2>3. \A s \in HeaderSectors : s < handle.len
        BY <1>t, <1>1, <1>8 DEF FileCovers, HeaderSectors
    <2> QED BY <1>0, <1>t, <1>4, <1>5, <2>1, <2>2, <2>3 DEF FileTypeOK
<1>7. /\ block \in SectorBlock /\ block.count = k /\ block.offset >= 2
      /\ Span(block) \cap Freed(c) = {}
      /\ block.offset = handle.len \/ block.offset + k <= handle.len
    <2>1. handle.len >= 2
        BY <1>1, <1>8 DEF FileCovers
    <2>2. block = allocate(Freed(c), handle.len, k)
        OBVIOUS
    <2> HIDE DEF k, block
    <2>3. handle.len \in Nat
        BY <1>t
    <2>4. Fits(block, Freed(c), handle.len, k)
        BY <1>3, <1>6, <2>1, <2>2, <2>3, AllocateFits
    <2> QED BY <2>4 DEF Fits
<1> HIDE DEF k, block
<1>9. Existing' = Existing
    BY <1>0, <1>t, <1>8 DEF Existing
<1>10. FileTypeOK'
    <2>1. Span(block) \subseteq Nat
        BY <1>0, <1>t, <1>7 DEF Span, SectorBlock
    <2> QED BY <1>0, <1>t, <1>6, <1>7, <1>8, <2>1 DEF FileTypeOK, Phases, SectorBlock
<1>11. BlocksApart'
    BY <1>0, <1>t, <1>8, <1>9 DEF BlocksApart
<1>12. AllocatorExact'
    BY <1>0, <1>t, <1>5, <1>8, <1>9 DEF AllocatorExact
<1>13. BlockIsOurs'
    <2>1. \A x \in Existing \ {c} : Span(header[x]) \subseteq Freed(c)
        BY <1>0, <1>t, <1>5
    <2>2. block.offset + block.count <= handle'.len
        BY <1>0, <1>t, <1>3, <1>7, <1>8 DEF FileTypeOK, SectorBlock
    <2> QED BY <1>0, <1>t, <1>3, <1>7, <1>8, <1>9, <2>1, <2>2 DEF BlockIsOurs, Others
<1>14. FileCovers(n)'
    <2>t. block.offset \in Nat /\ block.count \in Nat
        BY <1>7 DEF SectorBlock
    <2>1. handle'.len >= handle.len
        BY <1>0, <1>t, <1>7, <1>8 DEF FileTypeOK, SectorBlock
    <2>2. handle.len <= n
        BY <1>0, <1>t, <1>1, <1>2, <1>8 DEF FileCovers, Idle
    <2>3. block.offset <= n
        BY <1>0, <1>t, <1>3, <1>7, <2>2 DEF FileTypeOK, SectorBlock
    <2>0. handle.len >= 2 /\ \A x \in Existing : header[x].offset + header[x].count <= handle.len
        BY <1>1, <1>8 DEF FileCovers
    <2>00. handle'.len \in Nat
        BY <1>t, <1>7, <1>8, <2>t
    <2>4. \A x \in Existing : header[x].offset + header[x].count <= handle'.len
        BY <1>t, <2>0, <2>00, <2>1
    <2>5. handle'.len <= n \/ handle'.len = block.offset + block.count
        BY <1>0, <1>t, <1>8, <2>2
    <2>6. n >= 2 /\ handle'.len >= 2
        BY <1>t, <1>1, <1>8, <2>0, <2>00, <2>1 DEF FileCovers
    <2> QED BY <1>0, <1>t, <1>1, <1>8, <1>9, <2>3, <2>4, <2>5, <2>6 DEF FileCovers
<1> QED BY <1>10, <1>11, <1>12, <1>13, <1>14 DEF FileInv
(* The writes of a save stay within its block, or go one past the end.      *)
LEMMA WritesKeep ==
    ASSUME FileInv, SaveLength \/ SaveData \/ SavePadding
    PROVE  FileInv'
<1>0. FileTypeOK /\ BlocksApart /\ AllocatorExact /\ BlockIsOurs
    BY DEF FileInv
<1>1. PICK n \in Nat : FileCovers(n)
    BY DEF FileInv
<1>t. /\ \A x \in Existing : /\ x \in Chunks /\ header[x] \in SectorBlock
                             /\ header[x].offset \in Nat /\ header[x].count \in Nat
      /\ handle.open \in BOOLEAN /\ handle.len \in Nat /\ handle.used_sectors \in SUBSET Nat
      /\ saving.at \in Phases /\ saving.block \in SectorBlock /\ saving.done \in Nat
      /\ saving.block.offset \in Nat /\ saving.block.count \in Nat
    BY <1>0, TypeFacts
<1>2. /\ saving.at # "idle" /\ header' = header /\ handle' = handle
      /\ saving'.chunk = saving.chunk /\ saving'.block = saving.block
      /\ Existing' = Existing
    BY <1>0, <1>t, <1>0, <1>t DEF SaveLength, SaveData, SavePadding, FileTypeOK, Existing
<1>3. /\ saving.block \in SectorBlock /\ saving.chunk \in Chunks
      /\ saving.block.offset \in Nat /\ saving.block.count \in Nat /\ saving.done \in Nat
    BY <1>0, <1>t, <1>2 DEF FileTypeOK, SectorBlock
<1>4. BlocksApart' /\ AllocatorExact'
    BY <1>0, <1>t, <1>2 DEF BlocksApart, AllocatorExact
<1>5. \/ SaveLength /\ saving' = [saving EXCEPT !.at = "data"]
      \/ SaveData /\ saving' = [saving EXCEPT !.done = saving.done + 1, !.at =
             IF saving.done + 1 = saving.block.count THEN "padding" ELSE "data"]
      \/ SavePadding /\ saving' = [saving EXCEPT !.at = "header"]
    BY <1>0, <1>t, <1>0, <1>t DEF SaveLength, SaveData, SavePadding
<1>6. FileTypeOK' /\ saving'.at # "idle"
    <2>1. /\ saving' \in [at : Phases, chunk : Chunks \cup {Nothing}, data : Data \cup {Nothing},
                          block : SectorBlock, done : Nat]
          /\ saving'.at \in {"data", "padding", "header"}
        <3>1. saving.done + 1 \in Nat
            BY <1>t
        <3>2. "data" \in Phases /\ "padding" \in Phases /\ "header" \in Phases
            BY DEF Phases
        <3>3. saving \in [at : Phases, chunk : Chunks \cup {Nothing}, data : Data \cup {Nothing},
                          block : SectorBlock, done : Nat]
            BY <1>0 DEF FileTypeOK
        <3>4. CASE SaveLength
            BY <3>2, <3>3, <3>4, <1>5 DEF SaveLength
        <3>5. CASE SaveData
            BY <3>1, <3>2, <3>3, <3>5 DEF SaveData
        <3>6. CASE SavePadding
            BY <3>2, <3>3, <3>6 DEF SavePadding
        <3> QED BY <1>5, <3>4, <3>5, <3>6
    <2> QED BY <1>0, <1>2, <1>3, <2>1 DEF FileTypeOK
<1>7. BlockIsOurs'
    BY <1>0, <1>t, <1>2, <1>6 DEF BlockIsOurs, Others
<1>8. ASSUME NEW m \in Nat, m >= n, DOMAIN file' = 0 .. m - 1,
             saving'.at = "data" =>
                 saving.block.offset + saving'.done <= m /\ saving'.done < saving.block.count,
             saving'.at # "data" => saving.block.offset + saving.block.count <= m,
             saving'.at \in {"data", "padding", "header"}
      PROVE  FileCovers(m)'
    <2>1. \A x \in Existing : header[x].offset >= 2 /\ header[x].offset + header[x].count <= m
        BY <1>t, <1>1, <1>8 DEF FileCovers
    <2>2. handle.open => handle.len <= m \/ handle.len = saving.block.offset + saving.block.count
        BY <1>0, <1>t, <1>1, <1>8 DEF FileCovers, FileTypeOK
    <2>3. handle.open => m >= 2
        BY <1>0, <1>t, <1>1, <1>8 DEF FileCovers
    <2>4. handle.open => \/ handle.len <= m
                         \/ saving'.at = "data" /\ handle.len = saving.block.offset + saving.block.count
        BY <1>0, <1>t, <1>8, <2>2, <1>3
    <2> QED BY <1>0, <1>t, <1>1, <1>2, <1>8, <2>1, <2>3, <2>4 DEF FileCovers
<1>9. CASE SaveLength
    <2>1. saving.at = "length" /\ saving'.at = "data" /\ saving'.done = saving.done
        BY <1>0, <1>t, <1>9 DEF SaveLength, FileTypeOK
    <2>2. saving.block.offset <= n /\ saving.done = 0
        BY <1>0, <1>t, <1>1, <2>1 DEF FileCovers
    <2>3. DOMAIN file' = 0 .. (IF saving.block.offset = n THEN n + 1 ELSE n) - 1
        BY <1>0, <1>t, <1>1, <1>3, <1>9, <2>2, PutGrows DEF SaveLength, FileCovers
    <2>4. 0 < saving.block.count
        BY <1>0, <1>t, <1>2, <1>3 DEF BlockIsOurs
    <2>5. CASE saving.block.offset = n
        <3>1. FileCovers(n + 1)'
            BY <1>0, <1>t, <1>3, <1>8, <2>1, <2>2, <2>3, <2>4, <2>5
        <3> QED BY <1>4, <1>6, <1>7, <3>1 DEF FileInv
    <2>6. CASE saving.block.offset # n
        <3>1. FileCovers(n)'
            BY <1>0, <1>t, <1>3, <1>8, <2>1, <2>2, <2>3, <2>4, <2>6
        <3> QED BY <1>4, <1>6, <1>7, <3>1 DEF FileInv
    <2> QED BY <1>0, <1>t, <2>5, <2>6
<1>10. CASE SaveData
    <2> DEFINE s == saving.block.offset + saving.done
    <2>1. /\ saving.at = "data"
          /\ saving'.done = saving.done + 1
          /\ saving'.at = IF saving.done + 1 = saving.block.count THEN "padding" ELSE "data"
        BY <1>0, <1>t, <1>10 DEF SaveData, FileTypeOK
    <2>2. s \in Nat /\ s <= n /\ saving.done < saving.block.count
        BY <1>0, <1>t, <1>1, <1>3, <2>1 DEF FileCovers
    <2>3. DOMAIN file' = 0 .. (IF s = n THEN n + 1 ELSE n) - 1
        BY <1>0, <1>t, <1>1, <1>10, <2>2, PutGrows DEF SaveData, FileCovers
    <2>4. CASE s = n
        <3>1. FileCovers(n + 1)'
            BY <1>0, <1>t, <1>3, <1>8, <2>1, <2>2, <2>3, <2>4
        <3> QED BY <1>4, <1>6, <1>7, <3>1 DEF FileInv
    <2>5. CASE s # n
        <3>1. FileCovers(n)'
            BY <1>0, <1>t, <1>3, <1>8, <2>1, <2>2, <2>3, <2>5
        <3> QED BY <1>4, <1>6, <1>7, <3>1 DEF FileInv
    <2> QED BY <1>0, <1>t, <2>4, <2>5
<1>11. CASE SavePadding
    <2> DEFINE s == saving.block.offset + saving.block.count
    <2>1. saving.at = "padding" /\ saving'.at = "header"
        BY <1>0, <1>t, <1>11 DEF SavePadding, FileTypeOK
    <2>2. s \in Nat /\ s <= n
        BY <1>0, <1>t, <1>1, <1>3, <2>1 DEF FileCovers
    <2>3. \/ DOMAIN file' = 0 .. (IF s = n THEN n + 1 ELSE n) - 1
          \/ DOMAIN file' = 0 .. n - 1
        BY <1>0, <1>t, <1>1, <1>11, <2>2, PutGrows DEF SavePadding, FileCovers
    <2>4. CASE DOMAIN file' = 0 .. n + 1 - 1
        <3>1. FileCovers(n + 1)'
            BY <1>0, <1>t, <1>3, <1>8, <2>1, <2>2, <2>4
        <3> QED BY <1>4, <1>6, <1>7, <3>1 DEF FileInv
    <2>5. CASE DOMAIN file' = 0 .. n - 1
        <3>1. FileCovers(n)'
            BY <1>0, <1>t, <1>3, <1>8, <2>1, <2>2, <2>5
        <3> QED BY <1>4, <1>6, <1>7, <3>1 DEF FileInv
    <2> QED BY <1>0, <1>t, <2>3, <2>4, <2>5
<1> QED BY <1>9, <1>10, <1>11 DEF FileInv

(* Publishing a block: what was ours alone replaces what was freed.         *)
LEMMA SaveHeaderKeeps == FileInv /\ SaveHeader => FileInv'
<1> SUFFICES ASSUME FileInv, SaveHeader PROVE FileInv'
    OBVIOUS
<1>0. FileTypeOK /\ BlocksApart /\ AllocatorExact /\ BlockIsOurs
    BY DEF FileInv
<1>1. PICK n \in Nat : FileCovers(n)
    BY DEF FileInv
<1>t. /\ \A x \in Existing : /\ x \in Chunks /\ header[x] \in SectorBlock
                             /\ header[x].offset \in Nat /\ header[x].count \in Nat
      /\ handle.open \in BOOLEAN /\ handle.len \in Nat /\ handle.used_sectors \in SUBSET Nat
      /\ saving.at \in Phases /\ saving.block \in SectorBlock /\ saving.done \in Nat
      /\ saving.block.offset \in Nat /\ saving.block.count \in Nat
    BY <1>0, TypeFacts
<1> DEFINE c == saving.chunk
           block == saving.block
<1>2. /\ saving.at = "header" /\ c \in Chunks /\ block \in SectorBlock
      /\ header' = [header EXCEPT ![c] = block] /\ saving' = Idle
      /\ file' = file /\ handle' = handle /\ handle.open
      /\ block.offset >= 2 /\ block.count >= 1 /\ block.offset + block.count <= handle.len
      /\ \A x \in Existing \ {c} : Span(header[x]) \cap Span(block) = {}
    BY <1>0, <1>t, <1>0, <1>t DEF SaveHeader, FileTypeOK, BlockIsOurs, Others
<1>3. Existing' = (Existing \ {c}) \cup {c}
    BY <1>0, <1>t, <1>2 DEF Existing, exists, FileTypeOK, SectorBlock
<1>4. header'[c] = block /\ \A x \in Existing \ {c} : header'[x] = header[x]
    BY <1>0, <1>t, <1>2 DEF Existing, FileTypeOK
<1> HIDE DEF c, block
<1>5. FileTypeOK'
    BY <1>0, <1>t, <1>2 DEF FileTypeOK, Idle, Phases, NoBlock, SectorBlock
<1>6. BlocksApart'
    BY <1>0, <1>t, <1>2, <1>3, <1>4 DEF BlocksApart
<1>7. AllocatorExact'
    <2>1. Nothing \notin Existing'
        BY RegionAssumption DEF Existing
    <2>2. saving'.chunk = Nothing /\ Span(saving'.block) = {}
        BY <1>0, <1>t, <1>2 DEF Idle, NoBlock, Span
    <2>3. handle.used_sectors = HeaderSectors \cup Span(block)
                                  \cup UNION {Span(header[x]) : x \in Existing \ {c}}
        BY <1>0, <1>t, <1>2 DEF AllocatorExact, c, block
    <2>4. UNION {Span(header'[x]) : x \in Existing'}
            = Span(block) \cup UNION {Span(header[x]) : x \in Existing \ {c}}
        BY <1>0, <1>t, <1>3, <1>4
    <2> QED BY <1>0, <1>t, <1>2, <2>1, <2>2, <2>3, <2>4 DEF AllocatorExact
<1>8. BlockIsOurs'
    BY <1>0, <1>t, <1>2 DEF BlockIsOurs, Idle
<1>9. FileCovers(n)'
    <2>1. block.offset + block.count <= n
        BY <1>0, <1>t, <1>1, <1>2 DEF FileCovers, block
    <2>2. \A x \in Existing' : /\ header'[x].offset >= 2
                               /\ header'[x].offset + header'[x].count <= n
                               /\ header'[x].offset + header'[x].count <= handle.len
        BY <1>0, <1>t, <1>1, <1>2, <1>3, <1>4, <2>1 DEF FileCovers
    <2>3. handle.len <= n
        BY <1>0, <1>t, <1>1, <1>2 DEF FileCovers
    <2> QED BY <1>0, <1>t, <1>1, <1>2, <2>2, <2>3 DEF FileCovers, Idle
<1> QED BY <1>5, <1>6, <1>7, <1>8, <1>9 DEF FileInv
(* Opening, creating, closing and stopping: a handle is rebuilt from the     *)
(* header, or there is none.                                                *)
LEMMA HandleKeeps ==
    ASSUME FileInv, Open \/ Create \/ CreateCut \/ Close \/ Crash
    PROVE  FileInv'
<1>0. FileTypeOK /\ BlocksApart /\ AllocatorExact /\ BlockIsOurs
    BY DEF FileInv
<1>1. PICK n \in Nat : FileCovers(n)
    BY DEF FileInv
<1>t. /\ \A x \in Existing : /\ x \in Chunks /\ header[x] \in SectorBlock
                             /\ header[x].offset \in Nat /\ header[x].count \in Nat
      /\ Nothing \notin Chunks
    BY <1>0, TypeFacts, RegionAssumption
<1>2. CASE Open
    <2>1. /\ ~handle.open /\ saving = Idle /\ saving' = saving /\ header' = header /\ file' = file
          /\ IsFile /\ handle'.open /\ handle'.used_sectors = Occupied
          /\ handle' = [open |-> TRUE, used_sectors |-> Occupied, len |-> Cardinality(DOMAIN file)]
        BY <1>0, <1>2 DEF Open, FileTypeOK, BlockIsOurs
    <2>2. handle'.len = n
        <3>1. Cardinality(0 .. n - 1) = n
            BY FS_Interval
        <3> QED BY <1>1, <2>1, <3>1 DEF FileCovers
    <2>3. n >= 2
        <3>1. 1 \in 0 .. n - 1
            BY <1>1, <2>1 DEF FileCovers, IsFile, HeaderSectors
        <3> QED BY <3>1
    <2>4. Existing' = Existing /\ Occupied = HeaderSectors \cup UNION {Span(header[x]) : x \in Existing}
        BY <2>1 DEF Existing, Occupied
    <2>5. Occupied \subseteq Nat
        BY <1>t, <2>4 DEF Span, HeaderSectors
    <2>6. FileTypeOK'
        BY <1>0, <2>1, <2>2, <2>5 DEF FileTypeOK
    <2>7. BlocksApart' /\ BlockIsOurs'
        BY <1>0, <2>1, <2>4, IdleHasNoBlock DEF BlocksApart, BlockIsOurs
    <2>8. AllocatorExact'
        <3>1. Existing \ {Nothing} = Existing
            BY <1>t
        <3> QED BY <2>1, <2>4, <3>1, IdleHasNoBlock DEF AllocatorExact
    <2>9. FileCovers(n)'
        BY <1>1, <2>1, <2>2, <2>3, <2>4, IdleHasNoBlock DEF FileCovers
    <2> QED BY <2>6, <2>7, <2>8, <2>9 DEF FileInv
<1>3. CASE Create
    <2>1. /\ saving = Idle /\ saving' = saving
          /\ header' = [c \in Chunks |-> NoBlock] /\ DOMAIN file' = DOMAIN file \cup HeaderSectors
          /\ handle' = [open |-> TRUE, used_sectors |-> HeaderSectors, len |-> 2]
        BY <1>0, <1>3 DEF Create, EmptyHeader, FileTypeOK, BlockIsOurs
    <2>2. Existing' = {}
        BY <2>1 DEF Existing, exists, NoBlock
    <2>3. FileTypeOK'
        BY <1>0, <2>1 DEF FileTypeOK, NoBlock, SectorBlock, HeaderSectors
    <2>4. BlocksApart' /\ BlockIsOurs' /\ AllocatorExact'
        BY <2>1, <2>2, IdleHasNoBlock DEF BlocksApart, BlockIsOurs, AllocatorExact
    <2>5. \E m \in Nat : FileCovers(m)'
        <3>1. PICK m \in Nat : m = IF n < 2 THEN 2 ELSE n
            OBVIOUS
        <3>2. DOMAIN file' = 0 .. m - 1
            BY <1>1, <2>1, <3>1 DEF FileCovers, HeaderSectors
        <3>3. FileCovers(m)'
            BY <2>1, <2>2, <3>1, <3>2, IdleHasNoBlock DEF FileCovers
        <3> QED BY <3>3
    <2> QED BY <2>3, <2>4, <2>5 DEF FileInv
<1>5. CASE CreateCut
    <2>1. PICK wiped \in SUBSET Chunks :
              header' = [c \in Chunks |-> IF c \in wiped THEN NoBlock ELSE header[c]]
        BY <1>5 DEF CreateCut
    <2>2. /\ saving = Idle /\ saving' = saving /\ file' = file /\ handle' = handle
          /\ ~handle.open /\ IsFile
        BY <1>0, <1>5 DEF CreateCut, FileTypeOK, BlockIsOurs
    <2>3. \A x \in Existing' : x \in Existing /\ header'[x] = header[x]
        BY <2>1 DEF Existing, exists, NoBlock
    <2>4. FileTypeOK'
        BY <1>0, <2>1, <2>2 DEF FileTypeOK, NoBlock, SectorBlock
    <2>5. BlocksApart' /\ BlockIsOurs' /\ AllocatorExact'
        BY <1>0, <2>2, <2>3, IdleHasNoBlock DEF BlocksApart, BlockIsOurs, AllocatorExact
    <2>6. FileCovers(n)'
        BY <1>1, <2>2, <2>3, IdleHasNoBlock DEF FileCovers
    <2> QED BY <2>4, <2>5, <2>6 DEF FileInv
<1>4. CASE Close \/ Crash
    <2>1. handle' = Closed /\ saving' = Idle /\ header' = header /\ file' = file
        BY <1>0, <1>4 DEF Close, Crash, FileTypeOK
    <2>2. Existing' = Existing /\ ~handle'.open
        BY <2>1 DEF Existing, Closed
    <2>3. FileTypeOK'
        BY <1>0, <2>1 DEF FileTypeOK, Closed, Idle, NoBlock, Phases, SectorBlock
    <2>4. BlocksApart' /\ BlockIsOurs' /\ AllocatorExact'
        BY <1>0, <2>1, <2>2, IdleHasNoBlock DEF BlocksApart, BlockIsOurs, AllocatorExact
    <2>5. FileCovers(n)'
        BY <1>1, <2>1, <2>2, IdleHasNoBlock DEF FileCovers
    <2> QED BY <2>3, <2>4, <2>5 DEF FileInv
<1> QED BY <1>2, <1>3, <1>4, <1>5

LEMMA FileInvStep == FileInv /\ [Next]_filevars => FileInv'
<1> SUFFICES ASSUME FileInv, [Next]_filevars PROVE FileInv'
    OBVIOUS
<1>1. CASE UNCHANGED filevars
    <2>1. header' = header /\ file' = file /\ handle' = handle /\ saving' = saving
        BY <1>1 DEF filevars
    <2>2. Existing' = Existing
        BY <2>1 DEF Existing
    <2>3. FileTypeOK' /\ BlocksApart' /\ AllocatorExact' /\ BlockIsOurs'
        BY <2>1, <2>2 DEF FileInv, FileTypeOK, BlocksApart, AllocatorExact, BlockIsOurs, Others
    <2>4. \A n \in Nat : FileCovers(n) => FileCovers(n)'
        BY <2>1, <2>2 DEF FileCovers
    <2> QED BY <2>3, <2>4 DEF FileInv
<1>2. CASE Next
    BY <1>2, HandleKeeps, SaveBeginKeeps, WritesKeep, SaveHeaderKeeps DEF Next
<1> QED BY <1>1, <1>2

LEMMA FileInvHolds == FileSpec => []FileInv
BY FileInvInit, FileInvStep, PTL DEF FileSpec

-----------------------------------------------------------------------------
(* SectorsDisjoint holds of every region file, whatever the saves, the      *)
(* reopenings and the crashes between two writes of save_chunk.             *)
THEOREM FileSectorsDisjoint == FileSpec => []SectorsDisjoint
<1>1. FileInv => SectorsDisjoint
    <2> SUFFICES ASSUME FileInv PROVE SectorsDisjoint
        OBVIOUS
    <2>1. PICK n \in Nat : FileCovers(n)
        BY DEF FileInv
    <2>2. FileTypeOK /\ BlocksApart
        BY DEF FileInv
    <2>3. \A x \in Existing : header[x].offset \in Nat /\ header[x].count \in Nat
        BY <2>2, TypeFacts
    <2>4. \A x \in Existing : Span(header[x]) \subseteq DOMAIN file \ HeaderSectors
        BY <2>1, <2>3 DEF FileCovers, Span, HeaderSectors
    <2> QED BY <2>2, <2>4 DEF SectorsDisjoint, BlocksApart
<1> QED BY <1>1, FileInvHolds, PTL

(* SectorAllocator never loses or double-counts a sector: it holds exactly  *)
(* those of the header, of the chunks and of the save under way.            *)
THEOREM FileAllocatorExact == FileSpec => []AllocatorExact
<1>1. FileInv => AllocatorExact
    BY DEF FileInv
<1> QED BY <1>1, FileInvHolds, PTL

-----------------------------------------------------------------------------
(* What the sectors hold.                                                    *)
Payloads == [chunk : Chunks, data : Data]
SectorContents == [payload : Payloads \cup {NoPayload}, part : Nat, len : Nat]
mine == [chunk |-> saving.chunk, data |-> saving.data]

\* A chunk's own sectors hold nothing of another chunk.
OwnBytes ==
    \A x \in Existing : \A s \in Span(header[x]) :
        file[s].payload = NoPayload \/ file[s].payload.chunk = x

\* The length word of a chunk never sends load_chunk past the end of the file.
LengthsInFile ==
    \A x \in Existing :
        header[x].offset + Sectors(file[header[x].offset].len + LENGTH_WORD) - 1 \in DOMAIN file

\* What starts in the block of a chunk that no save was cut short for fits in it.
IntactFits ==
    \A x \in Existing \ (torn \cup {saving.chunk}) :
        LET first == file[header[x].offset]
        IN  first.payload # NoPayload /\ first.part = 0 =>
                Sectors(TotalLen(first.payload.data)) <= header[x].count

\* The parts of the save that are in the file.
PartsTo(n) ==
    \A k \in 0 .. n - 1 : /\ file[saving.block.offset + k].payload = mine
                          /\ file[saving.block.offset + k].part = k

Written ==
    saving.at # "idle" =>
        /\ saving.data \in Data
        /\ saving.block.count = Sectors(TotalLen(saving.data))
        /\ saving.at = "length" =>
               \/ saving.block.offset + saving.block.count - 1 \in DOMAIN file
               \/ \A x \in Existing : header[x].offset # saving.block.offset
        /\ saving.at # "length" =>
               /\ saving.block.offset \in DOMAIN file
               /\ file[saving.block.offset].len = TotalLen(saving.data) - LENGTH_WORD
        /\ saving.at = "data" => PartsTo(saving.done)
        /\ saving.at \in {"padding", "header"} => PartsTo(saving.block.count)

ContentInv ==
    /\ \A s \in DOMAIN file : file[s] \in SectorContents
    /\ OwnBytes
    /\ LengthsInFile
    /\ IntactFits
    /\ Written

StoreInv == FileInv /\ ContentInv

-----------------------------------------------------------------------------
(* Longer data takes no fewer sectors, and the length word alone takes one.  *)
LEMMA SectorsMonotone ==
    ASSUME NEW a \in Nat, NEW b \in Nat, a <= b
    PROVE  Sectors(a) \in Nat /\ Sectors(b) \in Nat /\ Sectors(a) <= Sectors(b)
<1>1. SectorBytes \in Nat /\ SectorBytes > 4
    BY RegionAssumption
<1>2. \A x, m \in Nat : m > 4 => (x + m - 1) \div m \in Nat
    OBVIOUS
<1>3. \A x, y, m \in Nat : m > 4 /\ x <= y => (x + m - 1) \div m <= (y + m - 1) \div m
    OBVIOUS
<1> QED BY <1>1, <1>2, <1>3 DEF Sectors

LEMMA OneSector == Sectors(LENGTH_WORD) = 1
<1>1. SectorBytes \in Nat /\ SectorBytes > 4
    BY RegionAssumption
<1>2. \A m \in Nat : m > 4 => (4 + m - 1) \div m = 1
    OBVIOUS
<1> QED BY <1>1, <1>2 DEF Sectors, LENGTH_WORD

(* What a write does to the sectors of the file.                             *)
LEMMA PutAt ==
    ASSUME NEW t, NEW content, file' = Put(t, content)
    PROVE  /\ DOMAIN file' = DOMAIN file \cup {t}
           /\ file'[t] = content
           /\ \A s \in DOMAIN file : s # t => file'[s] = file[s]
<1>1. file' = [i \in DOMAIN file \cup {t} |-> IF i = t THEN content ELSE file[i]]
    BY DEF Put
<1> QED BY ONLY <1>1

-----------------------------------------------------------------------------
\* Chunk x loads as d.
Loads(x, d) ==
    /\ file[header[x].offset].payload = [chunk |-> x, data |-> d]
    /\ file[header[x].offset].part = 0
    /\ file[header[x].offset].len >= TotalLen(d) - LENGTH_WORD
    /\ \A k \in 1 .. Sectors(TotalLen(d)) - 1 :
           /\ file[header[x].offset + k].payload = [chunk |-> x, data |-> d]
           /\ file[header[x].offset + k].part = k

\* The sectors that loading x as d reads.
Reads(x, d) == header[x].offset .. header[x].offset + Sectors(TotalLen(d)) - 1

(* What the invariant says of one chunk.                                     *)
LEMMA ChunkFacts ==
    ASSUME StoreInv, NEW x \in Existing
    PROVE  /\ x \in Chunks /\ header[x].offset \in Nat /\ header[x].count \in Nat
           /\ header[x].offset >= 2 /\ header[x].count >= 1
           /\ header[x].offset \in Span(header[x]) /\ Span(header[x]) \subseteq DOMAIN file
           /\ file[header[x].offset] \in SectorContents
<1>1. FileTypeOK /\ ContentInv
    BY DEF StoreInv, FileInv
<1>2. PICK n \in Nat : FileCovers(n)
    BY DEF StoreInv, FileInv
<1>3. x \in Chunks /\ header[x].offset \in Nat /\ header[x].count \in Nat
    BY <1>1, TypeFacts
<1>4. header[x].offset >= 2 /\ header[x].count >= 1
    BY <1>2, <1>3 DEF FileCovers, Existing, exists
<1>5. header[x].offset \in Span(header[x]) /\ Span(header[x]) \subseteq DOMAIN file
    BY <1>2, <1>3, <1>4 DEF FileCovers, Span
<1> QED BY <1>1, <1>3, <1>4, <1>5 DEF ContentInv

(* The sectors that loading reads are all in the file, and in the chunk's    *)
(* own block if its last save ended.                                         *)
LEMMA ReadsInFile ==
    ASSUME StoreInv, NEW x \in Existing, NEW d \in Data,
           file[header[x].offset].len >= TotalLen(d) - LENGTH_WORD
    PROVE  /\ Reads(x, d) \subseteq DOMAIN file
           /\ header[x].offset + Sectors(file[header[x].offset].len + LENGTH_WORD) - 1 \in DOMAIN file
           /\ Sectors(TotalLen(d)) \in Nat /\ Sectors(TotalLen(d)) >= 1
<1> DEFINE o == header[x].offset
           l == file[o].len
<1>1. PICK n \in Nat : DOMAIN file = 0 .. n - 1
    BY DEF StoreInv, FileInv, FileCovers
<1>2. o \in Nat /\ l \in Nat /\ TotalLen(d) \in Nat
    BY ChunkFacts, RegionAssumption DEF SectorContents
<1>3. TotalLen(d) <= l + LENGTH_WORD /\ l + LENGTH_WORD \in Nat
    BY <1>2 DEF LENGTH_WORD
<1>4. /\ Sectors(TotalLen(d)) <= Sectors(l + LENGTH_WORD)
      /\ Sectors(l + LENGTH_WORD) \in Nat /\ Sectors(TotalLen(d)) \in Nat
    BY <1>2, <1>3, SectorsMonotone
<1>5. o + Sectors(l + LENGTH_WORD) - 1 \in DOMAIN file
    BY DEF StoreInv, ContentInv, LengthsInFile
<1>6. \A s \in Reads(x, d) : s \in Nat /\ s <= o + Sectors(l + LENGTH_WORD) - 1
    BY <1>2, <1>4 DEF Reads
<1> QED BY <1>1, <1>2, <1>4, <1>5, <1>6, SectorsPositive

(* What a chunk loads as.                                                    *)
LEMMA StoredIs ==
    ASSUME StoreInv, NEW x \in Existing
    PROVE  /\ \A d \in Data : Loads(x, d) => Stored(x) = d
           /\ (\A d \in Data : ~ Loads(x, d)) => Stored(x) = Broken
           /\ Stored(x) \in Data \cup {Broken}
<1> DEFINE b == header[x]
           p == file[b.offset].payload
<1>1. exists(header[x])
    BY DEF Existing
<1>2. p \in Payloads \cup {NoPayload} /\ b.offset \in Span(b) /\ b.offset \in DOMAIN file
    BY ChunkFacts DEF SectorContents
<1>3. p = NoPayload \/ (p.chunk = x /\ p.data \in Data /\ p = [chunk |-> x, data |-> p.data])
    BY <1>2 DEF StoreInv, ContentInv, OwnBytes, Payloads
<1>4. NoPayload \notin Payloads
    BY RegionAssumption DEF NoPayload, Payloads
<1>5. \A d \in Data : Loads(x, d) => Decodes(b) /\ p = [chunk |-> x, data |-> d]
    <2> SUFFICES ASSUME NEW d \in Data, Loads(x, d) PROVE Decodes(b) /\ p = [chunk |-> x, data |-> d]
        OBVIOUS
    <2>1. x \in Chunks /\ p = [chunk |-> x, data |-> d] /\ p \in Payloads
        BY ChunkFacts DEF Loads, Payloads
    <2>2. b.offset + Sectors(file[b.offset].len + LENGTH_WORD) - 1 \in DOMAIN file
        BY ReadsInFile DEF Loads
    <2> QED BY <1>2, <1>4, <2>1, <2>2 DEF Loads, Decodes
<1>6. Decodes(b) => p # NoPayload /\ Loads(x, p.data)
    <2> SUFFICES ASSUME Decodes(b) PROVE p # NoPayload /\ Loads(x, p.data)
        OBVIOUS
    <2>1. p # NoPayload
        BY DEF Decodes
    <2>2. p = [chunk |-> x, data |-> p.data]
        BY <1>3, <2>1
    <2> HIDE DEF p
    <2>3. p = file[b.offset].payload
        BY DEF p
    <2> QED BY <2>1, <2>2, <2>3 DEF Decodes, Loads
<1> HIDE DEF b
<1>7. b = header[x]
    BY DEF b
<1>8. CASE Decodes(b)
    <2>1. p = [chunk |-> x, data |-> p.data] /\ p.data \in Data /\ x \in Chunks
        BY <1>3, <1>6, <1>8, ChunkFacts
    <2>2. p \in Payloads /\ p.chunk = x
        BY <1>3, <1>6, <1>8, <2>1 DEF Payloads
    <2>3. load_chunk(x) = p
        BY <1>1, <1>7, <1>8 DEF load_chunk
    <2>4. p \notin {Missing, Broken}
        BY <2>2, RegionAssumption DEF Payloads
    <2>5. Stored(x) = p.data
        BY <2>2, <2>3, <2>4 DEF Stored
    <2>6. \A d \in Data : Loads(x, d) => d = p.data
        <3> HIDE DEF p
        <3> QED BY <1>5
    <2>7. Loads(x, p.data)
        BY <1>6, <1>8
    <2> QED BY <2>1, <2>5, <2>6, <2>7
<1>9. CASE ~Decodes(b)
    <2>1. load_chunk(x) = Broken
        BY <1>1, <1>7, <1>9 DEF load_chunk
    <2>2. Stored(x) = Broken
        BY <2>1 DEF Stored
    <2> QED BY <1>5, <1>9, <2>2
<1> QED BY <1>8, <1>9

LEMMA MissingIs ==
    ASSUME NEW x \in Chunks \ Existing PROVE Stored(x) = Missing
BY DEF Stored, load_chunk, Existing

-----------------------------------------------------------------------------
(* What the invariant says while a chunk is saved.                           *)
LEMMA SaveFacts ==
    ASSUME StoreInv, saving.at # "idle"
    PROVE  /\ saving.chunk \in Chunks /\ saving.data \in Data
           /\ mine \in Payloads /\ mine # NoPayload
           /\ mine.chunk = saving.chunk
           /\ TotalLen(saving.data) \in Nat /\ TotalLen(saving.data) > 5
           /\ saving.block.offset \in Nat /\ saving.block.offset >= 2
           /\ saving.block.count \in Nat /\ saving.block.count >= 1 /\ saving.done \in Nat
           /\ saving.block.count = Sectors(TotalLen(saving.data))
           /\ \A x \in Existing : x # saving.chunk => Span(header[x]) \cap Span(saving.block) = {}
           /\ saving.at = "data" => saving.done < saving.block.count
<1>1. FileTypeOK /\ BlockIsOurs /\ Written
    BY DEF StoreInv, FileInv, ContentInv
<1>2. saving.chunk \in Chunks /\ saving.data \in Data
    BY <1>1 DEF FileTypeOK, Written
<1>3. mine \in Payloads /\ mine # NoPayload /\ mine.chunk = saving.chunk
    BY <1>2, RegionAssumption DEF mine, Payloads, NoPayload
<1>4. TotalLen(saving.data) \in Nat /\ TotalLen(saving.data) > 5
    BY <1>2, RegionAssumption
<1>5. saving.block.offset \in Nat /\ saving.block.count \in Nat /\ saving.done \in Nat
    BY <1>1, TypeFacts
<1>6. /\ saving.block.offset >= 2 /\ saving.block.count >= 1
      /\ \A x \in Existing : x # saving.chunk => Span(header[x]) \cap Span(saving.block) = {}
    BY <1>1 DEF BlockIsOurs, Others
<1>7. saving.at = "data" => saving.done < saving.block.count
    BY DEF StoreInv, FileInv, FileCovers
<1> QED BY <1>1, <1>2, <1>3, <1>4, <1>5, <1>6, <1>7 DEF Written

(* A save keeps what the invariant says of the sectors if what it writes into *)
(* a chunk's block is the chunk's own, and it writes no first sector but its  *)
(* own chunk's.                                                               *)
LEMMA WriteKeepsContent ==
    ASSUME StoreInv, NEW t \in Nat, NEW content \in SectorContents,
           file' = Put(t, content), header' = header, torn' = torn,
           saving'.chunk = saving.chunk,
           \A x \in Existing : t \in Span(header[x]) =>
               content.payload = NoPayload \/ content.payload.chunk = x,
           \A x \in Existing : t = header[x].offset =>
               t + Sectors(content.len + LENGTH_WORD) - 1 \in DOMAIN file,
           \A x \in Existing \ {saving.chunk} : t = header[x].offset => content.payload = NoPayload
    PROVE  /\ \A s \in DOMAIN file' : file'[s] \in SectorContents
           /\ OwnBytes' /\ LengthsInFile' /\ IntactFits'
<1>1. /\ DOMAIN file' = DOMAIN file \cup {t} /\ file'[t] = content
      /\ \A s \in DOMAIN file : s # t => file'[s] = file[s]
    BY PutAt
<1>2. Existing' = Existing
    BY DEF Existing
<1>3. \A x \in Existing : Span(header[x]) \subseteq DOMAIN file /\ header[x].offset \in Span(header[x])
    BY ChunkFacts
<1>4. \A s \in DOMAIN file' : file'[s] \in SectorContents
    BY <1>1 DEF StoreInv, ContentInv
<1>5. OwnBytes'
    <2>1. \A x \in Existing : \A s \in Span(header[x]) :
              file'[s].payload = NoPayload \/ file'[s].payload.chunk = x
        BY <1>1, <1>3 DEF StoreInv, ContentInv, OwnBytes
    <2> QED BY <1>2, <2>1 DEF OwnBytes
<1>6. LengthsInFile'
    <2>1. \A x \in Existing :
              header[x].offset + Sectors(file'[header[x].offset].len + LENGTH_WORD) - 1 \in DOMAIN file'
        <3> SUFFICES ASSUME NEW x \in Existing
                     PROVE  header[x].offset + Sectors(file'[header[x].offset].len + LENGTH_WORD) - 1
                                \in DOMAIN file'
            OBVIOUS
        <3>1. CASE t = header[x].offset
            BY <1>1, <3>1
        <3>2. CASE t # header[x].offset
            BY <1>1, <1>3, <3>2 DEF StoreInv, ContentInv, LengthsInFile
        <3> QED BY <3>1, <3>2
    <2> QED BY <1>2, <2>1 DEF LengthsInFile
<1>7. IntactFits'
    <2>1. \A x \in Existing \ (torn \cup {saving.chunk}) :
              file'[header[x].offset].payload # NoPayload /\ file'[header[x].offset].part = 0 =>
                  Sectors(TotalLen(file'[header[x].offset].payload.data)) <= header[x].count
        BY <1>1, <1>3 DEF StoreInv, ContentInv, IntactFits
    <2> QED BY <1>2, <2>1 DEF IntactFits
<1> QED BY <1>4, <1>5, <1>6, <1>7

LEMMA SaveLengthContent == StoreInv /\ SaveLength => ContentInv'
<1> SUFFICES ASSUME StoreInv, SaveLength PROVE ContentInv'
    OBVIOUS
<1> DEFINE t == saving.block.offset
           old == IF t \in DOMAIN file THEN file[t] ELSE Zero
           content == [old EXCEPT !.len = TotalLen(saving.data) - LENGTH_WORD]
<1>1. /\ saving.at = "length" /\ file' = Put(t, content)
      /\ saving' = [saving EXCEPT !.at = "data"]
      /\ header' = header /\ handle' = handle /\ torn' = torn
    BY DEF SaveLength
<1>2. FileTypeOK /\ Written
    BY DEF StoreInv, FileInv, ContentInv
<1>3. /\ saving'.at = "data" /\ saving'.chunk = saving.chunk /\ saving'.data = saving.data
      /\ saving'.block = saving.block /\ saving'.done = saving.done /\ saving.done = 0
    <2>1. saving.done = 0
        BY <1>1 DEF StoreInv, FileInv, FileCovers
    <2> QED BY <1>1, <1>2, <2>1 DEF FileTypeOK
<1>4. old \in SectorContents
    BY DEF StoreInv, ContentInv, SectorContents, Zero
<1>5. /\ content \in SectorContents /\ content.payload = old.payload /\ content.part = old.part
      /\ content.len = TotalLen(saving.data) - LENGTH_WORD
    <2>1. TotalLen(saving.data) - LENGTH_WORD \in Nat
        BY <1>1, SaveFacts DEF LENGTH_WORD
    <2> HIDE DEF old
    <2> QED BY <1>4, <2>1 DEF SectorContents
<1>6. content.len + LENGTH_WORD = TotalLen(saving.data)
    BY <1>1, <1>5, SaveFacts DEF LENGTH_WORD
<1>7. \A x \in Existing : t \in Span(header[x]) => t \in DOMAIN file /\ x = saving.chunk
    <2>1. t \in Span(saving.block)
        BY <1>1, SaveFacts DEF Span
    <2> QED BY <1>1, <2>1, SaveFacts, ChunkFacts
<1>8. \A x \in Existing : t \in Span(header[x]) =>
          content.payload = NoPayload \/ content.payload.chunk = x
    BY <1>5, <1>7 DEF StoreInv, ContentInv, OwnBytes
<1>9. \A x \in Existing : t = header[x].offset =>
          t + Sectors(content.len + LENGTH_WORD) - 1 \in DOMAIN file
    BY <1>1, <1>2, <1>6, SaveFacts DEF Written
<1>10. \A x \in Existing \ {saving.chunk} : t # header[x].offset
    BY <1>7, ChunkFacts
<1>11. t \in Nat
    BY <1>1, SaveFacts
<1> HIDE DEF t, content
<1>12. /\ \A s \in DOMAIN file' : file'[s] \in SectorContents
       /\ OwnBytes' /\ LengthsInFile' /\ IntactFits'
    BY <1>1, <1>3, <1>5, <1>8, <1>9, <1>10, <1>11, WriteKeepsContent
<1>13. Written'
    <2>1. t \in DOMAIN file' /\ file'[t] = content
        BY <1>1, PutAt
    <2>2. (PartsTo(saving.done))'
        <3>1. 0 .. saving'.done - 1 = {}
            BY <1>3
        <3> QED BY <3>1 DEF PartsTo
    <2> QED BY <1>1, <1>2, <1>3, <1>5, <2>1, <2>2 DEF Written, t
<1> QED BY <1>12, <1>13 DEF ContentInv

LEMMA SaveDataContent == StoreInv /\ SaveData => ContentInv'
<1> SUFFICES ASSUME StoreInv, SaveData PROVE ContentInv'
    OBVIOUS
<1> DEFINE k == saving.done
           t == saving.block.offset + k
           content == [payload |-> mine, part |-> k, len |-> IF k = 0 THEN file[t].len ELSE 0]
<1>1. /\ saving.at = "data" /\ file' = Put(t, content)
      /\ saving' = [saving EXCEPT !.done = k + 1,
                        !.at = IF k + 1 = saving.block.count THEN "padding" ELSE "data"]
      /\ header' = header /\ handle' = handle /\ torn' = torn
    BY DEF SaveData, mine
<1>2. FileTypeOK /\ Written
    BY DEF StoreInv, FileInv, ContentInv
<1>3. /\ saving'.chunk = saving.chunk /\ saving'.data = saving.data
      /\ saving'.block = saving.block /\ saving'.done = k + 1
      /\ saving'.at = IF k + 1 = saving.block.count THEN "padding" ELSE "data"
    BY <1>1, <1>2 DEF FileTypeOK
<1>4. k \in Nat /\ t \in Nat /\ k < saving.block.count
    BY <1>1, SaveFacts
<1>5. /\ saving.block.offset \in DOMAIN file /\ file[saving.block.offset].len \in Nat
      /\ file[saving.block.offset].len = TotalLen(saving.data) - LENGTH_WORD
      /\ PartsTo(k)
    BY <1>1, <1>2 DEF Written, StoreInv, ContentInv, SectorContents
<1>6. content \in SectorContents
    <2>1. k = 0 => t = saving.block.offset
        BY <1>1, SaveFacts
    <2> QED BY <1>1, <1>4, <1>5, <2>1, SaveFacts DEF SectorContents
<1>7. \A x \in Existing : t \in Span(header[x]) => t \in DOMAIN file /\ x = saving.chunk
    <2>1. t \in Span(saving.block)
        BY <1>1, <1>4, SaveFacts DEF Span
    <2> QED BY <1>1, <2>1, SaveFacts, ChunkFacts
<1>8. \A x \in Existing : t \in Span(header[x]) => content.payload.chunk = x
    BY <1>1, <1>7, SaveFacts
<1>9. \A x \in Existing : t = header[x].offset =>
          t + Sectors(content.len + LENGTH_WORD) - 1 \in DOMAIN file
    <2> SUFFICES ASSUME NEW x \in Existing, t = header[x].offset
                 PROVE  t + Sectors(content.len + LENGTH_WORD) - 1 \in DOMAIN file
        OBVIOUS
    <2>1. CASE k = 0
        <3>1. content.len = file[header[x].offset].len
            BY <2>1
        <3> QED BY <3>1 DEF StoreInv, ContentInv, LengthsInFile
    <2>2. CASE k # 0
        <3>1. content.len + LENGTH_WORD = LENGTH_WORD
            BY <2>2 DEF LENGTH_WORD
        <3>2. t + Sectors(content.len + LENGTH_WORD) - 1 = t
            BY <1>4, <3>1, OneSector
        <3> QED BY <3>2, ChunkFacts
    <2> QED BY <2>1, <2>2
<1>10. \A x \in Existing \ {saving.chunk} : t # header[x].offset
    BY <1>7, ChunkFacts
<1>11. content.payload = mine /\ content.part = k
       /\ (k = 0 => content.len = file[saving.block.offset].len)
    BY <1>1, SaveFacts
<1> HIDE DEF content
<1>12. /\ \A s \in DOMAIN file' : file'[s] \in SectorContents
       /\ OwnBytes' /\ LengthsInFile' /\ IntactFits'
    BY <1>1, <1>3, <1>4, <1>6, <1>8, <1>9, <1>10, WriteKeepsContent
<1>13. Written'
    <2>1. /\ DOMAIN file' = DOMAIN file \cup {t} /\ file'[t] = content
          /\ \A s \in DOMAIN file : s # t => file'[s] = file[s]
        BY <1>1, PutAt
    <2>2. mine' = mine
        BY <1>3 DEF mine
    <2>3. \A j \in 0 .. k - 1 : saving.block.offset + j \in DOMAIN file /\ saving.block.offset + j # t
        <3>1. PICK n \in Nat : DOMAIN file = 0 .. n - 1 /\ t <= n
            BY <1>1 DEF StoreInv, FileInv, FileCovers
        <3> QED BY <1>1, <1>4, <3>1, SaveFacts
    <2>4. \A j \in 0 .. k : /\ file'[saving.block.offset + j].payload = mine
                            /\ file'[saving.block.offset + j].part = j
        <3> SUFFICES ASSUME NEW j \in 0 .. k
                     PROVE  /\ file'[saving.block.offset + j].payload = mine
                            /\ file'[saving.block.offset + j].part = j
            OBVIOUS
        <3>1. CASE j = k
            BY <1>11, <2>1, <3>1
        <3>2. CASE j # k
            <4>1. j \in 0 .. k - 1
                BY <1>4, <3>2
            <4> QED BY <1>5, <2>1, <2>3, <4>1 DEF PartsTo
        <3> QED BY <3>1, <3>2
    <2>5. PartsTo(saving.done)' /\ (k + 1 = saving.block.count => PartsTo(saving.block.count)')
        <3>1. saving'.done - 1 = k
            BY <1>3, <1>4
        <3> QED BY <1>3, <2>2, <2>4, <3>1 DEF PartsTo
    <2>6. /\ saving.block.offset \in DOMAIN file'
          /\ file'[saving.block.offset].len = TotalLen(saving.data) - LENGTH_WORD
        <3>1. CASE k = 0
            <4>1. t = saving.block.offset
                BY <1>1, <3>1, SaveFacts
            <4> QED BY <1>5, <1>11, <2>1, <3>1, <4>1
        <3>2. CASE k # 0
            <4>1. t # saving.block.offset
                BY <1>1, <1>4, <3>2, SaveFacts
            <4> QED BY <1>5, <2>1, <4>1
        <3> QED BY <3>1, <3>2
    <2> QED BY <1>1, <1>2, <1>3, <2>5, <2>6 DEF Written
<1> QED BY <1>12, <1>13 DEF ContentInv

LEMMA SavePaddingContent == StoreInv /\ SavePadding => ContentInv'
<1> SUFFICES ASSUME StoreInv, SavePadding PROVE ContentInv'
    OBVIOUS
<1> DEFINE t == saving.block.offset + saving.block.count
<1>1. /\ saving.at = "padding" /\ (file' = Put(t, Zero) \/ file' = file)
      /\ saving' = [saving EXCEPT !.at = "header"]
      /\ header' = header /\ handle' = handle /\ torn' = torn
    BY DEF SavePadding
<1>2. FileTypeOK /\ Written
    BY DEF StoreInv, FileInv, ContentInv
<1>3. /\ saving'.chunk = saving.chunk /\ saving'.data = saving.data
      /\ saving'.block = saving.block /\ saving'.at = "header"
    BY <1>1, <1>2 DEF FileTypeOK
<1>4. Zero \in SectorContents /\ Zero.payload = NoPayload /\ Zero.len + LENGTH_WORD = LENGTH_WORD
    BY DEF Zero, SectorContents, LENGTH_WORD
<1>5. t \in Nat
    BY <1>1, SaveFacts
<1>6. /\ \A s \in DOMAIN file' : file'[s] \in SectorContents
      /\ OwnBytes' /\ LengthsInFile' /\ IntactFits'
    <2>1. CASE file' = Put(t, Zero)
        <3>1. \A x \in Existing : t = header[x].offset =>
                  t + Sectors(Zero.len + LENGTH_WORD) - 1 \in DOMAIN file
            BY <1>4, <1>5, OneSector, ChunkFacts
        <3> QED BY <1>1, <1>3, <1>4, <1>5, <2>1, <3>1, WriteKeepsContent
    <2>2. CASE file' = file
        BY <1>1, <1>3, <2>2
           DEF StoreInv, ContentInv, OwnBytes, LengthsInFile, IntactFits, Existing
    <2> QED BY <1>1, <2>1, <2>2
<1>7. Written'
    <2>1. \A k \in 0 .. saving.block.count - 1 :
              saving.block.offset + k \in DOMAIN file /\ saving.block.offset + k # t
        <3>1. PICK n \in Nat : DOMAIN file = 0 .. n - 1 /\ t <= n
            BY <1>1 DEF StoreInv, FileInv, FileCovers
        <3> QED BY <1>1, <3>1, SaveFacts
    <2>2. \A k \in 0 .. saving.block.count - 1 :
              file'[saving.block.offset + k] = file[saving.block.offset + k]
        BY <1>1, <2>1, PutAt
    <2>3. file'[saving.block.offset] = file[saving.block.offset] /\ saving.block.offset \in DOMAIN file'
        <3>1. 0 \in 0 .. saving.block.count - 1 /\ saving.block.offset + 0 = saving.block.offset
            BY <1>1, SaveFacts
        <3>2. DOMAIN file \subseteq DOMAIN file'
            BY <1>1, PutAt
        <3> QED BY <2>1, <2>2, <3>1, <3>2
    <2>4. PartsTo(saving.block.count)'
        BY <1>1, <1>2, <1>3, <2>2 DEF Written, PartsTo, mine
    <2> QED BY <1>1, <1>2, <1>3, <2>3, <2>4 DEF Written
<1> QED BY <1>6, <1>7 DEF ContentInv

LEMMA SaveBeginContent ==
    ASSUME StoreInv, NEW c \in Chunks, NEW d \in Data, SaveBegin(c, d)
    PROVE  ContentInv'
<1> DEFINE k == Sectors(TotalLen(d))
           block == allocate(Freed(c), handle.len, k)
<1>1. /\ handle.open /\ saving.at = "idle"
      /\ handle'.len = IF block.offset = handle.len THEN handle.len + block.count ELSE handle.len
      /\ saving' = [at |-> "length", chunk |-> c, data |-> d, block |-> block, done |-> 0]
      /\ header' = header /\ file' = file /\ torn' = torn /\ Existing' = Existing
    BY DEF SaveBegin, Existing
<1>2. FileTypeOK /\ saving.chunk = Nothing /\ Nothing \notin Chunks
    BY <1>1, RegionAssumption DEF StoreInv, FileInv, FileTypeOK, Idle
<1>3. block.count = k
    BY DEF allocate
<1> HIDE DEF block
<1>4. PICK n \in Nat : FileCovers(n)
    BY DEF StoreInv, FileInv
<1>5. FileInv'
    BY SaveBeginKeeps DEF StoreInv
<1>6. /\ block.offset \in Nat /\ block.count \in Nat /\ block.count >= 1
      /\ block.offset + block.count <= handle'.len
    <2>1. BlockIsOurs' /\ FileTypeOK'
        BY <1>5 DEF FileInv
    <2>2. saving'.block \in SectorBlock /\ saving'.block.count >= 1
          /\ saving'.block.offset + saving'.block.count <= handle'.len
        BY <1>1, <2>1 DEF BlockIsOurs, FileTypeOK
    <2> QED BY <1>1, <2>2 DEF SectorBlock
<1>7. \/ block.offset + block.count - 1 \in DOMAIN file
      \/ \A x \in Existing : header[x].offset # block.offset
    <2>1. handle.len \in Nat /\ handle.len <= n
        BY <1>1, <1>2, <1>4, TypeFacts DEF FileCovers
    <2>2. CASE block.offset = handle.len
        <3>1. \A x \in Existing : header[x].offset + header[x].count <= handle.len
            BY <1>1, <1>4 DEF FileCovers
        <3> QED BY <2>1, <2>2, <3>1, ChunkFacts
    <2>3. CASE block.offset # handle.len
        <3>1. block.offset + block.count <= handle.len
            BY <1>1, <1>6, <2>3
        <3>2. block.offset + block.count - 1 \in 0 .. n - 1
            BY <1>6, <2>1, <3>1
        <3> QED BY <1>4, <3>2 DEF FileCovers
    <2> QED BY <2>2, <2>3
<1>8. Written'
    BY <1>1, <1>3, <1>7 DEF Written
<1>9. \A s \in DOMAIN file' : file'[s] \in SectorContents
    BY <1>1 DEF StoreInv, ContentInv
<1>10. OwnBytes' /\ LengthsInFile'
    BY <1>1 DEF StoreInv, ContentInv, OwnBytes, LengthsInFile
<1>11. IntactFits'
    <2>1. saving.chunk \notin Existing
        BY <1>2 DEF Existing
    <2> QED BY <1>1, <2>1 DEF StoreInv, ContentInv, IntactFits
<1> QED BY <1>8, <1>9, <1>10, <1>11 DEF ContentInv

(* All its parts are in the file when the header is told of a block.         *)
LEMMA SaveHeaderContent == StoreInv /\ SaveHeader => ContentInv'
<1> SUFFICES ASSUME StoreInv, SaveHeader PROVE ContentInv'
    OBVIOUS
<1> DEFINE c == saving.chunk
           block == saving.block
<1>1. /\ saving.at = "header" /\ header' = [header EXCEPT ![c] = block]
      /\ saving' = Idle /\ torn' = torn \ {c} /\ file' = file
    BY DEF SaveHeader
<1>2. FileTypeOK /\ Written
    BY DEF StoreInv, FileInv, ContentInv
<1>3. /\ header'[c] = block /\ \A x \in Chunks \ {c} : header'[x] = header[x]
      /\ c \in Chunks
    BY <1>1, <1>2, SaveFacts DEF FileTypeOK
<1>4. Existing' \subseteq Existing \cup {c} /\ \A x \in Existing' \ {c} : x \in Existing /\ header'[x] = header[x]
    BY <1>3 DEF Existing
<1>5. /\ block.offset \in Nat /\ block.count \in Nat /\ block.count >= 1
      /\ block.count = Sectors(TotalLen(saving.data))
      /\ PartsTo(block.count) /\ file[block.offset].len = TotalLen(saving.data) - LENGTH_WORD
      /\ file[block.offset].len + LENGTH_WORD = TotalLen(saving.data)
      /\ mine.chunk = c /\ mine.data = saving.data
    BY <1>1, <1>2, SaveFacts DEF Written, LENGTH_WORD, mine
<1> HIDE DEF c, block
<1>6. \A s \in DOMAIN file' : file'[s] \in SectorContents
    BY <1>1 DEF StoreInv, ContentInv
<1>7. file[block.offset].payload = mine
    <2>1. 0 \in 0 .. block.count - 1 /\ block.offset + 0 = block.offset
        BY <1>5
    <2> QED BY <1>5, <2>1 DEF PartsTo, block
<1>8. OwnBytes'
    <2>1. \A s \in Span(block) : file[s].payload.chunk = c
        <3> SUFFICES ASSUME NEW s \in Span(block) PROVE file[s].payload.chunk = c
            OBVIOUS
        <3>1. s - block.offset \in 0 .. block.count - 1 /\ block.offset + (s - block.offset) = s
            BY <1>5 DEF Span
        <3> QED BY <1>5, <3>1 DEF PartsTo, block
    <2>2. \A x \in Existing' : \A s \in Span(header'[x]) :
              file'[s].payload = NoPayload \/ file'[s].payload.chunk = x
        BY <1>1, <1>3, <1>4, <2>1 DEF StoreInv, ContentInv, OwnBytes
    <2> QED BY <2>2 DEF OwnBytes
<1>9. LengthsInFile'
    <2>1. block.offset + Sectors(file[block.offset].len + LENGTH_WORD) - 1 \in DOMAIN file
        <3>1. PICK n \in Nat : DOMAIN file = 0 .. n - 1 /\ block.offset + block.count <= n
            BY <1>1 DEF StoreInv, FileInv, FileCovers, block
        <3> QED BY <1>5, <3>1
    <2>2. \A x \in Existing' :
        header'[x].offset + Sectors(file'[header'[x].offset].len + LENGTH_WORD) - 1 \in DOMAIN file'
        BY <1>1, <1>3, <1>4, <2>1 DEF StoreInv, ContentInv, LengthsInFile
    <2> QED BY <2>2 DEF LengthsInFile
<1>10. IntactFits'
    <2>1. Sectors(TotalLen(file[block.offset].payload.data)) <= block.count
        BY <1>5, <1>7
    <2>2. \A x \in Existing' \ (torn' \cup {saving'.chunk}) :
              file'[header'[x].offset].payload # NoPayload /\ file'[header'[x].offset].part = 0 =>
                  Sectors(TotalLen(file'[header'[x].offset].payload.data)) <= header'[x].count
        <3> SUFFICES ASSUME NEW x \in Existing' \ torn',
                            file'[header'[x].offset].payload # NoPayload, file'[header'[x].offset].part = 0
                     PROVE  Sectors(TotalLen(file'[header'[x].offset].payload.data)) <= header'[x].count
            OBVIOUS
        <3>1. CASE x = c
            BY <1>1, <1>3, <2>1, <3>1
        <3>2. CASE x # c
            <4>1. x \in Existing \ (torn \cup {c}) /\ header'[x] = header[x]
                BY <1>1, <1>4, <3>2
            <4> QED BY <1>1, <4>1 DEF StoreInv, ContentInv, IntactFits, c
        <3> QED BY <3>1, <3>2
    <2> QED BY <2>2 DEF IntactFits
<1>11. Written'
    BY <1>1 DEF Written, Idle
<1> QED BY <1>6, <1>8, <1>9, <1>10, <1>11 DEF ContentInv

LEMMA HandleContent ==
    ASSUME StoreInv, Open \/ Create \/ CreateCut \/ Close \/ Crash
    PROVE  ContentInv'
<1>1. FileTypeOK
    BY DEF StoreInv, FileInv
<1>2. CASE Create
    <2>1. /\ header' = [c \in Chunks |-> NoBlock] /\ file' = EmptyHeader
          /\ saving' = saving /\ ~handle.open
        BY <1>2 DEF Create
    <2>2. Existing' = {} /\ saving.at = "idle"
        BY <2>1 DEF Existing, exists, NoBlock, StoreInv, FileInv, BlockIsOurs
    <2>3. \A s \in DOMAIN file' : file'[s] \in SectorContents
        BY <2>1 DEF EmptyHeader, Zero, SectorContents, StoreInv, ContentInv
    <2> QED BY <2>1, <2>2, <2>3 DEF ContentInv, OwnBytes, LengthsInFile, IntactFits, Written
<1>3. CASE Open \/ Close
    <2>1. header' = header /\ file' = file /\ torn' = torn /\ saving' = saving /\ Existing' = Existing
        BY <1>3 DEF Open, Close, Existing
    <2> QED BY <2>1 DEF StoreInv, ContentInv, OwnBytes, LengthsInFile, IntactFits, Written, PartsTo, mine
<1>4. CASE Crash
    <2>1. /\ header' = header /\ file' = file /\ torn' = torn \cup {saving.chunk} /\ saving' = Idle
          /\ Existing' = Existing
        BY <1>4 DEF Crash, Existing
    <2>2. OwnBytes' /\ LengthsInFile' /\ \A s \in DOMAIN file' : file'[s] \in SectorContents
        BY <2>1 DEF StoreInv, ContentInv, OwnBytes, LengthsInFile
    <2>3. IntactFits'
        BY <2>1 DEF StoreInv, ContentInv, IntactFits
    <2>4. Written'
        BY <2>1 DEF Written, Idle
    <2> QED BY <2>2, <2>3, <2>4 DEF ContentInv
<1>5. CASE CreateCut
    <2>1. PICK wiped \in SUBSET Chunks :
              /\ header' = [c \in Chunks |-> IF c \in wiped THEN NoBlock ELSE header[c]]
              /\ torn' = torn \ wiped
        BY <1>5 DEF CreateCut
    <2>2. file' = file /\ saving' = saving /\ saving.at = "idle"
        BY <1>5 DEF CreateCut, StoreInv, FileInv, BlockIsOurs
    <2>3. \A x \in Existing' : x \in Existing /\ x \notin wiped /\ header'[x] = header[x]
        BY <2>1 DEF Existing, exists, NoBlock
    <2>4. OwnBytes' /\ LengthsInFile' /\ \A s \in DOMAIN file' : file'[s] \in SectorContents
        BY <2>2, <2>3 DEF StoreInv, ContentInv, OwnBytes, LengthsInFile
    <2>5. IntactFits'
        BY <2>1, <2>2, <2>3 DEF StoreInv, ContentInv, IntactFits
    <2>6. Written'
        BY <2>2 DEF Written
    <2> QED BY <2>4, <2>5, <2>6 DEF ContentInv
<1> QED BY <1>2, <1>3, <1>4, <1>5

LEMMA StoreInvInit == Init => StoreInv
<1> SUFFICES ASSUME Init PROVE StoreInv
    OBVIOUS
<1>1. Existing = {}
    BY DEF Init, Existing, exists, NoBlock
<1>2. DOMAIN file = {} /\ saving.at = "idle"
    BY DEF Init, Idle
<1>3. ContentInv
    BY <1>1, <1>2 DEF ContentInv, OwnBytes, LengthsInFile, IntactFits, Written
<1> QED BY <1>3, FileInvInit DEF StoreInv

LEMMA StoreInvStep == StoreInv /\ [Next]_filevars => StoreInv'
<1> SUFFICES ASSUME StoreInv, [Next]_filevars PROVE StoreInv'
    OBVIOUS
<1>1. FileInv'
    BY FileInvStep DEF StoreInv
<1>2. CASE UNCHANGED filevars
    <2>1. header' = header /\ file' = file /\ torn' = torn /\ saving' = saving /\ Existing' = Existing
        BY <1>2 DEF filevars, Existing
    <2>2. ContentInv'
        BY <2>1 DEF StoreInv, ContentInv, OwnBytes, LengthsInFile, IntactFits, Written, PartsTo, mine
    <2> QED BY <1>1, <2>2 DEF StoreInv
<1>3. CASE Next
    <2>1. ContentInv'
        BY <1>3, SaveBeginContent, SaveLengthContent, SaveDataContent, SavePaddingContent,
           SaveHeaderContent, HandleContent DEF Next
    <2> QED BY <1>1, <2>1 DEF StoreInv
<1> QED BY <1>2, <1>3

-----------------------------------------------------------------------------
(* A write elsewhere leaves a chunk that loads loading as it did.            *)
LEMMA LoadsKept ==
    ASSUME StoreInv, NEW t, NEW content, file' = Put(t, content), header' = header,
           NEW x \in Existing, NEW d \in Data, Loads(x, d), t \notin Reads(x, d)
    PROVE  Loads(x, d)'
<1>1. \A s \in DOMAIN file : s # t => file'[s] = file[s]
    BY PutAt
<1>2. Reads(x, d) \subseteq DOMAIN file /\ Sectors(TotalLen(d)) \in Nat /\ Sectors(TotalLen(d)) >= 1
    BY ReadsInFile DEF Loads
<1>3. \A s \in Reads(x, d) : file'[s] = file[s]
    BY <1>1, <1>2
<1>4. header[x].offset \in Nat
    BY ChunkFacts
<1>5. \A k \in 0 .. Sectors(TotalLen(d)) - 1 : header[x].offset + k \in Reads(x, d)
    BY <1>2, <1>4 DEF Reads
<1>6. file'[header[x].offset] = file[header[x].offset]
    <2>1. header[x].offset \in Reads(x, d)
        BY <1>2, <1>4 DEF Reads
    <2> QED BY <1>3, <2>1
<1>7. \A k \in 1 .. Sectors(TotalLen(d)) - 1 : file'[header[x].offset + k] = file[header[x].offset + k]
    BY <1>2, <1>3, <1>5
<1> QED BY <1>6, <1>7 DEF Loads

(* A write of something else makes no chunk load that did not.               *)
LEMMA NoNewLoads ==
    ASSUME StoreInv, NEW t, NEW content, file' = Put(t, content), header' = header,
           NEW x \in Existing, NEW d \in Data, Loads(x, d)',
           content.payload # [chunk |-> x, data |-> d]
    PROVE  Loads(x, d) /\ t \notin Reads(x, d)
<1> DEFINE o == header[x].offset
<1>1. file'[t] = content /\ \A s \in DOMAIN file : s # t => file'[s] = file[s]
    BY PutAt
<1>2. /\ file'[o].payload = [chunk |-> x, data |-> d] /\ file'[o].part = 0
      /\ file'[o].len >= TotalLen(d) - LENGTH_WORD
      /\ \A k \in 1 .. Sectors(TotalLen(d)) - 1 :
             file'[o + k].payload = [chunk |-> x, data |-> d] /\ file'[o + k].part = k
    BY DEF Loads
<1>3. o \in Nat /\ o \in DOMAIN file
    BY ChunkFacts
<1>4. o # t
    BY <1>1, <1>2
<1>5. file'[o] = file[o]
    BY <1>1, <1>3, <1>4
<1>6. Reads(x, d) \subseteq DOMAIN file /\ Sectors(TotalLen(d)) \in Nat
    BY <1>2, <1>5, ReadsInFile
<1>7. \A k \in 1 .. Sectors(TotalLen(d)) - 1 : o + k # t /\ file'[o + k] = file[o + k]
    <2> SUFFICES ASSUME NEW k \in 1 .. Sectors(TotalLen(d)) - 1
                 PROVE  o + k # t /\ file'[o + k] = file[o + k]
        OBVIOUS
    <2>1. o + k \in Reads(x, d)
        BY <1>3, <1>6 DEF Reads
    <2>2. o + k # t
        BY <1>1, <1>2
    <2> QED BY <1>1, <1>6, <2>1, <2>2
<1>8. Loads(x, d)
    BY <1>2, <1>5, <1>7 DEF Loads
<1>9. t \notin Reads(x, d)
    <2> SUFFICES ASSUME t \in Reads(x, d) PROVE FALSE
        OBVIOUS
    <2>1. t - o \in 1 .. Sectors(TotalLen(d)) - 1 /\ o + (t - o) = t
        BY <1>3, <1>4, <1>6 DEF Reads
    <2> QED BY <1>7, <2>1
<1> QED BY <1>8, <1>9

(* A sector belongs to what one chunk loads as, at most.                     *)
LEMMA ReadPayload ==
    ASSUME StoreInv, NEW x \in Existing, NEW d \in Data, Loads(x, d), NEW t \in Reads(x, d)
    PROVE  /\ file[t].payload = [chunk |-> x, data |-> d] /\ file[t].part = t - header[x].offset
           /\ t \in DOMAIN file /\ t \in Nat
<1>1. header[x].offset \in Nat
    BY ChunkFacts
<1>2. Reads(x, d) \subseteq DOMAIN file /\ Sectors(TotalLen(d)) \in Nat
    BY ReadsInFile DEF Loads
<1>3. CASE t = header[x].offset
    BY <1>1, <1>2, <1>3 DEF Loads
<1>4. CASE t # header[x].offset
    <2>1. t - header[x].offset \in 1 .. Sectors(TotalLen(d)) - 1 /\ header[x].offset + (t - header[x].offset) = t
        BY <1>1, <1>2, <1>4 DEF Reads
    <2> QED BY <1>1, <1>2, <2>1 DEF Loads, Reads
<1> QED BY <1>3, <1>4

(* What a chunk loads as after a step that keeps the header.                 *)
LoadsDecide ==
    \A x \in Existing : /\ \A d \in Data : Loads(x, d) => Stored(x) = d
                        /\ (\A d \in Data : ~ Loads(x, d)) => Stored(x) = Broken
                        /\ Stored(x) \in Data \cup {Broken}

LEMMA LoadsDecideNow == StoreInv => LoadsDecide
BY StoredIs DEF LoadsDecide

LEMMA LoadsDecideNext == StoreInv' => LoadsDecide'
BY LoadsDecideNow, PTL

LEMMA StoredAfter ==
    ASSUME StoreInv', header' = header, NEW x \in Existing
    PROVE  /\ \A d \in Data : Loads(x, d)' => Stored(x)' = d
           /\ (\A d \in Data : ~ Loads(x, d)') => Stored(x)' = Broken
           /\ Stored(x)' \in Data \cup {Broken}
<1>1. x \in Existing'
    BY DEF Existing
<1>2. LoadsDecide'
    BY LoadsDecideNext
<1> QED BY <1>1, <1>2 DEF LoadsDecide

LEMMA StoredKept ==
    ASSUME StoreInv, StoreInv', header' = header, NEW x \in Existing,
           \A d \in Data : Loads(x, d)' <=> Loads(x, d)
    PROVE  Stored(x)' = Stored(x)
<1>1. CASE \E d \in Data : Loads(x, d)
    BY <1>1, StoredIs, StoredAfter
<1>2. CASE \A d \in Data : ~ Loads(x, d)
    BY <1>2, StoredIs, StoredAfter
<1> QED BY <1>1, <1>2

-----------------------------------------------------------------------------
(* The abstract state, as IsRegionStore maps it.                             *)
stored == [c \in Chunks |-> Stored(c)]
job == IF saving.at = "idle" THEN Nothing ELSE [chunk |-> saving.chunk, data |-> saving.data]

StoredSame(x) == Stored(x)' = Stored(x)

\* The steps of a save that leave the header and the job as they were.
WritesOn ==
    /\ saving.at # "idle" /\ saving'.at # "idle"
    /\ saving'.chunk = saving.chunk /\ saving'.data = saving.data
    /\ header' = header /\ torn' = torn /\ handle' = handle

LEMMA JobFacts ==
    ASSUME StoreInv, saving.at # "idle"
    PROVE  job # Nothing /\ job = mine /\ job.chunk = saving.chunk /\ job.data = saving.data
<1>1. job = mine
    BY DEF job, mine
<1>2. mine \in Payloads
    BY SaveFacts
<1> QED BY <1>1, <1>2, RegionAssumption DEF Payloads, mine

LEMMA MissingStays ==
    ASSUME header' = header, NEW x \in Chunks \ Existing
    PROVE  StoredSame(x)
<1>1. ~exists(header[x]) /\ ~exists(header'[x])
    BY DEF Existing
<1> QED BY <1>1 DEF StoredSame, Stored, load_chunk

(* Nothing loads differently: a stuttering step.                             *)
LEMMA Stutters ==
    ASSUME handle' = handle, job' = job, torn' = torn, \A x \in Chunks : StoredSame(x)
    PROVE  UNCHANGED Store!storevars
BY DEF Store!storevars, StoredSame, job

(* Only what the chunk under way loads as has changed.                       *)
LEMMA Progresses ==
    ASSUME StoreInv, StoreInv', WritesOn, \A x \in Chunks \ {saving.chunk} : StoredSame(x)
    PROVE  [Store!Next]_(Store!storevars)
<1>0. PICK c \in Chunks : c = saving.chunk
    BY SaveFacts DEF WritesOn
<1>1. job # Nothing /\ job.chunk = c
    BY <1>0, JobFacts DEF WritesOn
<1>2. job' = job /\ torn' = torn /\ handle' = handle
    BY DEF WritesOn, job
<1>3. CASE c \in Existing
    <2>1. Stored(c)' \in Data \cup {Broken}
        BY <1>3, StoredAfter DEF WritesOn
    <2>2. stored' = [stored EXCEPT ![c] = Stored(c)']
        BY <1>0 DEF stored, StoredSame
    <2>3. Store!Progress
        BY <1>0, <1>1, <1>2, <2>1, <2>2 DEF Store!Progress, stored, job
    <2> QED BY <2>3 DEF Store!Next
<1>4. CASE c \notin Existing
    <2>1. StoredSame(c)
        BY <1>4, MissingStays DEF WritesOn
    <2>4. \A x \in Chunks : StoredSame(x)
        BY <1>0, <2>1
    <2> QED BY <1>2, <2>4, Stutters
<1> QED BY <1>3, <1>4

(* One other chunk breaks.                                                   *)
LEMMA Breaks ==
    ASSUME StoreInv, StoreInv', WritesOn, NEW b \in Chunks, b # saving.chunk,
           b \in torn \/ TotalLen(saving.data) % SectorBytes = 0,
           Stored(b)' = Broken, \A x \in Chunks \ {b} : StoredSame(x)
    PROVE  Store!Next
<1>1. job # Nothing /\ job.chunk = saving.chunk /\ job.data = saving.data
    BY JobFacts DEF WritesOn
<1>2. job' = job /\ torn' = torn /\ handle' = handle
    BY DEF WritesOn, job
<1>3. stored' = [stored EXCEPT ![b] = Broken]
    BY DEF stored, StoredSame
<1>4. Store!Break(b)
    BY <1>1, <1>2, <1>3 DEF Store!Break, stored, job
<1> QED BY <1>4 DEF Store!Next

(* The length word changes what no other chunk loads as.                     *)
LEMMA SaveLengthStores ==
    StoreInv /\ StoreInv' /\ SaveLength => [Store!Next]_(Store!storevars)
<1> SUFFICES ASSUME StoreInv, StoreInv', SaveLength PROVE [Store!Next]_(Store!storevars)
    OBVIOUS
<1> DEFINE t == saving.block.offset
           old == IF t \in DOMAIN file THEN file[t] ELSE Zero
           content == [old EXCEPT !.len = TotalLen(saving.data) - LENGTH_WORD]
<1>1. /\ saving.at = "length" /\ file' = Put(t, content)
      /\ saving' = [saving EXCEPT !.at = "data"] /\ header' = header /\ torn' = torn
    BY DEF SaveLength
<1>2. WritesOn
    BY <1>1 DEF SaveLength, WritesOn, StoreInv, FileInv, FileTypeOK
<1>3. content.payload = old.payload /\ content.part = old.part
    <2>1. old \in SectorContents
        BY DEF StoreInv, ContentInv, SectorContents, Zero
    <2> HIDE DEF old
    <2> QED BY <2>1 DEF SectorContents
<1>4. /\ file'[t] = content /\ \A s \in DOMAIN file : s # t => file'[s] = file[s]
    <2> HIDE DEF t, content
    <2> QED BY <1>1, PutAt
<1>5. \A s \in DOMAIN file : file'[s].payload = file[s].payload /\ file'[s].part = file[s].part
    BY <1>3, <1>4
<1>6. NoPayload \notin Payloads /\ (t \notin DOMAIN file => content.payload = NoPayload)
    BY <1>3, RegionAssumption DEF Zero, NoPayload, Payloads
<1>7. ASSUME NEW x \in Existing, x # saving.chunk PROVE StoredSame(x)
    <2> DEFINE o == header[x].offset
    <2>1. o \in DOMAIN file /\ o # t /\ o \in Nat /\ x \in Chunks
        <3>1. t \in Span(saving.block)
            BY <1>1, SaveFacts DEF Span
        <3> QED BY <1>1, <1>7, <3>1, ChunkFacts, SaveFacts
    <2>2. file'[o] = file[o]
        BY <1>4, <2>1
    <2>3. \A d \in Data : Loads(x, d) => Loads(x, d)'
        <3> SUFFICES ASSUME NEW d \in Data, Loads(x, d) PROVE Loads(x, d)'
            OBVIOUS
        <3>1. Reads(x, d) \subseteq DOMAIN file /\ Sectors(TotalLen(d)) \in Nat
            BY ReadsInFile DEF Loads
        <3>2. \A k \in 1 .. Sectors(TotalLen(d)) - 1 : o + k \in DOMAIN file
            BY <2>1, <3>1 DEF Reads
        <3> QED BY <1>1, <1>5, <2>2, <3>2 DEF Loads
    <2>4. \A d \in Data : Loads(x, d)' => Loads(x, d)
        <3> SUFFICES ASSUME NEW d \in Data, Loads(x, d)' PROVE Loads(x, d)
            OBVIOUS
        <3>0. [chunk |-> x, data |-> d] # NoPayload
            BY <1>6, <2>1 DEF Payloads
        <3>1. CASE t \in DOMAIN file
            <4>1. Reads(x, d) \subseteq DOMAIN file /\ Sectors(TotalLen(d)) \in Nat
                BY <1>1, <2>2, ReadsInFile DEF Loads
            <4>2. \A k \in 1 .. Sectors(TotalLen(d)) - 1 : o + k \in DOMAIN file
                BY <2>1, <4>1 DEF Reads
            <4> QED BY <1>1, <1>5, <2>2, <4>2 DEF Loads
        <3>2. CASE t \notin DOMAIN file
            <4>1. content.payload # [chunk |-> x, data |-> d]
                BY <1>6, <3>0, <3>2
            <4> HIDE DEF content, t
            <4> QED BY <1>1, <4>1, NoNewLoads
        <3> QED BY <3>1, <3>2
    <2>5. Stored(x)' = Stored(x)
        BY <1>1, <2>3, <2>4, StoredKept
    <2> QED BY <2>5 DEF StoredSame
<1>8. \A x \in Chunks \ {saving.chunk} : StoredSame(x)
    BY <1>1, <1>7, MissingStays
<1> QED BY <1>2, <1>8, Progresses

(* Data written over what a torn chunk still loads as breaks it; that happens *)
(* at the first sector of a block at most, when its own chunk is not yet      *)
(* affected by it.                                                            *)
LEMMA SaveDataStores ==
    StoreInv /\ StoreInv' /\ SaveData => [Store!Next]_(Store!storevars)
<1> SUFFICES ASSUME StoreInv, StoreInv', SaveData PROVE [Store!Next]_(Store!storevars)
    OBVIOUS
<1> DEFINE k == saving.done
           t == saving.block.offset + k
           content == [payload |-> mine, part |-> k, len |-> IF k = 0 THEN file[t].len ELSE 0]
<1>1. /\ saving.at = "data" /\ file' = Put(t, content)
      /\ saving' = [saving EXCEPT !.done = k + 1,
                        !.at = IF k + 1 = saving.block.count THEN "padding" ELSE "data"]
      /\ header' = header /\ torn' = torn
    BY DEF SaveData, mine
<1>2. WritesOn
    BY <1>1 DEF SaveData, WritesOn, StoreInv, FileInv, FileTypeOK
<1>0. PICK c \in Chunks : c = saving.chunk
    BY <1>1, SaveFacts
<1>3. /\ k \in Nat /\ t \in Nat /\ k < saving.block.count /\ saving.block.offset \in Nat
      /\ t \in Span(saving.block) /\ saving.block.offset \in Span(saving.block)
      /\ mine = [chunk |-> c, data |-> saving.data] /\ PartsTo(k)
    <2>1. PartsTo(k)
        BY <1>1 DEF StoreInv, ContentInv, Written
    <2> QED BY <1>0, <1>1, <2>1, SaveFacts DEF Span, mine
<1>4. \A x \in Existing : Span(header[x]) \cap Span(saving.block) # {} => x = c
    BY <1>0, <1>1, SaveFacts
<1>5. content.payload = mine /\ content.part = k
    OBVIOUS
<1> HIDE DEF content
<1>6. ASSUME NEW x \in Existing, NEW d \in Data, t \notin Reads(x, d), Loads(x, d)
      PROVE  Loads(x, d)'
    <2> HIDE DEF t
    <2> QED BY <1>1, <1>6, LoadsKept
<1>7. ASSUME NEW x \in Existing, NEW d \in Data, x # c, Loads(x, d)'
      PROVE  Loads(x, d) /\ t \notin Reads(x, d)
    <2>1. content.payload # [chunk |-> x, data |-> d]
        BY <1>3, <1>5, <1>7
    <2> HIDE DEF t
    <2> QED BY <1>1, <1>7, <2>1, NoNewLoads
<1>8. CASE \A x \in Existing \ {c}, d \in Data : Loads(x, d) => t \notin Reads(x, d)
    <2>1. \A x \in Existing \ {c}, d \in Data : Loads(x, d)' <=> Loads(x, d)
        BY <1>6, <1>7, <1>8
    <2>2. \A x \in Existing \ {c} : StoredSame(x)
        BY <1>1, <2>1, StoredKept DEF StoredSame
    <2>3. \A x \in Chunks \ {c} : StoredSame(x)
        BY <1>1, <2>2, MissingStays
    <2> QED BY <1>0, <1>2, <2>3, Progresses
<1>9. CASE \E x \in Existing \ {c}, d \in Data : Loads(x, d) /\ t \in Reads(x, d)
    <2>1. PICK b \in Existing \ {c}, d \in Data : Loads(b, d) /\ t \in Reads(b, d)
        BY <1>9
    <2> DEFINE o == header[b].offset
    <2>2. /\ o \in Nat /\ o \in Span(header[b]) /\ b \in Chunks
          /\ file[t].payload = [chunk |-> b, data |-> d]
          /\ Sectors(TotalLen(d)) \in Nat /\ Sectors(TotalLen(d)) >= 1
        BY <2>1, ChunkFacts, ReadPayload, ReadsInFile DEF Loads
    <2>3. o \notin Span(saving.block) /\ t \notin Span(header[b])
        BY <1>3, <1>4, <2>1, <2>2
    <2>4. k = 0
        <3> SUFFICES ASSUME k # 0 PROVE FALSE
            OBVIOUS
        <3>1. o < saving.block.offset
            <4>1. o <= t
                BY <1>3, <2>1, <2>2 DEF Reads
            <4>2. saving.block.count \in Nat
                BY <1>1, SaveFacts
            <4> QED BY <1>3, <2>2, <2>3, <4>1, <4>2 DEF Span
        <3>2. saving.block.offset \in Reads(b, d)
            BY <1>3, <2>1, <2>2, <3>1 DEF Reads
        <3>3. file[saving.block.offset].payload = [chunk |-> b, data |-> d]
            BY <2>1, <3>2, ReadPayload
        <3>4. 0 \in 0 .. k - 1 /\ saving.block.offset + 0 = saving.block.offset
            BY <1>3
        <3>5. file[saving.block.offset].payload = mine
            BY <1>3, <3>4 DEF PartsTo
        <3> QED BY <1>3, <2>1, <3>3, <3>5
    <2>5. b \in torn
        <3> SUFFICES ASSUME b \notin torn PROVE FALSE
            OBVIOUS
        <3>1. /\ file[o].payload = [chunk |-> b, data |-> d] /\ file[o].part = 0
              /\ file[o].payload # NoPayload
            BY <2>1, <2>2, RegionAssumption DEF Loads, NoPayload
        <3>2. Sectors(TotalLen(d)) <= header[b].count
            BY <1>0, <2>1, <3>1 DEF StoreInv, ContentInv, IntactFits
        <3>3. Reads(b, d) \subseteq Span(header[b])
            BY <2>1, <2>2, <3>2, ChunkFacts DEF Reads, Span
        <3> QED BY <2>1, <2>3, <3>3
    <2>6. Stored(b)' = Broken
        <3>1. \A e \in Data : ~ Loads(b, e)'
            <4> SUFFICES ASSUME NEW e \in Data, Loads(b, e)' PROVE FALSE
                OBVIOUS
            <4>1. Loads(b, e) /\ t \notin Reads(b, e)
                BY <1>7, <2>1
            <4>2. d = e
                BY <2>1, <4>1 DEF Loads
            <4> QED BY <2>1, <4>1, <4>2
        <3> QED BY <1>1, <2>1, <3>1, StoredAfter
    <2>7. ASSUME NEW y \in Existing, y # b, NEW e \in Data, Loads(y, e)
          PROVE  t \notin Reads(y, e)
        <3> SUFFICES ASSUME t \in Reads(y, e) PROVE FALSE
            OBVIOUS
        <3>1. file[t].payload = [chunk |-> y, data |-> e]
            BY <2>7, ReadPayload
        <3> QED BY <2>2, <2>7, <3>1
    <2>8. ASSUME NEW e \in Data, c \in Existing, Loads(c, e)'
          PROVE  Loads(c, e)
        <3> DEFINE s == header[c].offset
        <3>1. s \in Nat /\ s \in DOMAIN file
            BY <2>8, ChunkFacts
        <3>2. s # t
            <4> SUFFICES ASSUME s = t PROVE FALSE
                OBVIOUS
            <4>1. file[s].payload = NoPayload \/ file[s].payload.chunk = c
                BY <2>8, ChunkFacts DEF StoreInv, ContentInv, OwnBytes
            <4>2. file[s].payload = [chunk |-> b, data |-> d] /\ file[s].payload # NoPayload
                BY <2>2, RegionAssumption DEF NoPayload
            <4> QED BY <2>1, <4>1, <4>2
        <3>3. file'[t] = content /\ \A i \in DOMAIN file : i # t => file'[i] = file[i]
            <4> HIDE DEF t
            <4> QED BY <1>1, PutAt
        <3>4. file'[s] = file[s]
            BY <3>1, <3>2, <3>3
        <3>5. file[s].len >= TotalLen(e) - LENGTH_WORD
            BY <1>1, <2>8, <3>4 DEF Loads
        <3>6. Reads(c, e) \subseteq DOMAIN file /\ Sectors(TotalLen(e)) \in Nat
            BY <2>8, <3>5, ReadsInFile
        <3>7. \A j \in 1 .. Sectors(TotalLen(e)) - 1 : s + j # t /\ s + j \in DOMAIN file
            <4> SUFFICES ASSUME NEW j \in 1 .. Sectors(TotalLen(e)) - 1
                         PROVE  s + j # t /\ s + j \in DOMAIN file
                OBVIOUS
            <4>1. file'[s + j].part = j
                BY <1>1, <2>8 DEF Loads
            <4>2. s + j \in Reads(c, e)
                BY <3>1, <3>6 DEF Reads
            <4> QED BY <1>5, <2>4, <3>3, <3>6, <4>1, <4>2
        <3> QED BY <1>1, <2>8, <3>3, <3>4, <3>7 DEF Loads
    <2>9. \A y \in Existing \ {b}, e \in Data : Loads(y, e)' <=> Loads(y, e)
        BY <1>6, <1>7, <2>7, <2>8
    <2>10. \A y \in Existing \ {b} : StoredSame(y)
        BY <1>1, <2>9, StoredKept DEF StoredSame
    <2>11. \A y \in Chunks \ {b} : StoredSame(y)
        BY <1>1, <2>10, MissingStays
    <2> QED BY <1>0, <1>2, <2>1, <2>2, <2>5, <2>6, <2>11, Breaks
<1> QED BY <1>8, <1>9

(* A sector of padding past the block breaks the chunk that counted on it.   *)
LEMMA SavePaddingStores ==
    StoreInv /\ StoreInv' /\ SavePadding => [Store!Next]_(Store!storevars)
<1> SUFFICES ASSUME StoreInv, StoreInv', SavePadding PROVE [Store!Next]_(Store!storevars)
    OBVIOUS
<1> DEFINE t == saving.block.offset + saving.block.count
<1>1. /\ saving.at = "padding" /\ saving' = [saving EXCEPT !.at = "header"]
      /\ header' = header /\ torn' = torn
      /\ \/ file' = file
         \/ file' = Put(t, Zero) /\ Padding(saving.data) = SectorBytes
    BY DEF SavePadding
<1>2. WritesOn
    BY <1>1 DEF SavePadding, WritesOn, StoreInv, FileInv, FileTypeOK
<1>0. PICK c \in Chunks : c = saving.chunk
    BY <1>1, SaveFacts
<1>3. CASE file' = file
    <2>1. \A x \in Existing, d \in Data : Loads(x, d)' <=> Loads(x, d)
        BY <1>1, <1>3 DEF Loads
    <2>2. \A x \in Existing : StoredSame(x)
        BY <1>1, <2>1, StoredKept DEF StoredSame
    <2>3. \A x \in Chunks : StoredSame(x)
        BY <1>1, <2>2, MissingStays
    <2> QED BY <1>2, <2>3, Progresses
<1>4. CASE file' = Put(t, Zero) /\ Padding(saving.data) = SectorBytes
    <2>1. TotalLen(saving.data) % SectorBytes = 0
        <3>1. \A l, m \in Nat : m > 4 => l % m \in Nat
            OBVIOUS
        <3>2. TotalLen(saving.data) \in Nat /\ SectorBytes \in Nat /\ SectorBytes > 4
            BY <1>1, SaveFacts, RegionAssumption
        <3>3. TotalLen(saving.data) % SectorBytes \in Nat
            BY <3>1, <3>2
        <3>4. SectorBytes - (TotalLen(saving.data) % SectorBytes) = SectorBytes
            BY <1>4 DEF Padding
        <3> QED BY <3>2, <3>3, <3>4
    <2>2. ASSUME NEW x \in Existing, NEW d \in Data, Loads(x, d)'
          PROVE  Loads(x, d) /\ t \notin Reads(x, d)
        <3>1. Zero.payload # [chunk |-> x, data |-> d]
            BY ChunkFacts, RegionAssumption DEF Zero, NoPayload
        <3> HIDE DEF t
        <3> QED BY <1>1, <1>4, <2>2, <3>1, NoNewLoads
    <2>3. ASSUME NEW x \in Existing, NEW d \in Data, t \notin Reads(x, d), Loads(x, d)
          PROVE  Loads(x, d)'
        <3> HIDE DEF t
        <3> QED BY <1>1, <1>4, <2>3, LoadsKept
    <2>4. CASE \A x \in Existing, d \in Data : Loads(x, d) => t \notin Reads(x, d)
        <3>1. \A x \in Existing : StoredSame(x)
            BY <1>1, <2>2, <2>3, <2>4, StoredKept DEF StoredSame
        <3>2. \A x \in Chunks : StoredSame(x)
            BY <1>1, <3>1, MissingStays
        <3> QED BY <1>2, <3>2, Progresses
    <2>5. CASE \E x \in Existing, d \in Data : Loads(x, d) /\ t \in Reads(x, d)
        <3>1. PICK b \in Existing, d \in Data : Loads(b, d) /\ t \in Reads(b, d)
            BY <2>5
        <3>2. file[t].payload = [chunk |-> b, data |-> d] /\ b \in Chunks
            BY <3>1, ReadPayload, ChunkFacts
        <3>3. \A y \in Existing \ {b}, e \in Data : Loads(y, e) => t \notin Reads(y, e)
            <4> SUFFICES ASSUME NEW y \in Existing \ {b}, NEW e \in Data,
                                Loads(y, e), t \in Reads(y, e)
                         PROVE  FALSE
                OBVIOUS
            <4>1. file[t].payload = [chunk |-> y, data |-> e]
                BY ReadPayload
            <4> QED BY <3>2, <4>1
        <3>4. \A y \in Existing \ {b} : StoredSame(y)
            BY <1>1, <2>2, <2>3, <3>3, StoredKept DEF StoredSame
        <3>5. \A y \in Chunks \ {b} : StoredSame(y)
            BY <1>1, <3>4, MissingStays
        <3>6. CASE b = c
            BY <1>0, <1>2, <3>5, <3>6, Progresses
        <3>7. CASE b # c
            <4>1. \A e \in Data : ~ Loads(b, e)'
                <5> SUFFICES ASSUME NEW e \in Data, Loads(b, e)' PROVE FALSE
                    OBVIOUS
                <5>1. Loads(b, e) /\ t \notin Reads(b, e)
                    BY <2>2, <3>1
                <5>2. d = e
                    BY <3>1, <5>1 DEF Loads
                <5> QED BY <3>1, <5>1, <5>2
            <4>2. Stored(b)' = Broken
                BY <1>1, <3>1, <4>1, StoredAfter
            <4> QED BY <1>0, <1>2, <2>1, <3>2, <3>5, <3>7, <4>2, Breaks
        <3> QED BY <3>6, <3>7
    <2> QED BY <2>4, <2>5
<1> QED BY <1>1, <1>3, <1>4

LEMMA SaveHeaderStores ==
    StoreInv /\ StoreInv' /\ SaveHeader => Store!Next
<1> SUFFICES ASSUME StoreInv, StoreInv', SaveHeader PROVE Store!Next
    OBVIOUS
<1> DEFINE block == saving.block
<1>1. /\ saving.at = "header" /\ header' = [header EXCEPT ![saving.chunk] = block]
      /\ saving' = Idle /\ torn' = torn \ {saving.chunk} /\ file' = file /\ handle' = handle
    BY DEF SaveHeader
<1>0. PICK c \in Chunks, d \in Data : c = saving.chunk /\ d = saving.data
    BY <1>1, SaveFacts
<1>2. FileTypeOK /\ Written
    BY DEF StoreInv, FileInv, ContentInv
<1>3. header'[c] = block /\ \A x \in Chunks \ {c} : header'[x] = header[x]
    BY <1>0, <1>1, <1>2 DEF FileTypeOK
<1>4. /\ d \in Data /\ mine = [chunk |-> c, data |-> d]
      /\ block.offset \in Nat /\ block.count \in Nat /\ block.count >= 1 /\ block.offset >= 2
      /\ block.count = Sectors(TotalLen(d)) /\ TotalLen(d) \in Nat
      /\ PartsTo(block.count) /\ file[block.offset].len = TotalLen(d) - LENGTH_WORD
    BY <1>0, <1>1, <1>2, SaveFacts DEF Written, mine
<1>5. c \in Existing'
    BY <1>3, <1>4 DEF Existing, exists
<1>6. Loads(c, d)'
    <2>0. \A k \in 0 .. block.count - 1 : /\ file[block.offset + k].payload = [chunk |-> c, data |-> d]
                                        /\ file[block.offset + k].part = k
        BY <1>4 DEF PartsTo
    <2>1. file[block.offset].payload = [chunk |-> c, data |-> d] /\ file[block.offset].part = 0
        <3>1. 0 \in 0 .. block.count - 1 /\ block.offset + 0 = block.offset
            BY <1>4
        <3> QED BY <2>0, <3>1
    <2>2. \A k \in 1 .. Sectors(TotalLen(d)) - 1 :
              /\ file[block.offset + k].payload = [chunk |-> c, data |-> d]
              /\ file[block.offset + k].part = k
        <3>1. \A k \in 1 .. Sectors(TotalLen(d)) - 1 : k \in 0 .. block.count - 1
            BY <1>4
        <3> QED BY <2>0, <3>1
    <2>3. file[block.offset].len >= TotalLen(d) - LENGTH_WORD
        BY <1>4 DEF LENGTH_WORD
    <2> QED BY <1>1, <1>3, <2>1, <2>2, <2>3 DEF Loads
<1>7. Stored(c)' = d
    BY <1>5, <1>6, LoadsDecideNext DEF LoadsDecide
<1>8. ASSUME NEW x \in Chunks, x # c PROVE StoredSame(x)
    <2>1. header'[x] = header[x] /\ file' = file
        BY <1>1, <1>3, <1>8
    <2> QED BY <2>1 DEF StoredSame, Stored, load_chunk, Decodes, exists
<1>9. stored' = [stored EXCEPT ![c] = d]
    BY <1>7, <1>8 DEF stored, StoredSame
<1>10. /\ job # Nothing /\ job.chunk = c /\ job.data = d /\ job' = Nothing
       /\ torn' = torn \ {c}
    BY <1>0, <1>1, JobFacts DEF job, Idle
<1>11. Store!End
    BY <1>1, <1>9, <1>10 DEF Store!End, stored, job
<1> QED BY <1>11 DEF Store!Next

(* A save that begins writes nothing yet.                                    *)
LEMMA SaveBeginStores ==
    ASSUME StoreInv, NEW c \in Chunks, NEW d \in Data, SaveBegin(c, d)
    PROVE  Store!Next
<1> DEFINE block == allocate(Freed(c), handle.len, Sectors(TotalLen(d)))
<1>1. /\ saving.at = "idle" /\ header' = header /\ file' = file /\ torn' = torn
      /\ handle.open /\ handle'.open
      /\ saving' = [at |-> "length", chunk |-> c, data |-> d, block |-> block, done |-> 0]
    BY DEF SaveBegin
<1> HIDE DEF block
<1>2. \A x \in Chunks : StoredSame(x)
    BY <1>1 DEF StoredSame, Stored, load_chunk, Decodes
<1>3. stored' = stored /\ job = Nothing /\ job' = [chunk |-> c, data |-> d]
    BY <1>1, <1>2 DEF stored, StoredSame, job
<1>4. Store!Begin(c, d)
    BY <1>1, <1>3 DEF Store!Begin, stored, job
<1> QED BY <1>4 DEF Store!Next

(* Getting a handle and losing it: only a file made anew forgets chunks.     *)
LEMMA HandleStores ==
    ASSUME StoreInv, Open \/ Create \/ CreateCut \/ Close \/ Crash
    PROVE  [Store!Next]_(Store!storevars)
<1>1. CASE Open \/ Close
    <2>1. header' = header /\ file' = file /\ torn' = torn /\ saving' = saving
        BY <1>1 DEF Open, Close
    <2>2. \A x \in Chunks : StoredSame(x)
        BY <2>1 DEF StoredSame, Stored, load_chunk, Decodes
    <2>3. stored' = stored /\ job' = job
        BY <2>1, <2>2 DEF stored, StoredSame, job
    <2>4. CASE Open
        <3>1. Store!Open
            BY <2>1, <2>3, <2>4 DEF Open, Store!Open, stored, job
        <3> QED BY <3>1 DEF Store!Next
    <2>5. CASE Close
        <3>1. ~handle'.open /\ handle'.open = FALSE /\ handle.open /\ job = Nothing
            BY <2>5 DEF Close, Closed, job
        <3>2. Store!Close
            BY <2>1, <2>3, <3>1 DEF Store!Close, stored, job
        <3> QED BY <3>2 DEF Store!Next
    <2> QED BY <1>1, <2>4, <2>5
<1>2. CASE Create
    <2>1. /\ ~handle.open /\ handle'.open = TRUE /\ header' = [c \in Chunks |-> NoBlock]
          /\ saving' = saving /\ torn' = {}
        BY <1>2 DEF Create
    <2>2. \A x \in Chunks : Stored(x)' = Missing
        BY <2>1 DEF Stored, load_chunk, exists, NoBlock
    <2>3. stored' = [c \in Chunks |-> Missing] /\ job' = job
        BY <2>1, <2>2 DEF stored, job
    <2>4. Store!Anew
        BY <2>1, <2>3 DEF Store!Anew, stored, job
    <2> QED BY <2>4 DEF Store!Next
<1>3. CASE Crash
    <2>1. /\ saving.at # "idle" /\ header' = header /\ file' = file /\ handle'.open = FALSE
          /\ saving' = Idle /\ torn' = torn \cup {saving.chunk}
        BY <1>3 DEF Crash, Closed
    <2>2. \A x \in Chunks : StoredSame(x)
        BY <2>1 DEF StoredSame, Stored, load_chunk, Decodes
    <2>3. stored' = stored /\ job # Nothing /\ job.chunk = saving.chunk /\ job' = Nothing
        BY <2>1, <2>2, JobFacts DEF stored, StoredSame, job, Idle
    <2>4. Store!Crash
        BY <2>1, <2>3 DEF Store!Crash, stored, job
    <2> QED BY <2>4 DEF Store!Next
<1>4. CASE CreateCut
    <2>1. PICK wiped \in SUBSET Chunks :
              /\ header' = [c \in Chunks |-> IF c \in wiped THEN NoBlock ELSE header[c]]
              /\ torn' = torn \ wiped
        BY <1>4 DEF CreateCut
    <2>2. ~handle.open /\ handle' = handle /\ file' = file /\ saving' = saving
        BY <1>4 DEF CreateCut
    <2>3. \A x \in wiped : Stored(x)' = Missing
        BY <2>1 DEF Stored, load_chunk, exists, NoBlock
    <2>4. \A x \in Chunks \ wiped : Stored(x)' = Stored(x)
        <3> SUFFICES ASSUME NEW x \in Chunks \ wiped PROVE Stored(x)' = Stored(x)
            OBVIOUS
        <3>1. header'[x] = header[x]
            BY <2>1
        <3> QED BY <2>2, <3>1 DEF Stored, load_chunk, Decodes, exists
    <2>5. stored' = [c \in Chunks |-> IF c \in wiped THEN Missing ELSE stored[c]] /\ job' = job
        BY <2>2, <2>3, <2>4 DEF stored, job
    <2>6. Store!AnewCut
        BY <2>1, <2>2, <2>5 DEF Store!AnewCut, stored, job
    <2> QED BY <2>6 DEF Store!Next
<1> QED BY <1>1, <1>2, <1>3, <1>4

LEMMA StoreStep ==
    StoreInv /\ StoreInv' /\ [Next]_filevars => [Store!Next]_(Store!storevars)
<1> SUFFICES ASSUME StoreInv, StoreInv', [Next]_filevars PROVE [Store!Next]_(Store!storevars)
    OBVIOUS
<1>1. CASE UNCHANGED filevars
    <2>1. header' = header /\ file' = file /\ torn' = torn /\ saving' = saving /\ handle' = handle
        BY <1>1 DEF filevars
    <2>2. \A x \in Chunks : StoredSame(x)
        BY <2>1 DEF StoredSame, Stored, load_chunk, Decodes
    <2> QED BY <2>1, <2>2, Stutters DEF job
<1>2. CASE Next
    BY <1>2, HandleStores, SaveBeginStores, SaveLengthStores, SaveDataStores,
       SavePaddingStores, SaveHeaderStores DEF Next
<1> QED BY <1>1, <1>2

LEMMA StoreInit == Init => Store!Init
<1> SUFFICES ASSUME Init PROVE Store!Init
    OBVIOUS
<1>1. \A x \in Chunks : ~exists(header[x])
    BY DEF Init, exists, NoBlock
<1>2. \A x \in Chunks : Stored(x) = Missing
    BY <1>1 DEF Stored, load_chunk
<1> QED BY <1>2 DEF Init, Idle, Closed, Store!Init

(* A region file keeps the promise of RegionStore, whatever the saves, the   *)
(* sectors they are given, the reopenings and the crashes between two writes *)
(* of save_chunk: the three exceptions it makes are the only ones.           *)
THEOREM FileIsRegionStore == FileSpec => IsRegionStore
<1>1. FileSpec => []StoreInv
    BY StoreInvInit, StoreInvStep, PTL DEF FileSpec
<1> QED BY <1>1, StoreInit, StoreStep, PTL DEF FileSpec, IsRegionStore, Store!StoreSpec
==============================================================================
