----------------------------- MODULE RegionFile ------------------------------
(***************************************************************************)
(* One region file of server/feather/feather/base/src/anvil/region.rs and  *)
(* its handle in common/src/region_worker.rs: 1024 chunks share a file of  *)
(* 4 KiB sectors, the first two of which are the header that says where    *)
(* each chunk lies.  A save frees the chunk's old sectors, takes the first *)
(* gap that is long enough, writes length, data and padding, and only then *)
(* the header; the worker may stop between any two writes, and the handle  *)
(* is dropped and rebuilt from the file.  When load_region fails, for      *)
(* whatever reason, a save makes the file anew, over one that may be there *)
(* (a load answers that the chunk is missing, and changes nothing here).   *)
(*                                                                         *)
(* Compressed NBT is abstracted to a payload, the chunk and its data, cut  *)
(* into parts of a sector; a stream that is not one payload from its first *)
(* to its last part fails to decode.  The header in memory and the one in  *)
(* the file differ only between set_location_for_chunk and save_header,    *)
(* which is one step here: of the 2048 words only one is changed.          *)
(***************************************************************************)
EXTENDS Integers, FiniteSets

CONSTANTS
    Chunks,         \* the chunks of the region
    Data,           \* what a chunk may hold
    TotalLen(_),    \* bytes of the data once compressed, length word included
    SectorBytes,    \* SECTOR_BYTES
    MaxSectors,     \* bound: no save goes past a file of this many sectors
    Missing, Broken, Nothing

\* A payload is a length word, a byte for the compression and at least a byte, and
\* the header counts its sectors in eight bits.  With sectors of 4096 bytes that
\* is less than the 1 MiB above which load_chunk refuses to read.
ASSUME RegionAssumption ==
    /\ SectorBytes \in Nat \ {0, 1, 2, 3, 4}
    /\ MaxSectors \in Nat
    /\ \A d \in Data : TotalLen(d) \in Nat /\ TotalLen(d) > 5 /\ TotalLen(d) <= 255 * SectorBytes
    /\ Nothing \notin Chunks
    /\ Missing \notin Data /\ Broken \notin Data /\ Missing # Broken
    /\ {Missing, Broken, Nothing} \cap [chunk : Chunks, data : Data] = {}

VARIABLES
    header,     \* the block of sectors of each chunk
    file,       \* the content of each sector, a function on 0 .. n - 1
    handle,     \* [open, used_sectors, len]: the handle and its allocator
    saving,     \* [at, chunk, data, block, done]: how far save_chunk is
    torn        \* history: the chunks whose last save was cut short

filevars == <<header, file, handle, saving, torn>>

-----------------------------------------------------------------------------
LENGTH_WORD == 4

Sectors(bytes) == (bytes + SectorBytes - 1) \div SectorBytes

SectorBlock == [offset : Nat, count : Nat]
NoBlock == [offset |-> 0, count |-> 0]
Span(block) == block.offset .. block.offset + block.count - 1
exists(block) == block.offset # 0 /\ block.count # 0

NoPayload == [chunk |-> Nothing, data |-> Nothing]
Zero == [payload |-> NoPayload, part |-> 0, len |-> 0]

\* Where a handle stands that is not saving.
Idle == [at |-> "idle", chunk |-> Nothing, data |-> Nothing, block |-> NoBlock, done |-> 0]
Closed == [open |-> FALSE, used_sectors |-> {}, len |-> 0]

\* A write to a sector, which may be the one after the last.
Put(s, content) == [i \in DOMAIN file \cup {s} |-> IF i = s THEN content ELSE file[i]]

HeaderSectors == {0, 1}
IsFile == HeaderSectors \subseteq DOMAIN file

\* load_chunk on block b: the length word, then that many bytes.
Decodes(b) ==
    /\ b.offset \in DOMAIN file
    /\ LET first == file[b.offset]
           p == first.payload
       IN  /\ p # NoPayload /\ first.part = 0
           /\ first.len >= TotalLen(p.data) - LENGTH_WORD
           /\ b.offset + Sectors(first.len + LENGTH_WORD) - 1 \in DOMAIN file
           /\ \A k \in 1 .. Sectors(TotalLen(p.data)) - 1 :
                  /\ file[b.offset + k].payload = p
                  /\ file[b.offset + k].part = k

load_chunk(c) ==
    IF ~exists(header[c]) THEN Missing
    ELSE IF Decodes(header[c]) THEN file[header[c].offset].payload
    ELSE Broken

-----------------------------------------------------------------------------
\* SectorAllocator::allocate: the first gap of n sectors, else at the end.
Gap(s, n) == s .. s + n - 1
Gaps(used, len, n) == {s \in 0 .. len - n : Gap(s, n) \cap used = {}}
allocate(used, len, n) ==
    [offset |-> IF Gaps(used, len, n) = {} THEN len
                ELSE CHOOSE s \in Gaps(used, len, n) : \A t \in Gaps(used, len, n) : s <= t,
     count |-> n]

\* The mutant leaves out the last sector of each block.
MutOccupied == HeaderSectors \cup
    UNION {Span([header[c] EXCEPT !.count = @ - 1]) : c \in {x \in Chunks : exists(header[x])}}

\* SectorAllocator::new: what the header of a file says is in use.
Occupied == HeaderSectors \cup UNION {Span(header[c]) : c \in {x \in Chunks : exists(header[x])}}

Init ==
    /\ header = [c \in Chunks |-> NoBlock]
    /\ file = [s \in {} |-> Zero]
    /\ handle = Closed
    /\ saving = Idle
    /\ torn = {}

\* region_file_handle finds no handle and load_region succeeds.  It may fail as
\* well, on a file that is there: any error of open, metadata or read will do.
Open ==
    /\ ~handle.open /\ IsFile
    /\ handle' = [open |-> TRUE, used_sectors |-> Occupied, len |-> Cardinality(DOMAIN file)]
    /\ UNCHANGED <<header, file, saving, torn>>

\* RegionHeader::write_to from the start of a file that is not truncated.
EmptyHeader == [s \in DOMAIN file \cup HeaderSectors |->
                   IF s \in HeaderSectors THEN Zero ELSE file[s]]

\* A save finds no handle: load_region failed, for want of a file or for any other
\* reason, and create_region writes an empty header over what may be there.
Create ==
    /\ ~handle.open
    /\ header' = [c \in Chunks |-> NoBlock]
    /\ file' = EmptyHeader
    /\ handle' = [open |-> TRUE, used_sectors |-> HeaderSectors, len |-> 2]
    /\ torn' = {}
    /\ UNCHANGED saving

\* The process stops, or an error stops the worker, before the whole header is
\* written: some chunks of a file that was there are wiped, and a file that was
\* not there is too short to be one.
CreateCut ==
    /\ ~handle.open /\ IsFile
    /\ \E wiped \in SUBSET Chunks :
           /\ header' = [c \in Chunks |-> IF c \in wiped THEN NoBlock ELSE header[c]]
           /\ torn' = torn \ wiped
    /\ UNCHANGED <<file, handle, saving>>

\* The mutant keeps the old block in use.
MutFreed(c) == handle.used_sectors

\* save_chunk up to its first write: free the old block, serialise, allocate.
Freed(c) == IF exists(header[c]) THEN handle.used_sectors \ Span(header[c])
            ELSE handle.used_sectors

\* The mutant writes the header before the data.
MutSaveBegin(c, d) ==
    LET block == allocate(Freed(c), handle.len, Sectors(TotalLen(d)))
    IN  /\ handle.open /\ saving.at = "idle"
        /\ block.offset + block.count <= MaxSectors
        /\ handle' = [handle EXCEPT !.used_sectors = Freed(c) \cup Span(block),
                                    !.len = IF block.offset = @ THEN @ + block.count ELSE @]
        /\ saving' = [at |-> "length", chunk |-> c, data |-> d, block |-> block, done |-> 0]
        /\ header' = [header EXCEPT ![c] = block]
        /\ UNCHANGED <<file, torn>>

SaveBegin(c, d) ==
    LET block == allocate(Freed(c), handle.len, Sectors(TotalLen(d)))
    IN  /\ handle.open /\ saving.at = "idle"
        /\ block.offset + block.count <= MaxSectors
        /\ handle' = [open |-> TRUE,
                      used_sectors |-> Freed(c) \cup Span(block),
                      len |-> IF block.offset = handle.len THEN handle.len + block.count
                              ELSE handle.len]
        /\ saving' = [at |-> "length", chunk |-> c, data |-> d, block |-> block, done |-> 0]
        /\ UNCHANGED <<header, file, torn>>

\* The length word, over whatever the first sector held.
SaveLength ==
    LET s == saving.block.offset
        old == IF s \in DOMAIN file THEN file[s] ELSE Zero
    IN  /\ saving.at = "length"
        /\ file' = Put(s, [old EXCEPT !.len = TotalLen(saving.data) - LENGTH_WORD])
        /\ saving' = [saving EXCEPT !.at = "data"]
        /\ UNCHANGED <<header, handle, torn>>

\* write_all, a sector at a time.
SaveData ==
    LET k == saving.done
        s == saving.block.offset + k
    IN  /\ saving.at = "data"
        /\ file' = Put(s, [payload |-> [chunk |-> saving.chunk, data |-> saving.data],
                           part |-> k,
                           len |-> IF k = 0 THEN file[s].len ELSE 0])
        /\ saving' = [saving EXCEPT !.done = k + 1,
                                    !.at = IF k + 1 = saving.block.count THEN "padding" ELSE "data"]
        /\ UNCHANGED <<header, handle, torn>>

\* SECTOR_BYTES - total_len % SECTOR_BYTES zeros: a whole sector of them, past
\* the block, when the data ends at the end of a sector.
Padding(d) == SectorBytes - (TotalLen(d) % SectorBytes)
SavePadding ==
    /\ saving.at = "padding"
    /\ file' = IF Padding(saving.data) = SectorBytes
               THEN Put(saving.block.offset + saving.block.count, Zero)
               ELSE file
    /\ saving' = [saving EXCEPT !.at = "header"]
    /\ UNCHANGED <<header, handle, torn>>

\* set_location_for_chunk, save_header.
SaveHeader ==
    /\ saving.at = "header"
    /\ header' = [header EXCEPT ![saving.chunk] = saving.block]
    /\ saving' = Idle
    /\ torn' = torn \ {saving.chunk}
    /\ UNCHANGED <<file, handle>>

\* update_cache drops a handle that was not used for CACHE_TIME.
Close ==
    /\ handle.open /\ saving.at = "idle"
    /\ handle' = Closed
    /\ UNCHANGED <<header, file, saving, torn>>

\* The process, or the worker that unwraps an I/O error, stops between two writes.
Crash ==
    /\ saving.at # "idle"
    /\ handle' = Closed
    /\ saving' = Idle
    /\ torn' = torn \cup {saving.chunk}
    /\ UNCHANGED <<header, file>>

Next ==
    \/ Open
    \/ Create \/ CreateCut
    \/ \E c \in Chunks, d \in Data : SaveBegin(c, d)
    \/ SaveLength \/ SaveData \/ SavePadding \/ SaveHeader
    \/ Close
    \/ Crash

FileSpec == Init /\ [][Next]_filevars

-----------------------------------------------------------------------------
Existing == {c \in Chunks : exists(header[c])}

\* No sector belongs to two chunks or to a chunk and the header, and every
\* sector the header names is in the file: load_chunk never reads another
\* chunk's bytes, and SectorAllocator::new never indexes past its bits.
SectorsDisjoint ==
    /\ \A c \in Existing : Span(header[c]) \subseteq DOMAIN file \ HeaderSectors
    /\ \A c, d \in Existing : c # d => Span(header[c]) \cap Span(header[d]) = {}

\* While a chunk is saved its old sectors may be given away, but only to itself:
\* the allocator holds the sectors of every other chunk and of the new block,
\* and nothing else, so that no sector leaks however often a chunk is saved.
AllocatorExact ==
    handle.open =>
        handle.used_sectors =
            HeaderSectors \cup Span(saving.block)
                \cup UNION {Span(header[c]) : c \in Existing \ {saving.chunk}}

\* What a chunk loads as; Nothing stands for the bytes of another chunk.
Stored(c) ==
    LET r == load_chunk(c)
    IN  IF r \in {Missing, Broken} THEN r
        ELSE IF r.chunk = c THEN r.data ELSE Nothing

\* A save, whatever step it is stopped at and wherever its sectors come from,
\* changes what its own chunk loads as and no other, save for the padding; once
\* it has ended the chunk reads back.  Only a file made anew forgets chunks.
Store == INSTANCE RegionStore WITH
             Exact <- LAMBDA d : TotalLen(d) % SectorBytes = 0,
             open <- handle.open,
             stored <- [c \in Chunks |-> Stored(c)],
             job <- IF saving.at = "idle" THEN Nothing
                    ELSE [chunk |-> saving.chunk, data |-> saving.data]
IsRegionStore == Store!StoreSpec

\* The comment of the padding, "Write padding to align to sector count": no
\* write of a save falls outside the header and the sectors allocated for it.
PaddingStaysInBlock ==
    [][\A s \in DOMAIN file \ Span(saving.block) : saving.at # "idle" => file'[s] = file[s]]_filevars
==============================================================================
