----------------------------- MODULE ChunkWorld ------------------------------
(***************************************************************************)
(* The chunks of a running world: server/feather/feather/common/src        *)
(* world.rs, chunk/{loading,worker,cache}.rs, region_worker.rs and         *)
(* base/src/chunk_lock.rs.  A chunk lies in the map while players want it, *)
(* in the cache while somebody still holds its handle, and else on disk.   *)
(* Three threads move it about: the tick, one system after the other       *)
(* (phase); the region worker, which serves loads and saves in order; and  *)
(* the pool that generates what the disk lacks.  They share two channels   *)
(* and the handles.                                                        *)
(*                                                                         *)
(* A chunk's blocks are one value.  The disk is a map that a save changes  *)
(* at once: RegionFile shows how far a region file is one.  In particular  *)
(* a region file that is there is taken to open; when it does not, a load  *)
(* answers Missing, and the chunk is generated anew and saved over what    *)
(* was there.  A ticket is abstracted to "at least one player holds one".  *)
(***************************************************************************)
EXTENDS Integers, Sequences, FiniteSets

CONSTANTS
    Chunks,         \* positions
    Blocks,         \* what a chunk may hold
    Generated,      \* what generate_chunk gives
    Missing,        \* not in a region file
    Broken,         \* in a region file that cannot be read
    Handles,        \* addresses of ChunkLocks, more than are ever in use
    None,           \* no handle
    ResultsBound,   \* capacity of the channel of load results
    MaxQueue,       \* bound: unloads queued at a time
    MaxRequests     \* bound: the tick waits when so many requests are pending

ASSUME WorldAssumption ==
    /\ Generated \in Blocks
    /\ Missing \notin Blocks /\ Broken \notin Blocks /\ Missing # Broken
    /\ None \notin Handles /\ Handles # {}
    /\ ResultsBound \in Nat \ {0}
    /\ MaxQueue \in Nat /\ MaxRequests \in Nat

VARIABLES
    phase,          \* the system the tick is in
    ticketed,       \* the chunks with a ticket
    unload_queue,   \* chunk_unload_queue, oldest first
    due,            \* how many of them are past their unload_at_time
    chunk_map,      \* the handle of each loaded chunk
    cache,          \* the handle of each cached chunk
    loading_chunks,
    canceled_chunk_loads,
    requests,       \* channel to the region worker, unbounded
    results,        \* channel back
    generating,     \* chunks being generated, on any thread of the pool
    generated,      \* channel of generated chunks, in order of completion
    disk,           \* what each chunk would be read as
    locks,          \* the ChunkLock behind each handle of each chunk
    clients,        \* handles held by events, send queues and plugins
    latest          \* history: what each chunk was last seen to hold

mainvars == <<phase, ticketed, unload_queue, due>>
storevars == <<chunk_map, cache, loading_chunks, canceled_chunk_loads>>
jobvars == <<requests, results, generating, generated>>
datavars == <<disk, locks, clients, latest>>
worldvars == <<mainvars, storevars, jobvars, datavars>>

-----------------------------------------------------------------------------
Lock == [blocks : Blocks, loaded : BOOLEAN]
Fresh == [blocks |-> Generated, loaded |-> FALSE]

LoadRequest(c) == [kind |-> "load", pos |-> c, handle |-> None]
SaveRequest(c, h) == [kind |-> "save", pos |-> c, handle |-> h]

Elements(queue) == {queue[i] : i \in DOMAIN queue}

is_chunk_loaded(c) == chunk_map[c] # None
is_chunk_loading(c) == c \in loading_chunks

\* Arc::strong_count leaves out the references of the cache itself.
HeldElsewhere(c, h) ==
    \/ chunk_map[c] = h
    \/ SaveRequest(c, h) \in Elements(requests)
    \/ <<c, h>> \in clients

InUse(c, h) == HeldElsewhere(c, h) \/ cache[c] = h

\* What the disk holds of a chunk that was never saved is what is generated.
OnDisk(c) == IF disk[c] = Missing THEN Generated ELSE disk[c]

\* A world directory of an earlier session, no player yet.
Init ==
    /\ phase = "tickets"
    /\ ticketed = {} /\ unload_queue = <<>> /\ due = 0
    /\ chunk_map = [c \in Chunks |-> None]
    /\ cache = [c \in Chunks |-> None]
    /\ loading_chunks = {} /\ canceled_chunk_loads = {}
    /\ requests = <<>> /\ results = <<>> /\ generating = {} /\ generated = <<>>
    /\ disk \in [Chunks -> {Missing, Broken, Generated}]
    /\ locks = [c \in Chunks |-> [h \in Handles |-> Fresh]]
    /\ clients = {}
    /\ latest = [c \in Chunks |-> OnDisk(c)]

-----------------------------------------------------------------------------
(* remove_dead_entities and update_tickets_for_players.                     *)

\* ChunkLoadState::remove_ticket of the last ticket.
RemoveLastTicket(c) ==
    /\ phase = "tickets"
    /\ c \in ticketed
    /\ Len(unload_queue) < MaxQueue
    /\ ticketed' = ticketed \ {c}
    /\ unload_queue' = Append(unload_queue, c)
    /\ UNCHANGED <<phase, due, storevars, jobvars, datavars>>

\* The mutant leaves the chunk marked as unloaded.
MutLoadCached(c) ==
    /\ chunk_map' = [chunk_map EXCEPT ![c] = cache[c]]
    /\ cache' = [cache EXCEPT ![c] = None]
    /\ UNCHANGED <<loading_chunks, requests, locks>>

\* World::queue_chunk_load: from the cache at once, else by the worker.
LoadCached(c) ==
    /\ chunk_map' = [chunk_map EXCEPT ![c] = cache[c]]
    /\ cache' = [cache EXCEPT ![c] = None]
    /\ locks' = [locks EXCEPT ![c][cache[c]].loaded = TRUE]
    /\ UNCHANGED <<loading_chunks, requests>>

LoadByWorker(c) ==
    /\ loading_chunks' = loading_chunks \cup {c}
    /\ requests' = Append(requests, LoadRequest(c))
    /\ UNCHANGED <<chunk_map, cache, locks>>

\* The mutant never asks the cache.
MutQueueLoad(c) == LoadByWorker(c)

queue_chunk_load(c) == IF cache[c] # None THEN LoadCached(c) ELSE LoadByWorker(c)

\* The mutant does not ask whether the chunk is loading already.
MutInsertTicket(c) ==
    /\ phase = "tickets"
    /\ Len(requests) < MaxRequests
    /\ ticketed' = ticketed \cup {c}
    /\ IF is_chunk_loaded(c)
       THEN UNCHANGED <<chunk_map, cache, loading_chunks, requests, locks>>
       ELSE queue_chunk_load(c)
    /\ UNCHANGED <<phase, unload_queue, due, canceled_chunk_loads, results, generating,
                   generated, disk, clients, latest>>

\* A player's view takes the chunk in, whether or not another's has it.
InsertTicket(c) ==
    /\ phase = "tickets"
    /\ Len(requests) < MaxRequests
    /\ ticketed' = ticketed \cup {c}
    /\ IF is_chunk_loaded(c) \/ is_chunk_loading(c)
       THEN UNCHANGED <<chunk_map, cache, loading_chunks, requests, locks>>
       ELSE queue_chunk_load(c)
    /\ UNCHANGED <<phase, unload_queue, due, canceled_chunk_loads, results, generating,
                   generated, disk, clients, latest>>

EndTickets ==
    /\ phase = "tickets"
    /\ phase' = "unload"
    /\ UNCHANGED <<ticketed, unload_queue, due, storevars, jobvars, datavars>>

-----------------------------------------------------------------------------
(* unload_chunks.                                                           *)

\* Ten seconds pass for the next entry: UNLOAD_DELAY is the same for all.
Clock ==
    /\ due < Len(unload_queue)
    /\ due' = due + 1
    /\ UNCHANGED <<phase, ticketed, unload_queue, storevars, jobvars, datavars>>

\* The mutant forgets to save.
MutUnloadChunk(c) ==
    LET h == chunk_map[c]
    IN  /\ IF is_chunk_loaded(c)
           THEN /\ locks' = [locks EXCEPT ![c][h].loaded = FALSE]
                /\ cache' = [cache EXCEPT ![c] = h]
                /\ chunk_map' = [chunk_map EXCEPT ![c] = None]
           ELSE UNCHANGED <<locks, cache, chunk_map>>
        /\ canceled_chunk_loads' = IF is_chunk_loading(c) THEN canceled_chunk_loads \cup {c}
                                   ELSE canceled_chunk_loads
        /\ UNCHANGED requests

\* World::unload_chunk.  set_unloaded cannot fail: the flag of a lock in the map is
\* set (WritableIffLoaded), and nobody else clears it.
unload_chunk(c) ==
    LET h == chunk_map[c]
    IN  /\ IF is_chunk_loaded(c)
           THEN /\ locks' = [locks EXCEPT ![c][h].loaded = FALSE]
                /\ requests' = Append(requests, SaveRequest(c, h))
                /\ cache' = [cache EXCEPT ![c] = h]
                /\ chunk_map' = [chunk_map EXCEPT ![c] = None]
           ELSE UNCHANGED <<locks, requests, cache, chunk_map>>
        /\ canceled_chunk_loads' = IF is_chunk_loading(c) THEN canceled_chunk_loads \cup {c}
                                   ELSE canceled_chunk_loads

\* The oldest entry is due: it is dropped if the chunk has tickets again.
UnloadNext ==
    LET c == Head(unload_queue)
    IN  /\ phase = "unload"
        /\ due > 0
        /\ Len(requests) < MaxRequests
        /\ due' = due - 1
        /\ unload_queue' = Tail(unload_queue)
        /\ IF c \in ticketed
           THEN UNCHANGED <<locks, requests, cache, chunk_map, canceled_chunk_loads>>
           ELSE unload_chunk(c)
        /\ UNCHANGED <<phase, ticketed, loading_chunks, results, generating, generated,
                       disk, clients, latest>>

\* No entry is due; ChunkCache::purge_unused ends the system.
MutPurgeAll == cache' = [c \in Chunks |-> None]
purge_unused ==
    cache' = [c \in Chunks |-> IF HeldElsewhere(c, cache[c]) THEN cache[c] ELSE None]

EndUnload ==
    /\ phase = "unload"
    /\ due = 0
    /\ purge_unused
    /\ phase' = "load"
    /\ UNCHANGED <<ticketed, unload_queue, due, chunk_map, loading_chunks,
                   canceled_chunk_loads, jobvars, datavars>>

-----------------------------------------------------------------------------
(* load_chunks: World::load_chunks polls ChunkWorker::poll_loaded_chunk     *)
(* until it has nothing.                                                    *)

\* The mutant keeps a chunk whose load was cancelled.
MutArrive(c, blocks) ==
    /\ loading_chunks' = loading_chunks \ {c}
    /\ canceled_chunk_loads' = canceled_chunk_loads \ {c}
    /\ LET h == CHOOSE x \in Handles : ~InUse(c, x)
       IN  /\ chunk_map' = [chunk_map EXCEPT ![c] = h]
           /\ locks' = [locks EXCEPT ![c][h] = [blocks |-> blocks, loaded |-> TRUE]]
           /\ clients' = clients \cup {<<c, h>>}

\* A chunk arrives: discarded if its load was cancelled, else a new handle, of
\* which the ChunkLoadEvent holds a copy.
Arrive(c, blocks) ==
    /\ loading_chunks' = loading_chunks \ {c}
    /\ canceled_chunk_loads' = canceled_chunk_loads \ {c}
    /\ IF c \in canceled_chunk_loads
       THEN UNCHANGED <<chunk_map, locks, clients>>
       ELSE LET h == CHOOSE x \in Handles : ~InUse(c, x)
            IN  /\ chunk_map' = [chunk_map EXCEPT ![c] = h]
                /\ locks' = [locks EXCEPT ![c][h] = [blocks |-> blocks, loaded |-> TRUE]]
                /\ clients' = clients \cup {<<c, h>>}

\* The mutant takes a generated chunk out of the channel and ends the loop.
MutTakeGenerated ==
    /\ phase' = "rest"
    /\ generated' = IF generated = <<>> THEN <<>> ELSE Tail(generated)
    /\ UNCHANGED <<chunk_map, loading_chunks, canceled_chunk_loads, locks, clients>>

\* try_recv_gen: Ok(None) ends the loop.
TakeGenerated ==
    IF generated = <<>>
    THEN /\ phase' = "rest"
         /\ UNCHANGED <<generated, chunk_map, loading_chunks, canceled_chunk_loads, locks, clients>>
    ELSE /\ Arrive(Head(generated), Generated)
         /\ generated' = Tail(generated)
         /\ UNCHANGED phase

PollLoaded ==
    /\ phase = "load"
    /\ results # <<>>
    /\ LET answer == Head(results)
       IN  CASE answer.kind = "missing" ->
                    /\ generating' = generating \cup {answer.pos}
                    /\ TakeGenerated
             [] answer.kind = "error" ->
                    /\ phase' = "rest"
                    /\ UNCHANGED <<generating, generated, chunk_map, loading_chunks,
                                   canceled_chunk_loads, locks, clients>>
             [] answer.kind = "loaded" ->
                    /\ Arrive(answer.pos, answer.blocks)
                    /\ UNCHANGED <<phase, generating, generated>>
    /\ results' = Tail(results)
    /\ UNCHANGED <<ticketed, unload_queue, due, cache, requests, disk, latest>>

PollGenerated ==
    /\ phase = "load"
    /\ results = <<>>
    /\ TakeGenerated
    /\ UNCHANGED <<ticketed, unload_queue, due, cache, requests, results, generating, disk, latest>>

-----------------------------------------------------------------------------
(* The other systems of the tick, and the holders of handles.               *)

\* ChunkMap::set_block_at, which ChunkLock::write refuses when not loaded.
SetBlock(c, b) ==
    /\ phase = "rest"
    /\ is_chunk_loaded(c)
    /\ locks[c][chunk_map[c]].loaded
    /\ locks' = [locks EXCEPT ![c][chunk_map[c]].blocks = b]
    /\ latest' = [latest EXCEPT ![c] = b]
    /\ UNCHANGED <<mainvars, storevars, jobvars, disk, clients>>

\* send_new_chunks and the plugin take the handle of a loaded chunk.
TakeHandle(c) ==
    /\ phase = "rest"
    /\ is_chunk_loaded(c)
    /\ clients' = clients \cup {<<c, chunk_map[c]>>}
    /\ UNCHANGED <<mainvars, storevars, jobvars, disk, locks, latest>>

\* An event is removed, a packet has been sent.  Nobody need ever let go.
Release(c, h) ==
    /\ <<c, h>> \in clients
    /\ clients' = clients \ {<<c, h>>}
    /\ UNCHANGED <<mainvars, storevars, jobvars, disk, locks, latest>>

EndTick ==
    /\ phase = "rest"
    /\ phase' = "tickets"
    /\ UNCHANGED <<ticketed, unload_queue, due, storevars, jobvars, datavars>>

-----------------------------------------------------------------------------
(* RegionWorker::run, one request at a time, and the pool.                  *)

\* get_chunk_load_result; the worker waits while the channel back is full.
Answer(c) ==
    CASE disk[c] = Missing -> [kind |-> "missing", pos |-> c, blocks |-> Generated]
      [] disk[c] = Broken  -> [kind |-> "error", pos |-> c, blocks |-> Generated]
      [] OTHER             -> [kind |-> "loaded", pos |-> c, blocks |-> disk[c]]

ServeLoad ==
    /\ requests # <<>>
    /\ Head(requests).kind = "load"
    /\ Len(results) < ResultsBound
    /\ results' = Append(results, Answer(Head(requests).pos))
    /\ requests' = Tail(requests)
    /\ UNCHANGED <<mainvars, storevars, generating, generated, datavars>>

\* save_chunk reads the chunk when it serves the request, not when it was made.
ServeSave ==
    /\ requests # <<>>
    /\ Head(requests).kind = "save"
    /\ LET c == Head(requests).pos
       IN  disk' = [disk EXCEPT ![c] = locks[c][Head(requests).handle].blocks]
    /\ requests' = Tail(requests)
    /\ UNCHANGED <<mainvars, storevars, results, generating, generated, locks, clients, latest>>

Generate(c) ==
    /\ c \in generating
    /\ generating' = generating \ {c}
    /\ generated' = Append(generated, c)
    /\ UNCHANGED <<mainvars, storevars, requests, results, datavars>>

Next ==
    \/ \E c \in Chunks : RemoveLastTicket(c) \/ InsertTicket(c)
    \/ EndTickets
    \/ Clock \/ UnloadNext \/ EndUnload
    \/ PollLoaded \/ PollGenerated
    \/ \E c \in Chunks : TakeHandle(c) \/ \E b \in Blocks : SetBlock(c, b)
    \/ \E c \in Chunks, h \in Handles : Release(c, h)
    \/ EndTick
    \/ ServeLoad \/ ServeSave
    \/ \E c \in Chunks : Generate(c)

\* The tick loop runs for ever, time passes, and threads are scheduled.
Fairness ==
    /\ WF_worldvars(EndTickets) /\ WF_worldvars(UnloadNext) /\ WF_worldvars(EndUnload)
    /\ WF_worldvars(PollLoaded) /\ WF_worldvars(PollGenerated) /\ WF_worldvars(EndTick)
    /\ WF_worldvars(Clock)
    /\ WF_worldvars(ServeLoad) /\ WF_worldvars(ServeSave)
    /\ \A c \in Chunks : WF_worldvars(Generate(c))

WorldSpec == Init /\ [][Next]_worldvars
FairWorld == WorldSpec /\ Fairness

-----------------------------------------------------------------------------
\* A chunk is in one place: loaded, cached, being loaded or none of these, so
\* that no handle shadows another and no answer finds its chunk there already.
\* Only a load under way can be cancelled.
Exclusive ==
    /\ \A c \in Chunks :
           /\ chunk_map[c] = None \/ cache[c] = None
           /\ is_chunk_loading(c) => chunk_map[c] = None /\ cache[c] = None
    /\ canceled_chunk_loads \subseteq loading_chunks

\* Where the job of a chunk that loads may be.
Asked == {c \in Chunks : LoadRequest(c) \in Elements(requests)}
Answered == {c \in Chunks : \E r \in Elements(results) : r.pos = c}
Made == Elements(generated)

\* Whoever waits for a chunk waits for exactly one job: a load is neither lost
\* between the channels nor asked for twice, unless its region file is broken.
AskedOnce ==
    /\ \A i, j \in DOMAIN requests : i # j /\ requests[i].kind = "load" => requests[i] # requests[j]
    /\ \A i, j \in DOMAIN results : i # j => results[i].pos # results[j].pos
    /\ \A i, j \in DOMAIN generated : i # j => generated[i] # generated[j]
OneJobPerLoad ==
    /\ AskedOnce
    /\ Asked \cap (Answered \cup generating \cup Made) = {}
    /\ Answered \cap (generating \cup Made) = {}
    /\ generating \cap Made = {}
    /\ Asked \cup Answered \cup generating \cup Made \subseteq loading_chunks
    /\ \A c \in loading_chunks : c \in Asked \cup Answered \cup generating \cup Made \/ disk[c] = Broken

\* The flag of ChunkLock says where the chunk is: a handle that a plugin or a
\* packet kept cannot be written once its chunk is unloaded, and a chunk that
\* comes back from the cache can.
WritableIffLoaded ==
    \A c \in Chunks, h \in Handles : locks[c][h].loaded <=> chunk_map[c] = h

\* However a chunk goes through cache and disk, all who hold it hold the same
\* handle and see each other's writes.
OneHandlePerChunk ==
    \A c \in Chunks : \A h, k \in Handles : InUse(c, h) /\ InUse(c, k) => h = k

\* The last block set is the one found by whoever loads the chunk next, from
\* the map, the cache or the disk: a save still queued is read by no load.
NextRead(c) ==
    IF chunk_map[c] # None THEN locks[c][chunk_map[c]].blocks
    ELSE IF cache[c] # None THEN locks[c][cache[c]].blocks
    ELSE OnDisk(c)
NoLostBlock == \A c \in Chunks : NextRead(c) = latest[c]

\* A load that is not cancelled puts its chunk in the map.
Readable(c) == disk[c] # Broken
LoadsFinish ==
    \A c \in Chunks :
        Readable(c) /\ is_chunk_loading(c) ~> is_chunk_loaded(c) \/ c \in canceled_chunk_loads

\* A chunk nobody has a ticket for does not stay.
UnusedChunksGo ==
    \A c \in Chunks : is_chunk_loaded(c) /\ c \notin ticketed ~> ~is_chunk_loaded(c) \/ c \in ticketed

==============================================================================
