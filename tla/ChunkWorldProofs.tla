-------------------------- MODULE ChunkWorldProofs ---------------------------
(***************************************************************************)
(* Proofs about ChunkWorld for every set of chunks, blocks and handles and *)
(* every length of its queues.  What makes the five invariants inductive   *)
(* is HeldAtHome, that every handle anyone holds is the one in the map or  *)
(* the cache, so that a chunk in neither has no save under way, and        *)
(* JobsTrue, that what a job carries is still what the disk holds.         *)
(***************************************************************************)
EXTENDS ChunkWorld, TLAPS

Request == [kind : {"load", "save"}, pos : Chunks, handle : Handles \cup {None}]
LoadResult == [kind : {"missing", "error", "loaded"}, pos : Chunks, blocks : Blocks]

WorldTypeOK ==
    /\ unload_queue \in Seq(Chunks)
    /\ due \in Nat /\ due <= Len(unload_queue)
    /\ chunk_map \in [Chunks -> Handles \cup {None}]
    /\ cache \in [Chunks -> Handles \cup {None}]
    /\ loading_chunks \in SUBSET Chunks
    /\ canceled_chunk_loads \in SUBSET Chunks
    /\ requests \in Seq(Request)
    /\ results \in Seq(LoadResult)
    /\ generating \in SUBSET Chunks
    /\ generated \in Seq(Chunks)
    /\ disk \in [Chunks -> Blocks \cup {Missing, Broken}]
    /\ locks \in [Chunks -> [Handles -> Lock]]
    /\ clients \in SUBSET (Chunks \X Handles)
    /\ latest \in [Chunks -> Blocks \cup {Broken}]

Home(c) == IF chunk_map[c] # None THEN chunk_map[c] ELSE cache[c]

\* Nobody holds a handle that is neither in the map nor in the cache.
HeldAtHome ==
    /\ \A c \in Chunks, h \in Handles : SaveRequest(c, h) \in Elements(requests) => h = Home(c)
    /\ \A c \in Chunks, h \in Handles : <<c, h>> \in clients => h = Home(c)
    /\ \A r \in Elements(requests) : r.kind = "save" => r.handle \in Handles
    /\ \A r \in Elements(requests) : r.kind = "load" => r = LoadRequest(r.pos)

\* No answer or generated chunk is out of date.
JobsTrue ==
    /\ \A r \in Elements(results) :
           /\ r.kind = "loaded" => disk[r.pos] = r.blocks
           /\ r.kind = "missing" => disk[r.pos] = Missing
           /\ r.kind = "error" => disk[r.pos] = Broken
    /\ \A c \in generating \cup Made : disk[c] = Missing

\* A cached chunk is saved, or its save is on its way.
CachedIsSaved ==
    \A c \in Chunks :
        chunk_map[c] = None /\ cache[c] # None =>
            SaveRequest(c, cache[c]) \in Elements(requests) \/ OnDisk(c) = locks[c][cache[c]].blocks

WorldInv ==
    /\ WorldTypeOK /\ Exclusive /\ WritableIffLoaded /\ HeldAtHome /\ CachedIsSaved
    /\ OneJobPerLoad /\ JobsTrue /\ NoLostBlock

-----------------------------------------------------------------------------
(* Queues: what Append and Tail do to the elements.                         *)
LEMMA AppendElements ==
    ASSUME NEW S, NEW q \in Seq(S), NEW x \in S
    PROVE  Append(q, x) \in Seq(S) /\ Elements(Append(q, x)) = Elements(q) \cup {x}
<1>1. /\ Append(q, x) \in Seq(S)
      /\ DOMAIN q = 1 .. Len(q) /\ Len(q) \in Nat
      /\ DOMAIN Append(q, x) = 1 .. Len(q) + 1
      /\ \A i \in 1 .. Len(q) : Append(q, x)[i] = q[i]
      /\ Append(q, x)[Len(q) + 1] = x
    OBVIOUS
<1>2. \A i : i \in 1 .. Len(q) + 1 <=> i \in 1 .. Len(q) \/ i = Len(q) + 1
    BY <1>1
<1>3. Elements(Append(q, x)) \subseteq Elements(q) \cup {x}
    BY <1>1, <1>2 DEF Elements
<1>4. Elements(q) \cup {x} \subseteq Elements(Append(q, x))
    BY <1>1, <1>2 DEF Elements
<1> QED BY <1>1, <1>3, <1>4

LEMMA TailElements ==
    ASSUME NEW S, NEW q \in Seq(S), q # <<>>
    PROVE  /\ Tail(q) \in Seq(S) /\ Head(q) \in S
           /\ Elements(q) = {Head(q)} \cup Elements(Tail(q))
<1>1. /\ Tail(q) \in Seq(S) /\ Head(q) = q[1] /\ Head(q) \in S
      /\ DOMAIN q = 1 .. Len(q) /\ Len(q) \in Nat /\ Len(q) >= 1
      /\ DOMAIN Tail(q) = 1 .. Len(q) - 1
      /\ \A i \in 1 .. Len(q) - 1 : Tail(q)[i] = q[i + 1]
    OBVIOUS
<1>2. Elements(q) \subseteq {Head(q)} \cup Elements(Tail(q))
    <2> SUFFICES ASSUME NEW i \in 1 .. Len(q), i # 1 PROVE q[i] \in Elements(Tail(q))
        BY <1>1 DEF Elements
    <2>1. i - 1 \in 1 .. Len(q) - 1 /\ q[i] = Tail(q)[i - 1]
        BY <1>1
    <2> QED BY <1>1, <2>1 DEF Elements
<1>3. {Head(q)} \cup Elements(Tail(q)) \subseteq Elements(q)
    BY <1>1 DEF Elements
<1> QED BY <1>1, <1>2, <1>3

\* No element of a queue comes twice, told apart by a key.
LoadsOnce(q) == \A i, j \in DOMAIN q : i # j /\ q[i].kind = "load" => q[i] # q[j]
PosOnce(q) == \A i, j \in DOMAIN q : i # j => q[i].pos # q[j].pos
Once(q) == \A i, j \in DOMAIN q : i # j => q[i] # q[j]

LEMMA AppendOnce ==
    ASSUME NEW S, NEW q \in Seq(S), NEW x \in S
    PROVE  /\ LoadsOnce(q) /\ (x.kind = "load" => x \notin Elements(q)) => LoadsOnce(Append(q, x))
           /\ PosOnce(q) /\ (\A r \in Elements(q) : r.pos # x.pos) => PosOnce(Append(q, x))
           /\ Once(q) /\ x \notin Elements(q) => Once(Append(q, x))
<1>1. /\ DOMAIN q = 1 .. Len(q) /\ Len(q) \in Nat
      /\ DOMAIN Append(q, x) = 1 .. Len(q) + 1
      /\ \A i \in 1 .. Len(q) : Append(q, x)[i] = q[i] /\ q[i] \in Elements(q)
      /\ Append(q, x)[Len(q) + 1] = x
    BY DEF Elements
<1>2. \A i \in 1 .. Len(q) + 1 : i \in 1 .. Len(q) \/ i = Len(q) + 1
    BY <1>1
<1>3. ASSUME LoadsOnce(q), x.kind = "load" => x \notin Elements(q) PROVE LoadsOnce(Append(q, x))
    BY <1>1, <1>2, <1>3 DEF LoadsOnce
<1>4. ASSUME PosOnce(q), \A r \in Elements(q) : r.pos # x.pos PROVE PosOnce(Append(q, x))
    BY <1>1, <1>2, <1>4 DEF PosOnce
<1>5. ASSUME Once(q), x \notin Elements(q) PROVE Once(Append(q, x))
    BY <1>1, <1>2, <1>5 DEF Once
<1> QED BY <1>3, <1>4, <1>5

LEMMA TailOnce ==
    ASSUME NEW S, NEW q \in Seq(S), q # <<>>
    PROVE  /\ LoadsOnce(q) => /\ LoadsOnce(Tail(q))
                              /\ Head(q).kind = "load" => Head(q) \notin Elements(Tail(q))
           /\ PosOnce(q) => PosOnce(Tail(q)) /\ \A r \in Elements(Tail(q)) : r.pos # Head(q).pos
           /\ Once(q) => Once(Tail(q)) /\ Head(q) \notin Elements(Tail(q))
<1>1. /\ Head(q) = q[1] /\ 1 \in DOMAIN q
      /\ DOMAIN Tail(q) = 1 .. Len(q) - 1 /\ Len(q) \in Nat
      /\ \A i \in 1 .. Len(q) - 1 : Tail(q)[i] = q[i + 1] /\ i + 1 \in DOMAIN q /\ i + 1 # 1
    OBVIOUS
<1>2. \A r \in Elements(Tail(q)) : \E i \in DOMAIN q : i # 1 /\ r = q[i]
    BY <1>1 DEF Elements
<1>3. \A i, j \in 1 .. Len(q) - 1 : i # j => i + 1 # j + 1
    BY <1>1
<1>4. ASSUME LoadsOnce(q)
      PROVE  LoadsOnce(Tail(q)) /\ (Head(q).kind = "load" => Head(q) \notin Elements(Tail(q)))
    BY <1>1, <1>2, <1>3, <1>4 DEF LoadsOnce
<1>5. ASSUME PosOnce(q) PROVE PosOnce(Tail(q)) /\ \A r \in Elements(Tail(q)) : r.pos # Head(q).pos
    BY <1>1, <1>2, <1>3, <1>5 DEF PosOnce
<1>6. ASSUME Once(q) PROVE Once(Tail(q)) /\ Head(q) \notin Elements(Tail(q))
    BY <1>1, <1>2, <1>3, <1>6 DEF Once
<1> QED BY <1>4, <1>5, <1>6
LEMMA LockTypes ==
    ASSUME WorldTypeOK, NEW c \in Chunks, NEW h \in Handles
    PROVE  /\ locks[c][h] \in Lock /\ locks[c][h].blocks \in Blocks
           /\ [locks[c][h] EXCEPT !.loaded = TRUE] \in Lock
           /\ [locks[c][h] EXCEPT !.loaded = FALSE] \in Lock
           /\ \A b \in Blocks : [locks[c][h] EXCEPT !.blocks = b] \in Lock
<1>1. locks[c][h] \in Lock
    BY DEF WorldTypeOK
<1>2. \A l \in Lock : /\ l.blocks \in Blocks
                      /\ [l EXCEPT !.loaded = TRUE] \in Lock /\ [l EXCEPT !.loaded = FALSE] \in Lock
                      /\ \A b \in Blocks : [l EXCEPT !.blocks = b] \in Lock
    BY DEF Lock
<1> QED BY <1>1, <1>2

-----------------------------------------------------------------------------
LEMMA WorldInvInit == Init => WorldInv
<1> SUFFICES ASSUME Init PROVE WorldInv
    OBVIOUS
<1> USE WorldAssumption
<1>1. /\ Elements(requests) = {} /\ Elements(results) = {} /\ Elements(generated) = {}
      /\ DOMAIN requests = {} /\ DOMAIN results = {} /\ DOMAIN generated = {}
    BY DEF Init, Elements
<1>2. WorldTypeOK
    BY DEF Init, WorldTypeOK, Fresh, Lock, OnDisk
<1>3. Exclusive
    BY DEF Init, Exclusive, is_chunk_loading
<1>4. WritableIffLoaded
    BY DEF Init, WritableIffLoaded, Fresh
<1>5. HeldAtHome
    BY <1>1 DEF Init, HeldAtHome
<1>6. OneJobPerLoad
    BY <1>1 DEF Init, OneJobPerLoad, AskedOnce, Asked, Answered, Made
<1>7. JobsTrue
    BY <1>1 DEF Init, JobsTrue, Made
<1>8. NoLostBlock /\ CachedIsSaved
    BY DEF Init, NoLostBlock, NextRead, CachedIsSaved
<1> QED BY <1>2, <1>3, <1>4, <1>5, <1>6, <1>7, <1>8 DEF WorldInv

(* Steps that change no chunk: time, the ends of systems, dropped entries.  *)
LEMMA QuietKeeps ==
    ASSUME WorldInv, UNCHANGED <<storevars, jobvars, disk, locks, latest>>,
           unload_queue' \in Seq(Chunks), due' \in Nat, due' <= Len(unload_queue'),
           clients' \subseteq clients
    PROVE  WorldInv'
<1> USE DEF WorldInv, storevars, jobvars
<1>1. WorldTypeOK'
    BY DEF WorldTypeOK
<1>2. Exclusive' /\ WritableIffLoaded' /\ NoLostBlock' /\ CachedIsSaved'
    BY DEF CachedIsSaved, Exclusive, WritableIffLoaded, NoLostBlock, NextRead, OnDisk, is_chunk_loading
<1>3. HeldAtHome'
    BY DEF HeldAtHome, Home
<1>4. OneJobPerLoad' /\ JobsTrue'
    BY DEF OneJobPerLoad, AskedOnce, Asked, Answered, Made, JobsTrue
<1> QED BY <1>1, <1>2, <1>3, <1>4

LEMMA InsertTicketKeeps ==
    ASSUME WorldInv, NEW c \in Chunks, InsertTicket(c)
    PROVE  WorldInv'
<1>0. /\ WorldTypeOK /\ Exclusive /\ WritableIffLoaded /\ HeldAtHome
      /\ CachedIsSaved /\ OneJobPerLoad /\ JobsTrue /\ NoLostBlock
    BY DEF WorldInv
<1>u. /\ unload_queue' = unload_queue /\ due' = due /\ canceled_chunk_loads' = canceled_chunk_loads
      /\ results' = results /\ generating' = generating /\ generated' = generated /\ disk' = disk
      /\ clients' = clients /\ latest' = latest
    BY DEF InsertTicket
<1>1. CASE is_chunk_loaded(c) \/ is_chunk_loading(c)
    <2>1. UNCHANGED <<storevars, jobvars, disk, locks, latest>>
        BY <1>1, <1>u DEF InsertTicket, storevars, jobvars
    <2> QED BY <1>0, <1>u, <2>1, QuietKeeps DEF WorldTypeOK
<1>2. CASE ~(is_chunk_loaded(c) \/ is_chunk_loading(c)) /\ cache[c] # None
    <2> DEFINE h == cache[c]
    <2>1. /\ chunk_map' = [chunk_map EXCEPT ![c] = h] /\ cache' = [cache EXCEPT ![c] = None]
          /\ locks' = [locks EXCEPT ![c] = [locks[c] EXCEPT ![h] = [locks[c][h] EXCEPT !.loaded = TRUE]]]
          /\ loading_chunks' = loading_chunks /\ requests' = requests
        BY <1>2 DEF InsertTicket, queue_chunk_load, LoadCached
    <2>2. h \in Handles /\ h # None /\ chunk_map[c] = None /\ c \notin loading_chunks
        BY <1>0, <1>2 DEF WorldTypeOK, is_chunk_loaded, is_chunk_loading
    <2> HIDE DEF h
    <2>3. /\ \A d \in Chunks : chunk_map'[d] = IF d = c THEN h ELSE chunk_map[d]
          /\ \A d \in Chunks : cache'[d] = IF d = c THEN None ELSE cache[d]
          /\ \A d \in Chunks, k \in Handles : /\ locks'[d][k].blocks = locks[d][k].blocks
                                              /\ locks'[d][k].loaded <=> IF d = c /\ k = h THEN TRUE ELSE locks[d][k].loaded
        BY <1>0, <2>1, <2>2 DEF WorldTypeOK, Lock
    <2>4. WorldTypeOK'
        <3>1. [locks[c][h] EXCEPT !.loaded = TRUE] \in Lock
            BY <1>0, <2>2, LockTypes
        <3>2. locks' \in [Chunks -> [Handles -> Lock]]
            BY <1>0, <2>1, <2>2, <3>1 DEF WorldTypeOK
        <3> QED BY <1>0, <1>u, <2>1, <2>2, <3>2 DEF WorldTypeOK
    <2>5. Exclusive'
        BY <1>0, <1>u, <2>1, <2>2, <2>3 DEF Exclusive, is_chunk_loading
    <2>6. WritableIffLoaded'
        BY <1>0, <2>2, <2>3, WorldAssumption DEF WritableIffLoaded
    <2>7. \A d \in Chunks : Home(d)' = Home(d)
        BY <2>2, <2>3 DEF Home, h
    <2>8. HeldAtHome'
        BY <1>0, <1>u, <2>1, <2>7 DEF HeldAtHome
    <2>9. OneJobPerLoad' /\ JobsTrue'
        BY <1>0, <1>u, <2>1 DEF OneJobPerLoad, AskedOnce, Asked, Answered, Made, JobsTrue
    <2>10. NoLostBlock'
        <3>1. \A d \in Chunks : cache[d] \in Handles \cup {None} /\ chunk_map[d] \in Handles \cup {None}
            BY <1>0 DEF WorldTypeOK
        <3>2. \A d \in Chunks : NextRead(d)' = NextRead(d)
            BY <1>u, <2>2, <2>3, <3>1 DEF NextRead, OnDisk, h
        <3> QED BY <1>0, <1>u, <3>2 DEF NoLostBlock
    <2>11. CachedIsSaved'
        BY <1>0, <1>u, <2>1, <2>2, <2>3 DEF CachedIsSaved, OnDisk
    <2> QED BY <2>4, <2>5, <2>6, <2>8, <2>9, <2>10, <2>11 DEF WorldInv
<1>3. CASE ~(is_chunk_loaded(c) \/ is_chunk_loading(c)) /\ cache[c] = None
    <2> DEFINE q == LoadRequest(c)
    <2>1. /\ chunk_map' = chunk_map /\ cache' = cache /\ locks' = locks
          /\ loading_chunks' = loading_chunks \cup {c} /\ requests' = Append(requests, q)
          /\ chunk_map[c] = None /\ c \notin loading_chunks
        BY <1>3 DEF InsertTicket, queue_chunk_load, LoadByWorker, is_chunk_loaded, is_chunk_loading
    <2>2. /\ q \in Request /\ q.kind = "load" /\ q.pos = c
          /\ \A d \in Chunks : LoadRequest(d) = q => d = c
          /\ \A d \in Chunks, h \in Handles : SaveRequest(d, h) # q
        BY DEF LoadRequest, SaveRequest, Request
    <2>3. requests' \in Seq(Request) /\ Elements(requests') = Elements(requests) \cup {q}
        BY <1>0, <2>1, <2>2, AppendElements DEF WorldTypeOK
    <2>4. c \notin Asked /\ q \notin Elements(requests)
        BY <1>0, <2>1 DEF OneJobPerLoad, Asked
    <2>5. Asked' = Asked \cup {c}
        BY <2>2, <2>3 DEF Asked
    <2> HIDE DEF q
    <2>6. WorldTypeOK'
        BY <1>0, <1>u, <2>1, <2>3 DEF WorldTypeOK
    <2>7. Exclusive'
        BY <1>0, <1>u, <1>3, <2>1 DEF Exclusive, is_chunk_loading
    <2>8. WritableIffLoaded' /\ NoLostBlock' /\ JobsTrue'
        BY <1>0, <1>u, <2>1 DEF WritableIffLoaded, NoLostBlock, NextRead, OnDisk, JobsTrue, Made
    <2>9. HeldAtHome'
        BY <1>0, <1>u, <2>1, <2>2, <2>3 DEF HeldAtHome, Home, q, LoadRequest
    <2>10. AskedOnce'
        <3>1. LoadsOnce(requests)
            BY <1>0 DEF OneJobPerLoad, AskedOnce, LoadsOnce
        <3>2. LoadsOnce(requests')
            BY <1>0, <2>1, <2>2, <2>4, <3>1, AppendOnce DEF WorldTypeOK
        <3> QED BY <1>0, <1>u, <3>2 DEF OneJobPerLoad, AskedOnce, LoadsOnce
    <2>11. OneJobPerLoad'
        BY <1>0, <1>u, <2>1, <2>5, <2>10 DEF OneJobPerLoad, Answered, Made
    <2>12. CachedIsSaved'
        BY <1>0, <1>u, <2>1, <2>3 DEF CachedIsSaved, OnDisk
    <2> QED BY <2>6, <2>7, <2>8, <2>9, <2>11, <2>12 DEF WorldInv
<1> QED BY <1>1, <1>2, <1>3
(* World::unload_chunk: the handle goes to the cache and to the worker.     *)
LEMMA UnloadNextKeeps == WorldInv /\ UnloadNext => WorldInv'
<1> SUFFICES ASSUME WorldInv, UnloadNext PROVE WorldInv'
    OBVIOUS
<1>0. /\ WorldTypeOK /\ Exclusive /\ WritableIffLoaded /\ HeldAtHome
      /\ CachedIsSaved /\ OneJobPerLoad /\ JobsTrue /\ NoLostBlock
    BY DEF WorldInv
<1> DEFINE c == Head(unload_queue)
           h == chunk_map[c]
<1>u. /\ due > 0 /\ due' = due - 1 /\ unload_queue' = Tail(unload_queue)
      /\ loading_chunks' = loading_chunks /\ results' = results /\ generating' = generating
      /\ generated' = generated /\ disk' = disk /\ clients' = clients /\ latest' = latest
    BY DEF UnloadNext
<1>q. /\ c \in Chunks /\ unload_queue' \in Seq(Chunks) /\ due' \in Nat /\ due' <= Len(unload_queue')
    <2>1. unload_queue \in Seq(Chunks) /\ due \in Nat /\ due <= Len(unload_queue) /\ due > 0
        BY <1>0, <1>u DEF WorldTypeOK
    <2>2. unload_queue # <<>> /\ Len(unload_queue') = Len(unload_queue) - 1 /\ Len(unload_queue) \in Nat
        BY <1>u, <2>1
    <2> QED BY <1>u, <2>1, <2>2
<1>1. CASE c \in ticketed
    <2>1. UNCHANGED <<storevars, jobvars, disk, locks, latest>>
        BY <1>1, <1>u DEF UnloadNext, storevars, jobvars
    <2> QED BY <1>u, <1>q, <2>1, QuietKeeps
<1>2. CASE c \notin ticketed
    <2>1. unload_chunk(c)
        BY <1>2 DEF UnloadNext
    <2> HIDE DEF c
    <2>2. /\ canceled_chunk_loads' \subseteq loading_chunks
          /\ canceled_chunk_loads' \in SUBSET Chunks
        BY <1>0, <1>q, <2>1 DEF unload_chunk, is_chunk_loading, Exclusive, WorldTypeOK
    <2>3. CASE ~is_chunk_loaded(c)
        <3>1. locks' = locks /\ requests' = requests /\ cache' = cache /\ chunk_map' = chunk_map
            BY <2>1, <2>3 DEF unload_chunk
        <3>2. WorldTypeOK'
            BY <1>0, <1>u, <1>q, <2>2, <3>1 DEF WorldTypeOK
        <3>3. Exclusive' /\ WritableIffLoaded' /\ NoLostBlock' /\ HeldAtHome' /\ CachedIsSaved'
            BY <1>0, <1>u, <2>2, <3>1 DEF CachedIsSaved, Exclusive, WritableIffLoaded, NoLostBlock, NextRead, OnDisk,
                                        is_chunk_loading, HeldAtHome, Home
        <3>4. OneJobPerLoad' /\ JobsTrue'
            BY <1>0, <1>u, <3>1 DEF OneJobPerLoad, AskedOnce, Asked, Answered, Made, JobsTrue
        <3> QED BY <3>2, <3>3, <3>4 DEF WorldInv
    <2>4. CASE is_chunk_loaded(c)
        <3> DEFINE q == SaveRequest(c, h)
        <3>1. /\ locks' = [locks EXCEPT ![c] = [locks[c] EXCEPT ![h] = [locks[c][h] EXCEPT !.loaded = FALSE]]]
              /\ requests' = Append(requests, q) /\ cache' = [cache EXCEPT ![c] = h]
              /\ chunk_map' = [chunk_map EXCEPT ![c] = None]
            BY <2>1, <2>4 DEF unload_chunk
        <3>2. h \in Handles /\ h # None /\ cache[c] = None /\ c \notin loading_chunks
            BY <1>0, <1>q, <2>4 DEF WorldTypeOK, is_chunk_loaded, is_chunk_loading, Exclusive
        <3>h. h = chunk_map[c]
            OBVIOUS
        <3> HIDE DEF h
        <3>3. /\ q \in Request /\ q.kind = "save" /\ q.pos = c /\ q.handle = h
              /\ \A d \in Chunks : LoadRequest(d) # q
              /\ \A d \in Chunks, k \in Handles : SaveRequest(d, k) = q => d = c /\ k = h
            BY <1>q, <3>2 DEF LoadRequest, SaveRequest, Request
        <3>4. requests' \in Seq(Request) /\ Elements(requests') = Elements(requests) \cup {q}
            BY <1>0, <3>1, <3>3, AppendElements DEF WorldTypeOK
        <3> HIDE DEF q
        <3>5. /\ \A d \in Chunks : chunk_map'[d] = IF d = c THEN None ELSE chunk_map[d]
              /\ \A d \in Chunks : cache'[d] = IF d = c THEN h ELSE cache[d]
              /\ \A d \in Chunks, k \in Handles :
                     /\ locks'[d][k].blocks = locks[d][k].blocks
                     /\ locks'[d][k].loaded <=> IF d = c /\ k = h THEN FALSE ELSE locks[d][k].loaded
            BY <1>0, <1>q, <3>1, <3>2 DEF WorldTypeOK, Lock
        <3>6. WorldTypeOK'
            <4>1. [locks[c][h] EXCEPT !.loaded = FALSE] \in Lock
                BY <1>0, <1>q, <3>2, LockTypes
            <4>2. locks' \in [Chunks -> [Handles -> Lock]]
                BY <1>0, <1>q, <3>1, <3>2, <4>1 DEF WorldTypeOK
            <4> QED BY <1>0, <1>u, <1>q, <2>2, <3>1, <3>2, <3>4, <4>2 DEF WorldTypeOK
        <3>7. Exclusive'
            BY <1>0, <1>u, <2>2, <3>2, <3>5 DEF Exclusive, is_chunk_loading
        <3>8. WritableIffLoaded'
            BY <1>0, <3>2, <3>5, <3>h, WorldAssumption DEF WritableIffLoaded
        <3>9. \A d \in Chunks : Home(d)' = Home(d)
            BY <3>2, <3>5, <3>h DEF Home
        <3>10. HeldAtHome'
            <4>1. h = Home(c)
                BY <3>2, <3>h DEF Home
            <4> QED BY <1>0, <1>u, <3>2, <3>3, <3>4, <3>9, <4>1 DEF HeldAtHome
        <3>11. Asked' = Asked
            BY <3>3, <3>4 DEF Asked
        <3>12. AskedOnce'
            <4>1. LoadsOnce(requests)
                BY <1>0 DEF OneJobPerLoad, AskedOnce, LoadsOnce
            <4>2. LoadsOnce(requests')
                BY <1>0, <3>1, <3>3, <4>1, AppendOnce DEF WorldTypeOK
            <4> QED BY <1>0, <1>u, <4>2 DEF OneJobPerLoad, AskedOnce, LoadsOnce
        <3>13. OneJobPerLoad' /\ JobsTrue'
            BY <1>0, <1>u, <3>11, <3>12 DEF OneJobPerLoad, Answered, Made, JobsTrue
        <3>14. NoLostBlock'
            <4>1. \A d \in Chunks : cache[d] \in Handles \cup {None} /\ chunk_map[d] \in Handles \cup {None}
                BY <1>0 DEF WorldTypeOK
            <4>2. \A d \in Chunks : NextRead(d)' = NextRead(d)
                BY <1>u, <3>2, <3>5, <3>h, <4>1 DEF NextRead, OnDisk
            <4> QED BY <1>0, <1>u, <4>2 DEF NoLostBlock
        <3>15. CachedIsSaved'
            <4> SUFFICES ASSUME NEW d \in Chunks, chunk_map'[d] = None, cache'[d] # None
                         PROVE  \/ SaveRequest(d, cache'[d]) \in Elements(requests')
                                \/ OnDisk(d)' = locks'[d][cache'[d]].blocks
                BY DEF CachedIsSaved
            <4>1. CASE d = c
                BY <3>4, <3>5, <4>1 DEF q
            <4>2. CASE d # c
                <5>1. cache'[d] = cache[d] /\ cache[d] \in Handles /\ chunk_map[d] = None
                    BY <1>0, <3>5, <4>2 DEF WorldTypeOK
                <5>2. locks'[d][cache[d]].blocks = locks[d][cache[d]].blocks
                    BY <3>5, <5>1
                <5>3. SaveRequest(d, cache[d]) \in Elements(requests) \/ OnDisk(d) = locks[d][cache[d]].blocks
                    BY <1>0, <5>1, WorldAssumption DEF CachedIsSaved
                <5> QED BY <1>u, <3>4, <5>1, <5>2, <5>3 DEF OnDisk
            <4> QED BY <4>1, <4>2
        <3> QED BY <3>6, <3>7, <3>8, <3>10, <3>13, <3>14, <3>15 DEF WorldInv
    <2> QED BY <2>3, <2>4
<1> QED BY <1>1, <1>2

(* purge_unused drops only what nobody else holds: what it drops is saved.  *)
LEMMA EndUnloadKeeps == WorldInv /\ EndUnload => WorldInv'
<1> SUFFICES ASSUME WorldInv, EndUnload PROVE WorldInv'
    OBVIOUS
<1>0. /\ WorldTypeOK /\ Exclusive /\ WritableIffLoaded /\ HeldAtHome
      /\ CachedIsSaved /\ OneJobPerLoad /\ JobsTrue /\ NoLostBlock
    BY DEF WorldInv
<1>u. /\ unload_queue' = unload_queue /\ due' = due /\ chunk_map' = chunk_map
      /\ loading_chunks' = loading_chunks /\ canceled_chunk_loads' = canceled_chunk_loads
      /\ requests' = requests /\ results' = results /\ generating' = generating
      /\ generated' = generated /\ disk' = disk /\ locks' = locks /\ clients' = clients
      /\ latest' = latest
      /\ cache' = [c \in Chunks |-> IF HeldElsewhere(c, cache[c]) THEN cache[c] ELSE None]
    BY DEF EndUnload, jobvars, datavars, purge_unused
<1>1. WorldTypeOK'
    BY <1>0, <1>u DEF WorldTypeOK
<1>2. \A c \in Chunks : cache'[c] = cache[c] \/ cache'[c] = None
    BY <1>u
<1>3. Exclusive' /\ WritableIffLoaded' /\ OneJobPerLoad' /\ JobsTrue'
    BY <1>0, <1>u, <1>2 DEF Exclusive, WritableIffLoaded, OneJobPerLoad, AskedOnce, Asked, Answered,
                          Made, JobsTrue, is_chunk_loading
<1>4. ASSUME NEW c \in Chunks, NEW h \in Handles, HeldElsewhere(c, h)
      PROVE  h = Home(c) /\ Home(c)' = Home(c)
    <2>1. h = Home(c)
        BY <1>0, <1>4, WorldAssumption DEF HeldAtHome, HeldElsewhere, Home
    <2>2. CASE chunk_map[c] # None
        BY <1>u, <2>1, <2>2 DEF Home
    <2>3. CASE chunk_map[c] = None
        BY <1>u, <1>4, <2>1, <2>3 DEF Home
    <2> QED BY <2>1, <2>2, <2>3
<1>5. HeldAtHome'
    <2>1. \A c \in Chunks, h \in Handles :
              SaveRequest(c, h) \in Elements(requests) \/ <<c, h>> \in clients => h = Home(c)'
        BY <1>4 DEF HeldElsewhere
    <2> QED BY <1>0, <1>u, <2>1 DEF HeldAtHome
<1>6. NoLostBlock'
    <2> SUFFICES ASSUME NEW c \in Chunks PROVE NextRead(c)' = latest[c]
        BY <1>u DEF NoLostBlock
    <2>1. NextRead(c) = latest[c]
        BY <1>0 DEF NoLostBlock
    <2>2. CASE chunk_map[c] # None \/ cache'[c] = cache[c]
        BY <1>u, <2>1, <2>2 DEF NextRead, OnDisk
    <2>3. CASE chunk_map[c] = None /\ cache'[c] # cache[c]
        <3>1. cache[c] \in Handles /\ cache'[c] = None /\ ~HeldElsewhere(c, cache[c])
            BY <1>0, <1>u, <2>3 DEF WorldTypeOK
        <3>2. OnDisk(c) = locks[c][cache[c]].blocks
            BY <1>0, <2>3, <3>1, WorldAssumption DEF CachedIsSaved, HeldElsewhere
        <3> QED BY <1>u, <2>1, <2>3, <3>1, <3>2 DEF NextRead, OnDisk
    <2> QED BY <2>2, <2>3
<1>7. CachedIsSaved'
    BY <1>0, <1>u, <1>2 DEF CachedIsSaved, OnDisk
<1> QED BY <1>1, <1>3, <1>5, <1>6, <1>7 DEF WorldInv

(* A chunk arrives at the tick: nobody holds a handle of it, so any will do. *)
LEMMA ArriveKeeps ==
    ASSUME WorldInv, NEW c \in loading_chunks, NEW b \in Blocks, OnDisk(c) = b, Arrive(c, b),
           UNCHANGED <<cache, requests, disk, latest>>
    PROVE  /\ Exclusive' /\ WritableIffLoaded' /\ HeldAtHome' /\ CachedIsSaved' /\ NoLostBlock'
           /\ loading_chunks' = loading_chunks \ {c}
           /\ chunk_map' \in [Chunks -> Handles \cup {None}]
           /\ canceled_chunk_loads' \in SUBSET Chunks
           /\ locks' \in [Chunks -> [Handles -> Lock]]
           /\ clients' \in SUBSET (Chunks \X Handles)
<1>0. /\ WorldTypeOK /\ Exclusive /\ WritableIffLoaded /\ HeldAtHome
      /\ CachedIsSaved /\ OneJobPerLoad /\ JobsTrue /\ NoLostBlock
    BY DEF WorldInv
<1>u. /\ loading_chunks' = loading_chunks \ {c}
      /\ canceled_chunk_loads' = canceled_chunk_loads \ {c}
      /\ cache' = cache /\ requests' = requests /\ disk' = disk /\ latest' = latest
    BY DEF Arrive
<1>c. c \in Chunks /\ chunk_map[c] = None /\ cache[c] = None
    BY <1>0 DEF WorldTypeOK, Exclusive, is_chunk_loading
<1>l. canceled_chunk_loads' \in SUBSET Chunks /\ canceled_chunk_loads' \subseteq loading_chunks'
    BY <1>0, <1>u DEF WorldTypeOK, Exclusive
<1>1. CASE c \in canceled_chunk_loads
    <2>1. chunk_map' = chunk_map /\ locks' = locks /\ clients' = clients
        BY <1>1 DEF Arrive
    <2>2. Exclusive' /\ WritableIffLoaded' /\ HeldAtHome' /\ CachedIsSaved' /\ NoLostBlock'
        BY <1>0, <1>u, <1>l, <2>1 DEF Exclusive, is_chunk_loading, WritableIffLoaded, HeldAtHome, Home,
                                    CachedIsSaved, NoLostBlock, NextRead, OnDisk
    <2> QED BY <1>0, <1>u, <1>l, <2>1, <2>2 DEF WorldTypeOK
<1>2. CASE c \notin canceled_chunk_loads
    <2> DEFINE h == CHOOSE x \in Handles : ~InUse(c, x)
    <2>1. h \in Handles
        <3>1. \A x \in Handles : ~InUse(c, x)
            BY <1>0, <1>c, WorldAssumption DEF InUse, HeldElsewhere, HeldAtHome, Home
        <3> QED BY <3>1, WorldAssumption
    <2>2. /\ chunk_map' = [chunk_map EXCEPT ![c] = h]
          /\ locks' = [locks EXCEPT ![c] = [locks[c] EXCEPT ![h] = [blocks |-> b, loaded |-> TRUE]]]
          /\ clients' = clients \cup {<<c, h>>}
        BY <1>2 DEF Arrive
    <2> HIDE DEF h
    <2>3. /\ \A d \in Chunks : chunk_map'[d] = IF d = c THEN h ELSE chunk_map[d]
          /\ \A d \in Chunks, k \in Handles :
                 locks'[d][k] = IF d = c /\ k = h THEN [blocks |-> b, loaded |-> TRUE] ELSE locks[d][k]
        BY <1>0, <1>c, <2>1, <2>2 DEF WorldTypeOK
    <2>4. h # None
        BY <2>1, WorldAssumption
    <2>5. /\ chunk_map' \in [Chunks -> Handles \cup {None}]
          /\ locks' \in [Chunks -> [Handles -> Lock]]
          /\ clients' \in SUBSET (Chunks \X Handles)
        <3>1. [blocks |-> b, loaded |-> TRUE] \in Lock
            BY DEF Lock
        <3>2. locks' \in [Chunks -> [Handles -> Lock]]
            BY <1>0, <1>c, <2>1, <2>2, <3>1 DEF WorldTypeOK
        <3> QED BY <1>0, <1>c, <2>1, <2>2, <3>2 DEF WorldTypeOK
    <2>6. Exclusive'
        BY <1>0, <1>u, <1>c, <1>l, <2>3 DEF Exclusive, is_chunk_loading
    <2>7. WritableIffLoaded'
        <3> SUFFICES ASSUME NEW d \in Chunks, NEW k \in Handles
                     PROVE  locks'[d][k].loaded <=> chunk_map'[d] = k
            BY DEF WritableIffLoaded
        <3>1. locks[d][k].loaded <=> chunk_map[d] = k
            BY <1>0 DEF WritableIffLoaded
        <3> QED BY <1>c, <2>3, <3>1, WorldAssumption
    <2>8. /\ \A d \in Chunks : d # c => Home(d)' = Home(d)
          /\ Home(c)' = h
        BY <1>u, <1>c, <2>3, <2>4 DEF Home
    <2>9. HeldAtHome'
        <3>1. \A k \in Handles : SaveRequest(c, k) \notin Elements(requests) /\ <<c, k>> \notin clients
            BY <1>0, <1>c, WorldAssumption DEF HeldAtHome, Home
        <3>2. \A d \in Chunks, k \in Handles : SaveRequest(d, k) \in Elements(requests') => k = Home(d)'
            BY <1>0, <1>u, <2>8, <3>1 DEF HeldAtHome
        <3>3. \A d \in Chunks, k \in Handles : <<d, k>> \in clients' => k = Home(d)'
            BY <1>0, <2>2, <2>8, <3>1 DEF HeldAtHome
        <3> QED BY <1>0, <1>u, <3>2, <3>3 DEF HeldAtHome
    <2>10. CachedIsSaved'
        <3> SUFFICES ASSUME NEW d \in Chunks, chunk_map'[d] = None, cache'[d] # None
                     PROVE  \/ SaveRequest(d, cache'[d]) \in Elements(requests')
                            \/ OnDisk(d)' = locks'[d][cache'[d]].blocks
            BY DEF CachedIsSaved
        <3>1. d # c /\ chunk_map[d] = None /\ cache[d] \in Handles
            BY <1>0, <1>u, <1>c, <2>3, <2>4 DEF WorldTypeOK
        <3>2. SaveRequest(d, cache[d]) \in Elements(requests) \/ OnDisk(d) = locks[d][cache[d]].blocks
            BY <1>0, <3>1, WorldAssumption DEF CachedIsSaved
        <3> QED BY <1>u, <2>3, <3>1, <3>2 DEF OnDisk
    <2>11. NoLostBlock'
        <3> SUFFICES ASSUME NEW d \in Chunks PROVE NextRead(d)' = latest[d]
            BY <1>u DEF NoLostBlock
        <3>1. NextRead(d) = latest[d]
            BY <1>0 DEF NoLostBlock
        <3>2. CASE d = c
            BY <1>u, <1>c, <2>1, <2>3, <2>4, <3>1, <3>2 DEF NextRead
        <3>3. CASE d # c
            <4>1. chunk_map[d] \in Handles \cup {None} /\ cache[d] \in Handles \cup {None}
                BY <1>0 DEF WorldTypeOK
            <4> QED BY <1>u, <2>3, <3>1, <3>3, <4>1 DEF NextRead, OnDisk
        <3> QED BY <3>2, <3>3
    <2> QED BY <1>u, <1>l, <2>5, <2>6, <2>7, <2>9, <2>10, <2>11
<1> QED BY <1>1, <1>2

(* The job that ends is no other's: what a queue's head says is true of it. *)
LEMMA HeadJobs ==
    ASSUME WorldInv
    PROVE  /\ generated # <<>> =>
                  LET c == Head(generated) IN
                  /\ c \in loading_chunks /\ disk[c] = Missing /\ OnDisk(c) = Generated
                  /\ Made = {c} \cup Elements(Tail(generated)) /\ c \notin Elements(Tail(generated))
                  /\ Tail(generated) \in Seq(Chunks) /\ Once(Tail(generated))
           /\ results # <<>> =>
                  LET a == Head(results) IN
                  /\ a \in LoadResult /\ a \in Elements(results)
                  /\ a.pos \in loading_chunks
                  /\ Elements(Tail(results)) \subseteq Elements(results)
                  /\ Answered = {a.pos} \cup {c \in Chunks : \E r \in Elements(Tail(results)) : r.pos = c}
                  /\ \A r \in Elements(Tail(results)) : r.pos # a.pos
                  /\ Tail(results) \in Seq(LoadResult) /\ PosOnce(Tail(results))
<1>0. WorldTypeOK /\ OneJobPerLoad /\ JobsTrue
    BY DEF WorldInv
<1>1. ASSUME generated # <<>>
      PROVE  LET c == Head(generated) IN
             /\ c \in loading_chunks /\ disk[c] = Missing /\ OnDisk(c) = Generated
             /\ Made = {c} \cup Elements(Tail(generated)) /\ c \notin Elements(Tail(generated))
             /\ Tail(generated) \in Seq(Chunks) /\ Once(Tail(generated))
    <2>1. generated \in Seq(Chunks) /\ Once(generated)
        BY <1>0 DEF WorldTypeOK, OneJobPerLoad, AskedOnce, Once
    <2>2. /\ Tail(generated) \in Seq(Chunks)
          /\ Elements(generated) = {Head(generated)} \cup Elements(Tail(generated))
        BY <1>1, <2>1, TailElements
    <2>3. Once(Tail(generated)) /\ Head(generated) \notin Elements(Tail(generated))
        BY <1>1, <2>1, TailOnce
    <2> QED BY <1>0, <2>2, <2>3 DEF OneJobPerLoad, JobsTrue, Made, OnDisk
<1>2. ASSUME results # <<>>
      PROVE  LET a == Head(results) IN
             /\ a \in LoadResult /\ a \in Elements(results)
             /\ a.pos \in loading_chunks
             /\ Elements(Tail(results)) \subseteq Elements(results)
             /\ Answered = {a.pos} \cup {c \in Chunks : \E r \in Elements(Tail(results)) : r.pos = c}
             /\ \A r \in Elements(Tail(results)) : r.pos # a.pos
             /\ Tail(results) \in Seq(LoadResult) /\ PosOnce(Tail(results))
    <2> DEFINE a == Head(results)
    <2>1. results \in Seq(LoadResult) /\ PosOnce(results)
        BY <1>0 DEF WorldTypeOK, OneJobPerLoad, AskedOnce, PosOnce
    <2>2. /\ Tail(results) \in Seq(LoadResult) /\ a \in LoadResult
          /\ Elements(results) = {a} \cup Elements(Tail(results))
        BY <1>2, <2>1, TailElements
    <2>3. PosOnce(Tail(results)) /\ \A r \in Elements(Tail(results)) : r.pos # a.pos
        BY <1>2, <2>1, TailOnce
    <2>4. a.pos \in Chunks
        BY <2>2 DEF LoadResult
    <2> HIDE DEF a
    <2>5. Answered = {a.pos} \cup {c \in Chunks : \E r \in Elements(Tail(results)) : r.pos = c}
        BY <2>2, <2>4 DEF Answered
    <2>6. a.pos \in loading_chunks
        BY <1>0, <2>5 DEF OneJobPerLoad
    <2> QED BY <2>2, <2>3, <2>5, <2>6 DEF a
<1> QED BY <1>1, <1>2

LEMMA PollGeneratedKeeps == WorldInv /\ PollGenerated => WorldInv'
<1> SUFFICES ASSUME WorldInv, PollGenerated PROVE WorldInv'
    OBVIOUS
<1>0. /\ WorldTypeOK /\ Exclusive /\ WritableIffLoaded /\ HeldAtHome
      /\ CachedIsSaved /\ OneJobPerLoad /\ JobsTrue /\ NoLostBlock
    BY DEF WorldInv
<1>u. /\ unload_queue' = unload_queue /\ due' = due /\ cache' = cache /\ requests' = requests
      /\ results' = results /\ generating' = generating /\ disk' = disk /\ latest' = latest
      /\ TakeGenerated
    BY DEF PollGenerated
<1>1. CASE generated = <<>>
    <2>1. UNCHANGED <<storevars, jobvars, disk, locks, latest, clients>>
        BY <1>1, <1>u DEF TakeGenerated, storevars, jobvars
    <2> QED BY <1>0, <1>u, <2>1, QuietKeeps DEF WorldTypeOK
<1>2. CASE generated # <<>>
    <2> DEFINE c == Head(generated)
    <2>1. Arrive(c, Generated) /\ generated' = Tail(generated)
        BY <1>2, <1>u DEF TakeGenerated
    <2>2. /\ c \in loading_chunks /\ disk[c] = Missing /\ OnDisk(c) = Generated
          /\ Made = {c} \cup Elements(generated') /\ c \notin Elements(generated')
          /\ generated' \in Seq(Chunks) /\ Once(generated')
        BY <1>2, <2>1, HeadJobs
    <2> HIDE DEF c
    <2>3. /\ Exclusive' /\ WritableIffLoaded' /\ HeldAtHome' /\ CachedIsSaved' /\ NoLostBlock'
          /\ loading_chunks' = loading_chunks \ {c}
          /\ chunk_map' \in [Chunks -> Handles \cup {None}]
          /\ canceled_chunk_loads' \in SUBSET Chunks
          /\ locks' \in [Chunks -> [Handles -> Lock]]
          /\ clients' \in SUBSET (Chunks \X Handles)
        BY <1>u, <2>1, <2>2, WorldAssumption, ArriveKeeps
    <2>4. WorldTypeOK'
        BY <1>0, <1>u, <2>2, <2>3 DEF WorldTypeOK
    <2>5. Made' \subseteq Made /\ Made' = Made \ {c} /\ Asked' = Asked /\ Answered' = Answered
        BY <1>u, <2>2 DEF Made, Asked, Answered
    <2>6. AskedOnce'
        BY <1>0, <1>u, <2>2 DEF OneJobPerLoad, AskedOnce, Once
    <2>7. c \notin Asked \cup Answered \cup generating
        BY <1>0, <2>2 DEF OneJobPerLoad
    <2>8. OneJobPerLoad' /\ JobsTrue'
        BY <1>0, <1>u, <2>3, <2>5, <2>6, <2>7 DEF OneJobPerLoad, JobsTrue
    <2> QED BY <2>3, <2>4, <2>8 DEF WorldInv
<1> QED BY <1>1, <1>2

LEMMA PollLoadedKeeps == WorldInv /\ PollLoaded => WorldInv'
<1> SUFFICES ASSUME WorldInv, PollLoaded PROVE WorldInv'
    OBVIOUS
<1>0. /\ WorldTypeOK /\ Exclusive /\ WritableIffLoaded /\ HeldAtHome
      /\ CachedIsSaved /\ OneJobPerLoad /\ JobsTrue /\ NoLostBlock
    BY DEF WorldInv
<1> DEFINE a == Head(results)
<1>u. /\ unload_queue' = unload_queue /\ due' = due /\ cache' = cache /\ requests' = requests
      /\ disk' = disk /\ latest' = latest /\ results' = Tail(results) /\ results # <<>>
    BY DEF PollLoaded
<1>a. /\ a \in LoadResult /\ a \in Elements(results)
      /\ a.pos \in loading_chunks
      /\ Elements(results') \subseteq Elements(results)
      /\ Answered = {a.pos} \cup Answered' /\ a.pos \notin Answered'
      /\ results' \in Seq(LoadResult) /\ PosOnce(results')
    BY <1>u, HeadJobs DEF Answered
<1>k. a.kind \in {"missing", "error", "loaded"} /\ a.blocks \in Blocks /\ a.pos \in Chunks
    BY <1>a DEF LoadResult
<1>j. a.pos \notin Asked \cup generating \cup Made
    BY <1>0, <1>a DEF OneJobPerLoad
<1>c. CASE a.kind = "missing" \/ a.kind = "error" \/ a.kind = "loaded"
    <2>1. CASE a.kind = "loaded"
        <3>1. Arrive(a.pos, a.blocks) /\ generating' = generating /\ generated' = generated
            BY <2>1 DEF PollLoaded
        <3>2. OnDisk(a.pos) = a.blocks
            BY <1>0, <1>a, <1>k, <2>1, WorldAssumption DEF JobsTrue, OnDisk
        <3> HIDE DEF a
        <3>3. /\ Exclusive' /\ WritableIffLoaded' /\ HeldAtHome' /\ CachedIsSaved' /\ NoLostBlock'
              /\ loading_chunks' = loading_chunks \ {a.pos}
              /\ chunk_map' \in [Chunks -> Handles \cup {None}]
              /\ canceled_chunk_loads' \in SUBSET Chunks
              /\ locks' \in [Chunks -> [Handles -> Lock]]
              /\ clients' \in SUBSET (Chunks \X Handles)
            BY <1>a, <1>k, <1>u, <3>1, <3>2, ArriveKeeps
        <3>4. WorldTypeOK'
            BY <1>0, <1>a, <1>u, <3>1, <3>3 DEF WorldTypeOK
        <3>5. AskedOnce' /\ Made' = Made /\ Asked' = Asked
            BY <1>0, <1>a, <1>u, <3>1 DEF OneJobPerLoad, AskedOnce, PosOnce, Made, Asked
        <3>6. OneJobPerLoad' /\ JobsTrue'
            BY <1>0, <1>a, <1>j, <1>u, <3>1, <3>3, <3>5 DEF OneJobPerLoad, JobsTrue
        <3> QED BY <3>3, <3>4, <3>6 DEF WorldInv
    <2>2. CASE a.kind = "error"
        <3>1. /\ generating' = generating /\ generated' = generated /\ chunk_map' = chunk_map
              /\ loading_chunks' = loading_chunks /\ canceled_chunk_loads' = canceled_chunk_loads
              /\ locks' = locks /\ clients' = clients
            BY <2>2 DEF PollLoaded
        <3>2. disk[a.pos] = Broken
            BY <1>0, <1>a, <2>2 DEF JobsTrue
        <3> HIDE DEF a
        <3>3. WorldTypeOK'
            BY <1>0, <1>a, <1>u, <3>1 DEF WorldTypeOK
        <3>4. AskedOnce' /\ Made' = Made /\ Asked' = Asked
            BY <1>0, <1>a, <1>u, <3>1 DEF OneJobPerLoad, AskedOnce, PosOnce, Made, Asked
        <3>5. OneJobPerLoad' /\ JobsTrue'
            BY <1>0, <1>a, <1>u, <3>1, <3>2, <3>4 DEF OneJobPerLoad, JobsTrue
        <3>6. Exclusive' /\ WritableIffLoaded' /\ HeldAtHome' /\ CachedIsSaved' /\ NoLostBlock'
            BY <1>0, <1>u, <3>1 DEF Exclusive, is_chunk_loading, WritableIffLoaded, HeldAtHome, Home,
                                  CachedIsSaved, NoLostBlock, NextRead, OnDisk
        <3> QED BY <3>3, <3>5, <3>6 DEF WorldInv
    <2>3. CASE a.kind = "missing"
        <3>1. generating' = generating \cup {a.pos} /\ TakeGenerated
            BY <2>3 DEF PollLoaded
        <3>2. disk[a.pos] = Missing
            BY <1>0, <1>a, <2>3 DEF JobsTrue
        <3> HIDE DEF a
        <3>3. CASE generated = <<>>
            <4>1. /\ generated' = generated /\ chunk_map' = chunk_map
                  /\ loading_chunks' = loading_chunks /\ canceled_chunk_loads' = canceled_chunk_loads
                  /\ locks' = locks /\ clients' = clients
                BY <3>1, <3>3 DEF TakeGenerated
            <4>2. WorldTypeOK'
                BY <1>0, <1>a, <1>k, <1>u, <3>1, <4>1 DEF WorldTypeOK
            <4>3. AskedOnce' /\ Made' = Made /\ Asked' = Asked
                BY <1>0, <1>a, <1>u, <4>1 DEF OneJobPerLoad, AskedOnce, PosOnce, Made, Asked
            <4>4. OneJobPerLoad'
                BY <1>0, <1>a, <1>j, <1>u, <3>1, <4>1, <4>3 DEF OneJobPerLoad
            <4>5. JobsTrue'
                BY <1>0, <1>a, <1>u, <3>1, <3>2, <4>3 DEF JobsTrue
            <4>6. Exclusive' /\ WritableIffLoaded' /\ HeldAtHome' /\ CachedIsSaved' /\ NoLostBlock'
                BY <1>0, <1>u, <4>1 DEF Exclusive, is_chunk_loading, WritableIffLoaded, HeldAtHome, Home,
                                      CachedIsSaved, NoLostBlock, NextRead, OnDisk
            <4> QED BY <4>2, <4>4, <4>5, <4>6 DEF WorldInv
        <3>4. CASE generated # <<>>
            <4> DEFINE c == Head(generated)
            <4>1. Arrive(c, Generated) /\ generated' = Tail(generated)
                BY <3>1, <3>4 DEF TakeGenerated
            <4>2. /\ c \in loading_chunks /\ disk[c] = Missing /\ OnDisk(c) = Generated
                  /\ Made = {c} \cup Elements(generated') /\ c \notin Elements(generated')
                  /\ generated' \in Seq(Chunks) /\ Once(generated')
                BY <3>4, <4>1, HeadJobs
            <4> HIDE DEF c
            <4>3. /\ Exclusive' /\ WritableIffLoaded' /\ HeldAtHome' /\ CachedIsSaved' /\ NoLostBlock'
                  /\ loading_chunks' = loading_chunks \ {c}
                  /\ chunk_map' \in [Chunks -> Handles \cup {None}]
                  /\ canceled_chunk_loads' \in SUBSET Chunks
                  /\ locks' \in [Chunks -> [Handles -> Lock]]
                  /\ clients' \in SUBSET (Chunks \X Handles)
                BY <1>u, <4>1, <4>2, WorldAssumption, ArriveKeeps
            <4>4. WorldTypeOK'
                BY <1>0, <1>a, <1>k, <1>u, <3>1, <4>2, <4>3 DEF WorldTypeOK
            <4>5. Made' \subseteq Made /\ Made' = Made \ {c} /\ Asked' = Asked
                BY <1>u, <4>2 DEF Made, Asked
            <4>6. AskedOnce'
                BY <1>0, <1>a, <1>u, <4>2 DEF OneJobPerLoad, AskedOnce, Once, PosOnce
            <4>7. c \notin Asked \cup Answered \cup generating /\ c # a.pos
                BY <1>0, <1>j, <4>2 DEF OneJobPerLoad
            <4>8. OneJobPerLoad'
                BY <1>0, <1>a, <1>j, <1>u, <3>1, <4>3, <4>5, <4>6, <4>7 DEF OneJobPerLoad
            <4>9. JobsTrue'
                BY <1>0, <1>a, <1>u, <3>1, <3>2, <4>5 DEF JobsTrue
            <4> QED BY <4>3, <4>4, <4>8, <4>9 DEF WorldInv
        <3> QED BY <3>3, <3>4
    <2> QED BY <1>c, <2>1, <2>2, <2>3
<1> QED BY <1>k, <1>c

(* Only a loaded chunk is written, and it is read from the map.             *)
LEMMA SetBlockKeeps ==
    ASSUME WorldInv, NEW c \in Chunks, NEW b \in Blocks, SetBlock(c, b)
    PROVE  WorldInv'
<1>0. /\ WorldTypeOK /\ Exclusive /\ WritableIffLoaded /\ HeldAtHome
      /\ CachedIsSaved /\ OneJobPerLoad /\ JobsTrue /\ NoLostBlock
    BY DEF WorldInv
<1> DEFINE h == chunk_map[c]
<1>u. /\ unload_queue' = unload_queue /\ due' = due /\ chunk_map' = chunk_map /\ cache' = cache
      /\ loading_chunks' = loading_chunks /\ canceled_chunk_loads' = canceled_chunk_loads
      /\ requests' = requests /\ results' = results /\ generating' = generating
      /\ generated' = generated /\ disk' = disk /\ clients' = clients
      /\ latest' = [latest EXCEPT ![c] = b]
      /\ locks' = [locks EXCEPT ![c] = [locks[c] EXCEPT ![h] = [locks[c][h] EXCEPT !.blocks = b]]]
      /\ h # None
    BY DEF SetBlock, mainvars, storevars, jobvars, is_chunk_loaded
<1>h. h \in Handles /\ h = chunk_map[c]
    BY <1>0, <1>u DEF WorldTypeOK
<1> HIDE DEF h
<1>1. \A d \in Chunks, k \in Handles :
          /\ locks'[d][k].blocks = IF d = c /\ k = h THEN b ELSE locks[d][k].blocks
          /\ locks'[d][k].loaded <=> locks[d][k].loaded
    BY <1>0, <1>u, <1>h DEF WorldTypeOK, Lock
<1>2. WorldTypeOK'
    <2>1. [locks[c][h] EXCEPT !.blocks = b] \in Lock
        BY <1>0, <1>h, LockTypes
    <2>2. locks' \in [Chunks -> [Handles -> Lock]]
        BY <1>0, <1>u, <1>h, <2>1 DEF WorldTypeOK
    <2> QED BY <1>0, <1>u, <2>2 DEF WorldTypeOK
<1>3. Exclusive' /\ HeldAtHome' /\ OneJobPerLoad' /\ JobsTrue'
    BY <1>0, <1>u DEF Exclusive, is_chunk_loading, HeldAtHome, Home, OneJobPerLoad, AskedOnce, Asked,
                    Answered, Made, JobsTrue
<1>4. WritableIffLoaded'
    BY <1>0, <1>u, <1>1 DEF WritableIffLoaded
<1>5. CachedIsSaved'
    <2> SUFFICES ASSUME NEW d \in Chunks, chunk_map[d] = None, cache[d] # None
                 PROVE  \/ SaveRequest(d, cache[d]) \in Elements(requests)
                        \/ OnDisk(d) = locks'[d][cache[d]].blocks
        BY <1>u DEF CachedIsSaved, OnDisk
    <2>1. d # c /\ cache[d] \in Handles
        BY <1>0, <1>u, <1>h DEF WorldTypeOK
    <2> QED BY <1>0, <1>1, <2>1 DEF CachedIsSaved
<1>6. NoLostBlock'
    <2> SUFFICES ASSUME NEW d \in Chunks PROVE NextRead(d)' = latest'[d]
        BY DEF NoLostBlock
    <2>1. NextRead(d) = latest[d]
        BY <1>0 DEF NoLostBlock
    <2>2. CASE d = c
        <3>1. NextRead(d)' = b
            BY <1>u, <1>h, <1>1, <2>2 DEF NextRead
        <3>2. latest'[d] = b
            <4>1. latest \in [Chunks -> Blocks \cup {Broken}]
                BY <1>0 DEF WorldTypeOK
            <4> QED BY <1>u, <2>2, <4>1
        <3> QED BY <3>1, <3>2
    <2>3. CASE d # c
        <3>1. chunk_map[d] \in Handles \cup {None} /\ cache[d] \in Handles \cup {None}
            BY <1>0 DEF WorldTypeOK
        <3>2. NextRead(d)' = NextRead(d)
            BY <1>u, <1>1, <2>3, <3>1 DEF NextRead, OnDisk
        <3> QED BY <1>u, <2>1, <2>3, <3>2
    <2> QED BY <2>2, <2>3
<1> QED BY <1>2, <1>3, <1>4, <1>5, <1>6 DEF WorldInv

LEMMA TakeHandleKeeps ==
    ASSUME WorldInv, NEW c \in Chunks, TakeHandle(c)
    PROVE  WorldInv'
<1>0. WorldTypeOK /\ HeldAtHome
    BY DEF WorldInv
<1>u. /\ UNCHANGED <<unload_queue, due, storevars, jobvars, disk, locks, latest>>
      /\ clients' = clients \cup {<<c, chunk_map[c]>>} /\ chunk_map[c] # None
    BY DEF TakeHandle, mainvars, is_chunk_loaded
<1>1. chunk_map[c] \in Handles
    BY <1>0, <1>u DEF WorldTypeOK
<1>2. WorldTypeOK'
    BY <1>0, <1>u, <1>1 DEF WorldTypeOK, storevars, jobvars
<1>3. HeldAtHome'
    BY <1>0, <1>u DEF HeldAtHome, Home, storevars, jobvars
<1>4. Exclusive' /\ WritableIffLoaded' /\ NoLostBlock' /\ CachedIsSaved' /\ OneJobPerLoad' /\ JobsTrue'
    BY <1>u DEF WorldInv, CachedIsSaved, Exclusive, WritableIffLoaded, NoLostBlock, NextRead, OnDisk,
                is_chunk_loading, OneJobPerLoad, AskedOnce, Asked, Answered, Made, JobsTrue, storevars, jobvars
<1> QED BY <1>2, <1>3, <1>4 DEF WorldInv

-----------------------------------------------------------------------------
(* The region worker takes the oldest request.                              *)
LEMMA HeadRequest ==
    ASSUME WorldInv, requests # <<>>
    PROVE  LET q == Head(requests) IN
           /\ q \in Request /\ q \in Elements(requests)
           /\ Elements(requests) = {q} \cup Elements(Tail(requests))
           /\ Tail(requests) \in Seq(Request) /\ LoadsOnce(Tail(requests))
           /\ q.kind = "load" => q = LoadRequest(q.pos) /\ q \notin Elements(Tail(requests))
           /\ q.kind = "save" => q.handle \in Handles /\ q = SaveRequest(q.pos, q.handle)
<1>0. WorldTypeOK /\ HeldAtHome /\ OneJobPerLoad
    BY DEF WorldInv
<1> DEFINE q == Head(requests)
<1>1. requests \in Seq(Request) /\ LoadsOnce(requests)
    BY <1>0 DEF WorldTypeOK, OneJobPerLoad, AskedOnce, LoadsOnce
<1>2. /\ Tail(requests) \in Seq(Request) /\ q \in Request
      /\ Elements(requests) = {q} \cup Elements(Tail(requests))
    BY <1>1, TailElements
<1>3. /\ LoadsOnce(Tail(requests))
      /\ q.kind = "load" => q \notin Elements(Tail(requests))
    BY <1>1, TailOnce
<1> HIDE DEF q
<1>4. q.kind = "load" => q = LoadRequest(q.pos)
    BY <1>0, <1>2 DEF HeldAtHome
<1>5. q.kind = "save" => q.handle \in Handles /\ q = SaveRequest(q.pos, q.handle)
    BY <1>0, <1>2 DEF HeldAtHome, SaveRequest, Request
<1> QED BY <1>2, <1>3, <1>4, <1>5 DEF q

LEMMA ServeLoadKeeps == WorldInv /\ ServeLoad => WorldInv'
<1> SUFFICES ASSUME WorldInv, ServeLoad PROVE WorldInv'
    OBVIOUS
<1>0. /\ WorldTypeOK /\ Exclusive /\ WritableIffLoaded /\ HeldAtHome
      /\ CachedIsSaved /\ OneJobPerLoad /\ JobsTrue /\ NoLostBlock
    BY DEF WorldInv
<1> DEFINE q == Head(requests)
           c == q.pos
           r == Answer(c)
<1>u. /\ unload_queue' = unload_queue /\ due' = due /\ chunk_map' = chunk_map /\ cache' = cache
      /\ loading_chunks' = loading_chunks /\ canceled_chunk_loads' = canceled_chunk_loads
      /\ generating' = generating /\ generated' = generated /\ disk' = disk /\ locks' = locks
      /\ clients' = clients /\ latest' = latest
      /\ requests # <<>> /\ q.kind = "load"
      /\ results' = Append(results, r) /\ requests' = Tail(requests)
    BY DEF ServeLoad, mainvars, storevars, datavars
<1>1. /\ q \in Request /\ q = LoadRequest(c) /\ q \in Elements(requests)
      /\ Elements(requests) = {q} \cup Elements(requests') /\ q \notin Elements(requests')
      /\ requests' \in Seq(Request) /\ LoadsOnce(requests')
    BY <1>u, HeadRequest
<1>2. c \in Chunks
    BY <1>1 DEF Request
<1> HIDE DEF q, c
<1>3. /\ r \in LoadResult /\ r.pos = c
      /\ r.kind = "loaded" => disk[c] = r.blocks
      /\ r.kind = "missing" => disk[c] = Missing
      /\ r.kind = "error" => disk[c] = Broken
    <2>1. disk[c] \in Blocks \cup {Missing, Broken}
        BY <1>0, <1>2 DEF WorldTypeOK
    <2>2. CASE disk[c] = Missing
        BY <1>2, <2>2, WorldAssumption DEF Answer, LoadResult
    <2>3. CASE disk[c] = Broken
        BY <1>2, <2>3, WorldAssumption DEF Answer, LoadResult
    <2>4. CASE disk[c] \in Blocks
        BY <1>2, <2>4, WorldAssumption DEF Answer, LoadResult
    <2> QED BY <2>1, <2>2, <2>3, <2>4
<1> HIDE DEF r
<1>4. results' \in Seq(LoadResult) /\ Elements(results') = Elements(results) \cup {r}
    BY <1>0, <1>u, <1>3, AppendElements DEF WorldTypeOK
<1>5. WorldTypeOK'
    BY <1>0, <1>u, <1>1, <1>4 DEF WorldTypeOK
<1>6. Exclusive' /\ WritableIffLoaded' /\ NoLostBlock'
    BY <1>0, <1>u DEF Exclusive, is_chunk_loading, WritableIffLoaded, NoLostBlock, NextRead, OnDisk
<1>7. HeldAtHome'
    BY <1>0, <1>u, <1>1 DEF HeldAtHome, Home
<1>8. CachedIsSaved'
    <2>1. \A d \in Chunks, h \in Handles \cup {None} : SaveRequest(d, h) # q
        BY <1>1 DEF SaveRequest, LoadRequest
    <2> QED BY <1>0, <1>u, <1>1, <2>1 DEF CachedIsSaved, OnDisk, WorldTypeOK
<1>9. Asked = Asked' \cup {c} /\ c \notin Asked' /\ Answered' = Answered \cup {c} /\ Made' = Made
    <2>1. Asked = Asked' \cup {c} /\ c \notin Asked'
        BY <1>1, <1>2 DEF Asked, LoadRequest
    <2>2. Answered' = Answered \cup {c}
        BY <1>2, <1>3, <1>4 DEF Answered
    <2> QED BY <1>u, <2>1, <2>2 DEF Made
<1>10. AskedOnce'
    <2>1. c \notin Answered
        BY <1>0, <1>9 DEF OneJobPerLoad
    <2>2. \A s \in Elements(results) : s.pos # r.pos
        BY <1>2, <1>3, <2>1 DEF Answered
    <2>3. results \in Seq(LoadResult) /\ PosOnce(results)
        BY <1>0 DEF WorldTypeOK, OneJobPerLoad, AskedOnce, PosOnce
    <2>4. PosOnce(results')
        BY <1>u, <1>3, <2>2, <2>3, AppendOnce
    <2> QED BY <1>0, <1>u, <1>1, <2>4 DEF OneJobPerLoad, AskedOnce, PosOnce, LoadsOnce
<1>11. OneJobPerLoad'
    BY <1>0, <1>u, <1>9, <1>10 DEF OneJobPerLoad
<1>12. JobsTrue'
    BY <1>0, <1>u, <1>3, <1>4, <1>9 DEF JobsTrue
<1> QED BY <1>5, <1>6, <1>7, <1>8, <1>11, <1>12 DEF WorldInv

(* What is saved is held, hence not being loaded: no answer goes stale.     *)
LEMMA ServeSaveKeeps == WorldInv /\ ServeSave => WorldInv'
<1> SUFFICES ASSUME WorldInv, ServeSave PROVE WorldInv'
    OBVIOUS
<1>0. /\ WorldTypeOK /\ Exclusive /\ WritableIffLoaded /\ HeldAtHome
      /\ CachedIsSaved /\ OneJobPerLoad /\ JobsTrue /\ NoLostBlock
    BY DEF WorldInv
<1> DEFINE q == Head(requests)
           c == q.pos
           h == q.handle
<1>u. /\ unload_queue' = unload_queue /\ due' = due /\ chunk_map' = chunk_map /\ cache' = cache
      /\ loading_chunks' = loading_chunks /\ canceled_chunk_loads' = canceled_chunk_loads
      /\ generating' = generating /\ generated' = generated /\ locks' = locks
      /\ clients' = clients /\ latest' = latest /\ results' = results
      /\ requests # <<>> /\ q.kind = "save"
      /\ disk' = [disk EXCEPT ![c] = locks[c][h].blocks] /\ requests' = Tail(requests)
    BY DEF ServeSave, mainvars, storevars
<1>1. /\ q \in Request /\ q \in Elements(requests)
      /\ h \in Handles /\ q = SaveRequest(c, h)
      /\ Elements(requests) = {q} \cup Elements(requests')
      /\ requests' \in Seq(Request) /\ LoadsOnce(requests')
    BY <1>u, HeadRequest
<1>2. c \in Chunks
    BY <1>1 DEF Request
<1> HIDE DEF q, c, h
<1>3. h = Home(c) /\ h # None
    BY <1>0, <1>1, <1>2, WorldAssumption DEF HeldAtHome
<1>4. c \notin loading_chunks
    BY <1>0, <1>2, <1>3 DEF Exclusive, Home, is_chunk_loading
<1>5. locks[c][h].blocks \in Blocks
    BY <1>0, <1>1, <1>2, LockTypes
<1>6. \A d \in Chunks : disk'[d] = IF d = c THEN locks[c][h].blocks ELSE disk[d]
    BY <1>0, <1>u, <1>2 DEF WorldTypeOK
<1>7. WorldTypeOK'
    BY <1>0, <1>u, <1>1, <1>5 DEF WorldTypeOK
<1>8. Exclusive' /\ WritableIffLoaded'
    BY <1>0, <1>u DEF Exclusive, is_chunk_loading, WritableIffLoaded
<1>9. HeldAtHome'
    BY <1>0, <1>u, <1>1 DEF HeldAtHome, Home
<1>10. \A d \in Chunks : OnDisk(d)' = IF d = c THEN locks[c][h].blocks ELSE OnDisk(d)
    BY <1>5, <1>6, WorldAssumption DEF OnDisk
<1>11. CachedIsSaved'
    <2> SUFFICES ASSUME NEW d \in Chunks, chunk_map'[d] = None, cache'[d] # None
                 PROVE  \/ SaveRequest(d, cache'[d]) \in Elements(requests')
                        \/ OnDisk(d)' = locks'[d][cache'[d]].blocks
        BY DEF CachedIsSaved
    <2>1. CASE d = c
        BY <1>u, <1>3, <1>10, <2>1 DEF Home
    <2>2. CASE d # c
        <3>1. SaveRequest(d, cache[d]) # q
            BY <1>1, <2>2 DEF SaveRequest
        <3> QED BY <1>0, <1>u, <1>1, <1>10, <2>2, <3>1 DEF CachedIsSaved
    <2> QED BY <2>1, <2>2
<1>12. NoLostBlock'
    <2> SUFFICES ASSUME NEW d \in Chunks PROVE NextRead(d)' = NextRead(d)
        BY <1>0, <1>u DEF NoLostBlock
    <2>1. CASE d = c
        BY <1>u, <1>3, <2>1 DEF NextRead, Home
    <2>2. CASE d # c
        BY <1>u, <1>10, <2>2 DEF NextRead
    <2> QED BY <2>1, <2>2
<1>13. Asked' = Asked /\ Answered' = Answered /\ Made' = Made
    <2>1. \A d \in Chunks : LoadRequest(d) # q
        BY <1>1 DEF LoadRequest, SaveRequest
    <2> QED BY <1>u, <1>1, <2>1 DEF Asked, Answered, Made
<1>14. OneJobPerLoad'
    <2>1. AskedOnce'
        BY <1>0, <1>u, <1>1 DEF OneJobPerLoad, AskedOnce, LoadsOnce
    <2>2. \A d \in loading_chunks : disk'[d] = disk[d]
        BY <1>0, <1>4, <1>6 DEF WorldTypeOK
    <2> QED BY <1>0, <1>u, <1>13, <2>1, <2>2 DEF OneJobPerLoad
<1>15. JobsTrue'
    <2>1. c \notin Answered \cup generating \cup Made
        BY <1>0, <1>4 DEF OneJobPerLoad
    <2>2. \A r \in Elements(results) : r.pos \in Chunks /\ r.pos # c
        <3>1. \A r \in Elements(results) : r \in LoadResult
            BY <1>0 DEF WorldTypeOK, Elements
        <3> QED BY <2>1, <3>1 DEF Answered, LoadResult
    <2>3. \A d \in generating \cup Made : d \in Chunks /\ d # c
        BY <1>0, <2>1 DEF WorldTypeOK, OneJobPerLoad
    <2> QED BY <1>0, <1>u, <1>6, <1>13, <2>2, <2>3 DEF JobsTrue
<1> QED BY <1>7, <1>8, <1>9, <1>11, <1>12, <1>14, <1>15 DEF WorldInv

LEMMA GenerateKeeps ==
    ASSUME WorldInv, NEW c \in Chunks, Generate(c)
    PROVE  WorldInv'
<1>0. /\ WorldTypeOK /\ Exclusive /\ WritableIffLoaded /\ HeldAtHome
      /\ CachedIsSaved /\ OneJobPerLoad /\ JobsTrue /\ NoLostBlock
    BY DEF WorldInv
<1>u. /\ UNCHANGED <<unload_queue, due, storevars, requests, results, disk, locks, clients, latest>>
      /\ c \in generating /\ generating' = generating \ {c} /\ generated' = Append(generated, c)
    BY DEF Generate, mainvars, datavars
<1>1. generated' \in Seq(Chunks) /\ Made' = Made \cup {c}
    BY <1>0, <1>u, AppendElements DEF WorldTypeOK, Made
<1>2. WorldTypeOK'
    BY <1>0, <1>u, <1>1 DEF WorldTypeOK, storevars
<1>3. c \notin Made
    BY <1>0, <1>u DEF OneJobPerLoad
<1>4. Once(generated')
    <2>1. generated \in Seq(Chunks) /\ Once(generated) /\ c \notin Elements(generated)
        BY <1>0, <1>3 DEF WorldTypeOK, OneJobPerLoad, AskedOnce, Once, Made
    <2> QED BY <1>u, <2>1, AppendOnce
<1>5. OneJobPerLoad'
    <2>1. AskedOnce' /\ Asked' = Asked /\ Answered' = Answered
        BY <1>0, <1>u, <1>4 DEF OneJobPerLoad, AskedOnce, Once, Asked, Answered
    <2> QED BY <1>0, <1>u, <1>1, <1>3, <2>1 DEF OneJobPerLoad, storevars
<1>6. JobsTrue'
    BY <1>0, <1>u, <1>1 DEF JobsTrue
<1>7. Exclusive' /\ WritableIffLoaded' /\ HeldAtHome' /\ CachedIsSaved' /\ NoLostBlock'
    BY <1>0, <1>u DEF Exclusive, is_chunk_loading, WritableIffLoaded, HeldAtHome, Home,
                    CachedIsSaved, NoLostBlock, NextRead, OnDisk, storevars
<1> QED BY <1>2, <1>5, <1>6, <1>7 DEF WorldInv

-----------------------------------------------------------------------------
LEMMA WorldInvStep == WorldInv /\ [Next]_worldvars => WorldInv'
<1> SUFFICES ASSUME WorldInv, [Next]_worldvars PROVE WorldInv'
    OBVIOUS
<1>t. unload_queue \in Seq(Chunks) /\ due \in Nat /\ due <= Len(unload_queue)
    BY DEF WorldInv, WorldTypeOK
<1>1. ASSUME NEW c \in Chunks, RemoveLastTicket(c) PROVE WorldInv'
    <2>1. /\ unload_queue' = Append(unload_queue, c) /\ due' = due
          /\ UNCHANGED <<storevars, jobvars, disk, locks, clients, latest>>
        BY <1>1 DEF RemoveLastTicket, datavars
    <2>2. unload_queue' \in Seq(Chunks) /\ Len(unload_queue') = Len(unload_queue) + 1 /\ Len(unload_queue) \in Nat
        BY <1>t, <2>1
    <2> QED BY <1>t, <2>1, <2>2, QuietKeeps
<1>2. ASSUME NEW c \in Chunks, InsertTicket(c) PROVE WorldInv'
    BY <1>2, InsertTicketKeeps
<1>3. CASE EndTickets \/ EndTick \/ UNCHANGED worldvars
    <2>1. /\ UNCHANGED <<unload_queue, due, storevars, jobvars, disk, locks, clients, latest>>
        BY <1>3 DEF EndTickets, EndTick, worldvars, mainvars, datavars
    <2> QED BY <1>t, <2>1, QuietKeeps
<1>4. CASE Clock
    <2>1. /\ due < Len(unload_queue) /\ due' = due + 1
          /\ UNCHANGED <<unload_queue, storevars, jobvars, disk, locks, clients, latest>>
        BY <1>4 DEF Clock, datavars
    <2>2. due' \in Nat /\ due' <= Len(unload_queue')
        BY <1>t, <2>1
    <2> QED BY <1>t, <2>1, <2>2, QuietKeeps
<1>5. CASE UnloadNext
    BY <1>5, UnloadNextKeeps
<1>6. CASE EndUnload
    BY <1>6, EndUnloadKeeps
<1>7. CASE PollLoaded
    BY <1>7, PollLoadedKeeps
<1>8. CASE PollGenerated
    BY <1>8, PollGeneratedKeeps
<1>9. ASSUME NEW c \in Chunks, TakeHandle(c) PROVE WorldInv'
    BY <1>9, TakeHandleKeeps
<1>10. ASSUME NEW c \in Chunks, NEW b \in Blocks, SetBlock(c, b) PROVE WorldInv'
    BY <1>10, SetBlockKeeps
<1>11. ASSUME NEW c \in Chunks, NEW h \in Handles, Release(c, h) PROVE WorldInv'
    <2>1. /\ UNCHANGED <<unload_queue, due, storevars, jobvars, disk, locks, latest>>
          /\ clients' \subseteq clients
        BY <1>11 DEF Release, mainvars
    <2> QED BY <1>t, <2>1, QuietKeeps
<1>12. CASE ServeLoad
    BY <1>12, ServeLoadKeeps
<1>13. CASE ServeSave
    BY <1>13, ServeSaveKeeps
<1>14. ASSUME NEW c \in Chunks, Generate(c) PROVE WorldInv'
    BY <1>14, GenerateKeeps
<1> QED BY <1>1, <1>2, <1>3, <1>4, <1>5, <1>6, <1>7, <1>8, <1>9, <1>10, <1>11, <1>12, <1>13, <1>14 DEF Next

LEMMA WorldInvAlways == WorldSpec => []WorldInv
<1>1. Init => WorldInv
    BY WorldInvInit
<1>2. WorldInv /\ [Next]_worldvars => WorldInv'
    BY WorldInvStep
<1> QED BY <1>1, <1>2, PTL DEF WorldSpec

-----------------------------------------------------------------------------
\* A chunk is loaded, cached or on its way, never two of these: the handle that
\* queue_chunk_load takes from the cache, unload_chunk puts there and an answer
\* brings is the only one.
THEOREM WorldExclusive == WorldSpec => []Exclusive
<1>1. WorldInv => Exclusive
    BY DEF WorldInv
<1> QED BY <1>1, WorldInvAlways, PTL

\* No load of the ChunkWorker is lost or asked for twice, in whatever order the
\* region worker, the pool and the tick take their turns.
THEOREM WorldOneJobPerLoad == WorldSpec => []OneJobPerLoad
<1>1. WorldInv => OneJobPerLoad
    BY DEF WorldInv
<1> QED BY <1>1, WorldInvAlways, PTL

\* ChunkLock's flag is set for the handle in the chunk map and for no other.
THEOREM WorldWritableIffLoaded == WorldSpec => []WritableIffLoaded
<1>1. WorldInv => WritableIffLoaded
    BY DEF WorldInv
<1> QED BY <1>1, WorldInvAlways, PTL

\* Whoever holds a chunk holds the handle everyone else holds: purge_unused drops
\* a handle only when a second one can do no harm.
THEOREM WorldOneHandlePerChunk == WorldSpec => []OneHandlePerChunk
<1>1. WorldInv => OneHandlePerChunk
    <2> SUFFICES ASSUME WorldInv, NEW c \in Chunks, NEW h \in Handles, InUse(c, h) PROVE h = Home(c)
        BY DEF OneHandlePerChunk
    <2>1. HeldAtHome /\ Exclusive
        BY DEF WorldInv
    <2>2. h # None
        BY WorldAssumption
    <2> QED BY <2>1, <2>2 DEF HeldAtHome, Exclusive, InUse, HeldElsewhere, Home
<1> QED BY <1>1, WorldInvAlways, PTL

\* Unloading, saving, purging and loading again give back the blocks last set.
THEOREM WorldNoLostBlock == WorldSpec => []NoLostBlock
<1>1. WorldInv => NoLostBlock
    BY DEF WorldInv
<1> QED BY <1>1, WorldInvAlways, PTL
==============================================================================
