----------------------------- MODULE RegionStore -----------------------------
(***************************************************************************)
(* What a region file promises to the chunk worker, sectors left out: a    *)
(* map from chunks to the data they load as.  While a chunk is saved it    *)
(* may load as anything of its own that was saved before, or not at all;   *)
(* once the save has ended it loads as what was saved.  Every other chunk  *)
(* keeps loading as before, with three exceptions: a chunk whose own last  *)
(* save was cut short may break at any later save; saving data whose       *)
(* length is a multiple of a sector may break one other chunk; and all are *)
(* forgotten when the file cannot be opened and a save makes it anew.      *)
(* While there is a handle the last cannot happen.                         *)
(***************************************************************************)
CONSTANTS
    Chunks,     \* the chunks of one region
    Data,       \* what a chunk may hold
    Missing,    \* Error::ChunkNotExist
    Broken,     \* every other error of load_chunk
    Nothing,    \* no save is under way
    Exact(_)    \* does the data end at the end of a sector?

VARIABLES
    open,       \* does the worker have a handle?
    stored,     \* what each chunk loads as, through a handle
    job,        \* the save under way
    torn        \* the chunks whose last save was cut short

storevars == <<open, stored, job, torn>>

Init ==
    /\ open = FALSE
    /\ stored = [c \in Chunks |-> Missing]
    /\ job = Nothing
    /\ torn = {}

Open == ~open /\ open' = TRUE /\ UNCHANGED <<stored, job, torn>>

Close == open /\ job = Nothing /\ open' = FALSE /\ UNCHANGED <<stored, job, torn>>

\* The file is made anew, and forgets all chunks.
Anew ==
    /\ ~open /\ open' = TRUE
    /\ stored' = [c \in Chunks |-> Missing] /\ torn' = {}
    /\ UNCHANGED job

\* The process stops before the file has forgotten all of them.
AnewCut ==
    /\ ~open
    /\ \E lost \in SUBSET Chunks :
           /\ stored' = [c \in Chunks |-> IF c \in lost THEN Missing ELSE stored[c]]
           /\ torn' = torn \ lost
    /\ UNCHANGED <<open, job>>

Begin(c, d) ==
    /\ open /\ job = Nothing
    /\ job' = [chunk |-> c, data |-> d]
    /\ UNCHANGED <<open, stored, torn>>

\* The chunk being saved is half written: an error, or old data of its own.
Progress ==
    /\ job # Nothing
    /\ \E r \in Data \cup {Broken} : stored' = [stored EXCEPT ![job.chunk] = r]
    /\ UNCHANGED <<open, job, torn>>

\* A write lands on bytes that another chunk counted on.
Break(c) ==
    /\ job # Nothing
    /\ c # job.chunk
    /\ c \in torn \/ Exact(job.data)
    /\ stored' = [stored EXCEPT ![c] = Broken]
    /\ UNCHANGED <<open, job, torn>>

End ==
    /\ job # Nothing
    /\ stored' = [stored EXCEPT ![job.chunk] = job.data]
    /\ job' = Nothing
    /\ torn' = torn \ {job.chunk}
    /\ UNCHANGED open

\* The process stops: whatever was half written stays so.
Crash ==
    /\ job # Nothing
    /\ job' = Nothing /\ open' = FALSE
    /\ torn' = torn \cup {job.chunk}
    /\ UNCHANGED stored

Next ==
    \/ Open \/ Close
    \/ Anew \/ AnewCut
    \/ \E c \in Chunks, d \in Data : Begin(c, d)
    \/ Progress
    \/ \E c \in Chunks : Break(c)
    \/ End
    \/ Crash

StoreSpec == Init /\ [][Next]_storevars
==============================================================================
