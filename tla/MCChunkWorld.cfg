CONSTANTS
    Chunks = {c1, c2}
    Blocks = {stone, dug}
    Generated = stone
    Missing = Missing
    Broken = Broken
    Handles = {h1, h2}
    None = None
    ResultsBound = 1
    MaxQueue = 2
    MaxRequests = 2
SPECIFICATION FairWorld
INVARIANTS
    Exclusive
    OneJobPerLoad
    WritableIffLoaded
    OneHandlePerChunk
    NoLostBlock
PROPERTIES
    LoadsFinish
    UnusedChunksGo
CHECK_DEADLOCK FALSE
