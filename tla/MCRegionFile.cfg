CONSTANTS
    Chunks = {c1, c2, c3}
    exact = exact
    large = large
    Data <- MCData
    TotalLen <- MCTotalLen
    SectorBytes = 8
    MaxSectors = 5
    Missing = Missing
    Broken = Broken
    Nothing = Nothing
SPECIFICATION FileSpec
INVARIANTS
    SectorsDisjoint
    AllocatorExact
PROPERTY
    IsRegionStore
SYMMETRY ChunkSymmetry
CHECK_DEADLOCK FALSE
