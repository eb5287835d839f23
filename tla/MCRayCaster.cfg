CONSTANTS
    Block = {"air", "log", "leaves", "dirt", "water", "grass"}
    Air = "air"
    MaxSteps = 60
    CoordBits = 6
    Rays <- NearRays
    Rom <- MCRom
    RomBase = "air"
SPECIFICATION Spec
INVARIANTS
    CastMatchesReference
    NoStaleVoxel
PROPERTIES
    KeepsPromise
    EveryRayAnswered
