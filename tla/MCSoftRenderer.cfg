CONSTANTS
    NumVTU = 1
    CacheSize = 2
    Addr = {0, 1, 2, 3, 4, 5, 6, 7}
    Block = {"air", "grass", "water"}
    Air = "air"
    Origin = 0
    Query <- MCQuery
    NumPixels = 3
    MaxSteps = 3
    Camera = {"open", "low", "inside"}
    Home = "open"
    Voxel <- MCVoxel
    Axis <- MCAxis
    Sign <- MCSign
SPECIFICATION Spec
INVARIANTS
    NoDuplicateFill
    SeesItsVoxel
    AnswerMatchesMock
    FrameComplete
PROPERTIES
    FramesFollow
