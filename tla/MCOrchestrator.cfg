CONSTANTS
    NumVTU = 1
    FrameArea = 4
    Camera = {c1, c2}
    Earliest = 14
    Latest = 20
    MaxResets = 4
SPECIFICATION Spec
INVARIANTS
    FrameHasOneCamera
    WritesInOrder
    DoneButLast
PROPERTIES
    FrameFinishes
