CONSTANTS
    ACTIVE_H_PIXELS = 12
    H_FRONT_PORCH = 1
    H_SYNC_WIDTH = 2
    H_BACK_PORCH = 3
    ACTIVE_LINES = 5
    V_FRONT_PORCH = 2
    V_SYNC_WIDTH = 3
    V_BACK_PORCH = 1
    FRAME_WIDTH = 2
    FRAME_AREA = 4
    Picture <- MCPicture
    Data <- MCData
SPECIFICATION DisplaySpec
INVARIANTS
    SignalsMatchCounters
PROPERTIES
    BeamScans
    PictureOnScreen
