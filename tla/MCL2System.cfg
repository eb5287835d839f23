CONSTANTS
    NumPorts = 2
    CacheSize = 2
    Addr = {0, 1, 2}
    Block = {0, 1, 2, 3}
    ZeroPos = 0
    Air = 0
    Rom <- MCRom
    MaxResets = 1
SPECIFICATION SystemSpec
INVARIANTS
    NoDuplicates
    ReadsCorrect
    CacheMatchesMemory
PROPERTIES
    OnlyOldestEvicted
    PreferredPortServed
