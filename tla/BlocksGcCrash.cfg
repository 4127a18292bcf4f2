SPECIFICATION BlocksSpec
CONSTANTS
    Scenes = {"gc"}
    NodeCount = 2
    Keys = {"hidden", "kv"}
    KvKeys = {"kv"}
    Bundles <- Apart
    UnitsOf <- Units
    MaxValue = 2
    Cna <- TwoCnas
    HomeVa <- TwoRegions
    PayloadOffset = 1
    RegionUnits = 6
    ArenaBase = 1
    MaxAddress = 40
    HasDevice = {0, 1}
    Republishes = TRUE
    MayFail = TRUE
    MaxCalls = 3
INVARIANT DurableHaveBlocks
CHECK_DEADLOCK FALSE
