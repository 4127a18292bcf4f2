CONSTANTS
    MaxRecords = 2
    MaxPublish = 2
    SeqModulus = 8
    FirstSeq = 6
    MinSeq = 0
    Modes = {"records", "summary", "find"}
    Coherent = TRUE
    MayTimeout = TRUE
    NodeCount = 2
    Script <- Uneven
    Kinds = 1
    QueueDepth = 2
    StashDepth = 2
    EpochMod = 8
    FirstEpoch = 6
    PubMod = 2
    DeadlinesPass = TRUE
    MayFail = TRUE
    N = 2
    Incarnations = 2
    Bumped = TRUE
    Faults = {"crash", "timeout"}
SPECIFICATION ClusterSpec
INVARIANTS  BarrierSeparates ObserveFresh StartMeansImported
PROPERTIES CallsComplete
CHECK_DEADLOCK FALSE
