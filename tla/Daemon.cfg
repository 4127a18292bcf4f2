\* Two crashes at any step, torn appends included, under every retention limit.
SPECIFICATION SceneSpec
CONSTANTS
    k1 = k1
    k2 = k2
    i1 = i1
    i2 = i2
    nil = nil
    Scenes = {"restore", "retention", "faults", "recovery"}
    Keys <- MCKeys
    IdemKeys <- MCIdemKeys
    Requests <- AllRequests
    Nil = nil
    MaxRecordSlots = 2
    MaxIdemSlots = 2
    MaxRecords = 0
    MaxCheckpoints = 1
    MaxRetained = 1
    RetainKinds <- Objects
    AgeLimited = TRUE
    CompactAbove = 3
    RestoreImage <- OneRecord
    Cuts <- AllCuts
    TornHeader = TRUE
    AuditSlots = 3
    MaxAuditEvents = 2
    RequestBound = 3
    CrashBound = 2
    FaultBound = 0
INVARIANTS OkReplyIsDurable AckedReplayable LimitsHold
PROPERTIES NumbersNotReused 
CHECK_DEADLOCK FALSE
