\* Appends torn at a line boundary by a crash.
SPECIFICATION SceneSpec
CONSTANTS
    k1 = k1
    k2 = k2
    i1 = i1
    i2 = i2
    nil = nil
    Scenes = {"restore"}
    Keys <- MCKeys
    IdemKeys <- MCIdemKeys
    Requests <- AllRequests
    Nil = nil
    MaxRecordSlots = 2
    MaxIdemSlots = 2
    MaxRecords = 0
    MaxCheckpoints = 0
    MaxRetained = 0
    RetainKinds = {}
    AgeLimited = FALSE
    CompactAbove = 3
    RestoreImage <- OneRecord
    Cuts = {"line"}
    TornHeader = FALSE
    AuditSlots = 3
    MaxAuditEvents = 0
    RequestBound = 3
    CrashBound = 2
    FaultBound = 0
INVARIANT TornTailRecovered
CHECK_DEADLOCK FALSE
