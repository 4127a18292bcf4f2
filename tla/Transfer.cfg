CONSTANTS
    Calls <- ServedCalls
    Kind <- CallKinds
    MaxAttempts = 2
    RetryTimeouts = TRUE
    Impatient <- ImpatientCalls
    Stalling = {}
    PipeIgnored = TRUE
    MayFail = FALSE
    MaxStarts = 0
    MaxSignals = 0
SPECIFICATION SceneSpec
INVARIANTS StableExported ExecutedAsReported
PROPERTIES RestoredWholly TransfersSucceed
CHECK_DEADLOCK FALSE
