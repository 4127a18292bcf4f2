CONSTANTS
    DecodeNodeCount = 3
    Slots = 2
    Rounds <- TwoRequests
    MayGiveUp = TRUE
SPECIFICATION FlowsSpec
INVARIANTS InputOfStep ForwardedIsTaken NobodyBehind
 
CHECK_DEADLOCK FALSE
