CONSTANTS
    Iterations <- SomeIterations
    Lengths <- SomeLengths
    OnWait = FALSE
    MayFail = TRUE
    MaxData = 2
SPECIFICATION SceneSpec
INVARIANTS  CanaryApart 
 
CHECK_DEADLOCK FALSE
