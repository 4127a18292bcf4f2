CONSTANTS
    Values = {d1, d2}
    Size = 4
    Rounds = 2
    Consumers = {0, 1}
    Depth = 2
    MaxPublish = 3
    MaxReset = 1
    MayPause = TRUE
SPECIFICATION QueuesSpec
INVARIANTS  BoundedBypass
PROPERTIES IsFifo AllDelivered
