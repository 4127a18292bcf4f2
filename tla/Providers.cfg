CONSTANTS
    a = a
    b = b
    Providers <- Several
    Name <- NameOf
    Caps <- CapsOf
    Ops <- OpsOf
    MaxProviders = 2
    W = 8
    RegionLen = 4
    Ranges <- SomeRanges
    Sums = {1}
    Handles = {1, 2}
    MaxId = 0
    Frames <- SomeFrames
SPECIFICATION ProvidersSpec
SYMMETRY NodesSym
INVARIANTS  TransferIsExact  PublishedIsInMemory
CHECK_DEADLOCK FALSE
