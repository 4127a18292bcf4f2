--------------------------- MODULE MCPayloadBlocks ---------------------------
(***************************************************************************)
(* Scenes for PayloadBlocks and SsdBacking, of which a run checks one or   *)
(* several.  The scene is chosen in the initial state and never changes.   *)
(*   retain   three records share two chunked contents under a retention   *)
(*            of two, puts may only name a block, one file rots            *)
(*   deliver  materialization, with crashes and failing file operations    *)
(*   crash    crashes and failing file operations between any two files of *)
(*            a put, without retention                                     *)
(*   gc       crashes under retention                                      *)
(*   ssd      objects of two nodes on their SSDs, which may fail, be late  *)
(*            or be gone; keys are published again and arenas fill up      *)
(*            (SsdBacking itself, its constants given by the cfg file)     *)
(*   partial  a node without a device, one whose region has no address     *)
(*   backed   two objects to a call, devices everywhere, no failures       *)
(***************************************************************************)
EXTENDS SsdBacking, TLC

CONSTANT Scenes

VARIABLES scene, recs, saved, blocks, badNames, dests, pc, job, reply, puts, rots, damaged

blockVars == <<recs, saved, blocks, badNames, dests, pc, job, reply, puts, rots, damaged>>
ssdVars == vars

Retaining == INSTANCE PayloadBlocks WITH
    Keys <- 1 .. 3, Sums <- 1 .. 2, Backends <- {"chunked"}, Chunks <- 1, MaxRecords <- 3,
    MaxRetained <- 2, Destinations <- {}, RemoteDir <- TRUE, MetaPuts <- TRUE,
    MayCrash <- FALSE, MayFail <- FALSE, MaxRot <- 1, MaxPuts <- 4

Delivering == INSTANCE PayloadBlocks WITH
    Keys <- 1 .. 2, Sums <- 1 .. 2, Backends <- {"chunked", "transport", "tcp"}, Chunks <- 1,
    MaxRecords <- 2, MaxRetained <- 1, Destinations <- 1 .. 2, RemoteDir <- TRUE, MetaPuts <- FALSE,
    MayCrash <- TRUE, MayFail <- TRUE, MaxRot <- 1, MaxPuts <- 2

Crashing == INSTANCE PayloadBlocks WITH
    Keys <- 1 .. 2, Sums <- 1 .. 2, Backends <- {"local", "chunked"}, Chunks <- 2, MaxRecords <- 1,
    MaxRetained <- 0, Destinations <- {}, RemoteDir <- TRUE, MetaPuts <- FALSE,
    MayCrash <- TRUE, MayFail <- TRUE, MaxRot <- 1, MaxPuts <- 3

Collecting == INSTANCE PayloadBlocks WITH
    Keys <- 1 .. 2, Sums <- 1 .. 2, Backends <- {"local"}, Chunks <- 1, MaxRecords <- 2,
    MaxRetained <- 1, Destinations <- {1}, RemoteDir <- TRUE, MetaPuts <- FALSE,
    MayCrash <- TRUE, MayFail <- FALSE, MaxRot <- 0, MaxPuts <- 2

\* The hidden state and the KV state of a step, published in one call or apart.
Units == [hidden |-> 1, kv |-> 2]
Apart == {<<"hidden">>, <<"kv">>}
Together == {<<"hidden", "kv">>, <<"kv">>}
TwoCnas == (0 :> 17) @@ (1 :> 33)
SameDevice == (0 :> 17) @@ (1 :> 18)
TwoRegions == (0 :> 4) @@ (1 :> 35)  \* up to the last address

Partial == INSTANCE SsdBacking WITH
    Bundles <- Together, HomeVa <- (0 :> 4) @@ (1 :> 0) @@ (2 :> 12), NodeCount <- 3,
    Cna <- (0 :> 17) @@ (1 :> 18) @@ (2 :> 33), HasDevice <- {0, 1}, MayFail <- FALSE, MaxCalls <- 3

Backed == INSTANCE SsdBacking WITH
    Bundles <- Together, Cna <- SameDevice, HomeVa <- (0 :> 4) @@ (1 :> 27), RegionUnits <- 14,
    Republishes <- FALSE, MayFail <- FALSE, MaxCalls <- 4

ASSUME Retaining!BlocksAssumption /\ Delivering!BlocksAssumption
ASSUME Crashing!BlocksAssumption /\ Collecting!BlocksAssumption
ASSUME Partial!SsdConstants /\ Backed!SsdConstants

BlocksInit ==
    /\ scene \in Scenes
    /\ \/ scene = "retain" /\ Retaining!Init /\ Init
       \/ scene = "deliver" /\ Delivering!Init /\ Init
       \/ scene = "crash" /\ Crashing!Init /\ Init
       \/ scene = "gc" /\ Collecting!Init /\ Init
       \/ scene = "ssd" /\ Retaining!Init /\ Init
       \/ scene = "partial" /\ Retaining!Init /\ Partial!Init
       \/ scene = "backed" /\ Retaining!Init /\ Backed!Init

FilesNext ==
    \/ scene = "retain" /\ Retaining!Next
    \/ scene = "deliver" /\ Delivering!Next
    \/ scene = "crash" /\ Crashing!Next
    \/ scene = "gc" /\ Collecting!Next
SsdNext ==
    \/ scene = "ssd" /\ Next
    \/ scene = "partial" /\ Partial!Next
    \/ scene = "backed" /\ Backed!Next

BlocksNext ==
    /\ \/ FilesNext /\ UNCHANGED ssdVars
       \/ SsdNext /\ UNCHANGED blockVars
    /\ scene' = scene

BlocksSpec == BlocksInit /\ [][BlocksNext]_<<scene, blockVars, ssdVars>>

\* Neither retention nor quarantine takes the block of a record that remains,
\* in a process that does not crash (see PayloadBlocks!RetainedHaveBlocks).
RetainedHaveBlocks == scene = "retain" => Retaining!RetainedHaveBlocks

\* The documented rule that only blocks no retained record names are reclaimed:
\* the same under crashes.
DurableHaveBlocks == scene = "gc" => Collecting!RetainedHaveBlocks

\* Damage does not reach a client.  A materialized file holds the whole payload
\* of its record, whatever rots, fails or crashes in between (see
\* PayloadBlocks!DeliveredIntact); the first read in the life of a process that
\* finds a block damaged leaves nothing of it (see
\* PayloadBlocks!MismatchQuarantines).
DeliveredIntact ==
    /\ scene = "deliver" => Delivering!DeliveredIntact
    /\ scene = "retain" => Retaining!MismatchQuarantines

\* No record reaches the snapshot before all files of its block are in place
\* (see PayloadBlocks!SavedHaveBlocks).  With the types of
\* PayloadBlocks!TypeOK and SsdBacking!TypeOK.
SavedHaveBlocks ==
    /\ scene = "crash" => Crashing!SavedHaveBlocks /\ Crashing!TypeOK
    /\ scene = "ssd" => TypeOK
    /\ scene = "partial" => Partial!TypeOK

\* A put answers "internal" only when a file operation failed, whatever earlier
\* requests and crashes left on the disk (see PayloadBlocks!PutSucceeds).  Where
\* every node has an SSD that works, no publication and no resolution of an
\* object fails (see SsdBacking!NoCallFails).
PutSucceeds ==
    /\ scene \in {"retain", "crash"} => Retaining!PutSucceeds
    /\ scene = "backed" => Backed!NoCallFails
=============================================================================
