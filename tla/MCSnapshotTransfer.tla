------------------------- MODULE MCSnapshotTransfer -------------------------
(***************************************************************************)
(* The daemon and its clients, one part per scene; the scene is chosen in  *)
(* the initial state and never changes, and the part of the other scenes   *)
(* stands still.  Transfers:                                               *)
(*   export   one paged export, with late replies and retries, while other *)
(*            clients put objects and retention prunes                     *)
(*   restore  three restores in a row, with undelivered requests, late     *)
(*            replies, retries and a restart, under retention              *)
(*   pipe     odd files, against a daemon that a closed connection kills   *)
(*   migrate  two exporters, one of which restores what it exported, and   *)
(*            no faults                                                    *)
(* The serve loop, whose module this one extends:                          *)
(*   serve    clients that hang up, retry, scrape and send what is refused *)
(*   stop     a daemon that is started, stopped or killed by signals and   *)
(*            closed connections, and started again                        *)
(*   silent   a client that falls silent in the middle of its request      *)
(***************************************************************************)
EXTENDS ServeLoop, TLC

VARIABLES
    scene,
    live, stage, backlog, cl, disk, puts, restarts, stable

transferVars == <<live, stage, backlog, cl, disk, puts, restarts, stable>>
sceneVars == <<scene, transferVars, vars>>

-----------------------------------------------------------------------------
(* Transfers.                                                              *)

R(k, v) == [key |-> k, ver |-> v]
File(n, recs) == [count |-> n, recs |-> recs]
Export == [type |-> "export"]
Reload == [type |-> "reload"]
RestoreOf(file) == [type |-> "restore", file |-> file]

FirstRecords == <<R("a", 1), R("b", 2), R("c", 3)>>
FourKeys == {"a", "b", "c", "d"}

\* Three records; the same key twice; no header count; too many for the table;
\* more records than the header says.
FileA == File(3, <<R("a", 7), R("b", 8), R("c", 9)>>)
FileB == File(2, <<R("c", 7), R("d", 8)>>)
FileTwice == File(2, <<R("b", 7), R("b", 8)>>)
FileBare == File(-1, <<R("d", 5), R("b", 6)>>)
FileLarge == File(4, <<R("a", 4), R("b", 5), R("c", 6), R("d", 7)>>)
FileSmall == File(1, <<R("b", 9)>>)
FileShort == File(1, <<R("a", 4), R("d", 6)>>)

Exporting == INSTANCE SnapshotTransfer WITH
    Keys <- FourKeys, RestorePage <- 1, ExportPage <- 1, FullLimit <- 1, MaxRecords <- 4,
    MaxRetained <- 3, FirstTable <- FirstRecords, Commands <- [x |-> <<Export>>], MaxAttempts <- 2,
    RetryTimeouts <- TRUE, MayTimeout <- TRUE, PipeIgnored <- TRUE, PutBound <- 4, RestartBound <- 0

Restoring == INSTANCE SnapshotTransfer WITH
    Keys <- FourKeys, RestorePage <- 1, ExportPage <- 1, FullLimit <- 1, MaxRecords <- 3,
    MaxRetained <- 2, FirstTable <- FirstRecords,
    Commands <- [x |-> <<RestoreOf(FileA), RestoreOf(FileBare), RestoreOf(FileB)>>], MaxAttempts <- 2,
    RetryTimeouts <- TRUE, MayTimeout <- TRUE, PipeIgnored <- TRUE, PutBound <- 1, RestartBound <- 1

Piping == INSTANCE SnapshotTransfer WITH
    Keys <- FourKeys, RestorePage <- 1, ExportPage <- 1, FullLimit <- 1, MaxRecords <- 3,
    MaxRetained <- 0, FirstTable <- FirstRecords,
    Commands <- [x |-> <<RestoreOf(FileTwice), RestoreOf(FileLarge), RestoreOf(FileShort), RestoreOf(FileSmall)>>],
    MaxAttempts <- 2, RetryTimeouts <- TRUE, MayTimeout <- TRUE, PipeIgnored <- FALSE,
    PutBound <- 1, RestartBound <- 1

Migrating == INSTANCE SnapshotTransfer WITH
    Keys <- {"a", "b", "c"}, RestorePage <- 2, ExportPage <- 2, FullLimit <- 1, MaxRecords <- 4,
    MaxRetained <- 3, FirstTable <- FirstRecords, Commands <- [x |-> <<Export, Reload>>, y |-> <<Export>>],
    MaxAttempts <- 1, RetryTimeouts <- FALSE, MayTimeout <- FALSE, PipeIgnored <- TRUE,
    PutBound <- 2, RestartBound <- 0

ASSUME Exporting!TransferAssumption /\ Restoring!TransferAssumption
ASSUME Piping!TransferAssumption /\ Migrating!TransferAssumption

-----------------------------------------------------------------------------
(* The serve loop.                                                         *)

\* One name, one kind of call.
CallKinds == ("a" :> "op") @@ ("b" :> "op") @@ ("m" :> "scrape") @@ ("o" :> "over")
             @@ ("x" :> "alien") @@ ("s" :> "split")

\* serve: the constants of this module.
ServedCalls == {"a", "b", "m"}
ImpatientCalls == {"a"}

Signalled == INSTANCE ServeLoop WITH
    Calls <- {"a", "o"}, MaxAttempts <- 2, RetryTimeouts <- FALSE,
    Impatient <- {"a"}, Stalling <- {}, PipeIgnored <- FALSE, MayFail <- TRUE,
    MaxStarts <- 2, MaxSignals <- 2

Silent == INSTANCE ServeLoop WITH
    Calls <- {"a", "s", "x"}, MaxAttempts <- 2, RetryTimeouts <- TRUE,
    Impatient <- {"s", "x"}, Stalling <- {"a"}, PipeIgnored <- FALSE, MayFail <- FALSE,
    MaxStarts <- 0, MaxSignals <- 1

ASSUME Signalled!ServeAssumption /\ Silent!ServeAssumption

TransferStill ==
    /\ live = <<>> /\ stage = <<>> /\ backlog = <<>> /\ cl = <<>> /\ disk = <<>> /\ puts = 0
    /\ restarts = 0 /\ stable = {}

LoopStill ==
    /\ proc = Down /\ path = "none" /\ queues = <<>> /\ conn = <<>> /\ calls = <<>>
    /\ executed = {} /\ starts = 0 /\ signals = 0

-----------------------------------------------------------------------------
Transfers == {"export", "restore", "pipe", "migrate"}

SceneInit ==
    \/ /\ \/ scene = "export" /\ Exporting!Init
          \/ scene = "restore" /\ Restoring!Init
          \/ scene = "pipe" /\ Piping!Init
          \/ scene = "migrate" /\ Migrating!Init
       /\ LoopStill
    \/ /\ \/ scene = "serve" /\ Init
          \/ scene = "stop" /\ Signalled!Init
          \/ scene = "silent" /\ Silent!Init
       /\ TransferStill

SceneNext ==
    /\ \/ scene = "export" /\ Exporting!Next /\ UNCHANGED vars
       \/ scene = "restore" /\ Restoring!Next /\ UNCHANGED vars
       \/ scene = "pipe" /\ Piping!Next /\ UNCHANGED vars
       \/ scene = "migrate" /\ Migrating!Next /\ UNCHANGED vars
       \/ scene = "serve" /\ Next /\ UNCHANGED transferVars
       \/ scene = "stop" /\ Signalled!Next /\ UNCHANGED transferVars
       \/ scene = "silent" /\ Silent!Next /\ UNCHANGED transferVars
    /\ scene' = scene

\* A step of the daemon, and of a client, in the scenes with fairness.
DaemonStep ==
    /\ \/ scene = "migrate" /\ Migrating!Serve /\ UNCHANGED vars
       \/ scene = "serve" /\ Daemon /\ UNCHANGED transferVars
       \/ scene = "stop" /\ Signalled!Daemon /\ UNCHANGED transferVars
    /\ scene' = scene

ClientStep(c) ==
    /\ \/ scene = "migrate" /\ c \in {"x", "y"} /\ Migrating!Client(c) /\ UNCHANGED vars
       \/ scene = "serve" /\ c \in Calls /\ Client(c) /\ UNCHANGED transferVars
       \/ scene = "stop" /\ c \in {"a", "o"} /\ Signalled!Client(c) /\ UNCHANGED transferVars
    /\ scene' = scene

\* The fairness of SnapshotTransfer!FairSpec in the scene without faults, and
\* that of ServeLoop!FairSpec.
SceneSpec ==
    /\ SceneInit /\ [][SceneNext]_sceneVars
    /\ WF_sceneVars(DaemonStep)
    /\ \A c \in {"x", "y", "a", "b", "m", "o"} : WF_sceneVars(ClientStep(c))

\* A successful export has every record that stayed in the table all along (see
\* SnapshotTransfer!StableExported); no key is ever in two slots of a table
\* (see SnapshotTransfer!TypeOK); a process in its loop
\* is the one its socket path names (see ServeLoop!TypeOK).
StableExported ==
    /\ scene = "export" => Exporting!StableExported /\ Exporting!TypeOK
    /\ scene = "restore" => Restoring!TypeOK
    /\ scene = "migrate" => Migrating!StableExported
    /\ scene = "serve" => TypeOK
    /\ scene = "stop" => Signalled!TypeOK
    /\ scene = "silent" => Silent!TypeOK

\* An acknowledged restore is exactly its file, less what retention prunes (see
\* SnapshotTransfer!RestoresWholly).
RestoredWholly ==
    [][/\ scene = "restore" => Restoring!RestoresWholly
       /\ scene = "pipe" => Piping!RestoresWholly]_sceneVars

\* Without faults all commands succeed (see SnapshotTransfer!TransfersSucceed);
\* whatever other clients do, short of falling silent, a call is served; and a
\* daemon that is told to stop does (see ServeLoop!AllServed, StopIsHonoured).
TransfersSucceed ==
    /\ <>(scene = "migrate" => Migrating!Succeeded("x", 1))
    /\ <>(/\ scene = "migrate" => Migrating!Succeeded("x", 2) /\ Migrating!Succeeded("y", 1)
          /\ scene = "serve" => \A c \in {"b", "m"} : calls[c].pc = "ok")
    /\ (scene = "stop" /\ Signalled!Stopping) ~> Signalled!AtRest
=============================================================================
