----------------------------- MODULE MCCluster -----------------------------
(***************************************************************************)
(* The cluster of OBMM nodes, one part per scene; the scene is chosen in   *)
(* the initial state and never changes, and the parts of the other scenes  *)
(* stand still.                                                            *)
(*   ordered    a payload rewritten under a reader; stores seen in order   *)
(*   writeback  the same behind a write-back cache, the reader waits for   *)
(*              the summary                                                *)
(*   faulty     two nodes with uneven scripts, deadlines and lost          *)
(*              descriptors                                                *)
(*   rounds     three nodes in step, no deadline passes                    *)
(*   restarts   the bootstrap with crashes, restarts and timeouts          *)
(*   boot       the bootstrap of three nodes that do not fail              *)
(***************************************************************************)
EXTENDS ClusterPayload, ClusterRounds, ClusterBoot

VARIABLE scene

clusterVars == <<scene, vars, roundVars, bootVars>>

\* The scenes "ordered", "faulty" and "restarts" are ClusterPayload, ClusterRounds
\* and ClusterBoot themselves, their constants given by the cfg file.
WrittenBack == INSTANCE ClusterPayload WITH
    MaxRecords <- 1, MaxPublish <- 2, SeqModulus <- 8, FirstSeq <- 0, MinSeq <- 1,
    Modes <- {"summary"}, Coherent <- FALSE, MayTimeout <- FALSE

Uneven == [n \in 0 .. 1 |->
    IF n = 0 THEN <<"fetch", "observe", "object">> ELSE <<"observe", "object">>]
InStep == [n \in 0 .. 2 |-> <<"observe", "observe", "object">>]

Rounds == INSTANCE ClusterRounds WITH
    NodeCount <- 3, Script <- InStep, Kinds <- 2, QueueDepth <- 3, StashDepth <- 3,
    FirstEpoch <- 0, DeadlinesPass <- FALSE, MayFail <- FALSE

Boot == INSTANCE ClusterBoot WITH
    N <- 3, Incarnations <- 1, Bumped <- FALSE, Faults <- {}

ASSUME Rounds!RoundsAssumption /\ Boot!BootAssumption

\* What stands still is in one of its initial states.
ClusterInit ==
    /\ scene \in {"ordered", "writeback", "faulty", "rounds", "restarts", "boot"}
    /\ IF scene = "writeback" THEN WrittenBack!Init ELSE Init
    /\ IF scene = "rounds" THEN Rounds!RoundInit ELSE RoundInit
    /\ IF scene = "boot" THEN Boot!BootInit ELSE BootInit

PayloadNext == (scene = "ordered" /\ Next) \/ (scene = "writeback" /\ WrittenBack!Next)
RoundsNext == (scene = "faulty" /\ RoundNext) \/ (scene = "rounds" /\ Rounds!RoundNext)
BootsNext == (scene = "restarts" /\ BootNext) \/ (scene = "boot" /\ Boot!BootNext)

InPayload == UNCHANGED <<scene, roundVars, bootVars>>
InRounds == UNCHANGED <<scene, vars, bootVars>>
InBoot == UNCHANGED <<scene, vars, roundVars>>

ClusterNext == (PayloadNext /\ InPayload) \/ (RoundsNext /\ InRounds) \/ (BootsNext /\ InBoot)

\* A publication that has begun goes on, its lines do not stay in the cache for
\* ever, and a reader keeps trying; the loops of a node's round go on until
\* they succeed; every node of a bootstrap polls for as long as it waits.
WriterRuns == scene = "writeback" /\ WrittenBack!Writer
ReaderRuns == scene = "writeback" /\ WrittenBack!Reader
LineLeaves(l) == scene = "writeback" /\ WrittenBack!WriteBack(l)
RoundRuns(n) == scene = "rounds" /\ Rounds!RoundStep(n)
BootRuns(n) == scene = "boot" /\ Boot!BootStep(n)

ClusterSpec ==
    /\ ClusterInit /\ [][ClusterNext]_clusterVars
    /\ WF_vars(WriterRuns) /\ WF_vars(ReaderRuns)
    /\ \A l \in WrittenBack!Lines : WF_vars(LineLeaves(l))
    /\ \A n \in Rounds!Nodes : WF_roundVars(RoundRuns(n))
    /\ \A n \in Boot!BootNodes : WF_bootVars(BootRuns(n))

-----------------------------------------------------------------------------

\* What is typed stays typed, in the scenes with this module's constants.
SceneTypes ==
    /\ scene = "ordered" => TypeOK
    /\ scene = "faulty" => RoundTypes
    /\ scene = "restarts" => BootTypes

\* In step, when no deadline passes, every call of every node returns, whatever
\* descriptors of the next barrier arrive early; and nodes that do not fail all
\* get through the bootstrap and the start barrier.  A reader that waits for a
\* summary gets it (see ClusterPayload!ReadCompletes).  In step, an observe saw
\* exactly what its peers announced (see ClusterRounds!ObserveExact).
CallsComplete ==
    /\ [](SceneTypes /\ (scene = "rounds" => Rounds!ObserveExact))
    /\ scene = "writeback" => WrittenBack!ReadCompletes
    /\ <>[](scene = "rounds" => Rounds!AllReturned)
    /\ <>(scene = "boot" => Boot!AllStarted)
=============================================================================
