------------------------------ MODULE MCQueues ------------------------------
(***************************************************************************)
(* The queues of libs/obmm_queue, one per scene; the scene is chosen in    *)
(* the initial state and never changes, and the queues of the other scenes *)
(* stand still.                                                            *)
(*   ring    the descriptor ring (SpscQueue), with this module's constants *)
(*   reset   the broadcast stream (SpmcStream), with this module's         *)
(*           constants: a consumer may be paused, and the stream is reset  *)
(*           between calls                                                 *)
(*   stream  the broadcast stream without a reset                          *)
(*   lanes   three publishers polled by one consumer                       *)
(***************************************************************************)
EXTENDS SpscQueue, SpmcStream

VARIABLES
    scene,
    dir, rx, tx, queue, sent, poll, received, passed

ringVars == vars
laneVars == <<dir, rx, tx, queue, sent, poll, received, passed>>
queueVars == <<scene, ringVars, streamVars, laneVars>>

Stream == INSTANCE SpmcStream WITH MaxReset <- 0

Q(p) == [kind |-> "queue", peer |-> p]
A(p) == [kind |-> "arena", peer |-> p]

\* Directories whose lanes are all among the first MaxLanes (3) entries, and two
\* that both sides refuse.
Directories == {<<Q(3), Q(1), Q(2)>>, <<A(1), Q(2), Q(1)>>, <<Q(2), Q(2)>>, <<A(2)>>}

Lanes == INSTANCE LaneBus WITH
    Publishers <- {1, 2, 3}, MaxLanes <- 3, Capacity <- 2, MaxSend <- 2, got <- received

ASSUME Lanes!LaneAssumption

\* What stands still is in one of its initial states.
QueuesInit ==
    /\ Init
    /\ StreamInit
    /\ Lanes!Init
    /\ \/ scene \in {"ring", "reset", "stream"} /\ dir = <<A(2)>>
       \/ scene = "lanes"

SomeStreamNext ==
    \/ scene = "stream" /\ Stream!StreamNext
    \/ scene = "reset" /\ StreamNext

QueuesNext ==
    /\ \/ scene = "ring" /\ Next /\ UNCHANGED <<streamVars, laneVars>>
       \/ SomeStreamNext /\ UNCHANGED <<ringVars, laneVars>>
       \/ scene = "lanes" /\ Lanes!Next /\ UNCHANGED <<ringVars, streamVars>>
    /\ scene' = scene

\* Every consumer of the stream keeps polling, and its calls complete; the
\* consumer of the lanes keeps polling.
ConsumerRuns(c) ==
    scene = "stream" /\ Stream!Consume(c) /\ UNCHANGED <<scene, ringVars, laneVars>>
PollRuns == scene = "lanes" /\ Lanes!Poll /\ UNCHANGED <<scene, ringVars, streamVars>>

QueuesSpec ==
    /\ QueuesInit /\ [][QueuesNext]_queueVars
    /\ \A c \in {0, 1} : WF_queueVars(ConsumerRuns(c))
    /\ WF_queueVars(PollRuns)

-----------------------------------------------------------------------------

\* No lane is passed over more often than there are other lanes (see
\* LaneBus!BoundedBypass).
BoundedBypass ==
    /\ scene = "lanes" => Lanes!BoundedBypass /\ Lanes!TypeOK
    /\ scene \in {"reset", "stream"} => StreamTypes

\* Everything published reaches every consumer of the stream that stays active,
\* and whatever is sent on a lane is received (see SpmcStream!AllRead,
\* LaneBus!DrainsAllLanes).
AllDelivered ==
    (scene = "stream" => AllRead) /\ (scene = "lanes" => Lanes!DrainsAllLanes)
=============================================================================
