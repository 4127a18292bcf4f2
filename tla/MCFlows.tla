------------------------------ MODULE MCFlows ------------------------------
(***************************************************************************)
(* The flows of a model that is spread over nodes, one per scene; the      *)
(* scene is chosen in the initial state and never changes, and the flows   *)
(* of the other scenes stand still.                                        *)
(*   faulty    the range pipeline on three nodes with small rings, stashes *)
(*             and tables, and failures anywhere                           *)
(*   full      the same on two nodes with the short path, for as many      *)
(*             steps as it takes to fill stashes, tables and arenas        *)
(*   short     its short path on two nodes, with the round barrier         *)
(*   free      the same without a barrier: a node may run ahead            *)
(*   wrap      three nodes for more steps than there are epochs, with      *)
(*             tables that recycle a record before its epoch comes again   *)
(*   middle    the short path on three nodes, for as many steps as a node  *)
(*             has room for notices to itself                              *)
(*   chain     three nodes without the short path and without a barrier    *)
(*   late      decode rounds of two requests, flushes fail, deadlines pass *)
(*             (DecodeRounds itself, its constants given by the cfg file)  *)
(*   decode    the same without failures                                   *)
(*   engram    the Engram exchange without a barrier, with failures and    *)
(*             repeated publications                                       *)
(*   lockstep  the same with a barrier and without failures                *)
(***************************************************************************)
EXTENDS DecodeRounds

VARIABLES
    scene,
    st, step, queue, stash, table, arena, round, input, forwarded,
    estate, estep, equeue, estash, etable, epoch, got, offered, decided

pipelineVars == <<st, step, queue, stash, table, arena, round, input, forwarded>>
decodeVars == <<at, pc, marker, ready>>
engramVars == <<estate, estep, equeue, estash, etable, epoch, got, offered, decided>>
flowsVars == <<scene, pipelineVars, decodeVars, engramVars>>

Faulty == INSTANCE RangePipeline WITH
    NodeCount <- 3, Steps <- 2, EpochMod <- 8, QueueDepth <- 1, StashDepth <- 1, RecordMax <- 4,
    RetainSteps <- 0, ArenaUnits <- 9, Shortpath <- FALSE, RoundBarrier <- FALSE, MayFail <- TRUE

Full == INSTANCE RangePipeline WITH
    NodeCount <- 2, Steps <- 3, EpochMod <- 8, QueueDepth <- 1, StashDepth <- 1, RecordMax <- 4,
    RetainSteps <- 0, ArenaUnits <- 9, Shortpath <- TRUE, RoundBarrier <- FALSE, MayFail <- TRUE

Short == INSTANCE RangePipeline WITH
    NodeCount <- 2, Steps <- 3, EpochMod <- 8, QueueDepth <- 1, StashDepth <- 2, RecordMax <- 20,
    RetainSteps <- 1, ArenaUnits <- 20, Shortpath <- TRUE, RoundBarrier <- TRUE, MayFail <- FALSE

Free == INSTANCE RangePipeline WITH
    NodeCount <- 2, Steps <- 3, EpochMod <- 8, QueueDepth <- 1, StashDepth <- 2, RecordMax <- 20,
    RetainSteps <- 1, ArenaUnits <- 20, Shortpath <- TRUE, RoundBarrier <- FALSE, MayFail <- FALSE

Wrap == INSTANCE RangePipeline WITH
    NodeCount <- 3, Steps <- 4, EpochMod <- 4, QueueDepth <- 1, StashDepth <- 1, RecordMax <- 4,
    RetainSteps <- 0, ArenaUnits <- 15, Shortpath <- FALSE, RoundBarrier <- TRUE, MayFail <- FALSE

Middle == INSTANCE RangePipeline WITH
    NodeCount <- 3, Steps <- 2, EpochMod <- 8, QueueDepth <- 1, StashDepth <- 2, RecordMax <- 20,
    RetainSteps <- 1, ArenaUnits <- 20, Shortpath <- TRUE, RoundBarrier <- TRUE, MayFail <- FALSE

Chain == INSTANCE RangePipeline WITH
    NodeCount <- 3, Steps <- 2, EpochMod <- 8, QueueDepth <- 1, StashDepth <- 2, RecordMax <- 20,
    RetainSteps <- 1, ArenaUnits <- 20, Shortpath <- FALSE, RoundBarrier <- FALSE, MayFail <- FALSE

\* Two requests: four steps of one, then two of another.  The slots wrap in
\* the first, and the first round of the second follows in another slot.
TwoRequests == << <<5, 0>>, <<5, 1>>, <<5, 2>>, <<5, 3>>, <<9, 0>>, <<9, 1>> >>

Decode == INSTANCE DecodeRounds WITH
    DecodeNodeCount <- 3, Slots <- 2, Rounds <- TwoRequests, MayGiveUp <- FALSE

\* Two tokens, in either order of preference.
TwoOffers == {<<0, 1>>, <<1, 0>>}

Engram == INSTANCE EngramFlow WITH
    NodeCount <- 3, Owner <- 2, Terminal <- 1, Watchers <- {2}, Steps <- 2, Offers <- {<<0, 1>>},
    PackMax <- 2, HistoryMax <- 2, ArenaUnits <- 9, QueueDepth <- 1, StashDepth <- 2, Observed <- 0,
    Barrier <- FALSE, MayFail <- TRUE, MayRetry <- TRUE,
    st <- estate, step <- estep, queue <- equeue, stash <- estash, table <- etable

Lockstep == INSTANCE EngramFlow WITH
    NodeCount <- 3, Owner <- 2, Terminal <- 1, Watchers <- {0, 2}, Steps <- 3, Offers <- TwoOffers,
    PackMax <- 1, HistoryMax <- 4, ArenaUnits <- 9, QueueDepth <- 3, StashDepth <- 4, Observed <- 0,
    Barrier <- TRUE, MayFail <- FALSE, MayRetry <- FALSE,
    st <- estate, step <- estep, queue <- equeue, stash <- estash, table <- etable

ASSUME /\ Faulty!PipelineAssumption /\ Full!PipelineAssumption /\ Short!PipelineAssumption /\ Wrap!PipelineAssumption
       /\ Middle!PipelineAssumption /\ Free!PipelineAssumption
       /\ Chain!PipelineAssumption
       /\ Engram!EngramAssumption /\ Lockstep!EngramAssumption

-----------------------------------------------------------------------------

FlowsInit ==
    \/ scene = "faulty" /\ Faulty!Init /\ Decode!Init /\ Engram!Init
    \/ scene = "full" /\ Full!Init /\ Decode!Init /\ Engram!Init
    \/ scene = "short" /\ Short!Init /\ Decode!Init /\ Engram!Init
    \/ scene = "free" /\ Free!Init /\ Decode!Init /\ Engram!Init
    \/ scene = "wrap" /\ Wrap!Init /\ Decode!Init /\ Engram!Init
    \/ scene = "middle" /\ Middle!Init /\ Decode!Init /\ Engram!Init
    \/ scene = "chain" /\ Chain!Init /\ Decode!Init /\ Engram!Init
    \/ scene = "late" /\ Short!Init /\ Init /\ Engram!Init
    \/ scene = "decode" /\ Short!Init /\ Decode!Init /\ Engram!Init
    \/ scene = "engram" /\ Short!Init /\ Decode!Init /\ Engram!Init
    \/ scene = "lockstep" /\ Short!Init /\ Decode!Init /\ Lockstep!Init

PipelineNext ==
    \/ scene = "faulty" /\ Faulty!Next
    \/ scene = "full" /\ Full!Next
    \/ scene = "short" /\ Short!Next
    \/ scene = "free" /\ Free!Next
    \/ scene = "wrap" /\ Wrap!Next
    \/ scene = "middle" /\ Middle!Next
    \/ scene = "chain" /\ Chain!Next
DecodeNext ==
    \/ scene = "late" /\ Next
    \/ scene = "decode" /\ Decode!Next
EngramNext ==
    \/ scene = "engram" /\ Engram!Next
    \/ scene = "lockstep" /\ Lockstep!Next

FlowsNext ==
    /\ \/ PipelineNext /\ UNCHANGED <<decodeVars, engramVars>>
       \/ DecodeNext /\ UNCHANGED <<pipelineVars, engramVars>>
       \/ EngramNext /\ UNCHANGED <<pipelineVars, decodeVars>>
    /\ scene' = scene

\* Every node keeps running: it computes its step, and a waiter's loop does not
\* end before its deadline.
Fair ==
    /\ \A n \in 0 .. 1 : /\ WF_pipelineVars(scene = "short" /\ Short!NodeStep(n))
                         /\ WF_pipelineVars(scene = "free" /\ Free!NodeStep(n))
    /\ \A n \in 0 .. 2 : /\ WF_pipelineVars(scene = "chain" /\ Chain!NodeStep(n))
                         /\ WF_pipelineVars(scene = "middle" /\ Middle!NodeStep(n))
                         /\ WF_decodeVars(scene = "decode" /\ Decode!NodeStep(n))
                         /\ WF_engramVars(scene = "lockstep" /\ Lockstep!NodeStep(n))

FlowsSpec == FlowsInit /\ [][FlowsNext]_flowsVars /\ Fair

-----------------------------------------------------------------------------

\* No node takes the input of another step, whatever notices are late, lost or
\* left over (see RangePipeline!InputOfStep), and when an epoch comes again, and
\* its KV state of the step before is there (see RangePipeline!PreviousKvKept).  In
\* the Engram exchange what a wait returns was published for its step; in
\* lockstep the version of the history is its step, and the history only grows
\* (see EngramFlow!ResultOfStep, HistoryVersionIsStep, HistoryExtends).  With the
\* types (rings, stashes and tables keep to their bounds).
InputOfStep ==
    /\ TypeOK
    /\ scene = "faulty" => Faulty!TypeOK /\ Faulty!InputOfStep /\ Faulty!PreviousKvKept
    /\ scene = "full" => Full!TypeOK /\ Full!InputOfStep /\ Full!PreviousKvKept
    /\ scene = "free" => Free!InputOfStep
    /\ scene = "wrap" => Wrap!InputOfStep
    /\ scene = "chain" => Chain!InputOfStep
    /\ scene = "engram" => Engram!TypeOK /\ Engram!ResultOfStep
    /\ scene = "lockstep" => Lockstep!HistoryVersionIsStep /\ Lockstep!HistoryExtends

\* A publication that succeeded was taken (see
\* RangePipeline!ForwardedIsTaken).
ForwardedIsTaken ==
    (scene = "faulty" => Faulty!ForwardedIsTaken) /\ (scene = "full" => Full!ForwardedIsTaken)

\* When nothing fails, all flows complete on all nodes: the pipeline in step or
\* running ahead, with and without the short path, although notices are lost;
\* the decode rounds, although a node may overwrite its marker of a round that
\* a slower node has yet to look at; the Engram exchange in lockstep.  On the
\* short path a lost notice is no error on the way, and a node in the middle has
\* room for its notices to itself (see RangePipeline!LostNoticeIsNoError).
FlowsComplete ==
    /\ <>(/\ scene = "short" => Short!AllDone
          /\ scene = "free" => Free!AllDone
          /\ scene = "middle" => Middle!AllDone
          /\ scene = "chain" => Chain!AllDone
          /\ scene = "decode" => Decode!AllDone
          /\ scene = "lockstep" => Lockstep!AllDone)
    /\ [](/\ scene = "short" => Short!LostNoticeIsNoError
          /\ scene = "middle" => Middle!LostNoticeIsNoError)
=============================================================================
