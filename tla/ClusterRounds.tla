---------------------------- MODULE ClusterRounds ----------------------------
(***************************************************************************)
(* The rounds the nodes of a cluster go through together: each publishes   *)
(* its metadata, meets the others in a queue barrier, reads what they      *)
(* published or exchanges object descriptors with them                     *)
(* (mem_service_cluster_queue.c, mem_service_cluster_observe.c,            *)
(* mem_service_obmm_object_flow.c).                                        *)
(*                                                                         *)
(* Every ordered pair of nodes has a descriptor ring (a bounded FIFO, see  *)
(* SpscQueue) and every node keeps, per peer, a small stash of descriptors *)
(* it has popped while waiting for another one.  A published payload is    *)
(* read as a whole (see ClusterPayload).  A node executes one call at a    *)
(* time, in the order Script gives; a deadline is a step that may happen   *)
(* at any moment of a wait.                                                *)
(***************************************************************************)
EXTENDS Integers, Sequences, FiniteSets

CONSTANTS
    NodeCount,     \* rt->node_count
    Script,        \* node -> the calls it makes, in order
    Kinds,         \* objects put per object round, 4 in the code
    QueueDepth,    \* MEM_SERVICE_CLUSTER_QUEUE_DEPTH
    StashDepth,    \* MEM_SERVICE_CLUSTER_PENDING_DESC_DEPTH
    EpochMod,      \* observe_epoch counts modulo this, 2^16 in the code
    FirstEpoch,    \* observe_epoch before the first call
    DeadlinesPass, \* whether deadlines may pass
    PubMod,        \* publish_seq is truncated modulo this when compared, 2^16 in the code
    MayFail        \* whether cache maintenance may fail: a publication, or a pop

Nodes == 0 .. NodeCount - 1
Peers(n) == Nodes \ {n}
Next1(n) == (n + 1) % NodeCount      \* local_placement.next_owner_node

\* What the constants must satisfy.
ASSUME RoundsAssumption ==
    /\ NodeCount \in Nat \ {0} /\ Kinds \in Nat \ {0}
    /\ QueueDepth \in Nat \ {0} /\ StashDepth \in Nat
    /\ EpochMod \in Nat \ {0, 1} /\ FirstEpoch \in 0 .. EpochMod - 1
    /\ \A n \in Nodes : \A i \in 1 .. Len(Script[n]) :
          Script[n][i] \in {"observe", "object", "fetch"}
    /\ PubMod \in Nat \ {0} /\ DeadlinesPass \in BOOLEAN /\ MayFail \in BOOLEAN

VARIABLES
    queue,      \* from -> to -> the descriptors in the ring
    stash,      \* node -> peer -> pending_descs
    pub,        \* node -> rt->publish_seq and the generation of its object records
    payload,    \* node -> what its peers can read of it: the same, when last published
    epoch,      \* node -> rt->observe_epoch
    calls,      \* node -> number of calls begun
    st,         \* node -> the call in progress
    entered,    \* history: node -> the barriers it has announced, with its publish_seq
    passed,     \* history: node -> the barriers that returned 0
    seen        \* history: node -> what its last successful observe saw

roundVars == <<queue, stash, pub, payload, epoch, calls, st, entered, passed, seen>>

NoNode == -1
NoBarrier == [type |-> "NONE", epoch |-> 0]
Idle == [pc |-> "idle", barrier |-> NoBarrier, todo |-> {}, got |-> {}, kind |-> 1,
         found |-> [k \in 1 .. Kinds |-> 0], saw |-> {}, obs |-> [n \in Nodes |-> 0], rc |-> 0,
         drain |-> NoNode]
NothingSeen == [epoch |-> 0, obs |-> [n \in Nodes |-> 0]]

RoundInit ==
    /\ queue = [n \in Nodes |-> [m \in Nodes |-> <<>>]]
    /\ stash = [n \in Nodes |-> [m \in Nodes |-> <<>>]]
    /\ pub = [n \in Nodes |-> [seq |-> 0, gen |-> 0]] /\ payload = pub
    /\ epoch = [n \in Nodes |-> FirstEpoch]
    /\ calls = [n \in Nodes |-> 0]
    /\ st = [n \in Nodes |-> Idle]
    /\ entered = [n \in Nodes |-> {}] /\ passed = [n \in Nodes |-> {}]
    /\ seen = [n \in Nodes |-> NothingSeen]

Flow(n) == Script[n][calls[n]]

-----------------------------------------------------------------------------
(* Descriptors.                                                            *)

Desc(type, e, kind, gen) == [type |-> type, epoch |-> e, kind |-> kind, gen |-> gen]

\* Mutant: any barrier descriptor of the type will do.
MatchesBarrierAnyEpoch(d, b) == d.type = b.type

MatchesBarrier(d, b) == d.type = b.type /\ d.epoch = b.epoch

MatchesObject(d, e, k, gen) ==
    d.type = "PUT" /\ d.epoch = e /\ d.kind = k /\ d.gen = gen

\* Mutant: the stash keeps nothing.
StashedNever(s, d) == s

\* A descriptor that finds the stash full is dropped.
Stashed(s, d) == IF Len(s) < StashDepth THEN Append(s, d) ELSE s

\* The i-th descriptor leaves the stash, the others keep their order.
Unstash(s, i) == SubSeq(s, 1, i - 1) \o SubSeq(s, i + 1, Len(s))

\* The lowest node of a set, in whose order the loops over the peers go.
IsFirst(p, S) == \A q \in S : p <= q

PushTo(n, p, d) == queue' = [queue EXCEPT ![n][p] = Append(@, d)]
HasRoom(n, p) == Len(queue[n][p]) < QueueDepth

-----------------------------------------------------------------------------
(* The calls.                                                              *)

NextEpoch(e) == IF e + 1 = EpochMod THEN 1 ELSE e + 1

Finish(n, rc) == st' = [st EXCEPT ![n] = [Idle EXCEPT !.rc = rc]]

\* Enter mem_service_queue_barrier.
Announce(n, type, seq) ==
    LET e == NextEpoch(epoch[n])
    IN  /\ epoch' = [epoch EXCEPT ![n] = e]
        /\ entered' = [entered EXCEPT ![n] = @ \cup {<<type, e, seq>>}]
        /\ st' = [st EXCEPT ![n] = [@ EXCEPT !.pc = "push", !.todo = Peers(n), !.got = {},
                                             !.barrier = [type |-> type, epoch |-> e]]]

NextFlow(n) == Script[n][calls[n] + 1]

\* An object round writes its objects into the pool and puts a record of each.
ObjectRecords(n) == IF NextFlow(n) = "object" THEN pub[n].gen + 1 ELSE pub[n].gen

\* mem_service_write_cluster_payload.
Publication(n) == [seq |-> pub[n].seq + 1, gen |-> ObjectRecords(n)]

\* The next call of the script: publish, and enter the READY barrier.  A fetch
\* only publishes; it then finds its record in its own payload or a peer's.
Begin(n) ==
    /\ st[n].pc = "idle" /\ calls[n] < Len(Script[n])
    /\ calls' = [calls EXCEPT ![n] = @ + 1]
    /\ LET p == Publication(n)
       IN  /\ pub' = [pub EXCEPT ![n] = p] /\ payload' = [payload EXCEPT ![n] = p]
           /\ IF NextFlow(n) = "fetch" THEN Finish(n, 0) /\ UNCHANGED <<epoch, entered>>
              ELSE Announce(n, "READY", p.seq)
    /\ UNCHANGED <<queue, stash, passed, seen>>

\* The publication's flush fails and the call with it: its number is used up,
\* and the peers read the old payload or, if the lines were written back, the new.
BeginFails(n) ==
    /\ MayFail /\ st[n].pc = "idle" /\ calls[n] < Len(Script[n])
    /\ calls' = [calls EXCEPT ![n] = @ + 1]
    /\ pub' = [pub EXCEPT ![n] = Publication(n)]
    /\ \E p \in {payload[n], Publication(n)} : payload' = [payload EXCEPT ![n] = p]
    /\ Finish(n, -1)
    /\ UNCHANGED <<queue, stash, epoch, entered, passed, seen>>

\* The barrier's descriptor to the next peer, when its ring has room.
BarrierPush(n) ==
    /\ st[n].pc = "push"
    /\ \E p \in st[n].todo :
          /\ IsFirst(p, st[n].todo) /\ HasRoom(n, p)
          /\ PushTo(n, p, Desc(st[n].barrier.type, st[n].barrier.epoch, 0, 0))
          /\ st' = [st EXCEPT ![n] = [@ EXCEPT
                 !.todo = st[n].todo \ {p}, !.pc = IF st[n].todo = {p} THEN "wait" ELSE "push"]]
    /\ UNCHANGED <<stash, pub, payload, epoch, calls, entered, passed, seen>>

\* The first descriptor of the barrier in the stash of peer p is its i-th.
InStash(n, p, i) ==
    /\ MatchesBarrier(stash[n][p][i], st[n].barrier)
    /\ \A j \in 1 .. i - 1 : ~MatchesBarrier(stash[n][p][j], st[n].barrier)

\* A look at peer p finds the barrier's descriptor in the stash.
BarrierTake(n, p) ==
    /\ st[n].pc = "wait" /\ st[n].drain = NoNode /\ p \in Peers(n) \ st[n].got
    /\ \E i \in 1 .. Len(stash[n][p]) :
          InStash(n, p, i) /\ stash' = [stash EXCEPT ![n][p] = Unstash(@, i)]
    /\ st' = [st EXCEPT ![n].got = @ \cup {p}]
    /\ UNCHANGED <<queue, pub, payload, epoch, calls, entered, passed, seen>>

\* The look goes on in the ring, or starts there when the stash had nothing.
MayDrain(n, p) ==
    /\ st[n].pc = "wait" /\ p \in Peers(n) /\ queue[p][n] # <<>>
    /\ \/ st[n].drain = p
       \/ /\ st[n].drain = NoNode /\ p \notin st[n].got
          /\ \A i \in 1 .. Len(stash[n][p]) : ~MatchesBarrier(stash[n][p][i], st[n].barrier)

\* One descriptor is popped; any other than the barrier's goes to the stash.
BarrierPop(n, p) ==
    LET d == Head(queue[p][n])
    IN  /\ MayDrain(n, p)
        /\ queue' = [queue EXCEPT ![p][n] = Tail(@)]
        /\ IF MatchesBarrier(d, st[n].barrier)
           THEN /\ st' = [st EXCEPT ![n] = [@ EXCEPT !.drain = p, !.got = st[n].got \cup {p}]]
                /\ UNCHANGED stash
           ELSE /\ st' = [st EXCEPT ![n].drain = p]
                /\ stash' = [stash EXCEPT ![n][p] = Stashed(@, d)]
        /\ UNCHANGED <<pub, payload, epoch, calls, entered, passed, seen>>

\* The ring is found empty, and the look at its peer is over.
BarrierDrained(n) ==
    /\ st[n].pc = "wait" /\ st[n].drain # NoNode /\ queue[st[n].drain][n] = <<>>
    /\ st' = [st EXCEPT ![n].drain = NoNode]
    /\ UNCHANGED <<queue, stash, pub, payload, epoch, calls, entered, passed, seen>>

\* mem_service_pop_ingress_desc fails: a descriptor is lost when obmm_spsc_pop
\* has moved head by then.
FailedPop(n, p) == UNCHANGED queue \/ queue' = [queue EXCEPT ![p][n] = Tail(@)]

\* That ends the look at this peer too.
BarrierPopFails(n, p) ==
    /\ MayFail /\ MayDrain(n, p) /\ FailedPop(n, p)
    /\ st' = [st EXCEPT ![n].drain = NoNode]
    /\ UNCHANGED <<stash, pub, payload, epoch, calls, entered, passed, seen>>

\* Mutant: an observe reads its peers although the READY barrier failed.
AfterBarrierIgnored(n, rc) ==
    IF Flow(n) = "object"
    THEN /\ st' = [st EXCEPT ![n] = [@ EXCEPT !.pc = "put", !.todo = Peers(n), !.kind = 1]]
         /\ UNCHANGED seen
    ELSE IF st[n].barrier.type = "OBSERVED"
    THEN /\ Finish(n, 0)
         /\ seen' = [seen EXCEPT ![n].obs = st[n].obs]
    ELSE /\ st' = [st EXCEPT ![n] = [@ EXCEPT !.pc = "read", !.todo = Peers(n)]]
         /\ seen' = [seen EXCEPT ![n] = [NothingSeen EXCEPT !.epoch = st[n].barrier.epoch]]

\* What the caller does after the barrier: an observe reads its peers after
\* READY and is over after OBSERVED, an object round puts its objects.
AfterBarrier(n, rc) ==
    IF Flow(n) = "object"
    THEN /\ st' = [st EXCEPT ![n] = [@ EXCEPT !.pc = "put", !.todo = Peers(n), !.kind = 1]]
         /\ UNCHANGED seen
    ELSE IF st[n].barrier.type = "OBSERVED"
    THEN /\ Finish(n, 0)
         /\ seen' = [seen EXCEPT ![n].obs = st[n].obs]
    ELSE IF rc = 0
    THEN /\ st' = [st EXCEPT ![n] = [@ EXCEPT !.pc = "read", !.todo = Peers(n)]]
         /\ seen' = [seen EXCEPT ![n] = [NothingSeen EXCEPT !.epoch = st[n].barrier.epoch]]
    ELSE Finish(n, rc) /\ UNCHANGED seen

BarrierReturn(n) ==
    /\ st[n].pc = "wait" /\ st[n].got = Peers(n) /\ st[n].drain = NoNode
    /\ passed' = [passed EXCEPT ![n] = @ \cup {st[n].barrier}]
    /\ AfterBarrier(n, 0)
    /\ UNCHANGED <<queue, stash, pub, payload, epoch, calls, entered>>

\* The node's own publish_seq, as 16 bits and never 0, is what it expects of a peer.
ExpectedSeq(n) ==
    LET s == pub[n].seq % PubMod
    IN  IF s = 0 THEN 1 ELSE s

\* The summary of the next peer, once its number is large enough.
ReadPeer(n) ==
    /\ st[n].pc = "read"
    /\ \E p \in st[n].todo :
          /\ IsFirst(p, st[n].todo) /\ payload[p].seq >= ExpectedSeq(n)
          /\ st' = [st EXCEPT ![n] = [@ EXCEPT
                 !.obs[p] = payload[p].seq, !.todo = st[n].todo \ {p}]]
    /\ UNCHANGED <<queue, stash, pub, payload, epoch, calls, entered, passed, seen>>

Observed(n) ==
    /\ st[n].pc = "read" /\ st[n].todo = {}
    /\ Announce(n, "OBSERVED", pub[n].seq)
    /\ UNCHANGED <<queue, stash, pub, payload, calls, passed, seen>>

\* mem_service_push_obmm_object_descs, kind after kind, to every peer.
ObjectPut(n) ==
    /\ st[n].pc = "put"
    /\ \E p \in st[n].todo :
          /\ IsFirst(p, st[n].todo) /\ HasRoom(n, p)
          /\ PushTo(n, p, Desc("PUT", epoch[n], st[n].kind, pub[n].gen))
          /\ st' = [st EXCEPT ![n] =
                 IF st[n].todo # {p} THEN [@ EXCEPT !.todo = st[n].todo \ {p}]
                 ELSE IF st[n].kind < Kinds
                 THEN [@ EXCEPT !.kind = st[n].kind + 1, !.todo = Peers(n)]
                 ELSE [@ EXCEPT !.pc = "resolve", !.kind = 1]]
    /\ UNCHANGED <<stash, pub, payload, epoch, calls, entered, passed, seen>>

\* The next node's record of one kind, by its key, from its payload.
ObjectResolve(n) ==
    /\ st[n].pc = "resolve" /\ payload[Next1(n)].gen > 0
    /\ st' = [st EXCEPT ![n] = [@ EXCEPT
           !.found[st[n].kind] = payload[Next1(n)].gen,
           !.kind = IF st[n].kind < Kinds THEN st[n].kind + 1 ELSE st[n].kind,
           !.pc = IF st[n].kind = Kinds THEN "objects" ELSE "resolve"]]
    /\ UNCHANGED <<queue, stash, pub, payload, epoch, calls, entered, passed, seen>>

WantedAs(n, d) == {k \in 1 .. Kinds : MatchesObject(d, epoch[n], k, st[n].found[k])}

\* A descriptor awaited is in the stash.
ObjectTake(n, k) ==
    LET p == Next1(n)
        Match(i) == k \in WantedAs(n, stash[n][p][i])
    IN  /\ st[n].pc = "objects" /\ st[n].drain = NoNode /\ k \notin st[n].saw
        /\ \E i \in 1 .. Len(stash[n][p]) :
              /\ Match(i) /\ \A j \in 1 .. i - 1 : ~Match(j)
              /\ stash' = [stash EXCEPT ![n][p] = Unstash(@, i)]
        /\ st' = [st EXCEPT ![n].saw = @ \cup {k}]
        /\ UNCHANGED <<queue, pub, payload, epoch, calls, entered, passed, seen>>

\* None of the descriptors awaited is in the stash: the ring is emptied.
MayEmpty(n, p) ==
    /\ st[n].pc = "objects" /\ queue[p][n] # <<>>
    /\ \/ st[n].drain = p
       \/ \A i \in 1 .. Len(stash[n][p]) : WantedAs(n, stash[n][p][i]) \subseteq st[n].saw

ObjectPop(n) ==
    LET p == Next1(n)
        d == Head(queue[p][n])
    IN  /\ MayEmpty(n, p)
        /\ queue' = [queue EXCEPT ![p][n] = Tail(@)]
        /\ st' = [st EXCEPT ![n] = [@ EXCEPT !.drain = p, !.saw = st[n].saw \cup WantedAs(n, d)]]
        /\ stash' = IF WantedAs(n, d) = {} THEN [stash EXCEPT ![n][p] = Stashed(@, d)] ELSE stash
        /\ UNCHANGED <<pub, payload, epoch, calls, entered, passed, seen>>

\* After the last pop: done, or back to the start of the loop.
ObjectsLooked(n) ==
    IF st[n].saw = 1 .. Kinds THEN Finish(n, 0)
    ELSE st' = [st EXCEPT ![n].drain = NoNode]

\* The ring is found empty.
ObjectDrained(n) ==
    /\ st[n].pc = "objects" /\ queue[Next1(n)][n] = <<>>
    /\ st[n].saw = 1 .. Kinds \/ st[n].drain # NoNode
    /\ ObjectsLooked(n)
    /\ UNCHANGED <<queue, stash, pub, payload, epoch, calls, entered, passed, seen>>

ObjectPopFails(n) ==
    /\ MayFail /\ MayEmpty(n, Next1(n)) /\ FailedPop(n, Next1(n))
    /\ ObjectsLooked(n)
    /\ UNCHANGED <<stash, pub, payload, epoch, calls, entered, passed, seen>>

\* What the node is waiting for has not happened yet.  No deadline is looked at
\* before a ring is emptied.
Waiting(n) ==
    CASE st[n].pc \in {"push", "put"} ->
             \A p \in st[n].todo : IsFirst(p, st[n].todo) => ~HasRoom(n, p)
      [] st[n].pc = "wait" -> st[n].got # Peers(n) /\ st[n].drain = NoNode
      [] st[n].pc = "read" -> st[n].todo # {}
      [] st[n].pc = "objects" -> st[n].saw # 1 .. Kinds /\ st[n].drain = NoNode
      [] OTHER -> st[n].pc = "resolve"

\* A deadline passes.  A barrier returns -1 to its caller; any other wait ends
\* the call.  What was pushed stays in the rings.
Timeout(n) ==
    /\ DeadlinesPass /\ Waiting(n)
    /\ IF st[n].pc \in {"push", "wait"} THEN AfterBarrier(n, -1)
       ELSE Finish(n, -1) /\ UNCHANGED seen
    /\ UNCHANGED <<queue, stash, pub, payload, epoch, calls, entered, passed>>

RoundStep(n) ==
    \/ Begin(n) \/ BarrierPush(n) \/ BarrierReturn(n)
    \/ ReadPeer(n) \/ Observed(n)
    \/ ObjectPut(n) \/ ObjectResolve(n) \/ ObjectPop(n) \/ ObjectDrained(n)
    \/ BarrierDrained(n) \/ \E p \in Nodes : BarrierTake(n, p) \/ BarrierPop(n, p)
    \/ \E k \in 1 .. Kinds : ObjectTake(n, k)

RoundNext ==
    \E n \in Nodes :
        \/ RoundStep(n) \/ BeginFails(n) \/ Timeout(n) \/ ObjectPopFails(n)
        \/ \E p \in Nodes : BarrierPopFails(n, p)

RoundSpec == RoundInit /\ [][RoundNext]_roundVars

-----------------------------------------------------------------------------
(* Properties.                                                             *)

DescType == [type : {"READY", "OBSERVED", "PUT"}, epoch : 0 .. EpochMod - 1,
             kind : 0 .. Kinds, gen : Nat]

\* Rings and stashes hold descriptors within their depths, an epoch is never 0
\* once a round has begun, and every call in progress is in a known step.
RoundTypes ==
    /\ \A n, m \in Nodes :
          /\ Len(queue[n][m]) <= QueueDepth /\ Len(stash[n][m]) <= StashDepth
          /\ \A i \in 1 .. Len(queue[n][m]) : queue[n][m][i] \in DescType
          /\ \A i \in 1 .. Len(stash[n][m]) : stash[n][m][i] \in DescType
    /\ \A n \in Nodes :
          /\ st[n].pc \in {"idle", "push", "wait", "read", "put", "resolve", "objects"}
          /\ st[n].todo \subseteq Peers(n) /\ st[n].got \subseteq Peers(n)
          /\ entered[n] # {} => epoch[n] \in 1 .. EpochMod - 1

\* A barrier that returns 0 has met every peer: each has announced the same
\* barrier, with the same epoch, whatever was lost, late or left over from
\* rounds that timed out (mem_service_queue_barrier).
BarrierSeparates ==
    \A n \in Nodes : \A b \in passed[n] : \A m \in Peers(n) :
        \E x \in entered[m] : x[1] = b.type /\ x[2] = b.epoch

\* An observe that returned 0 saw, of every peer, the payload that the peer
\* published before it announced this round's READY, or a newer one
\* (mem_service_publish_observe_cluster).
ObserveFresh ==
    \A n \in Nodes : \A m \in Peers(n) : seen[n].obs[m] # 0 =>
        \E x \in entered[m] : x[1] = "READY" /\ x[2] = seen[n].epoch /\ seen[n].obs[m] >= x[3]

\* Without timeouts it saw exactly that payload: no peer publishes again before
\* everyone has observed, because of the second barrier.
ObserveExact ==
    \A n \in Nodes : \A m \in Peers(n) : seen[n].obs[m] # 0 =>
        <<"READY", seen[n].epoch, seen[n].obs[m]>> \in entered[m]

\* Every call of every node has returned; without timeouts it comes to this.
AllReturned == \A n \in Nodes : st[n].pc = "idle" /\ calls[n] = Len(Script[n])
=============================================================================
