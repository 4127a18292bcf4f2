---------------------------- MODULE RangePipeline ----------------------------
(***************************************************************************)
(* The pipeline of a decoding model (mem_service_model_range_wait_flow.c,  *)
(* mem_service_model_range_publish_flow.c,                                 *)
(* mem_service_model_terminal_token_flow.c and the functions of            *)
(* mem_service_cluster_queue.c they use).  Node n owns the n-th range of   *)
(* layers.  In every decode step it waits for its input (the hidden state  *)
(* its predecessor published or, on node 0, the token of the step before), *)
(* runs its layers, publishes the result as records of its pool, pushes a  *)
(* descriptor to the next node and waits for the acknowledgement.  The     *)
(* last node publishes the token.  On the short path another node          *)
(* publishes the token, and the nodes after it skip the step.              *)
(*                                                                         *)
(* A descriptor is only a hint: a ring that is full swallows it and the    *)
(* waiter then finds the record itself.  Rings are bounded FIFOs (see      *)
(* SpscQueue), a published table is read as a whole (see ClusterPayload)   *)
(* and a waiter's timer for the record lookup may be due at any time.      *)
(* Every object of a node has its own place in the pool, so a place stands *)
(* for its bytes and their checksum.                                       *)
(***************************************************************************)
EXTENDS Integers, FiniteSets, FiniteSetsExt, SequencesExt

CONSTANTS
    NodeCount,     \* request->range_nodes
    Steps,         \* decode steps (bound)
    EpochMod,      \* epochs of descriptors count modulo this, 2^16 in the code
    QueueDepth,    \* MEM_SERVICE_CLUSTER_QUEUE_DEPTH
    StashDepth,    \* MEM_SERVICE_CLUSTER_PENDING_DESC_DEPTH
    RecordMax,     \* MEM_SERVICE_MAX_RECORDS
    RetainSteps,   \* MEM_SERVICE_QWEN3_RECORD_RETAIN_STEPS
    ArenaUnits,    \* room of the payload arena, in objects
    Shortpath,     \* request->allow_terminal_shortpath
    RoundBarrier,  \* whether the driver ends a step with the decode-round barrier
    MayFail        \* whether a deadline may pass or a device may fail

\* What the constants must satisfy.
PipelineAssumption ==
    /\ NodeCount \in Nat \ {0, 1} /\ Steps \in Nat \ {0} /\ EpochMod \in Nat \ {0, 1}
    /\ QueueDepth \in Nat \ {0} /\ StashDepth \in Nat \ {0}
    /\ RecordMax \in Nat /\ RetainSteps \in Nat /\ ArenaUnits \in Nat
    /\ Shortpath \in BOOLEAN /\ RoundBarrier \in BOOLEAN /\ MayFail \in BOOLEAN

Nodes == 0 .. NodeCount - 1
FinalNode == NodeCount - 1
Step == 0 .. Steps - 1

VARIABLES
    st,       \* node -> where it is in the step, and the descriptor it works with
    step,     \* node -> its decode step
    queue,    \* from -> to -> the descriptors in the ring
    stash,    \* node -> peer -> pending_descs
    table,    \* node -> its records, as last published
    arena,    \* node -> payload_arena_next, in objects
    round,    \* node -> the last step whose round-done marker it has published
    input,    \* history: node -> step -> what the node took as its input
    forwarded \* history: node -> the steps whose publication it completed

vars == <<st, step, queue, stash, table, arena, round, input, forwarded>>

NoDesc == [type |-> "NONE", kind |-> "none", epoch |-> 0, off |-> 0]
Nothing == [kind |-> "none", from |-> 0, of |-> 0]
At(pc) == [pc |-> pc, desc |-> NoDesc, src |-> 0, todo |-> {}, dry |-> {}]

Init ==
    /\ st = [n \in Nodes |-> At("wait")]
    /\ step = [n \in Nodes |-> 0]
    /\ queue = [n \in Nodes |-> [m \in Nodes |-> <<>>]]
    /\ stash = [n \in Nodes |-> [m \in Nodes |-> <<>>]]
    /\ table = [n \in Nodes |-> {}]
    /\ arena = [n \in Nodes |-> 0]
    /\ round = [n \in Nodes |-> -1]
    /\ input = [n \in Nodes |-> [s \in Step |-> Nothing]]
    /\ forwarded = [n \in Nodes |-> {}]

Go(n, pc) == st' = [st EXCEPT ![n] = At(pc)]
With(n, pc, src, d) == st' = [st EXCEPT ![n] = [At(pc) EXCEPT !.src = src, !.desc = d]]

-----------------------------------------------------------------------------
(* Descriptors, and the stash of those popped while waiting for another.   *)

\* The epoch of a step: never 0, so it is 1 twice in a row when it wraps.
Epoch(s) == IF (s + 1) % EpochMod = 0 THEN 1 ELSE (s + 1) % EpochMod

Put(kind, s, off) == [type |-> "PUT", kind |-> kind, epoch |-> Epoch(s), off |-> off]
Ack(put) == [put EXCEPT !.type = "GET"]

\* The step whose token node 0 waits for is the one before.
TokenStep(n) == IF n = 0 THEN step[n] - 1 ELSE step[n]

TokenMatches(n, d) == d.type = "PUT" /\ d.kind = "token" /\ d.epoch = Epoch(TokenStep(n))

\* Mutant: a range descriptor of any step will do.
RangeMatchesAny(n, d) == d.type = "PUT" /\ d.kind = "range"

RangeMatches(n, d) == d.type = "PUT" /\ d.kind = "range" /\ d.epoch = Epoch(step[n])

\* A descriptor that finds the stash full is dropped.
Stashed(s, d) == IF Len(s) >= StashDepth THEN s ELSE Append(s, d)

\* The descriptors each of the three waits of a node looks for.
Wanted(n, wait, d) ==
    \/ wait = "token" /\ TokenMatches(n, d)
    \/ wait = "range" /\ RangeMatches(n, d)
    \/ wait = "ack" /\ d = Ack(st[n].desc)

InStash(n, o, wait) == LET Test(d) == Wanted(n, wait, d) IN SelectInSeq(stash[n][o], Test)

\* take_pending: the first match leaves the stash, the others keep their order.
Unstash(n, o, wait) == stash' = [stash EXCEPT ![n][o] = RemoveAt(@, InStash(n, o, wait))]

\* try_push: a full ring is not an error, the hint is lost.
TryPush(n, m, d) ==
    queue' = IF Len(queue[n][m]) < QueueDepth THEN [queue EXCEPT ![n][m] = Append(@, d)] ELSE queue

\* Pop the ring of o: a match is resolved next, anything else is stashed.
\* dry holds the rings the waiter has seen empty since it last popped them.
PopOrStash(n, o, wait) ==
    /\ queue[o][n] /= <<>>
    /\ InStash(n, o, wait) = 0
    /\ queue' = [queue EXCEPT ![o][n] = Tail(@)]
    /\ LET d == Head(queue[o][n])
       IN  IF Wanted(n, wait, d) THEN With(n, wait, o, d) /\ UNCHANGED stash
           ELSE /\ stash' = [stash EXCEPT ![n][o] = Stashed(@, d)]
                /\ st' = [st EXCEPT ![n].dry = @ \ {o}]

-----------------------------------------------------------------------------
(* Records.                                                                *)

Record(kind, s, off) == [kind |-> kind, step |-> s, off |-> off]
Find(n, kind, s) == {r \in table[n] : r.kind = kind /\ r.step = s}
ByBacking(n, kind, off) == {r \in table[n] : r.kind = kind /\ r.off = off}

\* mem_service_recycle_qwen3_runtime_record: the oldest records out of retention.
Victims(t, s) ==
    LET old == {r \in t : s > RetainSteps /\ r.step + RetainSteps < s}
    IN  {r \in old : \A x \in old : r.step <= x.step}

\* mem_service_put_obmm_object_record: the tables it may leave; none when it fails.
PutRecord(t, r) ==
    LET rest == {x \in t : x.kind /= r.kind \/ x.step /= r.step}
    IN  IF Cardinality(rest) < RecordMax THEN {rest \cup {r}}
        ELSE {(rest \ {v}) \cup {r} : v \in Victims(rest, r.step)}

\* The next object of the step is put at the given place.
Put1(tables, kind, n, off) == UNION {PutRecord(t, Record(kind, step[n], off)) : t \in tables}

HasRoom(n, tables, units) == arena[n] + units <= ArenaUnits /\ tables /= {}

\* Allocate, copy, put and publish the objects of a step.
Publish(n, tables, units) ==
    /\ \E t \in tables : table' = [table EXCEPT ![n] = t]
    /\ arena' = [arena EXCEPT ![n] = @ + units]

\* For lack of room in the arena or the table the call fails.
PublishFails(n) == Go(n, "failed") /\ UNCHANGED <<table, arena>>

-----------------------------------------------------------------------------
(* Waiting for the input of a step.                                        *)

Waiting(n) == st[n].pc = "wait"
NeedsToken(n) == n = 0 /\ step[n] > 0
MayCommit(n) == n > 0 /\ Shortpath
WantsToken(n) == NeedsToken(n) \/ MayCommit(n)

Take(n, o, r) == input' = [input EXCEPT ![n][step[n]] = [kind |-> r.kind, from |-> o, of |-> r.step]]

\* The driver's next step, past the round barrier if there is one.
EndStep(n) ==
    IF RoundBarrier
    THEN round' = [round EXCEPT ![n] = step[n]] /\ Go(n, "barrier") /\ UNCHANGED step
    ELSE /\ step' = [step EXCEPT ![n] = @ + 1] /\ UNCHANGED round
         /\ Go(n, IF step[n] + 1 = Steps THEN "done" ELSE "wait")

\* The first step of node 0 has no input.
FirstStep(n) ==
    /\ Waiting(n) /\ n = 0 /\ step[n] = 0
    /\ Go(n, "run")
    /\ UNCHANGED <<step, queue, stash, table, arena, round, input, forwarded>>

\* A token descriptor from the stash of any node, its own included ...
TakeToken(n, o) ==
    /\ Waiting(n) /\ WantsToken(n) /\ InStash(n, o, "token") > 0
    /\ With(n, "token", o, stash[n][o][InStash(n, o, "token")])
    /\ Unstash(n, o, "token")
    /\ UNCHANGED <<step, queue, table, arena, round, input, forwarded>>

\* ... or from the ring of another node.
PopToken(n, o) ==
    /\ Waiting(n) /\ WantsToken(n) /\ o /= n
    /\ PopOrStash(n, o, "token")
    /\ UNCHANGED <<step, table, arena, round, input, forwarded>>

\* The waiter comes to the end of the ring of o.
SeeDry(n, o) ==
    /\ Waiting(n) /\ queue[o][n] = <<>> /\ o \notin st[n].dry
    /\ WantsToken(n) \/ o = n - 1
    /\ st' = [st EXCEPT ![n].dry = @ \cup {o}]
    /\ UNCHANGED <<step, queue, stash, table, arena, round, input, forwarded>>

\* Mutant: the record of a token is never looked for.
NoTokenProbe(n, o) == FALSE

\* When its timer is due, a waiter that found no descriptor looks for the
\* record in the table of o, one owner after the other.  The descriptor may
\* have come in the meantime; it then stays in the ring.
TokenProbe(n, o) ==
    LET tried == IF n = 0 THEN 0 .. o ELSE Nodes
    IN  /\ Waiting(n) /\ WantsToken(n)
        /\ tried \subseteq st[n].dry /\ \A m \in tried : InStash(n, m, "token") = 0

\* Node 0 makes up the descriptor and goes on as if it had popped that.
ProbeTokenInput(n, o) ==
    /\ n = 0 /\ TokenProbe(n, o)
    /\ \E r \in Find(o, "token", TokenStep(n)) : With(n, "token", o, Put("token", TokenStep(n), r.off))
    /\ UNCHANGED <<step, queue, stash, table, arena, round, input, forwarded>>

\* A waiter that may commit does so from the record.
ProbeTerminal(n, o) ==
    /\ n > 0 /\ TokenProbe(n, o)
    /\ \E r \in Find(o, "token", TokenStep(n)) : Take(n, o, r)
    /\ EndStep(n)
    /\ UNCHANGED <<queue, stash, table, arena, forwarded>>

\* The token's record, found by the descriptor's place, gives node 0 its input;
\* a token of another step ends the wait with an error.
ResolveTokenInput(n) ==
    /\ st[n].pc = "token" /\ n = 0
    /\ \E r \in ByBacking(st[n].src, "token", st[n].desc.off) :
         IF r.step = TokenStep(n) THEN Take(n, st[n].src, r) /\ Go(n, "run")
         ELSE Go(n, "failed") /\ UNCHANGED input
    /\ UNCHANGED <<step, queue, stash, table, arena, round, forwarded>>

\* The other nodes commit the step, which then has no work for them; with
\* a token of another step they try again until the deadline.
ResolveTerminal(n) ==
    /\ st[n].pc = "token" /\ n > 0
    /\ \E r \in ByBacking(st[n].src, "token", st[n].desc.off) :
         r.step = TokenStep(n) /\ Take(n, st[n].src, r)
    /\ EndStep(n)
    /\ UNCHANGED <<queue, stash, table, arena, forwarded>>

\* The descriptor of the hidden state, from the stash of the predecessor ...
TakeRange(n) ==
    /\ Waiting(n) /\ n > 0 /\ InStash(n, n - 1, "range") > 0
    /\ With(n, "range", n - 1, stash[n][n - 1][InStash(n, n - 1, "range")])
    /\ Unstash(n, n - 1, "range")
    /\ UNCHANGED <<step, queue, table, arena, round, input, forwarded>>

\* ... or from its ring.
PopRange(n) ==
    /\ Waiting(n) /\ n > 0
    /\ PopOrStash(n, n - 1, "range")
    /\ UNCHANGED <<step, table, arena, round, input, forwarded>>

\* Its record, found by the descriptor's place.
ResolveRange(n) ==
    /\ st[n].pc = "range"
    /\ \E r \in ByBacking(n - 1, "range", st[n].desc.off) : Take(n, n - 1, r)
    /\ st' = [st EXCEPT ![n].pc = "ack"]
    /\ UNCHANGED <<step, queue, stash, table, arena, round, forwarded>>

\* The timer of the look for the record is due and there was no descriptor:
\* the record under the key of the step stands in for it.
ProbeRange(n) ==
    LET tried == IF MayCommit(n) THEN Nodes ELSE {n - 1}
    IN  /\ Waiting(n) /\ n > 0 /\ tried \subseteq st[n].dry /\ InStash(n, n - 1, "range") = 0
        /\ \E r \in Find(n - 1, "range", step[n]) :
             Take(n, n - 1, r) /\ With(n, "ack", n - 1, Put("range", step[n], r.off))
        /\ UNCHANGED <<step, queue, stash, table, arena, round, forwarded>>

\* The acknowledgement waits for room in the ring.
SendAck(n) ==
    /\ st[n].pc = "ack" /\ Len(queue[n][n - 1]) < QueueDepth
    /\ queue' = [queue EXCEPT ![n][n - 1] = Append(@, Ack(st[n].desc))]
    /\ Go(n, "run")
    /\ UNCHANGED <<step, stash, table, arena, round, input, forwarded>>

-----------------------------------------------------------------------------
(* Publishing the output of a step.                                        *)

\* The hidden state and the KV state of the step.
PublishOutput(n) ==
    LET hidden == Put1({table[n]}, IF n = FinalNode THEN "output" ELSE "range", n, arena[n])
        tables == Put1(hidden, "kv", n, arena[n] + 1)
    IN  /\ st[n].pc = "run"
        /\ IF HasRoom(n, tables, 2)
           THEN Publish(n, tables, 2) /\ Go(n, IF n = FinalNode THEN "sample" ELSE "notify")
           ELSE PublishFails(n)
        /\ UNCHANGED <<step, queue, stash, round, input, forwarded>>

\* The short path: the node publishes its KV state alone, then the token.
PublishKvState(n) ==
    LET tables == Put1({table[n]}, "kv", n, arena[n])
    IN  /\ Shortpath /\ st[n].pc = "run" /\ n /= FinalNode
        /\ IF HasRoom(n, tables, 1) THEN Publish(n, tables, 1) /\ Go(n, "short") ELSE PublishFails(n)
        /\ UNCHANGED <<step, queue, stash, round, input, forwarded>>

\* The token's record; then a descriptor to node 0, or on the short path to all.
PublishToken(n) ==
    LET tables == Put1({table[n]}, "token", n, arena[n])
        tell == [At("tell") EXCEPT !.todo = IF st[n].pc = "short" THEN Nodes ELSE {0},
                                   !.desc = Put("token", step[n], arena[n])]
    IN  /\ st[n].pc \in {"sample", "short"}
        /\ IF HasRoom(n, tables, 1) THEN Publish(n, tables, 1) /\ st' = [st EXCEPT ![n] = tell]
           ELSE PublishFails(n)
        /\ UNCHANGED <<step, queue, stash, round, input, forwarded>>

\* One descriptor: into its own stash, which must have room, or into a ring.
TellToken(n) ==
    /\ st[n].pc = "tell" /\ st[n].todo /= {}
    /\ LET m == Min(st[n].todo)
       IN  IF m = n
           THEN /\ UNCHANGED queue
                /\ IF Len(stash[n][n]) >= StashDepth THEN Go(n, "failed") /\ UNCHANGED stash
                   ELSE /\ stash' = [stash EXCEPT ![n][n] = Append(@, st[n].desc)]
                        /\ st' = [st EXCEPT ![n].todo = @ \ {m}]
           ELSE /\ TryPush(n, m, st[n].desc)
                /\ st' = [st EXCEPT ![n].todo = @ \ {m}] /\ UNCHANGED stash
    /\ UNCHANGED <<step, table, arena, round, input, forwarded>>

Told(n) ==
    /\ st[n].pc = "tell" /\ st[n].todo = {}
    /\ EndStep(n)
    /\ UNCHANGED <<queue, stash, table, arena, input, forwarded>>

\* Mutant: the acknowledgement is not waited for.
NotifyAndGo(n) ==
    /\ st[n].pc = "notify"
    /\ \E r \in Find(n, "range", step[n]) : TryPush(n, n + 1, Put("range", step[n], r.off))
    /\ EndStep(n)
    /\ forwarded' = [forwarded EXCEPT ![n] = @ \cup {step[n]}]
    /\ UNCHANGED <<stash, table, arena, input>>

\* The descriptor to the next node, and the wait for its acknowledgement.
Notify(n) ==
    /\ st[n].pc = "notify"
    /\ \E r \in Find(n, "range", step[n]) :
         /\ TryPush(n, n + 1, Put("range", step[n], r.off))
         /\ With(n, "waitack", n + 1, Put("range", step[n], r.off))
    /\ UNCHANGED <<step, stash, table, arena, round, input, forwarded>>

Acknowledged(n) ==
    EndStep(n) /\ forwarded' = [forwarded EXCEPT ![n] = @ \cup {step[n]}]

TakeAck(n) ==
    /\ st[n].pc = "waitack" /\ InStash(n, n + 1, "ack") > 0
    /\ Unstash(n, n + 1, "ack")
    /\ Acknowledged(n)
    /\ UNCHANGED <<queue, table, arena, input>>

PopAck(n) ==
    /\ st[n].pc = "waitack" /\ queue[n + 1][n] /= <<>>
    /\ queue' = [queue EXCEPT ![n + 1][n] = Tail(@)]
    /\ IF Head(queue[n + 1][n]) = Ack(st[n].desc) THEN Acknowledged(n) /\ UNCHANGED stash
       ELSE /\ stash' = [stash EXCEPT ![n][n + 1] = Stashed(@, Head(queue[n + 1][n]))]
            /\ UNCHANGED <<st, step, round, forwarded>>
    /\ UNCHANGED <<table, arena, input>>

-----------------------------------------------------------------------------

\* Every node's marker of the step has been seen (see DecodeRounds).
PassRound(n) ==
    /\ st[n].pc = "barrier" /\ \A m \in Nodes : round[m] >= step[n]
    /\ step' = [step EXCEPT ![n] = @ + 1]
    /\ Go(n, IF step[n] + 1 = Steps THEN "done" ELSE "wait")
    /\ UNCHANGED <<queue, stash, table, arena, round, input, forwarded>>

\* A deadline passes, a flush or a synchronisation fails: the call returns -1.
Fail(n) ==
    /\ MayFail /\ st[n].pc \notin {"done", "failed"}
    /\ Go(n, "failed")
    /\ UNCHANGED <<step, queue, stash, table, arena, round, input, forwarded>>

Finished ==
    /\ \A n \in Nodes : st[n].pc \in {"done", "failed"}
    /\ UNCHANGED vars

Waits(n) ==
    \/ FirstStep(n) \/ TakeRange(n) \/ PopRange(n) \/ ProbeRange(n)
    \/ ResolveRange(n) \/ ResolveTokenInput(n) \/ ResolveTerminal(n) \/ SendAck(n)
    \/ \E o \in Nodes : \/ TakeToken(n, o) \/ PopToken(n, o) \/ SeeDry(n, o)
                        \/ ProbeTokenInput(n, o) \/ ProbeTerminal(n, o)

Publishes(n) ==
    \/ PublishOutput(n) \/ PublishKvState(n) \/ PublishToken(n) \/ TellToken(n) \/ Told(n)
    \/ Notify(n) \/ TakeAck(n) \/ PopAck(n)

NodeStep(n) == Waits(n) \/ Publishes(n) \/ PassRound(n)

Next ==
    \/ \E n \in Nodes : NodeStep(n) \/ Fail(n)
    \/ Finished

Spec == Init /\ [][Next]_vars

-----------------------------------------------------------------------------

Pcs == {"wait", "token", "range", "ack", "run", "sample", "short", "tell", "notify", "waitack",
        "barrier", "done", "failed"}
Desc == [type : {"NONE", "PUT", "GET"}, kind : {"none", "range", "token"},
         epoch : 0 .. EpochMod - 1, off : 0 .. ArenaUnits]

\* Every variable has its type; rings and stashes keep to their depth.
TypeOK ==
    /\ \A n \in Nodes :
         /\ st[n].pc \in Pcs /\ st[n].desc \in Desc /\ st[n].src \in Nodes
         /\ (st[n].todo \cup st[n].dry) \subseteq Nodes
         /\ step[n] \in 0 .. Steps /\ round[n] \in -1 .. Steps - 1 /\ arena[n] \in 0 .. ArenaUnits
         /\ \A m \in Nodes : /\ Len(queue[n][m]) <= QueueDepth /\ Range(queue[n][m]) \subseteq Desc
                             /\ Len(stash[n][m]) <= StashDepth /\ Range(stash[n][m]) \subseteq Desc
         /\ Cardinality(table[n]) <= RecordMax
         /\ forwarded[n] \subseteq Step

\* A node's input of a step is what that step calls for: the hidden state of
\* the same step from its predecessor, the token of the same step when it
\* skips it or, on node 0, the token of the step before.  Descriptors left
\* over from an earlier step never stand in for it.
InputOfStep ==
    \A n \in Nodes : \A s \in Step : input[n][s].kind /= "none" =>
        \/ input[n][s].kind = "range" /\ n > 0 /\ input[n][s].from = n - 1 /\ input[n][s].of = s
        \/ input[n][s].kind = "token" /\ input[n][s].of = IF n = 0 THEN s - 1 ELSE s

\* A publication that returned 0 was taken by the next node: the producer does
\* not go on before its consumer has the step, however the notice got there.
ForwardedIsTaken ==
    \A n \in Nodes : \A s \in forwarded[n] : input[n + 1][s].kind = "range"

\* The KV state a node published in the step before is still there when it
\* runs the next one: recycling records never takes it.
PreviousKvKept ==
    \A n \in Nodes :
        (st[n].pc = "run" /\ step[n] > 0 /\ (n = 0 \/ input[n][step[n] - 1].kind = "range"))
            => Find(n, "kv", step[n] - 1) /= {}

\* Every node has done all its steps; when nothing fails it comes to this.
AllDone == \A n \in Nodes : st[n].pc = "done"

\* A notice that cannot be delivered is not an error of its publisher: the
\* record stands in for it.  With room for every object no call fails.
LostNoticeIsNoError == \A n \in Nodes : st[n].pc /= "failed"

=============================================================================
