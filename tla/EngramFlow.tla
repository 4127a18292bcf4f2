----------------------------- MODULE EngramFlow -----------------------------
(***************************************************************************)
(* How a cluster agrees on the token of a decode step with the engram      *)
(* objects (mem_service_qwen3_engram_publish_flow.c,                       *)
(* mem_service_qwen3_engram_wait_flow.c).  The terminal node publishes     *)
(* candidates; the owner waits for them, chooses a token and publishes     *)
(* three objects: the token selected, the history of all tokens, and a     *)
(* state that ties the two together.  The other nodes wait for each.       *)
(*                                                                         *)
(* An object is a record of the publisher's table, and a descriptor is     *)
(* pushed to every peer; a publisher waits for room in a ring.  Unlike in  *)
(* RangePipeline there is no acknowledgement, and a waiter never looks for *)
(* a remote record without its descriptor.  It takes the descriptor first  *)
(* and reads the record after; when the read does not succeed, the         *)
(* descriptor is gone.                                                     *)
(*                                                                         *)
(* The descriptors of a publication carry the publisher's observe_epoch,   *)
(* which counts everything it has published or observed, while a waiter    *)
(* expects the step's number plus one.  The place of an object in the pool *)
(* is never used again, so a place stands for its bytes and checksums.     *)
(* The application that calls these functions is external: a node calls    *)
(* them step by step in the order of Program.                              *)
(***************************************************************************)
EXTENDS Integers, FiniteSets, FiniteSetsExt, SequencesExt

CONSTANTS
    NodeCount,   \* rt->node_count
    Owner,       \* mem_service_qwen3_engram_owner_index
    Terminal,    \* the node that publishes the candidates
    Watchers,    \* the nodes that wait for the candidates
    Steps,       \* decode steps (bound)
    Offers,      \* the lists of candidate tokens the terminal may offer
    PackMax,     \* candidates that fit into the object, 4 in the code
    HistoryMax,  \* tokens a history holds, 1024 in the code
    ArenaUnits,  \* room of the payload arena, in objects
    QueueDepth,  \* MEM_SERVICE_CLUSTER_QUEUE_DEPTH
    StashDepth,  \* MEM_SERVICE_CLUSTER_PENDING_DESC_DEPTH
    Observed,    \* observe_epoch when decoding starts
    Barrier,     \* whether the application ends a step with a barrier
    MayFail,     \* whether a deadline may pass or a device may fail
    MayRetry     \* whether the application repeats a publication that failed

Nodes == 0 .. NodeCount - 1
Step == 0 .. Steps - 1
Kinds == {"candidates", "selected", "history", "state"}

\* What the constants must satisfy.
EngramAssumption ==
    /\ NodeCount \in Nat \ {0, 1} /\ Owner \in Nodes /\ Terminal \in Nodes
    /\ Owner \in Watchers /\ Watchers \subseteq Nodes
    /\ Steps \in Nat \ {0} /\ PackMax \in Nat \ {0} /\ HistoryMax \in Nat /\ ArenaUnits \in Nat
    /\ QueueDepth \in Nat \ {0} /\ StashDepth \in Nat /\ Observed \in Nat
    /\ \A c \in Offers : c /= <<>>
    /\ Barrier \in BOOLEAN /\ MayFail \in BOOLEAN /\ MayRetry \in BOOLEAN

VARIABLES
    st,       \* node -> where it is in its program, and what it works with
    step,     \* node -> its decode step
    queue,    \* from -> to -> the descriptors in the ring
    stash,    \* node -> peer -> pending_descs
    table,    \* node -> the records of its service, and its arena
    epoch,    \* node -> observe_epoch
    got,      \* node -> kind -> step -> the tokens a wait returned (<<>>: not yet)
    offered,  \* history: step -> the candidates the terminal was given
    decided   \* history: the tokens the owner chose, by step

vars == <<st, step, queue, stash, table, epoch, got, offered, decided>>

NoDesc == [kind |-> "none", epoch |-> 0, off |-> 0]
At(i, phase) == [at |-> i, phase |-> phase, src |-> 0, desc |-> NoDesc, todo |-> <<>>]

Init ==
    /\ st = [n \in Nodes |-> At(1, "call")]
    /\ step = [n \in Nodes |-> 0]
    /\ queue = [n \in Nodes |-> [m \in Nodes |-> <<>>]]
    /\ stash = [n \in Nodes |-> [m \in Nodes |-> <<>>]]
    /\ table = [n \in Nodes |-> [recs |-> {}, next |-> 0]]
    /\ epoch = [n \in Nodes |-> Observed]
    /\ got = [n \in Nodes |-> [k \in Kinds |-> [s \in Step |-> <<>>]]]
    /\ offered = [s \in Step |-> <<>>]
    /\ decided = <<>>

\* What a node calls in a step.
Program(n) ==
    (IF n = Terminal THEN <<"publish_candidates">> ELSE <<>>)
    \o (IF n \in Watchers THEN <<"candidates">> ELSE <<>>)
    \o <<"publish_step", "selected", "history", "state">>

Finished(n) == st[n].at > Len(Program(n))
Call(n) == IF Finished(n) THEN "none" ELSE Program(n)[st[n].at]
Returns(n) == st' = [st EXCEPT ![n] = At(st[n].at + 1, "call")]
Phase(n, p) == st[n].phase = p

-----------------------------------------------------------------------------
(* Publishing.                                                             *)

\* Only the history has one key for all steps.
Key(kind, s) == IF kind = "history" THEN 0 ELSE s

\* The object takes the next place of the arena; its record replaces one of
\* the same key, with the next version.
PutObject(t, kind, s, words) ==
    LET old == {r \in t.recs : r.kind = kind /\ r.key = Key(kind, s)}
        ver == 1 + Max({0} \cup {r.ver : r \in old})
    IN  [recs |-> (t.recs \ old)
                      \cup {[kind |-> kind, key |-> Key(kind, s), ver |-> ver, off |-> t.next, words |-> words]},
         next |-> t.next + 1]

Words(s, tokens) == [step |-> s, tokens |-> tokens]

\* Objects a call publishes; there must be room for them, and for the history's token.
Published(n) == IF Call(n) = "publish_step" THEN <<"history", "selected", "state">> ELSE <<"candidates">>
HasRoom(n) ==
    /\ table[n].next + Len(Published(n)) <= ArenaUnits
    /\ Call(n) = "publish_step" => step[n] + 1 <= HistoryMax

\* mem_service_pack_qwen3_engram_candidates: the first ones.
Packed(c) == SubSeq(c, 1, Min({PackMax, Len(c)}))

\* The table changes in place: until the sequence numbers agree again nobody can read it.
PublishCandidates(n) ==
    /\ Call(n) = "publish_candidates" /\ Phase(n, "call") /\ HasRoom(n)
    /\ \E c \in Offers :
         /\ offered[step[n]] \in {<<>>, c}
         /\ offered' = [offered EXCEPT ![step[n]] = c]
         /\ table' = [table EXCEPT ![n] = PutObject(@, "candidates", step[n], Words(step[n], Packed(c)))]
    /\ st' = [st EXCEPT ![n].phase = "write"]
    /\ UNCHANGED <<step, queue, stash, epoch, got, decided>>

\* The history the owner publishes: the tokens before and the one selected.
WithToken(s, tok) == SubSeq(decided, 1, s) \o <<tok>>

\* The state holds the length and checksum of the history and its last token.
StepObjects(t, s, tok) ==
    LET t1 == PutObject(t, "history", s, Words(s + 1, WithToken(s, tok)))
        t2 == PutObject(t1, "selected", s, Words(s, <<tok>>))
    IN  PutObject(t2, "state", s, Words(s, WithToken(s, tok)))

\* The owner chooses one of the candidates; when it repeats a publication, the same.
PublishStep(n) ==
    /\ Call(n) = "publish_step" /\ Phase(n, "call") /\ n = Owner /\ HasRoom(n)
    /\ \E tok \in ToSet(got[n]["candidates"][step[n]]) :
         /\ Len(decided) > step[n] => decided[step[n] + 1] = tok
         /\ decided' = WithToken(step[n], tok)
         /\ table' = [table EXCEPT ![n] = StepObjects(@, step[n], tok)]
    /\ st' = [st EXCEPT ![n].phase = "write"]
    /\ UNCHANGED <<step, queue, stash, epoch, got, offered>>

\* The call of any other node returns at once.
SkipStep(n) ==
    /\ Call(n) = "publish_step" /\ Phase(n, "call") /\ n /= Owner
    /\ Returns(n)
    /\ UNCHANGED <<step, queue, stash, table, epoch, got, offered, decided>>

\* The descriptors of a publication, kind after kind and for each kind peer after peer.
Descriptors(n, e) ==
    LET peers == SetToSortSeq(Nodes \ {n}, <)
        Desc(kind) == CHOOSE d \in {[kind |-> kind, epoch |-> e, off |-> r.off] :
                                       r \in {x \in table[n].recs : x.kind = kind /\ x.key = Key(kind, step[n])}} : TRUE
    IN  FlattenSeq([i \in DOMAIN Published(n) |-> [j \in DOMAIN peers |-> [to |-> peers[j], desc |-> Desc(Published(n)[i])]]])

\* The table can be read again; observe_epoch moves on.
EndWrite(n) ==
    /\ Phase(n, "write")
    /\ epoch' = [epoch EXCEPT ![n] = @ + 1]
    /\ st' = [st EXCEPT ![n].phase = "push", ![n].todo = Descriptors(n, epoch[n] + 1)]
    /\ UNCHANGED <<step, queue, stash, table, got, offered, decided>>

\* mem_service_push_obmm_object_descs: wait for room in the ring of each peer.
Push(n) ==
    /\ Phase(n, "push") /\ st[n].todo /= <<>>
    /\ LET p == Head(st[n].todo)
       IN  /\ Len(queue[n][p.to]) < QueueDepth
           /\ queue' = [queue EXCEPT ![n][p.to] = Append(@, p.desc)]
    /\ st' = [st EXCEPT ![n].todo = Tail(@)]
    /\ UNCHANGED <<step, stash, table, epoch, got, offered, decided>>

PublishReturns(n) ==
    /\ Phase(n, "push") /\ st[n].todo = <<>>
    /\ Returns(n)
    /\ UNCHANGED <<step, queue, stash, table, epoch, got, offered, decided>>

\* No room in the arena, in the history or in the table; a device that fails
\* before or after the table is written; a ring that stays full.
PublishFails(n) ==
    /\ \/ /\ Phase(n, "call") /\ Call(n) \in {"publish_candidates", "publish_step"}
          /\ Call(n) = "publish_step" => n = Owner
          /\ MayFail \/ ~HasRoom(n)
       \/ Phase(n, "write") /\ MayFail
       \/ /\ Phase(n, "push") /\ st[n].todo /= <<>> /\ MayFail
          /\ Len(queue[n][Head(st[n].todo).to]) = QueueDepth
    /\ st' = [st EXCEPT ![n] = At(st[n].at, "failed")]
    /\ UNCHANGED <<step, queue, stash, table, epoch, got, offered, decided>>

\* The application calls again.
Retry(n) ==
    /\ MayRetry /\ Phase(n, "failed") /\ Call(n) \in {"publish_candidates", "publish_step"}
    /\ st' = [st EXCEPT ![n] = At(st[n].at, "call")]
    /\ UNCHANGED <<step, queue, stash, table, epoch, got, offered, decided>>

-----------------------------------------------------------------------------
(* Waiting.                                                                *)

Waits(n) == Call(n) \in Kinds /\ Phase(n, "call")
Sources(n) == IF Call(n) = "candidates" THEN Nodes ELSE {Owner}

\* Candidates are looked for by their kind, the others by their epoch as well.
Matches(n, d) == d.kind = Call(n) /\ (d.kind /= "candidates" => d.epoch = step[n] + 1)

InStash(n, o) == LET Test(d) == Matches(n, d) IN SelectInSeq(stash[n][o], Test)

TakeStashed(n, o) ==
    /\ Waits(n) /\ o \in Sources(n) \ {n} /\ InStash(n, o) > 0
    /\ st' = [st EXCEPT ![n].phase = "resolve", ![n].src = o, ![n].desc = stash[n][o][InStash(n, o)]]
    /\ stash' = [stash EXCEPT ![n][o] = RemoveAt(@, InStash(n, o))]
    /\ UNCHANGED <<step, queue, table, epoch, got, offered, decided>>

\* A descriptor that finds the stash full is dropped.
Stashed(s, d) == IF Len(s) >= StashDepth THEN s ELSE Append(s, d)

PopDescriptor(n, o) ==
    /\ Waits(n) /\ o \in Sources(n) \ {n} /\ InStash(n, o) = 0 /\ queue[o][n] /= <<>>
    /\ queue' = [queue EXCEPT ![o][n] = Tail(@)]
    /\ LET d == Head(queue[o][n])
       IN  IF Matches(n, d)
           THEN /\ st' = [st EXCEPT ![n].phase = "resolve", ![n].src = o, ![n].desc = d]
                /\ UNCHANGED stash
           ELSE stash' = [stash EXCEPT ![n][o] = Stashed(@, d)] /\ UNCHANGED st
    /\ UNCHANGED <<step, table, epoch, got, offered, decided>>

Readable(o) == ~Phase(o, "write")
ByBacking(o, d) == {r \in table[o].recs : Readable(o) /\ r.kind = d.kind /\ r.off = d.off}
ByKey(o, kind, s) == {r \in table[o].recs : Readable(o) /\ r.kind = kind /\ r.key = Key(kind, s)}

AcceptsCandidates(n, r) == r.ver = 1 /\ r.words.step = step[n]

\* The version of the record does not matter here.
AcceptsSelected(n, r) == r.words.step = step[n]

\* The version, and the words of the object.
AcceptsHistory(n, r) == r.ver = step[n] + 1 /\ r.words.step = step[n] + 1

\* The state must belong to the history and the token the node has taken.
AcceptsState(n, r) ==
    /\ r.ver = 1 /\ r.words.step = step[n]
    /\ r.words.tokens = got[n]["history"][step[n]]
    /\ <<Last(r.words.tokens)>> = got[n]["selected"][step[n]]

\* The checks of a wait on the record and on the words of its object.
Accepts(n, r) ==
    \/ r.kind = "candidates" /\ AcceptsCandidates(n, r)
    \/ r.kind = "selected" /\ AcceptsSelected(n, r)
    \/ r.kind = "history" /\ AcceptsHistory(n, r)
    \/ r.kind = "state" /\ AcceptsState(n, r)

Takes(n, r) == got' = [got EXCEPT ![n][r.kind][step[n]] = r.words.tokens] /\ Returns(n)

\* A local object is found by its key.
FindLocal(n) ==
    /\ Waits(n) /\ n \in Sources(n)
    /\ \E r \in ByKey(n, Call(n), step[n]) : Accepts(n, r) /\ Takes(n, r)
    /\ UNCHANGED <<step, queue, stash, table, epoch, offered, decided>>

\* The record of a descriptor, which is gone when the record is not as expected.
Resolve(n) ==
    LET fit == {r \in ByBacking(st[n].src, st[n].desc) : Accepts(n, r)}
    IN  /\ Phase(n, "resolve")
        /\ IF fit = {} THEN st' = [st EXCEPT ![n] = At(st[n].at, "call")] /\ UNCHANGED got
           ELSE \E r \in fit : Takes(n, r)
        /\ UNCHANGED <<step, queue, stash, table, epoch, offered, decided>>

WaitTimesOut(n) ==
    /\ MayFail /\ Waits(n)
    /\ st' = [st EXCEPT ![n] = At(st[n].at, "failed")]
    /\ UNCHANGED <<step, queue, stash, table, epoch, got, offered, decided>>

\* The application goes on to the next step.
NextStep(n) ==
    /\ Finished(n) /\ step[n] + 1 < Steps
    /\ Barrier => \A m \in Nodes : step[m] > step[n] \/ (step[m] = step[n] /\ Finished(m))
    /\ step' = [step EXCEPT ![n] = @ + 1]
    /\ st' = [st EXCEPT ![n] = At(1, "call")]
    /\ UNCHANGED <<queue, stash, table, epoch, got, offered, decided>>

NodeStep(n) ==
    \/ PublishCandidates(n) \/ PublishStep(n) \/ SkipStep(n) \/ EndWrite(n) \/ Push(n)
    \/ PublishReturns(n) \/ FindLocal(n) \/ Resolve(n) \/ NextStep(n)
    \/ \E o \in Nodes : TakeStashed(n, o) \/ PopDescriptor(n, o)

Next ==
    \E n \in Nodes : NodeStep(n) \/ PublishFails(n) \/ Retry(n) \/ WaitTimesOut(n)

Spec == Init /\ [][Next]_vars

-----------------------------------------------------------------------------
Descriptor == [kind : Kinds, epoch : Nat, off : Nat]

\* The rings and stashes stay within their depths, and a node that is not
\* publishing has no descriptors left to push.
TypeOK ==
    /\ \A n \in Nodes : /\ step[n] \in Step /\ epoch[n] \in Nat
                        /\ st[n].at \in 1 .. 7
                        /\ st[n].phase \in {"call", "write", "push", "resolve", "failed"}
                        /\ Phase(n, "resolve") => st[n].desc \in Descriptor
                        /\ ~Phase(n, "push") => st[n].todo = <<>>
    /\ \A n, m \in Nodes :
         /\ Len(queue[n][m]) <= QueueDepth /\ \A i \in DOMAIN queue[n][m] : queue[n][m][i] \in Descriptor
         /\ Len(stash[n][m]) <= StashDepth /\ \A i \in DOMAIN stash[n][m] : stash[n][m][i] \in Descriptor

\* Whatever a wait returns for a step is what was published for that step: the
\* first candidates the terminal was given, the token the owner chose, the
\* history of all tokens up to it.  Late descriptors, epochs that are out of
\* step, repeated publications and records that have moved on never mix two steps.
ResultOfStep ==
    \A n \in Nodes, s \in Step :
        /\ got[n]["candidates"][s] \in {<<>>, Packed(offered[s])}
        /\ got[n]["selected"][s] /= <<>> =>
             /\ Len(decided) > s
             /\ got[n]["selected"][s] = <<decided[s + 1]>>
        /\ \A k \in {"history", "state"} :
             got[n][k][s] /= <<>> => got[n][k][s] = SubSeq(decided, 1, s + 1)

\* The version of the history counts its publications and its first word the
\* steps; a waiter wants both to be the step plus one.  They agree as long as
\* no publication is repeated.
HistoryVersionIsStep ==
    \A r \in table[Owner].recs : r.kind = "history" => r.ver = r.words.step

\* The history only grows: what the owner's table shows extends what any
\* node has ever taken.
HistoryExtends ==
    \A r \in table[Owner].recs : r.kind = "history" =>
        \A n \in Nodes, s \in Step : IsPrefix(got[n]["history"][s], r.words.tokens)

\* Every node is through all steps; it comes to this with a barrier after each
\* step, epochs that count only the steps and no failures.
AllDone == \A n \in Nodes : Finished(n) /\ step[n] = Steps - 1
=============================================================================
