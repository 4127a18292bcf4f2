----------------------------- MODULE SpmcStream -----------------------------
(***************************************************************************)
(* The broadcast stream of libs/obmm_queue (obmm_spmc_queue.h): one        *)
(* provider node publishes descriptors into a ring, every consumer node    *)
(* reads all of them through a cursor of its own, and the provider takes   *)
(* back the payloads that every active consumer has passed.                *)
(*                                                                         *)
(* The nodes run concurrently on shared memory, so obmm_spmc_publish,      *)
(* obmm_spmc_consume and the scan of the cursors are modelled step by      *)
(* step; the copy of a descriptor is taken in two halves.  Publishing,     *)
(* reclaiming and resetting are all done by the provider, one at a time.   *)
(* A descriptor is the number of its publication; the payload of the n-th  *)
(* publication ends at offset n of the TX arena.                           *)
(***************************************************************************)
EXTENDS Integers, Sequences, FiniteSets
LOCAL INSTANCE FiniteSetsExt

CONSTANTS
    Consumers,        \* node ids the stream has cursors for
    Depth,            \* s->depth
    MaxPublish,       \* bound: publications
    MaxReset,         \* bound: resets
    MayPause          \* whether a consumer may be set aside (state PAUSED)

\* What the constants must satisfy.
ASSUME DepthAssumption ==
    /\ Depth \in Nat \ {0} /\ MaxPublish \in Nat /\ MaxReset \in Nat
    /\ Consumers \subseteq Nat /\ IsFiniteSet(Consumers) /\ MayPause \in BOOLEAN

VARIABLES
    mask,       \* s->active_consumer_mask
    streamTail, \* s->tail
    ring,       \* the descriptors, each in two halves
    cursor,     \* node -> its cursor: head, state, drop_count
    gen,        \* s->generation
    prov,       \* the provider's call in progress
    readers,    \* node -> the consume call in progress
    reclaimed,  \* the caller's obmm_spmc_tx_reclaim_state
    published,  \* history: the descriptors of this generation, in order
    read        \* history: node -> what its consume calls have returned

streamVars == <<mask, streamTail, ring, cursor, gen, prov, readers, reclaimed, published, read>>
consumerVars == <<cursor, readers, read>>

NoDesc == 0
DescHalves == 0 .. MaxPublish
Idle == [pc |-> "idle", left |-> {}, min |-> 0, rc |-> "none", n |-> 0]
CIdle == [pc |-> "idle", head |-> 0, lo |-> NoDesc, hi |-> NoDesc, rc |-> "none"]
FreshCursor == [head |-> 0, state |-> "active", drops |-> 0]
EmptyRing == [i \in 0 .. Depth - 1 |-> [lo |-> NoDesc, hi |-> NoDesc]]

\* obmm_spmc_stream_init with every consumer in the mask, and the view on it.
StreamInit ==
    /\ mask = Consumers /\ streamTail = 0 /\ ring = EmptyRing /\ gen = 1
    /\ cursor = [c \in Consumers |-> FreshCursor]
    /\ prov = Idle
    /\ readers = [c \in Consumers |-> CIdle]
    /\ reclaimed = [to |-> 0, off |-> 0]
    /\ published = <<>> /\ read = [c \in Consumers |-> <<>>]

-----------------------------------------------------------------------------
(* The provider.                                                           *)

Return(rc) == prov' = [prov EXCEPT !.pc = "idle", !.rc = rc, !.left = {}]

\* The loads that open obmm_spmc_publish and obmm_spmc_reclaimable_head.
Begin(pc, left) ==
    prov' = [prov EXCEPT !.pc = pc, !.left = left, !.min = streamTail]

PublishStart ==
    /\ prov.pc = "idle" /\ prov.n < MaxPublish
    /\ IF mask = {} THEN Return("ENODEV") ELSE Begin("publish", mask)
    /\ UNCHANGED <<mask, streamTail, ring, gen, reclaimed, published, consumerVars>>

\* The loops over the mask take the lowest node first.
IsFirst(c) == \A d \in prov.left : c <= d

\* One turn of such a loop.
Scanned(c) ==
    [prov EXCEPT !.left = @ \ {c}, !.min = IF cursor[c].head < @ THEN cursor[c].head ELSE @]

PublishScan ==
    /\ prov.pc = "publish"
    /\ \E c \in prov.left :
          /\ IsFirst(c)
          /\ IF cursor[c].state = "active" THEN prov' = Scanned(c) ELSE Return("EPIPE")
    /\ UNCHANGED <<mask, streamTail, ring, gen, reclaimed, published, consumerVars>>

\* Mutant: the ring is taken for full one descriptor too late.
StreamFullLate == streamTail - prov.min > Depth

StreamFull == streamTail - prov.min >= Depth

\* The end of the scan: no room, a payload outside its region, or the first
\* half of the copy into the ring.
PublishCopy(payloadOk) ==
    /\ prov.pc = "publish" /\ prov.left = {}
    /\ \/ StreamFull /\ Return("EAGAIN") /\ UNCHANGED ring
       \/ ~StreamFull /\ ~payloadOk /\ Return("EINVAL") /\ UNCHANGED ring
       \/ /\ ~StreamFull /\ payloadOk
          /\ ring' = [ring EXCEPT ![streamTail % Depth].lo = prov.n + 1]
          /\ prov' = [prov EXCEPT !.pc = "copy"]
    /\ UNCHANGED <<mask, streamTail, gen, reclaimed, published, consumerVars>>

PublishCopied ==
    /\ prov.pc = "copy"
    /\ ring' = [ring EXCEPT ![streamTail % Depth].hi = prov.n + 1]
    /\ prov' = [prov EXCEPT !.pc = "tail"]
    /\ UNCHANGED <<mask, streamTail, gen, reclaimed, published, consumerVars>>

PublishTail ==
    /\ prov.pc = "tail"
    /\ streamTail' = streamTail + 1
    /\ published' = Append(published, prov.n + 1)
    /\ prov' = [prov EXCEPT !.pc = "idle", !.rc = "ok", !.n = @ + 1]
    /\ UNCHANGED <<mask, ring, gen, reclaimed, consumerVars>>

ReclaimStart ==
    /\ prov.pc = "idle"
    /\ Begin("reclaim", mask)
    /\ UNCHANGED <<mask, streamTail, ring, gen, reclaimed, published, consumerVars>>

ReclaimScan ==
    /\ prov.pc = "reclaim"
    /\ \E c \in prov.left :
          /\ IsFirst(c)
          /\ prov' = IF cursor[c].state = "active" THEN Scanned(c)
                     ELSE [prov EXCEPT !.left = @ \ {c}]
    /\ UNCHANGED <<mask, streamTail, ring, gen, reclaimed, published, consumerVars>>

\* The loop of obmm_spmc_reclaim_payloads: what the ring holds, now, in the
\* slots of the descriptors it gives up.
Reclaim ==
    /\ prov.pc = "reclaim" /\ prov.left = {}
    /\ LET slots == {n % Depth : n \in reclaimed.to .. prov.min - 1}
       IN  reclaimed' = [to |-> IF prov.min > reclaimed.to THEN prov.min ELSE reclaimed.to,
                         off |-> Max({reclaimed.off} \cup {ring[i].lo : i \in slots})]
    /\ Return("ok")
    /\ UNCHANGED <<mask, streamTail, ring, gen, published, consumerVars>>

\* obmm_spmc_stream_reset, called while no consume is in progress; the caller
\* starts over with its reclaim state.
Reset(m) ==
    /\ prov.pc = "idle" /\ gen <= MaxReset
    /\ \A c \in Consumers : readers[c].pc = "idle"
    /\ mask' = m /\ streamTail' = 0 /\ ring' = EmptyRing /\ gen' = gen + 1
    /\ cursor' = [c \in Consumers |->
                    IF c \in m THEN FreshCursor ELSE [FreshCursor EXCEPT !.state = "detached"]]
    /\ reclaimed' = [to |-> 0, off |-> 0]
    /\ published' = <<>> /\ read' = [c \in Consumers |-> <<>>]
    /\ prov' = [prov EXCEPT !.rc = "ok"]
    /\ UNCHANGED readers

-----------------------------------------------------------------------------
(* A consumer.                                                             *)

CReturn(c, rc) == readers' = [readers EXCEPT ![c].pc = "idle", ![c].rc = rc]

\* Mutant: the newest descriptor is taken for not yet published.
ConsumeStartLate(c) ==
    /\ readers[c].pc = "idle" /\ cursor[c].state = "active"
    /\ IF streamTail - cursor[c].head <= 1 THEN CReturn(c, "EAGAIN")
       ELSE readers' = [readers EXCEPT ![c].pc = "lo", ![c].head = cursor[c].head]
    /\ UNCHANGED <<mask, streamTail, ring, gen, prov, reclaimed, published, cursor, read>>

ConsumeStart(c) ==
    /\ readers[c].pc = "idle"
    /\ \/ /\ cursor[c].state # "active"
          /\ CReturn(c, "ENODEV") /\ UNCHANGED cursor
       \/ /\ cursor[c].state = "active" /\ cursor[c].head = streamTail
          /\ CReturn(c, "EAGAIN") /\ UNCHANGED cursor
       \/ /\ cursor[c].state = "active" /\ cursor[c].head # streamTail
          /\ IF streamTail - cursor[c].head > Depth
             THEN /\ cursor' = [cursor EXCEPT ![c].drops = @ + 1, ![c].state = "paused"]
                  /\ CReturn(c, "EOVERFLOW")
             ELSE /\ readers' = [readers EXCEPT ![c].pc = "lo", ![c].head = cursor[c].head]
                  /\ UNCHANGED cursor
    /\ UNCHANGED <<mask, streamTail, ring, gen, prov, reclaimed, published, read>>

ConsumeLo(c) ==
    /\ readers[c].pc = "lo"
    /\ readers' = [readers EXCEPT ![c].pc = "hi", ![c].lo = ring[readers[c].head % Depth].lo]
    /\ UNCHANGED <<mask, streamTail, ring, gen, prov, reclaimed, published, cursor, read>>

ConsumeHi(c) ==
    /\ readers[c].pc = "hi"
    /\ readers' = [readers EXCEPT ![c].pc = "head", ![c].hi = ring[readers[c].head % Depth].hi]
    /\ UNCHANGED <<mask, streamTail, ring, gen, prov, reclaimed, published, cursor, read>>

ConsumeHead(c) ==
    /\ readers[c].pc = "head"
    /\ cursor' = [cursor EXCEPT ![c].head = readers[c].head + 1]
    /\ read' = [read EXCEPT ![c] = Append(@, <<readers[c].lo, readers[c].hi>>)]
    /\ CReturn(c, "ok")
    /\ UNCHANGED <<mask, streamTail, ring, gen, prov, reclaimed, published>>

\* A consumer node is set aside: its cursor is marked PAUSED.
Pause(c) ==
    /\ MayPause /\ readers[c].pc = "idle" /\ cursor[c].state = "active"
    /\ cursor' = [cursor EXCEPT ![c].state = "paused"]
    /\ UNCHANGED <<mask, streamTail, ring, gen, prov, readers, reclaimed, published, read>>

Publish ==
    \/ PublishStart \/ PublishScan \/ PublishCopied \/ PublishTail
    \/ \E ok \in BOOLEAN : PublishCopy(ok)
Reclaims == ReclaimStart \/ ReclaimScan \/ Reclaim
Consume(c) == ConsumeStart(c) \/ ConsumeLo(c) \/ ConsumeHi(c) \/ ConsumeHead(c)

StreamNext ==
    \/ Publish \/ Reclaims
    \/ \E m \in SUBSET Consumers : Reset(m)
    \/ \E c \in Consumers : Consume(c) \/ Pause(c)

StreamSpec == StreamInit /\ [][StreamNext]_streamVars

-----------------------------------------------------------------------------

StreamTypes ==
    /\ mask \subseteq Consumers /\ streamTail \in 0 .. MaxPublish
    /\ ring \in [0 .. Depth - 1 -> [lo : DescHalves, hi : DescHalves]]
    /\ cursor \in [Consumers -> [head : 0 .. MaxPublish, drops : 0 .. MaxPublish,
                                 state : {"active", "paused", "detached"}]]
    /\ gen \in 1 .. MaxReset + 1
    /\ prov \in [pc : {"idle", "publish", "copy", "tail", "reclaim"}, n : 0 .. MaxPublish,
                 left : SUBSET Consumers, min : 0 .. MaxPublish,
                 rc : {"none", "ok", "ENODEV", "EPIPE", "EAGAIN", "EINVAL"}]
    /\ readers \in [Consumers -> [pc : {"idle", "lo", "hi", "head"}, head : 0 .. MaxPublish,
                               lo : DescHalves, hi : DescHalves,
                               rc : {"none", "ok", "ENODEV", "EAGAIN", "EOVERFLOW"}]]
    /\ reclaimed \in [to : 0 .. MaxPublish, off : DescHalves]

\* Every consumer receives the stream from its start, in order, without a gap, a
\* repetition or a torn descriptor, however far the others are behind or ahead.
SeesTheStream ==
    \A c \in Consumers : \A i \in 1 .. Len(read[c]) :
        i <= Len(published) /\ read[c][i] = <<published[i], published[i]>>

\* The descriptors given up for reclaiming are behind every active consumer, even
\* though the scan reads the cursors one after another while they move.
ReclaimBehindReaders ==
    \A c \in mask : cursor[c].state = "active" => reclaimed.to <= cursor[c].head

\* No consumer is ever overrun: a publish refuses (-EAGAIN) before it would
\* overwrite a descriptor a consumer of the mask has not read, so that none is
\* dropped, each consumer reads the stream whole, and nothing it has yet to read
\* is reclaimed.
NeverOverrun ==
    /\ \A c \in Consumers :
          cursor[c].drops = 0 /\ (c \in mask => streamTail - cursor[c].head <= Depth)
    /\ SeesTheStream /\ ReclaimBehindReaders

\* Everything published is delivered to every consumer that stays active.
AllRead ==
    \A n \in 1 .. MaxPublish : \A c \in Consumers :
        (Len(published) >= n) ~> (Len(read[c]) >= n \/ cursor[c].state # "active")
=============================================================================
