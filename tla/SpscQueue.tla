----------------------------- MODULE SpscQueue -----------------------------
(***************************************************************************)
(* The single-producer single-consumer ring of libs/obmm_queue             *)
(* (obmm_spsc_queue.h) that the OBMM nodes pass descriptors through.       *)
(*                                                                         *)
(* Producer and consumer run on different nodes, so obmm_spsc_push and     *)
(* obmm_spsc_pop are modelled step by step: the loads of head and tail,    *)
(* the copy of the 32-byte descriptor, which is not atomic and is taken in *)
(* two halves, and the store of the counter.  The release stores of tail   *)
(* and head and the acquire loads on the other side order the copy, so the *)
(* steps interleave as in a sequentially consistent execution.             *)
(*                                                                         *)
(* The counters are uint32_t and wrap at 2^32 (Modulus); the ring has a    *)
(* power-of-two number of slots (Size), so that Size divides the modulus.  *)
(***************************************************************************)
EXTENDS Integers, Sequences

CONSTANTS
    Values,    \* the descriptors that may be pushed
    Size,      \* q->size, a power of two
    Rounds     \* how often the ring is passed before the counters wrap

ASSUME SizeAssumption == Size \in Nat \ {0} /\ Rounds \in Nat /\ Rounds > 1

\* 2^32: a multiple of the ring's size.
Modulus == Rounds * Size

VARIABLES
    head,    \* q->head, written by the consumer
    tail,    \* q->tail, written by the producer
    slots,   \* q->desc, each a descriptor in two halves
    prod,    \* the push in progress: its locals and its last return value
    cons     \* the pop in progress

vars == <<head, tail, slots, prod, cons>>

Counter == 0 .. Modulus - 1
Halves == Values \cup {"none"}
Plus1(c) == (c + 1) % Modulus
Dist(h, t) == (t - h) % Modulus
Slot(c) == c % Size

\* obmm_spsc_queue_init.
Init ==
    /\ head = 0 /\ tail = 0
    /\ slots = [i \in 0 .. Size - 1 |-> [lo |-> "none", hi |-> "none"]]
    /\ prod = [pc |-> "idle", tail |-> 0, head |-> 0, val |-> "none", rc |-> "none"]
    /\ cons = [pc |-> "idle", head |-> 0, tail |-> 0, lo |-> "none", hi |-> "none",
               out |-> [lo |-> "none", hi |-> "none"], rc |-> "none"]

\* Mutant: the ring is taken for full one slot too late.
FullLate(h, t) == Dist(h, t) = Size + 1

Full(h, t) == Dist(h, t) = Size

\* obmm_spsc_push, step by step.
PushLoad(v) ==
    /\ prod.pc = "idle"
    /\ prod' = IF Full(head, tail)
               THEN [prod EXCEPT !.rc = "again"]
               ELSE [prod EXCEPT !.pc = "lo", !.tail = tail, !.head = head, !.val = v]
    /\ UNCHANGED <<head, tail, slots, cons>>

PushLo ==
    /\ prod.pc = "lo"
    /\ slots' = [slots EXCEPT ![Slot(prod.tail)] = [@ EXCEPT !.lo = prod.val]]
    /\ prod' = [prod EXCEPT !.pc = "hi"]
    /\ UNCHANGED <<head, tail, cons>>

PushHi ==
    /\ prod.pc = "hi"
    /\ slots' = [slots EXCEPT ![Slot(prod.tail)] = [@ EXCEPT !.hi = prod.val]]
    /\ prod' = [prod EXCEPT !.pc = "publish"]
    /\ UNCHANGED <<head, tail, cons>>

PushPublish ==
    /\ prod.pc = "publish"
    /\ tail' = Plus1(prod.tail)
    /\ prod' = [prod EXCEPT !.pc = "idle", !.rc = "ok"]
    /\ UNCHANGED <<head, slots, cons>>

\* obmm_spsc_pop, step by step.
PopLoad ==
    /\ cons.pc = "idle"
    /\ cons' = IF head = tail
               THEN [cons EXCEPT !.rc = "again"]
               ELSE [cons EXCEPT !.pc = "lo", !.head = head, !.tail = tail]
    /\ UNCHANGED <<head, tail, slots, prod>>

PopLo ==
    /\ cons.pc = "lo"
    /\ cons' = [cons EXCEPT !.pc = "hi", !.lo = slots[Slot(cons.head)].lo]
    /\ UNCHANGED <<head, tail, slots, prod>>

PopHi ==
    /\ cons.pc = "hi"
    /\ cons' = [cons EXCEPT !.pc = "publish", !.hi = slots[Slot(cons.head)].hi]
    /\ UNCHANGED <<head, tail, slots, prod>>

PopPublish ==
    /\ cons.pc = "publish"
    /\ head' = Plus1(cons.head)
    /\ cons' = [cons EXCEPT !.pc = "idle", !.rc = "ok",
                            !.out = [lo |-> cons.lo, hi |-> cons.hi]]
    /\ UNCHANGED <<tail, slots, prod>>

Push == (\E v \in Values : PushLoad(v)) \/ PushLo \/ PushHi \/ PushPublish
Pop == PopLoad \/ PopLo \/ PopHi \/ PopPublish

Next == Push \/ Pop

Spec == Init /\ [][Next]_vars

-----------------------------------------------------------------------------

TypeOK ==
    /\ head \in Counter /\ tail \in Counter
    /\ slots \in [0 .. Size - 1 -> [lo : Halves, hi : Halves]]
    /\ prod \in [pc : {"idle", "lo", "hi", "publish"}, tail : Counter,
                 head : Counter, val : Halves, rc : {"none", "ok", "again"}]
    /\ cons \in [pc : {"idle", "lo", "hi", "publish"}, head : Counter,
                 tail : Counter, lo : Halves, hi : Halves,
                 out : [lo : Halves, hi : Halves], rc : {"none", "ok", "again"}]

\* The descriptor a pop delivers; one whose halves come from two different
\* pushes is none of the pushed values.
Torn == "torn"
Delivered(d) == IF d.lo = d.hi THEN d.lo ELSE Torn

\* The descriptors in the ring, oldest first.
Contents ==
    [i \in 1 .. Dist(head, tail) |-> Delivered(slots[Slot(head + i - 1)])]

Fifo == INSTANCE BoundedFifo
        WITH Capacity <- Size, queue <- Contents, prc <- prod.rc, crc <- cons.rc,
             out <- Delivered(cons.out)

\* The ring is a bounded FIFO: whatever the interleaving of the two nodes, and
\* also when the counters wrap, a push or pop takes effect in one step, no
\* descriptor is lost, repeated, reordered or torn, and -EAGAIN is returned only
\* when the ring really is full (to a push) or empty (to a pop).
IsFifo == Fifo!Spec
=============================================================================
