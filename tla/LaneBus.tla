------------------------------ MODULE LaneBus ------------------------------
(***************************************************************************)
(* The many-producer queues of libs/obmm_queue: the lane set of            *)
(* obmm_mpsc_queue.h and the bus of obmm_mpmc_queue.h on top of it.  Each  *)
(* publisher pushes into a ring of its own (its lane), and the consumer    *)
(* polls the lanes in turn.  Both sides find the lanes in the pool's       *)
(* region directory.                                                       *)
(*                                                                         *)
(* A lane is the bounded FIFO that SpscQueue is shown to implement.  A     *)
(* poll tries one lane per step, so that publishers push while it scans.   *)
(* Buses of different consumers share nothing; this is one of them.        *)
(***************************************************************************)
EXTENDS Integers, Sequences, FiniteSets, SequencesExt

CONSTANTS
    Directories,   \* the region directories to consider
    Publishers,    \* node ids of the publishers
    MaxLanes,      \* OBMM_MPSC_MAX_LANES
    Capacity,      \* depth of a lane
    MaxSend        \* bound: descriptors per publisher

\* What the constants must satisfy.
LaneAssumption ==
    /\ Publishers \subseteq Nat /\ MaxLanes \in Nat \ {0}
    /\ Capacity \in Nat \ {0} /\ MaxSend \in Nat
    /\ \A d \in Directories : \A i \in DOMAIN d :
          d[i].kind \in {"queue", "arena"} /\ d[i].peer \in Publishers

VARIABLES
    dir,      \* the directory, fixed when the pool is set up
    rx,       \* the consumer set: lanes in order, next_lane, rx_seq, init result
    tx,       \* publisher -> "none", or its lane initialised ("valid"), or refused
    queue,    \* publisher -> the descriptors in its lane
    sent,     \* publisher -> descriptors pushed
    poll,     \* the poll in progress: lanes tried so far, or -1
    got,      \* history: what recv has returned: <<publisher, descriptor>>
    passed    \* history: publisher -> receives from others while its lane waited

vars == <<dir, rx, tx, queue, sent, poll, got, passed>>

QueueEntries(d, n) == {i \in DOMAIN d : i <= n /\ d[i].kind = "queue"}
Peers(d, I) == {d[i].peer : i \in I}

\* obmm_mpsc_consumer_set_init_from_directory: only the first MaxLanes entries
\* of the directory are scanned for lanes.
ConsumerSet(d) ==
    LET scanned == QueueEntries(d, MaxLanes)
        beyond == QueueEntries(d, Len(d)) \ scanned
        rc == CASE Cardinality(Peers(d, scanned)) < Cardinality(scanned) -> "EEXIST"
                [] beyond # {} /\ Cardinality(scanned) >= MaxLanes -> "E2BIG"
                [] scanned = {} -> "ENOENT"
                [] OTHER -> "ok"
    IN  [rc |-> rc,
         lanes |-> IF rc = "ok" THEN SetToSortSeq(Peers(d, scanned), <) ELSE <<>>,
         next |-> 0, seq |-> 0]

\* obmm_mpsc_publisher_lane_init_from_directory: the whole directory is searched.
PublisherLane(d, p) ==
    LET mine == {i \in QueueEntries(d, Len(d)) : d[i].peer = p}
    IN  CASE Cardinality(mine) > 1 -> "EEXIST"
          [] mine = {} -> "ENOENT"
          [] OTHER -> "valid"

Init ==
    /\ dir \in Directories
    /\ rx = ConsumerSet(dir)
    /\ tx = [p \in Publishers |-> "none"]
    /\ queue = [p \in Publishers |-> <<>>]
    /\ sent = [p \in Publishers |-> 0]
    /\ poll = -1
    /\ got = <<>>
    /\ passed = [p \in Publishers |-> 0]

\* obmm_mpmc_publisher_init; a failed attempt may be repeated.
PublisherInit(p) ==
    /\ tx[p] # "valid"
    /\ tx' = [tx EXCEPT ![p] = PublisherLane(dir, p)]
    /\ UNCHANGED <<dir, rx, queue, sent, poll, got, passed>>

\* obmm_mpmc_send to this bus's consumer: a full lane refuses with -EAGAIN.
Send(p) ==
    /\ tx[p] = "valid" /\ sent[p] < MaxSend /\ Len(queue[p]) < Capacity
    /\ queue' = [queue EXCEPT ![p] = Append(@, sent[p] + 1)]
    /\ sent' = [sent EXCEPT ![p] = @ + 1]
    /\ UNCHANGED <<dir, rx, tx, poll, got, passed>>

PollStart ==
    /\ rx.rc = "ok" /\ poll = -1
    /\ poll' = 0
    /\ UNCHANGED <<dir, rx, tx, queue, sent, got, passed>>

\* The lane the poll is at, and the one after it.
AtLane == (rx.next + poll) % Len(rx.lanes)

\* Mutant: the scan starts again at the lane just served.
AfterLaneSame == AtLane

AfterLane == (AtLane + 1) % Len(rx.lanes)

\* One turn of obmm_mpsc_poll's loop: pop the lane, or go on to the next.
PollLane ==
    /\ poll >= 0 /\ poll < Len(rx.lanes)
    /\ LET p == rx.lanes[AtLane + 1]
       IN  IF queue[p] = <<>>
           THEN poll' = poll + 1 /\ UNCHANGED <<rx, queue, got, passed>>
           ELSE /\ queue' = [queue EXCEPT ![p] = Tail(@)]
                /\ got' = Append(got, <<p, Head(queue[p])>>)
                /\ rx' = [rx EXCEPT !.next = AfterLane, !.seq = @ + 1]
                /\ passed' = [o \in Publishers |->
                                IF o = p \/ queue[o] = <<>> THEN 0 ELSE passed[o] + 1]
                /\ poll' = -1
    /\ UNCHANGED <<dir, tx, sent>>

\* Every lane was empty when the poll came to it: -EAGAIN.
PollEmpty ==
    /\ poll >= 0 /\ poll = Len(rx.lanes)
    /\ poll' = -1
    /\ UNCHANGED <<dir, rx, tx, queue, sent, got, passed>>

Poll == PollStart \/ PollLane \/ PollEmpty

Next == Poll \/ (\E p \in Publishers : PublisherInit(p) \/ Send(p))

Spec == Init /\ [][Next]_vars

-----------------------------------------------------------------------------

TypeOK ==
    /\ dir \in Directories
    /\ rx.rc \in {"ok", "EEXIST", "E2BIG", "ENOENT"}
    /\ \A i \in 1 .. Len(rx.lanes) : rx.lanes[i] \in Publishers
    /\ rx.lanes # <<>> => rx.next \in 0 .. Len(rx.lanes) - 1
    /\ tx \in [Publishers -> {"none", "valid", "EEXIST", "ENOENT"}]
    /\ \A p \in Publishers : Len(queue[p]) <= Capacity
    /\ sent \in [Publishers -> 0 .. MaxSend]
    /\ poll \in -1 .. MaxLanes
    /\ rx.seq = Len(got)

\* A waiting lane is passed over by fewer receives than there are lanes, also when
\* it filled just after the scan of the poll in progress went past it.
BoundedBypass == \A p \in Publishers : passed[p] = 0 \/ passed[p] < Len(rx.lanes)

\* The header's "the consumer drains all lanes": whatever a publisher of the
\* directory has sent is eventually received.
DrainsAllLanes ==
    \A p \in Publishers : \A k \in 1 .. MaxSend :
        (rx.rc = "ok" /\ sent[p] >= k) ~> (\E i \in 1 .. Len(got) : got[i] = <<p, k>>)
=============================================================================
