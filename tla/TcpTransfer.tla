----------------------------- MODULE TcpTransfer -----------------------------
(***************************************************************************)
(* The TCP data-plane provider after its canary: one connection between a  *)
(* client that submits transfers and polls for their completion, and a     *)
(* server that stores the payloads in registered regions, acknowledges     *)
(* them and lets the application fence on a region                         *)
(* (providers/mem_service_provider_tcp.c).                                 *)
(*                                                                         *)
(* The client holds io_lock while it sends a transfer and while it polls.  *)
(* On the server the transfers are received by a thread of the provider,   *)
(* or, with receive_on_wait, by the application thread that fences, which  *)
(* holds io_lock meanwhile.  A region whose payload has not been fenced    *)
(* yet is not overwritten: the receiver waits on receive_condition, with   *)
(* region_lock released.  Everything done under region_lock is one step.   *)
(* A payload stands for its checksum.                                      *)
(***************************************************************************)
EXTENDS Integers, FiniteSets, FiniteSetsExt, SequencesExt

CONSTANTS
    MaxRegions,    \* MEM_SERVICE_TCP_MAX_REGIONS
    FirstRegions,  \* regions registered at the start, with the handles 1, 2, ...
    Transfers,     \* the transfers the client submits: [to, data, sum], in order
    MaxPending,    \* MEM_SERVICE_TCP_MAX_COMPLETIONS
    App,           \* server thread -> its calls: [do, handle, sum]
    OnWait,        \* config->receive_on_wait
    MayTimeout,    \* whether timeout_ms may pass in a wait
    Spurious       \* whether a wait on receive_condition may end unsignalled

Slots == 1 .. MaxRegions
Ids == 1 .. Len(Transfers)
Threads == DOMAIN App
Nobody == ""
Free == [handle |-> 0, data |-> 0, ready |-> FALSE, id |-> 0, ok |-> FALSE]

\* What the constants must satisfy.
TransferAssumption ==
    /\ MaxRegions \in Nat \ {0} /\ FirstRegions \in 0 .. MaxRegions
    /\ \A i \in Ids : Transfers[i].to \in Nat \ {0} /\ Transfers[i].sum \in Nat \ {0}
    /\ \A t \in Threads : \A i \in 1 .. Len(App[t]) : App[t][i].do \in {"wait", "drop", "add"}
    /\ MaxPending \in Nat \ {0} /\ {OnWait, MayTimeout, Spurious} \subseteq BOOLEAN
    /\ Nobody \notin Threads

VARIABLES
    regions,     \* server: context->regions
    nextHandle,  \* server: context->next_region_handle
    sConn,       \* server: context->connected
    cConn,       \* client: context->connected
    wire,        \* transfers on their way to the server, by their ids
    acks,        \* acknowledgements on their way to the client: [id, ok]
    sent,        \* client: transfers submitted
    pending,     \* client: context->pending, id -> "inprogress" or "done"
    poller,      \* client: the id a poll is waiting for, 0 for none
    rx,          \* server: the transfer being received
    io,          \* server: the thread that holds io_lock to receive
    app,         \* server thread -> calls finished, and the slot a fence waits on
    wrote,       \* history: payloads stored: the handle asked for and the one of the slot
    polled,      \* history: completions the client got
    fenced       \* history: fences that returned 0

vars == <<regions, nextHandle, sConn, cConn, wire, acks, sent, pending, poller, rx, io, app,
          wrote, polled, fenced>>
server == <<regions, nextHandle, sConn, rx, io, app, wrote, fenced>>
client == <<cConn, sent, pending, poller, polled>>

RxIdle == [pc |-> "idle", id |-> 0, slot |-> 0, ok |-> FALSE, woken |-> FALSE]

Init ==
    /\ regions = [s \in Slots |-> IF s <= FirstRegions THEN [Free EXCEPT !.handle = s] ELSE Free]
    /\ nextHandle = FirstRegions
    /\ sConn = TRUE /\ cConn = TRUE /\ wire = <<>> /\ acks = <<>>
    /\ sent = 0 /\ pending = <<>> /\ poller = 0
    /\ rx = RxIdle /\ io = Nobody
    /\ app = [t \in Threads |-> [done |-> 0, slot |-> 0]]
    /\ wrote = {} /\ polled = {} /\ fenced = {}

-----------------------------------------------------------------------------
(* The client.                                                             *)

\* mem_service_tcp_provider_submit_transfer: the header and the payload are
\* sent and a completion slot is filled, under io_lock.
Submit ==
    /\ cConn /\ poller = 0 /\ sent < Len(Transfers)
    /\ Cardinality(DOMAIN pending) < MaxPending
    /\ sent' = sent + 1
    /\ wire' = Append(wire, sent + 1)
    /\ pending' = [i \in DOMAIN pending \cup {sent + 1} |->
                       IF i \in DOMAIN pending THEN pending[i] ELSE "inprogress"]
    /\ UNCHANGED <<server, cConn, acks, poller, polled>>

\* mem_service_tcp_provider_poll_completion begins: it takes io_lock.
PollBegin(id) ==
    /\ cConn /\ poller = 0 /\ id \in DOMAIN pending
    /\ poller' = id
    /\ UNCHANGED <<server, cConn, wire, acks, sent, pending, polled>>

ClientFails == cConn' = FALSE /\ poller' = 0

\* The pending completion an acknowledgement belongs to, 0 for none.
AckSlot(ack) == IF ack.id \in DOMAIN pending THEN ack.id ELSE 0

\* One acknowledgement is read.  One that reports a wrong checksum, or belongs
\* to no pending transfer, fails the connection.
PollAck ==
    LET ack == Head(acks)
    IN  /\ poller # 0 /\ pending[poller] = "inprogress" /\ acks # <<>>
        /\ acks' = Tail(acks)
        /\ IF AckSlot(ack) # 0 /\ ack.ok
           THEN pending' = [pending EXCEPT ![AckSlot(ack)] = "done"] /\ UNCHANGED <<cConn, poller>>
           ELSE ClientFails /\ UNCHANGED pending
        /\ UNCHANGED <<server, wire, sent, polled>>

\* The completion is handed out and its slot freed.
PollEnd ==
    /\ poller # 0 /\ pending[poller] = "done"
    /\ polled' = polled \cup {poller}
    /\ pending' = [i \in DOMAIN pending \ {poller} |-> pending[i]]
    /\ poller' = 0
    /\ UNCHANGED <<server, cConn, wire, acks, sent>>

\* The wait for an acknowledgement ends without one: the server has shut the
\* connection down, or timeout_ms has passed.
PollFails ==
    /\ poller # 0 /\ pending[poller] = "inprogress" /\ acks = <<>>
    /\ ~sConn \/ MayTimeout
    /\ ClientFails
    /\ UNCHANGED <<server, wire, acks, sent, pending, polled>>

-----------------------------------------------------------------------------
(* The server: receiving.                                                  *)

SlotOf(handle) == IF \E s \in Slots : regions[s].handle = handle
                  THEN CHOOSE s \in Slots : regions[s].handle = handle ELSE 0
Call(t) == App[t][app[t].done + 1]
Want(t) == Call(t).handle

\* The provider's thread, or the thread that holds io_lock and whose region has
\* nothing for it yet.
MayReceive ==
    IF ~OnWait THEN TRUE
    ELSE IF io = Nobody THEN FALSE
    ELSE SlotOf(Want(io)) # 0 /\ ~regions[SlotOf(Want(io))].ready

ServerFails == sConn' = FALSE /\ rx' = [RxIdle EXCEPT !.pc = "failed"]

\* mem_service_tcp_receive_transfer from the payload on: it is read into the
\* slot, its checksum compared, and the receive published, under region_lock.
Store(id, s) ==
    LET m == Transfers[id]
        ok == m.data = m.sum
    IN  /\ regions' = [regions EXCEPT ![s] = [@ EXCEPT !.data = m.data, !.ready = TRUE,
                                                       !.id = id, !.ok = ok]]
        /\ wrote' = wrote \cup {[id |-> id, want |-> m.to, got |-> regions[s].handle]}
        /\ rx' = [pc |-> "ack", id |-> id, slot |-> s, ok |-> ok, woken |-> FALSE]

\* Mutant: a region is overwritten before its payload has been fenced.
RxHeaderOverwrites ==
    LET s == SlotOf(Transfers[Head(wire)].to)
    IN  /\ rx.pc = "idle" /\ MayReceive /\ sConn /\ wire # <<>>
        /\ wire' = Tail(wire)
        /\ IF s = 0 THEN ServerFails /\ UNCHANGED <<regions, wrote>>
           ELSE Store(Head(wire), s) /\ UNCHANGED sConn
        /\ UNCHANGED <<client, acks, nextHandle, io, app, fenced>>

\* A header is read and its region looked up.  A payload that is not fenced
\* yet makes the receiver wait, holding on to the slot.
RxHeader ==
    LET s == SlotOf(Transfers[Head(wire)].to)
    IN  /\ rx.pc = "idle" /\ MayReceive /\ sConn /\ wire # <<>>
        /\ wire' = Tail(wire)
        /\ IF s = 0 THEN ServerFails /\ UNCHANGED <<regions, wrote>>
           ELSE IF regions[s].ready
           THEN rx' = [pc |-> "wait", id |-> Head(wire), slot |-> s, ok |-> FALSE, woken |-> FALSE]
                /\ UNCHANGED <<regions, wrote, sConn>>
           ELSE Store(Head(wire), s) /\ UNCHANGED sConn
        /\ UNCHANGED <<client, acks, nextHandle, io, app, fenced>>

\* The receiver wakes and finds the slot without a payload, or the connection
\* failed.  It does not look the handle up again; a slot that has become free
\* has no room for the payload.
RxWake ==
    /\ rx.pc = "wait" /\ (rx.woken \/ Spurious \/ ~sConn)
    /\ ~regions[rx.slot].ready \/ ~sConn
    /\ IF ~sConn \/ regions[rx.slot].handle = 0
       THEN ServerFails /\ UNCHANGED <<regions, wrote>>
       ELSE Store(rx.id, rx.slot) /\ UNCHANGED sConn
    /\ UNCHANGED <<client, wire, acks, nextHandle, io, app, fenced>>

\* It wakes and finds the payload still there.
RxSleepsAgain ==
    /\ rx.pc = "wait" /\ rx.woken /\ regions[rx.slot].ready /\ sConn
    /\ rx' = [rx EXCEPT !.woken = FALSE]
    /\ UNCHANGED <<client, wire, acks, regions, nextHandle, sConn, io, app, wrote, fenced>>

\* The acknowledgement is sent after region_lock has been released; after a
\* wrong checksum the server gives up.
RxAck ==
    /\ rx.pc = "ack"
    /\ IF sConn THEN acks' = Append(acks, [id |-> rx.id, ok |-> rx.ok]) ELSE acks' = acks
    /\ IF sConn /\ rx.ok THEN rx' = RxIdle /\ UNCHANGED sConn ELSE ServerFails
    /\ UNCHANGED <<client, wire, regions, nextHandle, io, app, wrote, fenced>>

\* Nothing to read any more, or timeout_ms has passed waiting for a fence (and,
\* with receive_on_wait, waiting for a header).
RxFails ==
    /\ \/ rx.pc = "idle" /\ MayReceive /\ (~sConn \/ (wire = <<>> /\ (~cConn \/ (MayTimeout /\ OnWait))))
       \/ rx.pc = "wait" /\ MayTimeout
    /\ ServerFails
    /\ UNCHANGED <<client, wire, acks, regions, nextHandle, io, app, wrote, fenced>>

-----------------------------------------------------------------------------
(* The server: the application's calls.                                    *)

HasCall(t, do) == app[t].done < Len(App[t]) /\ Call(t).do = do
Return(t) == app' = [app EXCEPT ![t] = [done |-> @.done + 1, slot |-> 0]]

\* mem_service_tcp_provider_deregister_region: nobody is woken.
Deregister(t) ==
    /\ HasCall(t, "drop") /\ Return(t)
    /\ regions' = [s \in Slots |-> IF regions[s].handle = Want(t) THEN Free ELSE regions[s]]
    /\ UNCHANGED <<client, wire, acks, nextHandle, sConn, rx, io, wrote, fenced>>

\* mem_service_tcp_provider_register_region: the first free slot, a new handle.
Register(t) ==
    LET free == {s \in Slots : regions[s].handle = 0}
    IN  /\ HasCall(t, "add") /\ Return(t)
        /\ IF sConn /\ free # {}
           THEN /\ nextHandle' = nextHandle + 1
                /\ regions' = [regions EXCEPT ![Min(free)] = [Free EXCEPT !.handle = nextHandle + 1]]
           ELSE UNCHANGED <<nextHandle, regions>>
        /\ UNCHANGED <<client, wire, acks, sConn, rx, io, wrote, fenced>>

\* mem_service_tcp_provider_wait_receive begins, unless the channel is no longer
\* ready.  With receive_on_wait it takes io_lock.
WaitBegin(t) ==
    /\ HasCall(t, "wait") /\ app[t].slot = 0
    /\ IF ~sConn THEN Return(t) /\ UNCHANGED <<sConn, io>>
       ELSE IF SlotOf(Want(t)) = 0 THEN sConn' = FALSE /\ Return(t) /\ UNCHANGED io
       ELSE /\ app' = [app EXCEPT ![t].slot = SlotOf(Want(t))]
            /\ IF OnWait THEN io = Nobody /\ io' = t ELSE UNCHANGED io
            /\ UNCHANGED sConn
    /\ UNCHANGED <<client, wire, acks, regions, nextHandle, rx, wrote, fenced>>

Receiving(t) == OnWait /\ rx.pc \in {"wait", "ack"}

\* io_lock is released.
Release(t) == io' = IF io = t THEN Nobody ELSE io

\* The payload received is the one the fence expects.
Valid(t, r) == r.ok /\ r.data = Call(t).sum

\* Mutant: the receiver is not woken when a payload has been consumed.
WakeNobody == rx

\* pthread_cond_broadcast(receive_condition), as far as the receiver sleeps.
Wake == [rx EXCEPT !.woken = rx.pc = "wait"]

\* mem_service_tcp_take_receive_locked: the region is looked up again; what it
\* has received is consumed even when it is not what the fence expects.
Take(t) ==
    LET s == SlotOf(Want(t))
    IN  /\ HasCall(t, "wait") /\ app[t].slot # 0 /\ ~Receiving(t)
        /\ s # 0 /\ regions[s].ready
        /\ regions' = [regions EXCEPT ![s] = [@ EXCEPT !.ready = FALSE, !.id = 0, !.ok = FALSE]]
        /\ IF Valid(t, regions[s])
           THEN /\ fenced' = fenced \cup {[id |-> regions[s].id, sum |-> Call(t).sum,
                                         data |-> regions[s].data]}
                /\ UNCHANGED sConn
           ELSE sConn' = FALSE /\ UNCHANGED fenced
        /\ rx' = Wake
        /\ Return(t) /\ Release(t)
        /\ UNCHANGED <<client, wire, acks, nextHandle, wrote>>

\* The fence fails: the connection is gone (or the receive it did itself has
\* failed), timeout_ms has passed, or it woke on another region's slot and the
\* region is no longer there.
WaitFails(t) ==
    LET s == SlotOf(Want(t))
    IN  /\ HasCall(t, "wait") /\ app[t].slot # 0 /\ ~Receiving(t)
        /\ IF s = 0 THEN TRUE ELSE ~regions[s].ready
        /\ ~sConn \/ (MayTimeout /\ ~OnWait) \/ (s = 0 /\ (OnWait \/ regions[app[t].slot].ready))
        /\ sConn' = FALSE
        /\ Return(t) /\ Release(t)
        /\ UNCHANGED <<client, wire, acks, regions, nextHandle, rx, wrote, fenced>>

-----------------------------------------------------------------------------
Client == Submit \/ (\E id \in Ids : PollBegin(id)) \/ PollAck \/ PollEnd \/ PollFails
Receiver == RxHeader \/ RxWake \/ RxSleepsAgain \/ RxAck \/ RxFails
Application(t) == Deregister(t) \/ Register(t) \/ WaitBegin(t) \/ Take(t) \/ WaitFails(t)

Next == Client \/ Receiver \/ \E t \in Threads : Application(t)

Spec == Init /\ [][Next]_vars

-----------------------------------------------------------------------------
(* Properties.                                                             *)

\* The type invariant.
TypeOK ==
    /\ regions \in [Slots -> [handle : 0 .. nextHandle, data : Nat, ready : BOOLEAN,
                             id : 0 .. Len(Transfers), ok : BOOLEAN]]
    /\ sConn \in BOOLEAN /\ cConn \in BOOLEAN
    /\ sent \in 0 .. Len(Transfers) /\ poller \in {0} \cup DOMAIN pending
    /\ DOMAIN pending \subseteq 1 .. sent /\ polled \subseteq 1 .. sent
    /\ Cardinality(DOMAIN pending) <= MaxPending
    /\ rx.pc \in {"idle", "wait", "ack", "failed"} /\ io \in Threads \cup {Nobody}
    /\ \A s, u \in Slots : regions[s].handle = regions[u].handle => s = u \/ regions[s].handle = 0

\* A payload is stored only in the region its transfer names
\* (mem_service_tcp_receive_transfer), also when regions are deregistered and
\* registered while the receiver waits.
DeliveredWhereNamed == \A w \in wrote : w.want = w.got

\* A completion the client polls (mem_service_tcp_provider_poll_completion) is
\* the one of a payload the server has stored, with the right checksum.
CompletedWasStored ==
    \A id \in polled : /\ \E w \in wrote : w.id = id
                       /\ Transfers[id].data = Transfers[id].sum

\* A completed transfer is either fenced already or still whole in its region,
\* waiting for its fence, for as long as the connection is up and the region
\* registered: no later transfer to the same region has overwritten it.
CompletedIsFenceable ==
    \A id \in polled :
        \/ ~sConn
        \/ \E f \in fenced : f.id = id
        \/ SlotOf(Transfers[id].to) = 0
        \/ LET r == regions[SlotOf(Transfers[id].to)]
           IN  r.ready /\ r.id = id /\ r.data = Transfers[id].data

\* A fence that returns 0 hands over exactly the payload it asked for, and one
\* transfer satisfies one fence only (mem_service_tcp_take_receive_locked).
FenceIsExact ==
    /\ \A f \in fenced : f.data = f.sum /\ f.data = Transfers[f.id].data
    /\ \A f, g \in fenced : f.id = g.id => f = g

\* All fences of all threads are satisfied; it comes to this when no wait times
\* out.
AllFenced ==
    \A t \in Threads : \A i \in 1 .. Len(App[t]) :
        App[t][i].do = "wait" => \E f \in fenced : f.sum = App[t][i].sum
==============================================================================
