----------------------------- MODULE TcpEndpoint -----------------------------
(***************************************************************************)
(* The life of a pair of TCP endpoints: the server listens and accepts one *)
(* connection, the client connects, both run the canary with the number of *)
(* iterations each was given, the server starts its receiver thread and    *)
(* the application registers a region, data is sent, and both close        *)
(* (providers/mem_service_provider_tcp.c).  What happens to transfers once *)
(* they run, with fences and several regions, is the subject of            *)
(* TcpTransfer.                                                            *)
(*                                                                         *)
(* A transfer is a header and a payload.  The server holds region_lock     *)
(* between the two; closing takes that lock before it shuts the socket     *)
(* down.  The descriptor of the region reaches the client out of band.     *)
(***************************************************************************)
EXTENDS Integers, Sequences

CONSTANTS
    Iterations,  \* the iterations a side may be told to verify with
    Lengths,     \* the payload_bytes a side may be told to verify with
    OnWait,      \* config->receive_on_wait: no receiver thread
    MayFail,     \* whether calls fail, waits time out and sides close early
    MaxData      \* bound: transfers after the canary

\* What the constants must satisfy.
EndpointAssumption ==
    /\ Iterations \cup Lengths \cup {MaxData} \subseteq Nat \ {0}
    /\ {OnWait, MayFail} \subseteq BOOLEAN

VARIABLES
    srv,      \* the server's context and where its application is
    receiver, \* the receiver thread: where it is, and the region it found
    cli,      \* the client's context and where its application is
    backlog,  \* connections made and not accepted: "peer" or "stranger"
    up,       \* bytes on their way to the server: headers and payloads
    down,     \* messages on their way to the client
    descr,    \* handle of the application's region, as told to the client; 0 before
    stored    \* history: what was stored where, and whether that memory was still there

vars == <<srv, receiver, cli, backlog, up, down, descr, stored>>

Told == [iters : Iterations, len : Lengths]
NoRx == [pc |-> "none", kind |-> "", handle |-> 0]

Init ==
    /\ srv \in {[told |-> t, pc |-> "new", listen |-> FALSE, sock |-> FALSE, shut |-> FALSE, connected |-> FALSE,
              verified |-> FALSE, regions |-> {}, next |-> 0, i |-> 0, freed |-> FALSE] : t \in Told}
    /\ receiver = NoRx
    /\ cli \in {[told |-> t, pc |-> "new", sock |-> FALSE, shut |-> FALSE, connected |-> FALSE, verified |-> FALSE,
              i |-> 0, handle |-> 0, sent |-> 0] : t \in Told}
    /\ backlog = <<>> /\ up = <<>> /\ down = <<>> /\ descr = 0 /\ stored = {}

\* A side whose peer does not answer any more.
SrvGone == srv.shut \/ srv.pc = "closed"
CliGone == cli.shut \/ cli.pc = "closed"

-----------------------------------------------------------------------------
(* Regions of the server.                                                  *)

Named(h) == {r \in srv.regions : r.handle = h}

\* Mutant: a region is named by its slot.
RegisteredBySlot(s, buffer) ==
    LET slot == CHOOSE n \in 1 .. 3 : \A r \in s.regions : r.handle # n
    IN  [s EXCEPT !.next = slot,
                  !.regions = @ \cup {[handle |-> slot, buffer |-> buffer, ready |-> FALSE]}]

\* mem_service_tcp_provider_register_region, for a connected context.
Registered(s, buffer) ==
    [s EXCEPT !.next = @ + 1,
              !.regions = @ \cup {[handle |-> s.next + 1, buffer |-> buffer, ready |-> FALSE]}]

Deregistered(s, h) == [s EXCEPT !.regions = {r \in @ : r.handle # h}]

\* mem_service_tcp_fail_connection.
Failed(side) == [side EXCEPT !.connected = FALSE, !.verified = FALSE, !.shut = TRUE]

-----------------------------------------------------------------------------
(* The server's application: open and verify.                              *)

Listen ==
    /\ srv.pc = "new"
    /\ srv' = [srv EXCEPT !.pc = "listening", !.listen = TRUE]
    /\ UNCHANGED <<receiver, cli, backlog, up, down, descr, stored>>

\* The next connection; one from another address than peer_ipv4 ends the open,
\* which closes the endpoint.
Accept ==
    /\ srv.pc = "listening" /\ backlog # <<>>
    /\ backlog' = Tail(backlog)
    /\ srv' = IF Head(backlog) = "peer"
              THEN [srv EXCEPT !.pc = "opened", !.listen = FALSE, !.sock = TRUE, !.connected = TRUE]
              ELSE [srv EXCEPT !.pc = "failed", !.sock = TRUE]
    /\ UNCHANGED <<receiver, cli, up, down, descr, stored>>

\* Nobody comes within timeout_ms.
AcceptFails ==
    /\ MayFail /\ srv.pc = "listening" /\ backlog = <<>>
    /\ srv' = [srv EXCEPT !.pc = "failed"]
    /\ UNCHANGED <<receiver, cli, backlog, up, down, descr, stored>>

\* mem_service_tcp_verify_server: the canary region is registered and announced.
Announce ==
    /\ srv.pc = "opened"
    /\ srv' = [Registered(srv, "canary") EXCEPT !.pc = "canary"]
    /\ down' = Append(down, [type |-> "region", handle |-> srv.next + 1, len |-> srv.told.len, ok |-> TRUE])
    /\ UNCHANGED <<receiver, cli, backlog, up, descr, stored>>

Stored(kind, r) == [kind |-> kind, buffer |-> r.buffer,
                    there |-> r.buffer = "canary" => ~srv.freed]

Ack(h) == [type |-> "ack", handle |-> h, len |-> 0, ok |-> TRUE]

\* One iteration: header and payload are received and acknowledged.
Canary ==
    /\ srv.pc = "canary" /\ srv.i < srv.told.iters /\ Len(up) >= 2
    /\ \E r \in Named(up[1].handle) : stored' = stored \cup {Stored(up[1].kind, r)}
    /\ down' = Append(down, Ack(up[1].handle))
    /\ up' = SubSeq(up, 3, Len(up))
    /\ srv' = [srv EXCEPT !.i = @ + 1]
    /\ UNCHANGED <<receiver, cli, backlog, descr>>

\* The canary region is withdrawn and its buffer freed; the endpoint is ready
\* and its receiver starts.
SrvVerified ==
    /\ srv.pc = "canary" /\ srv.i = srv.told.iters
    /\ srv' = [Deregistered(srv, srv.next) EXCEPT !.pc = "ready", !.verified = TRUE, !.freed = TRUE]
    /\ receiver' = [receiver EXCEPT !.pc = IF OnWait THEN "none" ELSE "idle"]
    /\ UNCHANGED <<cli, backlog, up, down, descr, stored>>

\* The client has gone, or has sent all it will and timeout_ms passes, or it is
\* too slow, or the receiver cannot be started.
SrvVerifyFails ==
    /\ srv.pc = "canary"
    /\ MayFail \/ (srv.i < srv.told.iters /\ Len(up) < 2 /\ (CliGone \/ cli.pc = "ready"))
    /\ srv' = [Failed(Deregistered(srv, srv.next)) EXCEPT !.pc = "failed", !.freed = TRUE]
    /\ UNCHANGED <<receiver, cli, backlog, up, down, descr, stored>>

\* The application registers the region for the data and hands its descriptor on.
RegisterData ==
    /\ srv.pc = "ready" /\ srv.connected /\ descr = 0
    /\ srv' = Registered(srv, "data")
    /\ descr' = srv'.next
    /\ UNCHANGED <<receiver, cli, backlog, up, down, stored>>

-----------------------------------------------------------------------------
(* The server's receiver thread (mem_service_tcp_receive_transfer).        *)

\* A receive has failed: fail_connection, and the thread ends.
RxFailed ==
    /\ receiver' = [NoRx EXCEPT !.pc = "ended"]
    /\ srv' = Failed(srv)

\* A header has come.  Without its region the receive fails; a region that has
\* not been fenced is waited for; else region_lock is held for the payload.
RxHeader ==
    /\ receiver.pc = "idle" /\ up # <<>>
    /\ up' = Tail(up)
    /\ IF Named(up[1].handle) = {} \/ ~srv.connected THEN RxFailed
       ELSE /\ receiver' = [pc |-> IF \E r \in Named(up[1].handle) : r.ready THEN "wait" ELSE "payload",
                      kind |-> up[1].kind, handle |-> up[1].handle]
            /\ UNCHANGED srv
    /\ UNCHANGED <<cli, backlog, down, descr, stored>>

\* The payload is stored, published and acknowledged.
RxPayload ==
    /\ receiver.pc = "payload" /\ up # <<>>
    /\ up' = Tail(up)
    /\ \E r \in Named(receiver.handle) :
           /\ stored' = stored \cup {Stored(receiver.kind, r)}
           /\ srv' = [srv EXCEPT !.regions = (@ \ {r}) \cup {[r EXCEPT !.ready = TRUE]}]
    /\ down' = Append(down, Ack(receiver.handle))
    /\ receiver' = [NoRx EXCEPT !.pc = IF srv.connected THEN "idle" ELSE "ended"]
    /\ UNCHANGED <<cli, backlog, descr>>

\* Nothing more comes: the connection was shut down from one side or, for a
\* payload or a fence, timeout_ms has passed.
RxEnds ==
    /\ \/ receiver.pc \in {"idle", "payload"} /\ up = <<>> /\ (srv.shut \/ CliGone)
       \/ receiver.pc = "payload" /\ up = <<>> /\ MayFail
       \/ receiver.pc = "wait" /\ MayFail
       \/ receiver.pc = "woken"
    /\ RxFailed
    /\ UNCHANGED <<cli, backlog, up, down, descr, stored>>

-----------------------------------------------------------------------------
(* The server closes (mem_service_tcp_context_destroy).                    *)

\* The application is done, or has failed, or closes early: the state is set.
SrvClose ==
    /\ \/ srv.pc = "failed"
       \/ srv.pc = "ready" /\ (MayFail \/ ~srv.connected \/ CliGone)
    /\ srv' = [srv EXCEPT !.pc = "closing", !.connected = FALSE, !.verified = FALSE]
    /\ UNCHANGED <<receiver, cli, backlog, up, down, descr, stored>>

\* region_lock is free: a waiting receiver is woken, the socket shut down.
SrvShutdown ==
    /\ srv.pc = "closing" /\ receiver.pc # "payload"
    /\ srv' = [srv EXCEPT !.pc = "joining", !.shut = TRUE]
    /\ receiver' = [receiver EXCEPT !.pc = IF @ = "wait" THEN "woken" ELSE @]
    /\ UNCHANGED <<cli, backlog, up, down, descr, stored>>

\* The receiver is joined, the sockets are closed, the context is freed.
Joined ==
    /\ srv.pc = "joining" /\ receiver.pc \in {"none", "ended"}
    /\ srv' = [srv EXCEPT !.pc = "closed", !.listen = FALSE, !.sock = FALSE]
    /\ backlog' = <<>>
    /\ UNCHANGED <<receiver, cli, up, down, descr, stored>>

-----------------------------------------------------------------------------
(* The client.                                                             *)

Connect ==
    /\ cli.pc = "new" /\ srv.listen /\ Len(backlog) < 2
    /\ backlog' = Append(backlog, "peer")
    /\ cli' = [cli EXCEPT !.pc = "opened", !.sock = TRUE, !.connected = TRUE]
    /\ UNCHANGED <<srv, receiver, up, down, descr, stored>>

\* Nobody listens, or does not answer in time.
ConnectFails ==
    /\ cli.pc = "new" /\ (MayFail \/ srv.pc \notin {"new", "listening"})
    /\ cli' = [cli EXCEPT !.pc = "closed"]
    /\ UNCHANGED <<srv, receiver, backlog, up, down, descr, stored>>

\* Another host connects to the port.
Stranger ==
    /\ MayFail /\ srv.listen /\ Len(backlog) < 2 /\ "stranger" \notin {backlog[i] : i \in DOMAIN backlog}
    /\ backlog' = Append(backlog, "stranger")
    /\ UNCHANGED <<srv, receiver, cli, up, down, descr, stored>>

\* The canary region of the server; one too small for the client's payload is refused.
\* (The client registers its own buffer too; nothing looks that region up.)
TakeRegion ==
    /\ cli.pc = "opened" /\ down # <<>>
    /\ down' = Tail(down)
    /\ cli' = IF Head(down).type = "region" /\ Head(down).len >= cli.told.len
              THEN [cli EXCEPT !.pc = "send", !.handle = Head(down).handle]
              ELSE [Failed(cli) EXCEPT !.pc = "failed"]
    /\ UNCHANGED <<srv, receiver, backlog, up, descr, stored>>

Kind == IF cli.verified THEN "data" ELSE "canary"

\* mem_service_tcp_send_transfer: the header, then the payload.
Send ==
    /\ cli.pc \in {"send", "payload"}
    /\ up' = Append(up, [kind |-> Kind, handle |-> cli.handle])
    /\ cli' = [cli EXCEPT !.pc = IF @ = "send" THEN "payload" ELSE "ack"]
    /\ UNCHANGED <<srv, receiver, backlog, down, descr, stored>>

\* The acknowledgement of a transfer; the last one of the canary makes the
\* endpoint ready.
TakeAck ==
    /\ cli.pc = "ack" /\ down # <<>>
    /\ down' = Tail(down)
    /\ cli' = IF Head(down).type # "ack" \/ Head(down).handle # cli.handle
              THEN [Failed(cli) EXCEPT !.pc = "failed"]
              ELSE IF cli.verified THEN [cli EXCEPT !.pc = "ready", !.sent = @ + 1]
              ELSE [cli EXCEPT !.i = @ + 1, !.verified = (cli.i + 1 = cli.told.iters),
                               !.pc = IF cli.i + 1 = cli.told.iters THEN "ready" ELSE "send"]
    /\ UNCHANGED <<srv, receiver, backlog, up, descr, stored>>

\* mem_service_tcp_provider_submit_transfer to the application's region.
Submit ==
    /\ cli.pc = "ready" /\ cli.connected /\ descr # 0 /\ cli.sent < MaxData
    /\ cli' = [cli EXCEPT !.pc = "send", !.handle = descr]
    /\ UNCHANGED <<srv, receiver, backlog, up, down, descr, stored>>

\* The server has gone or is too slow.
CliFails ==
    /\ cli.pc \in {"opened", "send", "payload", "ack"}
    /\ MayFail \/ (SrvGone /\ (down = <<>> \/ cli.pc \in {"send", "payload"}))
    /\ cli' = [Failed(cli) EXCEPT !.pc = "failed"]
    /\ UNCHANGED <<srv, receiver, backlog, up, down, descr, stored>>

\* Without a receiver thread, closing is one step.
CliClose ==
    /\ \/ cli.pc = "failed"
       \/ cli.pc = "ready" /\ (MayFail \/ cli.sent = MaxData \/ SrvGone)
    /\ cli' = [Failed(cli) EXCEPT !.pc = "closed", !.sock = FALSE]
    /\ UNCHANGED <<srv, receiver, backlog, up, down, descr, stored>>

-----------------------------------------------------------------------------
Server == Listen \/ Accept \/ Announce \/ Canary \/ SrvVerified \/ SrvVerifyFails \/ RegisterData
Closing == SrvClose \/ SrvShutdown \/ Joined
Receiver == RxHeader \/ RxPayload \/ RxEnds
Client == Connect \/ ConnectFails \/ TakeRegion \/ Send \/ TakeAck \/ Submit \/ CliFails \/ CliClose

Next == Server \/ AcceptFails \/ Closing \/ Receiver \/ Client \/ Stranger

Spec == Init /\ [][Next]_vars

\* Both applications and the receiver run; deadlines pass in the end.
FairSpec ==
    Spec /\ WF_vars(Server) /\ WF_vars(Closing) /\ WF_vars(Receiver) /\ WF_vars(Client)

-----------------------------------------------------------------------------
(* Properties.                                                             *)

\* The types of the variables.
TypeOK ==
    /\ srv.pc \in {"new", "listening", "opened", "canary", "ready", "failed", "closing", "joining", "closed"}
    /\ cli.pc \in {"new", "opened", "send", "payload", "ack", "ready", "failed", "closed"}
    /\ receiver.pc \in {"none", "idle", "payload", "wait", "woken", "ended"}
    /\ srv.i \in 0 .. srv.told.iters /\ cli.i \in 0 .. cli.told.iters /\ cli.sent \in 0 .. MaxData
    /\ {srv.connected, srv.verified, srv.shut, cli.connected, cli.verified, cli.shut} \subseteq BOOLEAN

\* The canary stays apart from the data: a canary payload is only ever stored in
\* the canary's buffer, while that is there, also when the client goes on
\* with more iterations than the server; and data is stored only if both sides
\* were told the same number of iterations, as only then both pass the canary
\* (mem_service_tcp_verify_server, mem_service_tcp_provider_register_region).
CanaryApart ==
    \A w \in stored :
        /\ w.kind = w.buffer /\ w.there
        /\ w.kind = "data" => srv.told.iters = cli.told.iters

\* A closed endpoint has left nothing behind: no thread that uses the freed
\* context, no open socket, no region.
ClosedIsGone ==
    srv.pc = "closed" => receiver.pc \in {"none", "ended"} /\ ~srv.sock /\ ~srv.listen /\ ~srv.connected

\* A server that begins to close has closed in the end, whether its receiver
\* waits for a header, a payload or a fence.
CloseEnds == (srv.pc = "closing") ~> (srv.pc = "closed")

\* Without failures, and told alike, both sides get ready, the data is sent, and
\* both close; told otherwise, they close all the same.
Alike == srv.told.iters = cli.told.iters /\ cli.told.len <= srv.told.len
Done == cli.pc = "closed" /\ srv.pc = "closed" /\ (Alike => cli.sent = MaxData)
EndpointsServe == <>Done
=============================================================================
