------------------------------ MODULE RoceMesh -------------------------------
(***************************************************************************)
(* The RoCE provider's mesh (providers/mem_service_provider_roce.c and     *)
(* run_mesh_serve of mem_service_provider_roce_cli.c) with the provider    *)
(* registry of mem_service_provider.c.  Each node opens its endpoints one  *)
(* after the other in the order of its configuration, runs the canary on   *)
(* each, registers it, and starts its daemon when every endpoint is ready. *)
(*                                                                         *)
(* A link is one reliable connection: its messages and RDMA writes arrive  *)
(* in order.  The payload of an iteration is the number of the iteration;  *)
(* 0 is the cleared buffer.                                                *)
(***************************************************************************)
EXTENDS Integers, Sequences, FiniteSets

CONSTANTS
    Nodes,
    Links,
    Config,       \* node -> sequence of [link, server], its endpoint= lines
    Iterations,   \* config.verify_iterations
    Faults        \* "timeout", "drop" (a connection breaks), "corrupt" (a payload is
                  \* damaged), "early" (a client connects before its peer listens)

\* What the constants must satisfy.
RoceAssumption ==
    /\ Config \in [Nodes -> Seq([link : Links, server : BOOLEAN])]
    /\ Iterations \in Nat \ {0}
    /\ Faults \subseteq {"timeout", "drop", "corrupt", "early"}

VARIABLES
    at,         \* node -> index of the endpoint it is opening
    stage,      \* node -> where it is in the open and the canary of that endpoint
    iter,       \* node -> the iteration of the canary, from 1
    link,       \* link -> [listening, request, up, memory, written, toServer, toClient]
    verified,   \* node -> links whose context has transfer_verified
    registry,   \* node -> link -> the cached state of the registered provider
    checked,    \* history: link -> iterations whose payload the server found intact
    mismatch,   \* history: links on which a server has rejected a payload
    bound       \* history: node -> [link, down]: the last bind, and the node's links that were down

vars == <<at, stage, iter, link, verified, registry, checked, mismatch, bound>>

Unbound == [link |-> "none", down |-> {}]
Closed == [listening |-> FALSE, request |-> FALSE, up |-> FALSE, memory |-> 0, written |-> 0,
           toServer |-> <<>>, toClient |-> <<>>]

Init ==
    /\ at = [n \in Nodes |-> 1]
    /\ stage = [n \in Nodes |-> "open"]
    /\ iter = [n \in Nodes |-> 1]
    /\ link = [l \in Links |-> Closed]
    /\ verified = [n \in Nodes |-> {}]
    /\ registry = [n \in Nodes |-> [l \in Links |-> "absent"]]
    /\ checked = [l \in Links |-> 0]
    /\ mismatch = {}
    /\ bound = [n \in Nodes |-> Unbound]

LinksOf(n) == {Config[n][i].link : i \in 1 .. Len(Config[n])}
Busy(n) == stage[n] \notin {"serving", "exited"} /\ at[n] <= Len(Config[n])
Current(n) == Config[n][at[n]].link
IsServer(n) == Config[n][at[n]].server

At(n, s, server) == Busy(n) /\ stage[n] = s /\ IsServer(n) = server

\* mem_service_roce_connection_live and mem_service_roce_provider_probe.
Probe(n, l) ==
    CASE ~link[l].up -> "unavailable"
      [] link[l].up /\ l \notin verified[n] -> "degraded"
      [] OTHER -> "ready"

Goto(n, s) == stage' = [stage EXCEPT ![n] = s]

-----------------------------------------------------------------------------
(* Opening an endpoint.                                                    *)

\* mem_service_roce_listen_server.
Listen(n) ==
    /\ At(n, "open", TRUE)
    /\ link' = [link EXCEPT ![Current(n)].listening = TRUE]
    /\ Goto(n, "accept")
    /\ UNCHANGED <<at, iter, verified, registry, checked, mismatch, bound>>

\* rdma_connect of mem_service_roce_open_client, the peer listening.
Connect(n) ==
    /\ At(n, "open", FALSE) /\ link[Current(n)].listening
    /\ link' = [link EXCEPT ![Current(n)].request = TRUE]
    /\ Goto(n, "established")
    /\ UNCHANGED <<at, iter, verified, registry, checked, mismatch, bound>>

\* mem_service_roce_accept_server; its resources include a posted receive.
Accept(n) ==
    /\ At(n, "accept", TRUE) /\ link[Current(n)].request
    /\ link' = [link EXCEPT ![Current(n)].up = TRUE]
    /\ Goto(n, "region")
    /\ UNCHANGED <<at, iter, verified, registry, checked, mismatch, bound>>

\* The client sees RDMA_CM_EVENT_ESTABLISHED.
Established(n) ==
    /\ At(n, "established", FALSE) /\ link[Current(n)].up
    /\ Goto(n, "region")
    /\ UNCHANGED <<at, iter, link, verified, registry, checked, mismatch, bound>>

-----------------------------------------------------------------------------
(* The canary, mem_service_provider_roce_endpoint_verify.                  *)

\* mem_service_roce_send_region: the region is cleared before it is announced.
SendRegion(n) ==
    /\ At(n, "region", TRUE) /\ link[Current(n)].up
    /\ link' = [link EXCEPT ![Current(n)].memory = 0,
                            ![Current(n)].toClient = Append(@, [type |-> "REGION", status |-> 0, k |-> 0])]
    /\ Goto(n, "wait")
    /\ UNCHANGED <<at, iter, verified, registry, checked, mismatch, bound>>

Arrived(n, queue, type) == queue # <<>> /\ Head(queue).type = type

\* mem_service_roce_receive_region.
ReceiveRegion(n) ==
    /\ At(n, "region", FALSE) /\ link[Current(n)].up
    /\ Arrived(n, link[Current(n)].toClient, "REGION")
    /\ link' = [link EXCEPT ![Current(n)].toClient = Tail(@)]
    /\ Goto(n, "write")
    /\ UNCHANGED <<at, iter, verified, registry, checked, mismatch, bound>>

\* mem_service_roce_provider_submit_transfer: the RDMA write is posted.
Submit(n) ==
    /\ At(n, "write", FALSE) /\ link[Current(n)].up
    /\ link' = [link EXCEPT ![Current(n)].toServer = Append(@, [type |-> "write", k |-> iter[n]])]
    /\ Goto(n, "poll")
    /\ UNCHANGED <<at, iter, verified, registry, checked, mismatch, bound>>

\* External: the adapter places an RDMA write in the server's memory, without
\* the server's program, and completes it.
Place(l) ==
    /\ link[l].up /\ link[l].toServer # <<>> /\ Head(link[l].toServer).type = "write"
    /\ \E k \in {Head(link[l].toServer).k} \cup (IF "corrupt" \in Faults THEN {-1} ELSE {}) :
           link' = [link EXCEPT ![l].memory = k, ![l].toServer = Tail(@),
                                ![l].written = Head(link[l].toServer).k]
    /\ UNCHANGED <<at, stage, iter, verified, registry, checked, mismatch, bound>>

\* mem_service_roce_provider_poll_completion, and the DONE message.
SendDone(n) ==
    /\ At(n, "poll", FALSE) /\ link[Current(n)].up /\ link[Current(n)].written = iter[n]
    /\ link' = [link EXCEPT ![Current(n)].toServer = Append(@, [type |-> "DONE", k |-> iter[n]])]
    /\ Goto(n, "ack")
    /\ UNCHANGED <<at, iter, verified, registry, checked, mismatch, bound>>

\* The order in which the server checks, clears and acknowledges.
After == [check |-> "clear", clear |-> "acknowledge", acknowledge |-> "next"]

\* Mutant: the checksum is not compared.
MatchesAny(l, message) == TRUE

\* The checksum of the buffer is the one in the message.
Matches(l, message) == link[l].memory = message.k

\* The server receives DONE and compares checksums.
Check(n) ==
    LET l == Current(n)
        message == Head(link[l].toServer)
    IN  /\ At(n, "wait", TRUE) /\ link[l].up /\ Arrived(n, link[l].toServer, "DONE")
        /\ message.k = iter[n] /\ Matches(l, message)
        /\ link' = [link EXCEPT ![l].toServer = Tail(@)]
        /\ verified' = [verified EXCEPT ![n] = @ \cup {l}]
        /\ checked' = [checked EXCEPT ![l] = IF link[l].memory = message.k THEN @ + 1 ELSE @]
        /\ Goto(n, After.check)
        /\ UNCHANGED <<at, iter, registry, mismatch, bound>>

Clear(n) ==
    /\ At(n, "clear", TRUE)
    /\ link' = [link EXCEPT ![Current(n)].memory = 0]
    /\ Goto(n, After.clear)
    /\ UNCHANGED <<at, iter, verified, registry, checked, mismatch, bound>>

\* The ACK of an iteration.
Acknowledge(n) ==
    LET l == Current(n)
    IN  /\ At(n, "acknowledge", TRUE) /\ link[l].up
        /\ link' = [link EXCEPT ![l].toClient = Append(@, [type |-> "ACK", status |-> 0, k |-> iter[n]])]
        /\ Goto(n, After.acknowledge)
        /\ UNCHANGED <<at, iter, verified, registry, checked, mismatch, bound>>

\* The client receives the ACK of its iteration.
ReceiveAck(n) ==
    LET l == Current(n)
        message == Head(link[l].toClient)
    IN  /\ At(n, "ack", FALSE) /\ link[l].up /\ Arrived(n, link[l].toClient, "ACK")
        /\ message.status = 0 /\ message.k = iter[n]
        /\ link' = [link EXCEPT ![l].toClient = Tail(@)]
        /\ verified' = [verified EXCEPT ![n] = @ \cup {l}]
        /\ Goto(n, "next")
        /\ UNCHANGED <<at, iter, registry, checked, mismatch, bound>>

LastIteration(n) == iter[n] = Iterations

\* The canary's own registry is refreshed and must be ready; after the last
\* iteration the endpoint is registered, which probes it, and the next one opened.
EndIteration(n) ==
    LET l == Current(n)
    IN  /\ Busy(n) /\ stage[n] = "next" /\ Probe(n, l) = "ready"
        /\ IF LastIteration(n)
           THEN /\ registry' = [registry EXCEPT ![n][l] = Probe(n, l)]
                /\ at' = [at EXCEPT ![n] = @ + 1]
                /\ iter' = [iter EXCEPT ![n] = 1]
                /\ Goto(n, "open")
           ELSE /\ iter' = [iter EXCEPT ![n] = @ + 1]
                /\ Goto(n, IF IsServer(n) THEN "wait" ELSE "write")
                /\ UNCHANGED <<at, registry>>
        /\ UNCHANGED <<link, verified, checked, mismatch, bound>>

-----------------------------------------------------------------------------
(* Failure, and the daemon.                                                *)

\* The endpoints opened so far are closed, which ends their connections.
Exit(n) ==
    LET opened == {Config[n][i].link : i \in 1 .. (IF at[n] > Len(Config[n]) THEN Len(Config[n]) ELSE at[n])}
    IN  /\ Goto(n, "exited")
        /\ link' = [l \in Links |-> IF l \in opened THEN Closed ELSE link[l]]
        /\ UNCHANGED <<at, iter, verified, registry, checked, bound>>

\* The server rejects a payload: it says so and gives up.
Reject(n) ==
    LET l == Current(n)
    IN  /\ At(n, "wait", TRUE) /\ link[l].up /\ Arrived(n, link[l].toServer, "DONE")
        /\ ~Matches(l, Head(link[l].toServer))
        /\ mismatch' = mismatch \cup {l}
        /\ Exit(n)

\* A call on a broken connection fails, as does a wait that lasts too long and
\* a connection to a peer that does not listen.
Fail(n) ==
    /\ Busy(n)
    /\ \/ stage[n] \notin {"open", "accept", "established"} /\ ~link[Current(n)].up
       \/ "timeout" \in Faults /\ stage[n] \in {"accept", "established", "region", "wait", "poll", "ack"}
       \/ "early" \in Faults /\ At(n, "open", FALSE) /\ ~link[Current(n)].listening
    /\ UNCHANGED mismatch
    /\ Exit(n)

\* External: a connection breaks.
Drop(l) ==
    /\ "drop" \in Faults /\ link[l].up
    /\ link' = [link EXCEPT ![l] = Closed]
    /\ UNCHANGED <<at, stage, iter, verified, registry, checked, mismatch, bound>>

\* mem_service_provider_registry_refresh.
Refreshed(n) == [l \in Links |-> IF registry[n][l] = "absent" THEN "absent" ELSE Probe(n, l)]

\* mem_service_provider_registry_data_plane_ready, over the cached states.
DataPlaneReady(n) == \A l \in LinksOf(n) : registry[n][l] = "ready"

\* All endpoints are open: the daemon starts, and refreshes the registry.
Serve(n) ==
    /\ stage[n] = "open" /\ at[n] > Len(Config[n]) /\ DataPlaneReady(n)
    /\ registry' = [registry EXCEPT ![n] = Refreshed(n)]
    /\ Goto(n, "serving")
    /\ UNCHANGED <<at, iter, link, verified, checked, mismatch, bound>>

\* The status operation of the daemon.
Status(n) ==
    /\ stage[n] = "serving"
    /\ registry' = [registry EXCEPT ![n] = Refreshed(n)]
    /\ UNCHANGED <<at, stage, iter, link, verified, checked, mismatch, bound>>

\* mem_service_provider_channel_ready.
ChannelReady(n, l) == Probe(n, l) = "ready"

\* mem_service_provider_channel_bind to the endpoint of a link.
Bind(n, l) ==
    /\ stage[n] = "serving" /\ l \in LinksOf(n)
    /\ DataPlaneReady(n) /\ ChannelReady(n, l)
    /\ bound' = [bound EXCEPT ![n] = [link |-> l, down |-> {k \in LinksOf(n) : ~link[k].up}]]
    /\ UNCHANGED <<at, stage, iter, link, verified, registry, checked, mismatch>>

NodeStep(n) ==
    \/ Listen(n) \/ Connect(n) \/ Accept(n) \/ Established(n) \/ SendRegion(n) \/ ReceiveRegion(n)
    \/ Submit(n) \/ SendDone(n) \/ Check(n) \/ Clear(n) \/ Acknowledge(n) \/ ReceiveAck(n)
    \/ EndIteration(n) \/ Reject(n) \/ Fail(n) \/ Serve(n)

Next ==
    \/ \E n \in Nodes : NodeStep(n) \/ Status(n) \/ \E l \in Links : Bind(n, l)
    \/ \E l \in Links : Place(l) \/ Drop(l)

Spec == Init /\ [][Next]_vars

-----------------------------------------------------------------------------
(* Properties.                                                             *)

\* The type invariant.
TypeOK ==
    /\ \A n \in Nodes : at[n] \in 1 .. Len(Config[n]) + 1 /\ iter[n] \in 1 .. Iterations
    /\ \A l \in Links :
           /\ link[l].memory \in -1 .. Iterations
           /\ Len(link[l].toServer) <= 1 /\ Len(link[l].toClient) <= 2
    /\ verified \in [Nodes -> SUBSET Links]
    /\ registry \in [Nodes -> [Links -> {"absent", "ready", "degraded", "unavailable"}]]

\* A node serves only after every one of its endpoints has carried every
\* payload of the canary intact (run_mesh_serve), however connections break,
\* time out or damage payloads meanwhile.
ServingHasMesh ==
    \A n \in Nodes : stage[n] = "serving" => \A l \in LinksOf(n) : checked[l] = Iterations

\* When no payload is damaged no server rejects one: an RDMA write of the next
\* iteration is never wiped out by the server's own clearing of the buffer
\* (mem_service_provider_roce_endpoint_verify).
IntactIsAccepted == mismatch = {}

\* A channel is bound only to an endpoint whose connection is up at that moment
\* (mem_service_provider_channel_bind), whatever the registry remembers.
BoundIsLive == \A n \in Nodes : bound[n].link \notin bound[n].down

\* All nodes serve; when nothing fails it comes to this, if the configurations
\* open the links in one common order.
AllServing == \A n \in Nodes : stage[n] = "serving"
==============================================================================
