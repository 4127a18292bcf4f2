---------------------------- MODULE MCTransports ----------------------------
(***************************************************************************)
(* The providers that move payloads between nodes, one per scene; the      *)
(* scene is chosen in the initial state and never changes, and the         *)
(* providers of the other scenes stand still.                              *)
(*   thread      two threads fence while TCP's receiver thread stores,     *)
(*               with timeouts and spurious wake-ups                       *)
(*   onwait      the fencing threads receive for themselves; a payload and *)
(*               a fence are wrong                                         *)
(*   deregister  a region is withdrawn while its fence may be awaited      *)
(*   fences      no timeouts: threads with a region each                   *)
(*   fencesOnWait  no timeouts: one thread that receives for itself        *)
(*   endpoints   a TCP server and client from open to close, told anything *)
(*               to verify with; calls fail and sides close early          *)
(*   told        the same without failures                                 *)
(*   pair        two nodes joined by two RoCE links, all faults            *)
(*   intact      three nodes in a full mesh, connections break             *)
(*   forms       three nodes in a full mesh, no faults                     *)
(*   arrives     two OBMM nodes that wait for a range to become visible    *)
(***************************************************************************)
EXTENDS TcpEndpoint, TLC

VARIABLES
    scene,
    regions, nextHandle, sConn, cConn, wire, acks, sent, pending, poller, rx, io, app, wrote,
    polled, fenced,
    at, stage, iter, link, verified, registry, checked, mismatch, bound,
    created, exported, mappings, imports, canaries, closed, memory, cache, writes, published,
    visible

tcpVars == <<regions, nextHandle, sConn, cConn, wire, acks, sent, pending, poller, rx, io, app,
             wrote, polled, fenced>>
roceVars == <<at, stage, iter, link, verified, registry, checked, mismatch, bound>>
obmmVars == <<created, exported, mappings, imports, canaries, closed, memory, cache, writes,
              published, visible>>
sceneVars == <<scene, tcpVars, vars, roceVars, obmmVars>>

-----------------------------------------------------------------------------
(* TCP.                                                                    *)

To(handle, data) == [to |-> handle, data |-> data, sum |-> data]
Fence(handle, sum) == [do |-> "wait", handle |-> handle, sum |-> sum]
Drop(handle) == [do |-> "drop", handle |-> handle, sum |-> 0]
Add == [do |-> "add", handle |-> 0, sum |-> 0]

\* Two transfers to each region; two threads, or one that fences in the order
\* of the transfers.
FourTransfers == <<To(1, 11), To(1, 12), To(2, 21), To(2, 22)>>
TwoFencers == ("a" :> <<Fence(1, 11), Fence(1, 12)>>) @@ ("b" :> <<Fence(2, 21), Fence(2, 22)>>)
OneFencer == "a" :> <<Fence(1, 11), Fence(1, 12), Fence(2, 21), Fence(2, 22)>>

\* A transfer whose payload does not have the checksum announced for it, and a
\* fence that expects another payload than the one sent.
BadTransfers == <<To(1, 11), To(2, 21), [to |-> 1, data |-> 12, sum |-> 13]>>
BadFencers == ("a" :> <<Fence(1, 11), Fence(1, 13)>>) @@ ("b" :> <<Fence(2, 22)>>)

\* Regions are added until there is no slot left, then region 1 is deregistered
\* by one thread while the other uses region 2.
DropTransfers == <<To(1, 11), To(1, 12), To(2, 21)>>
Droppers == ("a" :> <<Add, Add, Fence(1, 11), Drop(1)>>) @@ ("b" :> <<Fence(2, 21), Fence(1, 12)>>)

Thread == INSTANCE TcpTransfer WITH
    MaxRegions <- 2, FirstRegions <- 2, Transfers <- FourTransfers, MaxPending <- 2,
    App <- TwoFencers, OnWait <- FALSE, MayTimeout <- TRUE, Spurious <- TRUE
Self == INSTANCE TcpTransfer WITH
    MaxRegions <- 2, FirstRegions <- 2, Transfers <- BadTransfers, MaxPending <- 2,
    App <- BadFencers, OnWait <- TRUE, MayTimeout <- TRUE, Spurious <- TRUE
Deregisters == INSTANCE TcpTransfer WITH
    MaxRegions <- 3, FirstRegions <- 2, Transfers <- DropTransfers, MaxPending <- 2,
    App <- Droppers, OnWait <- FALSE, MayTimeout <- TRUE, Spurious <- TRUE
Fences == INSTANCE TcpTransfer WITH
    MaxRegions <- 2, FirstRegions <- 2, Transfers <- FourTransfers, MaxPending <- 2,
    App <- TwoFencers, OnWait <- FALSE, MayTimeout <- FALSE, Spurious <- FALSE
FencesOnWait == INSTANCE TcpTransfer WITH
    MaxRegions <- 2, FirstRegions <- 2, Transfers <- FourTransfers, MaxPending <- 2,
    App <- OneFencer, OnWait <- TRUE, MayTimeout <- FALSE, Spurious <- FALSE

\* endpoints: the constants of this module.
SomeIterations == {1, 2}
SomeLengths == {1, 2}

Quiet == INSTANCE TcpEndpoint WITH
    Iterations <- {1, 2}, Lengths <- {1, 2}, OnWait <- FALSE, MayFail <- FALSE, MaxData <- 1

\* The endpoints of the other scenes.
EndStill ==
    /\ srv = [pc |-> "new"] /\ receiver = [pc |-> "none"] /\ cli = [pc |-> "new"] /\ backlog = <<>>
    /\ up = <<>> /\ down = <<>> /\ descr = 0 /\ stored = {}

-----------------------------------------------------------------------------
(* RoCE.                                                                   *)

AsServer(l) == [link |-> l, server |-> TRUE]
AsClient(l) == [link |-> l, server |-> FALSE]

\* Two nodes joined by two links, as in the example configuration; three nodes
\* in a full mesh, where every node opens ab before ac before bc.
TwoLinks == ("a" :> <<AsServer("ab"), AsClient("ac")>>) @@ ("b" :> <<AsClient("ab"), AsServer("ac")>>)
FullMesh == ("a" :> <<AsServer("ab"), AsServer("ac")>>) @@ ("b" :> <<AsClient("ab"), AsServer("bc")>>)
            @@ ("c" :> <<AsClient("ac"), AsClient("bc")>>)

Pair == INSTANCE RoceMesh WITH
    Nodes <- {"a", "b"}, Links <- {"ab", "ac"}, Config <- TwoLinks, Iterations <- 2,
    Faults <- {"timeout", "drop", "corrupt", "early"}
Intact == INSTANCE RoceMesh WITH
    Nodes <- {"a", "b", "c"}, Links <- {"ab", "bc", "ac"}, Config <- FullMesh, Iterations <- 2,
    Faults <- {"timeout", "drop"}
Forms == INSTANCE RoceMesh WITH
    Nodes <- {"a", "b", "c"}, Links <- {"ab", "bc", "ac"}, Config <- FullMesh, Iterations <- 2,
    Faults <- {}

-----------------------------------------------------------------------------
(* OBMM.                                                                   *)

Arrives == INSTANCE ObmmProvider WITH
    Nodes <- {"a", "b"}, MaxMappings <- 1, ImportBytes <- 1, Sizes <- {1}, Uncached <- {},
    ForceOsync <- FALSE, Required <- 1, CanaryAgain <- FALSE, Faults <- {}, RegionBound <- 2,
    WriteBound <- 1, regions <- exported, verified <- canaries

ASSUME /\ Thread!TransferAssumption /\ Self!TransferAssumption /\ Deregisters!TransferAssumption
       /\ Fences!TransferAssumption /\ FencesOnWait!TransferAssumption
       /\ EndpointAssumption /\ Quiet!EndpointAssumption
       /\ Pair!RoceAssumption /\ Intact!RoceAssumption /\ Forms!RoceAssumption
       /\ Arrives!ObmmAssumption

-----------------------------------------------------------------------------

TcpInit ==
    \/ scene = "thread" /\ Thread!Init
    \/ scene = "onwait" /\ Self!Init
    \/ scene = "deregister" /\ Deregisters!Init
    \/ scene = "fences" /\ Fences!Init
    \/ scene = "fencesOnWait" /\ FencesOnWait!Init
RoceInit ==
    \/ scene = "pair" /\ Pair!Init
    \/ scene = "intact" /\ Intact!Init
    \/ scene = "forms" /\ Forms!Init

EndInit ==
    \/ scene = "endpoints" /\ Init
    \/ scene = "told" /\ Quiet!Init

SceneInit ==
    \/ TcpInit /\ EndStill /\ Forms!Init /\ Arrives!Init
    \/ EndInit /\ Thread!Init /\ Forms!Init /\ Arrives!Init
    \/ RoceInit /\ Thread!Init /\ EndStill /\ Arrives!Init
    \/ scene = "arrives" /\ Thread!Init /\ EndStill /\ Forms!Init /\ Arrives!Init

TcpNext ==
    \/ scene = "thread" /\ Thread!Next
    \/ scene = "onwait" /\ Self!Next
    \/ scene = "deregister" /\ Deregisters!Next
    \/ scene = "fences" /\ Fences!Next
    \/ scene = "fencesOnWait" /\ FencesOnWait!Next
EndNext ==
    \/ scene = "endpoints" /\ Next
    \/ scene = "told" /\ Quiet!Next
RoceNext ==
    \/ scene = "pair" /\ Pair!Next
    \/ scene = "intact" /\ Intact!Next
    \/ scene = "forms" /\ Forms!Next

SceneNext ==
    /\ \/ TcpNext /\ UNCHANGED <<vars, roceVars, obmmVars>>
       \/ EndNext /\ UNCHANGED <<tcpVars, roceVars, obmmVars>>
       \/ RoceNext /\ UNCHANGED <<tcpVars, vars, obmmVars>>
       \/ scene = "arrives" /\ Arrives!Next /\ UNCHANGED <<tcpVars, vars, roceVars>>
    /\ scene' = scene

\* Threads are scheduled and TCP delivers: every step that stays possible is
\* taken, and a lock that is released again and again is eventually obtained.  A
\* TCP endpoint, and a RoCE node, that can go on does, and the adapter delivers.  A wait for
\* visibility is repeated every millisecond.
Fair ==
    /\ WF_tcpVars(scene = "fences" /\ Fences!Client)
    /\ WF_tcpVars(scene = "fences" /\ Fences!Receiver)
    /\ \A t \in {"a", "b"} : SF_tcpVars(scene = "fences" /\ Fences!Application(t))
    /\ WF_tcpVars(scene = "fencesOnWait" /\ FencesOnWait!Client)
    /\ WF_tcpVars(scene = "fencesOnWait" /\ FencesOnWait!Receiver)
    /\ SF_tcpVars(scene = "fencesOnWait" /\ FencesOnWait!Application("a"))
    /\ WF_vars((scene = "endpoints" /\ Server) \/ (scene = "told" /\ Quiet!Server))
    /\ WF_vars((scene = "endpoints" /\ Closing) \/ (scene = "told" /\ Quiet!Closing))
    /\ WF_vars((scene = "endpoints" /\ Receiver) \/ (scene = "told" /\ Quiet!Receiver))
    /\ WF_vars((scene = "endpoints" /\ Client) \/ (scene = "told" /\ Quiet!Client))
    /\ \A n \in {"a", "b", "c"} : WF_roceVars(scene = "forms" /\ Forms!NodeStep(n))
    /\ \A l \in {"ab", "bc", "ac"} : WF_roceVars(scene = "forms" /\ Forms!Place(l))
    /\ \A n \in {"a", "b"} : WF_obmmVars(scene = "arrives" /\ Arrives!WaitVisible(n, 1))

SceneSpec == SceneInit /\ [][SceneNext]_sceneVars /\ Fair

-----------------------------------------------------------------------------

\* A transfer that completed was stored whole in the region it named, and stays
\* there until it is fenced; a fence returns only the payload it asked for, and
\* every payload once (see TcpTransfer!CompletedIsFenceable, CompletedWasStored,
\* DeliveredWhereNamed, FenceIsExact).  A closed endpoint has no thread and no
\* socket left (see TcpEndpoint!ClosedIsGone, TypeOK).
CompletedIsFenceable ==
    /\ scene = "thread" => Thread!TypeOK /\ Thread!CompletedIsFenceable
    /\ scene = "onwait" => Self!CompletedWasStored /\ Self!FenceIsExact
    /\ scene = "deregister" => /\ Deregisters!CompletedIsFenceable
                               /\ Deregisters!DeliveredWhereNamed
    /\ scene = "endpoints" => TypeOK /\ ClosedIsGone
    /\ scene = "told" => Quiet!TypeOK /\ ClosedIsGone

\* A node serves only when every link has carried the whole canary, and an
\* undamaged canary is never rejected (see RoceMesh!ServingHasMesh,
\* IntactIsAccepted); a channel is bound only to a live endpoint (see
\* RoceMesh!BoundIsLive).
ServingHasMesh ==
    /\ scene = "pair" => Pair!TypeOK /\ Pair!ServingHasMesh /\ Pair!BoundIsLive
    /\ scene = "intact" => Intact!ServingHasMesh /\ Intact!IntactIsAccepted

\* Without timeouts every fence of a transfer that is sent returns, although
\* the receiver waits for one region while the other has transfers behind it,
\* and also when the fencing thread receives for itself.  Three nodes that open
\* their RoCE links in one common order all get to serve.  A node that waits for
\* a published range through a cached OBMM mapping gets to see it (see
\* ObmmProvider!Arrived).  A TCP endpoint that begins to close has closed in the
\* end, and a pair told alike has sent its data by then (see TcpEndpoint!CloseEnds,
\* EndpointsServe).
TransportsComplete ==
    /\ <>(/\ scene = "fences" => Fences!AllFenced
          /\ scene = "fencesOnWait" => FencesOnWait!AllFenced
          /\ scene = "forms" => Forms!AllServing
          /\ scene = "told" => Quiet!Done)
    /\ (srv.pc = "closing") ~> (srv.pc = "closed")
    /\ \A n \in {"a", "b"} : []<>(scene = "arrives" => Arrives!Arrived(n, 1))
=============================================================================
