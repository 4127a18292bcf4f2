-------------------------- MODULE TcpEndpointProofs --------------------------
(***************************************************************************)
(* Proofs about TcpEndpoint, for any numbers of iterations, lengths and    *)
(* transfers, with and without a receiver thread, and any failures:        *)
(*                                                                         *)
(*   CanaryStaysApart    Spec => []CanaryApart                             *)
(*   ClosedLeavesNothing Spec => []ClosedIsGone                            *)
(*                                                                         *)
(* The canary's region is the first and the application's the second: a    *)
(* handle is never given twice, so what is said of a handle stays true.    *)
(* While the client verifies, at most one transfer is on its way, and the  *)
(* iterations of the two sides differ by that one.                         *)
(***************************************************************************)
EXTENDS TcpEndpoint, SequenceTheorems, TLAPS

SrvPcs == {"new", "listening", "opened", "canary", "ready", "failed", "closing", "joining", "closed"}
CliPcs == {"new", "opened", "send", "payload", "ack", "ready", "failed", "closed"}
RxPcs == {"none", "idle", "payload", "wait", "woken", "ended"}

Region == [handle : Nat, buffer : {"canary", "data"}, ready : BOOLEAN]
Message == [kind : {"canary", "data"}, handle : Nat]
Answer == [type : {"region", "ack"}, handle : Nat, len : Lengths \cup {0}, ok : BOOLEAN]

SrvType == [told : Told, pc : SrvPcs, listen : BOOLEAN, sock : BOOLEAN, shut : BOOLEAN,
            connected : BOOLEAN, verified : BOOLEAN, regions : SUBSET Region, next : Nat,
            i : Nat, freed : BOOLEAN]
CliType == [told : Told, pc : CliPcs, sock : BOOLEAN, shut : BOOLEAN, connected : BOOLEAN,
            verified : BOOLEAN, i : Nat, handle : Nat, sent : Nat]
RxType == [pc : RxPcs, kind : {"", "canary", "data"}, handle : Nat]

Types ==
    /\ srv \in SrvType /\ cli \in CliType /\ receiver \in RxType
    /\ up \in Seq(Message) /\ down \in Seq(Answer) /\ descr \in Nat

SameTold == srv.told.iters = cli.told.iters

\* Before the server announces its canary, and after it withdrew it.
Before == srv.pc \in {"new", "listening", "opened"}
After == srv.pc \in {"ready", "failed", "closing", "joining", "closed"}

\* The regions of the server, and the receiver, which runs only after the canary.
RegionsInv ==
    /\ Before => /\ srv.regions = {} /\ srv.next = 0 /\ srv.i = 0 /\ up = <<>> /\ down = <<>>
                 /\ cli.pc \in {"new", "opened", "failed", "closed"}
    /\ srv.pc = "canary" =>
          /\ srv.regions = {[handle |-> 1, buffer |-> "canary", ready |-> FALSE]} /\ srv.next = 1
    /\ ~After => descr = 0 /\ receiver = NoRx /\ ~srv.freed
    /\ After => \A r \in srv.regions : r.handle = 2 /\ r.buffer = "data" /\ descr = 2
    /\ srv.pc = "ready" => srv.i = srv.told.iters /\ (descr = 0 => srv.next = 1)
    /\ descr # 0 => descr = 2 /\ srv.i = srv.told.iters

\* What is on its way, and in the hands of the receiver.
FlowInv ==
    /\ \A k \in 1 .. Len(up) :
          \/ up[k].kind = "canary" /\ up[k].handle = 1
          \/ up[k].kind = "data" /\ up[k].handle = 2 /\ SameTold
    /\ receiver.pc = "payload" => receiver.kind = "data" /\ receiver.handle = 2 /\ SameTold

\* The region that is announced is the canary's.
AnswersInv == \A k \in 1 .. Len(down) : down[k].type = "region" => down[k].handle = 1

\* A client that has still to pass the canary, and what it waits for.
Verifying == cli.pc \in {"new", "opened", "send", "payload", "ack"} /\ ~cli.verified

VerifyInv ==
    Verifying =>
        /\ \A k \in 1 .. Len(up) : up[k].kind = "canary"
        /\ receiver.pc # "payload"
        /\ cli.pc \in {"new", "opened"} =>
              cli.i = 0 /\ srv.i = 0 /\ up = <<>> /\ Len(down) <= 1
        /\ cli.pc = "send" => srv.i = cli.i /\ up = <<>> /\ down = <<>>
        /\ cli.pc = "payload" => srv.i = cli.i /\ Len(up) <= 1 /\ down = <<>>
        /\ cli.pc = "ack" =>
              \/ srv.i = cli.i /\ Len(up) <= 2 /\ down = <<>>
              \/ srv.i = cli.i + 1 /\ up = <<>> /\ Len(down) = 1
        /\ cli.pc \in {"send", "payload", "ack"} => cli.handle = 1

\* A client that has passed it.
PassedInv ==
    /\ cli.pc = "ready" => cli.verified
    /\ cli.verified => srv.i = cli.told.iters /\ (descr = 0 => up = <<>>)
    /\ cli.verified => cli.pc \in {"send", "payload", "ack", "ready"}
    /\ cli.verified /\ cli.pc # "ready" => descr # 0 /\ cli.handle = descr

\* The end of the server.
EndInv ==
    /\ srv.pc \in {"closing", "joining", "closed"} => ~srv.connected
    /\ srv.pc = "closed" => receiver.pc \in {"none", "ended"} /\ ~srv.sock /\ ~srv.listen

EndpointInv ==
    /\ Types /\ RegionsInv /\ FlowInv /\ AnswersInv /\ VerifyInv /\ PassedInv /\ EndInv
    /\ CanaryApart

-----------------------------------------------------------------------------
(* The server.                                                             *)

LEMMA NoRxFacts == NoRx.pc = "none" /\ NoRx \in RxType /\ [NoRx EXCEPT !.pc = "ended"] \in RxType
BY Zenon DEF NoRx, RxType, RxPcs

LEMMA InitEndpoint == Init => EndpointInv
<1> SUFFICES ASSUME Init PROVE EndpointInv
  OBVIOUS
<1>1. srv \in SrvType
  <2>1. PICK t \in Told :
           srv = [told |-> t, pc |-> "new", listen |-> FALSE, sock |-> FALSE, shut |-> FALSE, connected |-> FALSE,
                  verified |-> FALSE, regions |-> {}, next |-> 0, i |-> 0, freed |-> FALSE]
    BY DEF Init
  <2> QED
    BY <2>1 DEF SrvType, SrvPcs
<1>2. cli \in CliType
  <2>1. PICK t \in Told :
           cli = [told |-> t, pc |-> "new", sock |-> FALSE, shut |-> FALSE, connected |-> FALSE, verified |-> FALSE,
                  i |-> 0, handle |-> 0, sent |-> 0]
    BY DEF Init
  <2> QED
    BY <2>1 DEF CliType, CliPcs
<1>3. receiver \in RxType
  BY Zenon DEF Init, NoRx, RxType, RxPcs
<1>4. /\ srv.pc = "new" /\ srv.regions = {} /\ srv.next = 0 /\ srv.i = 0 /\ ~srv.freed
      /\ cli.pc = "new" /\ ~cli.verified /\ cli.i = 0
      /\ receiver = NoRx /\ up = <<>> /\ down = <<>> /\ descr = 0 /\ stored = {}
  BY DEF Init
<1>5. Types
  BY <1>1, <1>2, <1>3, <1>4 DEF Types
<1>6. RegionsInv
  BY <1>4 DEF RegionsInv, Before, After
<1>7. FlowInv /\ VerifyInv
  <2>1. Len(up) = 0 /\ Len(down) = 0 /\ receiver.pc = "none"
    BY <1>4, NoRxFacts
  <2> QED
    BY <1>4, <2>1 DEF FlowInv, VerifyInv, Verifying
<1>8. PassedInv /\ EndInv /\ CanaryApart
  BY <1>4 DEF PassedInv, EndInv, CanaryApart
<1>9. AnswersInv
  BY <1>4 DEF AnswersInv
<1> QED
  BY <1>5, <1>6, <1>7, <1>8, <1>9 DEF EndpointInv

\* Steps that change how the server stands and nothing else.
LEMMA Stands ==
    ASSUME EndpointInv, srv' \in SrvType,
           srv'.told = srv.told, srv'.i = srv.i, srv'.next = srv.next,
           UNCHANGED <<receiver, cli, up, down, descr, stored>>,
           \/ /\ Before /\ srv'.regions = srv.regions /\ srv'.freed = srv.freed
              /\ \/ srv'.pc \in {"listening", "opened"} \/ srv'.pc = "failed"
           \/ /\ srv.pc = "canary" /\ srv'.regions = {} /\ srv'.pc = "failed"
           \/ /\ After /\ srv'.regions = srv.regions /\ srv'.freed = srv.freed
              /\ srv'.pc \in {srv.pc, "closing", "joining", "closed"}
              /\ srv'.pc # srv.pc => srv.pc # "closed" /\ ~srv'.connected
              /\ srv'.connected => srv.connected
              /\ srv'.pc = "closed" =>
                    receiver.pc \in {"none", "ended"} /\ ~srv'.sock /\ ~srv'.listen
    PROVE  EndpointInv'
<1> USE DEF EndpointInv
<1>1. Types'
  BY DEF Types
<1>2. RegionsInv'
  BY Zenon DEF RegionsInv, Before, After, NoRx
<1>3. FlowInv' /\ VerifyInv' /\ PassedInv'
  BY DEF FlowInv, SameTold, VerifyInv, Verifying, PassedInv
<1>4. EndInv'
  BY DEF EndInv, Before, After
<1>5. CanaryApart' /\ AnswersInv'
  BY DEF CanaryApart, AnswersInv
<1> QED
  BY <1>1, <1>2, <1>3, <1>4, <1>5

LEMMA OpenInv == ASSUME EndpointInv, Listen \/ Accept \/ AcceptFails PROVE EndpointInv'
<1>0. srv \in SrvType /\ UNCHANGED <<receiver, cli, up, down, descr, stored>> /\ Before
  BY DEF EndpointInv, Types, Listen, Accept, AcceptFails, Before
<1>1. CASE Listen
  <2>1. /\ srv' \in SrvType /\ srv'.pc = "listening" /\ srv'.told = srv.told /\ srv'.i = srv.i
        /\ srv'.next = srv.next /\ srv'.regions = srv.regions /\ srv'.freed = srv.freed
    BY <1>0, <1>1, Zenon DEF Listen, SrvType, SrvPcs
  <2> QED
    BY <1>0, <2>1, Stands
<1>2. CASE Accept
  <2>1. /\ srv' \in SrvType /\ srv'.pc \in {"opened", "failed"} /\ srv'.told = srv.told /\ srv'.i = srv.i
        /\ srv'.next = srv.next /\ srv'.regions = srv.regions /\ srv'.freed = srv.freed
    <3>1. CASE Head(backlog) = "peer"
      BY <1>0, <1>2, <3>1, Zenon DEF Accept, SrvType, SrvPcs
    <3>2. CASE Head(backlog) # "peer"
      BY <1>0, <1>2, <3>2, Zenon DEF Accept, SrvType, SrvPcs
    <3> QED
      BY <3>1, <3>2
  <2> QED
    BY <1>0, <2>1, Stands
<1>3. CASE AcceptFails
  <2>1. /\ srv' \in SrvType /\ srv'.pc = "failed" /\ srv'.told = srv.told /\ srv'.i = srv.i
        /\ srv'.next = srv.next /\ srv'.regions = srv.regions /\ srv'.freed = srv.freed
    BY <1>0, <1>3 DEF AcceptFails, SrvType, SrvPcs
  <2> QED
    BY <1>0, <2>1, Stands
<1> QED
  BY <1>1, <1>2, <1>3

LEMMA VerifyFailsInv == ASSUME EndpointInv, SrvVerifyFails PROVE EndpointInv'
<1>0. /\ srv \in SrvType /\ UNCHANGED <<receiver, cli, up, down, descr, stored>> /\ srv.pc = "canary"
      /\ srv.next = 1 /\ srv.regions = {[handle |-> 1, buffer |-> "canary", ready |-> FALSE]}
  BY DEF EndpointInv, Types, SrvVerifyFails, RegionsInv
<1>1. {r \in srv.regions : r.handle # srv.next} = {}
  BY <1>0
<1>2. srv' = [srv EXCEPT !.regions = {}, !.connected = FALSE, !.verified = FALSE, !.shut = TRUE,
                         !.pc = "failed", !.freed = TRUE]
  BY <1>0, <1>1, Zenon DEF SrvVerifyFails, Failed, Deregistered
<1>3. /\ srv' \in SrvType /\ srv'.pc = "failed" /\ srv'.told = srv.told /\ srv'.i = srv.i
      /\ srv'.next = srv.next /\ srv'.regions = {}
  BY <1>0, <1>2, Zenon DEF SrvType, SrvPcs
<1> QED
  BY <1>0, <1>3, Stands

\* Failed leaves regions, iterations and place alone.
LEMMA FailedTypes ==
    /\ \A s \in SrvType :
          /\ Failed(s) \in SrvType /\ ~Failed(s).connected
          /\ Failed(s).told = s.told /\ Failed(s).pc = s.pc /\ Failed(s).i = s.i
          /\ Failed(s).next = s.next /\ Failed(s).regions = s.regions /\ Failed(s).freed = s.freed
          /\ Failed(s).sock = s.sock /\ Failed(s).listen = s.listen
<1> SUFFICES ASSUME NEW s \in SrvType
             PROVE  /\ Failed(s) \in SrvType /\ ~Failed(s).connected
                    /\ Failed(s).told = s.told /\ Failed(s).pc = s.pc /\ Failed(s).i = s.i
                    /\ Failed(s).next = s.next /\ Failed(s).regions = s.regions /\ Failed(s).freed = s.freed
                    /\ Failed(s).sock = s.sock /\ Failed(s).listen = s.listen
  OBVIOUS
<1> QED
  BY Zenon DEF Failed, SrvType

LEMMA ClosingInv == ASSUME EndpointInv, SrvClose \/ Joined PROVE EndpointInv'
<1>0. srv \in SrvType /\ UNCHANGED <<receiver, cli, up, down, descr, stored>> /\ After
  BY DEF EndpointInv, Types, SrvClose, Joined, After
<1>1. CASE SrvClose
  <2>1. /\ srv' \in SrvType /\ srv'.pc = "closing" /\ srv'.told = srv.told /\ srv'.i = srv.i
        /\ srv'.next = srv.next /\ srv'.regions = srv.regions /\ srv'.freed = srv.freed /\ ~srv'.connected
    BY <1>0, <1>1, Zenon DEF SrvClose, SrvType, SrvPcs
  <2>2. srv.pc # "closed"
    BY <1>1 DEF SrvClose
  <2> QED
    BY <1>0, <2>1, <2>2, Stands
<1>2. CASE Joined
  <2>1. /\ srv' \in SrvType /\ srv'.pc = "closed" /\ srv'.told = srv.told /\ srv'.i = srv.i
        /\ srv'.next = srv.next /\ srv'.regions = srv.regions /\ srv'.freed = srv.freed
        /\ srv'.connected = srv.connected /\ ~srv'.sock /\ ~srv'.listen
    BY <1>0, <1>2, Zenon DEF Joined, SrvType, SrvPcs
  <2>2. srv.pc = "joining" /\ ~srv.connected /\ receiver.pc \in {"none", "ended"}
    BY <1>2 DEF Joined, EndpointInv, EndInv
  <2> QED
    BY <1>0, <2>1, <2>2, Stands
<1> QED
  BY <1>1, <1>2

\* Steps of the receiver that leave messages alone: it ends or is woken.
LEMMA ShutInv == ASSUME EndpointInv, SrvShutdown \/ RxEnds PROVE EndpointInv'
<1> USE DEF EndpointInv
<1>0. srv \in SrvType /\ receiver \in RxType /\ UNCHANGED <<cli, up, down, descr, stored>>
  BY DEF Types, SrvShutdown, RxEnds
<1>1. After
  <2>1. CASE SrvShutdown
    BY <2>1 DEF SrvShutdown, After
  <2>2. CASE RxEnds
    <3>1. receiver # NoRx
      BY <2>2, NoRxFacts DEF RxEnds
    <3> QED
      BY <3>1 DEF RegionsInv
  <2> QED
    BY <2>1, <2>2
<1>2. /\ srv' \in SrvType /\ srv'.told = srv.told /\ srv'.i = srv.i /\ srv'.next = srv.next
      /\ srv'.regions = srv.regions /\ srv'.freed = srv.freed /\ ~srv'.connected
      /\ receiver' \in RxType /\ receiver'.pc # "payload"
      /\ srv'.sock = srv.sock /\ srv'.listen = srv.listen
      /\ \/ srv'.pc = "joining"
         \/ srv'.pc = srv.pc /\ receiver'.pc = "ended"
  <2>1. CASE SrvShutdown
    <3>1. ~srv.connected /\ receiver.pc # "payload"
      BY <2>1 DEF SrvShutdown, EndInv
    <3>2. receiver' \in RxType /\ receiver'.pc # "payload"
      BY <1>0, <2>1, <3>1, Zenon DEF SrvShutdown, RxType, RxPcs
    <3> QED
      BY <1>0, <2>1, <3>1, <3>2, Zenon DEF SrvShutdown, SrvType, SrvPcs
  <2>2. CASE RxEnds
    <3>1. receiver' \in RxType /\ receiver'.pc = "ended"
      BY <1>0, <2>2, Zenon DEF RxEnds, RxFailed, NoRx, RxType, RxPcs
    <3> QED
      BY <1>0, <2>2, <3>1, FailedTypes DEF RxEnds, RxFailed
  <2> QED
    BY <2>1, <2>2
<1>3. Types'
  BY <1>0, <1>2 DEF Types
<1>4. RegionsInv'
  BY <1>0, <1>1, <1>2 DEF RegionsInv, Before, After
<1>5. FlowInv' /\ VerifyInv' /\ PassedInv'
  BY <1>0, <1>2 DEF FlowInv, SameTold, VerifyInv, Verifying, PassedInv
<1>6. EndInv'
  BY <1>1, <1>2 DEF EndInv
<1>7. CanaryApart' /\ AnswersInv'
  BY <1>0, <1>2 DEF CanaryApart, AnswersInv
<1> QED
  BY <1>3, <1>4, <1>5, <1>6, <1>7

LEMMA AnnounceInv == ASSUME EndpointInv, Announce PROVE EndpointInv'
<1> USE DEF EndpointInv
<1>0. /\ srv \in SrvType /\ UNCHANGED <<receiver, cli, up, descr, stored>> /\ Before /\ srv.pc = "opened"
      /\ srv.regions = {} /\ srv.next = 0 /\ srv.i = 0 /\ up = <<>> /\ down = <<>>
      /\ cli.pc \in {"new", "opened", "failed", "closed"}
      /\ descr = 0 /\ receiver = NoRx /\ ~srv.freed /\ srv.told.len \in Lengths
  BY DEF Types, Announce, RegionsInv, Before, After, SrvType, Told
<1>1. srv' = [srv EXCEPT !.next = 1, !.pc = "canary",
                         !.regions = {[handle |-> 1, buffer |-> "canary", ready |-> FALSE]}]
  <2>1. srv.next + 1 = 1 /\ srv.regions \cup {[handle |-> 1, buffer |-> "canary", ready |-> FALSE]}
                            = {[handle |-> 1, buffer |-> "canary", ready |-> FALSE]}
    BY <1>0
  <2>2. Registered(srv, "canary") =
           [srv EXCEPT !.next = 1, !.regions = {[handle |-> 1, buffer |-> "canary", ready |-> FALSE]}]
    BY <1>0, <2>1 DEF Registered, SrvType
  <2> QED
    BY <1>0, <2>2, Zenon DEF Announce, SrvType
<1>2. /\ srv' \in SrvType /\ srv'.pc = "canary" /\ srv'.told = srv.told /\ srv'.i = 0
      /\ srv'.next = 1 /\ srv'.regions = {[handle |-> 1, buffer |-> "canary", ready |-> FALSE]}
      /\ ~srv'.freed
  <2>1. {[handle |-> 1, buffer |-> "canary", ready |-> FALSE]} \in SUBSET Region
    BY DEF Region
  <2> QED
    BY <1>0, <1>1, <2>1, Zenon DEF SrvType, SrvPcs
<1>3. down' \in Seq(Answer) /\ Len(down') = 1 /\ AnswersInv'
  <2>1. [type |-> "region", handle |-> srv.next + 1, len |-> srv.told.len, ok |-> TRUE] \in Answer
    BY <1>0 DEF Answer
  <2> QED
    BY <1>0, <2>1 DEF Announce, AnswersInv
<1>4. Types'
  BY <1>0, <1>2, <1>3 DEF Types
<1>5. RegionsInv'
  BY <1>0, <1>2 DEF RegionsInv, Before, After
<1>6. FlowInv'
  <2>1. Len(up) = 0 /\ receiver.pc = "none"
    BY <1>0, NoRxFacts
  <2> QED
    BY <1>0, <2>1 DEF FlowInv
<1>7. VerifyInv'
  BY <1>0, <1>2, <1>3 DEF VerifyInv, Verifying
<1>8. PassedInv'
  BY <1>0, <1>2 DEF PassedInv
<1>9. EndInv' /\ CanaryApart'
  BY <1>0, <1>2 DEF EndInv, CanaryApart
<1> QED
  BY <1>3, <1>4, <1>5, <1>6, <1>7, <1>8, <1>9

LEMMA CanaryInv == ASSUME EndpointInv, Canary PROVE EndpointInv'
<1> USE DEF EndpointInv
<1>0. /\ srv \in SrvType /\ up \in Seq(Message) /\ down \in Seq(Answer)
      /\ srv.pc = "canary" /\ Len(up) \in Nat /\ Len(up) >= 2 /\ UNCHANGED <<receiver, cli, descr>>
      /\ srv.regions = {[handle |-> 1, buffer |-> "canary", ready |-> FALSE]} /\ srv.next = 1
      /\ descr = 0 /\ receiver = NoRx /\ ~srv.freed /\ srv.i \in Nat
  BY DEF Types, Canary, RegionsInv, After, SrvType
<1>1. /\ srv' \in SrvType /\ srv'.pc = "canary" /\ srv'.told = srv.told /\ srv'.i = srv.i + 1
      /\ srv'.next = srv.next /\ srv'.regions = srv.regions /\ srv'.freed = srv.freed
  <2>1. srv' = [srv EXCEPT !.i = srv.i + 1]
    BY DEF Canary
  <2> QED
    BY <1>0, <2>1 DEF SrvType
<1>2. up[1] \in Message /\ up[1].kind = "canary" /\ up[1].handle = 1
  <2>1. PICK r \in srv.regions : r.handle = up[1].handle
    BY DEF Canary, Named
  <2>2. up[1].handle = 1
    BY <1>0, <2>1
  <2>3. 1 \in 1 .. Len(up)
    BY <1>0
  <2> QED
    BY <1>0, <2>2, <2>3 DEF FlowInv
<1>3. /\ up' \in Seq(Message) /\ Len(up') = Len(up) - 2
      /\ \A k \in 1 .. Len(up') : k + 2 \in 1 .. Len(up) /\ up'[k] = up[k + 2]
  <2>1. up' = SubSeq(up, 3, Len(up))
    BY DEF Canary
  <2> QED
    <3>1. PICK n : n = Len(up)
      BY Zenon
    <3>2. n \in Nat /\ n >= 2 /\ \A j \in 3 .. n : up[j] \in Message
      BY <1>0, <3>1
    <3>3. 3 \in Int /\ n \in Int
      BY <3>2
    <3>4. /\ SubSeq(up, 3, n) \in Seq(Message)
          /\ Len(SubSeq(up, 3, n)) = IF 3 <= n THEN n - 3 + 1 ELSE 0
          /\ \A j \in 1 .. n - 3 + 1 : SubSeq(up, 3, n)[j] = up[3 + j - 1]
      BY <3>2, <3>3, SubSeqProperties
    <3>5. up' = SubSeq(up, 3, n)
      BY <2>1, <3>1
    <3>6. Len(up') = n - 2
      BY <3>2, <3>4, <3>5
    <3>7. ASSUME NEW k \in 1 .. Len(up') PROVE k + 2 \in 1 .. n /\ up'[k] = up[k + 2]
      <4>1. k \in 1 .. n - 3 + 1 /\ 3 + k - 1 = k + 2
        BY <3>2, <3>6
      <4> QED
        BY <3>2, <3>4, <3>5, <4>1
    <3> QED
      BY <3>1, <3>4, <3>5, <3>6, <3>7
<1>4. /\ down' \in Seq(Answer) /\ Len(down') = Len(down) + 1 /\ AnswersInv'
  <2>1. Ack(up[1].handle) \in Answer /\ Ack(up[1].handle).type = "ack"
    BY <1>2 DEF Ack, Answer
  <2> QED
    BY <1>0, <2>1 DEF Canary, AnswersInv
<1>5. Types'
  BY <1>0, <1>1, <1>3, <1>4 DEF Types
<1>6. RegionsInv'
  BY <1>0, <1>1 DEF RegionsInv, Before, After
<1>7. FlowInv'
  BY <1>0, <1>1, <1>3, Zenon DEF FlowInv, SameTold, NoRx
<1>8. ~cli.verified /\ cli.pc # "ready"
  BY <1>0 DEF PassedInv
<1>9. VerifyInv'
  <2> SUFFICES ASSUME Verifying PROVE VerifyInv'
    BY <1>0 DEF VerifyInv, Verifying
  <2>1. cli.pc = "ack" /\ srv.i = cli.i /\ Len(up) = 2 /\ down = <<>> /\ cli.handle = 1
    <3>1. Len(up) # 0 /\ ~(Len(up) <= 1)
      BY <1>0
    <3>2. up # <<>>
      BY <3>1
    <3>3. cli.pc = "ack"
      BY <3>1, <3>2, Zenon DEF VerifyInv, Verifying
    <3>4. srv.i = cli.i /\ Len(up) <= 2 /\ down = <<>> /\ cli.handle = 1
      BY <3>2, <3>3, Zenon DEF VerifyInv
    <3>5. Len(up) = 2
      <4>1. PICK n : n = Len(up)
        BY Zenon
      <4>2. n \in Nat /\ n >= 2 /\ n <= 2
        BY <1>0, <3>4, <4>1, Zenon
      <4> QED
        BY <4>1, <4>2
    <3> QED
      BY <3>3, <3>4, <3>5
  <2>2. up' = <<>> /\ Len(down') = 1
    BY <1>3, <1>4, <2>1
  <2> QED
    BY <1>0, <1>1, <2>1, <2>2, NoRxFacts DEF VerifyInv
<1>10. PassedInv' /\ EndInv'
  BY <1>0, <1>1, <1>8 DEF PassedInv, EndInv
<1>11. CanaryApart'
  <2>1. PICK r \in srv.regions : stored' = stored \cup {Stored(up[1].kind, r)}
    BY DEF Canary, Named
  <2>2. /\ Stored(up[1].kind, r).kind = "canary" /\ Stored(up[1].kind, r).buffer = "canary"
        /\ Stored(up[1].kind, r).there
    <3>1. r.buffer = "canary"
      BY <1>0, <2>1
    <3>2. Stored(up[1].kind, r).there <=> (r.buffer = "canary" => ~srv.freed)
      BY Zenon DEF Stored
    <3> QED
      BY <1>0, <1>2, <3>1, <3>2 DEF Stored
  <2> QED
    BY <1>0, <1>1, <2>1, <2>2 DEF CanaryApart
<1> QED
  BY <1>4, <1>5, <1>6, <1>7, <1>9, <1>10, <1>11

LEMMA VerifiedInv == ASSUME EndpointInv, SrvVerified PROVE EndpointInv'
<1> USE DEF EndpointInv
<1>0. /\ srv \in SrvType /\ receiver \in RxType /\ UNCHANGED <<cli, up, down, descr, stored>>
      /\ srv.pc = "canary" /\ srv.i = srv.told.iters /\ srv.next = 1 /\ descr = 0
      /\ srv.regions = {[handle |-> 1, buffer |-> "canary", ready |-> FALSE]}
  BY DEF Types, SrvVerified, RegionsInv, After
<1>1. {r \in srv.regions : r.handle # srv.next} = {}
  BY <1>0
<1>2. srv' = [srv EXCEPT !.regions = {}, !.pc = "ready", !.verified = TRUE, !.freed = TRUE]
  BY <1>0, <1>1, Zenon DEF SrvVerified, Deregistered
<1>3. /\ srv' \in SrvType /\ srv'.pc = "ready" /\ srv'.told = srv.told /\ srv'.i = srv.i
      /\ srv'.next = srv.next /\ srv'.regions = {}
  BY <1>0, <1>2, Zenon DEF SrvType, SrvPcs
<1>4. receiver' \in RxType /\ receiver'.pc # "payload"
  BY <1>0, Zenon DEF SrvVerified, RxType, RxPcs
<1>5. Types'
  BY <1>0, <1>3, <1>4 DEF Types
<1>6. RegionsInv'
  BY <1>0, <1>3 DEF RegionsInv, Before, After
<1>7. FlowInv' /\ VerifyInv' /\ PassedInv'
  BY <1>0, <1>3, <1>4 DEF FlowInv, SameTold, VerifyInv, Verifying, PassedInv
<1>8. EndInv' /\ CanaryApart' /\ AnswersInv'
  BY <1>0, <1>3 DEF EndInv, CanaryApart, AnswersInv
<1> QED
  BY <1>5, <1>6, <1>7, <1>8

LEMMA RegisterDataInv == ASSUME EndpointInv, RegisterData PROVE EndpointInv'
<1> USE DEF EndpointInv
<1>0. /\ srv \in SrvType /\ UNCHANGED <<receiver, cli, up, down, stored>> /\ descr = 0
      /\ srv.pc = "ready" /\ srv.i = srv.told.iters /\ srv.next = 1 /\ srv.regions = {}
  BY DEF Types, RegisterData, RegionsInv, After
<1>1. srv' = [srv EXCEPT !.next = 2, !.regions = {[handle |-> 2, buffer |-> "data", ready |-> FALSE]}]
  BY <1>0 DEF RegisterData, Registered, SrvType
<1>2. /\ srv' \in SrvType /\ srv'.pc = "ready" /\ srv'.told = srv.told /\ srv'.i = srv.i
      /\ srv'.next = 2 /\ srv'.regions = {[handle |-> 2, buffer |-> "data", ready |-> FALSE]}
  <2>1. {[handle |-> 2, buffer |-> "data", ready |-> FALSE]} \in SUBSET Region
    BY DEF Region
  <2> QED
    BY <1>0, <1>1, <2>1, Zenon DEF SrvType
<1>3. descr' = 2
  BY <1>2 DEF RegisterData
<1>4. Types'
  BY <1>0, <1>2, <1>3 DEF Types
<1>5. RegionsInv'
  BY <1>0, <1>2, <1>3 DEF RegionsInv, Before, After
<1>6. FlowInv' /\ VerifyInv' /\ PassedInv'
  BY <1>0, <1>2, <1>3 DEF FlowInv, SameTold, VerifyInv, Verifying, PassedInv
<1>7. EndInv' /\ CanaryApart' /\ AnswersInv'
  BY <1>0, <1>2 DEF EndInv, CanaryApart, AnswersInv
<1> QED
  BY <1>4, <1>5, <1>6, <1>7

-----------------------------------------------------------------------------
(* The receiver.                                                           *)

LEMMA RxHeaderInv == ASSUME EndpointInv, RxHeader PROVE EndpointInv'
<1> USE DEF EndpointInv
<1>0. /\ srv \in SrvType /\ receiver \in RxType /\ up \in Seq(Message) /\ up # <<>>
      /\ receiver.pc = "idle" /\ UNCHANGED <<cli, down, descr, stored>>
  BY DEF Types, RxHeader
<1>1. After
  BY <1>0, NoRxFacts DEF RegionsInv
<1>2. /\ up[1] \in Message /\ 1 \in 1 .. Len(up) /\ up' \in Seq(Message) /\ Len(up') = Len(up) - 1
      /\ Len(up) \in Nat
      /\ \A k \in 1 .. Len(up') : k + 1 \in 1 .. Len(up) /\ up'[k] = up[k + 1]
  BY <1>0 DEF RxHeader
<1>3. /\ srv' \in SrvType /\ srv'.told = srv.told /\ srv'.i = srv.i /\ srv'.next = srv.next
      /\ srv'.regions = srv.regions /\ srv'.freed = srv.freed /\ srv'.pc = srv.pc
      /\ srv'.connected => srv.connected
      /\ srv'.sock = srv.sock /\ srv'.listen = srv.listen
      /\ receiver' \in RxType
      /\ receiver'.pc = "payload" =>
            Named(up[1].handle) # {} /\ receiver'.kind = up[1].kind /\ receiver'.handle = up[1].handle
  <2>1. CASE RxFailed
    <3>1. receiver' \in RxType /\ receiver'.pc = "ended"
      BY <2>1, NoRxFacts, Zenon DEF RxFailed, NoRx
    <3> QED
      BY <1>0, <2>1, <3>1, FailedTypes DEF RxFailed
  <2>2. CASE /\ Named(up[1].handle) # {} /\ UNCHANGED srv
             /\ receiver' = [pc |-> IF \E r \in Named(up[1].handle) : r.ready THEN "wait" ELSE "payload",
                             kind |-> up[1].kind, handle |-> up[1].handle]
    <3>1. up[1].kind \in {"canary", "data"} /\ up[1].handle \in Nat
      BY <1>2 DEF Message
    <3>2. receiver' \in RxType /\ receiver'.kind = up[1].kind /\ receiver'.handle = up[1].handle
      BY <2>2, <3>1, Zenon DEF RxType, RxPcs
    <3> QED
      BY <1>0, <2>2, <3>2
  <2> QED
    BY <2>1, <2>2 DEF RxHeader
<1>4. receiver'.pc = "payload" => up[1].kind = "data" /\ up[1].handle = 2
  <2> SUFFICES ASSUME receiver'.pc = "payload" PROVE up[1].kind = "data" /\ up[1].handle = 2
    OBVIOUS
  <2>1. PICK r \in srv.regions : r.handle = up[1].handle
    BY <1>3 DEF Named
  <2>2. up[1].handle = 2
    BY <1>1, <2>1 DEF RegionsInv
  <2> QED
    BY <1>2, <2>2 DEF FlowInv
<1>5. Types'
  BY <1>0, <1>2, <1>3 DEF Types
<1>6. RegionsInv'
  BY <1>0, <1>1, <1>3 DEF RegionsInv, Before, After
<1>7. FlowInv'
  BY <1>0, <1>2, <1>3, <1>4 DEF FlowInv, SameTold
<1>8. VerifyInv'
  <2> SUFFICES ASSUME Verifying PROVE VerifyInv'
    BY <1>0 DEF VerifyInv, Verifying
  <2>1. \A k \in 1 .. Len(up) : up[k].kind = "canary"
    BY DEF VerifyInv
  <2>2. receiver'.pc # "payload"
    BY <1>2, <1>4, <2>1
  <2>3. \A k \in 1 .. Len(up') : up'[k].kind = "canary"
    BY <1>2, <2>1
  <2>4. /\ cli.pc \in {"payload", "ack"} /\ cli.handle = 1 /\ srv.i = cli.i /\ down = <<>>
        /\ cli.pc = "payload" => Len(up) <= 1
        /\ cli.pc = "ack" => Len(up) <= 2
    BY <1>0, Zenon DEF VerifyInv, Verifying
  <2>5. /\ cli.pc = "payload" => Len(up') <= 1
        /\ cli.pc = "ack" => Len(up') <= 2
    BY <1>2, <2>4
  <2> QED
    BY <1>0, <1>3, <2>2, <2>3, <2>4, <2>5 DEF VerifyInv
<1>9. PassedInv'
  BY <1>0, <1>3 DEF PassedInv
<1>10. EndInv' /\ CanaryApart' /\ AnswersInv'
  BY <1>0, <1>3 DEF EndInv, CanaryApart, AnswersInv
<1> QED
  BY <1>5, <1>6, <1>7, <1>8, <1>9, <1>10

LEMMA RxPayloadInv == ASSUME EndpointInv, RxPayload PROVE EndpointInv'
<1> USE DEF EndpointInv
<1>0. /\ srv \in SrvType /\ receiver \in RxType /\ up \in Seq(Message) /\ up # <<>> /\ down \in Seq(Answer)
      /\ receiver.pc = "payload" /\ receiver.kind = "data" /\ receiver.handle = 2 /\ SameTold
      /\ UNCHANGED <<cli, descr>>
  BY DEF Types, RxPayload, FlowInv
<1>1. After
  BY <1>0, NoRxFacts DEF RegionsInv
<1>2. /\ up' \in Seq(Message) /\ Len(up') = Len(up) - 1 /\ Len(up) \in Nat
      /\ \A k \in 1 .. Len(up') : k + 1 \in 1 .. Len(up) /\ up'[k] = up[k + 1]
  BY <1>0 DEF RxPayload
<1>3. PICK r \in srv.regions :
        /\ stored' = stored \cup {Stored(receiver.kind, r)}
        /\ srv' = [srv EXCEPT !.regions = (@ \ {r}) \cup {[r EXCEPT !.ready = TRUE]}]
  BY Zenon DEF RxPayload, Named
<1>4. r \in Region /\ r.handle = 2 /\ r.buffer = "data" /\ descr = 2
  BY <1>0, <1>1 DEF RegionsInv, SrvType
<1>5. /\ [r EXCEPT !.ready = TRUE] \in Region
      /\ [r EXCEPT !.ready = TRUE].handle = 2 /\ [r EXCEPT !.ready = TRUE].buffer = "data"
  BY <1>4, Zenon DEF Region
<1>6. /\ srv' \in SrvType /\ srv'.told = srv.told /\ srv'.i = srv.i /\ srv'.next = srv.next
      /\ srv'.freed = srv.freed /\ srv'.pc = srv.pc /\ srv'.connected = srv.connected
      /\ srv'.sock = srv.sock /\ srv'.listen = srv.listen
      /\ srv'.regions = (srv.regions \ {r}) \cup {[r EXCEPT !.ready = TRUE]}
  <2>1. PICK R : R = (srv.regions \ {r}) \cup {[r EXCEPT !.ready = TRUE]}
    BY Zenon
  <2>2. R \in SUBSET Region
    BY <1>0, <1>5, <2>1, Zenon DEF SrvType
  <2>3. srv' = [srv EXCEPT !.regions = R]
    BY <1>3, <2>1
  <2> QED
    BY <1>0, <2>1, <2>2, <2>3 DEF SrvType
<1>7. receiver' \in RxType /\ receiver'.pc \in {"idle", "ended"}
  BY Zenon DEF RxPayload, NoRx, RxType, RxPcs
<1>8. down' \in Seq(Answer) /\ AnswersInv'
  <2>1. Ack(receiver.handle) \in Answer /\ Ack(receiver.handle).type = "ack"
    BY <1>0 DEF Ack, Answer
  <2> QED
    BY <1>0, <2>1 DEF RxPayload, AnswersInv
<1>9. Types'
  BY <1>0, <1>2, <1>6, <1>7, <1>8 DEF Types
<1>10. RegionsInv'
  <2>1. \A q \in srv'.regions : q.handle = 2 /\ q.buffer = "data"
    BY <1>1, <1>5, <1>6, Zenon DEF RegionsInv
  <2> QED
    BY <1>0, <1>1, <1>4, <1>6, <2>1 DEF RegionsInv, Before, After
<1>11. FlowInv'
  BY <1>0, <1>2, <1>6, <1>7 DEF FlowInv, SameTold
<1>12. VerifyInv'
  BY <1>0 DEF VerifyInv, Verifying
<1>13. PassedInv'
  BY <1>0, <1>4, <1>6 DEF PassedInv
<1>14. EndInv'
  BY <1>0, <1>6 DEF EndInv
<1>15. CanaryApart'
  <2>1. /\ Stored(receiver.kind, r).kind = "data" /\ Stored(receiver.kind, r).buffer = "data"
    BY <1>0, <1>4 DEF Stored
  <2>2. Stored(receiver.kind, r).there <=> (r.buffer = "canary" => ~srv.freed)
    BY Zenon DEF Stored
  <2> QED
    BY <1>0, <1>3, <1>4, <1>6, <2>1, <2>2 DEF CanaryApart, SameTold
<1> QED
  BY <1>8, <1>9, <1>10, <1>11, <1>12, <1>13, <1>14, <1>15

-----------------------------------------------------------------------------
(* The client.                                                             *)

\* A client that has failed, or has not begun, or closes.
LEMMA CliEndsInv == ASSUME EndpointInv, ConnectFails \/ CliFails \/ CliClose PROVE EndpointInv'
<1> USE DEF EndpointInv
<1>0. cli \in CliType /\ UNCHANGED <<srv, receiver, up, down, descr, stored>>
  BY DEF Types, ConnectFails, CliFails, CliClose
<1>1. /\ cli' \in CliType /\ cli'.pc \in {"failed", "closed"} /\ cli'.told = cli.told
      /\ ~cli'.verified
  <2>1. CASE ConnectFails
    <3>1. ~cli.verified
      BY <2>1 DEF ConnectFails, PassedInv
    <3> QED
      BY <1>0, <2>1, <3>1 DEF ConnectFails, CliType, CliPcs
  <2>2. CASE CliFails
    BY <1>0, <2>2, Zenon DEF CliFails, Failed, CliType, CliPcs
  <2>3. CASE CliClose
    BY <1>0, <2>3, Zenon DEF CliClose, Failed, CliType, CliPcs
  <2> QED
    BY <2>1, <2>2, <2>3
<1>2. Types'
  BY <1>0, <1>1 DEF Types
<1>3. RegionsInv'
  BY <1>0, <1>1 DEF RegionsInv, Before, After
<1>4. FlowInv' /\ EndInv' /\ CanaryApart' /\ AnswersInv'
  BY <1>0, <1>1 DEF FlowInv, SameTold, EndInv, CanaryApart, AnswersInv
<1>5. VerifyInv' /\ PassedInv'
  BY <1>1 DEF VerifyInv, Verifying, PassedInv
<1> QED
  BY <1>2, <1>3, <1>4, <1>5

LEMMA CliOpensInv == ASSUME EndpointInv, Connect \/ TakeRegion PROVE EndpointInv'
<1> USE DEF EndpointInv
<1>0. cli \in CliType /\ down \in Seq(Answer) /\ UNCHANGED <<srv, receiver, up, descr, stored>>
  BY DEF Types, Connect, TakeRegion
<1>1. ~cli.verified /\ cli.pc \in {"new", "opened"}
  BY DEF Connect, TakeRegion, PassedInv
<1>2. /\ cli.i = 0 /\ srv.i = 0 /\ up = <<>> /\ Len(down) <= 1 /\ receiver.pc # "payload"
  BY <1>1 DEF VerifyInv, Verifying
<1>3. CASE Connect
  <2>1. cli' \in CliType /\ cli'.pc = "opened" /\ cli'.told = cli.told /\ ~cli'.verified /\ cli'.i = 0
    BY <1>0, <1>1, <1>2, <1>3, Zenon DEF Connect, CliType, CliPcs
  <2>2. UNCHANGED down
    BY <1>3 DEF Connect
  <2>3. Types'
    BY <1>0, <2>1, <2>2 DEF Types
  <2>4. RegionsInv'
    BY <1>0, <2>1, <2>2 DEF RegionsInv, Before, After
  <2>5. FlowInv' /\ AnswersInv' /\ EndInv' /\ CanaryApart'
    BY <1>0, <2>1, <2>2 DEF FlowInv, SameTold, AnswersInv, EndInv, CanaryApart
  <2>6. VerifyInv'
    BY <1>0, <1>2, <2>1, <2>2 DEF VerifyInv, Verifying
  <2>7. PassedInv'
    BY <2>1 DEF PassedInv
  <2> QED
    BY <2>3, <2>4, <2>5, <2>6, <2>7
<1>4. CASE TakeRegion
  <2>1. down # <<>> /\ down' \in Seq(Answer) /\ down' = <<>> /\ Head(down) \in Answer
    <3>1. down # <<>> /\ down' = Tail(down)
      BY <1>4 DEF TakeRegion
    <3>2. Len(down) = 1 /\ Head(down) \in Answer /\ Len(Tail(down)) = Len(down) - 1 /\ Tail(down) \in Seq(Answer)
      <4>1. Head(down) \in Answer /\ Len(Tail(down)) = Len(down) - 1 /\ Tail(down) \in Seq(Answer)
        BY <1>0, <3>1
      <4>2. Len(down) \in Nat /\ Len(down) # 0
        BY <1>0, <3>1
      <4>3. PICK n : n = Len(down)
        BY Zenon
      <4>4. n \in Nat /\ n # 0 /\ n <= 1
        BY <1>2, <4>2, <4>3, Zenon
      <4>5. n = 1
        BY <4>4
      <4> QED
        BY <4>1, <4>3, <4>5, Zenon
    <3>3. Len(Tail(down)) = 0
      BY <3>2
    <3> QED
      BY <3>1, <3>2, <3>3
  <2>2. ~Before
    BY <2>1 DEF RegionsInv
  <2>3. \/ /\ cli' = [cli EXCEPT !.pc = "send", !.handle = Head(down).handle]
           /\ Head(down).type = "region"
        \/ cli' = [Failed(cli) EXCEPT !.pc = "failed"]
    BY <1>4 DEF TakeRegion
  <2>4. /\ cli' \in CliType /\ cli'.told = cli.told /\ ~cli'.verified
        /\ \/ cli'.pc = "send" /\ cli'.handle = Head(down).handle /\ cli'.i = 0 /\ Head(down).type = "region"
           \/ cli'.pc = "failed"
    <3>1. Head(down).handle \in Nat
      BY <2>1 DEF Answer
    <3>2. CASE cli' = [Failed(cli) EXCEPT !.pc = "failed"]
      BY <1>0, <3>2, Zenon DEF Failed, CliType, CliPcs
    <3>3. CASE /\ cli' = [cli EXCEPT !.pc = "send", !.handle = Head(down).handle]
               /\ Head(down).type = "region"
      BY <1>0, <1>1, <1>2, <3>1, <3>3, Zenon DEF CliType, CliPcs
    <3> QED
      BY <2>3, <3>2, <3>3
  <2>5. Types'
    BY <1>0, <2>1, <2>4 DEF Types
  <2>6. RegionsInv'
    BY <1>0, <2>2 DEF RegionsInv, Before, After
  <2>7. FlowInv' /\ AnswersInv' /\ EndInv' /\ CanaryApart'
    BY <1>0, <2>1, <2>4 DEF FlowInv, SameTold, AnswersInv, EndInv, CanaryApart
  <2>8. cli'.pc = "send" => cli'.handle = 1
    BY <2>1, <2>4 DEF AnswersInv
  <2>9. VerifyInv'
    BY <1>0, <1>2, <2>1, <2>4, <2>8 DEF VerifyInv, Verifying
  <2>10. PassedInv'
    BY <2>4 DEF PassedInv
  <2> QED
    BY <2>5, <2>6, <2>7, <2>9, <2>10
<1> QED
  BY <1>3, <1>4

LEMMA SendInv == ASSUME EndpointInv, Send PROVE EndpointInv'
<1> USE DEF EndpointInv
<1>0. /\ cli \in CliType /\ up \in Seq(Message) /\ UNCHANGED <<srv, receiver, down, descr, stored>>
      /\ cli.pc \in {"send", "payload"}
  BY DEF Types, Send
<1>1. /\ cli' \in CliType /\ cli'.told = cli.told /\ cli'.verified = cli.verified /\ cli'.i = cli.i
      /\ cli'.handle = cli.handle
      /\ cli'.pc = IF cli.pc = "send" THEN "payload" ELSE "ack"
  BY <1>0, Zenon DEF Send, CliType, CliPcs
<1>2. PICK m : m = [kind |-> Kind, handle |-> cli.handle]
  BY Zenon
<1>3. /\ m \in Message /\ m.handle = cli.handle
      /\ m.kind = IF cli.verified THEN "data" ELSE "canary"
  BY <1>0, <1>2 DEF Message, Kind, CliType
<1>4. /\ up' = Append(up, m) /\ up' \in Seq(Message) /\ Len(up) \in Nat /\ Len(up') = Len(up) + 1
      /\ \A k \in 1 .. Len(up) : up'[k] = up[k]
      /\ up'[Len(up) + 1] = m
  BY <1>0, <1>2, <1>3 DEF Send
<1>5. \A k \in 1 .. Len(up') : (k \in 1 .. Len(up) /\ up'[k] = up[k]) \/ up'[k] = m
  BY <1>4
<1>6. \/ m.kind = "canary" /\ m.handle = 1 /\ ~cli.verified
      \/ m.kind = "data" /\ m.handle = 2 /\ SameTold /\ cli.verified /\ descr = 2
  <2>1. CASE ~cli.verified
    BY <1>0, <1>3, <2>1 DEF VerifyInv, Verifying
  <2>2. CASE cli.verified
    <3>1. descr # 0 /\ cli.handle = descr /\ srv.i = cli.told.iters
      BY <1>0, <2>2 DEF PassedInv
    <3>2. descr = 2 /\ srv.i = srv.told.iters
      BY <3>1 DEF RegionsInv
    <3> QED
      BY <1>3, <2>2, <3>1, <3>2 DEF SameTold
  <2> QED
    BY <2>1, <2>2
<1>7. Types'
  BY <1>0, <1>1, <1>4 DEF Types
<1>8. ~Before
  BY <1>0 DEF RegionsInv
<1>9. RegionsInv'
  BY <1>0, <1>8 DEF RegionsInv, Before, After
<1>10. FlowInv'
  BY <1>0, <1>1, <1>5, <1>6 DEF FlowInv, SameTold
<1>11. AnswersInv' /\ EndInv' /\ CanaryApart'
  BY <1>0, <1>1 DEF AnswersInv, EndInv, CanaryApart
<1>12. VerifyInv'
  <2> SUFFICES ASSUME ~cli.verified PROVE VerifyInv'
    BY <1>1 DEF VerifyInv, Verifying
  <2>1. /\ \A k \in 1 .. Len(up) : up[k].kind = "canary"
        /\ receiver.pc # "payload" /\ cli.handle = 1 /\ srv.i = cli.i /\ down = <<>>
        /\ cli.pc = "send" => up = <<>>
        /\ cli.pc = "payload" => Len(up) <= 1
    BY <1>0 DEF VerifyInv, Verifying
  <2>2. \A k \in 1 .. Len(up') : up'[k].kind = "canary"
    BY <1>5, <1>6, <2>1
  <2>3. /\ cli.pc = "send" => Len(up') <= 1
        /\ cli.pc = "payload" => Len(up') <= 2
    BY <1>4, <2>1
  <2> QED
    BY <1>0, <1>1, <2>1, <2>2, <2>3 DEF VerifyInv
<1>13. PassedInv'
  BY <1>0, <1>1, <1>6 DEF PassedInv
<1> QED
  BY <1>7, <1>9, <1>10, <1>11, <1>12, <1>13

LEMMA TakeAckInv == ASSUME EndpointInv, TakeAck PROVE EndpointInv'
<1> USE DEF EndpointInv
<1>0. /\ cli \in CliType /\ down \in Seq(Answer) /\ UNCHANGED <<srv, receiver, up, descr, stored>>
      /\ cli.pc = "ack" /\ down # <<>> /\ cli.i \in Nat /\ cli.sent \in Nat
  BY DEF Types, TakeAck, CliType
<1>1. /\ down' \in Seq(Answer) /\ Len(down) \in Nat /\ Len(down') = Len(down) - 1
      /\ \A k \in 1 .. Len(down') : k + 1 \in 1 .. Len(down) /\ down'[k] = down[k + 1]
  BY <1>0 DEF TakeAck
<1>2. AnswersInv'
  BY <1>1 DEF AnswersInv
<1>3. ~Before
  BY <1>0 DEF RegionsInv
<1>4. ~cli.verified => srv.i = cli.i + 1 /\ up = <<>> /\ Len(down) = 1 /\ receiver.pc # "payload" /\ cli.handle = 1
  BY <1>0 DEF VerifyInv, Verifying
<1>5. /\ cli' \in CliType /\ cli'.told = cli.told
      /\ \/ cli'.pc = "failed" /\ ~cli'.verified
         \/ cli'.pc = "ready" /\ cli.verified /\ cli'.verified
         \/ /\ ~cli.verified /\ cli'.i = cli.i + 1 /\ cli'.handle = cli.handle
            /\ \/ cli'.verified /\ cli'.pc = "ready" /\ cli.i + 1 = cli.told.iters
               \/ ~cli'.verified /\ cli'.pc = "send"
  <2>0. PICK n \in Nat, t \in Nat : n = cli.i + 1 /\ t = cli.sent + 1
    BY <1>0
  <2>1. CASE cli' = [Failed(cli) EXCEPT !.pc = "failed"]
    BY <1>0, <2>1, Zenon DEF Failed, CliType, CliPcs
  <2>2. CASE cli.verified /\ cli' = [cli EXCEPT !.pc = "ready", !.sent = cli.sent + 1]
    <3>1. cli' = [cli EXCEPT !.pc = "ready", !.sent = t]
      BY <2>0, <2>2
    <3>2. cli' \in CliType /\ cli'.told = cli.told /\ cli'.pc = "ready" /\ cli'.verified = cli.verified
      BY <1>0, <3>1, Zenon DEF CliType, CliPcs
    <3> QED
      BY <2>2, <3>2, Zenon
  <2>3. CASE /\ ~cli.verified
             /\ cli' = [cli EXCEPT !.i = cli.i + 1, !.verified = (cli.i + 1 = cli.told.iters),
                                   !.pc = IF cli.i + 1 = cli.told.iters THEN "ready" ELSE "send"]
    <3>1. CASE cli.i + 1 = cli.told.iters
      <4>1. cli' = [cli EXCEPT !.i = n, !.verified = TRUE, !.pc = "ready"]
        BY <2>0, <2>3, <3>1, Zenon
      <4>2. /\ cli' \in CliType /\ cli'.told = cli.told /\ cli'.pc = "ready" /\ cli'.verified
            /\ cli'.i = n /\ cli'.handle = cli.handle
        BY <1>0, <4>1, Zenon DEF CliType, CliPcs
      <4> QED
        BY <2>0, <2>3, <3>1, <4>2
    <3>2. CASE cli.i + 1 # cli.told.iters
      <4>1. cli' = [cli EXCEPT !.i = n, !.verified = FALSE, !.pc = "send"]
        BY <2>0, <2>3, <3>2, Zenon
      <4>2. /\ cli' \in CliType /\ cli'.told = cli.told /\ cli'.pc = "send" /\ ~cli'.verified
            /\ cli'.i = n /\ cli'.handle = cli.handle
        BY <1>0, <4>1, Zenon DEF CliType, CliPcs
      <4> QED
        BY <2>0, <2>3, <4>2
    <3> QED
      BY <3>1, <3>2
  <2> QED
    BY <2>1, <2>2, <2>3 DEF TakeAck
<1>6. Types'
  BY <1>0, <1>1, <1>5 DEF Types
<1>7. RegionsInv'
  BY <1>0, <1>3 DEF RegionsInv, Before, After
<1>8. FlowInv' /\ EndInv' /\ CanaryApart'
  BY <1>0, <1>5 DEF FlowInv, SameTold, EndInv, CanaryApart
<1>9. VerifyInv'
  <2> SUFFICES ASSUME Verifying' PROVE VerifyInv'
    BY DEF VerifyInv
  <2>1. cli'.pc = "send" /\ cli'.i = cli.i + 1 /\ cli'.handle = cli.handle /\ ~cli.verified
    BY <1>5 DEF Verifying
  <2>2. down' = <<>>
    BY <1>1, <1>4, <2>1
  <2> QED
    BY <1>0, <1>4, <2>1, <2>2 DEF VerifyInv
<1>10. PassedInv'
  BY <1>0, <1>4, <1>5 DEF PassedInv
<1> QED
  BY <1>2, <1>6, <1>7, <1>8, <1>9, <1>10

LEMMA SubmitInv == ASSUME EndpointInv, Submit PROVE EndpointInv'
<1> USE DEF EndpointInv
<1>0. /\ cli \in CliType /\ UNCHANGED <<srv, receiver, up, down, descr, stored>>
      /\ cli.pc = "ready" /\ cli.verified /\ descr # 0 /\ descr \in Nat
  BY DEF Types, Submit, PassedInv
<1>1. /\ cli' \in CliType /\ cli'.told = cli.told /\ cli'.verified /\ cli'.pc = "send" /\ cli'.handle = descr
  BY <1>0, Zenon DEF Submit, CliType, CliPcs
<1>2. Types'
  BY <1>0, <1>1 DEF Types
<1>3. RegionsInv'
  BY <1>0 DEF RegionsInv, Before, After
<1>4. FlowInv' /\ AnswersInv' /\ EndInv' /\ CanaryApart'
  BY <1>0, <1>1 DEF FlowInv, SameTold, AnswersInv, EndInv, CanaryApart
<1>5. VerifyInv' /\ PassedInv'
  BY <1>0, <1>1 DEF VerifyInv, Verifying, PassedInv
<1> QED
  BY <1>2, <1>3, <1>4, <1>5

-----------------------------------------------------------------------------
(* The theorems.                                                           *)

LEMMA EndpointNext == EndpointInv /\ [Next]_vars => EndpointInv'
<1> SUFFICES ASSUME EndpointInv, [Next]_vars PROVE EndpointInv'
  OBVIOUS
<1>1. CASE UNCHANGED vars \/ Stranger
  <2>1. UNCHANGED <<srv, receiver, cli, up, down, descr, stored>>
    BY <1>1 DEF vars, Stranger
  <2>2. Types' /\ RegionsInv' /\ FlowInv' /\ AnswersInv'
    BY <2>1 DEF EndpointInv, Types, RegionsInv, Before, After, FlowInv, SameTold, AnswersInv
  <2>3. VerifyInv' /\ PassedInv' /\ EndInv' /\ CanaryApart'
    BY <2>1 DEF EndpointInv, VerifyInv, Verifying, PassedInv, EndInv, CanaryApart
  <2> QED
    BY <2>2, <2>3 DEF EndpointInv
<1>2. CASE Server \/ AcceptFails
  BY <1>2, OpenInv, AnnounceInv, CanaryInv, VerifiedInv, VerifyFailsInv, RegisterDataInv DEF Server
<1>3. CASE Closing \/ Receiver
  BY <1>3, ClosingInv, ShutInv, RxHeaderInv, RxPayloadInv DEF Closing, Receiver
<1>4. CASE Client
  BY <1>4, CliEndsInv, CliOpensInv, SendInv, TakeAckInv, SubmitInv DEF Client
<1> QED
  BY <1>1, <1>2, <1>3, <1>4 DEF Next

\* Whatever either side is told to verify with, and whatever fails: a canary
\* payload is stored only in the canary's buffer while that is there, and data
\* only in the application's region, after both sides passed the same number of
\* iterations (mem_service_tcp_verify_server, mem_service_tcp_verify_client,
\* mem_service_tcp_receive_transfer).
THEOREM CanaryStaysApart == Spec => []CanaryApart
<1>1. Init => EndpointInv
  BY InitEndpoint
<1>2. EndpointInv /\ [Next]_vars => EndpointInv'
  BY EndpointNext
<1>3. EndpointInv => CanaryApart
  BY DEF EndpointInv
<1> QED
  BY <1>1, <1>2, <1>3, PTL DEF Spec

\* A server that has closed has no receiver thread on the freed context, no
\* socket and no connection (mem_service_tcp_context_destroy).
THEOREM ClosedLeavesNothing == Spec => []ClosedIsGone
<1>1. Init => EndpointInv
  BY InitEndpoint
<1>2. EndpointInv /\ [Next]_vars => EndpointInv'
  BY EndpointNext
<1>3. EndpointInv => ClosedIsGone
  BY DEF EndpointInv, EndInv, ClosedIsGone
<1> QED
  BY <1>1, <1>2, <1>3, PTL DEF Spec
=============================================================================
