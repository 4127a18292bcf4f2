--------------------------- MODULE ServeLoopProofs ---------------------------
(***************************************************************************)
(* Proof about ServeLoop, for every set of calls of every kind, any number *)
(* of attempts, starts and signals, and every failure:                     *)
(*                                                                         *)
(*   CallsRunAsReported   Spec => []ExecutedAsReported                     *)
(*                                                                         *)
(* The property is not inductive.  How often a call is executed depends on *)
(* how much of it was sent on each of its connections, and whether what    *)
(* was executed is answered depends on which connection the daemon has in  *)
(* hand; ServeInv relates the two.                                         *)
(***************************************************************************)
EXTENDS ServeLoop, FiniteSetTheorems, TLAPS

CallPcs == {"ready", "header", "payload", "wait", "ok", "refused", "failed", "killed", "stalled"}
Replies == {"none", "ok", "capacity_exceeded", "checksum_mismatch", "method_not_allowed"}
Listeners == {"unix", "metrics"}

\* Where the process has a connection in hand.
InHand == {"header", "payload", "answer", "answerBody", "http"}

ProcType == [pc : Loop \cup {"down", "bound", "listening"}, stop : BOOLEAN,
             fds : SUBSET Listeners, cur : Attempts \cup {Nobody}, answer : Replies]
ConnType == [sent : 0 .. 2, hungUp : BOOLEAN, open : BOOLEAN, reply : Replies]
CallType == [pc : CallPcs, try : 1 .. MaxAttempts, late : Nat]

Types ==
    /\ proc \in ProcType /\ queues \in [Listeners -> Seq(Attempts)]
    /\ conn \in [Attempts -> ConnType] /\ calls \in [Calls -> CallType]
    /\ executed \subseteq Attempts

\* What has been sent on the connection of an attempt.
SentInv ==
    \A c \in Calls :
        /\ calls[c].pc \in {"ready", "header"} => conn[Mine(c)].sent = 0
        /\ calls[c].pc = "payload" => conn[Mine(c)].sent = 1
        /\ calls[c].pc = "wait" => conn[Mine(c)].sent = 2
        /\ \A i \in 1 .. MaxAttempts : i > calls[c].try => conn[<<c, i>>].sent = 0

\* The earlier attempts of a call that were delivered as a whole.
Delivered(c) == {a \in Attempts : a[1] = c /\ a[2] < calls[c].try /\ conn[a].sent = 2}

\* An attempt that was delivered is followed by another only when it was late.
LateInv == \A c \in Calls : Cardinality(Delivered(c)) <= calls[c].late

\* The attempt has been connected.
Begun(a) == a[2] < calls[a[1]].try \/ (a[2] = calls[a[1]].try /\ calls[a[1]].pc # "ready")

Waiting(a, l) == Begun(a) /\ conn[a].open /\ Listener(a[1]) = l

\* Connections wait once, on the listener for their kind, and are open.
QueueInv ==
    /\ \A l \in Listeners : \A i, j \in 1 .. Len(queues[l]) :
          queues[l][i] = queues[l][j] => i = j
    /\ \A l \in Listeners : \A i \in 1 .. Len(queues[l]) : Waiting(queues[l][i], l)

\* The listener that is being served.
Busy == IF proc.pc = "http" THEN {"metrics"} ELSE IF proc.pc \in InHand THEN {"unix"} ELSE {}

\* The connection in hand is open and waits no longer; the listeners still to be
\* served have a connection waiting.
HandInv ==
    /\ proc.pc \in InHand =>
          /\ proc.cur \in Attempts /\ Begun(proc.cur) /\ conn[proc.cur].open
          /\ Listener(proc.cur[1]) \in Busy
          /\ \A l \in Listeners : \A i \in 1 .. Len(queues[l]) : queues[l][i] # proc.cur
    /\ proc.pc \in InHand \cup {"dispatch"} =>
          \A l \in proc.fds \ Busy : queues[l] # <<>>
    /\ proc.pc = "payload" => Kind[proc.cur[1]] = "op"
    /\ proc.pc \in {"answer", "answerBody"} /\ proc.answer = "ok" => proc.cur \in executed

\* What was executed was sent as a whole; it is answered, or its client has gone,
\* or it is in hand.
DoneInv ==
    \A a \in executed :
        /\ Kind[a[1]] = "op" /\ conn[a].sent = 2
        /\ conn[a].open => /\ proc.cur = a /\ proc.pc \in {"answer", "answerBody"}
                           /\ proc.answer = "ok"
        /\ ~conn[a].open /\ ~conn[a].hungUp => conn[a].reply = "ok"

\* A reply "ok" to a request was preceded by its execution.
ReplyInv ==
    /\ \A a \in Attempts : conn[a].reply = "ok" /\ Kind[a[1]] = "op" => a \in executed
    /\ \A c \in Calls : calls[c].pc = "ok" /\ Kind[c] = "op" => Mine(c) \in executed

ServeInv == Types /\ SentInv /\ LateInv /\ QueueInv /\ HandInv /\ DoneInv /\ ReplyInv

-----------------------------------------------------------------------------
(* The daemon.                                                             *)

USE DEF Loop, InHand, Listeners

\* Whatever the daemon does to a connection, it does not send for the client.
LEMMA SentKept ==
    ASSUME Types, Types', calls' = calls,
           \A a \in Attempts : conn'[a].sent = conn[a].sent
    PROVE  /\ SentInv => SentInv'
           /\ LateInv => LateInv'
<1>1. SentInv => SentInv'
  BY Zenon DEF Types, CallType, SentInv, Mine, Attempts
<1>2. \A c \in Calls : Delivered(c)' = Delivered(c)
  BY DEF Delivered
<1>3. LateInv => LateInv'
  BY <1>2 DEF LateInv
<1> QED
  BY <1>1, <1>3

\* Records with some of their fields changed.
LEMMA RecordTypes ==
    /\ Down \in ProcType /\ NoConn \in ConnType
    /\ \A r \in ConnType, b \in BOOLEAN : [r EXCEPT !.open = b] \in ConnType
    /\ \A r \in ConnType : [r EXCEPT !.hungUp = TRUE] \in ConnType
    /\ \A r \in ConnType, x \in Replies : [r EXCEPT !.open = FALSE, !.reply = x] \in ConnType
    /\ \A r \in ConnType, n \in 0 .. 2 : [r EXCEPT !.sent = n] \in ConnType
    /\ \A r \in CallType, x \in CallPcs : [r EXCEPT !.pc = x] \in CallType
<1>1. Down \in ProcType
  BY DEF Down, ProcType, Replies
<1>2. NoConn \in ConnType
  BY DEF NoConn, ConnType, Replies
<1>3. ASSUME NEW r \in ConnType PROVE [r EXCEPT !.hungUp = TRUE] \in ConnType
  BY Zenon DEF ConnType
<1>7. ASSUME NEW r \in ConnType, NEW b \in BOOLEAN PROVE [r EXCEPT !.open = b] \in ConnType
  BY DEF ConnType
<1>4. ASSUME NEW r \in ConnType, NEW x \in Replies
      PROVE  [r EXCEPT !.open = FALSE, !.reply = x] \in ConnType
  BY ZenonT(30) DEF ConnType
<1>5. ASSUME NEW r \in ConnType, NEW n \in 0 .. 2 PROVE [r EXCEPT !.sent = n] \in ConnType
  BY DEF ConnType
<1>6. ASSUME NEW r \in CallType, NEW x \in CallPcs PROVE [r EXCEPT !.pc = x] \in CallType
  BY DEF CallType
<1> QED
  BY <1>1, <1>2, <1>3, <1>4, <1>5, <1>6, <1>7, Zenon

LEMMA NoQueuesType == NoQueues \in [Listeners -> Seq(Attempts)] /\ \A l \in Listeners : NoQueues[l] = <<>>
<1>1. NoQueues \in [unix : Seq(Attempts), metrics : Seq(Attempts)]
  BY DEF NoQueues
<1>2. NoQueues \in [Listeners -> Seq(Attempts)]
  BY <1>1
<1>3. \A l \in Listeners : NoQueues[l] = <<>>
  BY DEF NoQueues
<1> QED
  BY <1>2, <1>3

LEMMA InitInv == Init => ServeInv
<1> SUFFICES ASSUME Init PROVE ServeInv
  OBVIOUS
<1> USE ServeAssumption
<1>1. Types
  <2>1. proc \in ProcType
    <3>1. [Down EXCEPT !.pc = "check"] \in ProcType
      BY RecordTypes, ZenonT(30) DEF ProcType
    <3> QED
      BY <3>1, RecordTypes, Zenon DEF Init
  <2>2. conn \in [Attempts -> ConnType]
    BY RecordTypes, Zenon DEF Init
  <2>3. calls \in [Calls -> CallType]
    BY DEF Init, CallType, CallPcs
  <2> QED
    BY <2>1, <2>2, <2>3, NoQueuesType DEF Init, Types
<1>2. SentInv
  BY DEF Init, SentInv, Mine, Attempts, NoConn
<1>3. \A c \in Calls : Delivered(c) = {}
  BY DEF Init, Delivered, Attempts, NoConn
<1>4. LateInv
  BY <1>3, FS_EmptySet DEF LateInv, Init
<1>5. QueueInv
  BY NoQueuesType DEF QueueInv, Init
<1>6. HandInv /\ DoneInv /\ ReplyInv
  BY DEF HandInv, DoneInv, ReplyInv, Init, Down, NoConn, Busy
<1> QED
  BY <1>1, <1>2, <1>4, <1>5, <1>6 DEF ServeInv

\* Steps that touch neither a connection nor a queue, while none is in hand.
Control == Bind \/ Listen \/ Ready \/ CheckStop \/ Select \/ AcceptFails

LEMMA ControlInv == ServeInv /\ Control => ServeInv'
<1> SUFFICES ASSUME ServeInv, Control PROVE ServeInv'
  OBVIOUS
<1> USE DEF ServeInv
<1>1. UNCHANGED <<queues, conn, calls, executed>>
  BY DEF Control, Bind, Listen, Ready, CheckStop, Select, AcceptFails, clientVars
<1>a. /\ proc' \in ProcType
      /\ proc.pc \notin InHand /\ proc'.pc \notin InHand
      /\ proc'.pc = "dispatch" => \A l \in proc'.fds : queues[l] # <<>>
  <2>0. proc \in ProcType /\ DOMAIN queues = Listeners
    BY DEF Types
  <2>1. CASE Bind \/ Listen \/ CheckStop \/ AcceptFails
    BY <2>0, <2>1 DEF Bind, Listen, CheckStop, AcceptFails, At, ProcType
  <2>2. CASE Ready
    BY <2>0, <2>2, Zenon DEF Ready, At, ProcType
  <2>3. CASE Select
    BY <2>0, <2>3, Zenon DEF Select, At, ProcType
  <2> QED
    BY <2>1, <2>2, <2>3 DEF Control
<1>2. Types'
  BY <1>1, <1>a DEF Types
<1>3. SentInv' /\ LateInv'
  BY <1>1, <1>2, SentKept, ZenonT(30)
<1>4. QueueInv'
  BY <1>1 DEF QueueInv, Waiting, Begun
<1>5. HandInv'
  BY <1>1, <1>a DEF HandInv, Busy
<1>6. DoneInv' /\ ReplyInv'
  BY <1>1, <1>a DEF DoneInv, ReplyInv, Mine
<1> QED
  BY <1>2, <1>3, <1>4, <1>5, <1>6

\* When the process is gone every connection is closed; the one request that
\* may have been executed and not answered is that of a client that hung up.
LEMMA GoneInv ==
    ASSUME ServeInv, NEW p, Gone(p), UNCHANGED <<calls, executed>>,
           proc.pc \in {"answer", "answerBody"} => Cur.hungUp
    PROVE  ServeInv'
<1> USE DEF ServeInv
<1>1. /\ proc' = Down /\ queues' = NoQueues
      /\ conn' = [a \in Attempts |-> [conn[a] EXCEPT !.open = FALSE]]
  BY DEF Gone, AllClosed
<1>2. \A a \in Attempts : /\ conn'[a].sent = conn[a].sent /\ conn'[a].hungUp = conn[a].hungUp
                          /\ conn'[a].reply = conn[a].reply /\ conn'[a].open = FALSE
  BY SMTT(20), <1>1 DEF Types, ConnType
<1>3. Types'
  <2>1. conn' \in [Attempts -> ConnType]
    BY <1>1, RecordTypes, Zenon DEF Types
  <2> QED
    BY <1>1, <2>1, RecordTypes, NoQueuesType, ZenonT(30) DEF Types
<1>4. SentInv' /\ LateInv'
  BY <1>2, <1>3, SentKept
<1>5. QueueInv'
  BY <1>1, NoQueuesType DEF QueueInv
<1>6. HandInv'
  BY <1>1 DEF HandInv, Down, Busy
<1>7. DoneInv'
  BY <1>1, <1>2, SMTT(30) DEF DoneInv, Types, Cur
<1>8. ReplyInv'
  BY <1>1, <1>2 DEF ReplyInv, Mine, Types
<1> QED
  BY <1>3, <1>4, <1>5, <1>6, <1>7, <1>8

\* The connection in hand is closed with a reply.
LEMMA CloseInv ==
    ASSUME ServeInv, proc.pc \in InHand, NEW reply \in Replies, Close(reply),
           NEW l \in Busy, NEW ok, NEW stop \in BOOLEAN,
           proc' = [Served(l, ok) EXCEPT !.stop = stop],
           UNCHANGED <<queues, calls, executed>>,
           reply = "ok" /\ Kind[proc.cur[1]] = "op" => proc.cur \in executed,
           proc.cur \in executed => reply = "ok" \/ Cur.hungUp
    PROVE  ServeInv'
<1> USE DEF ServeInv
<1> DEFINE a0 == proc.cur
<1>1. /\ a0 \in Attempts /\ conn[a0].open
      /\ conn' = [conn EXCEPT ![a0] = [conn[a0] EXCEPT !.open = FALSE, !.reply = reply]]
  BY Zenon DEF HandInv, Close, Types
<1>2. /\ \A a \in Attempts \ {a0} : conn'[a] = conn[a]
      /\ conn'[a0].sent = conn[a0].sent /\ conn'[a0].hungUp = conn[a0].hungUp
      /\ conn'[a0].reply = reply /\ conn'[a0].open = FALSE
  BY <1>1 DEF Types, ConnType
<1>3. /\ proc'.pc = "dispatch" /\ proc'.fds = proc.fds \ {l}
      /\ proc'.cur = Nobody /\ proc'.answer = "none"
      /\ proc' \in ProcType
  BY Zenon DEF Served, Types, ProcType, Replies
<1>4. Types'
  <2>1. conn' \in [Attempts -> ConnType]
    BY <1>1, RecordTypes, Zenon DEF Types
  <2> QED
    BY <1>3, <2>1 DEF Types
<1>5. SentInv' /\ LateInv'
  BY <1>1, <1>2, <1>4, SentKept, Zenon
<1>6. QueueInv'
  BY <1>1, <1>2 DEF QueueInv, Waiting, HandInv, Begun, Types
<1>7. HandInv'
  BY <1>3 DEF HandInv, Busy
<1>8. DoneInv'
  BY <1>1, <1>2 DEF DoneInv, Types, Cur
<1>9. ReplyInv'
  BY <1>1, <1>2 DEF ReplyInv, Mine, Types
<1> QED
  BY <1>4, <1>5, <1>6, <1>7, <1>8, <1>9

-----------------------------------------------------------------------------

LEMMA AcceptInv == ServeInv /\ Accept => ServeInv'
<1> SUFFICES ASSUME ServeInv, Accept PROVE ServeInv'
  OBVIOUS
<1> USE DEF ServeInv
<1>0. PICK l, q : l = (IF "unix" \in proc.fds THEN "unix" ELSE "metrics") /\ q = queues[l]
  OBVIOUS
<1>1. proc.pc = "dispatch" /\ UNCHANGED <<conn, calls, executed>> /\ proc \in ProcType
  BY DEF Accept, clientVars, Types
<1>2. CASE proc.fds = {} /\ proc' = At("check") /\ UNCHANGED queues
  <2>1. proc' \in ProcType /\ proc'.pc = "check"
    BY <1>1, <1>2 DEF At, ProcType
  <2>2. Types'
    BY <1>1, <1>2, <2>1 DEF Types
  <2>3. SentInv' /\ LateInv'
    BY <1>1, <2>2, SentKept, Zenon
  <2>4. QueueInv'
    BY <1>1, <1>2 DEF QueueInv, Waiting, Begun
  <2>5. HandInv'
    BY <2>1 DEF HandInv, Busy
  <2>6. DoneInv' /\ ReplyInv'
    BY <1>1, <2>1 DEF DoneInv, ReplyInv, Mine
  <2> QED
    BY <2>2, <2>3, <2>4, <2>5, <2>6
<1>3. CASE /\ proc.fds # {}
           /\ proc' = [At(IF l = "unix" THEN "header" ELSE "http") EXCEPT !.cur = Head(queues[l])]
           /\ queues' = [queues EXCEPT ![l] = Tail(@)]
  <2>1. l \in proc.fds /\ l \in Listeners
    BY <1>0, <1>1, <1>3 DEF ProcType
  <2>2. q # <<>> /\ q \in Seq(Attempts)
    BY <1>0, <1>1, <2>1 DEF HandInv, Busy, Types
  <2>3. /\ Head(q) = q[1] /\ q[1] \in Attempts /\ 1 \in 1 .. Len(q)
        /\ Tail(q) \in Seq(Attempts) /\ Len(Tail(q)) = Len(q) - 1 /\ Len(q) \in Nat
        /\ \A i \in 1 .. Len(Tail(q)) : Tail(q)[i] = q[i + 1]
    BY <2>2
  <2>4. /\ queues' \in [Listeners -> Seq(Attempts)] /\ queues'[l] = Tail(q)
        /\ \A k \in Listeners \ {l} : queues'[k] = queues[k]
    BY <1>0, <1>3, <2>1, <2>3 DEF Types
  <2>5. /\ proc' \in ProcType /\ proc'.cur = q[1] /\ proc'.fds = proc.fds
        /\ proc'.pc = IF l = "unix" THEN "header" ELSE "http"
    BY <1>0, <1>1, <1>3, <2>3, Zenon DEF At, ProcType
  <2>6. Types'
    BY <1>1, <2>4, <2>5 DEF Types
  <2>7. SentInv' /\ LateInv'
    BY <1>1, <2>6, SentKept
  <2>8. QueueInv'
    <3>1. ASSUME NEW k \in Listeners, NEW i \in 1 .. Len(queues'[k])
          PROVE  /\ k = l => i + 1 \in 1 .. Len(queues[k]) /\ queues'[k][i] = queues[k][i + 1]
                 /\ k # l => i \in 1 .. Len(queues[k]) /\ queues'[k][i] = queues[k][i]
      <4>1. CASE k = l
        <5>1. queues'[k] = Tail(q) /\ queues[k] = q
          BY <1>0, <2>4, <4>1
        <5>2. i \in 1 .. Len(Tail(q))
          BY <5>1
        <5>3. i + 1 \in 1 .. Len(q) /\ Tail(q)[i] = q[i + 1]
          BY <2>3, <5>2
        <5> QED
          BY <4>1, <5>1, <5>3
      <4>2. CASE k # l
        BY <2>4, <3>1, <4>2
      <4> QED
        BY <4>1, <4>2
    <3>2. ASSUME NEW k \in Listeners, NEW i \in 1 .. Len(queues'[k]), NEW j \in 1 .. Len(queues'[k]),
                 queues'[k][i] = queues'[k][j]
          PROVE  i = j
      <4>1. CASE k = l
        <5>1. /\ i + 1 \in 1 .. Len(queues[k]) /\ j + 1 \in 1 .. Len(queues[k])
              /\ queues[k][i + 1] = queues[k][j + 1]
          BY <3>1, <3>2, <4>1, Zenon
        <5>2. i + 1 = j + 1
          BY <5>1, Zenon DEF QueueInv
        <5> QED
          BY <5>2
      <4>2. CASE k # l
        BY <3>1, <3>2, <4>2 DEF QueueInv
      <4> QED
        BY <4>1, <4>2
    <3>3. ASSUME NEW k \in Listeners, NEW i \in 1 .. Len(queues'[k])
          PROVE  Waiting(queues[k][i], k)'
      <4>1. PICK j \in 1 .. Len(queues[k]) : queues'[k][i] = queues[k][j]
        BY <3>1
      <4>2. Waiting(queues[k][j], k)
        BY DEF QueueInv
      <4> QED
        BY <1>1, <4>1, <4>2 DEF Waiting, Begun
    <3> QED
      BY <3>2, <3>3, Zenon DEF QueueInv
  <2>9. HandInv'
    <3>1. Begun(q[1]) /\ conn[q[1]].open /\ Listener(q[1][1]) = l
      BY <1>0, <2>1, <2>3 DEF QueueInv, Waiting
    <3>2. \A k \in Listeners : \A i \in 1 .. Len(queues'[k]) : queues'[k][i] # q[1]
      <4>1. \A i \in 1 .. Len(queues'[l]) : queues'[l][i] # q[1]
        BY <1>0, <2>1, <2>3, <2>4 DEF QueueInv, Waiting
      <4>2. \A k \in Listeners \ {l} : \A i \in 1 .. Len(queues'[k]) : queues'[k][i] # q[1]
        BY <2>4, <3>1 DEF QueueInv, Waiting
      <4> QED
        BY <4>1, <4>2
    <3>3. Busy' = {l}
      <4>1. CASE l = "unix"
        BY <2>5, <4>1 DEF Busy
      <4>2. CASE l = "metrics"
        BY <2>5, <4>2 DEF Busy
      <4> QED
        BY <2>1, <4>1, <4>2
    <3>a. Busy = {} /\ proc.fds \subseteq Listeners
      BY <1>1 DEF Busy, ProcType
    <3>b. \A k \in proc.fds : queues[k] # <<>>
      BY <1>1, <3>a DEF HandInv
    <3>4. \A k \in proc'.fds \ Busy' : queues'[k] # <<>>
      BY <2>4, <2>5, <3>3, <3>a, <3>b
    <3> QED
      BY <1>1, <2>3, <2>5, <3>1, <3>2, <3>3, <3>4 DEF HandInv, Begun
  <2>10. DoneInv' /\ ReplyInv'
    BY <1>1, <2>5 DEF DoneInv, ReplyInv, Mine
  <2> QED
    BY <2>6, <2>7, <2>8, <2>9, <2>10
<1> QED
  BY <1>0, <1>2, <1>3 DEF Accept

\* The header is read; a request that is not read any further is closed without
\* a reply.
LEMMA ReadHeaderInv == ServeInv /\ ReadHeader => ServeInv'
<1> SUFFICES ASSUME ServeInv, ReadHeader PROVE ServeInv'
  OBVIOUS
<1> USE DEF ServeInv
<1>1. /\ proc.pc = "header" /\ UNCHANGED <<queues, calls, executed>> /\ proc \in ProcType
      /\ proc.cur \in Attempts /\ proc.cur \notin executed
  BY DEF ReadHeader, clientVars, Types, HandInv, DoneInv
<1>2. CASE proc' = Served("unix", FALSE) /\ Close("none")
  <2>1. proc' = [Served("unix", FALSE) EXCEPT !.stop = proc.stop] /\ proc.stop \in BOOLEAN
    BY <1>1, <1>2, Zenon DEF Served, ProcType
  <2>2. "unix" \in Busy /\ "none" \in Replies
    BY <1>1 DEF Busy, Replies
  <2>3. /\ proc.pc \in InHand /\ Close("none")
        /\ ("none" = "ok" /\ Kind[proc.cur[1]] = "op" => proc.cur \in executed)
        /\ (proc.cur \in executed => "none" = "ok" \/ Cur.hungUp)
    BY <1>1, <1>2, Zenon DEF InHand
  <2> HIDE DEF ServeInv
  <2> QED
    BY <1>1, <2>1, <2>2, <2>3, CloseInv, Zenon
<1>3. ASSUME NEW x \in {"answer", "payload"}, NEW y \in {proc.answer, "capacity_exceeded"},
             proc' = [At(x) EXCEPT !.answer = y], UNCHANGED conn,
             x = "answer" => y = "capacity_exceeded",
             x = "payload" => Kind[proc.cur[1]] = "op"
      PROVE  ServeInv'
  <2>1. /\ proc' \in ProcType /\ proc'.pc = x /\ proc'.cur = proc.cur /\ proc'.fds = proc.fds
        /\ proc'.answer = y
    BY <1>1, <1>3, Zenon DEF At, ProcType, Replies
  <2>2. Types'
    BY <1>1, <1>3, <2>1 DEF Types
  <2>3. SentInv' /\ LateInv'
    BY <1>1, <1>3, <2>2, SentKept
  <2>4. QueueInv'
    BY <1>1, <1>3 DEF QueueInv, Waiting, Begun
  <2>5. HandInv'
    BY <1>1, <1>3, <2>1 DEF HandInv, Begun, Busy
  <2>6. DoneInv' /\ ReplyInv'
    BY <1>1, <1>3, <2>1 DEF DoneInv, ReplyInv, Mine
  <2> QED
    BY <2>2, <2>3, <2>4, <2>5, <2>6
<1>4. CASE /\ proc' = [At("answer") EXCEPT !.answer = "capacity_exceeded"] /\ UNCHANGED conn
  BY <1>3, <1>4
<1>5. CASE /\ Kind[proc.cur[1]] = "op" /\ proc' = At("payload") /\ UNCHANGED conn
  <2>1. proc' = [At("payload") EXCEPT !.answer = proc.answer]
    BY <1>1, <1>5, Zenon DEF At, ProcType
  <2> QED
    BY <1>3, <1>5, <2>1
<1> QED
  BY <1>2, <1>4, <1>5, Zenon DEF ReadHeader

LEMMA ReadPayloadInv == ServeInv /\ ReadPayload => ServeInv'
<1> SUFFICES ASSUME ServeInv, ReadPayload PROVE ServeInv'
  OBVIOUS
<1> USE DEF ServeInv
<1>1. /\ proc.pc = "payload" /\ UNCHANGED <<queues, conn, calls>> /\ proc \in ProcType
      /\ proc.cur \in Attempts /\ proc.cur \notin executed
      /\ Kind[proc.cur[1]] = "op" /\ conn[proc.cur].open
  BY DEF ReadPayload, clientVars, Types, HandInv, DoneInv
<1>2. PICK y \in {"ok", "checksum_mismatch"} :
         /\ proc' = [At("answer") EXCEPT !.answer = y]
         /\ y = "ok" => Cur.sent = 2 /\ executed' = executed \cup {proc.cur}
         /\ y # "ok" => executed' = executed
  BY DEF ReadPayload
<1>3. /\ proc' \in ProcType /\ proc'.pc = "answer" /\ proc'.cur = proc.cur
      /\ proc'.fds = proc.fds /\ proc'.answer = y
  BY <1>1, <1>2, Zenon DEF At, ProcType, Replies
<1>4. Types'
  BY <1>1, <1>2, <1>3 DEF Types
<1>5. SentInv' /\ LateInv'
  BY <1>1, <1>4, SentKept, Zenon
<1>6. QueueInv'
  BY <1>1 DEF QueueInv, Waiting, Begun
<1>7. HandInv'
  BY <1>1, <1>2, <1>3 DEF HandInv, Begun, Busy
<1>8. DoneInv'
  BY <1>1, <1>2, <1>3 DEF DoneInv, Cur
<1>9. ReplyInv'
  BY <1>1, <1>2 DEF ReplyInv, Mine
<1> QED
  BY <1>4, <1>5, <1>6, <1>7, <1>8, <1>9

LEMMA AnswerInv == ServeInv /\ Answer => ServeInv'
<1> SUFFICES ASSUME ServeInv, Answer PROVE ServeInv'
  OBVIOUS
<1> USE DEF ServeInv
<1>1. /\ proc.pc \in {"answer", "answerBody"} /\ UNCHANGED <<calls, executed>>
      /\ proc \in ProcType /\ proc.cur \in Attempts /\ conn[proc.cur].open
      /\ "unix" \in Busy /\ "none" \in Replies
      /\ proc.stop \in BOOLEAN /\ proc.answer \in Replies
  BY DEF Answer, clientVars, Types, HandInv, Busy, Replies, ProcType
<1>2. \A ok : Served("unix", ok) = [Served("unix", ok) EXCEPT !.stop = proc.stop]
  BY <1>1, Zenon DEF Served, ProcType
<1>3. proc.answer = "ok" <=> proc.cur \in executed
  BY <1>1 DEF HandInv, DoneInv
<1>4. CASE proc' = At("answerBody") /\ UNCHANGED <<queues, conn>>
  <2>1. /\ proc' \in ProcType /\ proc'.pc = "answerBody" /\ proc'.cur = proc.cur
        /\ proc'.fds = proc.fds /\ proc'.answer = proc.answer
    BY <1>1, <1>4 DEF At, ProcType
  <2>2. Types'
    BY <1>1, <1>4, <2>1 DEF Types
  <2>3. SentInv' /\ LateInv'
    BY <1>1, <1>4, <2>2, SentKept, Zenon
  <2>4. QueueInv'
    BY <1>1, <1>4 DEF QueueInv, Waiting, Begun
  <2>5. HandInv'
    BY <1>1, <1>4, <2>1 DEF HandInv, Begun, Busy
  <2>6. DoneInv' /\ ReplyInv'
    BY <1>1, <1>4, <2>1 DEF DoneInv, ReplyInv, Mine
  <2> QED
    BY <2>2, <2>3, <2>4, <2>5, <2>6
<1>5. CASE Close(proc.answer) /\ proc' = Served("unix", TRUE) /\ UNCHANGED <<queues>>
  <2>1. PICK x \in Replies : x = proc.answer
    BY <1>1
  <2>2. Close(x)
    BY <1>5, <2>1 DEF Close
  <2>3. /\ proc.pc \in InHand /\ UNCHANGED <<queues, calls, executed>>
        /\ proc' = [Served("unix", TRUE) EXCEPT !.stop = proc.stop]
        /\ x = "ok" /\ Kind[proc.cur[1]] = "op" => proc.cur \in executed
        /\ proc.cur \in executed => x = "ok" \/ Cur.hungUp
    BY <1>1, <1>2, <1>3, <1>5, <2>1, Zenon
  <2> QED
    BY <1>1, <2>2, <2>3, CloseInv, Zenon
<1>6. CASE Cur.hungUp /\ Close("none") /\ proc' = Served("unix", FALSE) /\ UNCHANGED <<queues>>
  <2>1. /\ proc.pc \in InHand /\ Close("none") /\ UNCHANGED <<queues, calls, executed>>
        /\ proc' = [Served("unix", FALSE) EXCEPT !.stop = proc.stop]
        /\ ("none" = "ok" /\ Kind[proc.cur[1]] = "op" => proc.cur \in executed)
        /\ (proc.cur \in executed => "none" = "ok" \/ Cur.hungUp)
    BY <1>1, <1>2, <1>6, Zenon DEF InHand
  <2> HIDE DEF ServeInv
  <2> QED
    BY <1>1, <2>1, CloseInv, Zenon
<1>7. CASE Cur.hungUp /\ Gone("stale")
  BY <1>1, <1>7, GoneInv
<1> QED
  BY <1>4, <1>5, <1>6, <1>7, Zenon DEF Answer

LEMMA ScrapeInv == ServeInv /\ Scrape => ServeInv'
<1> SUFFICES ASSUME ServeInv, Scrape PROVE ServeInv'
  OBVIOUS
<1> USE DEF ServeInv
<1>1. /\ proc.pc = "http" /\ UNCHANGED <<calls, executed>>
      /\ proc.cur \notin executed /\ proc.stop \in BOOLEAN /\ "metrics" \in Busy
  BY DEF Scrape, clientVars, HandInv, DoneInv, Types, ProcType, Busy
<1>2. Kind[proc.cur[1]] # "op"
  BY <1>1 DEF HandInv, Busy, Listener, Http
<1>3. Served("metrics", TRUE) = [Served("metrics", TRUE) EXCEPT !.stop = proc.stop]
  BY Zenon DEF Served, Types, ProcType
<1>4. CASE Gone("stale")
  BY <1>1, <1>4, GoneInv
<1>5. ASSUME NEW x \in {"none", "ok", "method_not_allowed"}, Close(x),
             proc' = Served("metrics", TRUE), UNCHANGED <<queues>>
      PROVE  ServeInv'
  <2>1. x \in Replies
    BY DEF Replies
  <2> QED
    BY <1>1, <1>2, <1>3, <1>5, <2>1, CloseInv, Zenon
<1> QED
  BY <1>4, <1>5, Zenon DEF Scrape

LEMMA EndInv == ServeInv /\ (StartFails \/ Leave \/ Signal) => ServeInv'
<1> SUFFICES ASSUME ServeInv, StartFails \/ Leave \/ Signal PROVE ServeInv'
  OBVIOUS
<1> USE DEF ServeInv
<1>1. UNCHANGED <<calls, executed>>
  BY Zenon DEF StartFails, Leave, Signal, clientVars
<1>2. CASE StartFails
  BY <1>1, <1>2, GoneInv DEF StartFails
<1>3. CASE Leave
  BY <1>1, <1>3, GoneInv DEF Leave
<1>4. CASE Signal /\ proc.pc \in {"bound", "listening"}
  BY <1>1, <1>4, GoneInv DEF Signal
<1>5. CASE Signal /\ proc.pc = "http" /\ Cur.sent = 0
  <2>1. /\ proc' = [Served("metrics", TRUE) EXCEPT !.stop = TRUE] /\ Close("none")
        /\ UNCHANGED queues
    BY <1>5, Zenon DEF Signal
  <2>2. /\ "metrics" \in Busy /\ "none" \in Replies /\ TRUE \in BOOLEAN
        /\ proc.cur \notin executed
    BY <1>5 DEF Busy, Replies, DoneInv, HandInv
  <2> QED
    BY <1>1, <1>5, <2>1, <2>2, CloseInv, Zenon
<1>6. CASE /\ Signal /\ proc.pc \notin {"bound", "listening"} /\ ~(proc.pc = "http" /\ Cur.sent = 0)
  <2>1. /\ proc' = [proc EXCEPT !.stop = TRUE, !.pc = IF @ = "select" THEN "check" ELSE @]
        /\ UNCHANGED <<queues, conn>>
    BY <1>6, Zenon DEF Signal
  <2>2. /\ proc' \in ProcType /\ proc'.cur = proc.cur
        /\ proc'.fds = proc.fds /\ proc'.answer = proc.answer
        /\ proc'.pc = IF proc.pc = "select" THEN "check" ELSE proc.pc
    BY <2>1, Zenon DEF Types, ProcType
  <2>3. Types'
    BY <1>1, <2>1, <2>2 DEF Types
  <2>4. SentInv' /\ LateInv'
    BY <1>1, <2>1, <2>3, SentKept
  <2>5. QueueInv'
    BY <1>1, <2>1 DEF QueueInv, Waiting, Begun
  <2>6. HandInv'
    BY <1>1, <2>1, <2>2 DEF HandInv, Begun, Busy
  <2>7. DoneInv' /\ ReplyInv'
    BY <1>1, <2>1, <2>2 DEF DoneInv, ReplyInv, Mine
  <2> QED
    BY <2>3, <2>4, <2>5, <2>6, <2>7
<1> QED
  BY <1>2, <1>3, <1>4, <1>5, <1>6

-----------------------------------------------------------------------------
(* The client.                                                             *)

LEMMA MineFacts ==
    ASSUME Types, NEW c \in Calls
    PROVE  /\ calls[c] \in CallType /\ calls[c].try \in 1 .. MaxAttempts /\ calls[c].late \in Nat
           /\ Mine(c) = <<c, calls[c].try>> /\ Mine(c) \in Attempts
           /\ Mine(c)[1] = c /\ Mine(c)[2] = calls[c].try
           /\ conn[Mine(c)] \in ConnType
BY DEF Types, CallType, Mine, Attempts

\* A call moves on without a new attempt and without having failed to send
\* what its place says.
LEMMA ConnectInv == ASSUME ServeInv, NEW c \in Calls, Connect(c) PROVE ServeInv'
<1> USE DEF ServeInv
<1>0. PICK m, l : m = Mine(c) /\ l = Listener(c)
  OBVIOUS
<1>1. /\ calls[c].pc = "ready"
      /\ queues' = [queues EXCEPT ![l] = Append(@, m)]
      /\ conn' = [conn EXCEPT ![m] = [NoConn EXCEPT !.open = TRUE]]
      /\ calls' = [calls EXCEPT ![c] = [calls[c] EXCEPT !.pc = "header"]]
      /\ UNCHANGED <<proc, executed>>
  BY <1>0 DEF Connect, daemonVars, Types
<1>2. /\ m \in Attempts /\ m[1] = c /\ m[2] = calls[c].try /\ m = <<c, calls[c].try>>
      /\ l \in Listeners /\ queues[l] \in Seq(Attempts)
      /\ calls[c] \in CallType /\ conn[m].sent = 0
  BY <1>0, <1>1, MineFacts DEF Listener, Types, SentInv
<1>3. /\ \A a \in Attempts \ {m} : conn'[a] = conn[a]
      /\ conn'[m].sent = 0 /\ conn'[m].open = TRUE /\ conn'[m].reply = "none"
      /\ conn' \in [Attempts -> ConnType]
  <2>1. [NoConn EXCEPT !.open = TRUE] \in ConnType
    BY RecordTypes, Zenon
  <2> QED
    BY SMTT(20), <1>1, <1>2, <2>1 DEF Types, NoConn
<1>4. /\ \A d \in Calls \ {c} : calls'[d] = calls[d]
      /\ calls'[c].pc = "header" /\ calls'[c].try = calls[c].try /\ calls'[c].late = calls[c].late
      /\ calls' \in [Calls -> CallType]
  BY <1>1, <1>2, Zenon DEF Types, CallType, CallPcs
<1>5. /\ queues' \in [Listeners -> Seq(Attempts)] /\ Len(queues[l]) \in Nat
      /\ \A k \in Listeners \ {l} : queues'[k] = queues[k]
      /\ queues'[l] = Append(queues[l], m) /\ Len(queues'[l]) = Len(queues[l]) + 1
      /\ \A i \in 1 .. Len(queues[l]) : queues'[l][i] = queues[l][i]
      /\ queues'[l][Len(queues[l]) + 1] = m
  BY <1>1, <1>2 DEF Types
<1>6. Types'
  BY <1>1, <1>3, <1>4, <1>5 DEF Types
<1>7. SentInv'
  <2>1. ASSUME NEW d \in Calls, d # c
        PROVE  /\ Mine(d)' = Mine(d) /\ Mine(d) # m /\ Mine(d) \in Attempts
               /\ \A i \in 1 .. MaxAttempts : <<d, i>> # m /\ <<d, i>> \in Attempts
    BY <1>2, <1>4, <2>1, MineFacts DEF Mine, Attempts
  <2>2. Mine(c)' = m
    BY <1>2, <1>4 DEF Mine
  <2>3. \A i \in 1 .. MaxAttempts : i > calls[c].try => <<c, i>> # m /\ <<c, i>> \in Attempts
    BY <1>2, MineFacts DEF Attempts
  <2> QED
    BY <1>2, <1>3, <1>4, <2>1, <2>2, <2>3, SMTT(30) DEF SentInv
<1>8. LateInv'
  <2>1. \A d \in Calls : Delivered(d)' = Delivered(d)
    BY <1>2, <1>3, <1>4, SMTT(30) DEF Delivered
  <2> QED
    BY <1>4, <2>1 DEF LateInv
<1>9. ~Begun(m)
  BY <1>1, <1>2 DEF Begun, Types, CallType
<1>10. \A a \in Attempts : Begun(a) => Begun(a)' /\ a # m /\ conn'[a] = conn[a]
  BY <1>2, <1>3, <1>4, <1>9, SMTT(30) DEF Begun, Attempts
<1>11. Begun(m)' /\ conn'[m].open /\ Listener(m[1]) = l
  BY <1>0, <1>2, <1>3, <1>4 DEF Begun
<1>12. QueueInv'
  <2>1. \A k \in Listeners : \A i \in 1 .. Len(queues'[k]) :
           \/ /\ i \in 1 .. Len(queues[k]) /\ queues'[k][i] = queues[k][i]
              /\ queues[k][i] \in Attempts /\ Begun(queues[k][i])
           \/ k = l /\ i = Len(queues[l]) + 1 /\ queues'[k][i] = m
    <3>1. TAKE k \in Listeners
    <3>2. TAKE i \in 1 .. Len(queues'[k])
    <3>3. ASSUME NEW h \in 1 .. Len(queues[k])
          PROVE  queues[k][h] \in Attempts /\ Begun(queues[k][h])
      <4>1. queues[k] \in Seq(Attempts)
        BY Zenon DEF Types
      <4>2. queues[k][h] \in Attempts
        BY <4>1
      <4> QED
        BY <3>3, <4>2, Zenon DEF QueueInv, Waiting
    <3>4. CASE k # l
      BY <1>5, <3>3, <3>4, Zenon
    <3>5. CASE k = l /\ i = Len(queues[l]) + 1
      BY <1>5, <3>5, Zenon
    <3>6. CASE k = l /\ i # Len(queues[l]) + 1
      <4>1. i \in 1 .. Len(queues[l])
        BY <1>5, <3>6
      <4> QED
        BY <1>5, <3>3, <3>6, <4>1, Zenon
    <3> QED
      BY <3>4, <3>5, <3>6
  <2>2. ASSUME NEW k \in Listeners, NEW i \in 1 .. Len(queues'[k]), NEW j \in 1 .. Len(queues'[k]),
               queues'[k][i] = queues'[k][j]
        PROVE  i = j
    BY <1>9, <2>1, <2>2 DEF QueueInv
  <2>3. ASSUME NEW k \in Listeners, NEW i \in 1 .. Len(queues'[k])
        PROVE  Waiting(queues[k][i], k)'
    <3>1. CASE queues'[k][i] = m /\ k = l
      BY <1>11, <3>1, ZenonT(30) DEF Waiting, Begun
    <3>2. CASE i \in 1 .. Len(queues[k]) /\ queues'[k][i] = queues[k][i]
      <4>1. PICK a : a = queues[k][i]
        OBVIOUS
      <4>2. Waiting(a, k)
        BY <3>2, <4>1 DEF QueueInv
      <4>3. a \in Attempts /\ a # m
        <5>1. a \in Attempts
          BY <3>2, <4>1 DEF Types
        <5>2. Begun(a)
          BY <4>2 DEF Waiting
        <5> QED
          BY <1>9, <5>1, <5>2, Zenon
      <4>4. Begun(a)' /\ conn'[a] = conn[a]
        BY <1>10, <4>2, <4>3 DEF Waiting
      <4> QED
        BY <3>2, <4>1, <4>2, <4>4 DEF Waiting, Begun
    <3> QED
      BY <2>1, <3>1, <3>2
  <2> QED
    BY <2>2, <2>3, Zenon DEF QueueInv
<1>13. HandInv'
  <2>1. \A k \in Listeners : queues[k] # <<>> => queues'[k] # <<>>
    BY <1>2, <1>5
  <2>2. \A k \in proc.fds : k \in Listeners
    BY DEF Types, ProcType
  <2>3. Busy' = Busy
    BY <1>1 DEF Busy
  <2>4. proc.pc \in InHand => Begun(proc.cur)' /\ conn'[proc.cur].open /\ proc.cur # m
    BY <1>1, <1>9, <1>10 DEF HandInv
  <2>5. ASSUME proc.pc \in InHand, NEW k \in Listeners, NEW i \in 1 .. Len(queues'[k])
        PROVE  queues'[k][i] # proc.cur
    <3>1. \/ i \in 1 .. Len(queues[k]) /\ queues'[k][i] = queues[k][i]
          \/ queues'[k][i] = m
      BY <1>5, SMTT(30)
    <3> QED
      BY <2>4, <2>5, <3>1 DEF HandInv
  <2> QED
    BY <1>1, <2>1, <2>2, <2>3, <2>4, <2>5, Zenon DEF HandInv
<1>14. DoneInv'
  <2>1. \A a \in executed : conn'[a] = conn[a]
    <3>1. \A a \in executed : a \in Attempts /\ conn[a].sent = 2
      BY DEF DoneInv, Types
    <3>2. m \notin executed
      BY <1>2, <3>1
    <3> QED
      BY <1>3, <3>1, <3>2
  <2>2. executed' = executed /\ proc' = proc
    BY <1>1
  <2>3. ASSUME NEW a \in executed
        PROVE  /\ Kind[a[1]] = "op" /\ conn'[a].sent = 2
               /\ conn'[a].open => /\ proc'.cur = a /\ proc'.pc \in {"answer", "answerBody"}
                                   /\ proc'.answer = "ok"
               /\ ~conn'[a].open /\ ~conn'[a].hungUp => conn'[a].reply = "ok"
    <3>1. conn'[a] = conn[a]
      BY <2>1
    <3> QED
      BY <2>2, <3>1 DEF DoneInv
  <2> QED
    BY <2>2, <2>3 DEF DoneInv
<1>15. ReplyInv'
  BY <1>1, <1>2, <1>3, <1>4 DEF ReplyInv, Mine, Types
<1> QED
  BY <1>6, <1>7, <1>8, <1>12, <1>13, <1>14, <1>15

LEMMA DeliveredFinite == ASSUME NEW c \in Calls PROVE IsFiniteSet(Delivered(c))
<1>1. Delivered(c) \subseteq {c} \X (1 .. MaxAttempts)
  BY DEF Delivered, Attempts
<1>2. 1 \in Int /\ MaxAttempts \in Int
  BY ServeAssumption
<1>3. IsFiniteSet({c}) /\ IsFiniteSet(1 .. MaxAttempts)
  BY <1>2, FS_Singleton, FS_Interval, Zenon
<1>4. IsFiniteSet({c} \X (1 .. MaxAttempts))
  BY <1>3, FS_Product, Zenon
<1> QED
  BY <1>1, <1>4, FS_Subset

\* A call changes its place, and perhaps its attempt or its connection's state,
\* while nothing more is sent.
LEMMA CallInv ==
    ASSUME ServeInv, NEW c \in Calls, NEW new \in CallType, NEW hangs \in BOOLEAN,
           calls[c].pc # "ready" \/ new.pc \in {"ready", "failed"},
           conn' = [conn EXCEPT ![Mine(c)] = IF hangs THEN [@ EXCEPT !.hungUp = TRUE] ELSE @],
           calls' = [calls EXCEPT ![c] = new],
           UNCHANGED <<proc, queues, executed>>,
           \* either no further attempt
           \/ /\ new.try = calls[c].try /\ new.late = calls[c].late
              /\ new.pc \notin {"ready", "header", "payload", "wait"}
              /\ new.pc = "ok" /\ Kind[c] = "op" => Mine(c) \in executed
           \* or one more
           \/ /\ new.try = calls[c].try + 1 /\ new.pc = "ready"
              /\ \/ new.late = calls[c].late /\ conn[Mine(c)].sent # 2
                 \/ new.late = calls[c].late + 1
    PROVE  ServeInv'
<1> USE DEF ServeInv
<1>0. PICK m : m = Mine(c)
  OBVIOUS
<1>1. /\ m \in Attempts /\ m[1] = c /\ m[2] = calls[c].try /\ m = <<c, calls[c].try>>
      /\ conn[m] \in ConnType /\ calls[c] \in CallType
      /\ calls[c].try \in 1 .. MaxAttempts /\ calls[c].late \in Nat
      /\ new.try \in 1 .. MaxAttempts /\ new.late \in Nat
  BY <1>0, MineFacts DEF CallType
<1>2. /\ \A a \in Attempts \ {m} : conn'[a] = conn[a]
      /\ conn'[m].sent = conn[m].sent /\ conn'[m].open = conn[m].open
      /\ conn'[m].reply = conn[m].reply /\ conn[m].hungUp => conn'[m].hungUp
      /\ conn' \in [Attempts -> ConnType]
  <2>1. PICK r : r = IF hangs THEN [conn[m] EXCEPT !.hungUp = TRUE] ELSE conn[m]
    BY Zenon
  <2>2. conn' = [conn EXCEPT ![m] = r]
    BY <1>0, <1>1, <2>1 DEF Types
  <2>3. r \in ConnType
    BY <1>1, <2>1, RecordTypes, Zenon
  <2>4. /\ r.sent = conn[m].sent /\ r.open = conn[m].open /\ r.reply = conn[m].reply
        /\ conn[m].hungUp => r.hungUp
    BY <1>1, <2>1 DEF ConnType
  <2> QED
    BY <1>1, <2>2, <2>3, <2>4, ZenonT(30) DEF Types
<1>3. /\ calls' \in [Calls -> CallType] /\ calls'[c] = new
      /\ \A d \in Calls \ {c} : calls'[d] = calls[d]
  BY DEF Types
<1>4. Types'
  BY <1>2, <1>3 DEF Types
<1>5. \A a \in Attempts : /\ conn'[a].sent = conn[a].sent /\ conn'[a].open = conn[a].open
                          /\ conn'[a].reply = conn[a].reply
                          /\ conn[a].hungUp => conn'[a].hungUp
  BY <1>2
<1>6. SentInv'
  <2>1. ASSUME NEW d \in Calls, d # c
        PROVE  /\ Mine(d)' = Mine(d) /\ Mine(d) \in Attempts
               /\ \A i \in 1 .. MaxAttempts : <<d, i>> \in Attempts
    BY <1>3, <2>1, MineFacts DEF Mine, Attempts
  <2>2. \A i \in 1 .. MaxAttempts : <<c, i>> \in Attempts
    BY DEF Attempts
  <2>3. \A i \in 1 .. MaxAttempts : i > new.try => conn[<<c, i>>].sent = 0
    BY <1>1 DEF SentInv
  <2>4. new.try = calls[c].try + 1 => Mine(c)' = <<c, calls[c].try + 1>> /\ conn[<<c, calls[c].try + 1>>].sent = 0
    BY <1>1, <1>3 DEF SentInv, Mine
  <2>5. CASE new.pc \notin {"ready", "header", "payload", "wait"}
    BY <1>3, <1>5, <2>1, <2>2, <2>3, <2>5 DEF SentInv
  <2>6. CASE new.pc = "ready" /\ new.try = calls[c].try + 1
    BY <1>1, <1>3, <1>5, <2>1, <2>2, <2>3, <2>4, <2>6 DEF SentInv
  <2> QED
    BY <2>5, <2>6
<1>7. LateInv'
  <2>1. ASSUME NEW d \in Calls, d # c PROVE Delivered(d)' = Delivered(d)
    BY <1>3, <1>5, <2>1 DEF Delivered
  <2>2. IsFiniteSet(Delivered(c))
    BY DeliveredFinite
  <2>3. Cardinality(Delivered(c)) \in Nat /\ Cardinality(Delivered(c)) <= calls[c].late
    BY <2>2, FS_CardinalityType DEF LateInv
  <2>4. CASE new.try = calls[c].try /\ new.late = calls[c].late
    <3>1. Delivered(c)' = Delivered(c)
      BY <1>3, <1>5, <2>4 DEF Delivered
    <3> QED
      BY <1>3, <2>1, <2>3, <2>4, <3>1 DEF LateInv
  <2>5. CASE new.try = calls[c].try + 1 /\ new.late = calls[c].late /\ conn[m].sent # 2
    <3>1. Delivered(c)' = Delivered(c)
      BY <1>1, <1>3, <1>5, <2>5 DEF Delivered, Attempts
    <3> QED
      BY <1>3, <2>1, <2>3, <2>5, <3>1 DEF LateInv
  <2>6. CASE new.try = calls[c].try + 1 /\ new.late = calls[c].late + 1
    <3>1. Delivered(c)' \subseteq Delivered(c) \cup {m}
      BY <1>1, <1>3, <1>5, <2>6 DEF Delivered, Attempts
    <3>2. /\ IsFiniteSet(Delivered(c) \cup {m})
          /\ Cardinality(Delivered(c) \cup {m}) <= Cardinality(Delivered(c)) + 1
      <4>1. PICK D : D = Delivered(c)
        OBVIOUS
      <4>2. /\ IsFiniteSet(D \cup {m})
            /\ Cardinality(D \cup {m}) = IF m \in D THEN Cardinality(D) ELSE Cardinality(D) + 1
        BY SMTT(20), <2>2, <4>1, FS_AddElement
      <4> QED
        BY <2>3, <4>1, <4>2
    <3>3. Cardinality(Delivered(c)') <= Cardinality(Delivered(c)) + 1
      BY <2>3, <3>1, <3>2, FS_Subset, FS_CardinalityType
    <3>4. Cardinality(Delivered(c)') <= calls'[c].late
      BY <1>1, <1>3, <2>3, <2>6, <3>1, <3>2, <3>3, FS_Subset, FS_CardinalityType, SMTT(30)
    <3> QED
      BY <1>3, <2>1, <3>4 DEF LateInv
  <2> QED
    BY <1>0, <2>4, <2>5, <2>6
<1>8. \A a \in Attempts : Begun(a) => Begun(a)'
  BY <1>1, <1>3 DEF Begun, Attempts
<1>9. QueueInv'
  <2>1. ASSUME NEW k \in Listeners, NEW i \in 1 .. Len(queues[k]) PROVE Waiting(queues[k][i], k)'
    <3>1. PICK a : a = queues[k][i]
      OBVIOUS
    <3>2. Waiting(a, k) /\ a \in Attempts
      BY <3>1 DEF QueueInv, Types
    <3> QED
      BY <1>5, <1>8, <3>1, <3>2 DEF Waiting, Begun
  <2> QED
    BY Zenon, <2>1 DEF QueueInv
<1>10. HandInv'
  <2>1. proc.pc \in InHand => Begun(proc.cur)' /\ conn'[proc.cur].open
    BY <1>5, <1>8 DEF HandInv, Begun
  <2>2. Busy' = Busy
    BY DEF Busy
  <2> QED
    BY <2>1, <2>2 DEF HandInv
<1>11. DoneInv'
  BY <1>5 DEF DoneInv, Types
<1>12. ReplyInv'
  BY <1>0, <1>3, <1>5, ZenonT(30) DEF ReplyInv, Mine
<1> QED
  BY <1>4, <1>6, <1>7, <1>9, <1>10, <1>11, <1>12

\* What a failed attempt makes of its call.
LEMMA FailedFacts ==
    ASSUME ServeInv, NEW c \in Calls, NEW d \in BOOLEAN, NEW t \in BOOLEAN,
           d \/ conn[Mine(c)].sent # 2
    PROVE  /\ Failed(c, d, t) \in CallType
           /\ \/ /\ Failed(c, d, t).try = calls[c].try /\ Failed(c, d, t).late = calls[c].late
                 /\ Failed(c, d, t).pc = "failed"
              \/ /\ Failed(c, d, t).try = calls[c].try + 1 /\ Failed(c, d, t).pc = "ready"
                 /\ \/ Failed(c, d, t).late = calls[c].late /\ conn[Mine(c)].sent # 2
                    \/ Failed(c, d, t).late = calls[c].late + 1
<1> USE DEF ServeInv
<1>1. PICK n : n = calls[c].late + (IF d /\ t /\ RetryTimeouts THEN 1 ELSE 0)
  OBVIOUS
<1>2. calls[c] \in CallType /\ calls[c].try \in 1 .. MaxAttempts /\ calls[c].late \in Nat
  BY MineFacts DEF CallType
<1>3. CASE ~Http(c) /\ ShouldRetry(d, t, calls[c].try)
  <2>1. Failed(c, d, t) = [pc |-> "ready", try |-> calls[c].try + 1, late |-> n]
    BY <1>1, <1>3 DEF Failed
  <2>2. calls[c].try + 1 \in 1 .. MaxAttempts /\ n \in Nat
    BY <1>1, <1>2, <1>3, ServeAssumption DEF ShouldRetry
  <2>3. n = calls[c].late + 1 \/ (n = calls[c].late /\ ~d)
    BY <1>1, <1>2, <1>3 DEF ShouldRetry
  <2> QED
    BY <2>1, <2>2, <2>3 DEF CallType, CallPcs
<1>4. CASE ~(~Http(c) /\ ShouldRetry(d, t, calls[c].try))
  <2>1. Failed(c, d, t) = [calls[c] EXCEPT !.pc = "failed"]
    BY <1>4 DEF Failed
  <2> QED
    BY <1>2, <2>1 DEF CallType, CallPcs
<1> QED
  BY <1>3, <1>4

LEMMA FailsInv ==
    ASSUME ServeInv, NEW c \in Calls,
           ConnectFails(c) \/ Read(c) \/ Timeout(c) \/ Stall(c)
    PROVE  ServeInv'
<1> USE DEF ServeInv
<1>1. /\ Mine(c) \in Attempts /\ conn[Mine(c)] \in ConnType /\ calls[c] \in CallType
      /\ conn = [conn EXCEPT ![Mine(c)] = @]
      /\ conn[Mine(c)].sent \in 0 .. 2
  BY MineFacts DEF Types, ConnType
<1>2. CASE ConnectFails(c)
  <2>1. conn[Mine(c)].sent # 2
    BY <1>2 DEF ConnectFails, SentInv
  <2>2. PICK new : new = Failed(c, FALSE, FALSE)
    BY Zenon
  <2>3. /\ new \in CallType /\ new.pc \in {"ready", "failed"}
        /\ \/ new.try = calls[c].try /\ new.late = calls[c].late /\ new.pc = "failed"
           \/ /\ new.try = calls[c].try + 1 /\ new.pc = "ready"
              /\ \/ new.late = calls[c].late /\ conn[Mine(c)].sent # 2
                 \/ new.late = calls[c].late + 1
    BY <2>1, <2>2, FailedFacts, Zenon
  <2>4. /\ conn' = [conn EXCEPT ![Mine(c)] = IF FALSE THEN [@ EXCEPT !.hungUp = TRUE] ELSE @]
        /\ calls' = [calls EXCEPT ![c] = new] /\ UNCHANGED <<proc, queues, executed>>
    BY <1>1, <1>2, <2>2 DEF ConnectFails, daemonVars
  <2> QED
    BY <2>3, <2>4, CallInv, Zenon
<1>3. CASE Read(c)
  <2>1. PICK new : new = IF conn[Mine(c)].reply = "none" THEN Failed(c, TRUE, FALSE)
                         ELSE [calls[c] EXCEPT !.pc = IF conn[Mine(c)].reply = "ok" THEN "ok" ELSE "refused"]
    BY Zenon
  <2>2. /\ calls[c].pc = "wait"
        /\ conn' = [conn EXCEPT ![Mine(c)] = IF TRUE THEN [@ EXCEPT !.hungUp = TRUE] ELSE @]
        /\ calls' = [calls EXCEPT ![c] = new] /\ UNCHANGED <<proc, queues, executed>>
    BY <1>1, <1>3, <2>1 DEF Read, daemonVars, Types
  <2>3. CASE conn[Mine(c)].reply = "none"
    <3>1. /\ new \in CallType
          /\ \/ new.try = calls[c].try /\ new.late = calls[c].late /\ new.pc = "failed"
             \/ /\ new.try = calls[c].try + 1 /\ new.pc = "ready"
                /\ \/ new.late = calls[c].late /\ conn[Mine(c)].sent # 2
                   \/ new.late = calls[c].late + 1
      BY <2>1, <2>3, FailedFacts, Zenon
    <3> QED
      BY <2>2, <3>1, CallInv, Zenon
  <2>4. CASE conn[Mine(c)].reply # "none"
    <3>1. /\ new \in CallType /\ new.try = calls[c].try /\ new.late = calls[c].late
          /\ new.pc = IF conn[Mine(c)].reply = "ok" THEN "ok" ELSE "refused"
      BY <1>1, <2>1, <2>4 DEF CallType, CallPcs
    <3>2. new.pc = "ok" /\ Kind[c] = "op" => Mine(c) \in executed
      BY <3>1, MineFacts DEF ReplyInv
    <3> QED
      BY <2>2, <3>1, <3>2, CallInv, Zenon
  <2> QED
    BY <2>3, <2>4
<1>4. CASE Timeout(c)
  <2>0. PICK w \in BOOLEAN : w <=> calls[c].pc = "wait"
    BY Zenon
  <2>1. PICK new : new = Failed(c, w, TRUE)
    BY Zenon
  <2>2. /\ w \/ conn[Mine(c)].sent # 2
        /\ calls[c].pc # "ready" /\ Failed(c, calls[c].pc = "wait", TRUE) = Failed(c, w, TRUE)
    <3>1. CASE calls[c].pc = "wait"
      BY <2>0, <3>1 DEF Failed, ShouldRetry
    <3>2. CASE calls[c].pc # "wait"
      <4>1. calls[c].pc \in {"header", "payload"}
        BY <1>4, <3>2 DEF Timeout
      <4>2. conn[Mine(c)].sent # 2
        BY <4>1 DEF SentInv
      <4> QED
        BY <2>0, <3>2, <4>1, <4>2 DEF Failed, ShouldRetry
    <3> QED
      BY <3>1, <3>2, Zenon
  <2>3. /\ new \in CallType
        /\ \/ new.try = calls[c].try /\ new.late = calls[c].late /\ new.pc = "failed"
           \/ /\ new.try = calls[c].try + 1 /\ new.pc = "ready"
              /\ \/ new.late = calls[c].late /\ conn[Mine(c)].sent # 2
                 \/ new.late = calls[c].late + 1
    BY <2>1, <2>2, FailedFacts, Zenon
  <2>4. /\ conn' = [conn EXCEPT ![Mine(c)] = IF TRUE THEN [@ EXCEPT !.hungUp = TRUE] ELSE @]
        /\ calls' = [calls EXCEPT ![c] = new] /\ UNCHANGED <<proc, queues, executed>>
    BY <1>1, <1>4, <2>1, <2>2, Zenon DEF Timeout, daemonVars, Types
  <2> QED
    BY <2>2, <2>3, <2>4, CallInv, Zenon
<1>5. CASE Stall(c)
  <2>1. PICK new : new = [calls[c] EXCEPT !.pc = "stalled"]
    BY Zenon
  <2>2. new \in CallType /\ new.try = calls[c].try /\ new.late = calls[c].late /\ new.pc = "stalled"
    BY <1>1, <2>1 DEF CallType, CallPcs
  <2>3. /\ calls[c].pc # "ready"
        /\ conn' = [conn EXCEPT ![Mine(c)] = IF FALSE THEN [@ EXCEPT !.hungUp = TRUE] ELSE @]
        /\ calls' = [calls EXCEPT ![c] = new] /\ UNCHANGED <<proc, queues, executed>>
    BY <1>1, <1>5, <2>1 DEF Stall, daemonVars, Types
  <2> QED
    BY <2>2, <2>3, CallInv, Zenon
<1> QED
  BY <1>2, <1>3, <1>4, <1>5

LEMMA WriteInv == ASSUME ServeInv, NEW c \in Calls, Write(c) PROVE ServeInv'
<1> USE DEF ServeInv
<1>0. PICK m : m = Mine(c)
  OBVIOUS
<1>1. /\ m \in Attempts /\ m[1] = c /\ m[2] = calls[c].try /\ m = <<c, calls[c].try>>
      /\ conn[m] \in ConnType /\ calls[c] \in CallType
      /\ calls[c].pc \in {"header", "payload"} /\ UNCHANGED <<proc, queues, executed>>
  BY <1>0, MineFacts DEF Write, daemonVars
<1>2. CASE ~conn[m].open /\ conn' = [conn EXCEPT ![Mine(c)].hungUp = TRUE]
           /\ calls' = [calls EXCEPT ![c].pc = "killed"]
  <2>1. PICK new : new = [calls[c] EXCEPT !.pc = "killed"]
    BY Zenon
  <2>2. new \in CallType /\ new.try = calls[c].try /\ new.late = calls[c].late /\ new.pc = "killed"
    BY <1>1, <2>1 DEF CallType, CallPcs
  <2>3. /\ conn' = [conn EXCEPT ![Mine(c)] = IF TRUE THEN [@ EXCEPT !.hungUp = TRUE] ELSE @]
        /\ calls' = [calls EXCEPT ![c] = new]
    BY <1>0, <1>1, <1>2, <2>1, Zenon DEF Types
  <2>4. calls[c].pc # "ready" /\ UNCHANGED <<proc, queues, executed>>
    BY <1>1
  <2> QED
    BY <2>2, <2>3, <2>4, CallInv, Zenon
<1>3. CASE /\ conn[m].open
           /\ conn' = [conn EXCEPT ![Mine(c)].sent = IF Kind[c] = "scrape" THEN 2 ELSE @ + 1]
           /\ calls' = [calls EXCEPT ![c].pc =
                  IF calls[c].pc = "header" /\ Kind[c] # "scrape" THEN "payload" ELSE "wait"]
  <2>1. PICK n, p : /\ n = (IF Kind[c] = "scrape" THEN 2 ELSE conn[m].sent + 1)
                    /\ p = IF calls[c].pc = "header" /\ Kind[c] # "scrape" THEN "payload" ELSE "wait"
    OBVIOUS
  <2>2. /\ n \in 0 .. 2 /\ p \in CallPcs /\ conn[m].sent # 2
        /\ (p = "payload" /\ n = 1) \/ (p = "wait" /\ n = 2)
    <3>1. /\ calls[c].pc = "header" => conn[m].sent = 0
          /\ calls[c].pc = "payload" => conn[m].sent = 1
      BY <1>0 DEF SentInv
    <3>2. CASE calls[c].pc = "header"
      BY <2>1, <3>1, <3>2 DEF CallPcs
    <3>3. CASE calls[c].pc = "payload"
      BY <2>1, <3>1, <3>3 DEF CallPcs
    <3> QED
      BY <1>1, <3>2, <3>3
  <2>3. /\ conn' \in [Attempts -> ConnType] /\ conn'[m].sent = n
        /\ \A a \in Attempts \ {m} : conn'[a] = conn[a]
        /\ \A a \in Attempts : /\ conn'[a].open = conn[a].open /\ conn'[a].hungUp = conn[a].hungUp
                               /\ conn'[a].reply = conn[a].reply
    <3>1. PICK r : r = [conn[m] EXCEPT !.sent = n]
      BY Zenon
    <3>2. conn' = [conn EXCEPT ![m] = r]
      BY <1>0, <1>1, <1>3, <2>1, <3>1, Zenon DEF Types
    <3>3. r \in ConnType
      BY <1>1, <2>2, <3>1, RecordTypes, Zenon
    <3>4. r.sent = n /\ r.open = conn[m].open /\ r.hungUp = conn[m].hungUp /\ r.reply = conn[m].reply
      BY <1>1, <3>1 DEF ConnType
    <3> QED
      BY <1>1, <3>2, <3>3, <3>4, Zenon DEF Types
  <2>4. /\ calls' \in [Calls -> CallType] /\ calls'[c].pc = p
        /\ calls'[c].try = calls[c].try /\ calls'[c].late = calls[c].late
        /\ \A d \in Calls \ {c} : calls'[d] = calls[d]
    BY <1>1, <1>3, <2>1, <2>2, ZenonT(30) DEF Types, CallType, CallPcs
  <2>5. Types'
    BY <1>1, <2>3, <2>4, Zenon DEF Types
  <2>6. SentInv'
    <3>1. ASSUME NEW d \in Calls, d # c
          PROVE  /\ Mine(d)' = Mine(d) /\ Mine(d) # m /\ Mine(d) \in Attempts
                 /\ \A i \in 1 .. MaxAttempts : <<d, i>> # m /\ <<d, i>> \in Attempts
      BY <1>1, <2>4, <3>1, MineFacts DEF Mine, Attempts
    <3>2. Mine(c)' = m
      BY <1>1, <2>4 DEF Mine
    <3>3. \A i \in 1 .. MaxAttempts : i > calls[c].try => <<c, i>> # m /\ <<c, i>> \in Attempts
      BY <1>1, MineFacts DEF Attempts
    <3> QED
      BY <2>2, <2>3, <2>4, <3>1, <3>2, <3>3 DEF SentInv
  <2>7. LateInv'
    <3>1. \A d \in Calls : Delivered(d)' = Delivered(d)
      <4>1. ASSUME NEW d \in Calls, NEW a \in Attempts, a[1] = d, a[2] < calls[d].try
            PROVE  conn'[a] = conn[a]
        <5>1. a # m
          BY <1>1, <4>1, MineFacts DEF CallType
        <5> QED
          BY <2>3, <5>1
      <4>2. \A d \in Calls : calls'[d].try = calls[d].try
        BY <2>4
      <4> QED
        BY <4>1, <4>2 DEF Delivered
    <3> QED
      BY <2>4, <3>1 DEF LateInv
  <2>8. \A a \in Attempts : Begun(a) => Begun(a)'
    BY <1>1, <2>2, <2>4 DEF Begun, Attempts
  <2>9. QueueInv'
    <3>1. ASSUME NEW k \in Listeners, NEW i \in 1 .. Len(queues[k]) PROVE Waiting(queues[k][i], k)'
      <4>1. PICK a : a = queues[k][i]
        OBVIOUS
      <4>2. Waiting(a, k) /\ a \in Attempts
        BY SMTT(20), <4>1 DEF QueueInv, Types
      <4> QED
        BY <1>1, <2>3, <2>8, <4>1, <4>2 DEF Waiting, Begun
    <3> QED
      BY ZenonT(30), <1>1, <3>1 DEF QueueInv
  <2>10. HandInv'
    <3>1. proc.pc \in InHand => Begun(proc.cur)' /\ conn'[proc.cur].open
      BY <1>1, <2>3, <2>8 DEF HandInv, Begun
    <3>2. Busy' = Busy
      BY <1>1, Zenon DEF Busy
    <3> QED
      BY <1>1, <3>1, <3>2, ZenonT(30) DEF HandInv
  <2>11. DoneInv'
    <3>1. \A a \in executed : a \in Attempts /\ conn[a].sent = 2
      BY DEF DoneInv, Types
    <3>2. \A a \in executed : conn'[a].sent = 2
      BY <2>2, <2>3, <3>1, Zenon
    <3> QED
      BY <1>1, <2>3, <3>1, <3>2, SMTT(30) DEF DoneInv
  <2>12. ReplyInv'
    BY <1>1, <2>2, <2>3, <2>4 DEF ReplyInv, Mine
  <2> QED
    BY <2>5, <2>6, <2>7, <2>9, <2>10, <2>11, <2>12
<1> QED
  BY <1>0, <1>2, <1>3 DEF Write

-----------------------------------------------------------------------------
(* The theorem.                                                            *)

LEMMA NextInv == ServeInv /\ [Next]_vars => ServeInv'
<1> SUFFICES ASSUME ServeInv, [Next]_vars PROVE ServeInv'
  OBVIOUS
<1>1. CASE UNCHANGED vars
  <2>1. Types' /\ SentInv' /\ LateInv'
    BY <1>1, ZenonT(30) DEF vars, ServeInv, Types, SentInv, LateInv, Mine, Delivered
  <2>2. QueueInv'
    BY <1>1 DEF vars, ServeInv, QueueInv, Waiting, Begun
  <2>3. HandInv'
    BY <1>1 DEF vars, ServeInv, HandInv, Busy, Begun
  <2>4. DoneInv' /\ ReplyInv'
    BY <1>1 DEF vars, ServeInv, DoneInv, ReplyInv, Mine
  <2> QED
    BY Zenon, <2>1, <2>2, <2>3, <2>4 DEF ServeInv
<1>2. ASSUME NEW c \in Calls, Client(c) \/ Timeout(c) \/ Stall(c) PROVE ServeInv'
  BY <1>2, ConnectInv, WriteInv, FailsInv DEF Client
<1>3. CASE Daemon \/ StartFails \/ AcceptFails \/ Signal
  BY <1>3, ControlInv, AcceptInv, ReadHeaderInv, ReadPayloadInv, AnswerInv, ScrapeInv, EndInv
     DEF Daemon, Control
<1> QED
  BY <1>1, <1>2, <1>3 DEF Next

\* The attempts of a call that were executed are its delivered ones and perhaps
\* the present one.
LEMMA ServeInvSuffices == ServeInv => ExecutedAsReported
<1> SUFFICES ASSUME ServeInv, NEW c \in Calls
             PROVE  /\ Cardinality(Executions(c)) <= 1 + calls[c].late
                    /\ calls[c].pc = "ok" /\ Kind[c] = "op" => Mine(c) \in executed
                    /\ \A a \in Executions(c) : ~conn[a].open /\ ~conn[a].hungUp => conn[a].reply = "ok"
  BY DEF ExecutedAsReported, ServeInv, Types
<1> USE DEF ServeInv
<1>1. PICK m, D : m = Mine(c) /\ D = Delivered(c)
  OBVIOUS
<1>2. /\ m = <<c, calls[c].try>> /\ calls[c].try \in 1 .. MaxAttempts /\ calls[c].late \in Nat
  BY <1>1, MineFacts DEF CallType
<1>3. Executions(c) \subseteq D \cup {m}
  <2>1. ASSUME NEW a \in Executions(c) PROVE a \in D \cup {m}
    <3>1. a \in Attempts /\ a[1] = c /\ conn[a].sent = 2 /\ a[2] \in 1 .. MaxAttempts /\ a = <<c, a[2]>>
      BY DEF Executions, DoneInv, Types, Attempts
    <3>2. ~(a[2] > calls[c].try)
      BY <3>1 DEF SentInv
    <3>3. a[2] < calls[c].try \/ a[2] = calls[c].try
      BY <1>2, <3>1, <3>2
    <3> QED
      BY <1>1, <1>2, <3>1, <3>3 DEF Delivered
  <2> QED
    BY <2>1
<1>4. IsFiniteSet(D)
  BY <1>1, DeliveredFinite
<1>5. Cardinality(D) \in Nat /\ Cardinality(D) <= calls[c].late
  BY <1>1, <1>4, FS_CardinalityType DEF LateInv
<1>6. /\ IsFiniteSet(D \cup {m})
      /\ Cardinality(D \cup {m}) = IF m \in D THEN Cardinality(D) ELSE Cardinality(D) + 1
  BY <1>4, FS_AddElement
<1>7. Cardinality(Executions(c)) \in Nat /\ Cardinality(Executions(c)) <= Cardinality(D \cup {m})
  BY <1>3, <1>6, FS_Subset, FS_CardinalityType
<1>8. Cardinality(Executions(c)) <= 1 + calls[c].late
  BY <1>2, <1>5, <1>6, <1>7
<1>9. \A a \in Executions(c) : ~conn[a].open /\ ~conn[a].hungUp => conn[a].reply = "ok"
  BY DEF Executions, DoneInv
<1>10. calls[c].pc = "ok" /\ Kind[c] = "op" => Mine(c) \in executed
  BY DEF ReplyInv
<1> QED
  BY <1>8, <1>9, <1>10

\* A call is executed at most once, and once more for each timeout that its caller
\* asked to have retried; success is reported only for what was executed; and what
\* was executed is answered unless its client hung up: for any calls, listeners'
\* queues, attempts, failures, starts and stop signals
\* (mem_service_send_unix_request_with_options, mem_service_handle_client).
THEOREM CallsRunAsReported == Spec => []ExecutedAsReported
<1>1. Init => ServeInv
  BY InitInv
<1>2. ServeInv /\ [Next]_vars => ServeInv'
  BY NextInv
<1>3. ServeInv => ExecutedAsReported
  BY ServeInvSuffices
<1> QED
  BY <1>1, <1>2, <1>3, PTL DEF Spec
=============================================================================
