---------------------------- MODULE RoundProofs ----------------------------
(***************************************************************************)
(* The two kinds of rounds the nodes of a cluster go through together: the *)
(* decode rounds, whose barrier is a marker in every node's pool           *)
(* (DecodeRounds), and the observe and object rounds, whose barriers are   *)
(* descriptors in the rings (ClusterRounds).  Both separate their rounds   *)
(* for any number of nodes, with failures and deadlines anywhere.          *)
(***************************************************************************)
EXTENDS ClusterRounds, DecodeRounds, TLAPS

-----------------------------------------------------------------------------
(* The rounds.  A barrier counts a peer when it finds the peer's           *)
(* descriptor, now or in the stash, and what is in a ring or a stash has   *)
(* been announced by the node it came from.  A payload is never older than *)
(* the one its node had published when it announced READY.                 *)

\* A set of announcements holds one of this barrier.
Met(E, type, e) == \E x \in E : x[1] = type /\ x[2] = e

\* What an observe of epoch e read is as new as an announcement of that epoch.
Fresh(E, e, o) == \E x \in E : x[1] = "READY" /\ x[2] = e /\ o >= x[3]

Descs == [type : {"READY", "OBSERVED", "PUT"}, epoch : Nat, kind : Nat, gen : Nat]

\* The descriptors a node that has announced E may have sent.
SentBy(E) == {d \in Descs : d.type = "PUT" \/ Met(E, d.type, d.epoch)}

BarrierTypes == {"READY", "OBSERVED"}
Barriers == [type : {"NONE", "READY", "OBSERVED"}, epoch : Nat]
Publications == [seq : Nat, gen : Nat]
Observations == [epoch : Nat, obs : [Nodes -> Nat]]
Steps == {"idle", "push", "wait", "read", "put", "resolve", "objects"}
CallStates ==
    [pc : Steps, barrier : Barriers, todo : SUBSET Nodes, got : SUBSET Nodes, kind : Nat,
     found : [1 .. Kinds -> Nat], saw : SUBSET (1 .. Kinds), obs : [Nodes -> Nat],
     rc : Int, drain : Int]

RoundTyped ==
    /\ queue \in [Nodes -> [Nodes -> Seq(Descs)]] /\ stash \in [Nodes -> [Nodes -> Seq(Descs)]]
    /\ pub \in [Nodes -> Publications] /\ payload \in [Nodes -> Publications]
    /\ epoch \in [Nodes -> Nat] /\ st \in [Nodes -> CallStates]
    /\ entered \in [Nodes -> SUBSET (BarrierTypes \X Nat \X Nat)]
    /\ passed \in [Nodes -> SUBSET Barriers] /\ seen \in [Nodes -> Observations]

SentInv ==
    \A n \in Nodes, m \in Nodes :
        queue[n][m] \in Seq(SentBy(entered[n])) /\ stash[m][n] \in Seq(SentBy(entered[n]))

PayloadInv ==
    \A n \in Nodes :
        /\ payload[n].seq <= pub[n].seq
        /\ \A x \in entered[n] : x[1] = "READY" => x[3] <= payload[n].seq

\* Between the READY barrier and the end of the call, and before.
InBarrier(r) == r.pc \in {"push", "wait"}
Reading(r) == r.pc = "read" \/ (InBarrier(r) /\ r.barrier.type = "OBSERVED")
YetToRead(r) == r.pc = "idle" \/ (InBarrier(r) /\ r.barrier.type = "READY")

\* The call r of node n, that has seen s, when the nodes have announced E.
CallOK(n, r, s, E) ==
    /\ InBarrier(r) =>
          /\ r.barrier.type \in BarrierTypes
          /\ \A p \in r.got \cup {n} : Met(E[p], r.barrier.type, r.barrier.epoch)
    /\ YetToRead(r) => \A m \in Nodes : r.obs[m] = 0
    /\ Reading(r) => \A m \in Peers(n) :
          /\ Met(E[m], "READY", s.epoch)
          /\ r.obs[m] # 0 => Fresh(E[m], s.epoch, r.obs[m])

RoundInv ==
    /\ RoundTyped /\ SentInv /\ PayloadInv
    /\ \A n \in Nodes : CallOK(n, st[n], seen[n], entered)
    /\ BarrierSeparates /\ ObserveFresh

LEMMA RoundFacts ==
    /\ 1 \in Nat /\ 0 \in Nat /\ \A e \in Nat : NextEpoch(e) \in Nat
    /\ \A n \in Nodes : Next1(n) \in Nodes /\ Peers(n) \subseteq Nodes /\ n \notin Peers(n)
BY RoundsAssumption DEF NextEpoch, Next1, Nodes, Peers

LEMMA SeqOfMore ==
    ASSUME NEW S, NEW T, S \subseteq T
    PROVE  Seq(S) \subseteq Seq(T)
<1> SUFFICES ASSUME NEW s \in Seq(S) PROVE s \in Seq(T)
  OBVIOUS
<1>1. Len(s) \in Nat /\ s = [i \in 1 .. Len(s) |-> s[i]] /\ \A i \in 1 .. Len(s) : s[i] \in S
  OBVIOUS
<1>2. s \in [1 .. Len(s) -> T]
  BY <1>1, Zenon
<1> QED
  BY <1>1, <1>2

LEMMA MoreAnnounced ==
    ASSUME NEW E, NEW F, E \subseteq F
    PROVE  /\ \A t, e : Met(E, t, e) => Met(F, t, e)
           /\ \A e, o : Fresh(E, e, o) => Fresh(F, e, o)
           /\ SentBy(E) \subseteq SentBy(F) /\ Seq(SentBy(E)) \subseteq Seq(SentBy(F))
<1>1. \A t, e : Met(E, t, e) => Met(F, t, e)
  BY DEF Met
<1>2. \A e, o : Fresh(E, e, o) => Fresh(F, e, o)
  BY DEF Fresh
<1>3. SentBy(E) \subseteq SentBy(F)
  BY <1>1 DEF SentBy
<1> QED
  BY <1>1, <1>2, <1>3, SeqOfMore, Zenon

\* What happens to a ring or a stash.
LEMMA RingSteps ==
    ASSUME NEW S, NEW s \in Seq(S)
    PROVE  /\ \A d \in S : Append(s, d) \in Seq(S) /\ Stashed(s, d) \in Seq(S)
           /\ s # <<>> => Head(s) \in S /\ Tail(s) \in Seq(S)
           /\ \A i \in 1 .. Len(s) : s[i] \in S /\ Unstash(s, i) \in Seq(S)
<1>1. \A d \in S : Append(s, d) \in Seq(S)
  OBVIOUS
<1>2. \A d \in S : Stashed(s, d) \in Seq(S)
  BY <1>1 DEF Stashed
<1>3. s # <<>> => Head(s) \in S /\ Tail(s) \in Seq(S)
  OBVIOUS
<1>4. ASSUME NEW i \in 1 .. Len(s) PROVE Unstash(s, i) \in Seq(S)
  <2>1. i \in Nat /\ i <= Len(s) /\ i >= 1 /\ Len(s) \in Nat
    OBVIOUS
  <2>2. SubSeq(s, 1, i - 1) \in Seq(S) /\ SubSeq(s, i + 1, Len(s)) \in Seq(S)
    BY <2>1
  <2> QED
    BY <2>2 DEF Unstash
<1> QED
  BY <1>1, <1>2, <1>3, <1>4

LEMMA RoundInitInv == RoundInit => RoundInv
<1> SUFFICES ASSUME RoundInit PROVE RoundInv
  OBVIOUS
<1> USE RoundFacts
<1>1. FirstEpoch \in Nat /\ -1 \in Int
  BY RoundsAssumption
<1>2. NoBarrier \in Barriers /\ [seq |-> 0, gen |-> 0] \in Publications
  BY DEF NoBarrier, Barriers, Publications
<1>3. NothingSeen \in Observations /\ \A m \in Nodes : NothingSeen.obs[m] = 0
  BY DEF NothingSeen, Observations
<1>4. Idle \in CallStates
  BY <1>1, <1>2 DEF Idle, CallStates, Steps, NoNode
<1>5. Idle.pc = "idle" /\ \A m \in Nodes : Idle.obs[m] = 0
  BY DEF Idle
<1>6. \A S : <<>> \in Seq(S)
  OBVIOUS
<1>7. RoundTyped
  BY <1>1, <1>2, <1>3, <1>4, <1>6 DEF RoundInit, RoundTyped
<1>8. SentInv
  BY <1>6 DEF RoundInit, SentInv
<1>9. PayloadInv
  BY DEF RoundInit, PayloadInv
<1>10. \A n \in Nodes : CallOK(n, st[n], seen[n], entered)
  BY <1>5 DEF RoundInit, CallOK, InBarrier, Reading, YetToRead
<1>11. BarrierSeparates
  BY DEF RoundInit, BarrierSeparates
<1>12. ObserveFresh
  BY <1>3 DEF RoundInit, ObserveFresh
<1> QED
  BY <1>7, <1>8, <1>9, <1>10, <1>11, <1>12 DEF RoundInv

\* The calls of the other nodes stay right when more is announced.
LEMMA OtherCalls ==
    ASSUME NEW n \in Nodes, NEW r \in CallStates, NEW s, NEW E, NEW F, CallOK(n, r, s, E),
           \A m \in Nodes : E[m] \subseteq F[m]
    PROVE  CallOK(n, r, s, F)
<1>1. \A m \in Nodes : /\ \A t, e : Met(E[m], t, e) => Met(F[m], t, e)
                       /\ \A e, o : Fresh(E[m], e, o) => Fresh(F[m], e, o)
  BY MoreAnnounced, Zenon
<1>2. r.got \cup {n} \subseteq Nodes /\ Peers(n) \subseteq Nodes
  BY RoundFacts, Zenon DEF CallStates
<1> QED
  BY <1>1, <1>2, Zenon DEF CallOK

\* A step of the call of node n that announces and publishes nothing, and changes
\* at most what is in the rings and its stash.
LEMMA QuietStep ==
    ASSUME RoundInv, NEW n \in Nodes, NEW r \in CallStates, st' = [st EXCEPT ![n] = r],
           CallOK(n, r, seen[n], entered),
           UNCHANGED <<pub, payload, epoch, entered, passed, seen>>,
           queue' \in [Nodes -> [Nodes -> Seq(Descs)]],
           stash' \in [Nodes -> [Nodes -> Seq(Descs)]],
           \A m \in Nodes, p \in Nodes : /\ queue'[m][p] \in Seq(SentBy(entered[m]))
                                         /\ stash'[p][m] \in Seq(SentBy(entered[m]))
    PROVE  RoundInv'
<1> USE DEF RoundInv
<1>1. /\ st' \in [Nodes -> CallStates] /\ st'[n] = r
      /\ \A m \in Nodes : m # n => st'[m] = st[m]
  BY DEF RoundTyped
<1>2. RoundTyped'
  BY <1>1 DEF RoundTyped
<1>3. SentInv'
  BY DEF SentInv
<1>4. PayloadInv'
  BY DEF PayloadInv
<1>5. \A m \in Nodes : CallOK(m, st'[m], seen'[m], entered')
  BY <1>1, Zenon
<1>6. BarrierSeparates' /\ ObserveFresh'
  BY DEF BarrierSeparates, ObserveFresh
<1> QED
  BY <1>2, <1>3, <1>4, <1>5, <1>6

\* A descriptor is pushed, popped, put into a stash or taken out of it.
LEMMA PushKeepsSent ==
    ASSUME RoundInv, NEW n \in Nodes, NEW p \in Nodes, NEW d \in SentBy(entered[n]), PushTo(n, p, d)
    PROVE  /\ queue' \in [Nodes -> [Nodes -> Seq(Descs)]]
           /\ \A m \in Nodes, q \in Nodes : queue'[m][q] \in Seq(SentBy(entered[m]))
<1>1. PICK s \in Seq(SentBy(entered[n])) : s = Append(queue[n][p], d)
  BY RingSteps, Zenon DEF RoundInv, SentInv
<1>2. s \in Seq(Descs)
  BY SeqOfMore DEF SentBy
<1>3. queue' = [queue EXCEPT ![n][p] = s]
  BY <1>1 DEF PushTo
<1> QED
  BY <1>2, <1>3 DEF RoundInv, RoundTyped, SentInv

LEMMA PopKeepsSent ==
    ASSUME RoundInv, NEW n \in Nodes, NEW p \in Nodes, queue[p][n] # <<>>,
           queue' = [queue EXCEPT ![p][n] = Tail(@)]
    PROVE  /\ queue' \in [Nodes -> [Nodes -> Seq(Descs)]]
           /\ \A m \in Nodes, q \in Nodes : queue'[m][q] \in Seq(SentBy(entered[m]))
           /\ Head(queue[p][n]) \in SentBy(entered[p])
<1>1. queue[p][n] \in Seq(SentBy(entered[p]))
  BY DEF RoundInv, SentInv
<1>2. PICK s \in Seq(SentBy(entered[p])) : s = Tail(queue[p][n])
  BY <1>1, RingSteps, Zenon
<1>3. s \in Seq(Descs)
  BY SeqOfMore DEF SentBy
<1>4. queue' = [queue EXCEPT ![p][n] = s]
  BY <1>2
<1>5. Head(queue[p][n]) \in SentBy(entered[p])
  BY <1>1, RingSteps, Zenon
<1> QED
  BY <1>3, <1>4, <1>5 DEF RoundInv, RoundTyped, SentInv

LEMMA StashKeepsSent ==
    ASSUME RoundInv, NEW n \in Nodes, NEW p \in Nodes, NEW s \in Seq(SentBy(entered[p])),
           stash' = [stash EXCEPT ![n][p] = s]
    PROVE  /\ stash' \in [Nodes -> [Nodes -> Seq(Descs)]]
           /\ \A m \in Nodes, q \in Nodes : stash'[q][m] \in Seq(SentBy(entered[m]))
<1>1. s \in Seq(Descs)
  BY SeqOfMore DEF SentBy
<1> QED
  BY <1>1 DEF RoundInv, RoundTyped, SentInv

\* The rings or the stashes stay as they are.
LEMMA SameStaysSent ==
    ASSUME RoundInv
    PROVE  /\ UNCHANGED queue =>
              /\ queue' \in [Nodes -> [Nodes -> Seq(Descs)]]
              /\ \A m \in Nodes, q \in Nodes : queue'[m][q] \in Seq(SentBy(entered[m]))
           /\ UNCHANGED stash =>
              /\ stash' \in [Nodes -> [Nodes -> Seq(Descs)]]
              /\ \A m \in Nodes, q \in Nodes : stash'[q][m] \in Seq(SentBy(entered[m]))
BY DEF RoundInv, RoundTyped, SentInv

\* A call that is over, and one that is with its objects, owe nothing.
LEMMA NothingOwed ==
    ASSUME NEW n \in Nodes, NEW r \in CallStates, NEW s, NEW E,
           \/ r.pc \in {"put", "resolve", "objects"}
           \/ r.pc = "idle" /\ \A m \in Nodes : r.obs[m] = 0
    PROVE  CallOK(n, r, s, E)
BY DEF CallOK, InBarrier, Reading, YetToRead

LEMMA FinishOwesNothing ==
    ASSUME NEW n \in Nodes, NEW c \in Int, Finish(n, c)
    PROVE  \E r \in CallStates : /\ st' = [st EXCEPT ![n] = r]
                                 /\ \A s, E : CallOK(n, r, s, E)
<1>1. NoBarrier \in Barriers /\ 0 \in Nat /\ 1 \in Nat /\ -1 \in Int
  BY DEF NoBarrier, Barriers
<1>2. [Idle EXCEPT !.rc = c] \in CallStates
  BY <1>1 DEF Idle, CallStates, Steps, NoNode
<1>3. [Idle EXCEPT !.rc = c].pc = "idle" /\ \A m \in Nodes : [Idle EXCEPT !.rc = c].obs[m] = 0
  BY DEF Idle
<1>4. \A s, E : CallOK(n, [Idle EXCEPT !.rc = c], s, E)
  BY <1>2, <1>3, NothingOwed, Zenon
<1> QED
  BY <1>2, <1>4, Zenon DEF Finish

LEMMA BarrierPushKeeps ==
    ASSUME RoundInv, NEW n \in Nodes, BarrierPush(n)
    PROVE  RoundInv'
<1>1. PICK r \in CallStates : r = st[n]
  BY DEF RoundInv, RoundTyped
<1>2. CallOK(n, r, seen[n], entered) /\ r.pc = "push"
  BY <1>1 DEF RoundInv, BarrierPush
<1>3. PICK p \in r.todo :
         /\ PushTo(n, p, Desc(r.barrier.type, r.barrier.epoch, 0, 0))
         /\ st' = [st EXCEPT ![n] = [r EXCEPT
                !.todo = r.todo \ {p}, !.pc = IF r.todo = {p} THEN "wait" ELSE "push"]]
  BY <1>1, Zenon DEF BarrierPush
<1>4. PICK c \in {"push", "wait"} : c = IF r.todo = {p} THEN "wait" ELSE "push"
  OBVIOUS
<1>5. PICK q : q = [r EXCEPT !.todo = r.todo \ {p}, !.pc = c]
  OBVIOUS
<1>6. /\ q \in CallStates /\ q.pc = c /\ q.barrier = r.barrier /\ q.got = r.got /\ q.obs = r.obs
  BY <1>4, <1>5, Zenon DEF CallStates, Steps
<1>7. CallOK(n, q, seen[n], entered)
  BY <1>2, <1>4, <1>6 DEF CallOK, InBarrier, Reading, YetToRead
<1>8. PICK d \in SentBy(entered[n]) : d = Desc(r.barrier.type, r.barrier.epoch, 0, 0)
  <2>1. /\ r.barrier.type \in BarrierTypes /\ r.barrier.epoch \in Nat
        /\ Met(entered[n], r.barrier.type, r.barrier.epoch)
    BY <1>2 DEF CallOK, InBarrier, CallStates, Barriers
  <2> QED
    BY <2>1, Zenon DEF SentBy, Desc, Descs, BarrierTypes
<1>9. st' = [st EXCEPT ![n] = q] /\ PushTo(n, p, d) /\ p \in Nodes
  BY <1>3, <1>4, <1>5, <1>8 DEF CallStates
<1>10. UNCHANGED <<stash, pub, payload, epoch, entered, passed, seen>>
  BY DEF BarrierPush
<1> QED
  BY <1>6, <1>7, <1>9, <1>10, PushKeepsSent, SameStaysSent, QuietStep, Zenon

\* A peer whose descriptor of the barrier is found has announced the barrier.
LEMMA PeerCounted ==
    ASSUME NEW n \in Nodes, NEW p \in Nodes, NEW r \in CallStates, NEW q \in CallStates,
           NEW s, NEW E, CallOK(n, r, s, E), r.pc = "wait",
           q.pc = r.pc, q.barrier = r.barrier, q.obs = r.obs,
           \/ q.got = r.got
           \/ /\ q.got = r.got \cup {p}
              /\ \E d \in SentBy(E[p]) : MatchesBarrier(d, r.barrier)
    PROVE  CallOK(n, q, s, E)
<1>1. /\ r.barrier.type \in BarrierTypes
      /\ \A m \in r.got \cup {n} : Met(E[m], r.barrier.type, r.barrier.epoch)
  BY DEF CallOK, InBarrier
<1>2. \A d \in SentBy(E[p]) : MatchesBarrier(d, r.barrier) =>
         Met(E[p], r.barrier.type, r.barrier.epoch)
  BY <1>1 DEF SentBy, MatchesBarrier, BarrierTypes
<1>3. \A m \in q.got \cup {n} : Met(E[m], r.barrier.type, r.barrier.epoch)
  BY <1>1, <1>2
<1> QED
  BY <1>1, <1>3 DEF CallOK, InBarrier, Reading, YetToRead

LEMMA BarrierTakeKeeps ==
    ASSUME RoundInv, NEW n \in Nodes, NEW p \in Nodes, BarrierTake(n, p)
    PROVE  RoundInv'
<1>1. PICK r \in CallStates : r = st[n]
  BY DEF RoundInv, RoundTyped
<1>2. CallOK(n, r, seen[n], entered) /\ r.pc = "wait"
  BY <1>1 DEF RoundInv, BarrierTake
<1>3. PICK q : q = [r EXCEPT !.got = r.got \cup {p}]
  BY Zenon
<1>4. /\ q \in CallStates /\ q.pc = r.pc /\ q.barrier = r.barrier /\ q.obs = r.obs
      /\ q.got = r.got \cup {p}
  BY <1>3, Zenon DEF CallStates
<1>5. PICK i \in 1 .. Len(stash[n][p]) :
         /\ MatchesBarrier(stash[n][p][i], r.barrier)
         /\ stash' = [stash EXCEPT ![n][p] = Unstash(stash[n][p], i)]
  BY <1>1, Zenon DEF BarrierTake, InStash
<1>6. /\ stash[n][p][i] \in SentBy(entered[p])
      /\ Unstash(stash[n][p], i) \in Seq(SentBy(entered[p]))
  BY RingSteps, Zenon DEF RoundInv, SentInv
<1>7. CallOK(n, q, seen[n], entered)
  BY <1>2, <1>4, <1>5, <1>6, PeerCounted, Zenon
<1>8. /\ st' = [st EXCEPT ![n] = q]
      /\ UNCHANGED <<queue, pub, payload, epoch, entered, passed, seen>>
  BY <1>1, <1>3 DEF BarrierTake
<1>9. PICK t \in Seq(SentBy(entered[p])) : t = Unstash(stash[n][p], i)
  BY <1>6
<1> QED
  BY <1>4, <1>5, <1>7, <1>8, <1>9, StashKeepsSent, SameStaysSent, QuietStep, Zenon

LEMMA BarrierPopKeeps ==
    ASSUME RoundInv, NEW n \in Nodes, NEW p \in Nodes, BarrierPop(n, p)
    PROVE  RoundInv'
<1>1. PICK r \in CallStates : r = st[n]
  BY DEF RoundInv, RoundTyped
<1>2. CallOK(n, r, seen[n], entered) /\ r.pc = "wait"
  BY <1>1 DEF RoundInv, BarrierPop, MayDrain
<1>3. queue[p][n] # <<>> /\ queue' = [queue EXCEPT ![p][n] = Tail(@)]
  BY DEF BarrierPop, MayDrain
<1>4. PICK d \in SentBy(entered[p]) : d = Head(queue[p][n])
  BY <1>3, PopKeepsSent, Zenon
<1>5. UNCHANGED <<pub, payload, epoch, entered, passed, seen>> /\ p \in Int
  BY DEF BarrierPop, Nodes
<1>6. CASE MatchesBarrier(d, r.barrier)
  <2>1. PICK q : q = [r EXCEPT !.drain = p, !.got = r.got \cup {p}]
    OBVIOUS
  <2>2. /\ q \in CallStates /\ q.pc = r.pc /\ q.barrier = r.barrier /\ q.obs = r.obs
        /\ q.got = r.got \cup {p}
    BY <1>5, <2>1, Zenon DEF CallStates
  <2>3. CallOK(n, q, seen[n], entered)
    BY <1>2, <1>6, <2>2, PeerCounted
  <2>4. st' = [st EXCEPT ![n] = q] /\ UNCHANGED stash
    BY <1>1, <1>4, <1>6, <2>1 DEF BarrierPop
  <2> QED
    BY <1>3, <1>5, <2>2, <2>3, <2>4, PopKeepsSent, SameStaysSent, QuietStep, Zenon
<1>7. CASE ~MatchesBarrier(d, r.barrier)
  <2>1. PICK q : q = [r EXCEPT !.drain = p]
    BY Zenon
  <2>2. /\ q \in CallStates /\ q.pc = r.pc /\ q.barrier = r.barrier /\ q.obs = r.obs
        /\ q.got = r.got
    BY <1>5, <2>1, Zenon DEF CallStates
  <2>3. CallOK(n, q, seen[n], entered)
    BY <1>2, <2>2, PeerCounted
  <2>4. PICK t \in Seq(SentBy(entered[p])) : t = Stashed(stash[n][p], d)
    BY RingSteps DEF RoundInv, SentInv
  <2>5. st' = [st EXCEPT ![n] = q] /\ stash' = [stash EXCEPT ![n][p] = t]
    BY <1>1, <1>4, <1>7, <2>1, <2>4 DEF BarrierPop
  <2> QED
    BY <1>3, <1>5, <2>2, <2>3, <2>5, PopKeepsSent, StashKeepsSent, QuietStep, Zenon
<1> QED
  BY <1>6, <1>7

LEMMA DrainEndKeeps ==
    ASSUME RoundInv, NEW n \in Nodes, BarrierDrained(n) \/ \E p \in Nodes : BarrierPopFails(n, p)
    PROVE  RoundInv'
<1>1. PICK r \in CallStates : r = st[n]
  BY DEF RoundInv, RoundTyped
<1>2. CallOK(n, r, seen[n], entered) /\ r.pc = "wait"
  BY <1>1 DEF RoundInv, BarrierDrained, BarrierPopFails, MayDrain
<1>3. PICK q : q = [r EXCEPT !.drain = NoNode]
  BY Zenon
<1>4. /\ q \in CallStates /\ q.pc = r.pc /\ q.barrier = r.barrier /\ q.obs = r.obs
      /\ q.got = r.got
  <2>1. NoNode \in Int
    BY DEF NoNode
  <2> QED
    BY <1>3, <2>1, Zenon DEF CallStates
<1>5. CallOK(n, q, seen[n], entered)
  BY <1>2, <1>4, PeerCounted
<1>6. /\ st' = [st EXCEPT ![n] = q]
      /\ UNCHANGED <<stash, pub, payload, epoch, entered, passed, seen>>
  BY <1>1, <1>3 DEF BarrierDrained, BarrierPopFails
<1>7. \/ UNCHANGED queue
      \/ \E p \in Nodes : queue[p][n] # <<>> /\ queue' = [queue EXCEPT ![p][n] = Tail(@)]
  BY DEF BarrierDrained, BarrierPopFails, FailedPop, MayDrain
<1>8. /\ queue' \in [Nodes -> [Nodes -> Seq(Descs)]]
      /\ \A m \in Nodes, k \in Nodes : queue'[m][k] \in Seq(SentBy(entered[m]))
  BY <1>7, PopKeepsSent, SameStaysSent
<1> QED
  BY <1>4, <1>5, <1>6, <1>8, SameStaysSent, QuietStep, Zenon

LEMMA ReadPeerKeeps ==
    ASSUME RoundInv, NEW n \in Nodes, ReadPeer(n)
    PROVE  RoundInv'
<1>1. PICK r \in CallStates : r = st[n]
  BY DEF RoundInv, RoundTyped
<1>2. CallOK(n, r, seen[n], entered) /\ r.pc = "read"
  BY <1>1 DEF RoundInv, ReadPeer
<1>3. PICK p \in r.todo : st' = [st EXCEPT ![n] = [r EXCEPT
                              !.obs[p] = payload[p].seq, !.todo = r.todo \ {p}]]
  BY <1>1, Zenon DEF ReadPeer
<1>4. p \in Nodes
  BY DEF CallStates
<1>5. PICK o \in Nat : o = payload[p].seq
  BY <1>4 DEF RoundInv, RoundTyped, Publications
<1>6. PICK f \in [Nodes -> Nat] : f = [r.obs EXCEPT ![p] = o]
  BY Zenon DEF CallStates
<1>7. PICK q : q = [r EXCEPT !.obs = f, !.todo = r.todo \ {p}]
  OBVIOUS
<1>8. q \in CallStates /\ q.pc = "read" /\ q.obs = f
  BY <1>2, <1>7, Zenon DEF CallStates
<1>9. f[p] = o /\ \A m \in Nodes : m # p => f[m] = r.obs[m]
  BY <1>4, <1>6 DEF CallStates
<1>10. \A m \in Peers(n) : /\ Met(entered[m], "READY", seen[n].epoch)
                           /\ r.obs[m] # 0 => Fresh(entered[m], seen[n].epoch, r.obs[m])
  BY <1>2 DEF CallOK, Reading
<1>11. ASSUME p \in Peers(n) PROVE Fresh(entered[p], seen[n].epoch, o)
  <2>1. PICK x \in entered[p] : x[1] = "READY" /\ x[2] = seen[n].epoch
    BY <1>10, <1>11 DEF Met
  <2>2. x[3] \in Nat
    BY <1>4 DEF RoundInv, RoundTyped
  <2>3. x[3] <= o
    BY <1>4, <1>5, <2>1 DEF RoundInv, PayloadInv
  <2> QED
    BY <2>1, <2>2, <2>3 DEF Fresh
<1>12. CallOK(n, q, seen[n], entered)
  <2>1. ~InBarrier(q) /\ ~YetToRead(q)
    BY <1>8 DEF InBarrier, YetToRead
  <2>2. \A m \in Peers(n) : /\ Met(entered[m], "READY", seen[n].epoch)
                            /\ q.obs[m] # 0 => Fresh(entered[m], seen[n].epoch, q.obs[m])
    BY <1>8, <1>9, <1>10, <1>11, RoundFacts
  <2> QED
    BY <2>1, <2>2 DEF CallOK
<1>13. /\ st' = [st EXCEPT ![n] = q]
       /\ UNCHANGED <<queue, stash, pub, payload, epoch, entered, passed, seen>>
  BY <1>3, <1>5, <1>6, <1>7, Zenon DEF ReadPeer
<1> QED
  BY <1>8, <1>12, <1>13, SameStaysSent, QuietStep, Zenon

\* A step with the objects: the call stays there, and owes nothing.
LEMMA ObjectStep ==
    ASSUME RoundInv, NEW n \in Nodes, NEW q \in CallStates, st' = [st EXCEPT ![n] = q],
           q.pc \in {"put", "resolve", "objects"},
           UNCHANGED <<pub, payload, epoch, entered, passed, seen>>,
           queue' \in [Nodes -> [Nodes -> Seq(Descs)]],
           stash' \in [Nodes -> [Nodes -> Seq(Descs)]],
           \A m \in Nodes, p \in Nodes : /\ queue'[m][p] \in Seq(SentBy(entered[m]))
                                         /\ stash'[p][m] \in Seq(SentBy(entered[m]))
    PROVE  RoundInv'
<1>1. CallOK(n, q, seen[n], entered)
  BY NothingOwed
<1> QED
  BY <1>1, QuietStep, Zenon

LEMMA ObjectPutKeeps ==
    ASSUME RoundInv, NEW n \in Nodes, ObjectPut(n)
    PROVE  RoundInv'
<1>1. PICK r \in CallStates : r = st[n] /\ r.pc = "put"
  BY DEF RoundInv, RoundTyped, ObjectPut
<1>2. PICK p \in r.todo :
         /\ PushTo(n, p, Desc("PUT", epoch[n], r.kind, pub[n].gen))
         /\ st' = [st EXCEPT ![n] =
                IF r.todo # {p} THEN [r EXCEPT !.todo = r.todo \ {p}]
                ELSE IF r.kind < Kinds THEN [r EXCEPT !.kind = r.kind + 1, !.todo = Peers(n)]
                ELSE [r EXCEPT !.pc = "resolve", !.kind = 1]]
  BY <1>1, Zenon DEF ObjectPut
<1>3. PICK q \in CallStates : st' = [st EXCEPT ![n] = q] /\ q.pc \in {"put", "resolve"}
  <2>1. /\ [r EXCEPT !.todo = r.todo \ {p}] \in CallStates
        /\ [r EXCEPT !.todo = r.todo \ {p}].pc = "put"
    BY <1>1, Zenon DEF CallStates
  <2>2. /\ [r EXCEPT !.kind = r.kind + 1, !.todo = Peers(n)] \in CallStates
        /\ [r EXCEPT !.kind = r.kind + 1, !.todo = Peers(n)].pc = "put"
    <3>1. r.kind \in Nat
      BY DEF CallStates
    <3>2. r.kind + 1 \in Nat /\ Peers(n) \in SUBSET Nodes
      BY <3>1, RoundFacts
    <3> QED
      BY <1>1, <3>2, Zenon DEF CallStates
  <2>3. /\ [r EXCEPT !.pc = "resolve", !.kind = 1] \in CallStates
        /\ [r EXCEPT !.pc = "resolve", !.kind = 1].pc = "resolve"
    BY Zenon DEF CallStates, Steps
  <2> QED
    BY <1>2, <2>1, <2>2, <2>3, Zenon
<1>4. PICK d \in SentBy(entered[n]) : d = Desc("PUT", epoch[n], r.kind, pub[n].gen)
  <2>1. epoch[n] \in Nat /\ r.kind \in Nat /\ pub[n].gen \in Nat
    BY DEF RoundInv, RoundTyped, Publications, CallStates
  <2> QED
    BY <2>1, Zenon DEF SentBy, Desc, Descs
<1>5. /\ PushTo(n, p, d) /\ p \in Nodes
      /\ UNCHANGED <<stash, pub, payload, epoch, entered, passed, seen>>
  BY <1>2, <1>4 DEF ObjectPut, CallStates
<1> QED
  BY <1>3, <1>5, PushKeepsSent, SameStaysSent, ObjectStep, Zenon

LEMMA ObjectResolveKeeps ==
    ASSUME RoundInv, NEW n \in Nodes, ObjectResolve(n)
    PROVE  RoundInv'
<1>1. PICK r \in CallStates : r = st[n]
  BY DEF RoundInv, RoundTyped
<1>2. PICK g \in Nat : g = payload[Next1(n)].gen
  BY RoundFacts DEF RoundInv, RoundTyped, Publications
<1>3. PICK f \in [1 .. Kinds -> Nat] : f = [r.found EXCEPT ![r.kind] = g]
  BY Zenon DEF CallStates
<1>4. PICK k \in Nat : k = IF r.kind < Kinds THEN r.kind + 1 ELSE r.kind
  BY DEF CallStates
<1>5. PICK c \in {"objects", "resolve"} : c = IF r.kind = Kinds THEN "objects" ELSE "resolve"
  OBVIOUS
<1>6. PICK q : q = [r EXCEPT !.found = f, !.kind = k, !.pc = c]
  OBVIOUS
<1>7. q \in CallStates /\ q.pc = c
  BY <1>5, <1>6, Zenon DEF CallStates, Steps
<1>8. /\ st' = [st EXCEPT ![n] = q]
      /\ UNCHANGED <<queue, stash, pub, payload, epoch, entered, passed, seen>>
  BY <1>1, <1>2, <1>3, <1>4, <1>5, <1>6 DEF ObjectResolve
<1> QED
  BY <1>7, <1>8, SameStaysSent, ObjectStep, Zenon

LEMMA ObjectTakeKeeps ==
    ASSUME RoundInv, NEW n \in Nodes, NEW k \in 1 .. Kinds, ObjectTake(n, k)
    PROVE  RoundInv'
<1>1. PICK r \in CallStates : r = st[n] /\ r.pc = "objects"
  BY DEF RoundInv, RoundTyped, ObjectTake
<1>2. PICK p \in Nodes : p = Next1(n)
  BY RoundFacts
<1>3. PICK i \in 1 .. Len(stash[n][p]) : stash' = [stash EXCEPT ![n][p] = Unstash(stash[n][p], i)]
  BY <1>2, Zenon DEF ObjectTake
<1>4. PICK t \in Seq(SentBy(entered[p])) : t = Unstash(stash[n][p], i)
  BY RingSteps DEF RoundInv, SentInv
<1>5. PICK q : q = [r EXCEPT !.saw = r.saw \cup {k}]
  BY Zenon
<1>6. q \in CallStates /\ q.pc = "objects"
  BY <1>1, <1>5, Zenon DEF CallStates
<1>7. /\ st' = [st EXCEPT ![n] = q]
      /\ UNCHANGED <<queue, pub, payload, epoch, entered, passed, seen>>
  BY <1>1, <1>5 DEF ObjectTake
<1> QED
  BY <1>3, <1>4, <1>6, <1>7, StashKeepsSent, SameStaysSent, ObjectStep, Zenon

LEMMA ObjectPopKeeps ==
    ASSUME RoundInv, NEW n \in Nodes, ObjectPop(n)
    PROVE  RoundInv'
<1>1. PICK r \in CallStates : r = st[n] /\ r.pc = "objects"
  BY DEF RoundInv, RoundTyped, ObjectPop, MayEmpty
<1>2. PICK p \in Nodes : p = Next1(n)
  BY RoundFacts
<1>3. queue[p][n] # <<>> /\ queue' = [queue EXCEPT ![p][n] = Tail(@)]
  BY <1>2 DEF ObjectPop, MayEmpty
<1>4. PICK d \in SentBy(entered[p]) : d = Head(queue[p][n])
  BY <1>3, PopKeepsSent, Zenon
<1>5. PICK W \in SUBSET (1 .. Kinds) : W = WantedAs(n, d)
  BY Zenon DEF WantedAs
<1>6. PICK q : q = [r EXCEPT !.drain = p, !.saw = r.saw \cup W]
  OBVIOUS
<1>7. q \in CallStates /\ q.pc = "objects"
  <2>1. p \in Int
    BY DEF Nodes
  <2> QED
    BY <1>1, <1>6, <2>1, Zenon DEF CallStates
<1>8. PICK t \in Seq(SentBy(entered[p])) : t = Stashed(stash[n][p], d)
  BY RingSteps DEF RoundInv, SentInv
<1>9. /\ st' = [st EXCEPT ![n] = q]
      /\ UNCHANGED <<pub, payload, epoch, entered, passed, seen>>
      /\ UNCHANGED stash \/ stash' = [stash EXCEPT ![n][p] = t]
  BY <1>1, <1>2, <1>4, <1>5, <1>6, <1>8 DEF ObjectPop
<1>10. /\ stash' \in [Nodes -> [Nodes -> Seq(Descs)]]
       /\ \A m \in Nodes, k \in Nodes : stash'[k][m] \in Seq(SentBy(entered[m]))
  BY <1>9, StashKeepsSent, SameStaysSent, Zenon
<1> QED
  BY <1>3, <1>7, <1>9, <1>10, PopKeepsSent, ObjectStep, Zenon

LEMMA ObjectDrainedKeeps ==
    ASSUME RoundInv, NEW n \in Nodes, ObjectDrained(n) \/ ObjectPopFails(n)
    PROVE  RoundInv'
<1>1. PICK r \in CallStates : r = st[n] /\ r.pc = "objects"
  BY DEF RoundInv, RoundTyped, ObjectDrained, ObjectPopFails, MayEmpty
<1>2. UNCHANGED <<stash, pub, payload, epoch, entered, passed, seen>>
  BY DEF ObjectDrained, ObjectPopFails
<1>3. \/ UNCHANGED queue
      \/ \E p \in Nodes : queue[p][n] # <<>> /\ queue' = [queue EXCEPT ![p][n] = Tail(@)]
  BY RoundFacts DEF ObjectDrained, ObjectPopFails, FailedPop, MayEmpty
<1>4. /\ queue' \in [Nodes -> [Nodes -> Seq(Descs)]]
      /\ \A m \in Nodes, k \in Nodes : queue'[m][k] \in Seq(SentBy(entered[m]))
  BY <1>3, PopKeepsSent, SameStaysSent
<1>5. CASE Finish(n, 0)
  <2>1. PICK q \in CallStates : st' = [st EXCEPT ![n] = q] /\ \A s, E : CallOK(n, q, s, E)
    BY <1>5, FinishOwesNothing
  <2> QED
    BY <1>2, <1>4, <2>1, SameStaysSent, QuietStep, Zenon
<1>6. CASE st' = [st EXCEPT ![n].drain = NoNode]
  <2>1. PICK q : q = [r EXCEPT !.drain = NoNode]
    BY Zenon
  <2>2. NoNode \in Int
    BY DEF NoNode
  <2>3. q \in CallStates /\ q.pc = "objects"
    BY <1>1, <2>1, <2>2, Zenon DEF CallStates
  <2>4. st' = [st EXCEPT ![n] = q]
    BY <1>1, <1>6, <2>1
  <2> QED
    BY <1>2, <1>4, <2>3, <2>4, SameStaysSent, ObjectStep, Zenon
<1> QED
  BY <1>5, <1>6 DEF ObjectDrained, ObjectPopFails, ObjectsLooked

\* More is announced; rings, stashes and what has been returned stay.
LEMMA MoreAnnouncedKeeps ==
    ASSUME RoundInv, \A m \in Nodes : entered[m] \subseteq entered'[m],
           UNCHANGED <<queue, stash, passed, seen>>
    PROVE  /\ SentInv' /\ BarrierSeparates' /\ ObserveFresh'
           /\ \A m \in Nodes : CallOK(m, st[m], seen'[m], entered')
<1>1. \A m \in Nodes : Seq(SentBy(entered[m])) \subseteq Seq(SentBy(entered'[m]))
  BY MoreAnnounced
<1>2. SentInv'
  BY <1>1, Zenon DEF RoundInv, SentInv
<1>3. BarrierSeparates'
  BY RoundFacts DEF RoundInv, BarrierSeparates
<1>4. ObserveFresh'
  BY RoundFacts DEF RoundInv, ObserveFresh
<1>5. \A m \in Nodes : CallOK(m, st[m], seen[m], entered')
  BY OtherCalls DEF RoundInv, RoundTyped
<1> QED
  BY <1>2, <1>3, <1>4, <1>5

\* Node n enters a barrier, READY after a publication or OBSERVED after reading.
LEMMA AnnounceKeeps ==
    ASSUME RoundInv, NEW n \in Nodes, NEW type \in BarrierTypes, NEW seq \in Nat,
           Announce(n, type, seq),
           UNCHANGED <<queue, stash, passed, seen>>,
           pub' \in [Nodes -> Publications], payload' \in [Nodes -> Publications],
           \A m \in Nodes : /\ payload[m].seq <= payload'[m].seq
                            /\ payload'[m].seq <= pub'[m].seq,
           \/ type = "READY" /\ st[n].pc = "idle" /\ seq <= payload'[n].seq
           \/ type = "OBSERVED" /\ st[n].pc = "read"
    PROVE  RoundInv'
<1>1. PICK r \in CallStates : r = st[n]
  BY DEF RoundInv, RoundTyped
<1>2. PICK e \in Nat : e = NextEpoch(epoch[n])
  BY RoundFacts DEF RoundInv, RoundTyped
<1>3. PICK b \in Barriers : b = [type |-> type, epoch |-> e]
  BY Zenon DEF Barriers, BarrierTypes
<1>4. b.type = type /\ b.epoch = e
  BY <1>3
<1>5. PICK x \in BarrierTypes \X Nat \X Nat : x = <<type, e, seq>>
  BY Zenon
<1>6. x[1] = type /\ x[2] = e /\ x[3] = seq
  BY <1>5
<1>7. PICK q : q = [r EXCEPT !.pc = "push", !.todo = Peers(n), !.got = {}, !.barrier = b]
  OBVIOUS
<1>8. /\ q \in CallStates /\ q.pc = "push" /\ q.barrier = b /\ q.got = {} /\ q.obs = r.obs
  <2>1. Peers(n) \in SUBSET Nodes /\ {} \in SUBSET Nodes
    BY RoundFacts
  <2> QED
    BY <1>7, <2>1, Zenon DEF CallStates, Steps
<1>9. /\ epoch' = [epoch EXCEPT ![n] = e] /\ st' = [st EXCEPT ![n] = q]
      /\ entered' = [entered EXCEPT ![n] = entered[n] \cup {x}]
  BY <1>1, <1>2, <1>3, <1>5, <1>7, Zenon DEF Announce
<1>10. /\ epoch' \in [Nodes -> Nat]
       /\ entered' \in [Nodes -> SUBSET (BarrierTypes \X Nat \X Nat)]
       /\ entered'[n] = entered[n] \cup {x}
       /\ \A m \in Nodes : m # n => entered'[m] = entered[m]
  BY <1>9, Zenon DEF RoundInv, RoundTyped
<1>11. /\ st' \in [Nodes -> CallStates] /\ st'[n] = q
       /\ \A m \in Nodes : m # n => st'[m] = st[m]
  BY <1>8, <1>9 DEF RoundInv, RoundTyped
<1>12. \A m \in Nodes : entered[m] \subseteq entered'[m]
  BY <1>10, Zenon
<1>13. /\ SentInv' /\ BarrierSeparates' /\ ObserveFresh'
       /\ \A m \in Nodes : CallOK(m, st[m], seen'[m], entered')
  BY <1>12, MoreAnnouncedKeeps, Zenon
<1>14. RoundTyped'
  BY <1>10, <1>11, Zenon DEF RoundInv, RoundTyped
<1>15. PayloadInv'
  <2> SUFFICES ASSUME NEW m \in Nodes, NEW y \in entered'[m], y[1] = "READY"
               PROVE  y[3] <= payload'[m].seq
    BY Zenon DEF PayloadInv
  <2>1. /\ payload[m].seq \in Nat /\ payload'[m].seq \in Nat
        /\ payload[m].seq <= payload'[m].seq
    BY DEF RoundInv, RoundTyped, Publications
  <2>2. CASE y \in entered[m]
    <3>1. y[3] \in Nat /\ y[3] <= payload[m].seq
      BY <2>2, SMTT(30) DEF RoundInv, RoundTyped, PayloadInv
    <3> QED
      BY <2>1, <3>1, SMTT(30)
  <2>3. CASE m = n /\ y = x
    BY <1>6, <2>3 DEF BarrierTypes
  <2> QED
    BY <1>10, <2>2, <2>3
<1>16. CallOK(n, q, seen'[n], entered')
  <2>1. CallOK(n, r, seen'[n], entered')
    BY <1>1, <1>13
  <2>2. Met(entered'[n], type, e)
    BY <1>6, <1>10, Zenon DEF Met
  <2>3. CASE type = "READY" /\ r.pc = "idle"
    BY <1>4, <1>8, <2>1, <2>2, <2>3, Zenon DEF CallOK, InBarrier, YetToRead, Reading
  <2>4. CASE type = "OBSERVED" /\ r.pc = "read"
    BY <1>4, <1>8, <2>1, <2>2, <2>4, Zenon DEF CallOK, InBarrier, YetToRead, Reading
  <2> QED
    BY <1>1, <2>3, <2>4, Zenon
<1>17. \A m \in Nodes : CallOK(m, st'[m], seen'[m], entered')
  BY <1>11, <1>13, <1>16, Zenon
<1> QED
  BY <1>13, <1>14, <1>15, <1>17 DEF RoundInv

\* What the next call publishes.
LEMMA PublicationIsNewer ==
    ASSUME RoundInv, NEW n \in Nodes
    PROVE  \E p \in Publications : p = Publication(n) /\ pub[n].seq < p.seq
<1>1. pub[n].seq \in Nat /\ pub[n].gen \in Nat
  BY DEF RoundInv, RoundTyped, Publications
<1>2. ObjectRecords(n) \in Nat
  BY <1>1 DEF ObjectRecords
<1>3. PICK o \in Nat, g \in Nat : o = pub[n].seq /\ g = ObjectRecords(n)
  BY <1>1, <1>2, Zenon
<1>4. PICK s \in Nat : s = o + 1 /\ o < s
  OBVIOUS
<1>5. Publication(n) = [seq |-> s, gen |-> g]
  BY <1>3, <1>4 DEF Publication
<1> QED
  BY <1>3, <1>4, <1>5 DEF Publications

\* A call that publishes and is over, with success or without.
LEMMA PublishedAndOver ==
    ASSUME RoundInv, NEW n \in Nodes, NEW c \in Int, Finish(n, c),
           pub' = [pub EXCEPT ![n] = Publication(n)],
           NEW p \in {payload[n], Publication(n)}, payload' = [payload EXCEPT ![n] = p],
           UNCHANGED <<queue, stash, epoch, entered, passed, seen>>
    PROVE  RoundInv'
<1>1. PICK q \in CallStates : st' = [st EXCEPT ![n] = q] /\ \A s, E : CallOK(n, q, s, E)
  BY FinishOwesNothing
<1>2. PICK w \in Publications : w = Publication(n) /\ pub[n].seq < w.seq
  BY PublicationIsNewer, Zenon
<1>3. /\ payload[n] \in Publications /\ pub[n] \in Publications
      /\ payload[n].seq <= pub[n].seq
  BY DEF RoundInv, RoundTyped, PayloadInv
<1>4. p \in Publications /\ payload[n].seq <= p.seq /\ p.seq <= w.seq
  BY <1>2, <1>3 DEF Publications
<1>5. /\ pub' \in [Nodes -> Publications] /\ pub'[n] = w
      /\ payload' \in [Nodes -> Publications] /\ payload'[n] = p
      /\ st' \in [Nodes -> CallStates] /\ st'[n] = q
      /\ \A m \in Nodes : m # n =>
            pub'[m] = pub[m] /\ payload'[m] = payload[m] /\ st'[m] = st[m]
  BY <1>1, <1>2, <1>4 DEF RoundInv, RoundTyped
<1>6. RoundTyped'
  BY <1>5 DEF RoundInv, RoundTyped
<1>7. SentInv' /\ BarrierSeparates' /\ ObserveFresh'
  BY MoreAnnouncedKeeps, Zenon
<1>8. PayloadInv'
  <2>1. \A x \in entered[n] : x[1] = "READY" => x[3] <= p.seq
    <3> SUFFICES ASSUME NEW x \in entered[n], x[1] = "READY" PROVE x[3] <= p.seq
      BY Zenon
    <3>1. x[3] \in Nat /\ x[3] <= payload[n].seq
      BY DEF RoundInv, RoundTyped, PayloadInv
    <3>2. payload[n].seq \in Nat /\ p.seq \in Nat
      BY <1>3, <1>4 DEF Publications
    <3> QED
      BY <1>4, <3>1, <3>2
  <2> QED
    BY <1>4, <1>5, <2>1 DEF RoundInv, PayloadInv
<1>9. \A m \in Nodes : CallOK(m, st'[m], seen'[m], entered')
  BY <1>1, <1>5 DEF RoundInv
<1> QED
  BY <1>6, <1>7, <1>8, <1>9 DEF RoundInv

LEMMA BeginKeeps ==
    ASSUME RoundInv, NEW n \in Nodes, Begin(n) \/ BeginFails(n)
    PROVE  RoundInv'
<1>1. CASE BeginFails(n)
  <2>1. -1 \in Int
    OBVIOUS
  <2> QED
    BY <1>1, <2>1, PublishedAndOver, Zenon DEF BeginFails
<1>2. CASE Begin(n)
  <2>1. PICK p : p = Publication(n)
    OBVIOUS
  <2>2. /\ pub' = [pub EXCEPT ![n] = p] /\ payload' = [payload EXCEPT ![n] = p]
        /\ UNCHANGED <<queue, stash, passed, seen>> /\ st[n].pc = "idle"
        /\ \/ Finish(n, 0) /\ UNCHANGED <<epoch, entered>>
           \/ Announce(n, "READY", p.seq)
    BY <1>2, <2>1 DEF Begin
  <2>3. CASE Finish(n, 0) /\ UNCHANGED <<epoch, entered>>
    <3>1. /\ p \in {payload[n], Publication(n)} /\ 0 \in Int
          /\ pub' = [pub EXCEPT ![n] = Publication(n)]
      BY <2>1, <2>2, SMTT(30)
    <3> QED
      BY <2>2, <2>3, <3>1, PublishedAndOver, Zenon
  <2>4. CASE Announce(n, "READY", p.seq)
    <3>1. p \in Publications /\ pub[n].seq < p.seq
      BY <2>1, PublicationIsNewer, Zenon
    <3>2. p.seq \in Nat /\ \A m \in Nodes : /\ payload[m].seq \in Nat /\ pub[m].seq \in Nat
                                            /\ payload[m].seq <= pub[m].seq
      BY <3>1 DEF RoundInv, RoundTyped, PayloadInv, Publications
    <3>3. /\ pub' \in [Nodes -> Publications] /\ payload' \in [Nodes -> Publications]
          /\ pub'[n] = p /\ payload'[n] = p
          /\ \A m \in Nodes : m # n => pub'[m] = pub[m] /\ payload'[m] = payload[m]
      BY <2>2, <3>1, Zenon DEF RoundInv, RoundTyped
    <3>4. \A m \in Nodes : /\ payload[m].seq <= payload'[m].seq
                           /\ payload'[m].seq <= pub'[m].seq
      BY <3>1, <3>2, <3>3
    <3>5. p.seq <= payload'[n].seq /\ "READY" \in BarrierTypes
      BY <3>2, <3>3, SMTT(30) DEF BarrierTypes
    <3> QED
      BY <2>2, <2>4, <3>2, <3>3, <3>4, <3>5, AnnounceKeeps, Zenon
  <2> QED
    BY <2>2, <2>3, <2>4
<1> QED
  BY <1>1, <1>2

LEMMA ObservedKeeps ==
    ASSUME RoundInv, NEW n \in Nodes, Observed(n)
    PROVE  RoundInv'
<1>1. /\ Announce(n, "OBSERVED", pub[n].seq) /\ st[n].pc = "read"
      /\ UNCHANGED <<queue, stash, pub, payload, passed, seen>>
  BY Zenon DEF Observed
<1>2. /\ pub[n].seq \in Nat /\ "OBSERVED" \in BarrierTypes
      /\ pub' \in [Nodes -> Publications] /\ payload' \in [Nodes -> Publications]
  BY <1>1, Zenon DEF RoundInv, RoundTyped, Publications, BarrierTypes
<1>3. \A m \in Nodes : payload[m].seq <= payload'[m].seq /\ payload'[m].seq <= pub'[m].seq
  BY <1>1, SMTT(30) DEF RoundInv, RoundTyped, PayloadInv, Publications
<1> QED
  BY <1>1, <1>2, <1>3, AnnounceKeeps

\* The caller of a barrier goes on; when it succeeded, every peer was counted.
LEMMA AfterBarrierKeeps ==
    ASSUME RoundInv, NEW n \in Nodes, NEW c \in Int, AfterBarrier(n, c), InBarrier(st[n]),
           c = 0 => st[n].got = Peers(n),
           UNCHANGED <<queue, stash, pub, payload, epoch, entered>>,
           passed' \in [Nodes -> SUBSET Barriers], BarrierSeparates'
    PROVE  RoundInv'
<1>1. PICK r \in CallStates : r = st[n]
  BY Zenon DEF RoundInv, RoundTyped
<1>2. CallOK(n, r, seen[n], entered) /\ InBarrier(r) /\ r.barrier.type \in BarrierTypes
  BY <1>1, Zenon DEF RoundInv, CallOK
<1>3. ASSUME NEW q \in CallStates, NEW s \in Observations, st' = [st EXCEPT ![n] = q],
             seen' = [seen EXCEPT ![n] = s], CallOK(n, q, s, entered),
             \A m \in Peers(n) : s.obs[m] # 0 => Fresh(entered[m], s.epoch, s.obs[m])
      PROVE  RoundInv'
  <2>1. /\ st' \in [Nodes -> CallStates] /\ st'[n] = q
        /\ seen' \in [Nodes -> Observations] /\ seen'[n] = s
        /\ \A m \in Nodes : m # n => st'[m] = st[m] /\ seen'[m] = seen[m]
    BY <1>3, Zenon DEF RoundInv, RoundTyped
  <2>2. RoundTyped'
    BY <2>1 DEF RoundInv, RoundTyped
  <2>3. SentInv' /\ PayloadInv'
    BY Zenon DEF RoundInv, SentInv, PayloadInv
  <2>4. \A m \in Nodes : CallOK(m, st'[m], seen'[m], entered')
    BY <1>3, <2>1, Zenon DEF RoundInv
  <2>5. ObserveFresh'
    BY <1>3, <2>1 DEF RoundInv, ObserveFresh, Fresh
  <2> QED
    BY <2>2, <2>3, <2>4, <2>5, Zenon DEF RoundInv
<1>4. PICK s \in Observations : s = seen[n]
  BY DEF RoundInv, RoundTyped
<1>5. /\ \A m \in Peers(n) : s.obs[m] # 0 => Fresh(entered[m], s.epoch, s.obs[m])
      /\ seen = [seen EXCEPT ![n] = s]
  BY <1>4, Zenon DEF RoundInv, RoundTyped, ObserveFresh, Fresh
<1>6. CASE Flow(n) = "object"
  <2>1. PICK q : q = [r EXCEPT !.pc = "put", !.todo = Peers(n), !.kind = 1]
    OBVIOUS
  <2>2. q \in CallStates /\ q.pc = "put"
    <3>1. Peers(n) \in SUBSET Nodes
      BY RoundFacts
    <3> QED
      BY <2>1, <3>1, Zenon DEF CallStates, Steps
  <2>3. CallOK(n, q, s, entered)
    BY <2>2, NothingOwed, Zenon
  <2>4. st' = [st EXCEPT ![n] = q] /\ UNCHANGED seen
    BY <1>1, <1>6, <2>1, Zenon DEF AfterBarrier
  <2>5. seen' = [seen EXCEPT ![n] = s]
    BY <1>5, <2>4, Zenon
  <2> QED
    BY <1>3, <1>5, <2>2, <2>3, <2>4, <2>5, Zenon
<1>7. CASE Flow(n) # "object" /\ r.barrier.type = "OBSERVED"
  <2>1. Finish(n, 0) /\ seen' = [seen EXCEPT ![n].obs = r.obs]
    BY <1>1, <1>7 DEF AfterBarrier
  <2>2. PICK q \in CallStates : st' = [st EXCEPT ![n] = q] /\ \A t, E : CallOK(n, q, t, E)
    BY <2>1, FinishOwesNothing
  <2>3. PICK t : t = [s EXCEPT !.obs = r.obs]
    BY Zenon
  <2>4. t \in Observations /\ t.obs = r.obs /\ t.epoch = s.epoch
    BY <2>3, Zenon DEF Observations, CallStates
  <2>5. seen' = [seen EXCEPT ![n] = t]
    BY <1>4, <2>1, <2>3, SMTT(30)
  <2>6. \A m \in Peers(n) : r.obs[m] # 0 => Fresh(entered[m], s.epoch, r.obs[m])
    BY <1>2, <1>4, <1>7 DEF CallOK, Reading
  <2> QED
    BY <1>3, <2>2, <2>4, <2>5, <2>6, Zenon
<1>8. CASE Flow(n) # "object" /\ r.barrier.type = "READY" /\ c = 0
  <2>1. PICK q : q = [r EXCEPT !.pc = "read", !.todo = Peers(n)]
    OBVIOUS
  <2>2. q \in CallStates /\ q.pc = "read" /\ q.obs = r.obs
    <3>1. Peers(n) \in SUBSET Nodes
      BY RoundFacts
    <3> QED
      BY <2>1, <3>1, Zenon DEF CallStates, Steps
  <2>3. PICK e \in Nat : e = r.barrier.epoch
    BY DEF CallStates, Barriers
  <2>4. PICK t : t = [NothingSeen EXCEPT !.epoch = e]
    BY Zenon
  <2>5. t \in Observations /\ t.epoch = e /\ \A m \in Nodes : t.obs[m] = 0
    BY <2>4 DEF NothingSeen, Observations
  <2>6. st' = [st EXCEPT ![n] = q] /\ seen' = [seen EXCEPT ![n] = t]
    BY <1>1, <1>8, <2>1, <2>3, <2>4, Zenon DEF AfterBarrier
  <2>7. /\ \A m \in Nodes : r.obs[m] = 0
        /\ \A m \in Peers(n) : Met(entered[m], "READY", e)
    BY <1>1, <1>2, <1>8, <2>3, ZenonT(30) DEF CallOK, YetToRead
  <2>8. CallOK(n, q, t, entered)
    BY <2>2, <2>5, <2>7, RoundFacts DEF CallOK, InBarrier, YetToRead
  <2> QED
    BY <1>3, <2>2, <2>5, <2>6, <2>8, RoundFacts, Zenon
<1>9. CASE Flow(n) # "object" /\ r.barrier.type = "READY" /\ c # 0
  <2>1. Finish(n, c) /\ UNCHANGED seen
    BY <1>1, <1>9 DEF AfterBarrier
  <2>2. PICK q \in CallStates : st' = [st EXCEPT ![n] = q] /\ \A t, E : CallOK(n, q, t, E)
    BY <2>1, FinishOwesNothing
  <2>3. seen' = [seen EXCEPT ![n] = s]
    BY <1>5, <2>1, SMTT(30)
  <2> QED
    BY <1>3, <1>5, <2>2, <2>3, Zenon
<1> QED
  BY <1>2, <1>6, <1>7, <1>8, <1>9 DEF BarrierTypes

LEMMA BarrierReturnKeeps ==
    ASSUME RoundInv, NEW n \in Nodes, BarrierReturn(n)
    PROVE  RoundInv'
<1>1. PICK r \in CallStates : r = st[n]
  BY DEF RoundInv, RoundTyped
<1>2. PICK b \in Barriers : b = r.barrier
  BY Zenon DEF CallStates
<1>3. /\ r.pc = "wait" /\ r.got = Peers(n) /\ AfterBarrier(n, 0)
      /\ passed' = [passed EXCEPT ![n] = passed[n] \cup {b}]
      /\ UNCHANGED <<queue, stash, pub, payload, epoch, entered>>
  BY <1>1, <1>2, Zenon DEF BarrierReturn
<1>4. \A m \in Peers(n) : Met(entered[m], b.type, b.epoch)
  BY <1>1, <1>2, <1>3, Zenon DEF RoundInv, CallOK, InBarrier
<1>5. /\ passed' \in [Nodes -> SUBSET Barriers] /\ passed'[n] = passed[n] \cup {b}
      /\ \A m \in Nodes : m # n => passed'[m] = passed[m]
  BY <1>3, SMTT(30) DEF RoundInv, RoundTyped
<1>6. BarrierSeparates'
  BY <1>3, <1>4, <1>5 DEF RoundInv, BarrierSeparates, Met
<1>7. InBarrier(st[n]) /\ st[n].got = Peers(n) /\ 0 \in Int
  BY <1>1, <1>3 DEF InBarrier
<1> QED
  BY <1>3, <1>5, <1>6, <1>7, AfterBarrierKeeps

LEMMA TimeoutKeeps ==
    ASSUME RoundInv, NEW n \in Nodes, Timeout(n)
    PROVE  RoundInv'
<1>1. UNCHANGED <<queue, stash, pub, payload, epoch, entered, passed>> /\ -1 \in Int
  BY DEF Timeout
<1>2. CASE st[n].pc \in {"push", "wait"}
  <2>1. AfterBarrier(n, -1) /\ InBarrier(st[n]) /\ -1 # 0
    BY <1>2 DEF Timeout, InBarrier
  <2>2. passed' \in [Nodes -> SUBSET Barriers] /\ BarrierSeparates'
    BY <1>1, ZenonT(30) DEF RoundInv, RoundTyped, BarrierSeparates
  <2> QED
    BY <1>1, <2>1, <2>2, AfterBarrierKeeps
<1>3. CASE st[n].pc \notin {"push", "wait"}
  <2>1. Finish(n, -1) /\ UNCHANGED seen
    BY <1>3 DEF Timeout
  <2>2. PICK q \in CallStates : st' = [st EXCEPT ![n] = q] /\ \A s, E : CallOK(n, q, s, E)
    BY <1>1, <2>1, FinishOwesNothing
  <2> QED
    BY <1>1, <2>1, <2>2, SameStaysSent, QuietStep, Zenon
<1> QED
  BY <1>2, <1>3

LEMMA RoundStepKeeps == RoundInv /\ [RoundNext]_roundVars => RoundInv'
<1> SUFFICES ASSUME RoundInv, [RoundNext]_roundVars PROVE RoundInv'
  OBVIOUS
<1>1. CASE UNCHANGED roundVars
  <2>1. UNCHANGED <<queue, stash, pub, payload, epoch, st, entered, passed, seen>>
    BY <1>1, Zenon DEF roundVars
  <2>2. RoundTyped' /\ SentInv' /\ PayloadInv'
    BY <2>1, Zenon DEF RoundInv, RoundTyped, SentInv, PayloadInv
  <2>3. BarrierSeparates' /\ ObserveFresh'
    BY <2>1, Zenon DEF RoundInv, BarrierSeparates, ObserveFresh
  <2>4. \A n \in Nodes : CallOK(n, st'[n], seen'[n], entered')
    BY <2>1, Zenon DEF RoundInv
  <2> QED
    BY <2>2, <2>3, <2>4 DEF RoundInv
<1>2. CASE RoundNext
  <2>1. PICK n \in Nodes :
           \/ RoundStep(n) \/ BeginFails(n) \/ Timeout(n) \/ ObjectPopFails(n)
           \/ \E p \in Nodes : BarrierPopFails(n, p)
    BY <1>2 DEF RoundNext
  <2>2. CASE RoundStep(n)
    BY <2>2, BeginKeeps, BarrierPushKeeps, BarrierReturnKeeps, ReadPeerKeeps, ObservedKeeps,
       ObjectPutKeeps, ObjectResolveKeeps, ObjectPopKeeps, ObjectDrainedKeeps, DrainEndKeeps,
       BarrierTakeKeeps, BarrierPopKeeps, ObjectTakeKeeps DEF RoundStep
  <2> QED
    BY <2>1, <2>2, BeginKeeps, TimeoutKeeps, DrainEndKeeps, ObjectDrainedKeeps
<1> QED
  BY <1>1, <1>2

\* A barrier that returns 0 has met every peer in the same barrier of the same
\* epoch, for any number of nodes, any depth of the rings and of the stash and any
\* sequence of calls, whatever is dropped, fails or times out
\* (mem_service_queue_barrier).
THEOREM RoundBarrierSeparates == RoundSpec => []BarrierSeparates
<1>1. RoundInit => RoundInv
  BY RoundInitInv
<1>2. RoundInv /\ [RoundNext]_roundVars => RoundInv'
  BY RoundStepKeeps
<1>3. RoundInv => BarrierSeparates
  BY DEF RoundInv
<1> QED
  BY <1>1, <1>2, <1>3, PTL DEF RoundSpec

\* An observe that returns 0 has, of every peer, a payload at least as new as
\* the one published before the peer's READY of this round, under the same
\* faults (mem_service_publish_observe_cluster).
THEOREM ObserveIsFresh == RoundSpec => []ObserveFresh
<1>1. RoundInit => RoundInv
  BY RoundInitInv
<1>2. RoundInv /\ [RoundNext]_roundVars => RoundInv'
  BY RoundStepKeeps
<1>3. RoundInv => ObserveFresh
  BY DEF RoundInv
<1> QED
  BY <1>1, <1>2, <1>3, PTL DEF RoundSpec

-----------------------------------------------------------------------------
(* The decode rounds.  A marker means that its node has computed the round *)
(* it names, wherever the slot wraps (MarkerMeans); what a waiter has      *)
(* counted stays true while it waits, because nodes only move on           *)
(* (ReadyMeans).                                                           *)

RoundNo == 1 .. Len(Rounds)
SlotNo == 0 .. Slots - 1

\* A marker in a pool is of a round its owner has computed.
MarkerMeans ==
    \A m \in DecodeNodes : \A s \in SlotNo : \A r \in RoundNo :
        marker[m][s] = Rounds[r] => Computed(m, r)

\* A node counted by a waiter has computed the waiter's round.
ReadyMeans == \A n \in DecodeNodes : \A m \in ready[n] : Computed(m, at[n])

\* The inductive invariant.
IInv == TypeOK /\ MarkerMeans /\ ReadyMeans /\ NobodyBehind

-----------------------------------------------------------------------------

\* The slot of a round lies in the pool.
LEMMA SlotInPool == \A r \in RoundNo : SlotOf(Rounds[r]) \in SlotNo
  BY DecodeAssumption, SMTT(30) DEF SlotOf, SlotNo, RoundNo

\* A marker names one round, whose words are in no other.
LEMMA RoundIsPair == \A r \in RoundNo : Rounds[r] \in Nat \X Nat /\ Rounds[r] /= NoMarker
  BY DecodeAssumption, SMTT(30) DEF RoundNo, NoMarker

LEMMA InitInv == Init => IInv
  <1> SUFFICES ASSUME Init PROVE IInv
    OBVIOUS
  <1>1. Len(Rounds) \in Nat \ {0}
    BY DecodeAssumption
  <1>2. TypeOK
    BY <1>1 DEF Init, TypeOK, NoMarker
  <1>3. MarkerMeans
    BY RoundIsPair DEF Init, MarkerMeans, SlotNo
  <1>4. ReadyMeans /\ NobodyBehind
    BY <1>1 DEF Init, ReadyMeans, NobodyBehind
  <1> QED
    BY <1>2, <1>3, <1>4 DEF IInv

\* A node never takes back what it has computed, so what others have counted
\* stays true.
LEMMA ComputedStays ==
    ASSUME TypeOK, [Next]_vars, NEW m \in DecodeNodes, NEW r \in RoundNo, Computed(m, r)
    PROVE  Computed(m, r)'
  <1>1. ASSUME NEW n \in DecodeNodes, NodeStep(n) \/ PublishFails(n) \/ WaitEnds(n)
        PROVE  Computed(m, r)'
    <2>1. CASE \E k \in DecodeNodes : See(n, k)
      BY <2>1 DEF See, Computed
    <2>2. CASE Publish(n) \/ PublishFails(n) \/ WaitEnds(n)
      BY <2>2 DEF Publish, PublishFails, WaitEnds, Computed, TypeOK
    <2>3. CASE Pass(n)
      BY <2>3 DEF Pass, Computed, TypeOK, RoundNo
    <2> QED
      BY <1>1, <2>1, <2>2, <2>3 DEF NodeStep
  <1>2. CASE UNCHANGED vars
    BY <1>2 DEF vars, Computed
  <1> QED
    BY <1>1, <1>2 DEF Next, Finished

\* Storing its marker of the round it is in makes no marker untrue.
LEMMA StoreKeepsMeaning ==
    ASSUME IInv, [Next]_vars, NEW n \in DecodeNodes, pc[n] = "compute", pc'[n] /= "compute",
           marker' = [marker EXCEPT ![n][SlotOf(Round(n))] = Round(n)], at' = at
    PROVE  MarkerMeans'
  <1> SUFFICES ASSUME NEW m \in DecodeNodes, NEW s \in SlotNo, NEW r \in RoundNo,
                      marker'[m][s] = Rounds[r]
               PROVE  Computed(m, r)'
    BY DEF MarkerMeans
  <1>1. at[n] \in RoundNo /\ TypeOK
    BY DEF IInv, TypeOK, RoundNo
  <1>2. CASE marker'[m][s] = marker[m][s]
    BY <1>1, <1>2, ComputedStays, Zenon DEF IInv, MarkerMeans
  <1>3. CASE marker'[m][s] /= marker[m][s]
    <2>1. m = n /\ marker'[m][s] = Round(n)
      BY <1>1, <1>3 DEF TypeOK, SlotNo
    <2>2. r = at[n]
      BY <1>1, <2>1, DecodeAssumption DEF Round, RoundNo
    <2> QED
      BY <2>1, <2>2 DEF Computed
  <1> QED
    BY <1>2, <1>3

LEMMA NextInv == IInv /\ [Next]_vars => IInv'
  <1> SUFFICES ASSUME IInv, [Next]_vars PROVE IInv'
    OBVIOUS
  <1>t. TypeOK
    BY DEF IInv
  <1>r. \A n \in DecodeNodes :
           at[n] \in RoundNo /\ Round(n) \in Nat \X Nat /\ SlotOf(Round(n)) \in SlotNo
    BY <1>t, SlotInPool, RoundIsPair DEF TypeOK, RoundNo, Round
  <1>1. TypeOK'
    <2>1. ASSUME NEW n \in DecodeNodes, Publish(n) \/ PublishFails(n) \/ WaitEnds(n)
          PROVE  TypeOK'
      <3>1. at' = at /\ ready' = ready
        BY <2>1 DEF Publish, PublishFails, WaitEnds
      <3>2. /\ pc' \in [DecodeNodes -> {"compute", "wait", "done", "failed"}]
            /\ \A k \in DecodeNodes : pc'[k] = "done" => pc[k] = "done"
        BY <1>t, <2>1, Zenon DEF Publish, PublishFails, WaitEnds, TypeOK
      <3>3. \/ marker' = [marker EXCEPT ![n][SlotOf(Round(n))] = Round(n)]
            \/ marker' = marker
        BY <2>1 DEF Publish, PublishFails, WaitEnds
      <3>4. marker' \in [DecodeNodes -> [SlotNo -> (Nat \X Nat) \cup {NoMarker}]]
        <4>1. marker \in [DecodeNodes -> [SlotNo -> (Nat \X Nat) \cup {NoMarker}]]
          BY <1>t DEF TypeOK, SlotNo
        <4>2. Round(n) \in (Nat \X Nat) \cup {NoMarker} /\ SlotOf(Round(n)) \in SlotNo
          BY <1>r
        <4>3. [marker[n] EXCEPT ![SlotOf(Round(n))] = Round(n)]
                 \in [SlotNo -> (Nat \X Nat) \cup {NoMarker}]
          BY <4>1, <4>2
        <4>4. CASE marker' = [marker EXCEPT ![n][SlotOf(Round(n))] = Round(n)]
          BY <4>1, <4>3, <4>4
        <4> QED
          BY <3>3, <4>1, <4>4
      <3> QED
        BY <1>t, <3>1, <3>2, <3>4 DEF TypeOK, SlotNo
    <2>2. ASSUME NEW n \in DecodeNodes, NEW m \in DecodeNodes, See(n, m)
          PROVE  TypeOK'
      BY <1>t, <2>2 DEF See, TypeOK
    <2>3. ASSUME NEW n \in DecodeNodes, Pass(n)
          PROVE  TypeOK'
      <3>1. Len(Rounds) \in Nat
        BY DecodeAssumption
      <3>2. ready' \in [DecodeNodes -> SUBSET DecodeNodes] /\ marker' = marker
        BY <1>t, <2>3 DEF Pass, TypeOK
      <3>3. CASE at[n] = Len(Rounds)
        BY <1>t, <2>3, <3>2, <3>3 DEF Pass, TypeOK
      <3>4. CASE at[n] /= Len(Rounds)
        <4>1. at[n] + 1 \in 1 .. Len(Rounds)
          BY <1>t, <3>1, <3>4 DEF TypeOK
        <4>a. at' = [at EXCEPT ![n] = @ + 1] /\ at \in [DecodeNodes -> 1 .. Len(Rounds)]
          BY <1>t, <2>3, <3>4 DEF Pass, TypeOK
        <4>2. /\ at' \in [DecodeNodes -> 1 .. Len(Rounds)]
               /\ \A k \in DecodeNodes \ {n} : at'[k] = at[k]
          BY <4>1, <4>a
        <4>3. /\ pc' \in [DecodeNodes -> {"compute", "wait", "done", "failed"}]
              /\ \A k \in DecodeNodes : pc'[k] = "done" => k /= n /\ pc[k] = "done"
          BY <1>t, <2>3, <3>4, Zenon DEF Pass, TypeOK
        <4> QED
          BY <1>t, <3>2, <4>2, <4>3 DEF TypeOK
      <3> QED
        BY <3>3, <3>4
    <2>4. CASE UNCHANGED vars
      BY <1>t, <2>4 DEF vars, TypeOK
    <2> QED
      BY <2>1, <2>2, <2>3, <2>4 DEF Next, NodeStep, Finished
  <1>2. MarkerMeans'
    <2>1. CASE UNCHANGED marker
      BY <1>t, <2>1, ComputedStays DEF IInv, MarkerMeans
    <2>2. ASSUME NEW n \in DecodeNodes, Publish(n) \/ PublishFails(n), marker' /= marker
          PROVE  MarkerMeans'
      <3>1. /\ pc[n] = "compute" /\ pc'[n] /= "compute" /\ at' = at
            /\ marker' = [marker EXCEPT ![n][SlotOf(Round(n))] = Round(n)]
        BY <1>t, <2>2 DEF Publish, PublishFails, TypeOK
      <3> QED
        BY <3>1, StoreKeepsMeaning, Zenon
    <2> QED
      BY <2>1, <2>2 DEF Next, NodeStep, See, Pass, WaitEnds, Finished, vars
  <1>3. ReadyMeans'
    <2> SUFFICES ASSUME NEW n \in DecodeNodes, NEW m \in ready'[n] PROVE Computed(m, at[n])'
      BY DEF ReadyMeans
    <2>1. m \in DecodeNodes
      BY <1>1 DEF TypeOK
    <2>2. CASE m \in ready[n] /\ at'[n] = at[n]
      BY <1>t, <1>r, <2>1, <2>2, ComputedStays DEF IInv, ReadyMeans, Computed
    <2>3. CASE See(n, m)
      <3>1. marker[m][SlotOf(Round(n))] = Rounds[at[n]] /\ at' = at /\ pc' = pc
        BY <2>3 DEF See, Matches, Round
      <3>2. Computed(m, at[n])
        BY <1>r, <2>1, <3>1 DEF IInv, MarkerMeans
      <3> QED
        BY <3>1, <3>2 DEF Computed
    <2>4. (m \in ready[n] /\ at'[n] = at[n]) \/ See(n, m)
      <3>1. ASSUME NEW k \in DecodeNodes, Pass(k) PROVE m \in ready[n] /\ at'[n] = at[n]
        BY <1>t, <3>1 DEF Pass, TypeOK
      <3>2. ASSUME NEW k \in DecodeNodes, NEW j \in DecodeNodes, See(k, j)
            PROVE  (m \in ready[n] /\ at'[n] = at[n]) \/ See(n, m)
        BY <1>t, <3>2, ZenonT(30) DEF See, TypeOK
      <3> QED
        BY <3>1, <3>2 DEF Next, NodeStep, Publish, PublishFails, WaitEnds, Finished, vars
    <2> QED
      BY <2>2, <2>3, <2>4
  <1>4. NobodyBehind'
    <2> SUFFICES ASSUME NEW n \in DecodeNodes, NEW m \in DecodeNodes, NEW r \in RoundNo,
                        (r < at[n] \/ (pc[n] = "done" /\ r = at[n]))'
                 PROVE  Computed(m, r)'
      BY DEF NobodyBehind, RoundNo
    <2>1. CASE r < at[n] \/ (pc[n] = "done" /\ r = at[n])
      BY <1>t, <2>1, ComputedStays DEF IInv, NobodyBehind, RoundNo
    <2>2. CASE Pass(n) /\ r = at[n]
      <3>1. Computed(m, r)
        BY <2>2 DEF Pass, IInv, ReadyMeans
      <3> QED
        BY <1>t, <3>1, ComputedStays
    <2>3. (r < at[n] \/ (pc[n] = "done" /\ r = at[n])) \/ (Pass(n) /\ r = at[n])
      <3>1. ASSUME NEW k \in DecodeNodes, Pass(k)
            PROVE  (r < at[n] \/ (pc[n] = "done" /\ r = at[n])) \/ (Pass(n) /\ r = at[n])
        <4>1. CASE k = n
          BY <1>t, <3>1, <4>1, SMTT(30) DEF Pass, TypeOK, RoundNo
        <4>2. CASE k /= n
          BY <1>t, <3>1, <4>2 DEF Pass, TypeOK
        <4> QED
          BY <4>1, <4>2
      <3>2. ASSUME at' = at, \A k \in DecodeNodes : pc'[k] = "done" => pc[k] = "done"
            PROVE  r < at[n] \/ (pc[n] = "done" /\ r = at[n])
        BY <3>2
      <3>3. ASSUME NEW k \in DecodeNodes, Publish(k) \/ PublishFails(k) \/ WaitEnds(k)
            PROVE  at' = at /\ \A j \in DecodeNodes : pc'[j] = "done" => pc[j] = "done"
        BY <1>t, <3>3 DEF Publish, PublishFails, WaitEnds, TypeOK
      <3>4. ASSUME NEW k \in DecodeNodes, NEW j \in DecodeNodes, See(k, j)
             PROVE  at' = at /\ pc' = pc
        BY <3>4 DEF See
      <3>5. UNCHANGED vars => at' = at /\ pc' = pc
        BY DEF vars
      <3> QED
        BY <3>1, <3>2, <3>3, <3>4, <3>5 DEF Next, NodeStep, Finished
    <2> QED
      BY <2>1, <2>2, <2>3
  <1> QED
    BY <1>1, <1>2, <1>3, <1>4 DEF IInv

\* For every number of nodes, slots and rounds: nobody is past a decode round
\* that another node has not computed, whatever fails
\* (mem_service_model_decode_barrier.c).
THEOREM BarrierSeparatesRounds == Spec => []NobodyBehind
  <1>1. IInv => NobodyBehind
    BY DEF IInv
  <1> QED
    BY InitInv, NextInv, <1>1, PTL DEF Spec
=============================================================================
