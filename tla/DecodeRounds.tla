---------------------------- MODULE DecodeRounds ----------------------------
(***************************************************************************)
(* The barrier that ends a decode step                                     *)
(* (mem_service_model_decode_barrier.c).  Every node writes a 64-byte      *)
(* marker of the step into its own pool and polls the pools of all nodes   *)
(* until it has seen everybody's.  A pool has room for Slots markers; the  *)
(* slot of a step depends on the step and on the hash of the scope (the    *)
(* request) it belongs to, and a marker is overwritten when its slot comes *)
(* round again.  The driver that calls the two functions in turn is not    *)
(* part of the repository: all nodes run the same rounds, pairs of the     *)
(* scope's hash and a step.                                                *)
(***************************************************************************)
EXTENDS Integers, Sequences

CONSTANTS
    DecodeNodeCount,   \* cluster_node_count
    Slots,             \* MEM_SERVICE_OBMM_ROUND_DONE_SLOTS, a power of 2
    Rounds,            \* the rounds the driver runs, in order
    MayGiveUp          \* whether a flush may fail or a deadline may pass

\* x ^ y of a pair of words, bit by bit.
Xor[w \in Nat \X Nat] ==
    IF w[1] = 0 /\ w[2] = 0 THEN 0
    ELSE ((w[1] + w[2]) % 2) + 2 * Xor[<<w[1] \div 2, w[2] \div 2>>]

\* What the constants must satisfy.  A scope's hash names one request, so no
\* round comes twice; and the exclusive or of two words is a word.
ASSUME DecodeAssumption ==
    /\ DecodeNodeCount \in 1 .. 31 /\ Slots \in Nat \ {0} /\ MayGiveUp \in BOOLEAN
    /\ Rounds \in Seq(Nat \X Nat) /\ Rounds /= <<>>
    /\ \A i, j \in 1 .. Len(Rounds) : Rounds[i] = Rounds[j] => i = j
    /\ \A i \in 1 .. Len(Rounds) : Xor[Rounds[i]] \in Nat

DecodeNodes == 0 .. DecodeNodeCount - 1
NoMarker == <<>>

VARIABLES
    at,      \* node -> the round it is in
    pc,      \* node -> what the driver does
    marker,  \* node -> slot -> the marker in its pool, <<hash, step>>
    ready    \* node -> ready_mask

vars == <<at, pc, marker, ready>>

Init ==
    /\ at = [n \in DecodeNodes |-> 1]
    /\ pc = [n \in DecodeNodes |-> "compute"]
    /\ marker = [n \in DecodeNodes |-> [s \in 0 .. Slots - 1 |-> NoMarker]]
    /\ ready = [n \in DecodeNodes |-> {}]

SlotOf(r) == Xor[r] % Slots

Round(n) == Rounds[at[n]]

\* publish_decode_round_done: the marker is written and flushed.
Publish(n) ==
    /\ pc[n] = "compute"
    /\ marker' = [marker EXCEPT ![n][SlotOf(Round(n))] = Round(n)]
    /\ pc' = [pc EXCEPT ![n] = "wait"]
    /\ UNCHANGED <<at, ready>>

\* The flush fails; the others may see the marker all the same.
PublishFails(n) ==
    /\ MayGiveUp /\ pc[n] = "compute"
    /\ \/ marker' = [marker EXCEPT ![n][SlotOf(Round(n))] = Round(n)]
       \/ UNCHANGED marker
    /\ pc' = [pc EXCEPT ![n] = "failed"]
    /\ UNCHANGED <<at, ready>>

\* Mutant: any marker of the scope will do.
MatchesScope(n, m) ==
    LET x == marker[m][SlotOf(Round(n))] IN x /= NoMarker /\ x[1] = Round(n)[1]

\* Magic, step, node, count, scope and checksum of a marker are as expected.
Matches(n, m) == marker[m][SlotOf(Round(n))] = Round(n)

\* One look at the marker of a node not seen yet.
See(n, m) ==
    /\ pc[n] = "wait" /\ m \notin ready[n]
    /\ Matches(n, m)
    /\ ready' = [ready EXCEPT ![n] = @ \cup {m}]
    /\ UNCHANGED <<at, pc, marker>>

\* All have been seen: wait_all_decode_round_done returns and the driver goes on.
Pass(n) ==
    /\ pc[n] = "wait" /\ ready[n] = DecodeNodes
    /\ ready' = [ready EXCEPT ![n] = {}]
    /\ IF at[n] = Len(Rounds) THEN pc' = [pc EXCEPT ![n] = "done"] /\ UNCHANGED at
       ELSE pc' = [pc EXCEPT ![n] = "compute"] /\ at' = [at EXCEPT ![n] = @ + 1]
    /\ UNCHANGED marker

WaitEnds(n) ==
    /\ MayGiveUp /\ pc[n] = "wait"
    /\ pc' = [pc EXCEPT ![n] = "failed"]
    /\ UNCHANGED <<at, marker, ready>>

Finished == (\A n \in DecodeNodes : pc[n] \in {"done", "failed"}) /\ UNCHANGED vars

NodeStep(n) == Publish(n) \/ Pass(n) \/ \E m \in DecodeNodes : See(n, m)

Next ==
    \/ \E n \in DecodeNodes : NodeStep(n) \/ PublishFails(n) \/ WaitEnds(n)
    \/ Finished

Spec == Init /\ [][Next]_vars

-----------------------------------------------------------------------------

\* Every variable has its type, and a node is done only in the last round.
TypeOK ==
    /\ at \in [DecodeNodes -> 1 .. Len(Rounds)]
    /\ pc \in [DecodeNodes -> {"compute", "wait", "done", "failed"}]
    /\ ready \in [DecodeNodes -> SUBSET DecodeNodes]
    /\ marker \in [DecodeNodes -> [0 .. Slots - 1 -> (Nat \X Nat) \cup {NoMarker}]]
    /\ \A n \in DecodeNodes : pc[n] = "done" => at[n] = Len(Rounds)

\* Node m has done the work of round r.
Computed(m, r) == at[m] > r \/ (at[m] = r /\ pc[m] /= "compute")

\* A node is past a round only when every node has computed it: nobody is
\* still in an earlier round, or in this one and without its marker
\* (wait_all_decode_round_done returns only when it has seen every marker,
\* though a marker may be of another round, or overwritten meanwhile).
NobodyBehind ==
    \A n, m \in DecodeNodes : \A r \in 1 .. Len(Rounds) :
        (r < at[n] \/ (pc[n] = "done" /\ r = at[n])) => Computed(m, r)

\* All rounds are complete on all nodes; when nothing fails it comes to this.
AllDone == \A n \in DecodeNodes : pc[n] = "done"

=============================================================================
