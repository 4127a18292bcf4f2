---------------------------- MODULE BoundedFifo ----------------------------
(***************************************************************************)
(* What a single-producer single-consumer ring of libs/obmm_queue promises *)
(* its callers: a bounded queue of descriptors in which a push and a pop   *)
(* are each one atomic step, that loses, repeats and reorders nothing, and *)
(* that refuses a push only when it is full and a pop only when it is      *)
(* empty.                                                                  *)
(***************************************************************************)
EXTENDS Integers, Sequences

CONSTANTS Values, Capacity

VARIABLES
    queue,   \* the descriptors pushed and not yet popped, oldest first
    prc,     \* what the last push returned
    crc,     \* what the last pop returned
    out      \* the descriptor the last successful pop delivered

vars == <<queue, prc, crc, out>>

Init == queue = <<>> /\ prc = "none" /\ crc = "none" /\ out = "none"

PushOk(v) ==
    /\ Len(queue) < Capacity
    /\ queue' = Append(queue, v)
    /\ prc' = "ok"
    /\ UNCHANGED <<crc, out>>

PushAgain ==
    /\ Len(queue) = Capacity
    /\ prc' = "again"
    /\ UNCHANGED <<queue, crc, out>>

PopOk ==
    /\ queue # <<>>
    /\ out' = Head(queue)
    /\ queue' = Tail(queue)
    /\ crc' = "ok"
    /\ UNCHANGED prc

PopAgain ==
    /\ queue = <<>>
    /\ crc' = "again"
    /\ UNCHANGED <<queue, prc, out>>

Next == (\E v \in Values : PushOk(v)) \/ PushAgain \/ PopOk \/ PopAgain

Spec == Init /\ [][Next]_vars
=============================================================================
