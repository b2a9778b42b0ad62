--------------------------- MODULE RetxQueueSpec ---------------------------
(***************************************************************************)
(* What list_manager.h and the user manual promise of the retransmission   *)
(* store: a queue of events that are handed out in the order they came,    *)
(* each until it is acknowledged; only a whole day, the oldest, is ever    *)
(* given up.                                                               *)
(***************************************************************************)
EXTENDS Sequences, Integers

CONSTANT Events

VARIABLE queue

Init == queue = << >>

Add == \E e \in Events : queue' = Append(queue, e)

Acknowledge == queue # << >> /\ queue' = Tail(queue)

\* The lines of the oldest day, at the front, are dropped together.
Expire == \E n \in 1 .. Len(queue) : queue' = SubSeq(queue, n + 1, Len(queue))

Next == Add \/ Acknowledge \/ Expire

Spec == Init /\ [][Next]_queue
=============================================================================
