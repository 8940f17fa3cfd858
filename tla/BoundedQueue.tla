---------------------------- MODULE BoundedQueue ----------------------------
(***************************************************************************)
(* What an SMC event ring promises: a first-in first-out queue of at most  *)
(* Capacity events.  Whatever enters is the event on offer at that moment, *)
(* nothing in the queue is overwritten, and the queue is only emptied by   *)
(* handing over everything in it, in order.  The abstract counterpart of   *)
(* EventRing.                                                              *)
(***************************************************************************)
EXTENDS Naturals, Sequences

CONSTANT Capacity

VARIABLES queue,
          offered,   \* the event of the signal being handled
          taken      \* what the last drain handed over

Init == queue = <<>>

Enqueue == /\ Len(queue) < Capacity
           /\ queue' = Append(queue, offered')

HandOver == /\ taken' = queue
            /\ queue' = <<>>

Spec == Init /\ [][Enqueue \/ HandOver]_queue
=============================================================================
