---------------------------- MODULE BoundedQueue ----------------------------
(***************************************************************************)
(* What a FIFO promises to its two sides: the words come out in the order  *)
(* in which they went in, none is lost or made up, and there are never     *)
(* more than Capacity of them inside.  One step may push, pop or do both.  *)
(***************************************************************************)
EXTENDS Integers, Sequences

CONSTANTS Data, Capacity

VARIABLES queue, out  (* The words inside and the last one that came out.  *)

Init == queue = <<>> /\ out \in Data

Push(d) == /\ Len(queue) < Capacity
           /\ queue' = Append(queue, d)
           /\ out' = out

Pop == /\ queue # <<>>
       /\ queue' = Tail(queue)
       /\ out' = Head(queue)

PushPop(d) == /\ queue # <<>> /\ Len(queue) < Capacity
              /\ queue' = Append(Tail(queue), d)
              /\ out' = Head(queue)

Next == Pop \/ \E d \in Data : Push(d) \/ PushPop(d)

Spec == Init /\ [][Next]_<<queue, out>>

=============================================================================
