---------------------------- MODULE BoundedFifo ----------------------------
(***************************************************************************)
(* What a byte queue between one producer and one consumer promises: the   *)
(* bytes that were accepted come out once each and in order, and never     *)
(* more than Capacity of them are on their way.  A byte is the number of   *)
(* its place among the accepted ones.                                      *)
(***************************************************************************)
EXTENDS Integers, Sequences

CONSTANT Capacity

VARIABLES
    sent,     \* how many bytes have been accepted
    queue,    \* those that are on their way
    got       \* what the last call that returned any has returned

vars == <<sent, queue, got>>

Init == sent = 0 /\ queue = << >> /\ got = << >>

\* Some bytes are accepted, as far as there is room
Enqueue ==
    \E n \in 1 .. Capacity - Len(queue) :
        /\ queue' = queue \o [k \in 1 .. n |-> sent + k]
        /\ sent' = sent + n
        /\ UNCHANGED got

\* Some bytes are returned, from the front
Dequeue ==
    \E n \in 1 .. Len(queue) :
        /\ got' = SubSeq(queue, 1, n)
        /\ queue' = SubSeq(queue, n + 1, Len(queue))
        /\ UNCHANGED sent

Next == Enqueue \/ Dequeue

Spec == Init /\ [][Next]_vars
=============================================================================
