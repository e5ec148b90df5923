------------------------------ MODULE BoundedFifo -------------------------------
(***************************************************************************)
(* What a queue between threads and interrupt handlers promises: bytes     *)
(* leave it in the order in which they came, none twice, none lost, and at *)
(* most Capacity of them are in it.                                        *)
(***************************************************************************)
EXTENDS Naturals, Sequences

CONSTANTS Byte, Capacity

VARIABLE queue

Init == queue = << >>

\* The oldest bytes leave, and new ones may come behind the others.
Step(leaving, new) ==
  /\ leaving \in 0 .. Len(queue)
  /\ queue' = SubSeq(queue, leaving + 1, Len(queue)) \o new
  /\ Len(queue') <= Capacity

Next == \E leaving \in 0 .. Capacity, new \in {<< >>} \union { <<b>> : b \in Byte } :
          Step(leaving, new)

Spec == Init /\ [][Next]_queue

=================================================================================
