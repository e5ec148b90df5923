---------------------------------- MODULE IntQ ----------------------------------
(***************************************************************************)
(* The circular buffer of an interrupt queue (devices/intq.c): new bytes   *)
(* go to `head', old ones come from `tail', and one of the INTQ_BUFSIZE    *)
(* places is never used.                                                   *)
(***************************************************************************)
EXTENDS Naturals, Sequences

CONSTANTS
  Byte,
  INTQ_BUFSIZE

ASSUME IntQAssumption == INTQ_BUFSIZE \in Nat \ {0, 1} /\ Byte # {}

Position == 0 .. INTQ_BUFSIZE - 1

IntqState == [buf : [Position -> Byte], head : Position, tail : Position]

\* What a place outside the queue holds is never read, so it is left out.
Unread == CHOOSE b \in Byte : TRUE

IntqInit == [buf |-> [i \in Position |-> Unread], head |-> 0, tail |-> 0]

\* `next'
Following(pos) == (pos + 1) % INTQ_BUFSIZE

Empty(q) == q.head = q.tail

Full(q) == Following(q.head) = q.tail

Oldest(q) == q.buf[q.tail]

Taken(q) == [q EXCEPT !.buf[q.tail] = Unread, !.tail = Following(@)]

Added(q, b) == [q EXCEPT !.buf[q.head] = b, !.head = Following(@)]

\* The bytes in the queue, oldest first.
Contents(q) ==
  [i \in 1 .. (q.head + INTQ_BUFSIZE - q.tail) % INTQ_BUFSIZE |->
     q.buf[(q.tail + i - 1) % INTQ_BUFSIZE]]

=================================================================================
