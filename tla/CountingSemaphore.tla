-------------------------- MODULE CountingSemaphore ---------------------------
(***************************************************************************)
(* What a semaphore is for its users (the comment on `sema_init' in        *)
(* threads/synch.c): a number of units that threads take, waiting while    *)
(* there is none, and that threads and interrupt handlers give back.       *)
(***************************************************************************)
EXTENDS Naturals

CONSTANTS Thread, Sema, Nobody

VARIABLES
  value,    \* the units of each semaphore
  asking    \* the semaphore for whose unit a thread waits

vars == <<value, asking>>

Init ==
  /\ value \in [Sema -> Nat]
  /\ asking = [t \in Thread |-> Nobody]

\* Without a unit to take, the thread waits.
Ask(t, s) ==
  /\ asking[t] = Nobody
  /\ value[s] = 0
  /\ asking' = [asking EXCEPT ![t] = s]
  /\ UNCHANGED value

Take(t, s) ==
  /\ asking[t] \in {s, Nobody}
  /\ value[s] > 0
  /\ value' = [value EXCEPT ![s] = @ - 1]
  /\ asking' = [asking EXCEPT ![t] = Nobody]

Give(s) ==
  /\ value' = [value EXCEPT ![s] = @ + 1]
  /\ UNCHANGED asking

Next == \E s \in Sema : Give(s) \/ \E t \in Thread : Ask(t, s) \/ Take(t, s)

Spec == Init /\ [][Next]_vars

===============================================================================
