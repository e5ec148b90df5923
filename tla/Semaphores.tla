------------------------------ MODULE Semaphores -------------------------------
(***************************************************************************)
(* The bodies of sema_down and sema_up (threads/synch.c) as functions on   *)
(* the state of the scheduler and that of one semaphore, a record of its   *)
(* value and its waiters from front to back.  Interrupts are off from the  *)
(* first statement of each to its last.                                    *)
(***************************************************************************)
EXTENDS Threads

SemaInit(value) == [value |-> value, waiters |-> << >>]

(***************************************************************************)
(* One pass through the loop of sema_down by the current thread: with a    *)
(* value of zero it queues and blocks, and is in the loop still when it    *)
(* gets the CPU back; otherwise it takes one and leaves.                   *)
(***************************************************************************)
MustWait(sema) == sema.value = 0

DownSema(s, sema) ==
  IF MustWait(sema)
    THEN [sema EXCEPT !.waiters = InsertByPriority(@, s.cur, s.priority)]
    ELSE [sema EXCEPT !.value = @ - 1]

DownSched(s, sema) == IF MustWait(sema) THEN ThreadBlock(s) ELSE s

\* sema_try_down
TryDownSema(sema) == IF sema.value > 0 THEN [sema EXCEPT !.value = @ - 1] ELSE sema

(***************************************************************************)
(* sema_up sorts the waiters, whose priorities may have changed, wakes the *)
(* first and counts; its caller goes on with thread_preemption.            *)
(***************************************************************************)
\* Wrong on purpose: the order in which the waiters queued is trusted.
ToWakeUnsorted(s, sema) == sema.waiters

ToWake(s, sema) == SortByPriority(sema.waiters, s.priority)

\* Wrong on purpose: list_front in place of list_pop_front.
UpSemaLeavingWoken(s, sema) == [sema EXCEPT !.value = @ + 1]

UpSema(s, sema) ==
  [value |-> sema.value + 1,
   waiters |-> IF sema.waiters = << >> THEN << >> ELSE Tail(ToWake(s, sema))]

UpSched(s, sema) ==
  IF sema.waiters = << >> THEN s ELSE ThreadUnblock(s, Head(ToWake(s, sema)))

===============================================================================
