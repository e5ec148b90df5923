------------------------------- MODULE Condition -------------------------------
(***************************************************************************)
(* Condition variables (cond_wait, cond_signal and cond_broadcast of       *)
(* threads/synch.c): one condition and the lock that goes with it.  The    *)
(* struct semaphore_elem of a waiter lies on its stack, so it is named by  *)
(* the thread.                                                             *)
(*                                                                         *)
(* Of the lock there is only its semaphore here: who holds it, and the     *)
(* donations, are the business of Locks.                                   *)
(***************************************************************************)
EXTENDS Semaphores

VARIABLES
  lock,       \* the lock's semaphore
  waiters,    \* `waiters' of the condition, front to back
  private,    \* the semaphore in each thread's struct semaphore_elem
  pc          \* where each thread is

vars == <<sched, lock, waiters, private, pc>>

PC == {"run", "lock_down", "own", "broadcast", "signal_up", "broadcast_up",
       "wait_release", "wait_down", "waiting", "wait_lock", "wait_lock_down"}

TypeOK ==
  /\ sched \in SchedState
  /\ lock \in [value : 0 .. 1, waiters : Seq(Thread)]
  /\ waiters \in Seq(Thread)
  /\ private \in [Thread -> [value : 0 .. 1, waiters : Seq(Thread)]]
  /\ pc \in [Thread -> PC]

Init ==
  /\ \E order \in { l \in [1 .. Cardinality(Thread \ {Main}) -> Thread \ {Main}] :
                      Distinct(l) },
        priority \in [Thread -> Priority] :
       /\ \A t \in Thread : priority[t] <= priority[Main]
       /\ sched = StartedSched(order, priority)
  /\ lock = SemaInit(1)
  /\ waiters = << >>
  /\ private = [t \in Thread |-> SemaInit(0)]
  /\ pc = [t \in Thread |-> "run"]

At(t, l) == ~sched.panic /\ sched.cur = t /\ pc[t] = l

Goto(t, l) == pc' = [pc EXCEPT ![t] = l]

-------------------------------------------------------------------------------
(***************************************************************************)
(* The lock, taken at first or again at the end of cond_wait.              *)
(***************************************************************************)
LockDown(t, before, in, after) ==
  /\ At(t, before) \/ At(t, in)
  /\ lock' = DownSema(sched, lock)
  /\ sched' = DownSched(sched, lock)
  /\ Goto(t, IF MustWait(lock) THEN in ELSE after)
  /\ UNCHANGED <<waiters, private>>

LockUp(t, before, after) ==
  /\ At(t, before)
  /\ lock' = UpSema(sched, lock)
  /\ sched' = ThreadPreemption(UpSched(sched, lock))
  /\ Goto(t, after)
  /\ UNCHANGED <<waiters, private>>

Acquire(t) == LockDown(t, "run", "lock_down", "own")

Release(t) == LockUp(t, "own", "run")

(***************************************************************************)
(* cond_wait: insert, release the lock, go to sleep, take the lock again.  *)
(* Under cond_compare an element whose thread is not asleep yet is less    *)
(* than any other, so list_insert_ordered always inserts at the front.     *)
(***************************************************************************)
WaitInsert(t) ==
  /\ At(t, "own")
  /\ private' = [private EXCEPT ![t] = SemaInit(0)]
  /\ waiters' = <<t>> \o waiters
  /\ Goto(t, "wait_release")
  /\ UNCHANGED <<sched, lock>>

WaitRelease(t) == LockUp(t, "wait_release", "wait_down")

\* Wrong on purpose: cond_wait returns without the lock.
WaitDownThatIsAll(t) ==
  /\ At(t, "wait_down") \/ At(t, "waiting")
  /\ private' = [private EXCEPT ![t] = DownSema(sched, @)]
  /\ sched' = DownSched(sched, private[t])
  /\ Goto(t, IF MustWait(private[t]) THEN "waiting" ELSE "own")
  /\ UNCHANGED <<lock, waiters>>

WaitDown(t) ==
  /\ At(t, "wait_down") \/ At(t, "waiting")
  /\ private' = [private EXCEPT ![t] = DownSema(sched, @)]
  /\ sched' = DownSched(sched, private[t])
  /\ Goto(t, IF MustWait(private[t]) THEN "waiting" ELSE "wait_lock")
  /\ UNCHANGED <<lock, waiters>>

WaitAcquire(t) == LockDown(t, "wait_lock", "wait_lock_down", "own")

-------------------------------------------------------------------------------
(***************************************************************************)
(* cond_signal and cond_broadcast: sort, and up the semaphore in front.    *)
(* Waiters that have released the lock but are not asleep come first in    *)
(* the order of cond_compare, and two of them each before the other.       *)
(***************************************************************************)
Unslept == { t \in ToSet(waiters) : private[t].waiters = << >> }

\* Wrong on purpose: the waiters are not sorted.
SortedWaitersAsTheyAre == waiters

\* One that is not asleep has no thread to compare, and is less than any other.
Urgency == [t \in Thread |-> IF t \in Unslept THEN PRI_MAX + 1 ELSE sched.priority[t]]

SortedWaiters == SortByPriority(waiters, Urgency)

\* With nobody to wake, the call is over; with one or more, list_sort is next.
SignalSort(t, before, up) ==
  /\ At(t, before)
  /\ waiters # << >>
  /\ Cardinality(Unslept) <= 1
  /\ waiters' = SortedWaiters
  /\ Goto(t, up)
  /\ UNCHANGED <<sched, lock, private>>

\* Two elements, each less than the other: ASSERT (is_sorted (...)) at the end of
\* list_sort fails, or, if there are more of them, list_sort may go on and on.
SignalUnsortable(t, before) ==
  /\ At(t, before)
  /\ Cardinality(Unslept) > 1
  /\ sched' = Panic(sched)
  /\ UNCHANGED <<lock, waiters, private, pc>>

\* Wrong on purpose: a waiter that is not asleep needs no waking.
SignalUpIfAsleep(t, up, after) ==
  /\ At(t, up)
  /\ LET w == Head(waiters)
         asleep == w \notin Unslept
     IN  /\ private' = [private EXCEPT ![w] = IF asleep THEN UpSema(sched, @) ELSE @]
         /\ sched' = ThreadPreemption(UpSched(sched, private[w]))
  /\ waiters' = Tail(waiters)
  /\ Goto(t, after)
  /\ UNCHANGED lock

\* Wrong on purpose: list_front in place of list_pop_front.
SignalUpLeaving(t, up, after) ==
  /\ At(t, up)
  /\ LET w == Head(waiters)
     IN  /\ private' = [private EXCEPT ![w] = UpSema(sched, @)]
         /\ sched' = ThreadPreemption(UpSched(sched, private[w]))
  /\ Goto(t, after)
  /\ UNCHANGED <<lock, waiters>>

SignalUp(t, up, after) ==
  /\ At(t, up)
  /\ LET w == Head(waiters)
     IN  /\ private' = [private EXCEPT ![w] = UpSema(sched, @)]
         /\ sched' = ThreadPreemption(UpSched(sched, private[w]))
  /\ waiters' = Tail(waiters)
  /\ Goto(t, after)
  /\ UNCHANGED lock

Signal(t) ==
  \/ SignalSort(t, "own", "signal_up")
  \/ SignalUnsortable(t, "own")
  \/ SignalUp(t, "signal_up", "own")

BroadcastBegin(t) ==
  /\ At(t, "own")
  /\ Goto(t, "broadcast")
  /\ UNCHANGED <<sched, lock, waiters, private>>

Broadcast(t) ==
  \/ SignalSort(t, "broadcast", "broadcast_up")
  \/ SignalUnsortable(t, "broadcast")
  \/ SignalUp(t, "broadcast_up", "broadcast")

BroadcastEnd(t) ==
  /\ At(t, "broadcast")
  /\ waiters = << >>
  /\ Goto(t, "own")
  /\ UNCHANGED <<sched, lock, waiters, private>>

-------------------------------------------------------------------------------
\* Interrupts are off until a thread woken in sema_down has looked again.
InterruptsOn ==
  /\ ~sched.panic
  /\ sched.cur \in Thread =>
       pc[sched.cur] \notin {"lock_down", "waiting", "wait_lock_down"}

TimerInterrupt ==
  /\ InterruptsOn
  /\ sched' \in Interrupted(sched)
  /\ UNCHANGED <<lock, waiters, private, pc>>

\* The idle thread looks for work at the top of its loop.
IdleBlock ==
  /\ ~sched.panic /\ sched.cur = Idle
  /\ sched' = ThreadBlock(sched)
  /\ UNCHANGED <<lock, waiters, private, pc>>

ThreadStep(t) ==
  \/ Acquire(t)
  \/ Release(t)
  \/ WaitInsert(t)
  \/ WaitRelease(t)
  \/ WaitDown(t)
  \/ WaitAcquire(t)
  \/ Signal(t)
  \/ BroadcastBegin(t)
  \/ Broadcast(t)
  \/ BroadcastEnd(t)

Next == (\E t \in Thread : ThreadStep(t)) \/ TimerInterrupt \/ IdleBlock

Spec == Init /\ [][Next]_vars

-------------------------------------------------------------------------------
(***************************************************************************)
(* Properties.                                                             *)
(***************************************************************************)
InMonitor ==
  { t \in Thread : pc[t] \in {"own", "wait_release", "broadcast", "signal_up",
                              "broadcast_up"} }

\* LOCK is "reacquired before returning" (cond_wait): no two threads are between
\* taking the lock and giving it up, however they came by it.
MonitorExclusive == lock.value + Cardinality(InMonitor) = 1

\* A signal is never lost, even if it comes after the waiter has released the
\* lock and before it sleeps: a thread in cond_wait is on the list of waiters, or
\* there is a unit for it in its semaphore and nothing keeps it blocked.
SignalKept ==
  \A t \in Thread :
    pc[t] \in {"wait_release", "wait_down", "waiting"} =>
      IF t \in ToSet(waiters)
        THEN private[t].value = 0
        ELSE private[t].value = 1 /\ sched.status[t] # "BLOCKED"

\* The waiters list holds each waiter once and nobody else: when a signal ups the
\* semaphore in front, its semaphore_elem is still on a live stack.
WaitersInCondWait ==
  /\ TypeOK
  /\ Distinct(waiters)
  /\ \A t \in ToSet(waiters) : pc[t] \in {"wait_release", "wait_down", "waiting"}

\* If all the waiters are asleep when they are sorted, the one whose semaphore is
\* going to be upped has the highest priority of them.
SignalsHighestSleeper ==
  [][ \A t \in Thread :
        /\ pc[t] # pc'[t] /\ pc'[t] \in {"signal_up", "broadcast_up"}
        /\ Unslept = {}
        => \A u \in ToSet(waiters) :
             sched.priority[Head(waiters')] >= sched.priority[u] ]_vars

\* "cond_signal() wakes up the highest-priority thread waiting in cond_wait()"
\* (tests/threads/priority-condvar.c).
SignalsHighest ==
  [][ \A t \in ToSet(waiters) \ ToSet(waiters') : \A u \in ToSet(waiters) :
        sched.priority[t] >= sched.priority[u] ]_vars

\* "ASSERT (is_sorted (...))" at the end of list_sort (lib/kernel/list.c) holds
\* of the waiters of a condition.
WaitersSortable == ~sched.panic

===============================================================================
