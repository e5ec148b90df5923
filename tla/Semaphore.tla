------------------------------- MODULE Semaphore -------------------------------
(***************************************************************************)
(* Threads and interrupt handlers that share semaphores (threads/synch.c). *)
(* A thread that has been woken in sema_down holds no claim on the value:  *)
(* others may take it first, and it queues again.                          *)
(***************************************************************************)
EXTENDS Semaphores

CONSTANTS
  Sema,       \* the semaphores
  Nobody,     \* no semaphore
  MaxValue    \* bound: nobody ups a semaphore beyond this

ASSUME SemaphoreAssumption == Nobody \notin Sema /\ MaxValue \in Nat

VARIABLES
  sema,       \* value and waiters of each semaphore
  downing     \* the semaphore in whose sema_down a thread is looping

vars == <<sched, sema, downing>>

TypeOK ==
  /\ sched \in SchedState
  /\ sema \in [Sema -> [value : Nat, waiters : Seq(Thread)]]
  /\ downing \in [Thread -> Sema \union {Nobody}]

Init ==
  /\ \E order \in { l \in [1 .. Cardinality(Thread \ {Main}) -> Thread \ {Main}] :
                      Distinct(l) },
        priority \in [Thread -> Priority] :
       /\ \A t \in Thread : priority[t] <= priority[Main]
       /\ sched = StartedSched(order, priority)
  /\ sema \in [Sema -> { SemaInit(v) : v \in 0 .. 1 }]
  /\ downing = [t \in Thread |-> Nobody]

Running(t) == ~sched.panic /\ sched.cur = t

\* Interrupts are off until a thread woken in sema_down has looked again.
InterruptsOn ==
  /\ ~sched.panic
  /\ sched.cur \in Thread => downing[sched.cur] = Nobody

-------------------------------------------------------------------------------
DownLoop(t, s) ==
  /\ sema' = [sema EXCEPT ![s] = DownSema(sched, @)]
  /\ sched' = DownSched(sched, sema[s])
  /\ downing' = [downing EXCEPT ![t] = IF MustWait(sema[s]) THEN s ELSE Nobody]

Down(t, s) == Running(t) /\ downing[t] = Nobody /\ DownLoop(t, s)

\* Wrong on purpose: a woken thread takes its unit for granted (`if' for `while').
ResumeWithoutTest(t) ==
  /\ Running(t) /\ downing[t] # Nobody
  /\ sema' = [sema EXCEPT ![downing[t]].value = @ - 1]
  /\ downing' = [downing EXCEPT ![t] = Nobody]
  /\ UNCHANGED sched

Resume(t) == Running(t) /\ downing[t] # Nobody /\ DownLoop(t, downing[t])

TryDown(t, s) ==
  /\ Running(t) /\ downing[t] = Nobody
  /\ sema' = [sema EXCEPT ![s] = TryDownSema(@)]
  /\ UNCHANGED <<sched, downing>>

\* Wrong on purpose: a waiter is woken only by the first unit.
UpWakingOnce(t, s) ==
  /\ Running(t) /\ downing[t] = Nobody
  /\ sema[s].value < MaxValue
  /\ IF sema[s].value > 0
       THEN /\ sema' = [sema EXCEPT ![s].value = @ + 1]
            /\ UNCHANGED sched
       ELSE /\ sema' = [sema EXCEPT ![s] = UpSema(sched, @)]
            /\ sched' = ThreadPreemption(UpSched(sched, sema[s]))
  /\ UNCHANGED downing

Up(t, s) ==
  /\ Running(t) /\ downing[t] = Nobody
  /\ sema[s].value < MaxValue
  /\ sema' = [sema EXCEPT ![s] = UpSema(sched, @)]
  /\ sched' = ThreadPreemption(UpSched(sched, sema[s]))
  /\ UNCHANGED downing

\* The interrupt handler of a device ups the semaphore its driver waits for.
InterruptUp(s) ==
  /\ InterruptsOn
  /\ sema[s].value < MaxValue
  /\ sema' = [sema EXCEPT ![s] = UpSema(sched, @)]
  /\ sched' \in Interrupted(UpSched(sched, sema[s]))
  /\ UNCHANGED downing

TimerInterrupt ==
  /\ InterruptsOn
  /\ sched' \in Interrupted(sched)
  /\ UNCHANGED <<sema, downing>>

\* Somebody changes the priority of a waiting thread: donation in lock_acquire.
Reprioritise(t, p) ==
  /\ InterruptsOn
  /\ sched.status[t] = "BLOCKED"
  /\ sched.priority[t] < p
  /\ sched' = [sched EXCEPT !.priority[t] = p]
  /\ UNCHANGED <<sema, downing>>

\* The idle thread looks for work at the top of its loop.
IdleBlock ==
  /\ Running(Idle)
  /\ sched' = ThreadBlock(sched)
  /\ UNCHANGED <<sema, downing>>

ThreadStep(t) ==
  \/ \E s \in Sema : Down(t, s)
  \/ Resume(t)
  \/ \E s \in Sema : TryDown(t, s)
  \/ \E s \in Sema : Up(t, s)

Next ==
  \/ \E t \in Thread : ThreadStep(t)
  \/ \E s \in Sema : InterruptUp(s)
  \/ \E t \in Thread, p \in Priority : Reprioritise(t, p)
  \/ TimerInterrupt
  \/ IdleBlock

Spec == Init /\ [][Next]_vars

\* A tick at the end of a time slice; the timer does not stop ticking.
SliceEnd ==
  /\ InterruptsOn
  /\ sched' = ThreadYield(sched)
  /\ UNCHANGED <<sema, downing>>

FairSpec ==
  /\ Spec
  /\ WF_vars(SliceEnd)
  /\ WF_vars(IdleBlock)
  /\ WF_vars(\E t \in Thread : Resume(t))

-------------------------------------------------------------------------------
(***************************************************************************)
(* Properties.                                                             *)
(***************************************************************************)
Waiting(s) == ToSet(sema[s].waiters)

\* `elem' of struct thread may serve the ready list and the wait lists only
\* because a thread is on one list at a time (threads/thread.h): the waiters of
\* a semaphore are the BLOCKED threads inside its sema_down, each once, the
\* ready list holds the READY threads, and nobody is BLOCKED without a list from
\* which to be woken.
OneList ==
  /\ TypeOK
  /\ OneRunning(sched) /\ ReadyListExact(sched) /\ ReadyListSorted(sched)
  /\ \A s \in Sema :
       /\ Distinct(sema[s].waiters)
       /\ Waiting(s) = { t \in Thread : /\ downing[t] = s
                                        /\ sched.status[t] = "BLOCKED" }
  /\ \A t \in Thread : sched.status[t] = "BLOCKED" => downing[t] # Nobody

\* Threads that have been woken in sema_down but have not looked yet.
Woken(s) == { t \in Thread : downing[t] = s } \ Waiting(s)

\* No wakeup is lost: as long as anybody waits, every unit of the value has a
\* woken thread on its way to it, even when others take units in between.
NoLostWakeup ==
  \A s \in Sema :
    sema[s].waiters # << >> => Cardinality(Woken(s)) >= sema[s].value

\* sema_up wakes a waiter of the highest priority at that moment, even if
\* priorities have changed since the waiters queued.
WakesHighest ==
  [][ \A s \in Sema : \A t \in ToSet(sema[s].waiters) \ ToSet(sema'[s].waiters) :
        \A u \in ToSet(sema[s].waiters) : sched.priority[t] >= sched.priority[u]
    ]_vars

\* A semaphore does not keep a unit while threads wait for it: with all threads
\* of one priority, whoever was woken gets the CPU and takes it, unless another
\* thread has been quicker.
UnitsReachWaiters ==
  [](\A t \in Thread : sched.priority[t] = PRI_MIN) =>
    \A s \in Sema :
      (sema[s].value > 0 /\ sema[s].waiters # << >>)
        ~> (sema[s].value = 0 \/ sema[s].waiters = << >>)

\* What a semaphore promises whoever uses it, with the scheduler, the wait lists
\* and the retries of sema_down out of sight: units are taken once each, by
\* threads, and none is taken that was not there.
Counting ==
  INSTANCE CountingSemaphore
    WITH value <- [s \in Sema |-> sema[s].value], asking <- downing

ImplementsCounting == Counting!Spec

===============================================================================
