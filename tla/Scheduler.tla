------------------------------ MODULE Scheduler -------------------------------
(***************************************************************************)
(* Preemptive priority scheduling (threads/thread.c, intr_handler of       *)
(* threads/interrupt.c and timer_interrupt of devices/timer.c without the  *)
(* sleep list): threads are created, block, are woken, yield, change their *)
(* priority and exit, while interrupts arrive between any two statements   *)
(* that run with interrupts on.                                            *)
(*                                                                         *)
(* What blocks a thread and what wakes it are the business of the modules  *)
(* Semaphore, Locks and AlarmClock; here a thread blocks when it likes     *)
(* and any blocked thread may be woken, by a thread or by an interrupt.    *)
(* Threads own no locks here, so the loop over owning_locks in             *)
(* thread_set_priority has nothing to do, and nobody donates.              *)
(***************************************************************************)
EXTENDS Threads

VARIABLES
  pc,        \* where each thread is between two statements
  local      \* the local variable `t' of thread_create, `e' of thread_set_priority

vars == <<sched, pc, local>>

PC == {"run", "create_unblock", "create_preempt",
       "scan_begin", "scan", "scan_next", "scan_yield", "idle_loop", "idle_hlt"}

TypeOK ==
  /\ sched \in SchedState
  /\ pc \in [AnyThread -> PC]
  /\ local \in [AnyThread -> AnyThread]

Init ==
  /\ sched = InitialSched
  /\ pc = [t \in AnyThread |-> IF t = Idle THEN "idle_loop" ELSE "run"]
  /\ local = [t \in AnyThread |-> t]

\* The current thread is T, at pc l.
At(t, l) == ~sched.panic /\ sched.cur = t /\ pc[t] = l

\* T goes on at pc l; its local variable, out of use, is reset.
Goto(t, l) == pc' = [pc EXCEPT ![t] = l] /\ local' = [local EXCEPT ![t] = t]

\* T goes on at pc l with its local variable set to x.
GotoWith(t, l, x) ==
  pc' = [pc EXCEPT ![t] = l] /\ local' = [local EXCEPT ![t] = x]

\* The new struct threads that thread_create has yet to unblock.
Newborn == { local[t] : t \in { u \in Thread : pc[u] = "create_unblock" } }

\* Threads that a semaphore, lock, condition or the sleep list has blocked.
Sleeping == { t \in Thread : sched.status[t] = "BLOCKED" } \ Newborn

-------------------------------------------------------------------------------
(***************************************************************************)
(* thread_create, in three steps with interrupts on between them.  Without *)
(* a free page it returns TID_ERROR and changes nothing.                   *)
(***************************************************************************)
ThreadCreate(t, child, priority) ==
  /\ At(t, "run")
  /\ sched.status[child] = "FREE"
  /\ sched' = InitThread(sched, child, priority)
  /\ GotoWith(t, "create_unblock", child)

CreateUnblock(t) ==
  /\ At(t, "create_unblock")
  /\ sched' = ThreadUnblock(sched, local[t])
  /\ Goto(t, "create_preempt")

CreatePreempt(t) ==
  /\ At(t, "create_preempt")
  /\ sched' = ThreadPreemption(sched)
  /\ Goto(t, "run")

Yield(t) ==
  /\ At(t, "run")
  /\ sched' = ThreadYield(sched)
  /\ UNCHANGED <<pc, local>>

Exit(t) ==
  /\ At(t, "run")
  /\ sched' = ThreadExit(sched)
  /\ UNCHANGED <<pc, local>>

\* thread_block, called by a synchronisation primitive
Block(t) ==
  /\ At(t, "run")
  /\ sched' = ThreadBlock(sched)
  /\ UNCHANGED <<pc, local>>

\* thread_unblock followed by thread_preemption, as sema_up does
Wake(t, sleeper) ==
  /\ At(t, "run")
  /\ sleeper \in Sleeping
  /\ sched' = ThreadPreemption(ThreadUnblock(sched, sleeper))
  /\ UNCHANGED <<pc, local>>

-------------------------------------------------------------------------------
(***************************************************************************)
(* thread_set_priority assigns and then walks ready_list, all of it with   *)
(* interrupts on, so the element it stands on may leave the list.          *)
(***************************************************************************)
SetPriority(t, priority) ==
  /\ At(t, "run")
  /\ sched' = [sched EXCEPT !.priority[t] = priority]
  /\ Goto(t, "scan_begin")

ScanBegin(t) ==
  /\ At(t, "scan_begin")
  /\ IF sched.ready = << >>
       THEN Goto(t, "run")
       ELSE GotoWith(t, "scan", Head(sched.ready))
  /\ UNCHANGED sched

OnReadyList(t) == t \in ToSet(sched.ready)

ScanLook(t) ==
  /\ At(t, "scan")
  /\ OnReadyList(local[t])
  /\ GotoWith(t, IF sched.priority[t] < sched.priority[local[t]]
                   THEN "scan_yield" ELSE "scan_next", local[t])
  /\ UNCHANGED sched

ScanNext(t) ==
  /\ At(t, "scan_next")
  /\ \E i \in DOMAIN sched.ready :
       /\ sched.ready[i] = local[t]
       /\ IF i = Len(sched.ready)
            THEN Goto(t, "run")
            ELSE GotoWith(t, "scan", sched.ready[i + 1])
  /\ UNCHANGED sched

(***************************************************************************)
(* The element the walk stands on has left the ready list while another    *)
(* thread ran: it is on a list of waiters, or its page is free or holds a  *)
(* new thread not yet on any list.  The walk reads whatever is there as a  *)
(* priority and may yield; it may go on from waiter to waiter; and it ends *)
(* at that list's tail or at a cleared link, where an ASSERT of list_next  *)
(* or a page fault stops the kernel.                                       *)
(***************************************************************************)
ScanStale(t) ==
  /\ At(t, "scan") \/ At(t, "scan_next")
  /\ ~OnReadyList(local[t])
  /\ \/ Goto(t, "scan_yield") /\ UNCHANGED sched
     \/ \E u \in Thread : /\ sched.status[u] = "BLOCKED"
                          /\ GotoWith(t, "scan", u)
                          /\ UNCHANGED sched
     \/ sched' = Panic(sched) /\ UNCHANGED <<pc, local>>

ScanYield(t) ==
  /\ At(t, "scan_yield")
  /\ sched' = ThreadYield(sched)
  /\ Goto(t, "run")

-------------------------------------------------------------------------------
(***************************************************************************)
(* The idle thread: intr_disable and thread_block, then "sti; hlt" until   *)
(* an interrupt has been handled.                                          *)
(***************************************************************************)
\* Wrong on purpose: the idle thread halts without giving the CPU away first.
IdleHaltAtOnce ==
  /\ At(Idle, "idle_loop")
  /\ UNCHANGED sched
  /\ Goto(Idle, "idle_hlt")

IdleBlock ==
  /\ At(Idle, "idle_loop")
  /\ sched' = ThreadBlock(sched)
  /\ Goto(Idle, "idle_hlt")

\* An interrupt takes the CPU out of hlt, whatever its handler did.
LeaveHlt ==
  /\ pc' = IF sched.cur = Idle THEN [pc EXCEPT ![Idle] = "idle_loop"] ELSE pc
  /\ UNCHANGED local

TimerInterrupt ==
  /\ ~sched.panic
  /\ LeaveHlt
  /\ \E ticked \in {ThreadTick(sched)} : \E asked \in {IntrPreemption(ticked)} :
       sched' = IntrReturn(asked)

\* A handler that wakes a thread: sema_up in ide.c, or the timer's sleep list.
DeviceInterrupt(sleeper) ==
  /\ ~sched.panic
  /\ sleeper \in Sleeping
  /\ LeaveHlt
  /\ sched' = IntrReturn(IntrPreemption(ThreadUnblock(sched, sleeper)))

ThreadStep(t) ==
  \/ \E child \in Thread, p \in Priority : ThreadCreate(t, child, p)
  \/ CreateUnblock(t)
  \/ CreatePreempt(t)
  \/ Yield(t)
  \/ Exit(t)
  \/ Block(t)
  \/ \E u \in Thread : Wake(t, u)
  \/ \E p \in Priority : SetPriority(t, p)
  \/ ScanBegin(t)
  \/ ScanLook(t)
  \/ ScanNext(t)
  \/ ScanStale(t)
  \/ ScanYield(t)

Next ==
  \/ \E t \in Thread : ThreadStep(t)
  \/ IdleBlock
  \/ TimerInterrupt
  \/ \E t \in Thread : DeviceInterrupt(t)

Spec == Init /\ [][Next]_vars

-------------------------------------------------------------------------------
(***************************************************************************)
(* Properties.                                                             *)
(***************************************************************************)

\* The statuses agree with the CPU and with the ready list in every state an
\* interrupt can observe: one RUNNING thread, which is the current one; every
\* READY thread but the idle one on ready_list exactly once, and nobody else
\* (thread_unblock, thread_yield, schedule and thread_schedule_tail together).
Consistent == OneRunning(sched) /\ ReadyListExact(sched)

\* ready_list stays sorted from high to low priority, which
\* next_thread_to_run relies on when it pops the front (threads/thread.c).
\* So it is without donation: lock_acquire and multiple_donate raise the
\* priority of a READY holder where it stands (synch.c:265 and :222).
Sorted == ReadyListSorted(sched)

\* Outside the windows in which thread_create and thread_set_priority have
\* yet to look, the running thread is outranked by no ready thread, whatever
\* interrupts came in between.
HighestRuns ==
  pc[sched.cur] \notin {"create_preempt", "scan_begin", "scan", "scan_yield"}
    => ~Outranked(sched)

\* The machine never halts waiting for an interrupt while a thread is ready.
NoHaltWithWork ==
  sched.cur = Idle /\ pc[Idle] = "idle_hlt" => sched.ready = << >>

\* A ready thread of the highest priority gets the CPU, whatever the other
\* threads do, as long as the timer ticks and the kernel does not panic:
\* equal priorities take turns.
TopPriorityRuns ==
  \A t \in Thread :
    (t \in ToSet(sched.ready) /\ sched.priority[t] = PRI_MAX)
      ~> (sched.cur = t \/ sched.panic)

\* list_next asserts that it is given the head or an interior element of a
\* list (lib/kernel/list.c): the walk in thread_set_priority keeps to that.
WalkStaysOnReadyList == ~sched.panic

===============================================================================
