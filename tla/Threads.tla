------------------------------- MODULE Threads --------------------------------
(***************************************************************************)
(* The scheduling core of threads/thread.c as functions from one state of  *)
(* the scheduler to the next.  The kernel runs on one CPU, so code between *)
(* intr_disable and intr_set_level is one step; the modules that extend    *)
(* this one compose these functions into such steps.                       *)
(*                                                                         *)
(* They keep such a state in sched.  A scheduler state is a record:        *)
(*   cur             the running thread (running_thread ())                *)
(*   status          `status' of each struct thread; "FREE" when its page  *)
(*                   is not allocated                                      *)
(*   priority        `priority' of each struct thread                      *)
(*   ready           ready_list, front to back                             *)
(*   thread_ticks    the static counter of that name                       *)
(*   yield_on_return the flag of interrupt.c                               *)
(*   panic           an ASSERT has failed and the machine has stopped      *)
(***************************************************************************)
EXTENDS KernelList

CONSTANTS
  Thread,          \* threads other than the idle thread
  Idle,            \* idle_thread
  Main,            \* initial_thread
  PRI_MIN, PRI_MAX, PRI_DEFAULT,
  TIME_SLICE       \* number of timer ticks to give each thread

VARIABLE sched     \* the scheduler state

ASSUME ThreadsAssumption ==
  /\ Main \in Thread /\ IsFiniteSet(Thread)
  /\ Idle \notin Thread
  /\ PRI_MIN \in Int /\ PRI_MAX \in Int /\ PRI_DEFAULT \in PRI_MIN .. PRI_MAX
  /\ TIME_SLICE \in Nat \ {0}

AnyThread == Thread \union {Idle}
Priority == PRI_MIN .. PRI_MAX
Status == {"FREE", "BLOCKED", "READY", "RUNNING", "DYING"}

SchedState ==
  [ cur : AnyThread,
    status : [AnyThread -> Status],
    priority : [AnyThread -> Priority],
    ready : Seq(AnyThread),
    thread_ticks : Nat,
    yield_on_return : BOOLEAN,
    panic : BOOLEAN ]

(***************************************************************************)
(* The state thread_start leaves behind: the idle thread has run once, has *)
(* upped idle_started and has given the CPU back to main from the          *)
(* preemption inside that sema_up, so it is READY without being on the     *)
(* ready list.                                                             *)
(***************************************************************************)
InitialSched ==
  [ cur |-> Main,
    status |-> [t \in AnyThread |-> CASE t = Main -> "RUNNING"
                                      [] t = Idle -> "READY"
                                      [] OTHER -> "FREE"],
    priority |-> [t \in AnyThread |-> IF t = Main THEN PRI_DEFAULT ELSE PRI_MIN],
    ready |-> << >>,
    thread_ticks |-> 0,
    yield_on_return |-> FALSE,
    panic |-> FALSE ]

Panic(s) == [s EXCEPT !.panic = TRUE]

NextThreadToRun(s) == IF s.ready = << >> THEN Idle ELSE Head(s.ready)

(***************************************************************************)
(* schedule, switch_threads and thread_schedule_tail: the caller has set   *)
(* the current thread's status.  The page of a dying thread other than     *)
(* main is freed once the CPU has left its stack.                          *)
(***************************************************************************)
Schedule(s) ==
  LET next == NextThreadToRun(s)
      left == IF s.status[s.cur] = "DYING" /\ s.cur # Main
                THEN "FREE" ELSE s.status[s.cur]
  IN  [s EXCEPT !.cur = next,
                !.ready = IF @ = << >> THEN @ ELSE Tail(@),
                !.status = [s.status EXCEPT ![s.cur] = left, ![next] = "RUNNING"],
                !.thread_ticks = 0]

\* T's status becomes st, and the ready list becomes list.
Restate(s, t, st, list) ==
  [s EXCEPT !.ready = list, !.status = [s.status EXCEPT ![t] = st]]

ThreadBlock(s) == Schedule(Restate(s, s.cur, "BLOCKED", s.ready))

ThreadExit(s) == Schedule(Restate(s, s.cur, "DYING", s.ready))

\* Wrong on purpose: the idle thread is queued like any other.
ThreadYieldQueueingIdle(s) ==
  Schedule(Restate(s, s.cur, "READY", InsertByPriority(s.ready, s.cur, s.priority)))

\* Wrong on purpose: the yielding thread goes back to the front of its queue.
ThreadYieldToFront(s) ==
  Schedule(Restate(s, s.cur, "READY",
                   IF s.cur = Idle THEN s.ready ELSE <<s.cur>> \o s.ready))

ThreadYield(s) ==
  Schedule(Restate(s, s.cur, "READY",
                   IF s.cur = Idle THEN s.ready
                   ELSE InsertByPriority(s.ready, s.cur, s.priority)))

ThreadUnblock(s, t) ==
  IF s.status[t] # "BLOCKED"
    THEN Panic(s)
    ELSE Restate(s, t, "READY", InsertByPriority(s.ready, t, s.priority))

\* init_thread, and the rest of thread_create before it unblocks the thread
InitThread(s, t, priority) ==
  [Restate(s, t, "BLOCKED", s.ready) EXCEPT !.priority[t] = priority]

-------------------------------------------------------------------------------
(***************************************************************************)
(* thread_preemption outside and inside an interrupt handler, thread_tick, *)
(* and the frame intr_handler puts around an external interrupt.           *)
(***************************************************************************)
Outranked(s) ==
  /\ s.ready # << >>
  /\ s.priority[s.cur] < s.priority[Head(s.ready)]

ThreadPreemption(s) == IF Outranked(s) THEN ThreadYield(s) ELSE s

\* Wrong on purpose: an interrupt that wakes a thread does not preempt.
NoIntrPreemption(s) == s

\* thread_ticks advances, and the handler asks for a yield if b says so.
Tick(s, b) == [s EXCEPT !.thread_ticks = s.thread_ticks + 1, !.yield_on_return = b]

IntrPreemption(s) ==
  IF s.ready = << >>
    THEN s
    ELSE Tick(s, \/ s.yield_on_return
                 \/ Outranked(s)
                 \/ /\ s.priority[s.cur] = s.priority[Head(s.ready)]
                    /\ s.thread_ticks + 1 >= TIME_SLICE)

\* Wrong on purpose: the end of the time slice goes unnoticed.
ThreadTickWithoutSlice(s) == Tick(s, s.yield_on_return)

ThreadTick(s) ==
  Tick(s, s.yield_on_return \/ s.thread_ticks + 1 >= TIME_SLICE)

\* Only intr_handler reads the flag, so it is cleared when the handler is left.
IntrReturn(s) ==
  LET done == [s EXCEPT !.yield_on_return = FALSE]
  IN  IF s.yield_on_return /\ ~s.panic THEN ThreadYield(done) ELSE done

(***************************************************************************)
(* For the modules that do not count ticks: the states in which an         *)
(* interrupt can leave the kernel whose handler turned the threads' state  *)
(* into s and then called thread_preemption.  A thread that is outranked   *)
(* yields; any other yields if its time slice happens to be over.          *)
(***************************************************************************)
Interrupted(s) ==
  {ThreadYield(s)} \union (IF Outranked(s) THEN {} ELSE {s})

\* The threads of the kernel, created by main in the given order with
\* priorities that leave the CPU to main.
StartedSched(order, priority) ==
  [InitialSched EXCEPT
     !.status = [t \in AnyThread |-> IF t = Main THEN "RUNNING" ELSE "READY"],
     !.priority = [t \in AnyThread |-> IF t = Idle THEN PRI_MIN ELSE priority[t]],
     !.ready = SortByPriority(order, priority)]

-------------------------------------------------------------------------------
(***************************************************************************)
(* What every scheduler state between two steps should satisfy.            *)
(***************************************************************************)

\* The CPU is where the statuses say: exactly the current thread is RUNNING.
OneRunning(s) == \A t \in AnyThread : s.status[t] = "RUNNING" <=> t = s.cur

\* The ready list holds each READY thread once and no other; never the idle one.
ReadyListExact(s) ==
  /\ Distinct(s.ready)
  /\ ToSet(s.ready) = { t \in Thread : s.status[t] = "READY" }

ReadyListSorted(s) == SortedByPriority(s.ready, s.priority)

ReadyOK(s) ==
  /\ s \in SchedState
  /\ ReadyListExact(s)
  /\ ReadyListSorted(s)

SchedOK(s) == ReadyOK(s) /\ OneRunning(s)

===============================================================================
