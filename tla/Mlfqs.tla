---------------------------------- MODULE Mlfqs ----------------------------------
(***************************************************************************)
(* The multi-level feedback queue scheduler, thread_mlfqs: the fixed-point *)
(* arithmetic (threads/fixedpoint.h), the recalculations of recent_cpu,    *)
(* load_avg and priority that timer_interrupt makes (devices/timer.c,      *)
(* threads/thread.c), and thread_set_nice.  The recalculations write       *)
(* `priority' and leave ready_list as it is.                               *)
(***************************************************************************)
EXTENDS Threads

CONSTANTS
  f,                   \* the fixed-point number 1
  TIMER_FREQ,
  THREAD_RECALC_PRIO,
  Window,              \* seconds that load_avg looks back, 60
  Nice,                \* bound: what processes set their niceness to
  Changes,             \* bound: times that a thread sets it or goes to sleep
  Early                \* bound: ticks after which threads only compute

ASSUME MlfqsAssumption ==
  /\ f \in Nat \ {0}
  /\ THREAD_RECALC_PRIO \in Nat \ {0} /\ Window \in Nat \ {0}
  /\ TIMER_FREQ \in Nat /\ TIMER_FREQ > 0 /\ TIMER_FREQ % THREAD_RECALC_PRIO = 0
  /\ Nice \subseteq -20 .. 20 /\ Changes \in Nat /\ Early \in Nat

VARIABLES
  nice,        \* `nice' of each thread
  recent_cpu,  \* `recent_cpu' of each thread, fixed point
  load_avg,    \* fixed point
  ticks,       \* since timer_init, modulo TIMER_FREQ
  changes,     \* of those that Changes bounds
  age,         \* ticks in all, up to Early
  fresh        \* history: threads whose priority has never been recalculated

mlfqsVars == <<sched, nice, recent_cpu, load_avg, ticks, changes, age, fresh>>

MlfqsTypeOK ==
  /\ sched \in SchedState
  /\ nice \in [Thread -> Int] /\ recent_cpu \in [Thread -> Int]
  /\ load_avg \in Int
  /\ ticks \in 0 .. TIMER_FREQ - 1
  /\ changes \in 0 .. Changes /\ age \in 0 .. Early
  /\ fresh \subseteq Thread

MlfqsInit ==
  /\ sched = StartedSched(SetToSeq(Thread \ {Main}), [t \in Thread |-> PRI_DEFAULT])
  /\ nice = [t \in Thread |-> 0]
  /\ recent_cpu = [t \in Thread |-> 0]
  /\ load_avg = 0
  /\ ticks = 0
  /\ changes = 0 /\ age = 0
  /\ fresh = Thread

----------------------------------------------------------------------------------
(***************************************************************************)
(* Fixed point.  Division in C rounds towards zero.                        *)
(***************************************************************************)
Quotient(x, y) == IF x >= 0 THEN x \div y ELSE -((-x) \div y)

fixedpoint(n) == n * f
fixedpoint_to_integer(x) == Quotient(x, f)
fixedpoint_mul(x, y) == Quotient(x * y, f)
fixedpoint_div(x, y) == Quotient(x * f, y)
mix_div(x, n) == Quotient(x, n)

(***************************************************************************)
(* thread_recalc_priority, thread_recalc_recent_cpu and                    *)
(* thread_recalc_load_avg.                                                 *)
(***************************************************************************)
Clamped(p) == IF p < PRI_MIN THEN PRI_MIN ELSE IF p > PRI_MAX THEN PRI_MAX ELSE p

PriorityOf(cpu, n) ==
  Clamped(fixedpoint_to_integer(fixedpoint(PRI_MAX) - mix_div(cpu, 4) - fixedpoint(2 * n)))

Decayed(cpu, n, load) ==
  fixedpoint_mul(fixedpoint_div(2 * load, 2 * load + fixedpoint(1)), cpu) + fixedpoint(n)

ReadyThreads == Len(sched.ready) + (IF sched.cur = Idle THEN 0 ELSE 1)

LoadAvg ==
  mix_div((Window - 1) * load_avg, Window) + mix_div(fixedpoint(ReadyThreads), Window)

----------------------------------------------------------------------------------
\* Wrong on purpose: the time that the running thread takes is not counted.
NotCharged == recent_cpu

\* thread_inc_recent_cpu
Charged ==
  IF sched.cur = Idle THEN recent_cpu ELSE [recent_cpu EXCEPT ![sched.cur] = @ + fixedpoint(1)]

\* Wrong on purpose: only the running thread's priority is recalculated.
RepriorityOfCurrent(s, cpu) ==
  [s EXCEPT !.priority = [t \in AnyThread |-> IF t = Idle \/ t # s.cur THEN @[t]
                                              ELSE PriorityOf(cpu[t], nice[t])]]

\* thread_foreach (thread_recalc_priority)
Repriority(s, cpu) ==
  [s EXCEPT !.priority = [t \in AnyThread |-> IF t = Idle THEN @[t]
                                              ELSE PriorityOf(cpu[t], nice[t])]]

(***************************************************************************)
(* timer_interrupt, with nobody asleep on the alarm clock.                 *)
(***************************************************************************)
MlfqsInterrupt ==
  LET now == (ticks + 1) % TIMER_FREQ
      ticked == ThreadTick(sched)
  IN  /\ ticks' = now
      /\ load_avg' = IF now = 0 THEN LoadAvg ELSE load_avg
      /\ recent_cpu' = IF now = 0
                         THEN [t \in Thread |-> Decayed(Charged[t], nice[t], load_avg')]
                         ELSE Charged
      /\ LET due == now % THREAD_RECALC_PRIO = 0
             s == IF due THEN Repriority(ticked, recent_cpu') ELSE ticked
         IN  /\ sched' = IntrReturn(IntrPreemption(s))
             /\ fresh' = IF due THEN {} ELSE fresh
      /\ age' = IF age < Early THEN age + 1 ELSE age
      /\ UNCHANGED <<nice, changes>>

Change ==
  /\ age < Early /\ changes < Changes
  /\ changes' = changes + 1
  /\ UNCHANGED <<load_avg, ticks, age>>

\* It does not yield, whoever may now have the highest priority.
thread_set_nice(n) ==
  LET t == sched.cur
  IN  /\ t # Idle
      /\ Change
      /\ nice' = [nice EXCEPT ![t] = n]
      /\ sched' = [sched EXCEPT !.priority[t] = PriorityOf(recent_cpu[t], n)]
      /\ fresh' = fresh \ {t}
      /\ UNCHANGED recent_cpu

\* The running thread sleeps, and an interrupt handler wakes it.
MlfqsBlock ==
  /\ sched.cur # Idle
  /\ Change
  /\ sched' = ThreadBlock(sched)
  /\ UNCHANGED <<nice, recent_cpu, fresh>>

Unblock(t) ==
  /\ sched.status[t] = "BLOCKED"
  /\ age < Early
  /\ sched' = IntrReturn(IntrPreemption(ThreadUnblock(sched, t)))
  /\ UNCHANGED <<nice, recent_cpu, load_avg, ticks, changes, age, fresh>>

MlfqsNext ==
  \/ MlfqsInterrupt
  \/ \E n \in Nice : thread_set_nice(n)
  \/ MlfqsBlock
  \/ \E t \in Thread : Unblock(t)

MlfqsSpec == MlfqsInit /\ [][MlfqsNext]_mlfqsVars

\* The timer chip goes on interrupting.
FairMlfqsSpec == MlfqsSpec /\ []<><<MlfqsInterrupt>>_mlfqsVars

----------------------------------------------------------------------------------
(***************************************************************************)
(* Between two recalculations a priority is out of date by the ticks that  *)
(* its thread has run since, and by no more; threads that do not run keep  *)
(* theirs, though recent_cpu of all changes.                               *)
(***************************************************************************)
PriorityCurrent ==
  /\ MlfqsTypeOK
  /\ \A t \in Thread \ fresh : \E ran \in 0 .. ticks % THREAD_RECALC_PRIO :
       sched.priority[t] = PriorityOf(recent_cpu[t] - fixedpoint(ran), nice[t])
  /\ ReadyListExact(sched)
  /\ load_avg \in 0 .. fixedpoint(Cardinality(Thread))

(***************************************************************************)
(* Time that a thread has had counts against it and fades, so that every   *)
(* ready thread comes to run, although ready_list is not sorted again when *)
(* priorities change.                                                      *)
(***************************************************************************)
EveryThreadRuns ==
  \A t \in Thread : sched.status[t] = "READY" ~> sched.cur = t

(***************************************************************************)
(* A tick leaves the CPU to a thread of the highest priority.  The code    *)
(* does not keep this: thread_preemption and next_thread_to_run look at    *)
(* the front of ready_list, and recalculated priorities are not in order.  *)
(***************************************************************************)
HighestAfterTick ==
  [][MlfqsInterrupt =>
       \A t \in Thread : sched'.status[t] = "READY" =>
         sched'.priority[t] <= sched'.priority[sched'.cur]]_mlfqsVars

==================================================================================
