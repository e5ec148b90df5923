---------------------------- MODULE SchedulerSlice -----------------------------
(***************************************************************************)
(* Scheduler with a history variable that counts timer interrupts, to say  *)
(* what thread_ticks and TIME_SLICE of threads/thread.c amount to.         *)
(***************************************************************************)
EXTENDS Scheduler

VARIABLE elapsed   \* timer interrupts since thread_schedule_tail last ran

sliceVars == <<vars, elapsed>>

\* Only thread_schedule_tail leaves thread_ticks at zero.
SliceInit == Init /\ elapsed = 0

Count(n) == elapsed' = IF sched'.thread_ticks = 0 THEN 0 ELSE elapsed + n

SliceNext ==
  \/ (\E t \in Thread : ThreadStep(t)) /\ Count(0)
  \/ IdleBlock /\ Count(0)
  \/ TimerInterrupt /\ Count(1)
  \/ (\E t \in Thread : DeviceInterrupt(t)) /\ Count(0)

SliceSpec == SliceInit /\ [][SliceNext]_sliceVars

\* The timer chip goes on interrupting; nothing else need ever happen.
FairSliceSpec ==
  /\ SliceSpec
  /\ []<>sched.panic \/ []<><<TimerInterrupt /\ Count(1)>>_sliceVars

\* No thread gets more than TIME_SLICE ticks in a row: the tick that fills the
\* slice makes it yield (thread_tick, intr_handler), if only to itself.
SliceNotExceeded == elapsed < TIME_SLICE

\* "# of timer ticks to give each thread" (threads/thread.c, TIME_SLICE): the
\* timer takes the CPU from a thread for one of its own priority only after
\* that many ticks.
FullSlice ==
  [][ LET heir == sched'.cur
      IN  TimerInterrupt /\ heir # sched.cur
          /\ sched'.priority[heir] = sched'.priority[sched.cur]
            => elapsed + 1 >= TIME_SLICE ]_sliceVars

===============================================================================
