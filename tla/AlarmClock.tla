------------------------------ MODULE AlarmClock -------------------------------
(***************************************************************************)
(* timer_sleep and the part of timer_interrupt that wakes the sleepers     *)
(* (devices/timer.c).  timer_sleep finds its place in sleep_list, links    *)
(* itself in and blocks with interrupts on until just before it blocks, so *)
(* the timer may wake, or take the CPU from, a thread that is on its way;  *)
(* the handlers of other devices may take the CPU from it as well.         *)
(*                                                                         *)
(* Times are counted from now: left[t] is sleep_end - ticks, zero for a    *)
(* thread that does not sleep and Late at the least.                       *)
(***************************************************************************)
EXTENDS Threads

CONSTANTS
  MaxSleep,   \* bound: nobody sleeps for longer
  Late,       \* bound: no thread gets later than this, a negative number
  End         \* list_end (&sleep_list)

ASSUME AlarmClockAssumption ==
  MaxSleep \in Nat \ {0} /\ Late \in Int /\ Late < 0 /\ End \notin AnyThread

VARIABLES
  sleep_list,   \* front to back
  left,         \* ticks until sleep_end
  stage,        \* where each thread is: in timer_sleep, or blocked elsewhere
  before,       \* the element before which list_insert_ordered will insert
  tangled,      \* a struct thread's elem has been linked into two lists
  clean         \* history: no handler has disturbed a timer_sleep, see below

alarmVars == <<sched, sleep_list, left, stage, before, tangled, clean>>

AlarmTypeOK ==
  /\ sched \in SchedState
  /\ sleep_list \in Seq(Thread)
  /\ left \in [Thread -> Late .. MaxSleep]
  /\ stage \in [Thread -> {"run", "find", "link", "block", "wait"}]
  /\ before \in [Thread -> Thread \union {End}]
  /\ tangled \in BOOLEAN
  /\ clean \in BOOLEAN

AlarmInit ==
  /\ \E order \in { l \in [1 .. Cardinality(Thread \ {Main}) -> Thread \ {Main}] :
                      Distinct(l) },
        priority \in [Thread -> Priority] :
       /\ \A t \in Thread : priority[t] <= priority[Main]
       /\ sched = StartedSched(order, priority)
  /\ sleep_list = << >>
  /\ left = [t \in Thread |-> 0]
  /\ stage = [t \in Thread |-> "run"]
  /\ before = [t \in Thread |-> End]
  /\ tangled = FALSE
  /\ clean = TRUE

\* Once two lists share links, what the kernel does is not modelled.
Sound == ~sched.panic /\ ~tangled

SleeperAt(t, l) == Sound /\ sched.cur = t /\ stage[t] = l

SleeperGoto(t, l) == stage' = [stage EXCEPT ![t] = l]

Asleep == ToSet(sleep_list)

-------------------------------------------------------------------------------
(***************************************************************************)
(* timer_sleep                                                             *)
(***************************************************************************)
SleepStart(t, n) ==
  /\ SleeperAt(t, "run")
  /\ left' = [left EXCEPT ![t] = n]
  /\ SleeperGoto(t, "find")
  /\ UNCHANGED <<sched, sleep_list, before, tangled, clean>>

\* Wrong on purpose: the list is kept in the opposite order.
FoundPlaceReversed(t) ==
  LET i == InsertPosition(sleep_list, { e \in Asleep : left[t] > left[e] })
  IN  IF i > Len(sleep_list) THEN End ELSE sleep_list[i]

\* The loop of list_insert_ordered under THREAD_COMPARE_SLEEP_END.
FoundPlace(t) ==
  LET i == InsertPosition(sleep_list, { e \in Asleep : left[t] <= left[e] })
  IN  IF i > Len(sleep_list) THEN End ELSE sleep_list[i]

SleepFind(t) ==
  /\ SleeperAt(t, "find")
  /\ before' = [before EXCEPT ![t] = FoundPlace(t)]
  /\ SleeperGoto(t, "link")
  /\ UNCHANGED <<sched, sleep_list, left, tangled, clean>>

(***************************************************************************)
(* Its list_insert.  If the element found has been woken in the meantime,  *)
(* the thread links itself in wherever that element is now: into the ready *)
(* list, or between stale neighbours.                                      *)
(***************************************************************************)
SleepLink(t) ==
  /\ SleeperAt(t, "link")
  /\ \/ /\ before[t] = End
        /\ sleep_list' = Append(sleep_list, t)
        /\ UNCHANGED tangled
     \/ \E i \in DOMAIN sleep_list :
          /\ sleep_list[i] = before[t]
          /\ sleep_list' = InsertAt(sleep_list, i, t)
          /\ UNCHANGED tangled
     \/ /\ before[t] \notin Asleep \union {End}
        /\ tangled' = TRUE
        /\ UNCHANGED sleep_list
  /\ before' = [before EXCEPT ![t] = End]
  /\ SleeperGoto(t, "block")
  /\ UNCHANGED <<sched, left, clean>>

\* Wrong on purpose: timer_sleep returns at once.
SleepBlockNot(t) ==
  /\ SleeperAt(t, "block")
  /\ SleeperGoto(t, "run")
  /\ UNCHANGED <<sched, sleep_list, left, before, tangled, clean>>

SleepBlock(t) ==
  /\ SleeperAt(t, "block")
  /\ sched' = ThreadBlock(sched)
  /\ SleeperGoto(t, "run")
  /\ UNCHANGED <<sleep_list, left, before, tangled, clean>>

-------------------------------------------------------------------------------
(***************************************************************************)
(* timer_interrupt: one tick; the sleepers at the front that are due are   *)
(* woken one by one, up to the first that is not; then thread_preemption.  *)
(***************************************************************************)
\* Wrong on purpose: the loop wakes the front and goes home.
DueAtMostOne(list, l) ==
  IF list = << >> \/ l[Head(list)] > 0 THEN << >> ELSE <<Head(list)>>

\* Wrong on purpose: a sleeper whose time has passed is not due any more.
DueExactly(list, l) ==
  SubSeq(list, 1, CHOOSE n \in 0 .. Len(list) :
                    /\ \A i \in 1 .. n : l[list[i]] = 0
                    /\ n < Len(list) => l[list[n + 1]] # 0)

Due(list, l) ==
  SubSeq(list, 1, CHOOSE n \in 0 .. Len(list) :
                    /\ \A i \in 1 .. n : l[list[i]] <= 0
                    /\ n < Len(list) => l[list[n + 1]] > 0)

\* The loop of thread_unblock over the sleepers that are due.
Woken(s, due) ==
  LET after[n \in 0 .. Len(due)] ==
        IF n = 0 THEN s ELSE ThreadUnblock(after[n - 1], due[n])
  IN  after[Len(due)]

(***************************************************************************)
(* What a handler disturbs.  If it wakes sleepers, a search under way may  *)
(* stand on one of them and would go on in the ready list; if it takes the *)
(* CPU from a thread, that thread's elem goes into the ready list.  Either *)
(* may come between the stores of list_insert at "link".  From the search  *)
(* to thread_block timer_sleep should have had interrupts off.             *)
(***************************************************************************)
Searching == \E t \in Thread : stage[t] = "find"

Linking == \E t \in Thread : SleeperAt(t, "link")

InWindow == Linking \/ \E t \in Thread : SleeperAt(t, "block")

\* The handler returns to the thread it interrupted.
HandlerReturns(s, wakes) ==
  /\ sched' = s
  /\ tangled' \in BOOLEAN
  /\ tangled' => wakes /\ (Searching \/ Linking)
  /\ clean' = (clean /\ ~(wakes /\ (Searching \/ InWindow)))

\* The handler makes that thread yield; stillAsleep are those on sleep_list.
HandlerPreempts(s, stillAsleep, wakes) ==
  /\ sched' = ThreadYield(s)
  /\ tangled' \in BOOLEAN
  /\ sched.cur \in stillAsleep => tangled'
  /\ tangled' => \/ sched.cur \in stillAsleep \/ Linking
                 \/ wakes /\ Searching
  /\ clean' = (clean /\ ~InWindow /\ ~(wakes /\ Searching))

Ticked ==
  [t \in Thread |-> IF t \in Asleep \/ stage[t] \in {"find", "link"}
                      THEN Max({Late, left[t] - 1}) ELSE 0]

AlarmInterrupt ==
  /\ Sound
  /\ \E now \in {Ticked} : \E due \in {Due(sleep_list, now)} :
       LET rest == SubSeq(sleep_list, Len(due) + 1, Len(sleep_list))
       IN  /\ sleep_list' = rest
           /\ left' = [t \in Thread |-> IF t \in ToSet(due) THEN 0 ELSE now[t]]
           /\ \E woken \in {Woken(sched, due)} :
                \/ /\ woken.panic \/ ~Outranked(woken)
                   /\ HandlerReturns(woken, due # << >>)
                \/ /\ ~woken.panic
                   /\ HandlerPreempts(woken, ToSet(rest), due # << >>)
  /\ UNCHANGED <<stage, before>>

-------------------------------------------------------------------------------
(***************************************************************************)
(* The rest of the kernel: a thread blocks elsewhere, on a semaphore, and  *)
(* another thread or the handler of a device wakes it.                     *)
(***************************************************************************)
Await(t) ==
  /\ SleeperAt(t, "run")
  /\ sched' = ThreadBlock(sched)
  /\ SleeperGoto(t, "wait")
  /\ UNCHANGED <<sleep_list, left, before, tangled, clean>>

Elsewhere == { t \in Thread : stage[t] = "wait" }

\* thread_preemption may take the CPU in the handler of ide.c, also when a time
\* slice is over among equals; that of intq.c wakes its thread and leaves it.
DeviceYields(s) ==
  /\ s.ready # << >> /\ s.priority[s.cur] <= s.priority[Head(s.ready)]
  /\ HandlerPreempts(s, Asleep, FALSE)

AlarmDevice ==
  /\ Sound
  /\ \/ \E t \in Elsewhere : \E s \in {ThreadUnblock(sched, t)} :
          /\ SleeperGoto(t, "run")
          /\ HandlerReturns(s, FALSE) \/ DeviceYields(s)
     \/ UNCHANGED stage /\ DeviceYields(sched)
  /\ UNCHANGED <<sleep_list, left, before>>

\* The idle thread looks for work at the top of its loop.
AlarmIdleBlock ==
  /\ Sound
  /\ sched.cur = Idle
  /\ sched' = ThreadBlock(sched)
  /\ UNCHANGED <<sleep_list, left, stage, before, tangled, clean>>

SleepStep(t) ==
  \/ \E n \in 1 .. MaxSleep : SleepStart(t, n)
  \/ SleepFind(t)
  \/ SleepLink(t)
  \/ SleepBlock(t)
  \/ Await(t)

AlarmNext ==
  \/ \E t \in Thread : SleepStep(t)
  \/ AlarmInterrupt
  \/ AlarmDevice
  \/ AlarmIdleBlock

AlarmSpec == AlarmInit /\ [][AlarmNext]_alarmVars

(***************************************************************************)
(* The timer does not stop ticking while anybody sleeps: weak fairness of  *)
(* AlarmInterrupt with its ENABLED spelled out, as far as it is needed.    *)
(* A tick changes sleep_list or left whenever sleep_list is not empty.     *)
(***************************************************************************)
AnySleeper == Sound /\ sleep_list # << >>

AlarmTicks == []<>~AnySleeper \/ []<><<AlarmInterrupt>>_alarmVars

FairAlarmSpec == AlarmSpec /\ AlarmTicks

-------------------------------------------------------------------------------
(***************************************************************************)
(* Properties.                                                             *)
(***************************************************************************)

\* "only a thread in the ready state is on the run queue, whereas only a thread
\* in the blocked state is on a semaphore wait list" (threads/thread.h): no
\* struct thread's elem is ever linked into two lists.
ElemOnOneList == ~tangled

\* thread_unblock asserts that the thread is BLOCKED (threads/thread.c): the
\* timer wakes nobody who has yet to block.
WakesOnlyBlocked == ~sched.panic

\* list_insert_ordered needs a list that is sorted (lib/kernel/list.c):
\* sleep_list is, by the time at which its threads are to be woken.
SleepListSorted ==
  \A i, j \in DOMAIN sleep_list : i < j => left[sleep_list[i]] <= left[sleep_list[j]]

\* The threads that timer_sleep has blocked.
Sleepers == { t \in Thread : sched.status[t] = "BLOCKED" /\ stage[t] # "wait" }

\* Until the lists are tangled, sleep_list holds every thread that timer_sleep
\* has blocked once, and besides them only threads on their way into
\* thread_block: whoever gives the CPU away there can be found by the timer.
SleepersListed ==
  /\ AlarmTypeOK
  /\ Sound =>
       /\ OneRunning(sched) /\ ReadyListExact(sched) /\ ReadyListSorted(sched)
       /\ Distinct(sleep_list)
       /\ Asleep = Sleepers \union { t \in Thread : stage[t] = "block" }

\* Every sleeper is woken, however the insertions of others were interrupted
\* and whatever order they left sleep_list in.
SleepersWake ==
  \A t \in Thread : (Sound /\ t \in Sleepers) ~> (t \notin Sleepers \/ ~Sound)

\* Ticks and devices may interrupt timer_sleep anywhere.  As long as none has
\* woken a sleeper during a search or in the window behind it, nor taken the
\* CPU in that window, sleep_list is in order whoever else inserts, no elem is
\* in two lists and no assertion fails.
QuietWindow == clean => SleepListSorted /\ ElemOnOneList /\ WakesOnlyBlocked

\* As long as that is so, each tick wakes exactly the sleepers that are due:
\* none sleeps on behind another.
WokenOnTime ==
  [][ AlarmInterrupt /\ clean =>
        \A t \in Asleep : t \in ToSet(sleep_list') <=> left[t] > 1 ]_alarmVars

===============================================================================
