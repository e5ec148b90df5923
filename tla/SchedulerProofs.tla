--------------------------- MODULE SchedulerProofs ----------------------------
(***************************************************************************)
(* The scheduler and the two components that drive it from the timer, for  *)
(* any number of threads and priorities and any time slice: the safety of  *)
(* Scheduler and what a slice amounts to, then the sleepers of AlarmClock, *)
(* then the priorities of Mlfqs.                                           *)
(***************************************************************************)
EXTENDS SchedulerSlice, AlarmClock, Mlfqs, ThreadsProofs

(***************************************************************************)
(* The inductive invariant behind Consistent, Sorted, HighestRuns and      *)
(* NoHaltWithWork.  A thread that thread_create has made stays BLOCKED,    *)
(* and belongs to one creator, until it is unblocked; the walk of          *)
(* thread_set_priority has its answer at the front of the ready list.      *)
(***************************************************************************)
NewbornBlocked ==
  \A t \in Thread : pc[t] = "create_unblock" =>
    /\ local[t] \in Thread
    /\ sched.status[local[t]] = "BLOCKED"
    /\ \A u \in Thread : pc[u] = "create_unblock" /\ local[u] = local[t] => u = t

ScanSeesFront ==
  pc[sched.cur] = "scan" /\ Outranked(sched)
    => local[sched.cur] = Head(sched.ready)

IInv ==
  /\ TypeOK
  /\ Consistent
  /\ Sorted
  /\ HighestRuns
  /\ NoHaltWithWork
  /\ NewbornBlocked
  /\ ScanSeesFront

LEMMA SchedOKOfIInv ==
  ASSUME IInv
  PROVE  SchedOK(sched)
BY DEF IInv, TypeOK, Consistent, Sorted, SchedOK, ReadyOK

LEMMA InitIInv == Init => IInv
<1> SUFFICES ASSUME Init PROVE IInv
  OBVIOUS
<1> USE ThreadsAssumption DEF Init
<1>1. /\ Main \in AnyThread /\ Idle \in AnyThread /\ Thread \subseteq AnyThread
      /\ PRI_DEFAULT \in Priority /\ PRI_MIN \in Priority
  BY DEF AnyThread, Priority
<1> DEFINE status == [t \in AnyThread |-> CASE t = Main -> "RUNNING"
                                            [] t = Idle -> "READY"
                                            [] OTHER -> "FREE"]
           priority == [t \in AnyThread |-> IF t = Main THEN PRI_DEFAULT ELSE PRI_MIN]
<1>2. /\ status \in [AnyThread -> Status]
      /\ \A t \in AnyThread : status[t] = "RUNNING" <=> t = Main
      /\ \A t \in Thread : status[t] # "READY"
  BY <1>1 DEF Status
<1>3. priority \in [AnyThread -> Priority]
  BY <1>1
<1>4. sched = [cur |-> Main, status |-> status, priority |-> priority,
               ready |-> << >>, thread_ticks |-> 0, yield_on_return |-> FALSE,
               panic |-> FALSE]
  BY DEF InitialSched
<1> HIDE DEF status, priority
<1>5. << >> \in Seq(AnyThread)
  OBVIOUS
<1>6. sched \in SchedState
  BY <1>1, <1>2, <1>3, <1>4, <1>5 DEF SchedState
<1>7. sched.cur = Main /\ sched.status = status /\ sched.ready = << >>
  BY <1>4
<1>8. TypeOK
  BY <1>1, <1>6 DEF TypeOK, PC
<1>9. ToSet(sched.ready) = {} /\ Distinct(sched.ready)
  BY <1>7 DEF ToSet, Distinct
<1>10. Consistent /\ Sorted
  BY <1>2, <1>7, <1>9
     DEF Consistent, OneRunning, ReadyListExact, Sorted, ReadyListSorted,
         SortedByPriority
<1>11. ~Outranked(sched)
  BY <1>7 DEF Outranked
<1>12. NewbornBlocked
  BY <1>1 DEF NewbornBlocked
<1> QED
  BY <1>7, <1>8, <1>10, <1>11, <1>12
     DEF IInv, HighestRuns, NoHaltWithWork, ScanSeesFront

-------------------------------------------------------------------------------
(***************************************************************************)
(* Thread T leaves the window in which a created thread is its own, or was *)
(* not in it; nobody wakes a thread that is still to be unblocked.         *)
(***************************************************************************)
LEMMA NewbornKept ==
  ASSUME TypeOK, NewbornBlocked, NEW t \in AnyThread, NEW l \in PC,
         NEW x \in AnyThread, l # "create_unblock",
         pc' = [pc EXCEPT ![t] = l], local' = [local EXCEPT ![t] = x],
         \A u \in Thread : pc[u] = "create_unblock" /\ u # t
                             => sched'.status[local[u]] = "BLOCKED"
  PROVE  NewbornBlocked'
<1> SUFFICES ASSUME NEW u \in Thread, pc'[u] = "create_unblock"
             PROVE  /\ local'[u] \in Thread
                    /\ sched'.status[local'[u]] = "BLOCKED"
                    /\ \A v \in Thread : pc'[v] = "create_unblock"
                                           /\ local'[v] = local'[u] => v = u
  BY DEF NewbornBlocked
<1>1. \A v \in Thread : pc'[v] = "create_unblock" =>
        v # t /\ pc[v] = "create_unblock" /\ local'[v] = local[v]
  BY DEF TypeOK, AnyThread
<1> QED
  BY <1>1 DEF NewbornBlocked

\* A thread that is still to be unblocked does not run.
LEMMA NewbornsDoNotRun ==
  ASSUME IInv, NEW u \in Thread, pc[u] = "create_unblock"
  PROVE  local[u] \in Thread /\ local[u] # sched.cur
                             /\ sched.status[local[u]] = "BLOCKED"
BY DEF IInv, NewbornBlocked, Consistent, OneRunning, AnyThread

\* Any step whose scheduling part is Handled and that ends no creation.
LEMMA HandledStep ==
  ASSUME IInv, Handled(sched, sched'), TypeOK', NewbornBlocked',
         sched'.cur = Idle /\ pc'[Idle] = "idle_hlt" => sched'.ready = << >>
  PROVE  IInv'
BY DEF Handled, SchedOK, ReadyOK, IInv, Consistent, Sorted, HighestRuns,
       NoHaltWithWork, ScanSeesFront

LEMMA SwitchStep ==
  ASSUME IInv, NEW t \in AnyThread, sched.cur = t, Switched(sched, sched'),
         NEW l \in PC, l # "create_unblock", NEW x \in AnyThread,
         pc' = [pc EXCEPT ![t] = l], local' = [local EXCEPT ![t] = x]
  PROVE  IInv'
<1>1. Handled(sched, sched')
  BY SchedOKOfIInv, SwitchedHandled
<1>2. TypeOK'
  BY <1>1 DEF IInv, TypeOK, Handled, SchedOK, ReadyOK
<1>3. NewbornBlocked'
  BY <1>1, NewbornsDoNotRun, NewbornKept DEF IInv, Handled
<1>4. sched'.cur = Idle => sched'.ready = << >>
  BY DEF Switched
<1> QED
  BY <1>1, <1>2, <1>3, <1>4, HandledStep

LEMMA PreemptionStep ==
  ASSUME IInv, NEW t \in Thread, sched.cur = t, Handled(sched, sched'),
         NEW l \in PC, l # "create_unblock", NEW x \in AnyThread,
         pc' = [pc EXCEPT ![t] = l], local' = [local EXCEPT ![t] = x]
  PROVE  IInv'
<1>0. t \in AnyThread /\ t # Idle
  BY ThreadsAssumption DEF AnyThread
<1>2. TypeOK'
  BY <1>0 DEF IInv, TypeOK, Handled, SchedOK, ReadyOK
<1>3. NewbornBlocked'
  BY <1>0, NewbornsDoNotRun, NewbornKept DEF IInv, Handled
<1>4. sched'.cur = Idle => sched'.ready = << >>
  BY <1>0 DEF Handled
<1> QED
  BY <1>2, <1>3, <1>4, HandledStep

LEMMA StayingPut ==
  ASSUME TypeOK, NEW t \in AnyThread, pc[t] = "run", UNCHANGED <<pc, local>>
  PROVE  /\ pc' = [pc EXCEPT ![t] = "run"]
         /\ local' = [local EXCEPT ![t] = local[t]]
         /\ local[t] \in AnyThread /\ "run" \in PC
BY DEF TypeOK, PC

\* A step of T that touches no scheduler state.
LEMMA LocalStep ==
  ASSUME IInv, NEW t \in Thread, sched.cur = t, UNCHANGED sched,
         NEW l \in PC, l # "create_unblock", NEW x \in AnyThread,
         pc' = [pc EXCEPT ![t] = l], local' = [local EXCEPT ![t] = x],
         Outranked(sched) => l \in {"scan_begin", "scan", "scan_yield"},
         Outranked(sched) /\ l = "scan" => x = Head(sched.ready)
  PROVE  IInv'
<1>1. t \in AnyThread /\ t # Idle
  BY ThreadsAssumption DEF AnyThread
<1>2. TypeOK'
  BY <1>1 DEF IInv, TypeOK
<1>3. NewbornBlocked'
  BY <1>1, NewbornsDoNotRun, NewbornKept DEF IInv
<1>4. Consistent' /\ Sorted'
  BY DEF IInv, Consistent, Sorted
<1>5. pc'[t] = l /\ local'[t] = x
  BY <1>1 DEF IInv, TypeOK
<1>6. HighestRuns' /\ ScanSeesFront' /\ NoHaltWithWork'
  BY <1>1, <1>5 DEF HighestRuns, ScanSeesFront, NoHaltWithWork, Outranked
<1> QED
  BY <1>2, <1>3, <1>4, <1>6 DEF IInv

-------------------------------------------------------------------------------
(***************************************************************************)
(* Each action.                                                            *)
(***************************************************************************)
LEMMA YieldExitBlock ==
  ASSUME IInv, NEW t \in Thread, Yield(t) \/ Exit(t) \/ Block(t)
  PROVE  IInv'
<1>1. t \in AnyThread /\ sched.cur = t /\ pc[t] = "run" /\ UNCHANGED <<pc, local>>
  BY DEF Yield, Exit, Block, At, AnyThread
<1>2. Switched(sched, sched')
  BY SchedOKOfIInv, ThreadYieldSwitched, ThreadExitSwitched, ThreadBlockSwitched
     DEF Yield, Exit, Block
<1> QED
  BY <1>1, <1>2, StayingPut, SwitchStep DEF IInv

LEMMA ScanYieldStep ==
  ASSUME IInv, NEW t \in Thread, ScanYield(t)
  PROVE  IInv'
BY SchedOKOfIInv, ThreadYieldSwitched, SwitchStep
   DEF ScanYield, At, AnyThread, Goto, PC

LEMMA IdleBlockStep ==
  ASSUME IInv, IdleBlock
  PROVE  IInv'
BY SchedOKOfIInv, ThreadBlockSwitched, SwitchStep
   DEF IdleBlock, At, AnyThread, Goto, PC

LEMMA CreatePreemptStep ==
  ASSUME IInv, NEW t \in Thread, CreatePreempt(t)
  PROVE  IInv'
BY SchedOKOfIInv, ThreadPreemptionHandled, PreemptionStep
   DEF CreatePreempt, At, AnyThread, Goto, PC

LEMMA WakeStep ==
  ASSUME IInv, NEW t \in Thread, NEW u \in Thread, Wake(t, u)
  PROVE  IInv'
<1> DEFINE woken == ThreadUnblock(sched, u)
<1>1. /\ t \in AnyThread /\ sched.cur = t /\ pc[t] = "run"
      /\ u \in Sleeping /\ sched' = ThreadPreemption(woken)
      /\ UNCHANGED <<pc, local>>
  BY DEF Wake, At, AnyThread
<1>2. u \in AnyThread /\ sched.status[u] = "BLOCKED" /\ u \notin Newborn
  BY <1>1 DEF Sleeping, AnyThread
<1>3. /\ SchedOK(woken)
      /\ woken.cur = sched.cur /\ woken.priority = sched.priority
      /\ woken.panic = sched.panic
      /\ \A v \in AnyThread : v # u => woken.status[v] = sched.status[v]
  BY <1>2, SchedOKOfIInv, ThreadUnblockOK
<1> HIDE DEF woken
<1>4. Handled(woken, sched')
  BY <1>1, <1>3, ThreadPreemptionHandled
<1>5. TypeOK'
  BY <1>1, <1>4 DEF IInv, TypeOK, Handled, SchedOK, ReadyOK
<1>6. \A v \in Thread : pc[v] = "create_unblock" => sched'.status[local[v]] = "BLOCKED"
  <2> SUFFICES ASSUME NEW v \in Thread, pc[v] = "create_unblock"
               PROVE  sched'.status[local[v]] = "BLOCKED"
    OBVIOUS
  <2>1. local[v] \in Thread /\ local[v] # u /\ sched.status[local[v]] = "BLOCKED"
    BY <1>2, NewbornsDoNotRun DEF Newborn
  <2> QED
    BY <1>3, <1>4, <2>1 DEF Handled, AnyThread
<1>7. NewbornBlocked'
  BY <1>1, <1>6 DEF NewbornBlocked, IInv
<1>8. sched'.cur = Idle => sched'.ready = << >>
  BY <1>1, <1>3, <1>4, ThreadsAssumption DEF Handled
<1>9. ~Outranked(sched') /\ SchedOK(sched')
  BY <1>4 DEF Handled
<1> QED
  BY <1>5, <1>7, <1>8, <1>9
     DEF SchedOK, ReadyOK, IInv, Consistent, Sorted, HighestRuns, NoHaltWithWork,
         ScanSeesFront

LEMMA SetPriorityStep ==
  ASSUME IInv, NEW t \in Thread, NEW p \in Priority, SetPriority(t, p)
  PROVE  IInv'
<1> DEFINE u == [sched EXCEPT !.priority[t] = p]
<1>1. t \in AnyThread /\ t # Idle /\ sched.cur = t /\ sched' = u
      /\ Goto(t, "scan_begin")
  BY ThreadsAssumption DEF SetPriority, At, AnyThread
<1>2. t \notin ToSet(sched.ready)
  BY <1>1, SchedOKOfIInv DEF SchedOK, ReadyOK, ReadyListExact, OneRunning
<1>3. /\ SchedOK(u)
      /\ u.cur = t /\ u.status = sched.status /\ u.ready = sched.ready
  BY <1>1, <1>2, SchedOKOfIInv, SetPriorityOK
<1> HIDE DEF u
<1>4. TypeOK'
  BY <1>1, <1>3 DEF IInv, TypeOK, SchedOK, ReadyOK, Goto, PC
<1>5. NewbornBlocked'
  BY <1>1, <1>3, NewbornsDoNotRun, NewbornKept DEF IInv, Goto, PC
<1>6. pc'[t] = "scan_begin" /\ sched'.cur = t
  BY <1>1, <1>3 DEF IInv, TypeOK, Goto
<1> QED
  BY <1>1, <1>3, <1>4, <1>5, <1>6
     DEF SchedOK, ReadyOK, IInv, Consistent, Sorted, HighestRuns, NoHaltWithWork,
         ScanSeesFront

LEMMA FrontOfReadyList ==
  ASSUME SchedOK(sched), sched.ready # << >>
  PROVE  Head(sched.ready) \in AnyThread
BY DEF SchedOK, ReadyOK, SchedState

LEMMA ScanBeginStep ==
  ASSUME IInv, NEW t \in Thread, ScanBegin(t)
  PROVE  IInv'
<1>1. t \in AnyThread /\ sched.cur = t /\ UNCHANGED sched
  BY DEF ScanBegin, At, AnyThread
<1>2. CASE sched.ready = << >>
  BY <1>1, <1>2, LocalStep DEF ScanBegin, Goto, Outranked, PC
<1>3. CASE sched.ready # << >>
  <2>1. Head(sched.ready) \in AnyThread
    BY <1>3, SchedOKOfIInv, FrontOfReadyList
  <2> QED
    BY <1>1, <1>3, <2>1, LocalStep DEF ScanBegin, GotoWith, PC
<1> QED
  BY <1>2, <1>3

\* The walk stands on the front of the list if t is outranked, so that it finds
\* the thread to give way to at once.
LEMMA ScanLookStep ==
  ASSUME IInv, NEW t \in Thread, ScanLook(t)
  PROVE  IInv'
<1>1. /\ t \in AnyThread /\ sched.cur = t /\ pc[t] = "scan" /\ UNCHANGED sched
      /\ local[t] \in AnyThread
  BY DEF ScanLook, At, AnyThread, IInv, TypeOK
<1>2. Outranked(sched) => sched.priority[t] < sched.priority[local[t]]
  BY <1>1 DEF IInv, ScanSeesFront, Outranked
<1> QED
  BY <1>1, <1>2, LocalStep DEF ScanLook, GotoWith, PC

LEMMA ScanNextStep ==
  ASSUME IInv, NEW t \in Thread, ScanNext(t)
  PROVE  IInv'
<1>1. /\ t \in AnyThread /\ sched.cur = t /\ pc[t] = "scan_next"
      /\ UNCHANGED sched
  BY DEF ScanNext, At, AnyThread
<1>2. ~Outranked(sched)
  BY <1>1 DEF IInv, HighestRuns
<1>3. PICK i \in DOMAIN sched.ready :
        IF i = Len(sched.ready) THEN Goto(t, "run")
        ELSE GotoWith(t, "scan", sched.ready[i + 1])
  BY DEF ScanNext
<1>4. i # Len(sched.ready) => sched.ready[i + 1] \in AnyThread
  <2>1. sched.ready \in Seq(AnyThread) /\ i \in 1 .. Len(sched.ready)
        /\ Len(sched.ready) \in Nat
    BY LenProperties DEF IInv, TypeOK, SchedState
  <2> QED
    BY <2>1, ElementOfSeq
<1> QED
  BY <1>1, <1>2, <1>3, <1>4, LocalStep DEF Goto, GotoWith, PC

LEMMA PanicFields ==
  ASSUME NEW s \in SchedState
  PROVE  /\ Panic(s) \in SchedState
         /\ Panic(s).cur = s.cur /\ Panic(s).status = s.status
         /\ Panic(s).priority = s.priority /\ Panic(s).ready = s.ready
BY DEF Panic, SchedState

LEMMA ScanStaleStep ==
  ASSUME IInv, NEW t \in Thread, ScanStale(t)
  PROVE  IInv'
<1>1. t \in AnyThread /\ sched.cur = t
  BY DEF ScanStale, At, AnyThread
<1>2. CASE Goto(t, "scan_yield") /\ UNCHANGED sched
  BY <1>1, <1>2, LocalStep DEF Goto, PC
<1>3. CASE sched' = Panic(sched) /\ UNCHANGED <<pc, local>>
  <2>1. /\ sched' \in SchedState
        /\ sched'.cur = sched.cur /\ sched'.status = sched.status
        /\ sched'.priority = sched.priority /\ sched'.ready = sched.ready
    BY <1>3, PanicFields DEF IInv, TypeOK
  <2>2. TypeOK' /\ Consistent' /\ Sorted'
    BY <1>3, <2>1 DEF IInv, TypeOK, Consistent, OneRunning, ReadyListExact,
                      Sorted, ReadyListSorted
  <2>3. HighestRuns' /\ NoHaltWithWork' /\ NewbornBlocked' /\ ScanSeesFront'
    BY <1>3, <2>1 DEF IInv, HighestRuns, NoHaltWithWork, NewbornBlocked,
                      ScanSeesFront, Outranked
  <2> QED
    BY <2>2, <2>3 DEF IInv
<1>4. ASSUME NEW u \in Thread, GotoWith(t, "scan", u), UNCHANGED sched
      PROVE  IInv'
  <2>1. ~Outranked(sched)
    <3>1. CASE pc[t] = "scan_next"
      BY <1>1, <3>1 DEF IInv, HighestRuns
    <3>2. CASE pc[t] = "scan"
      <4>1. local[t] \notin ToSet(sched.ready) /\ sched.ready \in Seq(AnyThread)
        BY DEF ScanStale, OnReadyList, IInv, TypeOK, SchedState
      <4>2. sched.ready # << >> => Head(sched.ready) \in ToSet(sched.ready)
        BY <4>1, EmptySeq, LenProperties DEF ToSet
      <4> QED
        BY <1>1, <3>2, <4>1, <4>2 DEF IInv, ScanSeesFront, Outranked
    <3> QED
      BY <3>1, <3>2 DEF ScanStale, At
  <2> QED
    BY <1>1, <1>4, <2>1, LocalStep DEF GotoWith, PC, AnyThread
<1> QED
  BY <1>2, <1>3, <1>4 DEF ScanStale

LEMMA ThreadCreateStep ==
  ASSUME IInv, NEW t \in Thread, NEW child \in Thread, NEW p \in Priority,
         ThreadCreate(t, child, p)
  PROVE  IInv'
<1>1. /\ t \in AnyThread /\ child \in AnyThread /\ t # Idle
      /\ sched.cur = t /\ pc[t] = "run" /\ sched.status[child] = "FREE"
      /\ sched' = InitThread(sched, child, p)
      /\ pc' = [pc EXCEPT ![t] = "create_unblock"]
      /\ local' = [local EXCEPT ![t] = child]
  BY ThreadsAssumption DEF ThreadCreate, At, GotoWith, AnyThread
<1>2. /\ SchedOK(sched')
      /\ sched'.cur = t /\ sched'.ready = sched.ready
      /\ Outranked(sched') <=> Outranked(sched)
      /\ sched'.status[child] = "BLOCKED"
      /\ \A v \in AnyThread : v # child => sched'.status[v] = sched.status[v]
  BY <1>1, SchedOKOfIInv, InitThreadOK
<1>3. TypeOK'
  BY <1>1, <1>2 DEF IInv, TypeOK, SchedOK, ReadyOK, PC
<1>4. /\ pc'[t] = "create_unblock" /\ local'[t] = child
      /\ \A v \in Thread : v # t => pc'[v] = pc[v] /\ local'[v] = local[v]
  BY <1>1 DEF IInv, TypeOK, AnyThread
<1>5. \A v \in Thread : pc[v] = "create_unblock" =>
        local[v] \in Thread /\ local[v] # child /\ v # t
        /\ sched'.status[local[v]] = "BLOCKED"
  BY <1>1, <1>2, NewbornsDoNotRun DEF AnyThread
<1>6. NewbornBlocked'
  <2> SUFFICES ASSUME NEW u \in Thread, pc'[u] = "create_unblock"
               PROVE  /\ local'[u] \in Thread
                      /\ sched'.status[local'[u]] = "BLOCKED"
                      /\ \A v \in Thread : pc'[v] = "create_unblock"
                                             /\ local'[v] = local'[u] => v = u
    BY DEF NewbornBlocked
  <2>1. CASE u = t
    BY <2>1, <1>2, <1>4, <1>5
  <2>2. CASE u # t
    BY <2>2, <1>4, <1>5 DEF IInv, NewbornBlocked
  <2> QED
    BY <2>1, <2>2
<1>7. ~Outranked(sched)
  BY <1>1 DEF IInv, HighestRuns
<1>8. HighestRuns' /\ NoHaltWithWork' /\ ScanSeesFront'
  BY <1>1, <1>2, <1>7 DEF HighestRuns, NoHaltWithWork, ScanSeesFront
<1> QED
  BY <1>2, <1>3, <1>6, <1>8
     DEF IInv, SchedOK, ReadyOK, Consistent, Sorted

LEMMA CreateUnblockStep ==
  ASSUME IInv, NEW t \in Thread, CreateUnblock(t)
  PROVE  IInv'
<1>1. /\ t \in AnyThread /\ t # Idle /\ sched.cur = t /\ pc[t] = "create_unblock"
      /\ sched' = ThreadUnblock(sched, local[t])
      /\ pc' = [pc EXCEPT ![t] = "create_preempt"]
      /\ local' = [local EXCEPT ![t] = t]
  BY ThreadsAssumption DEF CreateUnblock, At, Goto, AnyThread
<1>2. local[t] \in Thread /\ sched.status[local[t]] = "BLOCKED"
  BY <1>1, NewbornsDoNotRun
<1>3. /\ SchedOK(sched') /\ sched'.cur = t
      /\ \A v \in AnyThread : v # local[t] => sched'.status[v] = sched.status[v]
  BY <1>1, <1>2, SchedOKOfIInv, ThreadUnblockOK
<1>4. TypeOK'
  BY <1>1, <1>3 DEF IInv, TypeOK, SchedOK, ReadyOK, PC
<1>5. \A u \in Thread : pc[u] = "create_unblock" /\ u # t
                          => sched'.status[local[u]] = "BLOCKED"
  <2> SUFFICES ASSUME NEW u \in Thread, pc[u] = "create_unblock", u # t
               PROVE  sched'.status[local[u]] = "BLOCKED"
    OBVIOUS
  <2>1. local[u] \in Thread /\ sched.status[local[u]] = "BLOCKED"
    BY NewbornsDoNotRun
  <2>2. local[u] # local[t]
    BY <1>1 DEF IInv, NewbornBlocked
  <2> QED
    BY <1>3, <2>1, <2>2 DEF AnyThread
<1>6. NewbornBlocked'
  BY <1>1, <1>5, NewbornKept DEF IInv, PC
<1>7. pc'[t] = "create_preempt"
  BY <1>1 DEF IInv, TypeOK
<1>8. HighestRuns' /\ NoHaltWithWork' /\ ScanSeesFront'
  BY <1>1, <1>3, <1>7 DEF HighestRuns, NoHaltWithWork, ScanSeesFront
<1> QED
  BY <1>3, <1>4, <1>6, <1>8
     DEF IInv, SchedOK, ReadyOK, Consistent, Sorted

\* An interrupt that may have woken u, so that the state of the threads is w
\* when its handler comes to thread_preemption.
LEMMA InterruptStep ==
  ASSUME IInv, LeaveHlt, NEW w, w.cur = sched.cur, NEW u, u \notin Newborn,
         \A v \in AnyThread : v # u => w.status[v] = sched.status[v],
         Handled(w, sched')
  PROVE  IInv'
<1>1. TypeOK'
  BY DEF IInv, TypeOK, Handled, SchedOK, ReadyOK, LeaveHlt, PC
<1>2. \A v \in Thread : pc'[v] = pc[v] /\ local'[v] = local[v]
  BY ThreadsAssumption DEF LeaveHlt, IInv, TypeOK, AnyThread
<1>3. ASSUME NEW v \in Thread, pc[v] = "create_unblock"
      PROVE  sched'.status[local[v]] = "BLOCKED"
  <2>1. local[v] \in Thread /\ local[v] # u /\ sched.status[local[v]] = "BLOCKED"
    BY <1>3, NewbornsDoNotRun DEF Newborn
  <2> QED
    BY <2>1 DEF Handled, AnyThread
<1>4. NewbornBlocked'
  BY <1>2, <1>3 DEF NewbornBlocked, IInv
<1>5. sched'.cur = Idle /\ pc'[Idle] = "idle_hlt" => sched'.ready = << >>
  BY DEF Handled, LeaveHlt, IInv, TypeOK, AnyThread
<1>6. ~Outranked(sched') /\ SchedOK(sched')
  BY DEF Handled
<1> QED
  BY <1>1, <1>4, <1>5, <1>6
     DEF SchedOK, ReadyOK, IInv, Consistent, Sorted, HighestRuns, NoHaltWithWork,
         ScanSeesFront

LEMMA TimerStep ==
  ASSUME IInv, TimerInterrupt
  PROVE  IInv'
<1>1. /\ ~sched.panic /\ LeaveHlt
      /\ sched' = IntrReturn(IntrPreemption(ThreadTick(sched)))
  BY DEF TimerInterrupt
<1>2. Handled(sched, sched')
  BY <1>1, SchedOKOfIInv, TimerHandled
<1>3. Idle \notin Newborn
  BY NewbornsDoNotRun, ThreadsAssumption DEF Newborn
<1> QED
  BY <1>1, <1>2, <1>3, InterruptStep

LEMMA DeviceStep ==
  ASSUME IInv, NEW u \in Thread, DeviceInterrupt(u)
  PROVE  IInv'
<1> DEFINE woken == ThreadUnblock(sched, u)
<1>1. /\ ~sched.panic /\ LeaveHlt /\ u \in Sleeping
      /\ sched' = IntrReturn(IntrPreemption(woken))
  BY DEF DeviceInterrupt
<1>2. u \in AnyThread /\ sched.status[u] = "BLOCKED" /\ u \notin Newborn
  BY <1>1 DEF Sleeping, AnyThread
<1>3. /\ SchedOK(woken)
      /\ woken.cur = sched.cur /\ woken.priority = sched.priority
      /\ woken.panic = sched.panic
      /\ \A v \in AnyThread : v # u => woken.status[v] = sched.status[v]
  BY <1>2, SchedOKOfIInv, ThreadUnblockOK
<1> HIDE DEF woken
<1>4. Handled(woken, sched')
  BY <1>1, <1>3, InterruptHandled
<1> QED
  BY <1>1, <1>2, <1>3, <1>4, InterruptStep

-------------------------------------------------------------------------------
(***************************************************************************)
(* The theorems.                                                           *)
(***************************************************************************)
LEMMA StepIInv == IInv /\ [Next]_vars => IInv'
<1> SUFFICES ASSUME IInv, [Next]_vars PROVE IInv'
  OBVIOUS
<1>1. ASSUME NEW t \in Thread, ThreadStep(t) PROVE IInv'
  BY <1>1, ThreadCreateStep, CreateUnblockStep, CreatePreemptStep, YieldExitBlock,
     WakeStep, SetPriorityStep, ScanBeginStep, ScanLookStep, ScanNextStep,
     ScanStaleStep, ScanYieldStep
     DEF ThreadStep
<1>2. CASE IdleBlock
  BY <1>2, IdleBlockStep
<1>3. CASE TimerInterrupt
  BY <1>3, TimerStep
<1>4. ASSUME NEW t \in Thread, DeviceInterrupt(t) PROVE IInv'
  BY <1>4, DeviceStep
<1>5. CASE UNCHANGED vars
  BY <1>5 DEF vars, IInv, TypeOK, Consistent, Sorted, HighestRuns, NoHaltWithWork,
              NewbornBlocked, ScanSeesFront
<1> QED
  BY <1>1, <1>2, <1>3, <1>4, <1>5 DEF Next

\* The conjunction is inductive: it holds initially and every step of a thread,
\* of the idle thread and of an interrupt keeps it.
THEOREM IInvHolds == Spec => []IInv
<1>1. Init => IInv
  BY InitIInv
<1>2. IInv /\ [Next]_vars => IInv'
  BY StepIInv
<1> QED
  BY <1>1, <1>2, PTL DEF Spec

\* Statuses, CPU and ready list agree whenever an interrupt can look at them
\* (thread_unblock, thread_yield, schedule of threads/thread.c).
THEOREM ConsistentHolds == Spec => []Consistent
<1>1. IInv => Consistent
  BY DEF IInv
<1> QED
  BY <1>1, IInvHolds, PTL

\* thread_unblock and thread_yield keep ready_list in the order in which
\* next_thread_to_run takes threads from it.
THEOREM SortedHolds == Spec => []Sorted
<1>1. IInv => Sorted
  BY DEF IInv
<1> QED
  BY <1>1, IInvHolds, PTL

\* Strict priority scheduling: outside the two windows of thread_create and
\* thread_set_priority no ready thread outranks the running one.
THEOREM HighestRunsHolds == Spec => []HighestRuns
<1>1. IInv => HighestRuns
  BY DEF IInv
<1> QED
  BY <1>1, IInvHolds, PTL

\* The "sti; hlt" of idle is reached and kept only with nothing to run.
THEOREM NoHaltWithWorkHolds == Spec => []NoHaltWithWork
<1>1. IInv => NoHaltWithWork
  BY DEF IInv
<1> QED
  BY <1>1, IInvHolds, PTL

-------------------------------------------------------------------------------
(***************************************************************************)
(* Time slices.  thread_ticks starts from zero with every schedule, and    *)
(* counts at least the timer interrupts since.                             *)
(***************************************************************************)
LEMMA ScheduleTicks ==
  ASSUME NEW s, "thread_ticks" \in DOMAIN s
  PROVE  Schedule(s).thread_ticks = 0
BY DEF Schedule

LEMMA RestateTicks ==
  ASSUME NEW s, "thread_ticks" \in DOMAIN s, NEW t, NEW st, NEW list
  PROVE  /\ "thread_ticks" \in DOMAIN Restate(s, t, st, list)
         /\ Restate(s, t, st, list).thread_ticks = s.thread_ticks
BY DEF Restate

\* Giving the CPU away starts a slice, and waking or making a thread does not.
LEMMA SwitchTicks ==
  ASSUME NEW s, "thread_ticks" \in DOMAIN s
  PROVE  /\ ThreadYield(s).thread_ticks = 0
         /\ ThreadBlock(s).thread_ticks = 0
         /\ ThreadExit(s).thread_ticks = 0
         /\ ThreadPreemption(s).thread_ticks \in {0, s.thread_ticks}
BY ScheduleTicks, RestateTicks DEF ThreadYield, ThreadBlock, ThreadExit, ThreadPreemption

LEMMA OtherTicks ==
  ASSUME NEW s, "thread_ticks" \in DOMAIN s, NEW t
  PROVE  /\ "thread_ticks" \in DOMAIN ThreadUnblock(s, t)
         /\ ThreadUnblock(s, t).thread_ticks = s.thread_ticks
         /\ Panic(s).thread_ticks = s.thread_ticks
         /\ \A p : InitThread(s, t, p).thread_ticks = s.thread_ticks
         /\ \A p : [s EXCEPT !.priority[t] = p].thread_ticks = s.thread_ticks
<1>1. /\ "thread_ticks" \in DOMAIN Panic(s) /\ Panic(s).thread_ticks = s.thread_ticks
      /\ \A p : [s EXCEPT !.priority[t] = p].thread_ticks = s.thread_ticks
  BY DEF Panic
<1>2. /\ "thread_ticks" \in DOMAIN ThreadUnblock(s, t)
      /\ ThreadUnblock(s, t).thread_ticks = s.thread_ticks
  BY <1>1, RestateTicks DEF ThreadUnblock
<1>3. ASSUME NEW p
      PROVE  InitThread(s, t, p).thread_ticks = s.thread_ticks
  <2> DEFINE u == Restate(s, t, "BLOCKED", s.ready)
  <2>1. "thread_ticks" \in DOMAIN u /\ u.thread_ticks = s.thread_ticks
    BY RestateTicks
  <2>2. InitThread(s, t, p) = [u EXCEPT !.priority[t] = p]
    BY DEF InitThread
  <2> HIDE DEF u
  <2> QED
    BY <2>1, <2>2
<1> QED
  BY <1>1, <1>2, <1>3

\* A step that is not the timer's starts a slice or takes nothing off it.
TicksKept == sched'.thread_ticks = 0 \/ sched'.thread_ticks >= sched.thread_ticks

LEMMA TickTicks ==
  ASSUME NEW s \in SchedState, NEW b, b \in BOOLEAN
  PROVE  /\ Tick(s, b).thread_ticks = s.thread_ticks + 1
         /\ Tick(s, b).yield_on_return = b
BY DEF Tick, SchedState

LEMMA IntrPreemptionTicks ==
  ASSUME NEW s, SchedOK(s)
  PROVE  LET r == IntrPreemption(s)
         IN  /\ r \in SchedState
             /\ r.thread_ticks >= s.thread_ticks
             /\ s.yield_on_return => r.yield_on_return
             /\ r.panic = s.panic
<1>1. s \in SchedState /\ s.thread_ticks \in Nat /\ s.yield_on_return \in BOOLEAN
  BY DEF SchedOK, ReadyOK, SchedState
<1>2. IntrPreemption(s) \in SchedState /\ IntrPreemption(s).panic = s.panic
  BY IntrPreemptionOK DEF SameThreads
<1>3. CASE s.ready = << >>
  BY <1>1, <1>2, <1>3 DEF IntrPreemption
<1>4. CASE s.ready # << >>
  <2> DEFINE b == \/ s.yield_on_return
                  \/ Outranked(s)
                  \/ /\ s.priority[s.cur] = s.priority[Head(s.ready)]
                     /\ s.thread_ticks + 1 >= TIME_SLICE
  <2>1. b \in BOOLEAN /\ (s.yield_on_return => b)
    BY <1>1
  <2>2. IntrPreemption(s) = Tick(s, b)
    BY <1>4, Zenon DEF IntrPreemption
  <2> HIDE DEF b
  <2>3. /\ Tick(s, b).thread_ticks = s.thread_ticks + 1
        /\ Tick(s, b).yield_on_return = b
    BY <1>1, <2>1, TickTicks
  <2>4. s.thread_ticks + 1 >= s.thread_ticks
    BY <1>1
  <2>5. IntrPreemption(s).thread_ticks >= s.thread_ticks
    BY <2>2, <2>3, <2>4
  <2>6. s.yield_on_return => IntrPreemption(s).yield_on_return
    BY <2>1, <2>2, <2>3
  <2> QED
    BY <1>2, <2>5, <2>6
<1> QED
  BY <1>3, <1>4

LEMMA IntrReturnTicks ==
  ASSUME NEW s \in SchedState
  PROVE  IntrReturn(s).thread_ticks =
           IF s.yield_on_return /\ ~s.panic THEN 0 ELSE s.thread_ticks
<1> DEFINE done == [s EXCEPT !.yield_on_return = FALSE]
<1>1. "thread_ticks" \in DOMAIN done /\ done.thread_ticks = s.thread_ticks
  BY DEF SchedState
<1>2. IntrReturn(s) = IF s.yield_on_return /\ ~s.panic THEN ThreadYield(done) ELSE done
  BY DEF IntrReturn
<1> HIDE DEF done
<1> QED
  BY <1>1, <1>2, SwitchTicks

LEMMA ThreadStepTicks ==
  ASSUME IInv, NEW t \in Thread, ThreadStep(t)
  PROVE  TicksKept
<1>1. "thread_ticks" \in DOMAIN sched /\ sched.thread_ticks \in Nat
  BY DEF IInv, TypeOK, SchedState
<1>2. CASE Yield(t) \/ Exit(t) \/ Block(t) \/ ScanYield(t)
  BY <1>1, <1>2, SwitchTicks DEF Yield, Exit, Block, ScanYield, TicksKept
<1>3. CASE CreatePreempt(t)
  BY <1>1, <1>3, SwitchTicks DEF CreatePreempt, TicksKept
<1>4. ASSUME NEW u \in Thread, Wake(t, u) PROVE TicksKept
  BY <1>1, <1>4, SwitchTicks, OtherTicks DEF Wake, TicksKept
<1>5. ASSUME NEW u \in Thread, NEW p \in Priority, ThreadCreate(t, u, p) PROVE TicksKept
  BY <1>1, <1>5, OtherTicks DEF ThreadCreate, TicksKept
<1>6. CASE CreateUnblock(t)
  BY <1>1, <1>6, OtherTicks DEF CreateUnblock, TicksKept
<1>7. ASSUME NEW p \in Priority, SetPriority(t, p) PROVE TicksKept
  BY <1>1, <1>7, OtherTicks DEF SetPriority, TicksKept
<1>8. CASE ScanStale(t)
  BY <1>1, <1>8, OtherTicks DEF ScanStale, TicksKept
<1>9. CASE ScanBegin(t) \/ ScanLook(t) \/ ScanNext(t)
  BY <1>1, <1>9 DEF ScanBegin, ScanLook, ScanNext, TicksKept
<1> QED
  BY <1>2, <1>3, <1>4, <1>5, <1>6, <1>7, <1>8, <1>9 DEF ThreadStep

LEMMA DeviceTicks ==
  ASSUME IInv, NEW u \in Thread, DeviceInterrupt(u)
  PROVE  TicksKept
<1> DEFINE woken == ThreadUnblock(sched, u)
<1>1. u \in Sleeping /\ sched' = IntrReturn(IntrPreemption(woken))
  BY DEF DeviceInterrupt
<1>2. sched.status[u] = "BLOCKED"
  BY <1>1 DEF Sleeping
<1>3. SchedOK(woken)
  BY <1>2, SchedOKOfIInv, ThreadUnblockOK
<1>4. woken.thread_ticks = sched.thread_ticks
  BY OtherTicks DEF IInv, TypeOK, SchedState
<1> HIDE DEF woken
<1> QED
  BY <1>1, <1>3, <1>4, IntrPreemptionTicks, IntrReturnTicks DEF TicksKept

\* The tick that would be one too many makes the thread yield.
LEMMA TimerTicks ==
  ASSUME IInv, TimerInterrupt
  PROVE  \/ sched'.thread_ticks = 0
         \/ /\ sched'.thread_ticks >= sched.thread_ticks + 1
            /\ sched.thread_ticks + 1 < TIME_SLICE
<1> DEFINE b == sched.yield_on_return \/ sched.thread_ticks + 1 >= TIME_SLICE
           ticked == ThreadTick(sched)
           asked == IntrPreemption(ticked)
<1>1. /\ ~sched.panic /\ sched' = IntrReturn(asked)
      /\ sched \in SchedState /\ sched.thread_ticks \in Nat /\ TIME_SLICE \in Nat
      /\ b \in BOOLEAN
  BY ThreadsAssumption DEF TimerInterrupt, IInv, TypeOK, SchedState
<1>2. ticked = Tick(sched, b)
  BY Zenon DEF ThreadTick
<1>3. SchedOK(ticked) /\ ticked.panic = sched.panic
  BY SchedOKOfIInv, ThreadTickOK, SameThreadsOK DEF SameThreads
<1> HIDE DEF b
<1>4. ticked.thread_ticks = sched.thread_ticks + 1 /\ ticked.yield_on_return = b
  BY <1>1, <1>2, TickTicks
<1> HIDE DEF ticked
<1>5. /\ asked \in SchedState /\ asked.panic = sched.panic
      /\ asked.thread_ticks >= sched.thread_ticks + 1
      /\ b => asked.yield_on_return
  BY <1>3, <1>4, IntrPreemptionTicks
<1> HIDE DEF asked
<1>6. CASE asked.yield_on_return
  BY <1>1, <1>5, <1>6, IntrReturnTicks
<1>7. CASE ~asked.yield_on_return
  <2>1. sched'.thread_ticks = asked.thread_ticks
    BY <1>1, <1>5, <1>7, IntrReturnTicks
  <2>2. sched.thread_ticks + 1 < TIME_SLICE
    BY <1>1, <1>5, <1>7 DEF b
  <2> QED
    BY <1>5, <2>1, <2>2
<1> QED
  BY <1>6, <1>7

SliceInv ==
  /\ IInv
  /\ elapsed \in Nat /\ elapsed <= sched.thread_ticks
  /\ SliceNotExceeded

\* No thread gets more than TIME_SLICE ticks in a row, whatever the devices and
\* the other threads do (thread_tick, intr_handler).
THEOREM SliceBounded == SliceSpec => []SliceNotExceeded
<1>1. SliceInit => SliceInv
  <2> SUFFICES ASSUME SliceInit PROVE SliceInv
    OBVIOUS
  <2>1. IInv /\ elapsed = 0
    BY InitIInv DEF SliceInit
  <2>2. sched.thread_ticks \in Nat /\ 0 < TIME_SLICE
    BY <2>1, ThreadsAssumption DEF IInv, TypeOK, SchedState
  <2> QED
    BY <2>1, <2>2 DEF SliceInv, SliceNotExceeded
<1>2. SliceInv /\ [SliceNext]_sliceVars => SliceInv'
  <2> SUFFICES ASSUME SliceInv, [SliceNext]_sliceVars PROVE SliceInv'
    OBVIOUS
  <2>1. IInv'
    BY StepIInv DEF SliceInv, SliceNext, sliceVars, Next
  <2>2. sched.thread_ticks \in Nat /\ sched'.thread_ticks \in Nat /\ TIME_SLICE \in Nat \ {0}
    BY <2>1, ThreadsAssumption DEF SliceInv, IInv, TypeOK, SchedState
  <2>3. CASE TicksKept /\ Count(0)
    BY <2>1, <2>2, <2>3 DEF SliceInv, SliceNotExceeded, TicksKept, Count
  <2>4. CASE TimerInterrupt /\ Count(1)
    <3>1. \/ sched'.thread_ticks = 0
          \/ /\ sched'.thread_ticks >= sched.thread_ticks + 1
             /\ sched.thread_ticks + 1 < TIME_SLICE
      BY <2>4, TimerTicks DEF SliceInv
    <3>2. elapsed' = IF sched'.thread_ticks = 0 THEN 0 ELSE elapsed + 1
      BY <2>4 DEF Count
    <3> QED
      BY <2>1, <2>2, <3>1, <3>2 DEF SliceInv, SliceNotExceeded
  <2>5. CASE UNCHANGED sliceVars
    BY <2>1, <2>5 DEF SliceInv, SliceNotExceeded, sliceVars, vars
  <2>6. CASE IdleBlock /\ Count(0)
    <3>1. TicksKept
      BY <2>6, SwitchTicks DEF IdleBlock, TicksKept, SliceInv, IInv, TypeOK, SchedState
    <3> QED
      BY <2>3, <2>6, <3>1
  <2>7. ASSUME NEW t \in Thread, ThreadStep(t), Count(0) PROVE SliceInv'
    BY <2>3, <2>7, ThreadStepTicks DEF SliceInv
  <2>8. ASSUME NEW t \in Thread, DeviceInterrupt(t), Count(0) PROVE SliceInv'
    BY <2>3, <2>8, DeviceTicks DEF SliceInv
  <2> QED
    BY <2>4, <2>5, <2>6, <2>7, <2>8 DEF SliceNext
<1>3. SliceInv => SliceNotExceeded
  BY DEF SliceInv
<1> QED
  BY <1>1, <1>2, <1>3, PTL DEF SliceSpec

-------------------------------------------------------------------------------
(***************************************************************************)
(* The alarm clock.                                                        *)
(***************************************************************************)

(***************************************************************************)
(* The inductive invariant behind SleepersListed, QuietWindow and          *)
(* WokenOnTime.  As long as no handler has disturbed a timer_sleep,        *)
(* whoever is in its window has the CPU, and the place it has found is     *)
(* still the right one.                                                    *)
(***************************************************************************)
AlarmConsistent ==
  /\ SchedOK(sched)
  /\ Distinct(sleep_list)
  /\ Asleep = Sleepers \union { t \in Thread : stage[t] = "block" }
  /\ \A t \in Thread : /\ sched.status[t] = "BLOCKED" => stage[t] \in {"run", "wait"}
                       /\ stage[t] = "wait" => sched.status[t] = "BLOCKED"

AlarmQuiet ==
  /\ Sound
  /\ SleepListSorted
  /\ \A t \in Thread : stage[t] \in {"link", "block"} => t = sched.cur
  /\ \A t \in Thread : stage[t] = "link" => before[t] = FoundPlace(t)

AlarmIInv == AlarmTypeOK /\ (Sound => AlarmConsistent) /\ (clean => AlarmQuiet)


LEMMA MaxOfTwo ==
  ASSUME NEW a \in Int, NEW b \in Int
  PROVE  /\ Max({a, b}) \in {a, b}
         /\ Max({a, b}) >= a /\ Max({a, b}) >= b
<1>1. \E x \in {a, b} : \A y \in {a, b} : x >= y
  <2>1. a >= b \/ b >= a
    OBVIOUS
  <2> QED
    BY <2>1
<1>2. Max({a, b}) = CHOOSE x \in {a, b} : \A y \in {a, b} : x >= y
  BY DEF Max
<1> HIDE DEF Max
<1> QED
  BY <1>1, <1>2

\* The loop of timer_interrupt stops: those it wakes are the longest part of
\* the front of the list in which everybody is due.
LEMMA DueIs ==
  ASSUME NEW list \in Seq(Thread), NEW l \in [Thread -> Int]
  PROVE  \E n \in 0 .. Len(list) :
           /\ Due(list, l) = SubSeq(list, 1, n)
           /\ \A i \in 1 .. n : l[list[i]] <= 0
           /\ n < Len(list) => l[list[n + 1]] > 0
<1> DEFINE N == { k \in 0 .. Len(list) : k < Len(list) => l[list[k + 1]] > 0 }
           IsEnd(n) == /\ \A i \in 1 .. n : l[list[i]] <= 0
                       /\ n < Len(list) => l[list[n + 1]] > 0
<1>1. Len(list) \in Nat /\ \A i \in 1 .. Len(list) : list[i] \in Thread
  BY LenProperties, ElementOfSeq
<1>2. N \in SUBSET Nat /\ Len(list) \in N
  BY <1>1
<1>3. PICK m \in N : \A k \in N : m <= k
  BY <1>2, LeastNat
<1>4. \A i \in 1 .. m : l[list[i]] <= 0
  <2> SUFFICES ASSUME NEW i \in 1 .. m, ~(l[list[i]] <= 0)
               PROVE  FALSE
    OBVIOUS
  <2>1. i \in 1 .. Len(list) /\ l[list[i]] \in Int
    BY <1>1, <1>3
  <2>2. l[list[(i - 1) + 1]] > 0
    BY <2>1
  <2>3. i - 1 \in N
    BY <1>1, <2>1, <2>2
  <2> HIDE DEF N
  <2>4. m \in Nat /\ m <= i - 1
    BY <1>2, <1>3, <2>3
  <2> QED
    BY <2>4
<1>5. \E n \in 0 .. Len(list) : IsEnd(n)
  BY <1>3, <1>4
<1> DEFINE c == CHOOSE n \in 0 .. Len(list) : IsEnd(n)
<1>6. c \in 0 .. Len(list) /\ IsEnd(c)
  BY <1>5
<1>7. Due(list, l) = SubSeq(list, 1, c)
  BY DEF Due
<1> HIDE DEF c
<1> QED
  BY <1>6, <1>7

LEMMA SubSeqToEnd ==
  ASSUME NEW S, NEW list \in Seq(S), NEW m \in Nat \ {0}, m <= Len(list) + 1
  PROVE  LET rest == SubSeq(list, m, Len(list))
         IN  /\ rest \in Seq(S) /\ Len(rest) = Len(list) - m + 1
             /\ \A i \in 1 .. Len(list) - m + 1 : rest[i] = list[m + i - 1]
<1>1. Len(list) \in Nat /\ \A i \in 1 .. Len(list) : list[i] \in S
  BY LenProperties, ElementOfSeq
<1>2. \A i \in m .. Len(list) : list[i] \in S
  BY <1>1
<1>3. IF m <= Len(list) THEN TRUE ELSE Len(list) - m + 1 = 0
  BY <1>1
<1> QED
  BY <1>1, <1>2, <1>3, SubSeqProperties

\* A list taken apart at N.
LEMMA SplitAt ==
  ASSUME NEW S, NEW list \in Seq(S), NEW n \in 0 .. Len(list)
  PROVE  LET front == SubSeq(list, 1, n)
             rest == SubSeq(list, Len(front) + 1, Len(list))
         IN  /\ front \in Seq(S) /\ Len(front) = n
             /\ \A i \in 1 .. n : front[i] = list[i]
             /\ rest \in Seq(S) /\ Len(rest) = Len(list) - n
             /\ \A i \in 1 .. Len(list) - n : rest[i] = list[n + i]
             /\ ToSet(list) = ToSet(front) \union ToSet(rest)
             /\ Distinct(list) => /\ Distinct(front) /\ Distinct(rest)
                                  /\ ToSet(front) \intersect ToSet(rest) = {}
<1> DEFINE front == SubSeq(list, 1, n)
           rest == SubSeq(list, Len(front) + 1, Len(list))
<1>1. /\ Len(list) \in Nat /\ DOMAIN list = 1 .. Len(list)
      /\ \A i \in 1 .. Len(list) : list[i] \in S
  BY LenProperties, ElementOfSeq
<1>2. /\ front \in Seq(S) /\ Len(front) = n
      /\ \A i \in 1 .. n : front[i] = list[i]
  BY <1>1
<1> HIDE DEF front
<1>3. /\ rest \in Seq(S) /\ Len(rest) = Len(list) - n
      /\ \A i \in 1 .. Len(list) - n : rest[i] = list[n + i]
  <2> DEFINE m == n + 1
  <2>1. rest = SubSeq(list, m, Len(list)) /\ m \in Nat \ {0} /\ m <= Len(list) + 1
    BY <1>1, <1>2
  <2>2. Len(list) - m + 1 = Len(list) - n
    BY <1>1
  <2>3. \A i \in 1 .. Len(list) - n : m + i - 1 = n + i
    BY <1>1
  <2> HIDE DEF m, rest
  <2>4. /\ rest \in Seq(S) /\ Len(rest) = Len(list) - m + 1
        /\ \A i \in 1 .. Len(list) - m + 1 : rest[i] = list[m + i - 1]
    BY <2>1, SubSeqToEnd
  <2> QED
    BY <2>2, <2>3, <2>4
<1> HIDE DEF rest
<1>4. DOMAIN front = 1 .. n /\ DOMAIN rest = 1 .. Len(list) - n
  BY <1>1, <1>2, <1>3, LenProperties
<1>5. /\ ToSet(list) = { list[i] : i \in 1 .. Len(list) }
      /\ ToSet(front) = { front[i] : i \in 1 .. n }
      /\ ToSet(rest) = { rest[i] : i \in 1 .. Len(list) - n }
  BY <1>1, <1>4 DEF ToSet
<1>6. ASSUME NEW i \in 1 .. Len(list)
      PROVE  list[i] \in ToSet(front) \union ToSet(rest)
  <2>1. CASE i <= n
    <3>1. i \in 1 .. n
      BY <2>1
    <3> QED
      BY <3>1, <1>2, <1>5
  <2>2. CASE i > n
    <3>1. i - n \in 1 .. Len(list) - n /\ n + (i - n) = i
      BY <1>1, <2>2
    <3> QED
      BY <3>1, <1>3, <1>5
  <2> QED
    BY <2>1, <2>2, <1>1
<1>7. \A i \in 1 .. n : i \in 1 .. Len(list) /\ front[i] = list[i]
  BY <1>1, <1>2
<1>8. \A i \in 1 .. Len(list) - n : n + i \in 1 .. Len(list) /\ rest[i] = list[n + i]
  BY <1>1, <1>3
<1>9. ToSet(list) = ToSet(front) \union ToSet(rest)
  BY <1>5, <1>6, <1>7, <1>8
<1>10. ASSUME Distinct(list)
       PROVE  /\ Distinct(front) /\ Distinct(rest)
              /\ ToSet(front) \intersect ToSet(rest) = {}
  <2>1. \A i, j \in 1 .. Len(list) : list[i] = list[j] => i = j
    BY <1>1, <1>10 DEF Distinct
  <2>2. Distinct(front)
    BY <2>1, <1>4, <1>7 DEF Distinct
  <2>3. Distinct(rest)
    <3> SUFFICES ASSUME NEW i \in 1 .. Len(list) - n, NEW j \in 1 .. Len(list) - n,
                        rest[i] = rest[j]
                 PROVE  i = j
      BY <1>4 DEF Distinct
    <3>1. n + i = n + j
      BY <2>1, <1>8
    <3> QED
      BY <3>1, <1>1
  <2>4. \A i \in 1 .. n, j \in 1 .. Len(list) - n : front[i] # rest[j]
    <3> SUFFICES ASSUME NEW i \in 1 .. n, NEW j \in 1 .. Len(list) - n,
                        front[i] = rest[j]
                 PROVE  FALSE
      OBVIOUS
    <3>1. i = n + j
      BY <2>1, <1>7, <1>8
    <3> QED
      BY <3>1, <1>1
  <2> QED
    BY <2>2, <2>3, <2>4, <1>5
<1> QED
  BY <1>2, <1>3, <1>9, <1>10 DEF front, rest

-------------------------------------------------------------------------------
(***************************************************************************)
(* The loop that wakes them.                                               *)
(***************************************************************************)
IsLoop(G, s, due, N) ==
  G = [n \in 0 .. N |-> IF n = 0 THEN s ELSE ThreadUnblock(G[n - 1], due[n])]

\* The recursion of Woken has a solution: a shortest list without one would
\* have one that continues the solution for the list without its last element.
LEMMA LoopExists ==
  ASSUME NEW s, NEW due, NEW N \in Nat
  PROVE  \E G : IsLoop(G, s, due, N)
<1> DEFINE Bad == { n \in Nat : ~\E G : IsLoop(G, s, due, n) }
<1> SUFFICES ASSUME N \in Bad
             PROVE  FALSE
  OBVIOUS
<1>1. PICK m \in Bad : \A k \in Bad : m <= k
  BY LeastNat
<1>2. CASE m = 0
  <2>1. IsLoop([n \in 0 .. 0 |-> s], s, due, 0)
    BY DEF IsLoop
  <2> QED
    BY <1>1, <1>2, <2>1
<1>3. CASE m # 0
  <2>1. m - 1 \in Nat /\ m - 1 \notin Bad
    BY <1>1, <1>3
  <2>2. PICK F : IsLoop(F, s, due, m - 1)
    BY <2>1
  <2> DEFINE G == [n \in 0 .. m |-> IF n = 0 THEN s ELSE ThreadUnblock(F[n - 1], due[n])]
  <2>3. \A n \in 0 .. m - 1 :
          F[n] = IF n = 0 THEN s ELSE ThreadUnblock(F[n - 1], due[n])
    BY <2>2 DEF IsLoop
  <2>4. \A n \in 0 .. m - 1 : G[n] = F[n]
    BY <2>3, <1>1
  <2>5. \A n \in 0 .. m : n # 0 => G[n - 1] = F[n - 1]
    BY <2>4, <1>1
  <2>6. \A n \in 0 .. m : G[n] = IF n = 0 THEN s ELSE ThreadUnblock(G[n - 1], due[n])
    BY <2>5
  <2>7. G = [n \in 0 .. m |-> G[n]]
    OBVIOUS
  <2> HIDE DEF G
  <2>8. IsLoop(G, s, due, m)
    BY <2>6, <2>7, Zenon DEF IsLoop
  <2> QED
    BY <1>1, <2>8
<1> QED
  BY <1>2, <1>3

LEMMA WokenLoops ==
  ASSUME NEW s, NEW due \in Seq(Thread)
  PROVE  \E G : IsLoop(G, s, due, Len(due)) /\ Woken(s, due) = G[Len(due)]
<1>1. Len(due) \in Nat
  BY LenProperties
<1>2. \E G : IsLoop(G, s, due, Len(due))
  BY <1>1, LoopExists
<1> DEFINE A == CHOOSE G : IsLoop(G, s, due, Len(due))
<1>3. IsLoop(A, s, due, Len(due))
  BY <1>2
<1>4. Woken(s, due) = A[Len(due)]
  BY Zenon DEF Woken, IsLoop
<1> HIDE DEF A
<1> QED
  BY <1>3, <1>4

\* Waking the sleepers keeps the threads' state in order, whether or not an
\* assertion fails on the way.  If none does, all of them were BLOCKED and are
\* so no longer.
LEMMA WokenOK ==
  ASSUME NEW s, SchedOK(s), NEW due \in Seq(Thread)
  PROVE  LET r == Woken(s, due)
         IN  /\ SchedOK(r) /\ r.cur = s.cur
             /\ ~r.panic => ~s.panic /\ ToSet(due) \subseteq Blocked(s)
                              /\ Blocked(r) = Blocked(s) \ ToSet(due)
             /\ ~s.panic /\ Distinct(due) /\ ToSet(due) \subseteq Blocked(s) => ~r.panic
<1> DEFINE D == Len(due)
           Done(n) == { due[i] : i \in 1 .. n }
<1>1. /\ D \in Nat /\ DOMAIN due = 1 .. D /\ ToSet(due) = Done(D)
      /\ \A i \in 1 .. D : due[i] \in Thread
  BY LenProperties, ElementOfSeq DEF ToSet
<1>2. PICK G : IsLoop(G, s, due, D) /\ Woken(s, due) = G[D]
  BY WokenLoops
<1>3. \A n \in 0 .. D : G[n] = IF n = 0 THEN s ELSE ThreadUnblock(G[n - 1], due[n])
  BY <1>2 DEF IsLoop
<1> HIDE DEF D
<1> DEFINE Good(n) ==
             /\ SchedOK(G[n]) /\ G[n].cur = s.cur
             /\ ~G[n].panic => ~s.panic /\ Done(n) \subseteq Blocked(s)
                                 /\ Blocked(G[n]) = Blocked(s) \ Done(n)
             /\ ~s.panic /\ Distinct(due) /\ ToSet(due) \subseteq Blocked(s)
                  => ~G[n].panic
           Bad == { n \in 0 .. D : ~Good(n) }
<1>4. Good(0)
  <2>1. 0 \in 0 .. D
    BY <1>1
  <2>2. G[0] = s
    BY <1>3, <2>1
  <2>3. Done(0) = {}
    OBVIOUS
  <2> QED
    BY <2>2, <2>3
<1>5. ASSUME NEW n \in 1 .. D, Good(n - 1)
      PROVE  Good(n)
  <2> DEFINE u == G[n - 1]
             t == due[n]
  <2>1. n \in 0 .. D /\ n # 0 /\ t \in Thread
    BY <1>1
  <2>2. G[n] = ThreadUnblock(u, t)
    BY <1>3, <2>1
  <2>3. Done(n) = Done(n - 1) \union {t}
    <3>1. \A i \in 1 .. n : i = n \/ i \in 1 .. n - 1
      BY <1>1
    <3>2. \A i \in 1 .. n - 1 : i \in 1 .. n
      BY <1>1
    <3>3. n \in 1 .. n
      BY <1>1
    <3> QED
      BY <3>1, <3>2, <3>3
  <2>4. Done(n - 1) \subseteq Done(D) /\ t \in Done(D)
    BY <1>1, <2>1
  <2>5. Distinct(due) => t \notin Done(n - 1)
    <3> SUFFICES ASSUME Distinct(due), NEW i \in 1 .. n - 1, t = due[i]
                 PROVE  FALSE
      OBVIOUS
    <3>1. i \in 1 .. D /\ n \in 1 .. D /\ i # n
      BY <1>1
    <3> QED
      BY <3>1, <1>1 DEF Distinct
  <2>6. SchedOK(u) /\ u.cur = s.cur
    BY <1>5
  <2>7. ~u.panic => ~s.panic /\ Done(n - 1) \subseteq Blocked(s)
                      /\ Blocked(u) = Blocked(s) \ Done(n - 1)
    BY <1>5
  <2>8. ~s.panic /\ Distinct(due) /\ ToSet(due) \subseteq Blocked(s) => ~u.panic
    BY <1>5
  <2> DEFINE r == G[n]
  <2> HIDE DEF u, t, r, Done
  <2>9. CASE u.status[t] = "BLOCKED"
    <3>1. t \in Blocked(u)
      BY <2>1, <2>9 DEF Blocked
    <3>2. /\ SchedOK(r) /\ r.cur = u.cur /\ r.panic = u.panic
          /\ Blocked(r) = Blocked(u) \ {t}
      BY <2>2, <2>6, <3>1, ThreadUnblockUnblocks DEF r
    <3>3. ~r.panic => ~s.panic /\ Done(n) \subseteq Blocked(s)
                        /\ Blocked(r) = Blocked(s) \ Done(n)
      BY <2>3, <2>7, <3>1, <3>2
    <3>4. SchedOK(r) /\ r.cur = s.cur
      BY <2>6, <3>2
    <3> QED
      BY <2>8, <3>2, <3>3, <3>4 DEF r
  <2>10. CASE u.status[t] # "BLOCKED"
    <3>1. r = Panic(u)
      BY <2>2, <2>10 DEF ThreadUnblock, r
    <3>2. u \in SchedState
      BY <2>6 DEF SchedOK, ReadyOK
    <3>3. /\ r \in SchedState /\ r.panic = TRUE /\ r.cur = u.cur /\ r.status = u.status
          /\ r.priority = u.priority /\ r.ready = u.ready
      BY <3>1, <3>2 DEF Panic, SchedState
    <3>4. SchedOK(r)
      BY <2>6, <3>3 DEF SchedOK, ReadyOK, ReadyListExact, ReadyListSorted, OneRunning
    <3>5. t \notin Blocked(u)
      BY <2>10 DEF Blocked
    <3>6. ~(~s.panic /\ Distinct(due) /\ ToSet(due) \subseteq Blocked(s))
      <4> SUFFICES ASSUME ~s.panic, Distinct(due), ToSet(due) \subseteq Blocked(s)
                   PROVE  FALSE
        OBVIOUS
      <4>1. t \in Blocked(s) /\ t \notin Done(n - 1)
        BY <1>1, <2>4, <2>5
      <4> QED
        BY <4>1, <3>5, <2>7, <2>8
    <3> QED
      BY <2>6, <3>3, <3>4, <3>6 DEF r
  <2> QED
    BY <2>9, <2>10
<1> HIDE DEF Good
<1>6. Bad = {}
  <2> SUFFICES ASSUME NEW b \in Bad
               PROVE  FALSE
    OBVIOUS
  <2>1. Bad \in SUBSET Nat
    BY <1>1
  <2>2. PICK m \in Bad : \A k \in Bad : m <= k
    BY <2>1, LeastNat
  <2>3. m # 0
    BY <1>4, <2>2
  <2>4. m \in 1 .. D /\ m - 1 \in 0 .. D /\ m - 1 \notin Bad
    BY <1>1, <2>1, <2>2, <2>3
  <2> QED
    BY <1>5, <2>2, <2>4
<1>7. D \in 0 .. D
  BY <1>1
<1>8. Good(D)
  BY <1>6, <1>7
<1> QED
  BY <1>1, <1>2, <1>8 DEF Good

-------------------------------------------------------------------------------
(***************************************************************************)
(* A thread joins sleep_list at I, or behind everybody.                    *)
(***************************************************************************)
JoinsAt(list, new, t, i) ==
  \/ i \in DOMAIN list /\ new = InsertAt(list, i, t)
  \/ i = Len(list) + 1 /\ new = Append(list, t)

LEMMA JoinedAt ==
  ASSUME NEW S, NEW list \in Seq(S), Distinct(list), NEW t \in S, NEW new, NEW i,
         JoinsAt(list, new, t, i)
  PROVE  /\ i \in 1 .. Len(list) + 1
         /\ new \in Seq(S) /\ Len(new) = Len(list) + 1
         /\ \A k \in 1 .. Len(list) + 1 :
              new[k] = IF k < i THEN list[k] ELSE IF k = i THEN t ELSE list[k - 1]
         /\ ToSet(new) = ToSet(list) \union {t}
         /\ t \notin ToSet(list) => Distinct(new)
<1>1. /\ Len(list) \in Nat /\ DOMAIN list = 1 .. Len(list)
      /\ \A k \in 1 .. Len(list) : list[k] \in S
  BY LenProperties, ElementOfSeq
<1>2. CASE i \in DOMAIN list /\ new = InsertAt(list, i, t)
  <2> DEFINE larger == {list[i]}
             p == InsertPosition(list, larger)
  <2>1. /\ p \in 1 .. Len(list) + 1
        /\ \A j \in 1 .. p - 1 : list[j] \notin larger
        /\ p <= Len(list) => list[p] \in larger
    BY InsertPositionExists
  <2>2. p = i
    <3>1. i \in 1 .. Len(list)
      BY <1>1, <1>2
    <3>2. ~(i < p)
      <4> SUFFICES ASSUME i < p PROVE FALSE
        OBVIOUS
      <4>1. i \in 1 .. p - 1
        BY <1>1, <2>1, <3>1
      <4> QED
        BY <2>1, <4>1
    <3>3. p \in 1 .. Len(list)
      BY <1>1, <2>1, <3>1, <3>2
    <3>4. list[p] = list[i]
      BY <2>1, <3>3
    <3> QED
      BY <1>1, <3>1, <3>3, <3>4 DEF Distinct
  <2>3. new = InsertOrdered(list, t, larger)
    BY <1>2, <2>2 DEF InsertOrdered
  <2> HIDE DEF larger
  <2>4. /\ new \in Seq(S) /\ Len(new) = Len(list) + 1
        /\ \A k \in 1 .. Len(new) :
             new[k] = IF k < i THEN list[k] ELSE IF k = i THEN t ELSE list[k - 1]
    BY <2>2, <2>3, InsertOrderedElements
  <2>5. /\ ToSet(new) = ToSet(list) \union {t}
        /\ t \notin ToSet(list) => Distinct(new)
    BY <2>3, InsertOrderedSet
  <2> QED
    BY <1>1, <1>2, <2>4, <2>5
<1>3. CASE i = Len(list) + 1 /\ new = Append(list, t)
  <2>1. /\ new \in Seq(S) /\ Len(new) = Len(list) + 1
        /\ \A k \in 1 .. Len(list) : new[k] = list[k]
        /\ new[Len(list) + 1] = t
    BY <1>3, AppendProperties
  <2>2. \A k \in 1 .. Len(list) + 1 : (k < i /\ k \in 1 .. Len(list)) \/ k = i
    BY <1>1, <1>3
  <2>3. \A k \in 1 .. Len(list) + 1 :
          new[k] = IF k < i THEN list[k] ELSE IF k = i THEN t ELSE list[k - 1]
    BY <1>1, <1>3, <2>1, <2>2
  <2>4. /\ DOMAIN new = 1 .. Len(list) + 1
        /\ ToSet(new) = { new[k] : k \in 1 .. Len(list) + 1 }
        /\ ToSet(list) = { list[k] : k \in 1 .. Len(list) }
    BY <1>1, <2>1, LenProperties DEF ToSet
  <2>5. /\ Len(list) + 1 \in 1 .. Len(list) + 1
        /\ \A k \in 1 .. Len(list) : k \in 1 .. Len(list) + 1
    BY <1>1
  <2>6. ToSet(new) = ToSet(list) \union {t}
    BY <1>3, <2>1, <2>2, <2>4, <2>5
  <2>7. t \notin ToSet(list) => Distinct(new)
    BY <1>1, <1>3, <2>1, <2>2, <2>4 DEF Distinct
  <2> QED
    BY <1>1, <1>3, <2>1, <2>3, <2>6, <2>7
<1> QED
  BY <1>2, <1>3 DEF JoinsAt

Ascending(list, time) == \A i, j \in DOMAIN list : i < j => time[list[i]] <= time[list[j]]

\* Behind those who wake before it and in front of the others, it leaves the
\* list in order.
LEMMA JoinedSorted ==
  ASSUME NEW list \in Seq(Thread), Distinct(list), NEW t \in Thread, NEW new, NEW i,
         JoinsAt(list, new, t, i), NEW time \in [Thread -> Int], Ascending(list, time),
         \A k \in 1 .. i - 1 : time[list[k]] <= time[t],
         i <= Len(list) => time[t] <= time[list[i]]
  PROVE  Ascending(new, time)
<1>1. /\ Len(list) \in Nat /\ DOMAIN list = 1 .. Len(list)
      /\ \A k \in 1 .. Len(list) : time[list[k]] \in Int
  BY LenProperties, ElementOfSeq
<1>2. /\ i \in 1 .. Len(list) + 1 /\ new \in Seq(Thread) /\ Len(new) = Len(list) + 1
      /\ \A k \in 1 .. Len(list) + 1 :
           new[k] = IF k < i THEN list[k] ELSE IF k = i THEN t ELSE list[k - 1]
  BY JoinedAt
<1>3. DOMAIN new = 1 .. Len(list) + 1
  BY <1>2, LenProperties
<1> DEFINE n == Len(list)
<1>0. n \in Nat /\ i \in 1 .. n + 1
  BY <1>1, <1>2
<1>4. \A j, k \in 1 .. Len(list) : j <= k => time[list[j]] <= time[list[k]]
  BY <1>1 DEF Ascending
<1>5. \A k \in 1 .. Len(list) : i <= k => time[t] <= time[list[k]]
  <2> SUFFICES ASSUME NEW k \in 1 .. Len(list), i <= k
               PROVE  time[t] <= time[list[k]]
    OBVIOUS
  <2>1. i \in 1 .. Len(list)
    BY <1>1, <1>2
  <2>2. time[t] <= time[list[i]] /\ time[list[i]] <= time[list[k]]
    BY <1>1, <1>4, <2>1
  <2> QED
    BY <1>1, <2>1, <2>2
<1> SUFFICES ASSUME NEW j \in 1 .. Len(list) + 1, NEW k \in 1 .. Len(list) + 1, j < k
             PROVE  time[new[j]] <= time[new[k]]
  BY <1>3 DEF Ascending
<1>9. j \in 1 .. n + 1 /\ k \in 1 .. n + 1 /\ j < k
  OBVIOUS
<1>6. CASE k < i
  <2>1. j \in 1 .. Len(list) /\ k \in 1 .. Len(list) /\ j < i
    <3> HIDE DEF n
    <3>1. j \in 1 .. n /\ k \in 1 .. n /\ j < i
      BY <1>0, <1>6, <1>9
    <3> QED
      BY <3>1 DEF n
  <2>2. new[j] = list[j] /\ new[k] = list[k] /\ j <= k
    BY <2>1, <1>2, <1>6
  <2> QED
    BY <2>1, <2>2, <1>4
<1>7. CASE k = i
  <2>1. j \in 1 .. i - 1 /\ j < i
    <3> HIDE DEF n
    <3> QED
      BY <1>0, <1>7, <1>9
  <2>2. new[j] = list[j] /\ new[k] = t
    BY <1>2, <1>7, <2>1
  <2>3. time[list[j]] <= time[t]
    BY <2>1
  <2> QED
    BY <2>2, <2>3
<1>8. CASE i < k
  <2>1. k - 1 \in 1 .. Len(list) /\ new[k] = list[k - 1]
    <3>1. k - 1 \in 1 .. n /\ ~(k < i) /\ k # i
      <4> HIDE DEF n
      <4> QED
        BY <1>0, <1>8, <1>9
    <3> QED
      BY <1>2, <3>1
  <2>2. CASE j < i
    <3>1. j \in 1 .. Len(list) /\ j <= k - 1 /\ new[j] = list[j]
      BY <1>1, <1>2, <1>8, <2>2
    <3> QED
      BY <2>1, <3>1, <1>4
  <2>3. CASE j = i
    <3>1. new[j] = t /\ i <= k - 1
      BY <1>1, <1>2, <1>8, <2>3
    <3> QED
      BY <2>1, <3>1, <1>5
  <2>4. CASE i < j
    <3>1. j - 1 \in 1 .. Len(list) /\ j - 1 <= k - 1 /\ new[j] = list[j - 1]
      BY <1>1, <1>2, <2>4
    <3> QED
      BY <2>1, <3>1, <1>4
  <2> QED
    BY <1>2, <2>2, <2>3, <2>4
<1> QED
  BY <1>2, <1>6, <1>7, <1>8

-------------------------------------------------------------------------------
(***************************************************************************)
(* One lemma for each action.                                              *)
(***************************************************************************)
LEMMA InitAlarm == AlarmInit => AlarmIInv
<1> SUFFICES ASSUME AlarmInit PROVE AlarmIInv
  OBVIOUS
<1>1. PICK order \in { l \in [1 .. Cardinality(Thread \ {Main}) -> Thread \ {Main}] :
                         Distinct(l) },
           priority \in [Thread -> Priority] : sched = StartedSched(order, priority)
  BY DEF AlarmInit
<1>2. SchedOK(sched) /\ ~sched.panic /\ Blocked(sched) = {}
  BY <1>1, StartedOK
<1>3. sleep_list = << >> /\ << >> \in Seq(Thread) /\ Asleep = {} /\ Distinct(<< >>)
  BY DEF AlarmInit, Asleep, ToSet, Distinct
<1>4. SleepListSorted
  BY <1>3 DEF SleepListSorted
<1>5. /\ left = [t \in Thread |-> 0] /\ stage = [t \in Thread |-> "run"]
      /\ before = [t \in Thread |-> End] /\ tangled = FALSE /\ clean = TRUE
  BY DEF AlarmInit
<1>6. AlarmTypeOK
  <2>1. 0 \in Late .. MaxSleep
    BY AlarmClockAssumption
  <2> QED
    BY <1>2, <1>3, <1>5, <2>1 DEF AlarmTypeOK, SchedOK, ReadyOK
<1>7. \A t \in Thread : stage[t] = "run" /\ sched.status[t] # "BLOCKED"
  BY <1>2, <1>5 DEF Blocked
<1>8. AlarmConsistent
  BY <1>2, <1>3, <1>7 DEF AlarmConsistent, Sleepers
<1>9. AlarmQuiet
  BY <1>2, <1>4, <1>5, <1>7 DEF AlarmQuiet, Sound
<1> QED
  BY <1>6, <1>8, <1>9 DEF AlarmIInv

LEMMA SleeperFacts ==
  ASSUME AlarmIInv, NEW t \in Thread, NEW l, SleeperAt(t, l)
  PROVE  /\ AlarmTypeOK /\ Sound /\ AlarmConsistent /\ SchedOK(sched)
         /\ t = sched.cur /\ stage[t] = l
         /\ sched.status[t] = "RUNNING"
<1>1. AlarmTypeOK /\ Sound /\ AlarmConsistent /\ t = sched.cur /\ stage[t] = l
  BY DEF AlarmIInv, SleeperAt
<1> QED
  BY <1>1 DEF AlarmConsistent, SchedOK, OneRunning, AnyThread

LEMMA SleepStartKeeps ==
  ASSUME AlarmIInv, NEW t \in Thread, NEW n \in 1 .. MaxSleep, SleepStart(t, n)
  PROVE  AlarmIInv'
<1>1. /\ AlarmTypeOK /\ Sound /\ AlarmConsistent /\ t = sched.cur /\ stage[t] = "run"
      /\ sched.status[t] = "RUNNING"
  BY SleeperFacts DEF SleepStart
<1>2. /\ left' = [left EXCEPT ![t] = n] /\ stage' = [stage EXCEPT ![t] = "find"]
      /\ sched' = sched /\ sleep_list' = sleep_list /\ before' = before
      /\ tangled' = tangled /\ clean' = clean
  BY DEF SleepStart, SleeperGoto
<1>3. AlarmTypeOK'
  <2>1. n \in Late .. MaxSleep
    BY AlarmClockAssumption
  <2> QED
    BY <1>1, <1>2, <2>1 DEF AlarmTypeOK
<1>4. \A u \in Thread : stage'[u] = IF u = t THEN "find" ELSE stage[u]
  BY <1>1, <1>2 DEF AlarmTypeOK
<1>5. Asleep' = Asleep
  BY <1>2 DEF Asleep
<1>6. AlarmConsistent'
  BY <1>1, <1>2, <1>4, <1>5 DEF AlarmConsistent, Sleepers
<1>7. ASSUME clean'
      PROVE  AlarmQuiet'
  <2>1. AlarmQuiet
    BY <1>2, <1>7 DEF AlarmIInv
  <2>2. t \notin Asleep
    BY <1>1 DEF AlarmConsistent, Sleepers
  <2>3. \A i \in DOMAIN sleep_list : left'[sleep_list[i]] = left[sleep_list[i]]
    <3>1. \A i \in DOMAIN sleep_list : sleep_list[i] \in Asleep
      BY DEF Asleep, ToSet
    <3>2. \A i \in DOMAIN sleep_list : sleep_list[i] \in Thread
      BY <1>1, ElementOfSeq, LenProperties DEF AlarmTypeOK
    <3> QED
      BY <1>1, <1>2, <2>2, <3>1, <3>2 DEF AlarmTypeOK
  <2>4. SleepListSorted'
    BY <1>2, <2>1, <2>3 DEF AlarmQuiet, SleepListSorted
  <2>5. \A u \in Thread : stage'[u] \notin {"link", "block"}
    BY <1>1, <1>4, <2>1 DEF AlarmQuiet
  <2> QED
    BY <1>2, <1>4, <2>1, <2>4, <2>5 DEF AlarmQuiet, Sound
<1> QED
  BY <1>3, <1>6, <1>7 DEF AlarmIInv

\* The first thread on the list that wakes no earlier, or End behind it.
LEMMA FoundPlaceIs ==
  ASSUME AlarmTypeOK, NEW t
  PROVE  \E i \in 1 .. Len(sleep_list) + 1 :
           /\ FoundPlace(t) = IF i > Len(sleep_list) THEN End ELSE sleep_list[i]
           /\ \A j \in 1 .. i - 1 : ~(left[t] <= left[sleep_list[j]])
           /\ i <= Len(sleep_list) => left[t] <= left[sleep_list[i]]
<1> DEFINE larger == { e \in Asleep : left[t] <= left[e] }
           i == InsertPosition(sleep_list, larger)
<1>1. sleep_list \in Seq(Thread) /\ DOMAIN sleep_list = 1 .. Len(sleep_list)
  BY LenProperties DEF AlarmTypeOK
<1>2. /\ i \in 1 .. Len(sleep_list) + 1
      /\ \A j \in 1 .. i - 1 : sleep_list[j] \notin larger
      /\ i <= Len(sleep_list) => sleep_list[i] \in larger
  BY <1>1, InsertPositionExists
<1>3. FoundPlace(t) = IF i > Len(sleep_list) THEN End ELSE sleep_list[i]
  BY DEF FoundPlace
<1>4. \A j \in 1 .. Len(sleep_list) : sleep_list[j] \in Asleep
  BY <1>1 DEF Asleep, ToSet
<1>5. Len(sleep_list) \in Nat
  BY <1>1, LenProperties
<1> HIDE DEF i
<1>6. \A j \in 1 .. i - 1 : j \in 1 .. Len(sleep_list)
  BY <1>2, <1>5
<1>7. \A j \in 1 .. i - 1 : ~(left[t] <= left[sleep_list[j]])
  BY <1>2, <1>4, <1>6
<1> QED
  BY <1>2, <1>3, <1>7

LEMMA SleepFindKeeps ==
  ASSUME AlarmIInv, NEW t \in Thread, SleepFind(t)
  PROVE  AlarmIInv'
<1>1. /\ AlarmTypeOK /\ Sound /\ AlarmConsistent /\ t = sched.cur /\ stage[t] = "find"
      /\ sched.status[t] = "RUNNING"
  BY SleeperFacts DEF SleepFind
<1>2. /\ before' = [before EXCEPT ![t] = FoundPlace(t)]
      /\ stage' = [stage EXCEPT ![t] = "link"]
      /\ sched' = sched /\ sleep_list' = sleep_list /\ left' = left
      /\ tangled' = tangled /\ clean' = clean
  BY DEF SleepFind, SleeperGoto
<1>3. FoundPlace(t) \in Thread \union {End}
  <2>1. PICK i \in 1 .. Len(sleep_list) + 1 :
          FoundPlace(t) = IF i > Len(sleep_list) THEN End ELSE sleep_list[i]
    BY <1>1, FoundPlaceIs
  <2>2. sleep_list \in Seq(Thread) /\ Len(sleep_list) \in Nat
    BY <1>1, LenProperties DEF AlarmTypeOK
  <2>3. \A j \in 1 .. Len(sleep_list) : sleep_list[j] \in Thread
    BY <2>2, ElementOfSeq
  <2> QED
    BY <2>1, <2>2, <2>3
<1>4. AlarmTypeOK'
  BY <1>1, <1>2, <1>3 DEF AlarmTypeOK
<1>5. \A u \in Thread : stage'[u] = IF u = t THEN "link" ELSE stage[u]
  BY <1>1, <1>2 DEF AlarmTypeOK
<1>6. Asleep' = Asleep /\ \A u \in Thread : FoundPlace(u)' = FoundPlace(u)
  BY <1>2 DEF Asleep, FoundPlace
<1>7. AlarmConsistent'
  BY <1>1, <1>2, <1>5, <1>6 DEF AlarmConsistent, Sleepers
<1>8. \A u \in Thread : before'[u] = IF u = t THEN FoundPlace(t) ELSE before[u]
  BY <1>1, <1>2 DEF AlarmTypeOK
<1>9. clean' => AlarmQuiet'
  BY <1>1, <1>2, <1>5, <1>6, <1>8 DEF AlarmIInv, AlarmQuiet, Sound, SleepListSorted
<1> QED
  BY <1>4, <1>7, <1>9 DEF AlarmIInv

LEMMA SleepLinkKeeps ==
  ASSUME AlarmIInv, NEW t \in Thread, SleepLink(t)
  PROVE  AlarmIInv'
<1>1. /\ AlarmTypeOK /\ Sound /\ AlarmConsistent /\ t = sched.cur /\ stage[t] = "link"
      /\ sched.status[t] = "RUNNING"
  BY SleeperFacts DEF SleepLink
<1>2. /\ before' = [before EXCEPT ![t] = End] /\ stage' = [stage EXCEPT ![t] = "block"]
      /\ sched' = sched /\ left' = left /\ clean' = clean
  BY DEF SleepLink, SleeperGoto
<1>3. /\ sleep_list \in Seq(Thread) /\ Distinct(sleep_list) /\ Len(sleep_list) \in Nat
      /\ DOMAIN sleep_list = 1 .. Len(sleep_list) /\ left \in [Thread -> Int]
      /\ \A i \in 1 .. Len(sleep_list) : sleep_list[i] \in Asleep /\ sleep_list[i] \in Thread
  <2>1. sleep_list \in Seq(Thread) /\ Distinct(sleep_list) /\ left \in [Thread -> Late .. MaxSleep]
    BY <1>1 DEF AlarmTypeOK, AlarmConsistent
  <2>2. Late .. MaxSleep \subseteq Int
    OBVIOUS
  <2>3. left \in [Thread -> Int]
    BY <2>1, <2>2
  <2> QED
    BY <2>1, <2>3, LenProperties, ElementOfSeq DEF Asleep, ToSet
<1>4. t \notin Asleep
  BY <1>1 DEF AlarmConsistent, Sleepers
<1>5. \A u \in Thread : stage'[u] = IF u = t THEN "block" ELSE stage[u]
  BY <1>1, <1>2 DEF AlarmTypeOK
<1>6. ASSUME NEW i, JoinsAt(sleep_list, sleep_list', t, i), tangled' = tangled,
             clean => before[t] = IF i > Len(sleep_list) THEN End ELSE sleep_list[i]
      PROVE  AlarmIInv'
  <2>1. /\ i \in 1 .. Len(sleep_list) + 1
        /\ sleep_list' \in Seq(Thread) /\ Asleep' = Asleep \union {t}
        /\ Distinct(sleep_list')
    BY <1>3, <1>4, <1>6, JoinedAt DEF Asleep
  <2>2. AlarmTypeOK'
    BY <1>1, <1>2, <1>6, <2>1 DEF AlarmTypeOK
  <2>3. AlarmConsistent'
    BY <1>1, <1>2, <1>5, <2>1 DEF AlarmConsistent, Sleepers
  <2>4. ASSUME clean'
        PROVE  AlarmQuiet'
    <3>1. AlarmQuiet
      BY <1>2, <2>4 DEF AlarmIInv
    <3>2. before[t] = FoundPlace(t)
      BY <1>1, <3>1 DEF AlarmQuiet
    <3>3. PICK p \in 1 .. Len(sleep_list) + 1 :
            /\ FoundPlace(t) = IF p > Len(sleep_list) THEN End ELSE sleep_list[p]
            /\ \A j \in 1 .. p - 1 : ~(left[t] <= left[sleep_list[j]])
            /\ p <= Len(sleep_list) => left[t] <= left[sleep_list[p]]
      BY <1>1, FoundPlaceIs
    <3>4. p = i
      <4>1. \A j \in 1 .. Len(sleep_list) : sleep_list[j] # End
        BY <1>3, AlarmClockAssumption DEF AnyThread
      <4>2. (IF p > Len(sleep_list) THEN End ELSE sleep_list[p])
              = IF i > Len(sleep_list) THEN End ELSE sleep_list[i]
        BY <1>2, <1>6, <2>4, <3>2, <3>3
      <4>3. CASE p > Len(sleep_list)
        BY <1>3, <2>1, <3>3, <4>1, <4>2, <4>3
      <4>4. CASE p <= Len(sleep_list)
        <5>1. p \in 1 .. Len(sleep_list) /\ i \in 1 .. Len(sleep_list)
          BY <1>3, <2>1, <3>3, <4>1, <4>2, <4>4
        <5>2. sleep_list[p] = sleep_list[i]
          BY <1>3, <4>2, <5>1
        <5> QED
          BY <1>3, <5>1, <5>2 DEF Distinct
      <4> QED
        BY <1>3, <3>3, <4>3, <4>4
    <3>5. \A k \in 1 .. i - 1 : left[sleep_list[k]] <= left[t]
      <4> SUFFICES ASSUME NEW k \in 1 .. i - 1
                   PROVE  left[sleep_list[k]] <= left[t]
        OBVIOUS
      <4>1. k \in 1 .. Len(sleep_list) /\ ~(left[t] <= left[sleep_list[k]])
        BY <1>3, <2>1, <3>3, <3>4
      <4>2. left[t] \in Int /\ left[sleep_list[k]] \in Int
        BY <1>3, <4>1
      <4> QED
        BY <4>1, <4>2
    <3>6. Ascending(sleep_list, left)
      BY <3>1 DEF AlarmQuiet, SleepListSorted, Ascending
    <3>7. Ascending(sleep_list', left)
      BY <1>3, <1>6, <3>3, <3>4, <3>5, <3>6, JoinedSorted
    <3>8. SleepListSorted'
      BY <1>2, <3>7 DEF Ascending, SleepListSorted
    <3>9. Sound'
      BY <1>1, <1>2, <1>6 DEF Sound
    <3>10. \A u \in Thread : stage'[u] # "link" /\ (stage'[u] = "block" => u = t)
      BY <1>1, <1>5, <3>1 DEF AlarmQuiet
    <3> QED
      BY <1>1, <1>2, <3>8, <3>9, <3>10 DEF AlarmQuiet
  <2> QED
    BY <2>2, <2>3, <2>4 DEF AlarmIInv
<1>7. CASE before[t] = End /\ sleep_list' = Append(sleep_list, t) /\ tangled' = tangled
  <2>1. JoinsAt(sleep_list, sleep_list', t, Len(sleep_list) + 1)
    BY <1>7 DEF JoinsAt
  <2>2. Len(sleep_list) + 1 > Len(sleep_list)
    BY <1>3
  <2> QED
    BY <1>6, <1>7, <2>1, <2>2
<1>8. ASSUME NEW i \in DOMAIN sleep_list, sleep_list[i] = before[t],
             sleep_list' = InsertAt(sleep_list, i, t), tangled' = tangled
      PROVE  AlarmIInv'
  <2>1. JoinsAt(sleep_list, sleep_list', t, i)
    BY <1>8 DEF JoinsAt
  <2>2. ~(i > Len(sleep_list))
    BY <1>3
  <2> QED
    BY <1>6, <1>8, <2>1, <2>2
<1>9. CASE before[t] \notin Asleep \union {End} /\ tangled' = TRUE /\ sleep_list' = sleep_list
  <2>1. AlarmTypeOK'
    BY <1>1, <1>2, <1>9 DEF AlarmTypeOK
  <2>2. ~Sound'
    BY <1>9 DEF Sound
  <2>3. ~clean
    <3> SUFFICES ASSUME clean PROVE FALSE
      OBVIOUS
    <3>1. before[t] = FoundPlace(t)
      BY <1>1 DEF AlarmIInv, AlarmQuiet
    <3>2. PICK p \in 1 .. Len(sleep_list) + 1 :
            FoundPlace(t) = IF p > Len(sleep_list) THEN End ELSE sleep_list[p]
      BY <1>1, FoundPlaceIs
    <3> QED
      BY <1>3, <1>9, <3>1, <3>2
  <2> QED
    BY <1>2, <2>1, <2>2, <2>3 DEF AlarmIInv
<1> QED
  BY <1>7, <1>8, <1>9 DEF SleepLink

LEMMA SleepBlockKeeps ==
  ASSUME AlarmIInv, NEW t \in Thread, SleepBlock(t)
  PROVE  AlarmIInv'
<1>1. /\ AlarmTypeOK /\ Sound /\ AlarmConsistent /\ SchedOK(sched)
      /\ t = sched.cur /\ stage[t] = "block" /\ sched.status[t] = "RUNNING"
  BY SleeperFacts DEF SleepBlock
<1>2. /\ stage' = [stage EXCEPT ![t] = "run"] /\ sched' = ThreadBlock(sched)
      /\ sleep_list' = sleep_list /\ left' = left /\ before' = before
      /\ tangled' = tangled /\ clean' = clean
  BY DEF SleepBlock, SleeperGoto
<1>3. /\ SchedOK(sched') /\ sched'.panic = sched.panic
      /\ Blocked(sched') = Blocked(sched) \union {t}
  BY <1>1, <1>2, ThreadBlockBlocks
<1>4. AlarmTypeOK'
  BY <1>1, <1>2, <1>3 DEF AlarmTypeOK, SchedOK, ReadyOK
<1>5. \A u \in Thread : stage'[u] = IF u = t THEN "run" ELSE stage[u]
  BY <1>1, <1>2 DEF AlarmTypeOK
<1>6. Asleep' = Asleep
  BY <1>2 DEF Asleep
<1>7. \A u \in Thread : sched'.status[u] = "BLOCKED" <=> sched.status[u] = "BLOCKED" \/ u = t
  BY <1>3 DEF Blocked
<1>8. AlarmConsistent'
  BY <1>1, <1>2, <1>3, <1>5, <1>6, <1>7 DEF AlarmConsistent, Sleepers
<1>9. ASSUME clean'
      PROVE  AlarmQuiet'
  <2>1. AlarmQuiet
    BY <1>2, <1>9 DEF AlarmIInv
  <2>2. \A u \in Thread : stage'[u] \notin {"link", "block"}
    BY <1>1, <1>5, <2>1 DEF AlarmQuiet
  <2>3. SleepListSorted'
    BY <1>2, <2>1 DEF AlarmQuiet, SleepListSorted
  <2> QED
    BY <1>1, <1>2, <1>3, <2>2, <2>3 DEF AlarmQuiet, Sound
<1> QED
  BY <1>4, <1>8, <1>9 DEF AlarmIInv

LEMMA AwaitKeeps ==
  ASSUME AlarmIInv, NEW t \in Thread, Await(t)
  PROVE  AlarmIInv'
<1>1. /\ AlarmTypeOK /\ Sound /\ AlarmConsistent /\ SchedOK(sched)
      /\ t = sched.cur /\ stage[t] = "run" /\ sched.status[t] = "RUNNING"
  BY SleeperFacts DEF Await
<1>2. /\ stage' = [stage EXCEPT ![t] = "wait"] /\ sched' = ThreadBlock(sched)
      /\ sleep_list' = sleep_list /\ left' = left /\ before' = before
      /\ tangled' = tangled /\ clean' = clean
  BY DEF Await, SleeperGoto
<1>3. /\ SchedOK(sched') /\ sched'.panic = sched.panic
      /\ Blocked(sched') = Blocked(sched) \union {t}
  BY <1>1, <1>2, ThreadBlockBlocks
<1>4. AlarmTypeOK'
  BY <1>1, <1>2, <1>3 DEF AlarmTypeOK, SchedOK, ReadyOK
<1>5. \A u \in Thread : stage'[u] = IF u = t THEN "wait" ELSE stage[u]
  BY <1>1, <1>2 DEF AlarmTypeOK
<1>6. Asleep' = Asleep
  BY <1>2 DEF Asleep
<1>7. \A u \in Thread : sched'.status[u] = "BLOCKED" <=> sched.status[u] = "BLOCKED" \/ u = t
  BY <1>3 DEF Blocked
<1>8. AlarmConsistent'
  BY <1>1, <1>2, <1>3, <1>5, <1>6, <1>7 DEF AlarmConsistent, Sleepers
<1>9. ASSUME clean'
      PROVE  AlarmQuiet'
  <2>1. AlarmQuiet
    BY <1>2, <1>9 DEF AlarmIInv
  <2>2. \A u \in Thread : stage'[u] \notin {"link", "block"}
    BY <1>1, <1>5, <2>1 DEF AlarmQuiet
  <2>3. SleepListSorted'
    BY <1>2, <2>1 DEF AlarmQuiet, SleepListSorted
  <2> QED
    BY <1>1, <1>2, <1>3, <2>2, <2>3 DEF AlarmQuiet, Sound
<1> QED
  BY <1>4, <1>8, <1>9 DEF AlarmIInv

LEMMA AlarmIdleBlockKeeps ==
  ASSUME AlarmIInv, AlarmIdleBlock
  PROVE  AlarmIInv'
<1>1. /\ AlarmTypeOK /\ Sound /\ AlarmConsistent /\ SchedOK(sched)
      /\ sched.cur \notin Thread
  BY ThreadsAssumption DEF AlarmIdleBlock, AlarmIInv, AlarmConsistent
<1>2. /\ sched' = ThreadBlock(sched) /\ stage' = stage
      /\ sleep_list' = sleep_list /\ left' = left /\ before' = before
      /\ tangled' = tangled /\ clean' = clean
  BY DEF AlarmIdleBlock
<1>3. /\ SchedOK(sched') /\ sched'.panic = sched.panic /\ Blocked(sched') = Blocked(sched)
  BY <1>1, <1>2, ThreadBlockBlocks
<1>4. AlarmTypeOK'
  BY <1>1, <1>2, <1>3 DEF AlarmTypeOK, SchedOK, ReadyOK
<1>5. Asleep' = Asleep
  BY <1>2 DEF Asleep
<1>6. \A u \in Thread : sched'.status[u] = "BLOCKED" <=> sched.status[u] = "BLOCKED"
  BY <1>3 DEF Blocked
<1>7. AlarmConsistent'
  BY <1>1, <1>2, <1>3, <1>5, <1>6 DEF AlarmConsistent, Sleepers
<1>8. ASSUME clean'
      PROVE  AlarmQuiet'
  <2>1. AlarmQuiet
    BY <1>2, <1>8 DEF AlarmIInv
  <2>2. \A u \in Thread : stage'[u] \notin {"link", "block"}
    BY <1>1, <1>2, <2>1 DEF AlarmQuiet
  <2>3. SleepListSorted'
    BY <1>2, <2>1 DEF AlarmQuiet, SleepListSorted
  <2> QED
    BY <1>1, <1>2, <1>3, <2>2, <2>3 DEF AlarmQuiet, Sound
<1> QED
  BY <1>4, <1>7, <1>8 DEF AlarmIInv


\* A tick counts for everybody on the list.
LEMMA TickedIs ==
  ASSUME AlarmTypeOK
  PROVE  /\ Ticked \in [Thread -> Late .. MaxSleep]
         /\ \A t \in Asleep \union { u \in Thread : stage[u] = "link" } :
              /\ Ticked[t] \in {Late, left[t] - 1}
              /\ Ticked[t] >= left[t] - 1 /\ Ticked[t] >= Late
<1> USE AlarmClockAssumption
<1>1. /\ left \in [Thread -> Late .. MaxSleep] /\ sleep_list \in Seq(Thread)
      /\ Asleep \subseteq Thread
  BY LenProperties, ElementOfSeq DEF AlarmTypeOK, Asleep, ToSet
<1>2. ASSUME NEW t \in Thread
      PROVE  LET m == Max({Late, left[t] - 1})
             IN  /\ m \in {Late, left[t] - 1} /\ m >= left[t] - 1 /\ m >= Late
                 /\ m \in Late .. MaxSleep
  <2>1. left[t] \in Late .. MaxSleep
    BY <1>1
  <2> DEFINE x == left[t] - 1
  <2>2. x \in Int /\ Late \in Int /\ x < MaxSleep /\ Late < MaxSleep
    BY <2>1
  <2>3. Max({Late, x}) \in {Late, x} /\ Max({Late, x}) >= Late /\ Max({Late, x}) >= x
    BY <2>2, MaxOfTwo
  <2> HIDE DEF x
  <2>4. Max({Late, x}) \in Late .. MaxSleep
    BY <2>2, <2>3
  <2> QED
    BY <2>3, <2>4 DEF x
<1>3. 0 \in Late .. MaxSleep
  OBVIOUS
<1>4. Ticked = [t \in Thread |-> IF t \in Asleep \/ stage[t] \in {"find", "link"}
                                  THEN Max({Late, left[t] - 1}) ELSE 0]
  BY DEF Ticked
<1>5. Ticked \in [Thread -> Late .. MaxSleep]
  BY <1>2, <1>3, <1>4
<1>6. \A t \in Asleep \union { u \in Thread : stage[u] = "link" } :
        t \in Thread /\ Ticked[t] = Max({Late, left[t] - 1})
  BY <1>1, <1>4
<1> QED
  BY <1>1, <1>2, <1>5, <1>6

\* What a tick does to the list, in terms of those it wakes.
LEMMA InterruptSplits ==
  ASSUME AlarmTypeOK, AlarmInterrupt
  PROVE  \E due \in Seq(Thread), n \in 0 .. Len(sleep_list) :
           /\ sleep_list' \in Seq(Thread)
           /\ Len(sleep_list') = Len(sleep_list) - n
           /\ \A i \in 1 .. Len(sleep_list) - n : sleep_list'[i] = sleep_list[n + i]
           /\ ToSet(sleep_list) = ToSet(due) \union ToSet(sleep_list')
           /\ Distinct(sleep_list) =>
                /\ Distinct(due) /\ Distinct(sleep_list')
                /\ ToSet(due) \intersect ToSet(sleep_list') = {}
           /\ \A t \in ToSet(due) : Ticked[t] <= 0
           /\ n < Len(sleep_list) => Ticked[sleep_list[n + 1]] > 0
           /\ left' = [t \in Thread |-> IF t \in ToSet(due) THEN 0 ELSE Ticked[t]]
           /\ n = 0 <=> due = << >>
           /\ \/ HandlerReturns(Woken(sched, due), due # << >>)
              \/ HandlerPreempts(Woken(sched, due), ToSet(sleep_list'), due # << >>)
<1>1. sleep_list \in Seq(Thread) /\ Ticked \in [Thread -> Int]
  <2>1. sleep_list \in Seq(Thread) /\ Ticked \in [Thread -> Late .. MaxSleep]
    BY TickedIs DEF AlarmTypeOK
  <2>2. Late .. MaxSleep \subseteq Int
    OBVIOUS
  <2> QED
    BY <2>1, <2>2
<1> DEFINE due == Due(sleep_list, Ticked)
<1>2. PICK n \in 0 .. Len(sleep_list) :
        /\ due = SubSeq(sleep_list, 1, n)
        /\ \A i \in 1 .. n : Ticked[sleep_list[i]] <= 0
        /\ n < Len(sleep_list) => Ticked[sleep_list[n + 1]] > 0
  BY <1>1, DueIs
<1>3. /\ sleep_list' = SubSeq(sleep_list, Len(due) + 1, Len(sleep_list))
      /\ left' = [t \in Thread |-> IF t \in ToSet(due) THEN 0 ELSE Ticked[t]]
      /\ \/ HandlerReturns(Woken(sched, due), due # << >>)
         \/ HandlerPreempts(Woken(sched, due),
                            ToSet(SubSeq(sleep_list, Len(due) + 1, Len(sleep_list))),
                            due # << >>)
  BY DEF AlarmInterrupt
<1> HIDE DEF due
<1>4. /\ due \in Seq(Thread) /\ Len(due) = n
      /\ \A i \in 1 .. n : due[i] = sleep_list[i]
      /\ sleep_list' \in Seq(Thread) /\ Len(sleep_list') = Len(sleep_list) - n
      /\ \A i \in 1 .. Len(sleep_list) - n : sleep_list'[i] = sleep_list[n + i]
      /\ ToSet(sleep_list) = ToSet(due) \union ToSet(sleep_list')
      /\ Distinct(sleep_list) =>
           /\ Distinct(due) /\ Distinct(sleep_list')
           /\ ToSet(due) \intersect ToSet(sleep_list') = {}
  <2> DEFINE front == SubSeq(sleep_list, 1, n)
             rest == SubSeq(sleep_list, Len(front) + 1, Len(sleep_list))
  <2>1. due = front /\ sleep_list' = rest
    BY <1>2, <1>3
  <2>2. sleep_list \in Seq(Thread) /\ n \in 0 .. Len(sleep_list)
    BY <1>1, <1>2
  <2>3. /\ front \in Seq(Thread) /\ Len(front) = n
        /\ \A i \in 1 .. n : front[i] = sleep_list[i]
        /\ rest \in Seq(Thread) /\ Len(rest) = Len(sleep_list) - n
        /\ \A i \in 1 .. Len(sleep_list) - n : rest[i] = sleep_list[n + i]
        /\ ToSet(sleep_list) = ToSet(front) \union ToSet(rest)
        /\ Distinct(sleep_list) => /\ Distinct(front) /\ Distinct(rest)
                                   /\ ToSet(front) \intersect ToSet(rest) = {}
    BY <2>2, SplitAt, ZenonT(60)
  <2> HIDE DEF front, rest
  <2> QED
    BY <2>1, <2>3, ZenonT(60)
<1>5. \A t \in ToSet(due) : Ticked[t] <= 0
  <2>1. DOMAIN due = 1 .. n
    BY <1>4, LenProperties
  <2> QED
    BY <1>2, <1>4, <2>1 DEF ToSet
<1>6. \/ HandlerReturns(Woken(sched, due), due # << >>)
      \/ HandlerPreempts(Woken(sched, due), ToSet(sleep_list'), due # << >>)
  BY <1>3
<1>7. n = 0 <=> due = << >>
  BY <1>4, EmptySeq
<1> QED
  BY <1>2, <1>3, <1>4, <1>5, <1>6, <1>7

(***************************************************************************)
(* What a handler does to whom it interrupts.  One that leaves clean TRUE  *)
(* in the window has woken no sleeper and returns.                         *)
(***************************************************************************)
LEMMA HandlerIs ==
  ASSUME AlarmTypeOK, NEW s, SchedOK(s), NEW list, NEW wakes \in BOOLEAN,
         HandlerReturns(s, wakes) \/ HandlerPreempts(s, list, wakes)
  PROVE  /\ Preempted(s, sched')
         /\ tangled' \in BOOLEAN /\ clean' \in BOOLEAN
         /\ clean' => /\ clean
                      /\ InWindow => ~wakes /\ sched' = s
                      /\ tangled' => sched.cur \in list /\ ~InWindow
<1>1. Preempted(s, sched')
  BY YieldPreempts, NothingPreempts DEF HandlerReturns, HandlerPreempts
<1>2. tangled' \in BOOLEAN
  BY DEF HandlerReturns, HandlerPreempts
<1>3. clean \in BOOLEAN
  BY DEF AlarmTypeOK
<1>4. \/ clean' = (clean /\ ~(wakes /\ (Searching \/ InWindow)))
      \/ clean' = (clean /\ ~InWindow /\ ~(wakes /\ Searching))
  BY DEF HandlerReturns, HandlerPreempts
<1>5. clean' \in BOOLEAN
  BY <1>3, <1>4, Zenon
<1>6. Linking => InWindow
  BY DEF InWindow
<1>7. ASSUME clean', HandlerReturns(s, wakes)
      PROVE  /\ clean /\ (InWindow => ~wakes /\ sched' = s)
             /\ tangled' => sched.cur \in list /\ ~InWindow
  <2>1. clean' = (clean /\ ~(wakes /\ (Searching \/ InWindow)))
    BY <1>7, Zenon DEF HandlerReturns
  <2>2. clean /\ ~(wakes /\ (Searching \/ InWindow))
    BY <1>7, <2>1, Zenon
  <2>3. sched' = s /\ (tangled' => wakes /\ (Searching \/ Linking))
    BY <1>7, Zenon DEF HandlerReturns
  <2> QED
    BY <1>6, <2>2, <2>3, Zenon
<1>8. ASSUME clean', HandlerPreempts(s, list, wakes)
      PROVE  /\ clean /\ (InWindow => ~wakes /\ sched' = s)
             /\ tangled' => sched.cur \in list /\ ~InWindow
  <2>1. clean' = (clean /\ ~InWindow /\ ~(wakes /\ Searching))
    BY <1>8, Zenon DEF HandlerPreempts
  <2>2. clean /\ ~InWindow /\ ~(wakes /\ Searching)
    BY <1>8, <2>1, Zenon
  <2>3. tangled' => sched.cur \in list \/ Linking \/ (wakes /\ Searching)
    BY <1>8, Zenon DEF HandlerPreempts
  <2> QED
    BY <1>6, <2>2, <2>3, Zenon
<1> QED
  BY <1>1, <1>2, <1>5, <1>7, <1>8, Zenon

\* A tick with nobody due changes no place that has been found.
LEMMA FoundPlaceKept ==
  ASSUME AlarmTypeOK, NEW t \in Thread, stage[t] = "link",
         sleep_list' = sleep_list, SleepListSorted',
         \A u \in Thread : left'[u] = Ticked[u],
         Len(sleep_list) # 0 => Ticked[sleep_list[1]] > 0
  PROVE  FoundPlace(t)' = FoundPlace(t)
<1> USE AlarmClockAssumption
<1>1. /\ sleep_list \in Seq(Thread) /\ Len(sleep_list) \in Nat
      /\ DOMAIN sleep_list = 1 .. Len(sleep_list)
      /\ Asleep = { sleep_list[i] : i \in 1 .. Len(sleep_list) }
      /\ Asleep \subseteq Thread /\ Asleep' = Asleep
      /\ \A u \in Thread : left[u] \in Int
  BY LenProperties, ElementOfSeq DEF AlarmTypeOK, Asleep, ToSet
<1>2. Ticked \in [Thread -> Late .. MaxSleep]
  BY TickedIs
<1>3. ASSUME NEW e \in Asleep
      PROVE  Ticked[e] > 0
  <2>1. PICK i \in 1 .. Len(sleep_list) : e = sleep_list[i]
    BY <1>1
  <2>2. 1 \in 1 .. Len(sleep_list) /\ sleep_list[1] \in Asleep /\ Ticked[sleep_list[1]] > 0
    BY <1>1, <2>1
  <2>3. CASE i = 1
    BY <2>1, <2>2, <2>3
  <2>4. CASE i # 1
    <3>1. 1 < i
      BY <2>1, <2>4
    <3>2. left'[sleep_list[1]] <= left'[sleep_list[i]]
      BY <1>1, <2>1, <2>2, <3>1 DEF SleepListSorted
    <3>3. Ticked[sleep_list[1]] <= Ticked[e]
      BY <1>1, <2>1, <2>2, <3>2
    <3>4. Ticked[sleep_list[1]] \in Int /\ Ticked[e] \in Int
      BY <1>1, <1>2, <2>2
    <3> QED
      BY <2>2, <3>3, <3>4
  <2> QED
    BY <2>3, <2>4
<1>4. ASSUME NEW e \in Asleep
      PROVE  left'[t] <= left'[e] <=> left[t] <= left[e]
  <2> DEFINE a == left[t]
             b == left[e]
             c == Ticked[t]
             d == Ticked[e]
  <2>1. /\ a \in Int /\ b \in Int
        /\ c \in {Late, a - 1} /\ c >= a - 1 /\ c >= Late
        /\ d \in {Late, b - 1} /\ d > 0
    BY <1>1, <1>3, TickedIs
  <2>2. left'[t] = c /\ left'[e] = d
    BY <1>1
  <2> HIDE DEF a, b, c, d
  <2>3. d = b - 1
    BY <2>1
  <2>4. c <= d <=> a <= b
    <3>1. CASE c = Late
      BY <2>1, <2>3, <3>1
    <3>2. CASE c = a - 1
      BY <2>1, <2>3, <3>2
    <3> QED
      BY <2>1, <3>1, <3>2
  <2> QED
    BY <2>2, <2>4 DEF a, b
<1>5. { e \in Asleep : left[t] <= left[e] }' = { e \in Asleep : left[t] <= left[e] }
  BY <1>1, <1>4
<1> QED
  BY <1>5 DEF FoundPlace

LEMMA AlarmInterruptKeeps ==
  ASSUME AlarmIInv, AlarmInterrupt
  PROVE  AlarmIInv'
<1>1. AlarmTypeOK /\ Sound /\ AlarmConsistent /\ SchedOK(sched)
  BY DEF AlarmInterrupt, AlarmIInv, AlarmConsistent
<1>2. PICK due \in Seq(Thread), n \in 0 .. Len(sleep_list) :
        /\ sleep_list' \in Seq(Thread)
        /\ Len(sleep_list') = Len(sleep_list) - n
        /\ \A i \in 1 .. Len(sleep_list) - n : sleep_list'[i] = sleep_list[n + i]
        /\ ToSet(sleep_list) = ToSet(due) \union ToSet(sleep_list')
        /\ Distinct(sleep_list) =>
             /\ Distinct(due) /\ Distinct(sleep_list')
             /\ ToSet(due) \intersect ToSet(sleep_list') = {}
        /\ \A t \in ToSet(due) : Ticked[t] <= 0
        /\ n < Len(sleep_list) => Ticked[sleep_list[n + 1]] > 0
        /\ left' = [t \in Thread |-> IF t \in ToSet(due) THEN 0 ELSE Ticked[t]]
        /\ n = 0 <=> due = << >>
        /\ \/ HandlerReturns(Woken(sched, due), due # << >>)
           \/ HandlerPreempts(Woken(sched, due), ToSet(sleep_list'), due # << >>)
  BY <1>1, InterruptSplits
<1>3. stage' = stage /\ before' = before
  BY DEF AlarmInterrupt
<1>4. /\ Distinct(sleep_list) /\ Distinct(due) /\ Distinct(sleep_list')
      /\ Asleep' = Asleep \ ToSet(due) /\ ToSet(due) \subseteq Asleep
  BY <1>1, <1>2 DEF AlarmConsistent, Asleep
<1> DEFINE woken == Woken(sched, due)
<1>5. /\ SchedOK(woken) /\ woken.cur = sched.cur
      /\ ~woken.panic => /\ ToSet(due) \subseteq Blocked(sched)
                         /\ Blocked(woken) = Blocked(sched) \ ToSet(due)
      /\ ~sched.panic /\ Distinct(due) /\ ToSet(due) \subseteq Blocked(sched)
           => ~woken.panic
  BY <1>1, <1>2, WokenOK
<1>6. \/ HandlerReturns(woken, due # << >>)
      \/ HandlerPreempts(woken, ToSet(sleep_list'), due # << >>)
  BY <1>2
<1> HIDE DEF woken
<1>7. /\ Preempted(woken, sched')
      /\ tangled' \in BOOLEAN /\ clean' \in BOOLEAN
      /\ clean' => /\ clean
                   /\ InWindow => due = << >> /\ sched' = woken
                   /\ tangled' => sched.cur \in ToSet(sleep_list') /\ ~InWindow
  <2> DEFINE wakes == due # << >>
             list == ToSet(sleep_list')
  <2>1. wakes \in BOOLEAN /\ (~wakes <=> due = << >>)
    OBVIOUS
  <2>2. HandlerReturns(woken, wakes) \/ HandlerPreempts(woken, list, wakes)
    BY <1>6
  <2> HIDE DEF wakes
  <2>3. /\ Preempted(woken, sched')
        /\ tangled' \in BOOLEAN /\ clean' \in BOOLEAN
        /\ clean' => /\ clean
                     /\ InWindow => ~wakes /\ sched' = woken
                     /\ tangled' => sched.cur \in list /\ ~InWindow
    BY <1>1, <1>5, <2>1, <2>2, HandlerIs
  <2> QED
    BY <2>1, <2>3, Zenon
<1>8. /\ SchedOK(sched') /\ sched'.panic = woken.panic /\ Blocked(sched') = Blocked(woken)
  BY <1>7 DEF Preempted
<1>9. AlarmTypeOK'
  <2>1. Ticked \in [Thread -> Late .. MaxSleep] /\ 0 \in Late .. MaxSleep
    BY <1>1, TickedIs, AlarmClockAssumption
  <2>2. left' \in [Thread -> Late .. MaxSleep]
    BY <1>2, <2>1
  <2>3. tangled' \in BOOLEAN /\ clean' \in BOOLEAN
    BY <1>7
  <2>4. sched' \in SchedState
    BY <1>8 DEF SchedOK, ReadyOK
  <2> QED
    BY <1>1, <1>2, <1>3, <2>2, <2>3, <2>4 DEF AlarmTypeOK
<1>10. ASSUME Sound'
       PROVE  AlarmConsistent'
  <2>1. /\ ToSet(due) \subseteq Blocked(sched)
        /\ Blocked(sched') = Blocked(sched) \ ToSet(due)
    BY <1>5, <1>8, <1>10 DEF Sound
  <2>2. \A t \in Thread : sched'.status[t] = "BLOCKED" <=>
                            sched.status[t] = "BLOCKED" /\ t \notin ToSet(due)
    BY <2>1 DEF Blocked
  <2>3. \A t \in ToSet(due) : stage[t] # "block"
    BY <1>1, <2>1 DEF Blocked, AlarmConsistent
  <2>4. \A t \in ToSet(due) : stage[t] # "wait"
    BY <1>1, <1>4, <2>3 DEF AlarmConsistent, Sleepers
  <2>5. Asleep' = Sleepers' \union { t \in Thread : stage'[t] = "block" }
    BY <1>1, <1>3, <1>4, <2>2, <2>3 DEF AlarmConsistent, Sleepers
  <2> QED
    BY <1>1, <1>3, <1>4, <1>8, <2>2, <2>4, <2>5 DEF AlarmConsistent
<1>11. ASSUME clean'
       PROVE  AlarmQuiet'
  <2>1. /\ AlarmQuiet
        /\ InWindow => due = << >> /\ sched' = woken
        /\ tangled' => sched.cur \in ToSet(sleep_list') /\ ~InWindow
    BY <1>7, <1>11 DEF AlarmIInv
  <2>2. ~InWindow => \A t \in Thread : stage[t] \notin {"link", "block"}
    BY <1>1, <2>1 DEF AlarmQuiet, InWindow, Linking, SleeperAt
  <2>3. ~InWindow => Asleep \subseteq Blocked(sched)
    BY <1>1, <2>2 DEF AlarmConsistent, Sleepers, Blocked
  <2>4. ~woken.panic
    <3>1. ToSet(<< >>) = {}
      BY DEF ToSet
    <3>2. ToSet(due) \subseteq Blocked(sched)
      BY <1>4, <2>1, <2>3, <3>1
    <3> QED
      BY <1>1, <1>4, <1>5, <3>2 DEF Sound
  <2>5. sched.cur \notin Blocked(sched)
    BY <1>1 DEF Blocked, SchedOK, OneRunning, AnyThread
  <2>6. ~tangled'
    BY <1>4, <2>1, <2>3, <2>5 DEF Asleep
  <2>7. Sound'
    BY <1>8, <2>4, <2>6 DEF Sound
  <2>8. SleepListSorted'
    <3>1. /\ sleep_list \in Seq(Thread) /\ Len(sleep_list) \in Nat
          /\ DOMAIN sleep_list = 1 .. Len(sleep_list)
          /\ DOMAIN sleep_list' = 1 .. Len(sleep_list) - n
      BY <1>1, <1>2, LenProperties DEF AlarmTypeOK
    <3>2. \A i \in 1 .. Len(sleep_list) - n :
            /\ sleep_list'[i] \in Asleep /\ sleep_list'[i] \in Thread
            /\ left'[sleep_list'[i]] = Ticked[sleep_list'[i]]
            /\ left[sleep_list'[i]] \in Int
      <4>1. \A i \in 1 .. Len(sleep_list) - n :
              sleep_list'[i] \in ToSet(sleep_list') /\ sleep_list'[i] \in Thread
        BY <1>2, <3>1, ElementOfSeq DEF ToSet
      <4>2. \A t \in ToSet(sleep_list') : t \in Asleep /\ t \notin ToSet(due)
        BY <1>2, <1>4 DEF Asleep
      <4>3. \A t \in Thread : left[t] \in Int
        BY <1>1 DEF AlarmTypeOK
      <4> QED
        BY <1>2, <4>1, <4>2, <4>3
    <3> SUFFICES ASSUME NEW i \in 1 .. Len(sleep_list) - n, NEW j \in 1 .. Len(sleep_list) - n,
                        i < j
                 PROVE  left'[sleep_list'[i]] <= left'[sleep_list'[j]]
      BY <3>1 DEF SleepListSorted
    <3> DEFINE a == sleep_list'[i]
               b == sleep_list'[j]
    <3>3. left[a] <= left[b]
      <4>1. n + i \in DOMAIN sleep_list /\ n + j \in DOMAIN sleep_list /\ n + i < n + j
        BY <3>1
      <4> QED
        BY <1>2, <2>1, <4>1 DEF AlarmQuiet, SleepListSorted
    <3>4. a \in Asleep /\ b \in Asleep /\ left[a] \in Int /\ left[b] \in Int
      BY <3>2
    <3>5. /\ Ticked[a] \in {Late, left[a] - 1}
          /\ Ticked[b] >= left[b] - 1 /\ Ticked[b] >= Late
          /\ Ticked[b] \in {Late, left[b] - 1}
      BY <1>1, <3>4, TickedIs
    <3>6. left'[a] = Ticked[a] /\ left'[b] = Ticked[b]
      BY <3>2
    <3> HIDE DEF a, b
    <3>7. left'[a] <= left'[b]
      <4>1. Late \in Int /\ Ticked[b] \in Int
        BY <3>4, <3>5, AlarmClockAssumption
      <4>2. CASE Ticked[a] = Late
        BY <3>5, <3>6, <4>1, <4>2
      <4>3. CASE Ticked[a] = left[a] - 1
        BY <3>3, <3>4, <3>5, <3>6, <4>1, <4>3
      <4> QED
        BY <3>5, <4>2, <4>3
    <3> QED
      BY <3>7 DEF a, b
  <2>9. \A t \in Thread : stage'[t] \in {"link", "block"} => t = sched'.cur
    BY <1>3, <1>5, <2>1, <2>2 DEF AlarmQuiet
  <2>10. ASSUME NEW t \in Thread, stage'[t] = "link"
         PROVE  before'[t] = FoundPlace(t)'
    <3>1. stage[t] = "link" /\ before[t] = FoundPlace(t) /\ before'[t] = before[t]
      BY <1>3, <2>1, <2>10 DEF AlarmQuiet
    <3>2. due = << >> /\ n = 0
      BY <1>2, <2>1, <2>2, <3>1
    <3>3. /\ sleep_list' = sleep_list
          /\ \A u \in Thread : left'[u] = Ticked[u]
          /\ Len(sleep_list) # 0 => Ticked[sleep_list[1]] > 0
      <4>1. ToSet(due) = {} /\ Len(sleep_list) \in Nat
        <5>1. ToSet(<< >>) = {}
          BY DEF ToSet
        <5> QED
          BY <1>1, <3>2, <5>1, LenProperties DEF AlarmTypeOK
      <4>2. Len(sleep_list') = Len(sleep_list)
        BY <1>2, <3>2, <4>1
      <4>3. \A i \in 1 .. Len(sleep_list) : sleep_list'[i] = sleep_list[i]
        BY <1>2, <3>2, <4>1
      <4>4. sleep_list' = sleep_list
        BY <1>1, <1>2, <4>2, <4>3, SeqEqual DEF AlarmTypeOK
      <4> QED
        BY <1>2, <3>2, <4>1, <4>4
    <3> QED
      BY <1>1, <2>8, <3>1, <3>3, FoundPlaceKept
  <2> QED
    BY <2>7, <2>8, <2>9, <2>10 DEF AlarmQuiet
<1> QED
  BY <1>9, <1>10, <1>11 DEF AlarmIInv

LEMMA AlarmDeviceKeeps ==
  ASSUME AlarmIInv, AlarmDevice
  PROVE  AlarmIInv'
<1>1. AlarmTypeOK /\ Sound /\ AlarmConsistent /\ SchedOK(sched)
  BY DEF AlarmDevice, AlarmIInv, AlarmConsistent
<1>2. sleep_list' = sleep_list /\ left' = left /\ before' = before
  BY DEF AlarmDevice
<1> DEFINE DeviceDone(s, W) ==
             /\ SchedOK(s) /\ s.cur = sched.cur /\ ~s.panic
             /\ Blocked(s) = Blocked(sched) \ W
             /\ stage' = [t \in Thread |-> IF t \in W THEN "run" ELSE stage[t]]
             /\ HandlerReturns(s, FALSE) \/ HandlerPreempts(s, Asleep, FALSE)
<1>3. \E s : \E W \in SUBSET Elsewhere : DeviceDone(s, W)
  <2>1. stage \in [Thread -> {"run", "find", "link", "block", "wait"}] /\ ~sched.panic
    BY <1>1 DEF AlarmTypeOK, Sound
  <2>2. ASSUME NEW t \in Elsewhere, SleeperGoto(t, "run"),
               \/ HandlerReturns(ThreadUnblock(sched, t), FALSE)
               \/ DeviceYields(ThreadUnblock(sched, t))
        PROVE  DeviceDone(ThreadUnblock(sched, t), {t})
    <3>1. t \in Blocked(sched)
      BY <1>1, <2>2 DEF AlarmConsistent, Elsewhere, Blocked
    <3>2. stage' = [u \in Thread |-> IF u \in {t} THEN "run" ELSE stage[u]]
      BY <2>1, <2>2 DEF SleeperGoto
    <3> QED
      BY <1>1, <2>1, <2>2, <3>1, <3>2, ThreadUnblockUnblocks DEF DeviceYields
  <2>3. ASSUME stage' = stage, DeviceYields(sched)
        PROVE  DeviceDone(sched, {})
    <3>1. stage' = [u \in Thread |-> IF u \in {} THEN "run" ELSE stage[u]]
      BY <2>1, <2>3
    <3> QED
      BY <1>1, <2>1, <2>3, <3>1 DEF DeviceYields
  <2> HIDE DEF DeviceDone
  <2> QED
    BY <2>2, <2>3 DEF AlarmDevice
<1>4. PICK s : \E W \in SUBSET Elsewhere : DeviceDone(s, W)
  BY <1>3
<1>5. PICK W \in SUBSET Elsewhere : DeviceDone(s, W)
  BY <1>4
<1>6. /\ Preempted(s, sched')
      /\ tangled' \in BOOLEAN /\ clean' \in BOOLEAN
      /\ clean' => /\ clean
                   /\ InWindow => sched' = s
                   /\ tangled' => sched.cur \in Asleep /\ ~InWindow
  BY <1>1, <1>5, HandlerIs
<1>7. /\ SchedOK(sched') /\ ~sched'.panic /\ Blocked(sched') = Blocked(sched) \ W
  BY <1>5, <1>6 DEF Preempted
<1>8. \A t \in Thread : /\ stage'[t] = IF t \in W THEN "run" ELSE stage[t]
                        /\ t \in W => stage[t] = "wait" /\ sched.status[t] = "BLOCKED"
  BY <1>1, <1>5 DEF Elsewhere, AlarmConsistent
<1>9. AlarmTypeOK'
  <2>1. stage' \in [Thread -> {"run", "find", "link", "block", "wait"}]
    BY <1>1, <1>5 DEF AlarmTypeOK
  <2> QED
    BY <1>1, <1>2, <1>6, <1>7, <2>1 DEF AlarmTypeOK, SchedOK, ReadyOK
<1>10. Asleep' = Asleep
  BY <1>2 DEF Asleep
<1>11. \A t \in Thread : sched'.status[t] = "BLOCKED" <=>
                          sched.status[t] = "BLOCKED" /\ t \notin W
  BY <1>7 DEF Blocked
<1>12. AlarmConsistent'
  BY <1>1, <1>2, <1>7, <1>8, <1>10, <1>11 DEF AlarmConsistent, Sleepers
<1>13. ASSUME clean'
       PROVE  AlarmQuiet'
  <2>1. AlarmQuiet
    BY <1>6, <1>13 DEF AlarmIInv
  <2>2. ~InWindow => \A t \in Thread : stage[t] \notin {"link", "block"}
    BY <1>1, <2>1 DEF AlarmQuiet, InWindow, Linking, SleeperAt
  <2>3. ~InWindow => sched.cur \notin Asleep
    <3>1. sched.cur \notin Blocked(sched)
      BY <1>1 DEF Blocked, SchedOK, OneRunning, AnyThread
    <3> QED
      BY <1>1, <2>2, <3>1 DEF AlarmConsistent, Sleepers, Blocked
  <2>4. Sound'
    BY <1>6, <1>7, <1>13, <2>3 DEF Sound
  <2>5. SleepListSorted'
    BY <1>2, <2>1 DEF AlarmQuiet, SleepListSorted
  <2>6. \A t \in Thread : stage'[t] \in {"link", "block"} => t = sched'.cur
    BY <1>5, <1>6, <1>8, <1>13, <2>1, <2>2 DEF AlarmQuiet
  <2>7. \A t \in Thread : FoundPlace(t)' = FoundPlace(t)
    BY <1>2, <1>10 DEF FoundPlace
  <2>8. \A t \in Thread : stage'[t] = "link" => before'[t] = FoundPlace(t)'
    BY <1>2, <1>8, <2>1, <2>7 DEF AlarmQuiet
  <2> QED
    BY <2>4, <2>5, <2>6, <2>8 DEF AlarmQuiet
<1> QED
  BY <1>9, <1>12, <1>13 DEF AlarmIInv

LEMMA AlarmNextKeeps == AlarmIInv /\ [AlarmNext]_alarmVars => AlarmIInv'
<1> SUFFICES ASSUME AlarmIInv, [AlarmNext]_alarmVars
             PROVE  AlarmIInv'
  OBVIOUS
<1>1. ASSUME NEW t \in Thread, SleepStep(t)
      PROVE  AlarmIInv'
  BY <1>1, SleepStartKeeps, SleepFindKeeps, SleepLinkKeeps, SleepBlockKeeps, AwaitKeeps
     DEF SleepStep
<1>2. CASE UNCHANGED alarmVars
  BY <1>2 DEF alarmVars, AlarmIInv, AlarmTypeOK, AlarmConsistent, AlarmQuiet, Sound,
              Asleep, Sleepers, SleepListSorted, FoundPlace
<1> QED
  BY <1>1, <1>2, AlarmInterruptKeeps, AlarmDeviceKeeps, AlarmIdleBlockKeeps
     DEF AlarmNext

LEMMA AlarmInvariant == AlarmSpec => []AlarmIInv
BY InitAlarm, AlarmNextKeeps, PTL DEF AlarmSpec

-------------------------------------------------------------------------------
(***************************************************************************)
(* The theorems.                                                           *)
(***************************************************************************)

\* Until the lists are tangled, sleep_list holds every thread that timer_sleep
\* has blocked once and besides them only threads on their way into thread_block.
THEOREM SleepersListedHolds == AlarmSpec => []SleepersListed
<1>1. AlarmIInv => SleepersListed
  BY DEF AlarmIInv, AlarmConsistent, SleepersListed, SchedOK, ReadyOK
<1> QED
  BY <1>1, AlarmInvariant, PTL

\* As long as no handler, of the timer or of a device, has woken a sleeper
\* during a search or taken the CPU in the window behind it, sleep_list is in
\* order, no elem is in two lists and thread_unblock's assertion holds.
THEOREM QuietWindowHolds == AlarmSpec => []QuietWindow
<1>1. AlarmIInv => QuietWindow
  BY DEF AlarmIInv, AlarmQuiet, QuietWindow, Sound, ElemOnOneList, WakesOnlyBlocked
<1> QED
  BY <1>1, AlarmInvariant, PTL

\* As long as that is so, each tick wakes exactly the sleepers that are due
\* (timer_interrupt).
THEOREM WokenOnTimeHolds == AlarmSpec => WokenOnTime
<1> DEFINE OnTime == AlarmInterrupt /\ clean =>
             \A t \in Asleep : t \in ToSet(sleep_list') <=> left[t] > 1
<1>1. ASSUME AlarmIInv, AlarmInterrupt, clean, NEW t \in Asleep
      PROVE  t \in ToSet(sleep_list') <=> left[t] > 1
  <2>1. AlarmTypeOK /\ Sound /\ AlarmConsistent /\ SleepListSorted
    BY <1>1 DEF AlarmInterrupt, AlarmIInv, AlarmConsistent, AlarmQuiet
  <2>2. PICK due \in Seq(Thread), n \in 0 .. Len(sleep_list) :
          /\ sleep_list' \in Seq(Thread)
          /\ Len(sleep_list') = Len(sleep_list) - n
          /\ \A i \in 1 .. Len(sleep_list) - n : sleep_list'[i] = sleep_list[n + i]
          /\ ToSet(sleep_list) = ToSet(due) \union ToSet(sleep_list')
          /\ Distinct(sleep_list) => ToSet(due) \intersect ToSet(sleep_list') = {}
          /\ \A u \in ToSet(due) : Ticked[u] <= 0
          /\ n < Len(sleep_list) => Ticked[sleep_list[n + 1]] > 0
    BY <1>1, <2>1, InterruptSplits
  <2>3. /\ sleep_list \in Seq(Thread) /\ Len(sleep_list) \in Nat
        /\ DOMAIN sleep_list = 1 .. Len(sleep_list)
        /\ DOMAIN sleep_list' = 1 .. Len(sleep_list) - n
        /\ left \in [Thread -> Late .. MaxSleep]
    BY <2>1, <2>2, LenProperties DEF AlarmTypeOK
  <2>4. \A i \in 1 .. Len(sleep_list) :
          sleep_list[i] \in Asleep /\ left[sleep_list[i]] \in Int
    <3>1. \A u \in Thread : left[u] \in Int
      BY <2>3
    <3> QED
      BY <2>3, <3>1, ElementOfSeq DEF Asleep, ToSet
  <2>5. t \in ToSet(due) \/ t \in ToSet(sleep_list')
    BY <1>1, <2>2 DEF Asleep
  <2>6. t \in Thread /\ left[t] \in Int
    BY <2>3, ElementOfSeq DEF Asleep, ToSet
  <2>7. Ticked[t] >= left[t] - 1
    BY <2>1, TickedIs
  <2>8. CASE t \in ToSet(due)
    <3>1. Ticked[t] <= 0 /\ Ticked[t] \in Int
      BY <2>1, <2>2, <2>6, <2>8, TickedIs
    <3>2. ~(left[t] > 1)
      BY <2>6, <2>7, <3>1
    <3>3. t \notin ToSet(sleep_list')
      BY <2>1, <2>2, <2>8 DEF AlarmConsistent
    <3> QED
      BY <3>2, <3>3
  <2>9. CASE t \in ToSet(sleep_list')
    <3>1. PICK i \in 1 .. Len(sleep_list) - n : t = sleep_list[n + i]
      BY <2>2, <2>3, <2>9 DEF ToSet
    <3> DEFINE first == sleep_list[n + 1]
    <3>2. n + 1 \in 1 .. Len(sleep_list) /\ n + i \in 1 .. Len(sleep_list) /\ n + 1 <= n + i
          /\ n < Len(sleep_list)
      BY <2>3, <3>1
    <3>3. left[first] <= left[t]
      <4>1. CASE n + 1 = n + i
        BY <2>4, <3>1, <3>2, <4>1
      <4>2. CASE n + 1 < n + i
        BY <2>1, <2>3, <3>1, <3>2, <4>2 DEF SleepListSorted
      <4> QED
        BY <3>2, <4>1, <4>2
    <3>4. Ticked[first] > 0 /\ Ticked[first] \in {Late, left[first] - 1} /\ left[first] \in Int
      BY <2>1, <2>2, <2>4, <3>2, TickedIs
    <3> HIDE DEF first
    <3>5. left[t] > 1
      BY <2>6, <3>3, <3>4, AlarmClockAssumption
    <3> QED
      BY <2>9, <3>5
  <2> QED
    BY <2>5, <2>8, <2>9
<1>2. AlarmIInv => [OnTime]_alarmVars
  BY <1>1
<1> QED
  BY <1>2, AlarmInvariant, PTL DEF WokenOnTime

-------------------------------------------------------------------------------
(***************************************************************************)
(* The multi-level feedback queue.  The priority of a thread lags behind   *)
(* its recent_cpu by the ticks it has run since the last recalculation.    *)
(***************************************************************************)
Lagging(t) ==
  \E ran \in 0 .. ticks % THREAD_RECALC_PRIO :
    sched.priority[t] = PriorityOf(recent_cpu[t] - fixedpoint(ran), nice[t])

MlfqsIInv ==
  /\ MlfqsTypeOK
  /\ SchedSound(sched) /\ ~sched.panic
  /\ \A t \in Thread \ fresh : Lagging(t)
  /\ load_avg \in 0 .. fixedpoint(Cardinality(Thread))

-------------------------------------------------------------------------------
(***************************************************************************)
(* The fixed-point numbers.                                                *)
(***************************************************************************)
LEMMA QuotientIsInt ==
  ASSUME NEW x \in Int, NEW y \in Nat \ {0}
  PROVE  Quotient(x, y) \in Int
<1>1. \A a \in Int : a \div y \in Int
  OBVIOUS
<1>2. -x \in Int
  OBVIOUS
<1> QED
  BY <1>1, <1>2 DEF Quotient

LEMMA Product == \A a, b \in Int : a * b \in Int
OBVIOUS

LEMMA ScaleIsInt == f \in Nat \ {0} /\ \A n \in Int : fixedpoint(n) \in Int
BY MlfqsAssumption, Product DEF fixedpoint

LEMMA ClampedIsPriority == \A p \in Int : Clamped(p) \in Priority
BY ThreadsAssumption DEF Clamped, Priority

LEMMA PriorityOfIsPriority ==
  ASSUME NEW cpu \in Int, NEW n \in Int
  PROVE  PriorityOf(cpu, n) \in Priority
<1> DEFINE a == fixedpoint(PRI_MAX)
           b == mix_div(cpu, 4)
           c == fixedpoint(2 * n)
<1>1. a \in Int /\ c \in Int
  BY ScaleIsInt, ThreadsAssumption
<1>2. b \in Int
  BY QuotientIsInt DEF mix_div
<1> HIDE DEF a, b, c
<1>3. Quotient(a - b - c, f) \in Int
  BY <1>1, <1>2, ScaleIsInt, QuotientIsInt
<1> QED
  BY <1>3, ClampedIsPriority DEF PriorityOf, fixedpoint_to_integer, a, b, c

\* load_avg is not negative, so that recent_cpu is not divided by zero.
LEMMA DecayedIsInt ==
  ASSUME NEW cpu \in Int, NEW n \in Int, NEW load \in Nat
  PROVE  Decayed(cpu, n, load) \in Int
<1> DEFINE y == 2 * load + fixedpoint(1)
           q == Quotient((2 * load) * f, y)
<1>1. f \in Nat \ {0} /\ fixedpoint(1) = f
  BY ScaleIsInt DEF fixedpoint
<1>2. y \in Nat \ {0}
  BY <1>1
<1> HIDE DEF y
<1>3. 2 * load \in Int /\ (2 * load) * f \in Int
  BY <1>1, Product
<1>4. q \in Int
  BY <1>2, <1>3, QuotientIsInt
<1> HIDE DEF q
<1>5. q * cpu \in Int
  BY <1>4, Product
<1>6. Quotient(q * cpu, f) \in Int
  BY <1>1, <1>5, QuotientIsInt
<1> QED
  BY <1>6, ScaleIsInt DEF Decayed, fixedpoint_mul, fixedpoint_div, q, y

LEMMA DivisionIs ==
  ASSUME NEW a \in Nat, NEW w \in Nat \ {0}
  PROVE  a \div w \in Nat /\ w * (a \div w) <= a
<1>1. a \div w \in Int /\ a = w * (a \div w) + (a % w) /\ a % w \in 0 .. w - 1
  OBVIOUS
<1> DEFINE q == a \div w
           m == a % w
<1> HIDE DEF q, m
<1>2. q >= 0
  <2> SUFFICES ASSUME q < 0
               PROVE  FALSE
    BY <1>1 DEF q
  <2>1. q <= -1 /\ q \in Int /\ m \in Int /\ m <= w - 1 /\ a = w * q + m
    BY <1>1 DEF q, m
  <2>2. w * q <= -w
    BY <2>1
  <2> QED
    BY <2>1, <2>2
<1>3. w * q \in Int
  BY <1>1, Product DEF q
<1> QED
  BY <1>1, <1>2, <1>3 DEF q, m

LEMMA RemainderUnique ==
  ASSUME NEW b \in Nat, NEW w \in Nat \ {0}, NEW q \in Int, NEW m \in 0 .. w - 1, b = w * q + m
  PROVE  b % w = m
<1> DEFINE p == b \div w
           n == b % w
<1>1. p \in Int /\ n \in 0 .. w - 1 /\ b = w * p + n
  OBVIOUS
<1> HIDE DEF p, n
<1>2. w * p \in Int /\ w * q \in Int
  BY <1>1, Product
<1>3. CASE p = q
  BY <1>1, <1>2, <1>3 DEF n
<1>4. CASE p >= q + 1
  <2>1. w * p >= w * (q + 1) /\ w * (q + 1) = w * q + w
    BY <1>1, <1>4
  <2> QED
    BY <1>1, <1>2, <2>1
<1>5. CASE q >= p + 1
  <2>1. w * q >= w * (p + 1) /\ w * (p + 1) = w * p + w
    BY <1>1, <1>5
  <2> QED
    BY <1>1, <1>2, <2>1
<1> QED
  BY <1>1, <1>3, <1>4, <1>5

LEMMA NextRemainder ==
  ASSUME NEW a \in Nat, NEW w \in Nat \ {0}, (a + 1) % w # 0
  PROVE  (a + 1) % w = (a % w) + 1
<1> DEFINE q == a \div w
           m == a % w
<1>1. q \in Int /\ m \in 0 .. w - 1 /\ a = w * q + m
  OBVIOUS
<1> HIDE DEF q, m
<1>2. CASE m + 1 < w
  <2>1. w * q \in Int
    BY <1>1, Product
  <2>2. m + 1 \in 0 .. w - 1 /\ a + 1 = w * q + (m + 1)
    <3> DEFINE wq == w * q
    <3>1. wq \in Int /\ a = wq + m
      BY <1>1, <2>1
    <3> HIDE DEF wq
    <3>2. m + 1 \in 0 .. w - 1 /\ a + 1 = wq + (m + 1)
      BY <1>1, <1>2, <3>1
    <3> QED
      BY <3>2 DEF wq
  <2>3. a + 1 \in Nat
    OBVIOUS
  <2>4. (a + 1) % w = m + 1
    BY <1>1, <2>2, <2>3, RemainderUnique
  <2> QED
    BY <2>4 DEF m
<1>3. CASE ~(m + 1 < w)
  <2>1. m + 1 = w
    BY <1>1, <1>3
  <2>2. a + 1 = w * (q + 1) + 0 /\ 0 \in 0 .. w - 1 /\ q + 1 \in Int
    <3>1. w * (q + 1) = w * q + w
      BY <1>1
    <3>2. w * q \in Int
      BY <1>1, Product
    <3> QED
      BY <1>1, <2>1, <3>1, <3>2
  <2>3. (a + 1) % w = 0
    BY <2>2, RemainderUnique, SMTT(60)
  <2> QED
    BY <2>3
<1> QED
  BY <1>2, <1>3

LEMMA CancelFactor ==
  ASSUME NEW q \in Int, NEW c \in Int, NEW w \in Nat \ {0}, w * q <= w * c
  PROVE  q <= c
<1> SUFFICES ASSUME q >= c + 1
             PROVE  FALSE
  OBVIOUS
<1>1. w * q >= w * (c + 1)
  OBVIOUS
<1>2. w * (c + 1) = w * c + w
  OBVIOUS
<1>3. w * c \in Int /\ w * q \in Int
  BY Product
<1> QED
  BY <1>1, <1>2, <1>3

\* A weighted average of two numbers up to C, both rounded down.
LEMMA AverageBounded ==
  ASSUME NEW w \in Nat \ {0}, NEW c \in Nat, NEW x \in 0 .. c, NEW y \in 0 .. c
  PROVE  ((w - 1) * x) \div w + y \div w \in 0 .. c
<1> DEFINE a == (w - 1) * x
           p == a \div w
           q == y \div w
<1>1. a \in Nat /\ y \in Nat /\ a + y <= w * c
  <2>1. a = w * x - x /\ w * x \in Nat
    OBVIOUS
  <2>2. (w - 1) * x <= (w - 1) * c /\ (w - 1) * x >= 0
    OBVIOUS
  <2>3. (w - 1) * c = w * c - c
    OBVIOUS
  <2>4. w * c \in Int /\ a \in Int
    BY Product
  <2> HIDE DEF a
  <2> QED
    BY <2>2, <2>3, <2>4 DEF a
<1> HIDE DEF a
<1>2. p \in Nat /\ q \in Nat /\ w * p <= a /\ w * q <= y
  BY <1>1, DivisionIs
<1> HIDE DEF p, q
<1>3. w * (p + q) <= w * c
  <2>1. w * (p + q) = w * p + w * q
    BY <1>2
  <2>2. w * p \in Int /\ w * q \in Int /\ w * c \in Int
    BY <1>2, Product
  <2> QED
    BY <1>1, <1>2, <2>1, <2>2
<1>4. p + q <= c
  BY <1>2, <1>3, CancelFactor
<1> QED
  BY <1>2, <1>4 DEF p, q, a

-------------------------------------------------------------------------------
(***************************************************************************)
(* load_avg counts every thread once at most.                              *)
(***************************************************************************)
LEMMA ReadyThreadsBounded ==
  ASSUME SchedSound(sched)
  PROVE  ReadyThreads \in 0 .. Cardinality(Thread)
<1> DEFINE n == Len(sched.ready)
           R == ToSet(sched.ready)
           N == Cardinality(Thread)
<1>1. /\ sched.ready \in Seq(AnyThread) /\ Distinct(sched.ready) /\ sched.cur \in AnyThread
      /\ R = { t \in Thread : sched.status[t] = "READY" }
      /\ sched.status[sched.cur] = "RUNNING"
  BY DEF SchedSound, SchedState, ReadyListExact, OneRunning
<1>2. n \in Nat /\ DOMAIN sched.ready = 1 .. n
  BY <1>1, LenProperties
<1>3. sched.ready \in Bijection(1 .. n, R)
  <2>1. sched.ready \in [1 .. n -> R]
    BY <1>1, <1>2 DEF ToSet
  <2>2. sched.ready \in Injection(1 .. n, R)
    BY <1>1, <1>2, <2>1 DEF Injection, IsInjective, Distinct
  <2>3. sched.ready \in Surjection(1 .. n, R)
    BY <1>2, <2>1 DEF Surjection, ToSet
  <2> QED
    BY <2>2, <2>3 DEF Bijection
<1>4. IsFiniteSet(1 .. n) /\ Cardinality(1 .. n) = n
  <2>1. n \in Int /\ 1 \in Int /\ (IF 1 > n THEN 0 ELSE n - 1 + 1) = n
    BY <1>2
  <2> HIDE DEF n
  <2> QED
    BY <2>1, FS_Interval
<1>5. Cardinality(R) = n
  <2>1. ExistsBijection(1 .. n, R)
    BY <1>3 DEF ExistsBijection
  <2> QED
    BY <1>4, <2>1, FS_Bijection
<1>6. IsFiniteSet(Thread) /\ N \in Nat
  BY ThreadsAssumption, FS_CardinalityType
<1>7. R \in SUBSET Thread
  BY <1>1
<1>8. IsFiniteSet(R) /\ n <= N
  BY <1>5, <1>6, <1>7, FS_Subset
<1>9. CASE sched.cur = Idle
  BY <1>2, <1>6, <1>8, <1>9 DEF ReadyThreads
<1>10. CASE sched.cur # Idle
  <2>1. sched.cur \in Thread /\ sched.cur \notin R
    BY <1>1, <1>10 DEF AnyThread
  <2>2. Cardinality(R \union {sched.cur}) = n + 1
    BY <1>5, <1>8, <2>1, FS_AddElement
  <2>3. R \union {sched.cur} \in SUBSET Thread
    BY <1>7, <2>1
  <2>4. n + 1 <= N
    BY <1>6, <2>2, <2>3, FS_Subset
  <2> QED
    BY <1>2, <1>6, <1>10, <2>4 DEF ReadyThreads
<1> QED
  BY <1>9, <1>10

LEMMA LoadAvgBounded ==
  ASSUME MlfqsIInv
  PROVE  LoadAvg \in 0 .. fixedpoint(Cardinality(Thread))
<1> DEFINE N == Cardinality(Thread)
           c == N * f
           y == ReadyThreads * f
<1>1. N \in Nat /\ f \in Nat \ {0} /\ Window \in Nat \ {0}
  BY ThreadsAssumption, MlfqsAssumption, FS_CardinalityType
<1>2. ReadyThreads \in 0 .. N
  BY ReadyThreadsBounded DEF MlfqsIInv
<1>3. c \in Nat
  BY <1>1
<1>4. y \in 0 .. c
  <2> DEFINE k == ReadyThreads
  <2>1. k \in Nat /\ k <= N
    BY <1>1, <1>2
  <2> HIDE DEF k, N
  <2>2. k * f <= N * f /\ k * f \in Nat
    BY <1>1, <2>1
  <2> QED
    BY <1>3, <2>2 DEF k
<1>5. load_avg \in 0 .. c
  BY DEF MlfqsIInv, fixedpoint
<1> HIDE DEF c, y, N
<1>6. ((Window - 1) * load_avg) \div Window + y \div Window \in 0 .. c
  BY <1>1, <1>3, <1>4, <1>5, AverageBounded
<1>7. (Window - 1) * load_avg >= 0 /\ y >= 0
  BY <1>1, <1>3, <1>4, <1>5
<1>8. LoadAvg = ((Window - 1) * load_avg) \div Window + y \div Window
  BY <1>7 DEF LoadAvg, mix_div, Quotient, fixedpoint, y
<1> QED
  BY <1>6, <1>8 DEF fixedpoint, c, N

-------------------------------------------------------------------------------
(***************************************************************************)
(* What an interrupt and the recalculation do to the threads.              *)
(***************************************************************************)
LEMMA SameThreadsSound ==
  ASSUME NEW s, SchedSound(s), NEW r \in SchedState, SameThreads(s, r)
  PROVE  SchedSound(r)
BY DEF SameThreads, SchedSound, ReadyListExact, OneRunning

LEMMA ThreadTickSame ==
  ASSUME NEW s \in SchedState
  PROVE  ThreadTick(s) \in SchedState /\ SameThreads(s, ThreadTick(s))
<1> DEFINE b == s.yield_on_return \/ s.thread_ticks + 1 >= TIME_SLICE
<1>1. b \in BOOLEAN
  BY DEF SchedState
<1>2. ThreadTick(s) = Tick(s, b)
  BY Zenon DEF ThreadTick
<1> HIDE DEF b
<1> QED
  BY <1>1, <1>2, TickOK, Zenon

LEMMA IntrPreemptionSame ==
  ASSUME NEW s \in SchedState
  PROVE  IntrPreemption(s) \in SchedState /\ SameThreads(s, IntrPreemption(s))
<1>1. CASE s.ready = << >>
  BY <1>1 DEF IntrPreemption, SameThreads
<1>2. CASE s.ready # << >>
  <2> DEFINE b == \/ s.yield_on_return
                  \/ Outranked(s)
                  \/ /\ s.priority[s.cur] = s.priority[Head(s.ready)]
                     /\ s.thread_ticks + 1 >= TIME_SLICE
  <2>1. b \in BOOLEAN
    BY DEF SchedState
  <2>2. IntrPreemption(s) = Tick(s, b)
    BY <1>2, Zenon DEF IntrPreemption
  <2> HIDE DEF b
  <2> QED
    BY <2>1, <2>2, TickOK, Zenon
<1> QED
  BY <1>1, <1>2

LEMMA InterruptSound ==
  ASSUME NEW s, SchedSound(s)
  PROVE  LET r == IntrReturn(IntrPreemption(s))
         IN  SchedSound(r) /\ r.priority = s.priority /\ r.panic = s.panic
<1> DEFINE u == IntrPreemption(s)
           done == [u EXCEPT !.yield_on_return = FALSE]
<1>1. u \in SchedState /\ SameThreads(s, u)
  BY IntrPreemptionSame DEF SchedSound
<1>2. IntrReturn(u) = IF u.yield_on_return /\ ~u.panic THEN ThreadYield(done) ELSE done
  BY DEF IntrReturn
<1> HIDE DEF u
<1>3. u.thread_ticks \in Nat
      /\ done = [u EXCEPT !.thread_ticks = u.thread_ticks, !.yield_on_return = FALSE]
  BY <1>1 DEF SchedState
<1>4. done \in SchedState /\ SameThreads(u, done)
  BY <1>1, <1>3, SetTicksAndFlag
<1> HIDE DEF done
<1>5. SameThreads(s, done)
  BY <1>1, <1>4 DEF SameThreads
<1>6. SchedSound(done) /\ done.priority = s.priority /\ done.panic = s.panic
  BY <1>4, <1>5, SameThreadsSound DEF SameThreads
<1>7. SchedSound(ThreadYield(done)) /\ ThreadYield(done).priority = s.priority
      /\ ThreadYield(done).panic = s.panic
  BY <1>6, YieldSound
<1> QED
  BY <1>2, <1>6, <1>7 DEF u

LEMMA RepriorityIs ==
  ASSUME NEW s \in SchedState, NEW cpu \in [Thread -> Int], nice \in [Thread -> Int]
  PROVE  LET r == Repriority(s, cpu)
         IN  /\ r \in SchedState
             /\ r.cur = s.cur /\ r.status = s.status /\ r.ready = s.ready /\ r.panic = s.panic
             /\ \A t \in Thread : r.priority[t] = PriorityOf(cpu[t], nice[t])
<1> DEFINE level == [t \in AnyThread |-> IF t = Idle THEN s.priority[t]
                                         ELSE PriorityOf(cpu[t], nice[t])]
<1>1. level \in [AnyThread -> Priority]
  <2> SUFFICES ASSUME NEW t \in AnyThread
               PROVE  (IF t = Idle THEN s.priority[t] ELSE PriorityOf(cpu[t], nice[t])) \in Priority
    OBVIOUS
  <2>1. CASE t = Idle
    BY <2>1 DEF SchedState
  <2>2. CASE t # Idle
    <3>1. t \in Thread /\ cpu[t] \in Int /\ nice[t] \in Int
      BY <2>2 DEF AnyThread
    <3> QED
      BY <2>2, <3>1, PriorityOfIsPriority
  <2> QED
    BY <2>1, <2>2
<1>2. \A t \in Thread : level[t] = PriorityOf(cpu[t], nice[t])
  BY ThreadsAssumption DEF AnyThread
<1>3. Repriority(s, cpu) = [s EXCEPT !.priority = level]
  BY DEF Repriority
<1> HIDE DEF level
<1> QED
  BY <1>1, <1>2, <1>3 DEF SchedState

-------------------------------------------------------------------------------
(***************************************************************************)
(* The actions.                                                            *)
(***************************************************************************)
LEMMA InitMlfqs == MlfqsInit => MlfqsIInv
<1> SUFFICES ASSUME MlfqsInit PROVE MlfqsIInv
  OBVIOUS
<1> DEFINE S == Thread \ {Main}
           order == SetToSeq(S)
           prio == [t \in Thread |-> PRI_DEFAULT]
<1>1. /\ sched = StartedSched(order, prio) /\ nice = [t \in Thread |-> 0]
      /\ recent_cpu = [t \in Thread |-> 0] /\ load_avg = 0 /\ ticks = 0
      /\ changes = 0 /\ age = 0 /\ fresh = Thread
  BY DEF MlfqsInit
<1>2. IsFiniteSet(S)
  BY ThreadsAssumption, FS_RemoveElement
<1>3. order \in [1 .. Cardinality(S) -> S] /\ Distinct(order)
  <2> HIDE DEF S
  <2>1. ExistsBijection(1 .. Cardinality(S), S)
    BY <1>2, FS_CardinalityType
  <2>2. \E g \in [1 .. Cardinality(S) -> S] : IsInjective(g)
    BY <2>1 DEF ExistsBijection, Bijection, Injection, Surjection, IsInjective
  <2>3. SetToSeq(S) \in [1 .. Cardinality(S) -> S] /\ IsInjective(SetToSeq(S))
    BY <2>2 DEF SetToSeq
  <2> QED
    BY <2>3 DEF IsInjective, Distinct
<1>4. prio \in [Thread -> Priority]
  BY ThreadsAssumption DEF Priority
<1> HIDE DEF order, prio
<1>5. SchedOK(sched) /\ ~sched.panic
  BY <1>1, <1>3, <1>4, StartedOK
<1>6. SchedSound(sched)
  BY <1>5, OKIsSound
<1>7. MlfqsTypeOK
  BY <1>1, <1>6, MlfqsAssumption DEF MlfqsTypeOK, SchedSound
<1>8. load_avg \in 0 .. fixedpoint(Cardinality(Thread))
  <2>1. Cardinality(Thread) \in Nat
    BY ThreadsAssumption, FS_CardinalityType
  <2>2. fixedpoint(Cardinality(Thread)) \in Nat
    BY <2>1, MlfqsAssumption DEF fixedpoint
  <2> QED
    BY <1>1, <2>2
<1> QED
  BY <1>1, <1>5, <1>6, <1>7, <1>8 DEF MlfqsIInv

\* A step that changes no priority, and nothing it is computed from.
LEMMA PrioritiesKept ==
  ASSUME MlfqsIInv, SchedSound(sched'), sched'.priority = sched.priority, ~sched'.panic,
         changes' \in 0 .. Changes,
         UNCHANGED <<nice, recent_cpu, load_avg, ticks, age, fresh>>
  PROVE  MlfqsIInv'
<1>1. MlfqsTypeOK'
  BY DEF MlfqsIInv, MlfqsTypeOK, SchedSound
<1>2. \A t \in Thread \ fresh : Lagging(t)'
  BY DEF MlfqsIInv, Lagging
<1> QED
  BY <1>1, <1>2 DEF MlfqsIInv

LEMMA ChangeCounts == MlfqsIInv /\ Change => changes' \in 0 .. Changes
BY MlfqsAssumption DEF MlfqsIInv, MlfqsTypeOK, Change

LEMMA BlockKeeps == MlfqsIInv /\ MlfqsBlock => MlfqsIInv'
<1> SUFFICES ASSUME MlfqsIInv, MlfqsBlock PROVE MlfqsIInv'
  OBVIOUS
<1>1. SchedSound(sched') /\ sched'.priority = sched.priority /\ ~sched'.panic
  BY BlockSound DEF MlfqsIInv, MlfqsBlock
<1> QED
  BY <1>1, PrioritiesKept, ChangeCounts DEF MlfqsBlock, Change

LEMMA UnblockKeeps == MlfqsIInv /\ (\E t \in Thread : Unblock(t)) => MlfqsIInv'
<1> SUFFICES ASSUME MlfqsIInv, NEW t \in Thread, Unblock(t) PROVE MlfqsIInv'
  OBVIOUS
<1> DEFINE u == ThreadUnblock(sched, t)
<1>1. t \in Blocked(sched) /\ SchedSound(sched) /\ ~sched.panic
  BY DEF Unblock, Blocked, MlfqsIInv
<1>2. SchedSound(u) /\ u.priority = sched.priority /\ ~u.panic
  BY <1>1, UnblockSound
<1> HIDE DEF u
<1>3. sched' = IntrReturn(IntrPreemption(u))
  BY DEF Unblock, u
<1>4. SchedSound(sched') /\ sched'.priority = sched.priority /\ ~sched'.panic
  BY <1>2, <1>3, InterruptSound
<1>5. /\ changes' \in 0 .. Changes
      /\ UNCHANGED <<nice, recent_cpu, load_avg, ticks, age, fresh>>
  BY DEF Unblock, MlfqsIInv, MlfqsTypeOK
<1> QED
  BY <1>4, <1>5, PrioritiesKept

LEMMA SetNiceKeeps == MlfqsIInv /\ (\E n \in Nice : thread_set_nice(n)) => MlfqsIInv'
<1> SUFFICES ASSUME MlfqsIInv, NEW n \in Nice, thread_set_nice(n) PROVE MlfqsIInv'
  OBVIOUS
<1> DEFINE c == sched.cur
           new == PriorityOf(recent_cpu[c], n)
<1>1. /\ c # Idle /\ Change /\ nice' = [nice EXCEPT ![c] = n]
      /\ sched' = [sched EXCEPT !.priority[c] = new]
      /\ fresh' = fresh \ {c} /\ UNCHANGED <<recent_cpu, load_avg, ticks, age>>
  BY DEF thread_set_nice, Change
<1>2. /\ sched \in SchedState /\ SchedSound(sched) /\ ~sched.panic
      /\ nice \in [Thread -> Int] /\ recent_cpu \in [Thread -> Int] /\ n \in Int
      /\ ticks \in 0 .. TIMER_FREQ - 1
  BY MlfqsAssumption DEF MlfqsIInv, MlfqsTypeOK
<1>3. c \in Thread /\ c \in AnyThread
  BY <1>1, <1>2 DEF SchedState, AnyThread
<1>4. new \in Priority /\ recent_cpu[c] \in Int
  BY <1>2, <1>3, PriorityOfIsPriority
<1> HIDE DEF c, new
<1>5. /\ sched' \in SchedState /\ sched'.cur = sched.cur /\ sched'.status = sched.status
      /\ sched'.ready = sched.ready /\ sched'.panic = sched.panic
      /\ \A t \in AnyThread : sched'.priority[t] = IF t = c THEN new ELSE sched.priority[t]
  BY <1>1, <1>2, <1>3, <1>4 DEF SchedState
<1>6. SchedSound(sched')
  BY <1>2, <1>5 DEF SchedSound, ReadyListExact, OneRunning
<1>7. MlfqsTypeOK'
  BY <1>1, <1>2, <1>3, <1>5, ChangeCounts DEF MlfqsIInv, MlfqsTypeOK
<1>8. ASSUME NEW t \in Thread \ fresh'
      PROVE  Lagging(t)'
  <2>1. t \in AnyThread
    BY DEF AnyThread
  <2>2. CASE t = c
    <3>1. 0 \in 0 .. ticks % THREAD_RECALC_PRIO
      BY <1>2, MlfqsAssumption
    <3>2. fixedpoint(0) = 0
      BY MlfqsAssumption DEF fixedpoint
    <3>3. recent_cpu[c] - fixedpoint(0) = recent_cpu[c] /\ nice'[c] = n
      BY <1>1, <1>2, <1>3, <1>4, <3>2
    <3>4. sched'.priority[c] = PriorityOf(recent_cpu[c] - fixedpoint(0), nice'[c])
      BY <1>3, <1>5, <3>3 DEF new
    <3> QED
      BY <1>1, <2>2, <3>1, <3>4 DEF Lagging
  <2>3. CASE t # c
    <3>1. Lagging(t) /\ nice'[t] = nice[t] /\ sched'.priority[t] = sched.priority[t]
      BY <1>1, <1>2, <1>5, <2>1, <2>3 DEF MlfqsIInv
    <3> QED
      BY <1>1, <3>1 DEF Lagging
  <2> QED
    BY <2>2, <2>3
<1> QED
  BY <1>1, <1>2, <1>5, <1>6, <1>7, <1>8 DEF MlfqsIInv

LEMMA TickKeeps == MlfqsIInv /\ MlfqsInterrupt => MlfqsIInv'
<1> SUFFICES ASSUME MlfqsIInv, MlfqsInterrupt PROVE MlfqsIInv'
  OBVIOUS
<1> DEFINE now == (ticks + 1) % TIMER_FREQ
           ticked == ThreadTick(sched)
           due == now % THREAD_RECALC_PRIO = 0
           s == IF due THEN Repriority(ticked, recent_cpu') ELSE ticked
           load == fixedpoint(Cardinality(Thread))
<1>1. /\ ticks' = now
      /\ load_avg' = IF now = 0 THEN LoadAvg ELSE load_avg
      /\ recent_cpu' = IF now = 0
                         THEN [t \in Thread |-> Decayed(Charged[t], nice[t], load_avg')]
                         ELSE Charged
      /\ sched' = IntrReturn(IntrPreemption(s))
      /\ fresh' = IF due THEN {} ELSE fresh
      /\ age' = IF age < Early THEN age + 1 ELSE age
      /\ UNCHANGED <<nice, changes>>
  BY DEF MlfqsInterrupt
<1>2. /\ sched \in SchedState /\ SchedSound(sched) /\ ~sched.panic
      /\ nice \in [Thread -> Int] /\ recent_cpu \in [Thread -> Int]
      /\ ticks \in 0 .. TIMER_FREQ - 1 /\ fresh \subseteq Thread /\ age \in 0 .. Early
      /\ changes \in 0 .. Changes /\ load_avg \in 0 .. load
  BY DEF MlfqsIInv, MlfqsTypeOK
<1>3. /\ now \in 0 .. TIMER_FREQ - 1 /\ (now # 0 => now = ticks + 1)
  BY <1>2, MlfqsAssumption
<1>4. load_avg' \in 0 .. load /\ load_avg' \in Nat
  <2>1. load \in Int
    <3>1. Cardinality(Thread) \in Nat
      BY ThreadsAssumption, FS_CardinalityType
    <3> QED
      BY <3>1, ScaleIsInt
  <2> HIDE DEF load, now
  <2>2. load_avg' \in 0 .. load
    BY <1>1, <1>2, LoadAvgBounded DEF load
  <2> QED
    BY <2>1, <2>2
<1>5. Charged \in [Thread -> Int] /\ sched.cur \in AnyThread
      /\ \A t \in Thread : Charged[t] = IF t = sched.cur THEN recent_cpu[t] + fixedpoint(1)
                                        ELSE recent_cpu[t]
  <2>1. fixedpoint(1) \in Int /\ sched.cur \in AnyThread
    BY <1>2, ScaleIsInt DEF SchedState
  <2>2. sched.cur # Idle => sched.cur \in Thread
    BY <2>1 DEF AnyThread
  <2> QED
    BY <1>2, <2>1, <2>2, ThreadsAssumption DEF Charged
<1>6. recent_cpu' \in [Thread -> Int]
  <2>1. \A t \in Thread : Decayed(Charged[t], nice[t], load_avg') \in Int
    BY <1>2, <1>4, <1>5, DecayedIsInt
  <2> HIDE DEF now
  <2> QED
    BY <1>1, <1>5, <2>1
<1>7. ticked \in SchedState /\ SameThreads(sched, ticked)
  BY <1>2, ThreadTickSame
<1> HIDE DEF ticked, load
<1>8. /\ s \in SchedState /\ s.cur = sched.cur /\ s.status = sched.status
      /\ s.ready = sched.ready /\ s.panic = sched.panic
      /\ \A t \in Thread : s.priority[t] = IF due THEN PriorityOf(recent_cpu'[t], nice[t])
                                           ELSE sched.priority[t]
  <2> HIDE DEF now
  <2>1. CASE due
    BY <1>2, <1>6, <1>7, <2>1, RepriorityIs DEF SameThreads
  <2>2. CASE ~due
    BY <1>7, <2>2 DEF SameThreads
  <2> QED
    BY <2>1, <2>2
<1> HIDE DEF s
<1>9. SchedSound(s)
  BY <1>2, <1>8 DEF SchedSound, ReadyListExact, OneRunning
<1>10. SchedSound(sched') /\ sched'.priority = s.priority /\ ~sched'.panic
  BY <1>1, <1>2, <1>8, <1>9, InterruptSound
<1>11. MlfqsTypeOK'
  <2>1. age' \in 0 .. Early
    BY <1>1, <1>2, MlfqsAssumption
  <2>2. load_avg' \in Int /\ fresh' \subseteq Thread
    BY <1>1, <1>2, <1>4
  <2> QED
    BY <1>1, <1>2, <1>3, <1>6, <1>10, <2>1, <2>2 DEF MlfqsTypeOK, SchedSound
<1>12. ASSUME NEW t \in Thread \ fresh'
       PROVE  Lagging(t)'
  <2>1. CASE due
    <3>1. 0 \in 0 .. ticks' % THREAD_RECALC_PRIO
      BY <1>1, <2>1
    <3>2. fixedpoint(0) = 0
      BY MlfqsAssumption DEF fixedpoint
    <3>3. recent_cpu'[t] - fixedpoint(0) = recent_cpu'[t] /\ nice' = nice
      BY <1>1, <1>6, <3>2
    <3>4. sched'.priority[t] = PriorityOf(recent_cpu'[t] - fixedpoint(0), nice'[t])
      BY <1>8, <1>10, <2>1, <3>3
    <3> QED
      BY <3>1, <3>4 DEF Lagging
  <2>2. CASE ~due
    <3>1. now # 0 /\ now = ticks + 1
      <4>1. 0 % THREAD_RECALC_PRIO = 0
        BY MlfqsAssumption
      <4> QED
        BY <1>3, <2>2, <4>1
    <3>2. ticks' % THREAD_RECALC_PRIO = (ticks % THREAD_RECALC_PRIO) + 1
      <4>1. ticks' = ticks + 1 /\ (ticks + 1) % THREAD_RECALC_PRIO # 0
        BY <1>1, <2>2, <3>1
      <4>2. ticks \in Nat /\ THREAD_RECALC_PRIO \in Nat \ {0}
        BY <1>2, MlfqsAssumption
      <4> HIDE DEF now, due
      <4>3. (ticks + 1) % THREAD_RECALC_PRIO = (ticks % THREAD_RECALC_PRIO) + 1
        BY <4>1, <4>2, NextRemainder
      <4> QED
        BY <4>1, <4>3
    <3>3. t \notin fresh /\ Lagging(t)
      BY <1>1, <2>2 DEF MlfqsIInv
    <3>4. PICK ran \in 0 .. ticks % THREAD_RECALC_PRIO :
            sched.priority[t] = PriorityOf(recent_cpu[t] - fixedpoint(ran), nice[t])
      BY <3>3 DEF Lagging
    <3>5. /\ sched'.priority[t] = sched.priority[t] /\ nice' = nice
          /\ recent_cpu' = Charged
      BY <1>1, <1>8, <1>10, <2>2, <3>1
    <3>6. /\ ticks % THREAD_RECALC_PRIO \in Int
          /\ ran \in 0 .. ticks' % THREAD_RECALC_PRIO
          /\ ran + 1 \in 0 .. ticks' % THREAD_RECALC_PRIO
      <4>1. ticks % THREAD_RECALC_PRIO \in Nat
        BY <1>2, MlfqsAssumption
      <4> HIDE DEF now, due
      <4> QED
        BY <3>2, <4>1
    <3>7. CASE t = sched.cur
      <4>1. recent_cpu'[t] - fixedpoint(ran + 1) = recent_cpu[t] - fixedpoint(ran)
        <5>1. recent_cpu'[t] = recent_cpu[t] + fixedpoint(1)
          BY <1>5, <3>5, <3>7
        <5>2. fixedpoint(ran + 1) = fixedpoint(ran) + fixedpoint(1)
              /\ fixedpoint(ran) \in Int /\ fixedpoint(1) \in Int
          BY <3>6, MlfqsAssumption DEF fixedpoint
        <5>3. recent_cpu[t] \in Int
          BY <1>2
        <5> QED
          BY <5>1, <5>2, <5>3
      <4> QED
        BY <3>4, <3>5, <3>6, <4>1 DEF Lagging
    <3>8. CASE t # sched.cur
      <4>1. recent_cpu'[t] = recent_cpu[t]
        BY <1>5, <3>5, <3>8
      <4> QED
        BY <3>4, <3>5, <3>6, <4>1 DEF Lagging
    <3> QED
      BY <3>7, <3>8
  <2> QED
    BY <2>1, <2>2
<1> QED
  BY <1>4, <1>10, <1>11, <1>12 DEF MlfqsIInv, load

LEMMA MlfqsNextKeeps == MlfqsIInv /\ [MlfqsNext]_mlfqsVars => MlfqsIInv'
<1> SUFFICES ASSUME MlfqsIInv, [MlfqsNext]_mlfqsVars PROVE MlfqsIInv'
  OBVIOUS
<1>1. CASE UNCHANGED mlfqsVars
  BY <1>1 DEF mlfqsVars, MlfqsIInv, MlfqsTypeOK, Lagging
<1> QED
  BY <1>1, TickKeeps, SetNiceKeeps, BlockKeeps, UnblockKeeps DEF MlfqsNext

LEMMA MlfqsInvariant == MlfqsSpec => []MlfqsIInv
BY InitMlfqs, MlfqsNextKeeps, PTL DEF MlfqsSpec

(***************************************************************************)
(* Under thread_mlfqs the priority of a thread is the one that             *)
(* thread_recalc_priority computes, from a recent_cpu that is behind by    *)
(* the ticks it has run since the last recalculation; load_avg, by which   *)
(* recent_cpu fades, stays between 0 and the number of threads, so that    *)
(* nothing is divided by zero; and the ready list holds those that are     *)
(* READY, whatever their priorities become (threads/thread.c).             *)
(***************************************************************************)
THEOREM PriorityCurrentHolds == MlfqsSpec => []PriorityCurrent
<1>1. MlfqsIInv => PriorityCurrent
  BY DEF MlfqsIInv, PriorityCurrent, SchedSound, Lagging
<1> QED
  BY <1>1, MlfqsInvariant, PTL
===============================================================================
