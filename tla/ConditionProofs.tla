---------------------------- MODULE ConditionProofs ----------------------------
(***************************************************************************)
(* For all sets of threads and any priorities: at most one thread is in    *)
(* the monitor, a signal is not lost on its way to the thread it is for,   *)
(* the list of waiters holds the waiters, and if they are all asleep, the  *)
(* one that is signalled has the highest priority.                         *)
(***************************************************************************)
EXTENDS Condition, ThreadsProofs

-------------------------------------------------------------------------------
(***************************************************************************)
(* The inductive invariant.  Whoever is BLOCKED is among the waiters of    *)
(* the one semaphore it is looping for, so that a sema_up finds a thread   *)
(* to wake if there is one; the monitor is entered with the lock's unit;   *)
(* and it takes the monitor to signal, so the list is not empty when       *)
(* cond_signal, having looked, takes its front.                            *)
(***************************************************************************)
Binary == [value : 0 .. 1, waiters : Seq(Thread)]

LockPc == {"lock_down", "wait_lock_down"}

CondPc == {"wait_release", "wait_down", "waiting"}

MonitorPc == {"own", "wait_release", "broadcast", "signal_up", "broadcast_up"}

Sleepers ==
  /\ Distinct(lock.waiters)
  /\ ToSet(lock.waiters) = { t \in Blocked(sched) : pc[t] \in LockPc }
  /\ \A t \in Thread :
       /\ Distinct(private[t].waiters)
       /\ ToSet(private[t].waiters) = { u \in Blocked(sched) : u = t /\ pc[u] = "waiting" }
  /\ \A t \in Blocked(sched) : pc[t] \in LockPc \union {"waiting"}

Monitor ==
  /\ lock.value = 1 => InMonitor = {}
  /\ lock.value = 0 => \E h \in Thread : InMonitor = {h}

Signalling == \A t \in Thread : pc[t] \in {"signal_up", "broadcast_up"} => waiters # << >>

Kept(t) ==
  pc[t] \in CondPc =>
    IF t \in ToSet(waiters) THEN private[t].value = 0
    ELSE private[t].value = 1 /\ t \notin Blocked(sched)

Places ==
  /\ lock \in Binary /\ waiters \in Seq(Thread)
  /\ private \in [Thread -> Binary] /\ pc \in [Thread -> PC]

IInv ==
  /\ SchedOK(sched) /\ Places
  /\ Sleepers /\ Monitor /\ Signalling
  /\ \A t \in Thread : Kept(t)
  /\ Distinct(waiters) /\ \A t \in ToSet(waiters) : pc[t] \in CondPc

LEMMA Lists ==
  ASSUME NEW list \in Seq(Thread)
  PROVE  /\ ToSet(list) \subseteq Thread
         /\ list = << >> <=> ToSet(list) = {}
<1>1. DOMAIN list = 1 .. Len(list) /\ \A k \in 1 .. Len(list) : list[k] \in Thread
  BY LenProperties, ElementOfSeq
<1>2. list # << >> => 1 \in DOMAIN list
  BY <1>1, EmptySeq, LenProperties
<1>3. ToSet(<< >>) = {}
  BY DEF ToSet
<1> QED
  BY <1>1, <1>2, <1>3 DEF ToSet

LEMMA Binaries ==
  /\ Binary \subseteq SemaState
  /\ \A d \in SemaState : d.value \in 0 .. 1 => d \in Binary
BY DEF Binary, SemaState

LEMMA MonitorHasOne ==
  ASSUME IInv
  PROVE  MonitorExclusive
<1>1. lock.value \in 0 .. 1
  BY DEF IInv, Places, Binary
<1>2. CASE lock.value = 1
  <2>1. InMonitor = {}
    BY <1>2 DEF IInv, Monitor
  <2>2. Cardinality(InMonitor) = 0
    BY <2>1, FS_EmptySet
  <2> QED
    BY <1>2, <2>2 DEF MonitorExclusive
<1>3. CASE lock.value = 0
  <2>1. PICK h \in Thread : InMonitor = {h}
    BY <1>3 DEF IInv, Monitor
  <2>2. Cardinality(InMonitor) = 1
    BY <2>1, FS_Singleton
  <2> QED
    BY <1>3, <2>2 DEF MonitorExclusive
<1> QED
  BY <1>1, <1>2, <1>3

LEMMA IInvMeans == IInv => MonitorExclusive /\ SignalKept /\ WaitersInCondWait
<1> SUFFICES ASSUME IInv PROVE MonitorExclusive /\ SignalKept /\ WaitersInCondWait
  OBVIOUS
<1>1. SignalKept
  BY DEF IInv, Kept, SignalKept, CondPc, Blocked
<1>2. TypeOK
  BY DEF IInv, Places, Binary, TypeOK, SchedOK, ReadyOK
<1>3. WaitersInCondWait
  BY <1>2 DEF IInv, WaitersInCondWait, CondPc
<1> QED
  BY <1>1, <1>3, MonitorHasOne

LEMMA InitIInv == Init => IInv
<1> SUFFICES ASSUME Init PROVE IInv
  OBVIOUS
<1>1. SchedOK(sched) /\ Blocked(sched) = {}
  BY StartedOK DEF Init
<1>2. /\ lock = [value |-> 1, waiters |-> << >>] /\ waiters = << >>
      /\ private = [t \in Thread |-> [value |-> 0, waiters |-> << >>]]
      /\ pc = [t \in Thread |-> "run"]
  BY DEF Init, SemaInit
<1>3. /\ << >> \in Seq(Thread) /\ ToSet(<< >>) = {} /\ Distinct(<< >>)
  BY DEF ToSet, Distinct
<1>4. Places
  BY <1>2, <1>3 DEF Places, Binary, PC
<1>5. /\ lock.value = 1 /\ lock.waiters = << >>
      /\ \A t \in Thread : private[t].waiters = << >> /\ pc[t] = "run"
  BY <1>2
<1>6. Sleepers
  BY <1>1, <1>3, <1>5 DEF Sleepers
<1>7. Monitor /\ Signalling /\ \A t \in Thread : Kept(t)
  BY <1>5 DEF Monitor, InMonitor, Signalling, Kept, CondPc
<1> QED
  BY <1>1, <1>2, <1>3, <1>4, <1>6, <1>7 DEF IInv

-------------------------------------------------------------------------------
(***************************************************************************)
(* Steps of the scheduler alone, and steps inside the monitor.             *)
(***************************************************************************)
LEMMA QuietStep ==
  ASSUME IInv, SchedOK(sched'), Blocked(sched') = Blocked(sched),
         UNCHANGED <<lock, waiters, private, pc>>
  PROVE  IInv'
<1>1. Places' /\ Sleepers' /\ Monitor' /\ Signalling'
  BY DEF IInv, Places, Sleepers, Monitor, InMonitor, Signalling
<1>2. \A t \in Thread : Kept(t)'
  BY DEF IInv, Kept
<1>3. Distinct(waiters)' /\ \A t \in ToSet(waiters') : pc'[t] \in CondPc
  BY DEF IInv
<1> QED
  BY <1>1, <1>2, <1>3 DEF IInv

\* The thread in the monitor goes on in it, and may sort the waiters.
LEMMA MonitorStep ==
  ASSUME IInv, NEW t \in Thread, pc[t] \in {"own", "broadcast"},
         NEW l \in {"own", "broadcast", "signal_up", "broadcast_up"},
         pc' = [pc EXCEPT ![t] = l], UNCHANGED <<sched, lock, private>>,
         waiters' \in Seq(Thread), ToSet(waiters') = ToSet(waiters), Distinct(waiters'),
         l \in {"signal_up", "broadcast_up"} => waiters # << >>
  PROVE  IInv'
<1>1. /\ pc \in [Thread -> PC] /\ waiters \in Seq(Thread) /\ ToSet(waiters) \subseteq Thread
      /\ Blocked(sched) \subseteq Thread
  BY Lists DEF IInv, Places, Blocked
<1>2. \A u \in Thread : pc'[u] = IF u = t THEN l ELSE pc[u]
  BY <1>1
<1>3. Places'
  BY <1>1 DEF IInv, Places, PC
<1>4. Sleepers'
  BY <1>1, <1>2 DEF IInv, Sleepers, LockPc
<1>5. Monitor'
  <2>1. InMonitor' = InMonitor
    BY <1>2 DEF InMonitor
  <2> QED
    BY <2>1 DEF IInv, Monitor
<1>6. Signalling'
  <2>1. waiters' = << >> <=> waiters = << >>
    BY <1>1, Lists
  <2> QED
    BY <1>2, <2>1 DEF IInv, Signalling
<1>7. \A u \in Thread : Kept(u)'
  BY <1>2 DEF IInv, Kept, CondPc
<1>8. \A u \in ToSet(waiters') : pc'[u] \in CondPc
  BY <1>1, <1>2 DEF IInv, CondPc
<1> QED
  BY <1>3, <1>4, <1>5, <1>6, <1>7, <1>8 DEF IInv

LEMMA UrgencyIsInt == IInv => \A t \in Thread : Urgency[t] \in Int
<1> SUFFICES ASSUME IInv, NEW t \in Thread PROVE Urgency[t] \in Int
  OBVIOUS
<1>1. sched.priority[t] \in Int
  BY PriorityIsInt DEF IInv, SchedOK, ReadyOK, SchedState, AnyThread
<1>2. PRI_MAX + 1 \in Int
  BY ThreadsAssumption
<1> QED
  BY <1>1, <1>2 DEF Urgency

LEMMA SignalSortKeeps ==
  ASSUME IInv, NEW t \in Thread, NEW k, NEW l,
         \/ k = "own" /\ l = "signal_up"
         \/ k = "broadcast" /\ l = "broadcast_up",
         SignalSort(t, k, l)
  PROVE  IInv'
<1>1. waiters \in Seq(Thread) /\ Distinct(waiters)
  BY DEF IInv, Places
<1>2. \A u \in Thread : Urgency[u] \in Int
  BY UrgencyIsInt
<1>3. waiters' = SortByPriority(waiters, Urgency)
  BY DEF SignalSort, SortedWaiters
<1>4. /\ waiters' \in Seq(Thread) /\ ToSet(waiters') = ToSet(waiters) /\ Distinct(waiters')
  BY <1>1, <1>2, <1>3, SortKeeps
<1>5. /\ pc[t] = k /\ pc' = [pc EXCEPT ![t] = l] /\ UNCHANGED <<sched, lock, private>>
      /\ waiters # << >>
  BY DEF SignalSort, At, Goto
<1> QED
  BY <1>4, <1>5, MonitorStep

LEMMA BroadcastBeginKeeps ==
  ASSUME IInv, NEW t \in Thread, BroadcastBegin(t) \/ BroadcastEnd(t)
  PROVE  IInv'
<1>1. waiters \in Seq(Thread) /\ Distinct(waiters)
  BY DEF IInv, Places
<1>2. /\ pc[t] \in {"own", "broadcast"} /\ UNCHANGED <<sched, lock, waiters, private>>
  BY DEF BroadcastBegin, BroadcastEnd, At
<1>3. PICK l \in {"own", "broadcast"} : pc' = [pc EXCEPT ![t] = l]
  BY DEF BroadcastBegin, BroadcastEnd, Goto
<1> QED
  BY <1>1, <1>2, <1>3, MonitorStep

LEMMA UnsortableKeeps ==
  ASSUME IInv, NEW t \in Thread, NEW k, SignalUnsortable(t, k)
  PROVE  IInv'
<1> DEFINE b == TRUE
<1>1. sched' = [sched EXCEPT !.panic = b] /\ UNCHANGED <<lock, waiters, private, pc>>
  BY DEF SignalUnsortable, Panic
<1>2. b \in BOOLEAN /\ SchedOK(sched)
  BY DEF IInv
<1> HIDE DEF b
<1>3. sched \in SchedState
  BY <1>2 DEF SchedOK, ReadyOK
<1>4. /\ sched' \in SchedState
      /\ sched'.cur = sched.cur /\ sched'.status = sched.status
      /\ sched'.priority = sched.priority /\ sched'.ready = sched.ready
  BY <1>1, <1>2, <1>3 DEF SchedState
<1>5. SchedOK(sched') /\ Blocked(sched') = Blocked(sched)
  BY <1>2, <1>4 DEF SchedOK, ReadyOK, ReadyListExact, ReadyListSorted, OneRunning, Blocked
<1> QED
  BY <1>1, <1>5, QuietStep

-------------------------------------------------------------------------------
(***************************************************************************)
(* The lock.                                                               *)
(***************************************************************************)

\* sema_up, with or without a thread to wake.
LEMMA UpSome ==
  ASSUME NEW s, SchedOK(s), NEW sema \in SemaState,
         Distinct(sema.waiters), ToSet(sema.waiters) \subseteq Blocked(s)
  PROVE  LET d == UpSema(s, sema)
             r == UpSched(s, sema)
         IN  /\ d \in SemaState /\ d.value = sema.value + 1 /\ Distinct(d.waiters)
             /\ SchedOK(r)
             /\ \E W \in SUBSET ToSet(sema.waiters) :
                  /\ ToSet(d.waiters) = ToSet(sema.waiters) \ W
                  /\ Blocked(r) = Blocked(s) \ W
                  /\ ToSet(sema.waiters) # {} => W # {}
<1> DEFINE d == UpSema(s, sema)
           r == UpSched(s, sema)
<1>1. CASE sema.waiters = << >>
  <2>1. /\ d = [value |-> sema.value + 1, waiters |-> << >>] /\ d \in SemaState
        /\ r = s
    BY <1>1, UpCounts
  <2>2. ToSet(<< >>) = {} /\ Distinct(<< >>)
    BY DEF ToSet, Distinct
  <2> HIDE DEF d, r
  <2>3. /\ d.value = sema.value + 1 /\ d.waiters = << >>
    BY <2>1
  <2>4. /\ ToSet(d.waiters) = ToSet(sema.waiters) \ {}
        /\ Blocked(r) = Blocked(s) \ {}
        /\ ToSet(sema.waiters) = {}
    BY <1>1, <2>1, <2>2, <2>3
  <2> QED
    BY <2>1, <2>2, <2>3, <2>4 DEF d, r
<1>2. CASE sema.waiters # << >>
  <2> DEFINE w == Head(ToWake(s, sema))
  <2>1. /\ d \in SemaState /\ d.value = sema.value + 1 /\ Distinct(d.waiters)
        /\ w \in ToSet(sema.waiters) /\ ToSet(d.waiters) = ToSet(sema.waiters) \ {w}
        /\ SchedOK(r) /\ Blocked(r) = Blocked(s) \ {w}
    BY <1>2, UpWakes, ZenonT(60)
  <2> HIDE DEF d, r, w
  <2> QED
    BY <2>1, ZenonT(60) DEF d, r
<1> QED
  BY <1>1, <1>2

LEMMA LockFacts ==
  ASSUME IInv
  PROVE  /\ SchedOK(sched) /\ lock \in SemaState /\ lock.value \in 0 .. 1
         /\ Distinct(lock.waiters) /\ ToSet(lock.waiters) \subseteq Blocked(sched)
         /\ pc \in [Thread -> PC] /\ waiters \in Seq(Thread) /\ ToSet(waiters) \subseteq Thread
         /\ private \in [Thread -> Binary] /\ Blocked(sched) \subseteq Thread
         /\ sched.cur \notin Blocked(sched)
<1>1. SchedOK(sched)
  BY DEF IInv
<1>2. sched.cur \notin Blocked(sched)
  BY <1>1 DEF SchedOK, OneRunning, Blocked, AnyThread
<1>3. /\ lock \in SemaState /\ lock.value \in 0 .. 1
  BY Binaries DEF IInv, Places, Binary
<1>4. /\ pc \in [Thread -> PC] /\ waiters \in Seq(Thread) /\ ToSet(waiters) \subseteq Thread
      /\ private \in [Thread -> Binary]
  BY Lists DEF IInv, Places
<1>5. /\ Distinct(lock.waiters) /\ ToSet(lock.waiters) \subseteq Blocked(sched)
  BY DEF IInv, Sleepers
<1> QED
  BY <1>1, <1>2, <1>3, <1>4, <1>5 DEF Blocked

LEMMA LockDownKeeps ==
  ASSUME IInv, NEW t \in Thread, NEW before, NEW in, NEW after,
         \/ before = "run" /\ in = "lock_down"
         \/ before = "wait_lock" /\ in = "wait_lock_down",
         after = "own",
         LockDown(t, before, in, after)
  PROVE  IInv'
<1> DEFINE new == DownSema(sched, lock)
<1>1. /\ SchedOK(sched) /\ lock \in SemaState /\ lock.value \in 0 .. 1
      /\ Distinct(lock.waiters) /\ ToSet(lock.waiters) \subseteq Blocked(sched)
      /\ pc \in [Thread -> PC] /\ waiters \in Seq(Thread) /\ ToSet(waiters) \subseteq Thread
      /\ private \in [Thread -> Binary] /\ Blocked(sched) \subseteq Thread
      /\ sched.cur \notin Blocked(sched)
  BY LockFacts
<1>2. /\ sched.cur = t /\ pc[t] \in {"run", "wait_lock"} \union LockPc
      /\ lock' = new /\ UNCHANGED <<waiters, private>>
  BY DEF LockDown, At, LockPc
<1>3. t \notin ToSet(waiters)
  BY <1>2 DEF IInv, CondPc, LockPc
<1>4. CASE MustWait(lock)
  <2>1. /\ new \in SemaState /\ new.value = lock.value /\ Distinct(new.waiters)
        /\ ToSet(new.waiters) = ToSet(lock.waiters) \union {t}
    BY <1>1, <1>2, <1>4, DownSemaWaits
  <2>2. SchedOK(sched') /\ Blocked(sched') = Blocked(sched) \union {t}
    BY <1>1, <1>2, <1>4, ThreadBlockBlocks DEF LockDown, DownSched
  <2> HIDE DEF new
  <2>3. \A u \in Thread : pc'[u] = IF u = t THEN in ELSE pc[u]
    BY <1>1, <1>4 DEF LockDown, Goto
  <2>4. in \in LockPc /\ in \in PC
    BY DEF LockPc, PC
  <2>5. Places'
    <3>1. pc' \in [Thread -> PC]
      BY <1>1, <1>4, <2>4 DEF LockDown, Goto
    <3>2. lock' \in Binary
      BY <1>1, <1>2, <2>1, Binaries
    <3> QED
      BY <1>1, <1>2, <3>1, <3>2 DEF Places
  <2>6. Sleepers'
    <3>1. ToSet(lock'.waiters) = { u \in Blocked(sched') : pc'[u] \in LockPc }
      BY <1>1, <1>2, <2>1, <2>2, <2>3, <2>4 DEF IInv, Sleepers
    <3>2. \A u \in Blocked(sched') : pc'[u] \in LockPc \union {"waiting"}
      BY <1>1, <2>2, <2>3, <2>4 DEF IInv, Sleepers
    <3>3. ASSUME NEW u \in Thread
          PROVE  { v \in Blocked(sched') : v = u /\ pc'[v] = "waiting" }
                   = { v \in Blocked(sched) : v = u /\ pc[v] = "waiting" }
      BY <1>1, <1>2, <2>2, <2>3, <2>4 DEF LockPc
    <3> QED
      BY <1>2, <2>1, <3>1, <3>2, <3>3 DEF IInv, Sleepers
  <2>7. Monitor'
    <3>1. InMonitor' = InMonitor
      BY <1>2, <2>3, <2>4 DEF InMonitor, LockPc
    <3> QED
      BY <1>2, <2>1, <3>1 DEF IInv, Monitor
  <2>8. Signalling'
    BY <1>2, <2>3, <2>4 DEF IInv, Signalling, LockPc
  <2>9. \A u \in Thread : Kept(u)'
    BY <1>1, <1>2, <2>2, <2>3, <2>4 DEF IInv, Kept, CondPc, LockPc
  <2>10. Distinct(waiters') /\ \A u \in ToSet(waiters') : pc'[u] \in CondPc
    BY <1>1, <1>2, <1>3, <2>3 DEF IInv
  <2> QED
    BY <2>2, <2>5, <2>6, <2>7, <2>8, <2>9, <2>10 DEF IInv
<1>5. CASE ~MustWait(lock)
  <2>1. /\ new \in SemaState /\ new.value = lock.value - 1 /\ lock.value > 0
        /\ new.waiters = lock.waiters
    BY <1>1, <1>5, DownSemaTakes
  <2>2. sched' = sched
    BY <1>5 DEF LockDown, DownSched
  <2> HIDE DEF new
  <2>3. \A u \in Thread : pc'[u] = IF u = t THEN "own" ELSE pc[u]
    BY <1>1, <1>5 DEF LockDown, Goto
  <2>4. lock.value = 1 /\ lock'.value = 0 /\ lock'.waiters = lock.waiters
    BY <1>1, <1>2, <2>1
  <2>5. Places'
    <3>1. pc' \in [Thread -> PC]
      BY <1>1, <1>5 DEF LockDown, Goto, PC
    <3>2. lock' \in Binary
      BY <1>1, <1>2, <2>1, <2>4, Binaries
    <3> QED
      BY <1>1, <1>2, <3>1, <3>2 DEF Places
  <2>6. Sleepers'
    <3>1. \A u \in Blocked(sched') : pc'[u] = pc[u]
      BY <1>1, <1>2, <2>2, <2>3
    <3> QED
      BY <1>2, <2>2, <2>4, <3>1 DEF IInv, Sleepers
  <2>7. Monitor'
    <3>1. InMonitor = {}
      BY <2>4 DEF IInv, Monitor
    <3>2. InMonitor' = {t}
      BY <2>3, <3>1 DEF InMonitor
    <3> QED
      BY <2>4, <3>2 DEF Monitor
  <2>8. Signalling'
    BY <1>2, <2>3 DEF IInv, Signalling
  <2>9. \A u \in Thread : Kept(u)'
    BY <1>2, <2>2, <2>3 DEF IInv, Kept, CondPc
  <2>10. Distinct(waiters') /\ \A u \in ToSet(waiters') : pc'[u] \in CondPc
    BY <1>1, <1>2, <1>3, <2>3 DEF IInv
  <2> QED
    BY <1>1, <2>2, <2>5, <2>6, <2>7, <2>8, <2>9, <2>10 DEF IInv
<1> QED
  BY <1>4, <1>5

LEMMA LockUpKeeps ==
  ASSUME IInv, NEW t \in Thread, NEW before, NEW after,
         \/ before = "own" /\ after = "run"
         \/ before = "wait_release" /\ after = "wait_down",
         LockUp(t, before, after)
  PROVE  IInv'
<1> DEFINE new == UpSema(sched, lock)
           woken == UpSched(sched, lock)
<1>1. /\ SchedOK(sched) /\ lock \in SemaState /\ lock.value \in 0 .. 1
      /\ Distinct(lock.waiters) /\ ToSet(lock.waiters) \subseteq Blocked(sched)
      /\ pc \in [Thread -> PC] /\ waiters \in Seq(Thread) /\ ToSet(waiters) \subseteq Thread
      /\ private \in [Thread -> Binary] /\ Blocked(sched) \subseteq Thread
      /\ sched.cur \notin Blocked(sched)
  BY LockFacts
<1>2. /\ sched.cur = t /\ pc[t] = before
      /\ lock' = new /\ UNCHANGED <<waiters, private>> /\ sched' = ThreadPreemption(woken)
  BY DEF LockUp, At
<1>3. /\ new \in SemaState /\ new.value = lock.value + 1 /\ Distinct(new.waiters)
      /\ SchedOK(woken)
      /\ \E W \in SUBSET ToSet(lock.waiters) :
           /\ ToSet(new.waiters) = ToSet(lock.waiters) \ W
           /\ Blocked(woken) = Blocked(sched) \ W
  BY <1>1, UpSome
<1> HIDE DEF new, woken
<1>4. PICK W \in SUBSET ToSet(lock.waiters) :
        ToSet(new.waiters) = ToSet(lock.waiters) \ W /\ Blocked(woken) = Blocked(sched) \ W
  BY <1>3
<1>5. SchedOK(sched') /\ Blocked(sched') = Blocked(sched) \ W
  BY <1>2, <1>3, <1>4, ThreadPreemptionPreempts DEF Preempted
<1>6. \A u \in Thread : pc'[u] = IF u = t THEN after ELSE pc[u]
  BY <1>1 DEF LockUp, Goto
<1>7. \A u \in W : u \in Blocked(sched) /\ pc[u] \in LockPc
  BY <1>4 DEF IInv, Sleepers
<1>8. InMonitor = {t} /\ lock.value = 0
  <2>1. t \in InMonitor
    BY <1>2 DEF InMonitor
  <2>2. lock.value = 0
    BY <1>1, <2>1 DEF IInv, Monitor
  <2> QED
    BY <2>1, <2>2 DEF IInv, Monitor
<1>9. Places'
  <2>1. pc' \in [Thread -> PC]
    BY <1>1 DEF LockUp, Goto, PC
  <2>2. lock' \in Binary
    BY <1>2, <1>3, <1>8, Binaries
  <2> QED
    BY <1>1, <1>2, <2>1, <2>2 DEF Places
<1>10. Sleepers'
  <2>1. \A u \in Blocked(sched) : pc'[u] = pc[u]
    BY <1>1, <1>2, <1>6
  <2>2. ToSet(lock'.waiters) = { u \in Blocked(sched') : pc'[u] \in LockPc }
    BY <1>1, <1>2, <1>4, <1>5, <2>1 DEF IInv, Sleepers
  <2>3. \A u \in Blocked(sched') : pc'[u] \in LockPc \union {"waiting"}
    BY <1>5, <2>1 DEF IInv, Sleepers
  <2>4. ASSUME NEW u \in Thread
        PROVE  { v \in Blocked(sched') : v = u /\ pc'[v] = "waiting" }
                 = { v \in Blocked(sched) : v = u /\ pc[v] = "waiting" }
    BY <1>5, <1>7, <2>1 DEF LockPc
  <2> QED
    BY <1>2, <1>3, <2>2, <2>3, <2>4 DEF IInv, Sleepers
<1>11. Monitor'
  <2>1. InMonitor' = {}
    BY <1>6, <1>8 DEF InMonitor
  <2> QED
    BY <1>2, <1>3, <1>8, <2>1 DEF Monitor
<1>12. Signalling'
  BY <1>2, <1>6 DEF IInv, Signalling
<1>13. \A u \in Thread : Kept(u)'
  BY <1>2, <1>5, <1>6 DEF IInv, Kept, CondPc
<1>14. Distinct(waiters') /\ \A u \in ToSet(waiters') : pc'[u] \in CondPc
  BY <1>1, <1>2, <1>6 DEF IInv, CondPc
<1> QED
  BY <1>5, <1>9, <1>10, <1>11, <1>12, <1>13, <1>14 DEF IInv

-------------------------------------------------------------------------------
(***************************************************************************)
(* The condition.                                                          *)
(***************************************************************************)
LEMMA PushFront ==
  ASSUME NEW list \in Seq(Thread), Distinct(list), NEW t \in Thread, t \notin ToSet(list)
  PROVE  LET new == <<t>> \o list
         IN  new \in Seq(Thread) /\ ToSet(new) = ToSet(list) \union {t} /\ Distinct(new)
<1> DEFINE new == <<t>> \o list
           n == Len(list)
<1>1. /\ n \in Nat /\ DOMAIN list = 1 .. n /\ <<t>> \in Seq(Thread) /\ Len(<<t>>) = 1
      /\ \A k \in 1 .. n : list[k] \in Thread
  BY LenProperties, ElementOfSeq
<1>2. /\ new \in Seq(Thread) /\ Len(new) = n + 1
      /\ \A k \in 1 .. n + 1 : new[k] = IF k <= 1 THEN <<t>>[k] ELSE list[k - 1]
  BY <1>1, ConcatProperties
<1>3. DOMAIN new = 1 .. n + 1
  BY <1>2, LenProperties
<1> HIDE DEF new, n
<1>4. \A k \in 1 .. n + 1 : new[k] = IF k = 1 THEN t ELSE list[k - 1]
  BY <1>1, <1>2
<1>5. ToSet(new) = ToSet(list) \union {t}
  <2>1. ASSUME NEW k \in 1 .. n + 1 PROVE new[k] \in ToSet(list) \union {t}
    <3>1. CASE k = 1
      BY <1>4, <3>1
    <3>2. CASE k # 1
      <4>1. k - 1 \in 1 .. n
        BY <1>1, <3>2
      <4>2. list[k - 1] \in ToSet(list)
        BY <1>1, <4>1 DEF ToSet
      <4> QED
        BY <1>4, <3>2, <4>2
    <3> QED
      BY <3>1, <3>2
  <2>2. t \in ToSet(new)
    <3>1. 1 \in 1 .. n + 1
      BY <1>1
    <3> QED
      BY <1>3, <1>4, <3>1 DEF ToSet
  <2>3. ASSUME NEW k \in 1 .. n PROVE list[k] \in ToSet(new)
    <3>1. k + 1 \in 1 .. n + 1 /\ new[k + 1] = list[k + 1 - 1] /\ k + 1 - 1 = k
      BY <1>1, <1>4
    <3> QED
      BY <1>3, <3>1 DEF ToSet
  <2> QED
    <3>1. ToSet(new) = { new[k] : k \in 1 .. n + 1 } /\ ToSet(list) = { list[k] : k \in 1 .. n }
      BY <1>1, <1>3 DEF ToSet
    <3> QED
      BY <2>1, <2>2, <2>3, <3>1
<1>6. Distinct(new)
  <2> SUFFICES ASSUME NEW j \in 1 .. n + 1, NEW k \in 1 .. n + 1, new[j] = new[k]
               PROVE  j = k
    BY <1>3 DEF Distinct
  <2>1. ASSUME NEW i \in 1 .. n + 1, i # 1
        PROVE  i - 1 \in 1 .. n /\ new[i] = list[i - 1] /\ new[i] # t
    <3>1. i - 1 \in 1 .. n /\ new[i] = list[i - 1]
      BY <1>1, <1>4, <2>1
    <3>2. list[i - 1] \in ToSet(list)
      BY <1>1, <3>1 DEF ToSet
    <3> QED
      BY <3>1, <3>2
  <2>2. new[1] = t
    BY <1>1, <1>4
  <2>3. CASE j = 1 \/ k = 1
    <3>1. new[j] = t => j = 1
      BY <2>1
    <3>2. new[k] = t => k = 1
      BY <2>1
    <3> QED
      BY <2>2, <2>3, <3>1, <3>2
  <2>4. CASE j # 1 /\ k # 1
    <3>0. j - 1 \in 1 .. n /\ k - 1 \in 1 .. n /\ list[j - 1] = list[k - 1]
      BY <2>1, <2>4
    <3>1. j - 1 = k - 1
      BY <1>1, <3>0 DEF Distinct
    <3> QED
      BY <1>1, <3>1
  <2> QED
    BY <2>3, <2>4
<1> QED
  BY <1>2, <1>5, <1>6 DEF new

LEMMA WaitInsertKeeps ==
  ASSUME IInv, NEW t \in Thread, WaitInsert(t)
  PROVE  IInv'
<1> DEFINE fresh == [value |-> 0, waiters |-> << >>]
<1>1. /\ SchedOK(sched) /\ pc \in [Thread -> PC] /\ waiters \in Seq(Thread)
      /\ ToSet(waiters) \subseteq Thread
      /\ private \in [Thread -> Binary] /\ Blocked(sched) \subseteq Thread
      /\ sched.cur \notin Blocked(sched)
  BY LockFacts
<1>2. /\ sched.cur = t /\ pc[t] = "own" /\ UNCHANGED <<sched, lock>>
      /\ waiters' = <<t>> \o waiters /\ private' = [private EXCEPT ![t] = fresh]
  BY DEF WaitInsert, At, SemaInit
<1>3. \A u \in Thread : pc'[u] = IF u = t THEN "wait_release" ELSE pc[u]
  BY <1>1 DEF WaitInsert, Goto
<1>4. fresh \in Binary /\ fresh.value = 0 /\ fresh.waiters = << >>
  BY DEF Binary
<1> HIDE DEF fresh
<1>5. \A u \in Thread : private'[u] = IF u = t THEN fresh ELSE private[u]
  BY <1>1, <1>2
<1>6. t \notin ToSet(waiters)
  BY <1>2 DEF IInv, CondPc
<1>7. /\ waiters' \in Seq(Thread) /\ ToSet(waiters') = ToSet(waiters) \union {t}
      /\ Distinct(waiters')
  BY <1>1, <1>2, <1>6, PushFront DEF IInv
<1>8. Places'
  <2>1. pc' \in [Thread -> PC]
    BY <1>1 DEF WaitInsert, Goto, PC
  <2>2. private' \in [Thread -> Binary]
    BY <1>1, <1>2, <1>4
  <2> QED
    BY <1>2, <1>7, <2>1, <2>2 DEF IInv, Places
<1>9. Sleepers'
  <2>1. \A u \in Blocked(sched') : pc'[u] = pc[u] /\ u # t
    BY <1>1, <1>2, <1>3
  <2>2. ToSet(<< >>) = {} /\ Distinct(<< >>)
    BY DEF ToSet, Distinct
  <2>3. ASSUME NEW u \in Thread
        PROVE  /\ Distinct(private'[u].waiters)
               /\ ToSet(private'[u].waiters)
                    = { v \in Blocked(sched') : v = u /\ pc'[v] = "waiting" }
    <3>1. CASE u = t
      BY <1>4, <1>5, <2>1, <2>2, <3>1
    <3>2. CASE u # t
      BY <1>2, <1>5, <2>1, <3>2 DEF IInv, Sleepers
    <3> QED
      BY <3>1, <3>2
  <2> QED
    BY <1>2, <2>1, <2>3, ZenonT(60) DEF IInv, Sleepers
<1>10. Monitor'
  <2>1. InMonitor' = InMonitor
    BY <1>2, <1>3 DEF InMonitor
  <2> QED
    BY <1>2, <2>1 DEF IInv, Monitor
<1>11. Signalling'
  <2>1. waiters' # << >>
    BY <1>7, Lists
  <2> QED
    BY <2>1 DEF Signalling
<1>12. \A u \in Thread : Kept(u)'
  BY <1>2, <1>3, <1>4, <1>5, <1>7 DEF IInv, Kept
<1>13. \A u \in ToSet(waiters') : pc'[u] \in CondPc
  BY <1>1, <1>3, <1>7 DEF IInv, CondPc
<1> QED
  BY <1>1, <1>2, <1>7, <1>8, <1>9, <1>10, <1>11, <1>12, <1>13 DEF IInv

LEMMA WaitDownKeeps ==
  ASSUME IInv, NEW t \in Thread, WaitDown(t)
  PROVE  IInv'
<1> DEFINE new == DownSema(sched, private[t])
<1>1. /\ SchedOK(sched) /\ pc \in [Thread -> PC] /\ waiters \in Seq(Thread)
      /\ ToSet(waiters) \subseteq Thread
      /\ private \in [Thread -> Binary] /\ Blocked(sched) \subseteq Thread
      /\ sched.cur \notin Blocked(sched)
  BY LockFacts
<1>2. /\ sched.cur = t /\ pc[t] \in {"wait_down", "waiting"} /\ UNCHANGED <<lock, waiters>>
      /\ private' = [private EXCEPT ![t] = new]
  BY DEF WaitDown, At
<1>3. private[t] \in SemaState /\ private[t].value \in 0 .. 1
  BY <1>1, Binaries DEF Binary
<1>4. ToSet(private[t].waiters) = {} /\ Distinct(private[t].waiters)
  BY <1>1, <1>2 DEF IInv, Sleepers
<1>5. \A u \in Thread : private'[u] = IF u = t THEN new ELSE private[u]
  BY <1>1, <1>2
<1>6. CASE MustWait(private[t])
  <2>1. /\ new \in SemaState /\ new.value = private[t].value /\ Distinct(new.waiters)
        /\ ToSet(new.waiters) = {t}
    BY <1>1, <1>2, <1>3, <1>4, <1>6, DownSemaWaits, ZenonT(120)
  <2>2. SchedOK(sched') /\ Blocked(sched') = Blocked(sched) \union {t}
    BY <1>1, <1>2, <1>6, ThreadBlockBlocks DEF WaitDown, DownSched
  <2> HIDE DEF new
  <2>3. \A u \in Thread : pc'[u] = IF u = t THEN "waiting" ELSE pc[u]
    BY <1>1, <1>6 DEF WaitDown, Goto
  <2>4. t \in ToSet(waiters)
    BY <1>2, <1>6 DEF IInv, Kept, CondPc, MustWait
  <2>5. Places'
    <3>1. pc' \in [Thread -> PC]
      BY <1>1, <1>6 DEF WaitDown, Goto, PC
    <3>2. new \in Binary
      BY <1>3, <2>1, Binaries
    <3>3. private' \in [Thread -> Binary]
      BY <1>1, <1>2, <3>2
    <3> QED
      BY <1>2, <3>1, <3>3 DEF IInv, Places
  <2>6. Sleepers'
    <3>1. \A u \in Blocked(sched) : pc'[u] = pc[u] /\ u # t
      BY <1>1, <1>2, <2>3
    <3>2. ToSet(lock'.waiters) = { u \in Blocked(sched') : pc'[u] \in LockPc }
      BY <1>2, <2>2, <2>3, <3>1 DEF IInv, Sleepers, LockPc
    <3>3. \A u \in Blocked(sched') : pc'[u] \in LockPc \union {"waiting"}
      BY <2>2, <2>3, <3>1 DEF IInv, Sleepers
    <3>4. ASSUME NEW u \in Thread
          PROVE  /\ Distinct(private'[u].waiters)
                 /\ ToSet(private'[u].waiters)
                      = { v \in Blocked(sched') : v = u /\ pc'[v] = "waiting" }
      <4>1. CASE u = t
        BY <1>5, <2>1, <2>2, <2>3, <4>1
      <4>2. CASE u # t
        <5>1. { v \in Blocked(sched') : v = u /\ pc'[v] = "waiting" }
                = { v \in Blocked(sched) : v = u /\ pc[v] = "waiting" }
          BY <2>2, <3>1, <4>2
        <5> QED
          BY <1>5, <4>2, <5>1 DEF IInv, Sleepers
      <4> QED
        BY <4>1, <4>2
    <3> QED
      BY <1>2, <3>2, <3>3, <3>4 DEF IInv, Sleepers
  <2>7. Monitor'
    <3>1. InMonitor' = InMonitor
      BY <1>2, <2>3 DEF InMonitor
    <3> QED
      BY <1>2, <3>1 DEF IInv, Monitor
  <2>8. Signalling'
    BY <1>2, <2>3 DEF IInv, Signalling
  <2>9. ASSUME NEW u \in Thread PROVE Kept(u)'
    <3>1. CASE u = t
      <4>1. private'[u].value = 0
        BY <1>5, <1>6, <2>1, <3>1 DEF MustWait
      <4> QED
        BY <1>2, <2>4, <3>1, <4>1 DEF Kept
    <3>2. CASE u # t
      BY <1>2, <1>5, <2>2, <2>3, <3>2 DEF IInv, Kept
    <3> QED
      BY <3>1, <3>2
  <2>10. Distinct(waiters') /\ \A u \in ToSet(waiters') : pc'[u] \in CondPc
    BY <1>1, <1>2, <2>3 DEF IInv, CondPc
  <2> QED
    BY <2>2, <2>5, <2>6, <2>7, <2>8, <2>9, <2>10 DEF IInv
<1>7. CASE ~MustWait(private[t])
  <2>1. /\ new \in SemaState /\ new.value = private[t].value - 1 /\ private[t].value > 0
        /\ new.waiters = private[t].waiters
    BY <1>3, <1>7, DownSemaTakes
  <2>2. sched' = sched
    BY <1>7 DEF WaitDown, DownSched
  <2> HIDE DEF new
  <2>3. \A u \in Thread : pc'[u] = IF u = t THEN "wait_lock" ELSE pc[u]
    BY <1>1, <1>7 DEF WaitDown, Goto
  <2>4. t \notin ToSet(waiters)
    BY <1>2, <1>7 DEF IInv, Kept, CondPc, MustWait
  <2>5. Places'
    <3>1. pc' \in [Thread -> PC]
      BY <1>1, <1>7 DEF WaitDown, Goto, PC
    <3>2. new \in Binary
      BY <1>3, <2>1, Binaries
    <3>3. private' \in [Thread -> Binary]
      BY <1>1, <1>2, <3>2
    <3> QED
      BY <1>2, <3>1, <3>3 DEF IInv, Places
  <2>6. Sleepers'
    <3>1. \A u \in Blocked(sched') : pc'[u] = pc[u] /\ u # t
      BY <1>1, <1>2, <2>2, <2>3
    <3>2. \A u \in Thread : private'[u].waiters = private[u].waiters
      BY <1>5, <2>1
    <3> QED
      BY <1>2, <2>2, <3>1, <3>2 DEF IInv, Sleepers
  <2>7. Monitor'
    <3>1. InMonitor' = InMonitor
      BY <1>2, <2>3 DEF InMonitor
    <3> QED
      BY <1>2, <3>1 DEF IInv, Monitor
  <2>8. Signalling'
    BY <1>2, <2>3 DEF IInv, Signalling
  <2>9. \A u \in Thread : Kept(u)'
    BY <1>2, <1>5, <2>2, <2>3 DEF IInv, Kept, CondPc
  <2>10. Distinct(waiters') /\ \A u \in ToSet(waiters') : pc'[u] \in CondPc
    BY <1>1, <1>2, <2>3, <2>4 DEF IInv
  <2> QED
    BY <1>1, <2>2, <2>5, <2>6, <2>7, <2>8, <2>9, <2>10 DEF IInv
<1> QED
  BY <1>6, <1>7

LEMMA SignalUpKeeps ==
  ASSUME IInv, NEW t \in Thread, NEW up, NEW after,
         \/ up = "signal_up" /\ after = "own"
         \/ up = "broadcast_up" /\ after = "broadcast",
         SignalUp(t, up, after)
  PROVE  IInv'
<1> DEFINE w == Head(waiters)
           new == UpSema(sched, private[w])
           woken == UpSched(sched, private[w])
<1>1. /\ SchedOK(sched) /\ pc \in [Thread -> PC] /\ waiters \in Seq(Thread)
      /\ ToSet(waiters) \subseteq Thread
      /\ private \in [Thread -> Binary] /\ Blocked(sched) \subseteq Thread
      /\ sched.cur \notin Blocked(sched)
  BY LockFacts
<1>2. /\ sched.cur = t /\ pc[t] = up /\ UNCHANGED lock
      /\ private' = [private EXCEPT ![w] = new]
      /\ sched' = ThreadPreemption(woken) /\ waiters' = Tail(waiters)
  BY DEF SignalUp, At
<1>3. waiters # << >> /\ Distinct(waiters)
  BY <1>2 DEF IInv, Signalling
<1>4. /\ w \in ToSet(waiters) /\ w \in Thread /\ waiters' \in Seq(Thread)
      /\ ToSet(waiters') = ToSet(waiters) \ {w} /\ Distinct(waiters')
  BY <1>1, <1>2, <1>3, PopFront
<1> HIDE DEF w
<1>5. /\ private[w] \in SemaState /\ Distinct(private[w].waiters)
      /\ ToSet(private[w].waiters) = { u \in Blocked(sched) : u = w /\ pc[u] = "waiting" }
      /\ ToSet(private[w].waiters) \subseteq Blocked(sched)
  BY <1>1, <1>4, Binaries DEF IInv, Sleepers
<1>6. /\ new \in SemaState /\ new.value = private[w].value + 1 /\ Distinct(new.waiters)
      /\ SchedOK(woken)
      /\ \E W \in SUBSET ToSet(private[w].waiters) :
           /\ ToSet(new.waiters) = ToSet(private[w].waiters) \ W
           /\ Blocked(woken) = Blocked(sched) \ W
           /\ ToSet(private[w].waiters) # {} => W # {}
  BY <1>1, <1>5, UpSome
<1> HIDE DEF new, woken
<1>7. ToSet(new.waiters) = {} /\ Blocked(woken) = Blocked(sched) \ ToSet(private[w].waiters)
  BY <1>5, <1>6
<1>8. /\ SchedOK(sched')
      /\ Blocked(sched') = Blocked(sched) \ ToSet(private[w].waiters)
  BY <1>2, <1>6, <1>7, ThreadPreemptionPreempts DEF Preempted
<1>9. \A u \in Thread : pc'[u] = IF u = t THEN after ELSE pc[u]
  BY <1>1 DEF SignalUp, Goto
<1>10. \A u \in Thread : private'[u] = IF u = w THEN new ELSE private[u]
  BY <1>1, <1>2, <1>4
<1>11. /\ pc[w] \in CondPc /\ w # t /\ private[w].value = 0
  BY <1>2, <1>4 DEF IInv, Kept, CondPc
<1>12. pc[w] = "waiting" \/ w \notin Blocked(sched)
  BY <1>11 DEF IInv, Sleepers, CondPc, LockPc
<1>13. InMonitor = {t}
  <2>1. t \in InMonitor
    BY <1>2 DEF InMonitor
  <2>2. lock.value \in 0 .. 1
    BY DEF IInv, Places, Binary
  <2> QED
    BY <2>1, <2>2 DEF IInv, Monitor
<1>14. Places'
  <2>1. pc' \in [Thread -> PC]
    BY <1>1 DEF SignalUp, Goto, PC
  <2>2. new \in Binary
    BY <1>6, <1>11, Binaries
  <2>3. private' \in [Thread -> Binary]
    BY <1>1, <1>2, <2>2
  <2> QED
    BY <1>2, <1>4, <2>1, <2>3 DEF IInv, Places
<1>15. Sleepers'
  <2>1. \A u \in Blocked(sched) : pc'[u] = pc[u]
    BY <1>1, <1>2, <1>9
  <2>2. \A u \in ToSet(private[w].waiters) : u = w /\ pc[u] = "waiting"
    BY <1>5
  <2>3. ToSet(lock'.waiters) = { u \in Blocked(sched') : pc'[u] \in LockPc }
    BY <1>2, <1>8, <2>1, <2>2 DEF IInv, Sleepers, LockPc
  <2>4. \A u \in Blocked(sched') : pc'[u] \in LockPc \union {"waiting"}
    BY <1>8, <2>1 DEF IInv, Sleepers
  <2>5. ASSUME NEW u \in Thread
        PROVE  /\ Distinct(private'[u].waiters)
               /\ ToSet(private'[u].waiters)
                    = { v \in Blocked(sched') : v = u /\ pc'[v] = "waiting" }
    <3>1. CASE u = w
      BY <1>5, <1>6, <1>7, <1>8, <1>10, <2>1, <3>1
    <3>2. CASE u # w
      <4>1. { v \in Blocked(sched') : v = u /\ pc'[v] = "waiting" }
              = { v \in Blocked(sched) : v = u /\ pc[v] = "waiting" }
        BY <1>8, <2>1, <2>2, <3>2
      <4> QED
        BY <1>10, <3>2, <4>1 DEF IInv, Sleepers
    <3> QED
      BY <3>1, <3>2
  <2> QED
    BY <1>2, <2>3, <2>4, <2>5 DEF IInv, Sleepers
<1>16. Monitor'
  <2>1. InMonitor' = InMonitor
    BY <1>2, <1>9 DEF InMonitor
  <2> QED
    BY <1>2, <2>1 DEF IInv, Monitor
<1>17. Signalling'
  BY <1>9, <1>13 DEF Signalling, InMonitor
<1>18. ASSUME NEW u \in Thread PROVE Kept(u)'
  <2>1. CASE u = w
    <3>1. u \notin ToSet(waiters') /\ private'[u].value = 1
      BY <1>4, <1>6, <1>10, <1>11, <2>1
    <3>2. u \notin Blocked(sched')
      BY <1>5, <1>8, <1>12, <2>1
    <3> QED
      BY <3>1, <3>2 DEF Kept
  <2>2. CASE u # w
    <3>1. Kept(u)
      BY DEF IInv
    <3> QED
      BY <1>2, <1>4, <1>8, <1>9, <1>10, <2>2, <3>1 DEF Kept, CondPc
  <2> QED
    BY <2>1, <2>2
<1>19. \A u \in ToSet(waiters') : pc'[u] \in CondPc
  BY <1>1, <1>2, <1>4, <1>9 DEF IInv, CondPc
<1> QED
  BY <1>4, <1>8, <1>14, <1>15, <1>16, <1>17, <1>18, <1>19 DEF IInv

-------------------------------------------------------------------------------
LEMMA ThreadStepKeeps ==
  ASSUME IInv, NEW t \in Thread, ThreadStep(t)
  PROVE  IInv'
<1> DEFINE run == "run"
           own == "own"
           lock_down == "lock_down"
           wait_lock == "wait_lock"
           wait_lock_down == "wait_lock_down"
           broadcast == "broadcast"
           broadcast_up == "broadcast_up"
           signal_up == "signal_up"
           wait_release == "wait_release"
           wait_down == "wait_down"
<1>1. CASE Acquire(t)
  <2>1. LockDown(t, run, lock_down, own) /\ run = "run" /\ lock_down = "lock_down" /\ own = "own"
    BY <1>1 DEF Acquire
  <2> HIDE DEF run, lock_down, own
  <2> QED
    BY <2>1, LockDownKeeps
<1>2. CASE WaitAcquire(t)
  <2>1. /\ LockDown(t, wait_lock, wait_lock_down, own)
        /\ wait_lock = "wait_lock" /\ wait_lock_down = "wait_lock_down" /\ own = "own"
    BY <1>2 DEF WaitAcquire
  <2> HIDE DEF wait_lock, wait_lock_down, own
  <2> QED
    BY <2>1, LockDownKeeps
<1>3. CASE Release(t)
  <2>1. LockUp(t, own, run) /\ own = "own" /\ run = "run"
    BY <1>3 DEF Release
  <2> HIDE DEF own, run
  <2> QED
    BY <2>1, LockUpKeeps
<1>4. CASE WaitRelease(t)
  <2>1. /\ LockUp(t, wait_release, wait_down)
        /\ wait_release = "wait_release" /\ wait_down = "wait_down"
    BY <1>4 DEF WaitRelease
  <2> HIDE DEF wait_release, wait_down
  <2> QED
    BY <2>1, LockUpKeeps
<1>5. CASE WaitInsert(t)
  BY <1>5, WaitInsertKeeps
<1>6. CASE WaitDown(t)
  BY <1>6, WaitDownKeeps
<1>7. CASE Signal(t)
  <2>1. /\ \/ SignalSort(t, own, signal_up)
           \/ SignalUnsortable(t, own)
           \/ SignalUp(t, signal_up, own)
        /\ own = "own" /\ signal_up = "signal_up"
    BY <1>7 DEF Signal
  <2> HIDE DEF own, signal_up
  <2> QED
    BY <2>1, SignalSortKeeps, UnsortableKeeps, SignalUpKeeps
<1>8. CASE Broadcast(t)
  <2>1. /\ \/ SignalSort(t, broadcast, broadcast_up)
           \/ SignalUnsortable(t, broadcast)
           \/ SignalUp(t, broadcast_up, broadcast)
        /\ broadcast = "broadcast" /\ broadcast_up = "broadcast_up"
    BY <1>8 DEF Broadcast
  <2> HIDE DEF broadcast, broadcast_up
  <2> QED
    BY <2>1, SignalSortKeeps, UnsortableKeeps, SignalUpKeeps
<1>9. CASE BroadcastBegin(t) \/ BroadcastEnd(t)
  BY <1>9, BroadcastBeginKeeps
<1> QED
  BY <1>1, <1>2, <1>3, <1>4, <1>5, <1>6, <1>7, <1>8, <1>9 DEF ThreadStep

LEMMA NextKeepsIInv == IInv /\ [Next]_vars => IInv'
<1> SUFFICES ASSUME IInv, [Next]_vars PROVE IInv'
  OBVIOUS
<1>1. SchedOK(sched)
  BY DEF IInv
<1>2. ASSUME NEW t \in Thread, ThreadStep(t) PROVE IInv'
  BY <1>2, ThreadStepKeeps
<1>3. CASE TimerInterrupt
  BY <1>1, <1>3, InterruptedPreempts, QuietStep DEF TimerInterrupt, Preempted
<1>4. CASE IdleBlock
  <2>1. SchedOK(sched') /\ Blocked(sched') = Blocked(sched)
    BY <1>1, <1>4, ThreadBlockBlocks, ThreadsAssumption DEF IdleBlock
  <2> QED
    BY <1>4, <2>1, QuietStep DEF IdleBlock
<1>5. CASE UNCHANGED vars
  BY <1>1, <1>5, QuietStep DEF vars
<1> QED
  BY <1>2, <1>3, <1>4, <1>5 DEF Next

\* At most one thread is between taking the lock and giving it up, though a
\* thread may come by it in lock_acquire or at the end of cond_wait, and goes
\* through sema_down again if another was faster (threads/synch.c).
THEOREM OneInMonitor == Spec => []MonitorExclusive
BY InitIInv, NextKeepsIInv, IInvMeans, PTL DEF Spec

\* A signal is not lost if it comes before the waiter sleeps: the semaphore of
\* the waiter keeps the unit until it is downed, and its thread is not blocked
\* (cond_wait and cond_signal in threads/synch.c).
THEOREM SignalIsKept == Spec => []SignalKept
BY InitIInv, NextKeepsIInv, IInvMeans, PTL DEF Spec

\* The list of waiters never holds the semaphore_elem of a thread that has left
\* cond_wait, so cond_signal ups a semaphore on a live stack (threads/synch.c).
THEOREM WaitersWait == Spec => []WaitersInCondWait
BY InitIInv, NextKeepsIInv, IInvMeans, PTL DEF Spec

LEMMA SortPutsUrgentFirst ==
  ASSUME IInv, NEW t \in Thread, NEW k, NEW l, SignalSort(t, k, l), Unslept = {},
         NEW u \in ToSet(waiters)
  PROVE  sched.priority[Head(waiters')] >= sched.priority[u]
<1>1. waiters \in Seq(Thread) /\ ToSet(waiters) \subseteq Thread /\ waiters # << >>
  BY LockFacts DEF SignalSort
<1>2. \A v \in Thread : Urgency[v] \in Int
  BY UrgencyIsInt
<1>3. /\ waiters' \in Seq(Thread) /\ ToSet(waiters') = ToSet(waiters)
      /\ SortedByPriority(waiters', Urgency)
  BY <1>1, <1>2, SortKeeps DEF SignalSort, SortedWaiters
<1>4. \A v \in Thread : Urgency[v] = sched.priority[v]
  BY DEF Urgency
<1>5. waiters' # << >>
  BY <1>1, <1>3, Lists
<1> DEFINE n == Len(waiters')
<1>6. n \in Nat /\ n >= 1 /\ DOMAIN waiters' = 1 .. n /\ Head(waiters') = waiters'[1]
  BY <1>3, <1>5, LenProperties, EmptySeq
<1> HIDE DEF n
<1>7. PICK i \in 1 .. n : waiters'[i] = u
  BY <1>3, <1>6 DEF ToSet
<1>8. 1 \in 1 .. n /\ u \in Thread /\ waiters'[1] \in Thread
  BY <1>1, <1>3, <1>6, ElementOfSeq
<1>9. CASE i = 1
  BY <1>2, <1>4, <1>6, <1>7, <1>8, <1>9
<1>10. CASE i # 1
  <2>1. 1 < i
    BY <1>6, <1>10
  <2>2. Urgency[waiters'[1]] >= Urgency[u]
    BY <1>3, <1>6, <1>7, <1>8, <2>1 DEF SortedByPriority
  <2> QED
    BY <1>4, <1>6, <1>8, <2>2
<1> QED
  BY <1>9, <1>10

\* When cond_signal or cond_broadcast sorts waiters that are all asleep, it puts
\* one of the highest priority to the front (cond_compare in threads/synch.c).
THEOREM HighestSignalled == Spec => SignalsHighestSleeper
<1> DEFINE Highest ==
      \A t \in Thread :
        /\ pc[t] # pc'[t] /\ pc'[t] \in {"signal_up", "broadcast_up"}
        /\ Unslept = {}
        => \A u \in ToSet(waiters) : sched.priority[Head(waiters')] >= sched.priority[u]
<1>1. IInv /\ [Next]_vars => [Highest]_vars
  <2> SUFFICES ASSUME IInv, Next, NEW t \in Thread, Unslept = {},
                      pc[t] # pc'[t], pc'[t] \in {"signal_up", "broadcast_up"},
                      NEW u \in ToSet(waiters)
               PROVE  sched.priority[Head(waiters')] >= sched.priority[u]
    OBVIOUS
  <2>1. pc \in [Thread -> PC]
    BY LockFacts
  <2>2. ASSUME NEW s \in Thread, NEW l, pc' = [pc EXCEPT ![s] = l],
               l \notin {"signal_up", "broadcast_up"}
        PROVE  FALSE
    BY <2>1, <2>2
  <2>3. PICK s \in Thread : ThreadStep(s)
    BY DEF Next, TimerInterrupt, IdleBlock
  <2>4. CASE Acquire(s) \/ WaitAcquire(s)
    <3>1. ASSUME NEW from, NEW asleep, NEW to, LockDown(s, from, asleep, to),
                 asleep \notin {"signal_up", "broadcast_up"},
                 to \notin {"signal_up", "broadcast_up"}
          PROVE  FALSE
      BY <2>2, <3>1 DEF LockDown, Goto
    <3> QED
      BY <2>4, <3>1 DEF Acquire, WaitAcquire
  <2>5. CASE Release(s) \/ WaitRelease(s)
    <3>1. ASSUME NEW from, NEW to, LockUp(s, from, to),
                 to \notin {"signal_up", "broadcast_up"}
          PROVE  FALSE
      BY <2>2, <3>1 DEF LockUp, Goto
    <3> QED
      BY <2>5, <3>1 DEF Release, WaitRelease
  <2>6. CASE WaitInsert(s) \/ WaitDown(s)
    <3>1. WaitInsert(s) => pc' = [pc EXCEPT ![s] = "wait_release"]
      BY DEF WaitInsert, Goto
    <3>2. ASSUME WaitDown(s) PROVE FALSE
      BY <2>2, <3>2 DEF WaitDown, Goto
    <3> QED
      BY <2>2, <2>6, <3>1, <3>2
  <2>7. CASE BroadcastBegin(s) \/ BroadcastEnd(s)
    BY <2>2, <2>7 DEF BroadcastBegin, BroadcastEnd, Goto
  <2>8. ASSUME NEW k, NEW l, SignalSort(s, k, l)
        PROVE  sched.priority[Head(waiters')] >= sched.priority[u]
    BY <2>8, SortPutsUrgentFirst
  <2>9. ASSUME NEW k, SignalUnsortable(s, k)
        PROVE  FALSE
    BY <2>9 DEF SignalUnsortable
  <2>10. ASSUME NEW k, NEW l, l \in {"own", "broadcast"}, SignalUp(s, k, l)
         PROVE  FALSE
    BY <2>2, <2>10 DEF SignalUp, Goto
  <2>11. CASE Signal(s)
    BY <2>8, <2>9, <2>10, <2>11 DEF Signal
  <2>12. CASE Broadcast(s)
    BY <2>8, <2>9, <2>10, <2>12 DEF Broadcast
  <2> QED
    BY <2>3, <2>4, <2>5, <2>6, <2>7, <2>11, <2>12 DEF ThreadStep
<1> QED
  BY <1>1, InitIInv, NextKeepsIInv, PTL DEF Spec, SignalsHighestSleeper

================================================================================
