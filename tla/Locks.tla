--------------------------------- MODULE Locks ---------------------------------
(***************************************************************************)
(* lock_acquire and lock_release with priority donation (threads/synch.c). *)
(* Interrupts are on except inside sema_down and sema_up, so a tick may    *)
(* take the CPU from a thread between any two of the steps below.          *)
(*                                                                         *)
(* `waitelem' of struct lock is one list element for all the threads that  *)
(* have ever waited for the lock, and nobody removes it from their         *)
(* waiting_locks.  These lists are therefore kept as the links they are    *)
(* made of.  A thread T stands for both ends of its own list: link[T] is   *)
(* the element behind the head, link[l] the one behind l's waitelem, and a *)
(* link to T is a link to the tail.                                        *)
(***************************************************************************)
EXTENDS Semaphores

CONSTANTS
  Lock,
  None,            \* NULL as a lock or as the holder of one
  BasePriority,    \* the priority each thread was created with
  NewPriority      \* bound: what each thread sets its priority to

ASSUME LocksAssumption ==
  /\ None \notin Lock \union Thread
  /\ Lock \intersect Thread = {}
  /\ BasePriority \in [Thread -> Priority] /\ NewPriority \in [Thread -> SUBSET Priority]
  /\ \A t \in Thread : BasePriority[t] <= BasePriority[Main]

VARIABLES
  sema,             \* `semaphore' of each lock
  holder,           \* `holder' of each lock
  holder_priority,  \* `holder_priority' of each lock
  owning_locks,     \* `owning_locks' of each thread
  link,             \* `next' of each waiting_locks head and each waitelem
  last,             \* the last element of each waiting_locks, T for the head
  pc,               \* where each thread is
  arg,              \* the lock it is there for
  donating,         \* the frames of multiple_donate, innermost first
  fault             \* what stopped the kernel

vars == <<sched, sema, holder, holder_priority, owning_locks, link, last, pc, arg,
          donating, fault>>

lists == <<link, last>>

PC == {"run", "acq_compare", "acq_assign", "acq_donate", "donate", "acq_down",
       "down", "acq_holder", "acq_save", "rel_donated", "rel_holder", "rel_up",
       "set_yield"}

Fault == {"none", "ASSERT (lock->holder != NULL)", "lock->holder is NULL",
          "l->holder is NULL", "waitelem of no lock", "ASSERT (!list_empty (list))"}

TypeOK ==
  /\ sched \in SchedState
  /\ sema \in [Lock -> [value : Nat, waiters : Seq(Thread)]]
  /\ holder \in [Lock -> Thread \union {None}]
  /\ holder_priority \in [Lock -> Priority]
  /\ owning_locks \in [Thread -> Seq(Lock)]
  /\ link \in [Thread \union Lock -> Thread \union Lock \union {None}]
  /\ last \in [Thread -> Thread \union Lock]
  /\ pc \in [Thread -> PC]
  /\ arg \in [Thread -> Lock \union {None}]
  /\ donating \in [Thread -> Seq([thread : Thread, at : Thread \union Lock])]
  /\ fault \in Fault

Init ==
  /\ \E order \in { l \in [1 .. Cardinality(Thread \ {Main}) -> Thread \ {Main}] :
                      Distinct(l) } :
       sched = StartedSched(order, BasePriority)
  /\ sema = [l \in Lock |-> SemaInit(1)]
  /\ holder = [l \in Lock |-> None]
  /\ holder_priority = [l \in Lock |-> PRI_MIN]
  /\ owning_locks = [t \in Thread |-> << >>]
  /\ link = [x \in Thread \union Lock |-> IF x \in Thread THEN x ELSE None]
  /\ last = [t \in Thread |-> t]
  /\ pc = [t \in Thread |-> "run"]
  /\ arg = [t \in Thread |-> None]
  /\ donating = [t \in Thread |-> << >>]
  /\ fault = "none"

Alive == ~sched.panic

At(t, l) == Alive /\ sched.cur = t /\ pc[t] = l

Goto(t, l) == pc' = [pc EXCEPT ![t] = l]

\* The kernel stops.
Stop(what) ==
  /\ sched' = Panic(sched)
  /\ fault' = what
  /\ UNCHANGED <<sema, holder, holder_priority, owning_locks, lists, pc, arg, donating>>

-------------------------------------------------------------------------------
(***************************************************************************)
(* lock_acquire.  The current thread does not hold the lock.               *)
(***************************************************************************)
\* list_push_back (&t->waiting_locks, &l->waitelem): the element behind l is
\* t's tail, and l comes behind what was last.
PushWaiting(t, l) ==
  /\ link' = [link EXCEPT ![l] = t, ![last[t]] = l]
  /\ last' = [last EXCEPT ![t] = l]

Acquire(t, l) ==
  /\ At(t, "run")
  /\ holder[l] # t
  /\ arg' = [arg EXCEPT ![t] = l]
  /\ IF holder[l] = None
       THEN Goto(t, "acq_down") /\ UNCHANGED lists
       ELSE Goto(t, "acq_compare") /\ PushWaiting(t, l)
  /\ UNCHANGED <<sched, sema, holder, holder_priority, owning_locks, donating, fault>>

\* The holder of the lock may have changed since it was last looked at.
LacksDonation(t) == sched.priority[holder[arg[t]]] < sched.priority[t]

AcqCompare(t) ==
  /\ At(t, "acq_compare")
  /\ holder[arg[t]] # None
  /\ Goto(t, IF LacksDonation(t) THEN "acq_assign" ELSE "acq_down")
  /\ UNCHANGED <<sched, sema, holder, holder_priority, owning_locks, lists, arg,
                 donating, fault>>

AcqAssign(t) ==
  /\ At(t, "acq_assign")
  /\ holder[arg[t]] # None
  /\ sched' = [sched EXCEPT !.priority[holder[arg[t]]] = sched.priority[t]]
  /\ Goto(t, "acq_donate")
  /\ UNCHANGED <<sema, holder, holder_priority, owning_locks, lists, arg, donating,
                 fault>>

AcqNoHolder(t) ==
  /\ At(t, "acq_compare") \/ At(t, "acq_assign")
  /\ holder[arg[t]] = None
  /\ Stop("lock->holder is NULL")

(***************************************************************************)
(* multiple_donate: a frame is a holder and the element of its             *)
(* waiting_locks that the loop looks at.                                   *)
(***************************************************************************)
Frame(h) == [thread |-> h, at |-> link[h]]

AcqDonate(t) ==
  /\ At(t, "acq_donate")
  /\ holder[arg[t]] # None
  /\ donating' = [donating EXCEPT ![t] = <<Frame(holder[arg[t]])>>]
  /\ Goto(t, "donate")
  /\ UNCHANGED <<sched, sema, holder, holder_priority, owning_locks, lists, arg,
                 fault>>

AcqDonateAssert(t) ==
  /\ At(t, "acq_donate")
  /\ holder[arg[t]] = None
  /\ Stop("ASSERT (lock->holder != NULL)")

MaxDepth == 30

Advance(frames) ==
  IF frames = << >> THEN << >>
  ELSE <<[Head(frames) EXCEPT !.at = link[@]]>> \o Tail(frames)

\* The loop is at the end of the list: multiple_donate returns.
DonateReturn(t) ==
  /\ At(t, "donate")
  /\ LET frame == Head(donating[t])
     IN  /\ frame.at = frame.thread
         /\ donating' = [donating EXCEPT ![t] = Advance(Tail(@))]
         /\ Goto(t, IF Len(donating[t]) = 1 THEN "acq_down" ELSE "donate")
  /\ UNCHANGED <<sched, sema, holder, holder_priority, owning_locks, lists, arg,
                 fault>>

\* The loop is at a lock with a holder: raise the holder and go on from there,
\* or look at the next element.
DonateOn(t) ==
  /\ At(t, "donate")
  /\ LET frame == Head(donating[t])
         h == holder[frame.at]
     IN  /\ frame.at \in Lock
         /\ h # None
         /\ IF sched.priority[h] < sched.priority[frame.thread]
              THEN /\ sched' = [sched EXCEPT !.priority[h] =
                                  sched.priority[frame.thread]]
                   /\ donating' = [donating EXCEPT ![t] =
                                     IF Len(@) >= MaxDepth THEN Advance(@)
                                     ELSE <<Frame(h)>> \o @]
              ELSE /\ donating' = [donating EXCEPT ![t] = Advance(@)]
                   /\ UNCHANGED sched
  /\ UNCHANGED <<sema, holder, holder_priority, owning_locks, lists, pc, arg, fault>>

\* The loop is at a lock that nobody holds, or at the tail of another list.
DonateFault(t) ==
  /\ At(t, "donate")
  /\ LET frame == Head(donating[t])
     IN  \/ /\ frame.at \in Lock /\ holder[frame.at] = None
            /\ Stop("l->holder is NULL")
         \/ /\ frame.at \in Thread \ {frame.thread}
            /\ Stop("waitelem of no lock")

(***************************************************************************)
(* sema_down in lock_acquire, and what lock_acquire does with the lock.    *)
(***************************************************************************)
\* Wrong on purpose: a woken thread takes the lock for granted.
AcqDownWithoutTest(t) ==
  /\ At(t, "acq_down") \/ At(t, "down")
  /\ LET l == arg[t]
         woken == pc[t] = "down"
     IN  /\ sema' = [sema EXCEPT ![l] =
                       IF woken THEN [@ EXCEPT !.value = @ - 1]
                       ELSE DownSema(sched, @)]
         /\ sched' = IF woken THEN sched ELSE DownSched(sched, sema[l])
         /\ Goto(t, IF ~woken /\ MustWait(sema[l]) THEN "down" ELSE "acq_holder")
  /\ UNCHANGED <<holder, holder_priority, owning_locks, lists, arg, donating, fault>>

AcqDown(t) ==
  /\ At(t, "acq_down") \/ At(t, "down")
  /\ LET l == arg[t]
     IN  /\ sema' = [sema EXCEPT ![l] = DownSema(sched, @)]
         /\ sched' = DownSched(sched, sema[l])
         /\ Goto(t, IF MustWait(sema[l]) THEN "down" ELSE "acq_holder")
  /\ UNCHANGED <<holder, holder_priority, owning_locks, lists, arg, donating, fault>>

AcqHolder(t) ==
  /\ At(t, "acq_holder")
  /\ holder' = [holder EXCEPT ![arg[t]] = t]
  /\ Goto(t, "acq_save")
  /\ UNCHANGED <<sched, sema, holder_priority, owning_locks, lists, arg, donating,
                 fault>>

AcqSave(t) ==
  /\ At(t, "acq_save")
  /\ owning_locks' = [owning_locks EXCEPT ![t] = Append(@, arg[t])]
  /\ holder_priority' = [holder_priority EXCEPT ![arg[t]] = sched.priority[t]]
  /\ arg' = [arg EXCEPT ![t] = None]
  /\ Goto(t, "run")
  /\ UNCHANGED <<sched, sema, holder, lists, donating, fault>>

-------------------------------------------------------------------------------
(***************************************************************************)
(* lock_release, of a lock that the current thread holds.                  *)
(***************************************************************************)
\* list_remove (&lock->ownelem)
Unlinked(locks, l) == RemoveAt(locks, CHOOSE i \in DOMAIN locks : locks[i] = l)

Release(t, l) ==
  /\ At(t, "run")
  /\ holder[l] = t
  /\ sched' = [sched EXCEPT !.priority[t] = holder_priority[l]]
  /\ owning_locks' = [owning_locks EXCEPT ![t] = Unlinked(@, l)]
  /\ arg' = [arg EXCEPT ![t] = l]
  /\ Goto(t, "rel_donated")
  /\ UNCHANGED <<sema, holder, holder_priority, lists, donating, fault>>

\* The inner loop of set_max_priority_donated raises p along the waiters of a
\* lock and breaks at the first that is no higher.
RaisedBy(p, waiters) ==
  LET Higher(i) == sched.priority[waiters[i]]
                     > IF i = 1 THEN p ELSE sched.priority[waiters[i - 1]]
      n == CHOOSE k \in 0 .. Len(waiters) :
             /\ \A i \in 1 .. k : Higher(i)
             /\ k < Len(waiters) => ~Higher(k + 1)
  IN  IF n = 0 THEN p ELSE sched.priority[waiters[n]]

\* The outer loop goes on from what the locks before have raised p to.
RaisedByAll(p, locks) ==
  LET raised[i \in 0 .. Len(locks)] ==
        IF i = 0 THEN p ELSE RaisedBy(raised[i - 1], sema[locks[i]].waiters)
  IN  raised[Len(locks)]

RelDonated(t) ==
  /\ At(t, "rel_donated")
  /\ sched' = [sched EXCEPT !.priority[t] = RaisedByAll(@, owning_locks[t])]
  /\ Goto(t, "rel_holder")
  /\ UNCHANGED <<sema, holder, holder_priority, owning_locks, lists, arg, donating,
                 fault>>

RelHolder(t) ==
  /\ At(t, "rel_holder")
  /\ holder' = [holder EXCEPT ![arg[t]] = None]
  /\ Goto(t, "rel_up")
  /\ UNCHANGED <<sched, sema, holder_priority, owning_locks, lists, arg, donating,
                 fault>>

RelUp(t) ==
  /\ At(t, "rel_up")
  /\ sema' = [sema EXCEPT ![arg[t]] = UpSema(sched, @)]
  /\ sched' = ThreadPreemption(UpSched(sched, sema[arg[t]]))
  /\ arg' = [arg EXCEPT ![t] = None]
  /\ Goto(t, "run")
  /\ UNCHANGED <<holder, holder_priority, owning_locks, lists, donating, fault>>

-------------------------------------------------------------------------------
(***************************************************************************)
(* thread_set_priority (threads/thread.c) by a thread that owns locks; for *)
(* one that owns none see Scheduler.  The new priority is what each lock   *)
(* will set it back to; for now the thread gets the priority of the first  *)
(* waiter of the last lock, be it higher or not.  The walk along           *)
(* ready_list is one step; Scheduler takes it apart.                       *)
(***************************************************************************)
SetPriority(t, new) ==
  LET owned == owning_locks[t] IN
  /\ At(t, "run")
  /\ owned # << >>
  /\ \A l \in ToSet(owned) : sema[l].waiters # << >>
  /\ sched' = [sched EXCEPT !.priority[t] =
                 sched.priority[Head(sema[Last(owned)].waiters)]]
  /\ holder_priority' = [l \in Lock |-> IF l \in ToSet(owned) THEN new
                                        ELSE holder_priority[l]]
  /\ Goto(t, "set_yield")
  /\ UNCHANGED <<sema, holder, owning_locks, lists, arg, donating, fault>>

\* list_front of the waiters of a lock that nobody waits for
SetPriorityAssert(t) ==
  /\ At(t, "run")
  /\ NewPriority[t] # {}
  /\ \E l \in ToSet(owning_locks[t]) : sema[l].waiters = << >>
  /\ Stop("ASSERT (!list_empty (list))")

SetYield(t) ==
  /\ At(t, "set_yield")
  /\ sched' = IF \E u \in ToSet(sched.ready) : sched.priority[t] < sched.priority[u]
               THEN ThreadYield(sched) ELSE sched
  /\ Goto(t, "run")
  /\ UNCHANGED <<sema, holder, holder_priority, owning_locks, lists, arg, donating,
                 fault>>

-------------------------------------------------------------------------------
(***************************************************************************)
(* The rest of the kernel: a thread that is not busy with a lock waits for *)
(* a device, whose interrupt wakes it; the timer ticks; the idle thread.   *)
(***************************************************************************)
OthersUnchanged ==
  UNCHANGED <<sema, holder, holder_priority, owning_locks, lists, pc, arg, donating,
              fault>>

InterruptsOn == Alive /\ (sched.cur \in Thread => pc[sched.cur] # "down")

Rest(t) ==
  /\ At(t, "run")
  /\ sched' = ThreadBlock(sched)
  /\ OthersUnchanged

DeviceInterrupt(t) ==
  /\ InterruptsOn
  /\ sched.status[t] = "BLOCKED" /\ pc[t] = "run"
  /\ sched' \in Interrupted(ThreadUnblock(sched, t))
  /\ OthersUnchanged

TimerInterrupt ==
  /\ InterruptsOn
  /\ sched' \in Interrupted(sched)
  /\ OthersUnchanged

IdleBlock ==
  /\ Alive /\ sched.cur = Idle
  /\ sched' = ThreadBlock(sched)
  /\ OthersUnchanged

ThreadStep(t) ==
  \/ \E l \in Lock : Acquire(t, l)
  \/ AcqCompare(t)
  \/ AcqAssign(t)
  \/ AcqNoHolder(t)
  \/ AcqDonate(t)
  \/ AcqDonateAssert(t)
  \/ DonateReturn(t)
  \/ DonateOn(t)
  \/ DonateFault(t)
  \/ AcqDown(t)
  \/ AcqHolder(t)
  \/ AcqSave(t)
  \/ \E l \in Lock : Release(t, l)
  \/ RelDonated(t)
  \/ RelHolder(t)
  \/ RelUp(t)
  \/ \E new \in NewPriority[t] : SetPriority(t, new)
  \/ SetPriorityAssert(t)
  \/ SetYield(t)
  \/ Rest(t)

Next ==
  \/ \E t \in Thread : ThreadStep(t) \/ DeviceInterrupt(t)
  \/ TimerInterrupt
  \/ IdleBlock

Spec == Init /\ [][Next]_vars

-------------------------------------------------------------------------------
(***************************************************************************)
(* Properties.                                                             *)
(***************************************************************************)

\* Threads that own l: past sema_down in lock_acquire and not past sema_up in
\* lock_release.
Owners(l) ==
  { t \in Thread :
      \/ l \in ToSet(owning_locks[t])
      \/ /\ arg[t] = l
         /\ pc[t] \in {"acq_holder", "acq_save", "rel_donated", "rel_holder", "rel_up"} }

\* "a lock can only be owned by a single thread at a time" (threads/synch.c), at
\* every statement of lock_acquire and lock_release; while it has no owner its
\* semaphore is free to be taken.  A lock that names a holder is owned by that
\* thread; one without may be owned, between sema_down and the assignment that
\* follows it.
OneOwner ==
  /\ TypeOK
  /\ \A l \in Lock :
       /\ sema[l].value + Cardinality(Owners(l)) = 1
       /\ holder[l] # None => holder[l] \in Owners(l)

\* The waiters of a lock are the threads blocked in its sema_down; if the lock is
\* free, one that was woken is on its way.
NoLostWakeup ==
  \A l \in Lock :
    LET inDown == { t \in Thread : pc[t] = "down" /\ arg[t] = l }
        waiting == ToSet(sema[l].waiters)
    IN  /\ waiting = { t \in inDown : sched.status[t] = "BLOCKED" }
        /\ waiting # {} /\ sema[l].value = 1 => inDown # waiting

\* "if current thread have higher priority, donate it" (threads/synch.c): the
\* assignment raises the priority of whoever is the holder by then.
DonationRaises ==
  [][ \A t \in Thread : AcqAssign(t) =>
        \A u \in Thread : sched'.priority[u] >= sched.priority[u] ]_vars

\* Threads that "block acquiring the lock" donate "their priorities"
\* (tests/threads/priority-donate-one.c): an owner that is done with lock_acquire
\* ranks no lower than any thread that the lock keeps waiting.
OwnerInherits ==
  \A l \in Lock : \A t \in ToSet(sema[l].waiters) : \A u \in Owners(l) :
    pc[u] = "run" => sched.priority[u] >= sched.priority[t]

\* ASSERT (lock->holder != NULL) in multiple_donate (threads/synch.c).
DonatesToHolder == fault # "ASSERT (lock->holder != NULL)"

\* "Sets the current thread's priority to NEW_PRIORITY" (threads/thread.c): also
\* for a thread whose lock nobody waits for.
PriorityCanBeSet == fault # "ASSERT (!list_empty (list))"

\* "if current thread should be block by this lock" (threads/synch.c) the lock
\* joins its waiting_locks: multiple_donate finds only locks there that somebody
\* holds.
WaitsForHeldLocks == fault # "l->holder is NULL"

\* The head and the tail of a list "point toward each other via the interior
\* elements of the list" (lib/kernel/list.c): so do those of waiting_locks, and
\* the loop of multiple_donate comes to its end.
WaitingListsClosed ==
  \A t \in Thread :
    LET element[n \in 0 .. Cardinality(Lock) + 1] ==
          IF n = 0 THEN t ELSE link[element[n - 1]]
    IN  \E n \in 1 .. Cardinality(Lock) + 1 :
          element[n] = t /\ \A i \in 1 .. n - 1 : element[i] \in Lock

\* "save the init priority, when lock relase, it should set back"
\* (threads/synch.c): a thread without locks has the priority it started with.
PrioritySetBack ==
  \A t \in Thread :
    pc[t] = "run" /\ owning_locks[t] = << >> => sched.priority[t] = BasePriority[t]

===============================================================================
