---------------------------- MODULE SemaphoreProofs ----------------------------
(***************************************************************************)
(* For all sets of threads and semaphores: a semaphore implements the      *)
(* counter of CountingSemaphore, since every step of Semaphore takes or    *)
(* gives a unit, makes a thread wait for one, or changes nothing that the  *)
(* users of semaphores can tell; its waiters are where they can be found;  *)
(* and no wakeup is lost.                                                  *)
(***************************************************************************)
EXTENDS Semaphore, ThreadsProofs

\* What the refinement needs to know of the types; the wait lists and the
\* scheduler do not matter for it.
CountersOK ==
  /\ sema = [s \in Sema |-> [value |-> sema[s].value, waiters |-> sema[s].waiters]]
  /\ \A s \in Sema : sema[s].value \in Nat
  /\ downing \in [Thread -> Sema \union {Nobody}]

Value == [s \in Sema |-> sema[s].value]

\* One semaphore is changed, and with it only its value.
LEMMA ChangeOne ==
  ASSUME CountersOK, NEW s \in Sema, NEW v \in Nat, NEW w,
         sema' = [sema EXCEPT ![s] = [value |-> v, waiters |-> w]]
  PROVE  /\ sema' = [r \in Sema |-> [value |-> sema'[r].value,
                                     waiters |-> sema'[r].waiters]]
         /\ \A r \in Sema : sema'[r].value \in Nat
         /\ Value' = [Value EXCEPT ![s] = v]
<1> DEFINE new == [value |-> v, waiters |-> w]
<1>1. sema'[s] = new /\ \A r \in Sema \ {s} : sema'[r] = sema[r]
  BY DEF CountersOK
<1>0. new.value = v /\ new = [value |-> new.value, waiters |-> new.waiters]
  OBVIOUS
<1>2. \A r \in Sema : sema'[r].value = IF r = s THEN v ELSE sema[r].value
  BY <1>0, <1>1
<1>3. DOMAIN sema' = Sema
  BY DEF CountersOK
<1>4. sema' = [r \in Sema |-> sema'[r]]
  BY <1>3, DOMAIN sema' = DOMAIN [sema EXCEPT ![s] = [value |-> v, waiters |-> w]]
  DEF CountersOK
<1>9. \A r \in Sema : sema[r] = [value |-> sema[r].value, waiters |-> sema[r].waiters]
  BY DEF CountersOK
<1>5. \A r \in Sema : sema'[r] = [value |-> sema'[r].value, waiters |-> sema'[r].waiters]
  BY <1>0, <1>1, <1>9
<1>6. sema' = [r \in Sema |-> [value |-> sema'[r].value, waiters |-> sema'[r].waiters]]
  BY <1>4, <1>5
<1>7. Value' = [Value EXCEPT ![s] = v]
  BY <1>2 DEF Value
<1>8. \A r \in Sema : sema'[r].value \in Nat
  BY <1>2 DEF CountersOK
<1> QED
  BY <1>6, <1>7, <1>8

\* The functions of Semaphores on one semaphore, by their value.
LEMMA OneSemaphore ==
  ASSUME CountersOK, NEW s \in Sema
  PROVE  /\ MustWait(sema[s]) =>
              \E w : DownSema(sched, sema[s]) = [value |-> sema[s].value, waiters |-> w]
         /\ ~MustWait(sema[s]) =>
              \E w : DownSema(sched, sema[s]) = [value |-> sema[s].value - 1,
                                                 waiters |-> w]
         /\ sema[s].value > 0 =>
              \E w : TryDownSema(sema[s]) = [value |-> sema[s].value - 1, waiters |-> w]
         /\ ~(sema[s].value > 0) =>
              \E w : TryDownSema(sema[s]) = [value |-> sema[s].value, waiters |-> w]
         /\ \E w : UpSema(sched, sema[s]) = [value |-> sema[s].value + 1, waiters |-> w]
<1> DEFINE v == sema[s].value
           q == sema[s].waiters
<1>1. sema[s] = [value |-> v, waiters |-> q]
  BY DEF CountersOK
<1> HIDE DEF v, q
<1>2. \A x : [sema[s] EXCEPT !.waiters = x] = [value |-> v, waiters |-> x]
  BY <1>1
<1>3. \A x : [sema[s] EXCEPT !.value = x] = [value |-> x, waiters |-> q]
  BY <1>1
<1>4. sema[s].value = v
  BY DEF v
<1>5. MustWait(sema[s]) => DownSema(sched, sema[s]) =
        [value |-> v, waiters |-> InsertByPriority(sema[s].waiters, sched.cur,
                                                   sched.priority)]
  BY <1>2 DEF DownSema
<1>6. ~MustWait(sema[s]) => DownSema(sched, sema[s]) = [value |-> v - 1, waiters |-> q]
  BY <1>3, <1>4 DEF DownSema
<1>7. v > 0 => TryDownSema(sema[s]) = [value |-> v - 1, waiters |-> q]
  BY <1>3, <1>4 DEF TryDownSema
<1>8. ~(v > 0) => TryDownSema(sema[s]) = [value |-> v, waiters |-> q]
  BY <1>1, <1>4 DEF TryDownSema
<1>9. \E w : UpSema(sched, sema[s]) = [value |-> v + 1, waiters |-> w]
  BY <1>4 DEF UpSema
<1> QED
  BY <1>4, <1>5, <1>6, <1>7, <1>8, <1>9

LEMMA InitCounters == Init => CountersOK /\ Counting!Init
<1> SUFFICES ASSUME Init PROVE CountersOK /\ Counting!Init
  OBVIOUS
<1>1. \A s \in Sema : \E v \in 0 .. 1 : sema[s] = [value |-> v, waiters |-> << >>]
  BY DEF Init, SemaInit
<1>2. sema = [s \in Sema |-> sema[s]]
  BY DEF Init
<1>3. \A s \in Sema : sema[s].value \in Nat
  BY <1>1
<1>4. \A s \in Sema : sema[s] = [value |-> sema[s].value, waiters |-> sema[s].waiters]
  BY <1>1
<1>5. downing = [t \in Thread |-> Nobody]
  BY DEF Init
<1>6. CountersOK
  BY <1>2, <1>3, <1>4, <1>5 DEF CountersOK
<1>7. Counting!Init
  BY <1>3, <1>5 DEF Counting!Init
<1> QED
  BY <1>6, <1>7

\* The three kinds of step, from what they do to one semaphore.
LEMMA TakeStep ==
  ASSUME CountersOK, NEW t \in Thread, NEW s \in Sema, downing[t] \in {s, Nobody},
         sema[s].value > 0,
         NEW w, sema' = [sema EXCEPT ![s] = [value |-> sema[s].value - 1,
                                             waiters |-> w]],
         downing' = [downing EXCEPT ![t] = Nobody]
  PROVE  CountersOK' /\ Counting!Take(t, s)
<1>1. sema[s].value - 1 \in Nat
  BY DEF CountersOK
<1>2. Value' = [Value EXCEPT ![s] = sema[s].value - 1]
  BY <1>1, ChangeOne
<1>3. Value' = [Value EXCEPT ![s] = Value[s] - 1] /\ Value[s] > 0
  BY <1>2 DEF Value
<1>4. CountersOK'
  BY <1>1, ChangeOne DEF CountersOK
<1>5. Counting!Take(t, s)
  BY <1>3 DEF Value, Counting!Take
<1> QED
  BY <1>4, <1>5

LEMMA WaitStep ==
  ASSUME CountersOK, NEW t \in Thread, NEW s \in Sema, downing[t] \in {s, Nobody},
         MustWait(sema[s]),
         NEW w, sema' = [sema EXCEPT ![s] = [value |-> sema[s].value, waiters |-> w]],
         downing' = [downing EXCEPT ![t] = s]
  PROVE  CountersOK' /\ (Counting!Ask(t, s) \/ UNCHANGED Counting!vars)
<1>1. Value' = [Value EXCEPT ![s] = sema[s].value]
  BY ChangeOne DEF CountersOK
<1>2. Value' = Value /\ Value[s] = 0
  BY <1>1 DEF Value, MustWait
<1>3. CountersOK'
  BY ChangeOne DEF CountersOK
<1>4. CASE downing[t] = Nobody
  BY <1>2, <1>3, <1>4 DEF Value, Counting!Ask
<1>5. CASE downing[t] = s
  <2>1. downing' = downing
    BY <1>5 DEF CountersOK
  <2> QED
    BY <1>2, <1>3, <2>1 DEF Value, Counting!vars
<1> QED
  BY <1>4, <1>5

LEMMA DownLoopStep ==
  ASSUME CountersOK, NEW t \in Thread, NEW s \in Sema, downing[t] \in {s, Nobody},
         DownLoop(t, s)
  PROVE  CountersOK' /\ (Counting!Next \/ UNCHANGED Counting!vars)
<1>1. CASE MustWait(sema[s])
  <2>1. PICK w : DownSema(sched, sema[s]) = [value |-> sema[s].value, waiters |-> w]
    BY <1>1, OneSemaphore
  <2>2. /\ sema' = [sema EXCEPT ![s] = [value |-> sema[s].value, waiters |-> w]]
        /\ downing' = [downing EXCEPT ![t] = s]
    BY <1>1, <2>1 DEF DownLoop
  <2>3. CountersOK' /\ (Counting!Ask(t, s) \/ UNCHANGED Counting!vars)
    BY <1>1, <2>2, WaitStep
  <2> QED
    BY <2>3 DEF Counting!Next
<1>2. CASE ~MustWait(sema[s])
  <2>1. PICK w : DownSema(sched, sema[s]) = [value |-> sema[s].value - 1, waiters |-> w]
    BY <1>2, OneSemaphore
  <2>2. /\ sema' = [sema EXCEPT ![s] = [value |-> sema[s].value - 1, waiters |-> w]]
        /\ downing' = [downing EXCEPT ![t] = Nobody]
    BY <1>2, <2>1 DEF DownLoop
  <2>3. sema[s].value > 0
    BY <1>2 DEF MustWait, CountersOK
  <2>4. CountersOK' /\ Counting!Take(t, s)
    BY <2>2, <2>3, TakeStep
  <2> QED
    BY <2>4 DEF Counting!Next
<1> QED
  BY <1>1, <1>2

LEMMA GiveStep ==
  ASSUME CountersOK, NEW s \in Sema,
         sema' = [sema EXCEPT ![s] = UpSema(sched, @)], UNCHANGED downing
  PROVE  CountersOK' /\ (Counting!Next \/ UNCHANGED Counting!vars)
<1>1. PICK w : UpSema(sched, sema[s]) = [value |-> sema[s].value + 1, waiters |-> w]
  BY OneSemaphore
<1>2. sema' = [sema EXCEPT ![s] = [value |-> sema[s].value + 1, waiters |-> w]]
  BY <1>1
<1>3. sema[s].value + 1 \in Nat
  BY DEF CountersOK
<1>4. Value' = [Value EXCEPT ![s] = sema[s].value + 1]
  BY <1>2, <1>3, ChangeOne
<1>5. Value' = [Value EXCEPT ![s] = Value[s] + 1]
  BY <1>4 DEF Value
<1>8. downing' \in [Thread -> Sema \union {Nobody}]
  BY DEF CountersOK
<1>9. /\ sema' = [r \in Sema |-> [value |-> sema'[r].value, waiters |-> sema'[r].waiters]]
      /\ \A r \in Sema : sema'[r].value \in Nat
  BY <1>2, <1>3, ChangeOne
<1>6. CountersOK'
  BY <1>8, <1>9 DEF CountersOK
<1>7. Counting!Give(s)
  BY <1>5 DEF Value, Counting!Give
<1> QED
  BY <1>6, <1>7 DEF Counting!Next

LEMMA TryDownStep ==
  ASSUME CountersOK, NEW t \in Thread, NEW s \in Sema, TryDown(t, s)
  PROVE  CountersOK' /\ (Counting!Next \/ UNCHANGED Counting!vars)
<1>0. /\ downing[t] = Nobody /\ downing' = downing
      /\ sema' = [sema EXCEPT ![s] = TryDownSema(@)]
  BY DEF TryDown
<1>1. CASE sema[s].value > 0
  <2>1. PICK w : TryDownSema(sema[s]) = [value |-> sema[s].value - 1, waiters |-> w]
    BY <1>1, OneSemaphore
  <2>2. sema' = [sema EXCEPT ![s] = [value |-> sema[s].value - 1, waiters |-> w]]
    BY <1>0, <2>1
  <2>3. downing' = [downing EXCEPT ![t] = Nobody]
    BY <1>0 DEF CountersOK
  <2>4. CountersOK' /\ Counting!Take(t, s)
    BY <1>0, <1>1, <2>2, <2>3, TakeStep
  <2> QED
    BY <2>4 DEF Counting!Next
<1>2. CASE ~(sema[s].value > 0)
  <2>1. PICK w : TryDownSema(sema[s]) = [value |-> sema[s].value, waiters |-> w]
    BY <1>2, OneSemaphore
  <2>2. sema' = [sema EXCEPT ![s] = [value |-> sema[s].value, waiters |-> w]]
    BY <1>0, <2>1
  <2>3. Value' = [Value EXCEPT ![s] = sema[s].value]
    BY <2>2, ChangeOne DEF CountersOK
  <2>4. Value' = Value
    BY <2>3 DEF Value
  <2>5. CountersOK'
    <3>1. sema[s].value \in Nat /\ downing \in [Thread -> Sema \union {Nobody}]
      BY DEF CountersOK
    <3>2. /\ sema' = [r \in Sema |-> [value |-> sema'[r].value, waiters |-> sema'[r].waiters]]
          /\ \A r \in Sema : sema'[r].value \in Nat
      BY <2>2, <3>1, ChangeOne
    <3> QED
      BY <1>0, <3>1, <3>2 DEF CountersOK
  <2> QED
    BY <1>0, <2>4, <2>5 DEF Value, Counting!vars
<1> QED
  BY <1>1, <1>2

\* Steps of the scheduler alone, and no step at all.
LEMMA IdleStep ==
  ASSUME CountersOK, UNCHANGED <<sema, downing>>
  PROVE  CountersOK' /\ UNCHANGED Counting!vars
BY DEF CountersOK, Counting!vars

LEMMA NextImplementsCounting ==
  CountersOK /\ [Next]_vars => CountersOK' /\ [Counting!Next]_(Counting!vars)
<1> SUFFICES ASSUME CountersOK, [Next]_vars
             PROVE  CountersOK' /\ (Counting!Next \/ UNCHANGED Counting!vars)
  OBVIOUS
<1>1. ASSUME NEW t \in Thread, NEW s \in Sema, Down(t, s)
      PROVE  CountersOK' /\ (Counting!Next \/ UNCHANGED Counting!vars)
  BY <1>1, DownLoopStep DEF Down
<1>2. ASSUME NEW t \in Thread, Resume(t)
      PROVE  CountersOK' /\ (Counting!Next \/ UNCHANGED Counting!vars)
  <2>1. downing[t] \in Sema /\ DownLoop(t, downing[t])
    BY <1>2 DEF Resume, CountersOK
  <2> QED
    BY <2>1, DownLoopStep
<1>3. ASSUME NEW t \in Thread, NEW s \in Sema, TryDown(t, s)
      PROVE  CountersOK' /\ (Counting!Next \/ UNCHANGED Counting!vars)
  BY <1>3, TryDownStep
<1>4. ASSUME NEW t \in Thread, NEW s \in Sema, Up(t, s)
      PROVE  CountersOK' /\ (Counting!Next \/ UNCHANGED Counting!vars)
  BY <1>4, GiveStep DEF Up
<1>5. ASSUME NEW s \in Sema, InterruptUp(s)
      PROVE  CountersOK' /\ (Counting!Next \/ UNCHANGED Counting!vars)
  BY <1>5, GiveStep DEF InterruptUp
<1>6. ASSUME NEW t \in Thread, NEW p \in Priority, Reprioritise(t, p)
      PROVE  CountersOK' /\ (Counting!Next \/ UNCHANGED Counting!vars)
  BY <1>6, IdleStep DEF Reprioritise
<1>7. CASE TimerInterrupt
  BY <1>7, IdleStep DEF TimerInterrupt
<1>8. CASE IdleBlock
  BY <1>8, IdleStep DEF IdleBlock
<1>9. CASE UNCHANGED vars
  BY <1>9, IdleStep DEF vars
<1> QED
  BY <1>1, <1>2, <1>3, <1>4, <1>5, <1>6, <1>7, <1>8, <1>9 DEF Next, ThreadStep

\* The units of a semaphore are taken once each, and only by a thread that found
\* one: sema_down, sema_try_down and sema_up (threads/synch.c) implement the
\* counter, whatever the scheduler does.
THEOREM CountingImplemented == Spec => ImplementsCounting
<1>1. Init => CountersOK /\ Counting!Init
  BY InitCounters
<1>2. CountersOK /\ [Next]_vars => CountersOK' /\ [Counting!Next]_(Counting!vars)
  BY NextImplementsCounting
<1> QED
  BY <1>1, <1>2, PTL DEF Spec, ImplementsCounting, Counting!Spec

-------------------------------------------------------------------------------
(***************************************************************************)
(* Waiters and wakeups.  OneList and NoLostWakeup are inductive together:  *)
(* whoever is BLOCKED waits in some list, so that a thread that leaves the *)
(* list of a semaphore is one of those on their way to its value.          *)
(***************************************************************************)
IInv == OneList /\ NoLostWakeup

\* OneList, in the terms of the lemmas about the scheduler.
WaitersBlocked ==
  /\ sema \in [Sema -> SemaState]
  /\ downing \in [Thread -> Sema \union {Nobody}]
  /\ SchedOK(sched)
  /\ \A s \in Sema : /\ Distinct(sema[s].waiters)
                     /\ Waiting(s) = { t \in Blocked(sched) : downing[t] = s }
  /\ \A t \in Blocked(sched) : downing[t] # Nobody

LEMMA OneListMeans == OneList <=> WaitersBlocked
BY DEF OneList, WaitersBlocked, TypeOK, SemaState, SchedOK, ReadyOK, Blocked

LEMMA OneListMeansNext == OneList' <=> WaitersBlocked'
BY OneListMeans, PTL

LEMMA WokenFinite ==
  ASSUME NEW s \in Sema
  PROVE  IsFiniteSet(Woken(s)) /\ Cardinality(Woken(s)) \in Nat
<1>1. Woken(s) \subseteq Thread /\ IsFiniteSet(Thread)
  BY ThreadsAssumption DEF Woken
<1> QED
  BY <1>1, FS_Subset, FS_CardinalityType

LEMMA InitIInv == Init => IInv
<1> SUFFICES ASSUME Init PROVE IInv
  OBVIOUS
<1>1. SchedOK(sched) /\ Blocked(sched) = {}
  BY StartedOK DEF Init
<1>2. \A s \in Sema : \E v \in 0 .. 1 : sema[s] = [value |-> v, waiters |-> << >>]
  BY DEF Init, SemaInit
<1>3. ASSUME NEW s \in Sema
      PROVE  sema[s] \in SemaState /\ sema[s].waiters = << >>
  <2>1. PICK v \in 0 .. 1 : sema[s] = [value |-> v, waiters |-> << >>]
    BY <1>2
  <2>2. v \in Nat /\ << >> \in Seq(Thread)
    OBVIOUS
  <2> QED
    BY <2>1, <2>2 DEF SemaState
<1>4. sema \in [Sema -> SemaState]
  BY <1>3 DEF Init
<1>5. \A s \in Sema : Waiting(s) = {} /\ Distinct(sema[s].waiters)
  BY <1>3 DEF Waiting, ToSet, Distinct
<1>6. WaitersBlocked
  BY <1>1, <1>4, <1>5 DEF WaitersBlocked, Init
<1> QED
  BY <1>3, <1>6, OneListMeans DEF IInv, NoLostWakeup

\* Nobody joins or leaves a list of waiters.
LEMMA QuietStep ==
  ASSUME IInv, SchedOK(sched'), Blocked(sched') = Blocked(sched), UNCHANGED <<sema, downing>>
  PROVE  IInv'
<1>1. WaitersBlocked'
  BY OneListMeans DEF IInv, WaitersBlocked, Waiting
<1>2. NoLostWakeup'
  BY DEF IInv, NoLostWakeup, Woken, Waiting
<1> QED
  BY <1>1, <1>2, OneListMeansNext DEF IInv

\* One semaphore and the threads in its sema_down change; for the others, it is
\* as if nothing had happened.
LEMMA OneSemaphoreStep ==
  ASSUME IInv, NEW s \in Sema, NEW new \in SemaState,
         sema' = [sema EXCEPT ![s] = new], Distinct(new.waiters),
         downing' \in [Thread -> Sema \union {Nobody}],
         \A t \in Thread : downing'[t] # downing[t] =>
           downing[t] \in {s, Nobody} /\ downing'[t] \in {s, Nobody},
         SchedOK(sched'),
         \A t \in Thread : downing[t] # s /\ downing'[t] # s =>
           (t \in Blocked(sched) <=> t \in Blocked(sched')),
         ToSet(new.waiters) = { t \in Blocked(sched') : downing'[t] = s },
         \A t \in Blocked(sched') : downing'[t] # Nobody,
         new.waiters # << >> =>
           Cardinality({ t \in Thread : downing'[t] = s } \ ToSet(new.waiters)) >= new.value
  PROVE  IInv'
<1> DEFINE old == sema[s]
<1>1. WaitersBlocked
  BY OneListMeans DEF IInv
<1>2. sema' \in [Sema -> SemaState] /\ sema'[s] = new /\ \A r \in Sema \ {s} : sema'[r] = sema[r]
  BY <1>1 DEF WaitersBlocked
<1>3. Blocked(sched) \subseteq Thread /\ Blocked(sched') \subseteq Thread
  BY DEF Blocked
<1>4. \A r \in Sema \ {s} :
        { t \in Blocked(sched') : downing'[t] = r } = { t \in Blocked(sched) : downing[t] = r }
  BY <1>3, SemaphoreAssumption
<1>5. \A r \in Sema \ {s} : { t \in Thread : downing'[t] = r } = { t \in Thread : downing[t] = r }
  BY SemaphoreAssumption
<1>6. WaitersBlocked'
  BY <1>1, <1>2, <1>4 DEF WaitersBlocked, Waiting
<1>7. NoLostWakeup'
  <2> SUFFICES ASSUME NEW r \in Sema, sema'[r].waiters # << >>
               PROVE  Cardinality(Woken(r)') >= sema'[r].value
    BY DEF NoLostWakeup
  <2>1. CASE r = s
    BY <1>2, <2>1 DEF Woken, Waiting
  <2>2. CASE r # s
    <3>1. sema'[r] = sema[r] /\ Woken(r)' = Woken(r)
      BY <1>2, <1>5, <2>2 DEF Woken, Waiting
    <3> QED
      BY <3>1 DEF IInv, NoLostWakeup
  <2> QED
    BY <2>1, <2>2
<1> QED
  BY <1>6, <1>7, OneListMeansNext DEF IInv

LEMMA EmptyWaiters ==
  ASSUME NEW sem \in SemaState
  PROVE  sem.waiters = << >> <=> ToSet(sem.waiters) = {}
<1>1. sem.waiters \in Seq(Thread)
  BY DEF SemaState
<1>2. sem.waiters # << >> => sem.waiters[1] \in ToSet(sem.waiters)
  <2>1. sem.waiters # << >> => 1 \in DOMAIN sem.waiters
    BY <1>1, EmptySeq, LenProperties
  <2> QED
    BY <2>1 DEF ToSet
<1>3. ToSet(<< >>) = {}
  BY DEF ToSet
<1> QED
  BY <1>2, <1>3

\* sema_down: the current thread queues, or takes a unit and is not among the
\* woken any more.
LEMMA DownLoopKeeps ==
  ASSUME IInv, NEW t \in Thread, NEW s \in Sema, sched.cur = t,
         downing[t] \in {s, Nobody}, DownLoop(t, s)
  PROVE  IInv'
<1> DEFINE new == DownSema(sched, sema[s])
<1>1. /\ WaitersBlocked /\ SchedOK(sched) /\ sema[s] \in SemaState
      /\ Distinct(sema[s].waiters)
      /\ Waiting(s) = { u \in Blocked(sched) : downing[u] = s }
      /\ downing \in [Thread -> Sema \union {Nobody}]
  BY OneListMeans DEF IInv, WaitersBlocked
<1>2. t \notin Blocked(sched) /\ t \notin ToSet(sema[s].waiters)
  <2>1. sched.status[t] = "RUNNING"
    BY <1>1 DEF SchedOK, OneRunning, AnyThread
  <2> QED
    BY <1>1, <2>1 DEF Blocked, Waiting
<1>3. sema' = [sema EXCEPT ![s] = new]
  BY DEF DownLoop
<1>4. CASE MustWait(sema[s])
  <2>1. /\ new \in SemaState /\ new.value = sema[s].value /\ Distinct(new.waiters)
        /\ ToSet(new.waiters) = ToSet(sema[s].waiters) \union {t}
    BY <1>1, <1>2, <1>4, DownSemaWaits
  <2>2. sched' = ThreadBlock(sched) /\ downing' = [downing EXCEPT ![t] = s]
    BY <1>4 DEF DownLoop, DownSched
  <2>3. SchedOK(sched') /\ Blocked(sched') = Blocked(sched) \union {t}
    BY <1>1, <2>2, ThreadBlockBlocks
  <2> HIDE DEF new
  <2>4. /\ downing' \in [Thread -> Sema \union {Nobody}] /\ downing'[t] = s
        /\ \A u \in Thread : u # t => downing'[u] = downing[u]
    BY <1>1, <2>2
  <2>5. ToSet(new.waiters) = { u \in Blocked(sched') : downing'[u] = s }
    BY <1>1, <2>1, <2>3, <2>4 DEF Waiting, Blocked
  <2>6. \A u \in Blocked(sched') : downing'[u] # Nobody
    BY <1>1, <2>3, <2>4, SemaphoreAssumption DEF WaitersBlocked, Blocked
  <2>7. Cardinality({ u \in Thread : downing'[u] = s } \ ToSet(new.waiters)) >= new.value
    <3>1. new.value = 0
      BY <1>4, <2>1 DEF MustWait
    <3>2. IsFiniteSet({ u \in Thread : downing'[u] = s } \ ToSet(new.waiters))
      BY ThreadsAssumption, FS_Subset
    <3> DEFINE c == Cardinality({ u \in Thread : downing'[u] = s } \ ToSet(new.waiters))
    <3>3. c \in Nat
      BY <3>2, FS_CardinalityType
    <3> HIDE DEF c
    <3>4. c >= new.value
      BY <3>1, <3>3
    <3> QED
      BY <3>4 DEF c
  <2> QED
    BY <1>3, <2>1, <2>3, <2>4, <2>5, <2>6, <2>7, OneSemaphoreStep, ZenonT(120)
<1>5. CASE ~MustWait(sema[s])
  <2>1. /\ new \in SemaState /\ new.value = sema[s].value - 1 /\ sema[s].value > 0
        /\ new.waiters = sema[s].waiters
    BY <1>1, <1>5, DownSemaTakes
  <2>2. sched' = sched /\ downing' = [downing EXCEPT ![t] = Nobody]
    BY <1>5 DEF DownLoop, DownSched
  <2> HIDE DEF new
  <2>3. /\ downing' \in [Thread -> Sema \union {Nobody}] /\ downing'[t] = Nobody
        /\ \A u \in Thread : u # t => downing'[u] = downing[u]
    BY <1>1, <2>2
  <2>4. ToSet(new.waiters) = { u \in Blocked(sched') : downing'[u] = s }
    BY <1>1, <1>2, <2>1, <2>2, <2>3, SemaphoreAssumption DEF Waiting, Blocked
  <2>5. \A u \in Blocked(sched') : downing'[u] # Nobody
    BY <1>1, <1>2, <2>2, <2>3 DEF WaitersBlocked, Blocked
  <2>6. ASSUME new.waiters # << >>
        PROVE  Cardinality({ u \in Thread : downing'[u] = s } \ ToSet(new.waiters))
                 >= new.value
    <3>1. { u \in Thread : downing'[u] = s } \ ToSet(new.waiters) = Woken(s) \ {t}
      BY <2>1, <2>3, SemaphoreAssumption DEF Woken, Waiting
    <3>2. Cardinality(Woken(s)) >= sema[s].value
      BY <2>1, <2>6 DEF IInv, NoLostWakeup
    <3>8. Cardinality(Woken(s)) \in Nat /\ sema[s].value \in Nat
      BY <1>1, WokenFinite DEF SemaState
    <3>9. Cardinality(Woken(s) \ {t}) \in {Cardinality(Woken(s)), Cardinality(Woken(s)) - 1}
      <4>1. CASE t \in Woken(s)
        BY <4>1, WokenFinite, FS_RemoveElement
      <4>2. CASE t \notin Woken(s)
        <5>1. Woken(s) \ {t} = Woken(s)
          BY <4>2
        <5> QED
          BY <5>1
      <4> QED
        BY <4>1, <4>2
    <3>3. /\ Cardinality(Woken(s)) \in Nat /\ sema[s].value \in Nat
          /\ Cardinality(Woken(s) \ {t}) >= Cardinality(Woken(s)) - 1
      <4> DEFINE c == Cardinality(Woken(s))
      <4>1. c \in Nat
        BY <3>8
      <4> HIDE DEF c
      <4>2. Cardinality(Woken(s) \ {t}) \in {c, c - 1}
        BY <3>9 DEF c
      <4>3. Cardinality(Woken(s) \ {t}) >= c - 1
        BY <4>1, <4>2
      <4> QED
        BY <3>8, <4>3 DEF c
    <3>4. IsFiniteSet(Woken(s) \ {t})
      BY WokenFinite, FS_RemoveElement
    <3>5. Cardinality(Woken(s) \ {t}) \in Nat
      BY <3>4, FS_CardinalityType
    <3> DEFINE c == Cardinality(Woken(s))
               d == Cardinality(Woken(s) \ {t})
               v == sema[s].value
    <3>6. c \in Nat /\ d \in Nat /\ v \in Nat /\ c >= v /\ d >= c - 1 /\ new.value = v - 1
      BY <2>1, <3>2, <3>3, <3>5
    <3> HIDE DEF c, d, v
    <3>7. d >= new.value
      BY <3>6
    <3> QED
      BY <3>1, <3>7 DEF d
  <2>7. Distinct(new.waiters) /\ SchedOK(sched')
    BY <1>1, <2>1, <2>2
  <2> QED
    BY <1>3, <2>1, <2>2, <2>3, <2>4, <2>5, <2>6, <2>7, OneSemaphoreStep
<1> QED
  BY <1>4, <1>5

LEMMA TryDownKeeps ==
  ASSUME IInv, NEW t \in Thread, NEW s \in Sema, TryDown(t, s)
  PROVE  IInv'
<1> DEFINE new == TryDownSema(sema[s])
<1>1. /\ WaitersBlocked /\ SchedOK(sched) /\ sema[s] \in SemaState
      /\ Distinct(sema[s].waiters)
      /\ Waiting(s) = { u \in Blocked(sched) : downing[u] = s }
      /\ downing \in [Thread -> Sema \union {Nobody}]
  BY OneListMeans DEF IInv, WaitersBlocked
<1>2. sema' = [sema EXCEPT ![s] = new] /\ UNCHANGED <<sched, downing>>
  BY DEF TryDown
<1>3. /\ new \in SemaState /\ new.waiters = sema[s].waiters
      /\ new.value = IF sema[s].value > 0 THEN sema[s].value - 1 ELSE sema[s].value
  BY <1>1, TryDownSemaTakes
<1> HIDE DEF new
<1>4. new.value <= sema[s].value /\ new.value \in Nat /\ sema[s].value \in Nat
  BY <1>1, <1>3 DEF SemaState
<1>5. ASSUME new.waiters # << >>
      PROVE  Cardinality({ u \in Thread : downing'[u] = s } \ ToSet(new.waiters)) >= new.value
  <2>1. { u \in Thread : downing'[u] = s } \ ToSet(new.waiters) = Woken(s)
    BY <1>2, <1>3 DEF Woken, Waiting
  <2>2. Cardinality(Woken(s)) >= sema[s].value /\ Cardinality(Woken(s)) \in Nat
    BY <1>3, <1>5, WokenFinite DEF IInv, NoLostWakeup
  <2> QED
    BY <1>4, <2>1, <2>2
<1>6. ToSet(new.waiters) = { u \in Blocked(sched') : downing'[u] = s }
  BY <1>1, <1>2, <1>3 DEF Waiting
<1>7. /\ \A u \in Blocked(sched') : downing'[u] # Nobody
      /\ downing' \in [Thread -> Sema \union {Nobody}]
      /\ SchedOK(sched') /\ Distinct(new.waiters)
  BY <1>1, <1>2, <1>3 DEF WaitersBlocked
<1> QED
  BY <1>2, <1>3, <1>5, <1>6, <1>7, OneSemaphoreStep

\* sema_up: the thread that leaves the list is one more on its way to the one
\* more unit.
LEMMA UpKeeps ==
  ASSUME IInv, NEW s \in Sema,
         sema' = [sema EXCEPT ![s] = UpSema(sched, @)],
         Preempted(UpSched(sched, sema[s]), sched'), UNCHANGED downing
  PROVE  IInv'
<1> DEFINE new == UpSema(sched, sema[s])
           woken == UpSched(sched, sema[s])
<1>1. /\ WaitersBlocked /\ SchedOK(sched) /\ sema[s] \in SemaState
      /\ Distinct(sema[s].waiters)
      /\ Waiting(s) = { u \in Blocked(sched) : downing[u] = s }
      /\ downing \in [Thread -> Sema \union {Nobody}]
  BY OneListMeans DEF IInv, WaitersBlocked
<1>2. sema' = [sema EXCEPT ![s] = new]
  OBVIOUS
<1>3. SchedOK(sched') /\ Blocked(sched') = Blocked(woken)
  BY DEF Preempted
<1>4. CASE sema[s].waiters = << >>
  <2>1. /\ new \in SemaState /\ new = [value |-> sema[s].value + 1, waiters |-> << >>]
        /\ woken = sched
    BY <1>1, <1>4, UpCounts
  <2>2. new.waiters = << >> /\ Distinct(new.waiters) /\ ToSet(new.waiters) = Waiting(s)
    BY <1>4, <2>1 DEF Distinct, ToSet, Waiting
  <2> HIDE DEF new, woken
  <2>3. Blocked(sched') = Blocked(sched) /\ downing' = downing
    BY <1>3, <2>1
  <2>4. /\ ToSet(new.waiters) = { u \in Blocked(sched') : downing'[u] = s }
        /\ \A u \in Blocked(sched') : downing'[u] # Nobody
        /\ downing' \in [Thread -> Sema \union {Nobody}]
    BY <1>1, <2>2, <2>3 DEF WaitersBlocked
  <2>5. /\ \A u \in Thread : downing'[u] = downing[u]
        /\ \A u \in Thread : u \in Blocked(sched) <=> u \in Blocked(sched')
    BY <2>3
  <2> QED
    BY <1>2, <1>3, <2>1, <2>2, <2>4, <2>5, OneSemaphoreStep
<1>5. CASE sema[s].waiters # << >>
  <2> DEFINE w == Head(ToWake(sched, sema[s]))
  <2>1. ToSet(sema[s].waiters) \subseteq Blocked(sched)
    BY <1>1 DEF Waiting
  <2>2. /\ new \in SemaState /\ new.value = sema[s].value + 1 /\ Distinct(new.waiters)
        /\ w \in ToSet(sema[s].waiters)
        /\ ToSet(new.waiters) = ToSet(sema[s].waiters) \ {w}
        /\ Blocked(woken) = Blocked(sched) \ {w}
    BY <1>1, <1>5, <2>1, UpWakes
  <2> HIDE DEF new, woken, w
  <2>3. w \in Thread /\ downing[w] = s
    BY <1>1, <2>2 DEF Waiting, Blocked
  <2>4. ToSet(new.waiters) = { u \in Blocked(sched') : downing'[u] = s }
    BY <1>1, <1>3, <2>2 DEF Waiting
  <2>5. \A u \in Blocked(sched') : downing'[u] # Nobody
    BY <1>1, <1>3, <2>2 DEF WaitersBlocked
  <2>6. Cardinality({ u \in Thread : downing'[u] = s } \ ToSet(new.waiters)) >= new.value
    <3>1. /\ { u \in Thread : downing'[u] = s } \ ToSet(new.waiters) = Woken(s) \union {w}
          /\ w \notin Woken(s)
      BY <2>2, <2>3 DEF Woken, Waiting
    <3>2. Cardinality(Woken(s)) >= sema[s].value /\ Cardinality(Woken(s)) \in Nat
      BY <1>5, WokenFinite DEF IInv, NoLostWakeup
    <3>3. Cardinality(Woken(s) \union {w}) = Cardinality(Woken(s)) + 1
      BY <3>1, WokenFinite, FS_AddElement
    <3>4. sema[s].value \in Nat
      BY <1>1 DEF SemaState
    <3> DEFINE c == Cardinality(Woken(s))
               d == Cardinality(Woken(s) \union {w})
               v == sema[s].value
    <3>5. c \in Nat /\ v \in Nat /\ c >= v /\ d = c + 1 /\ new.value = v + 1
      BY <2>2, <3>2, <3>3, <3>4
    <3> HIDE DEF c, d, v
    <3>6. d >= new.value
      BY <3>5
    <3> QED
      BY <3>1, <3>6 DEF d
  <2>7. \A u \in Thread : downing[u] # s => (u \in Blocked(sched) <=> u \in Blocked(sched'))
    BY <1>3, <2>2, <2>3
  <2> QED
    BY <1>1, <1>2, <1>3, <2>2, <2>4, <2>5, <2>6, <2>7, OneSemaphoreStep
<1> QED
  BY <1>4, <1>5

LEMMA UpSchedOK ==
  ASSUME IInv, NEW s \in Sema
  PROVE  SchedOK(UpSched(sched, sema[s]))
<1>1. /\ SchedOK(sched) /\ sema[s] \in SemaState /\ Distinct(sema[s].waiters)
      /\ ToSet(sema[s].waiters) \subseteq Blocked(sched)
  BY OneListMeans DEF IInv, WaitersBlocked, Waiting
<1> QED
  BY <1>1, UpCounts, UpWakes

LEMMA ReprioritiseKeeps ==
  ASSUME IInv, NEW t \in Thread, NEW p \in Priority, Reprioritise(t, p)
  PROVE  IInv'
<1>1. SchedOK(sched) /\ sched.status[t] = "BLOCKED"
  BY OneListMeans DEF IInv, WaitersBlocked, Reprioritise
<1>2. t \notin ToSet(sched.ready)
  BY <1>1 DEF SchedOK, ReadyOK, ReadyListExact
<1>3. SchedOK(sched') /\ sched'.status = sched.status
  BY <1>1, <1>2, SetPriorityOK DEF Reprioritise
<1>4. Blocked(sched') = Blocked(sched)
  BY <1>3 DEF Blocked
<1> QED
  BY <1>3, <1>4, QuietStep DEF Reprioritise

LEMMA NextKeepsIInv == IInv /\ [Next]_vars => IInv'
<1> SUFFICES ASSUME IInv, [Next]_vars PROVE IInv'
  OBVIOUS
<1>0. SchedOK(sched) /\ downing \in [Thread -> Sema \union {Nobody}]
  BY OneListMeans DEF IInv, WaitersBlocked
<1>1. ASSUME NEW t \in Thread, NEW s \in Sema, Down(t, s) PROVE IInv'
  BY <1>1, DownLoopKeeps DEF Down, Running
<1>2. ASSUME NEW t \in Thread, Resume(t) PROVE IInv'
  <2>1. downing[t] \in Sema /\ sched.cur = t /\ DownLoop(t, downing[t])
    BY <1>0, <1>2 DEF Resume, Running
  <2> QED
    BY <2>1, DownLoopKeeps
<1>3. ASSUME NEW t \in Thread, NEW s \in Sema, TryDown(t, s) PROVE IInv'
  BY <1>3, TryDownKeeps
<1>4. ASSUME NEW t \in Thread, NEW s \in Sema, Up(t, s) PROVE IInv'
  BY <1>4, UpKeeps, UpSchedOK, ThreadPreemptionPreempts DEF Up
<1>5. ASSUME NEW s \in Sema, InterruptUp(s) PROVE IInv'
  BY <1>5, UpKeeps, UpSchedOK, InterruptedPreempts DEF InterruptUp
<1>6. ASSUME NEW t \in Thread, NEW p \in Priority, Reprioritise(t, p) PROVE IInv'
  BY <1>6, ReprioritiseKeeps
<1>7. CASE TimerInterrupt
  BY <1>0, <1>7, InterruptedPreempts, QuietStep DEF TimerInterrupt, Preempted
<1>8. CASE IdleBlock
  <2>1. SchedOK(sched') /\ Blocked(sched') = Blocked(sched)
    BY <1>0, <1>8, ThreadBlockBlocks, ThreadsAssumption, ZenonT(60) DEF IdleBlock, Running
  <2> QED
    BY <1>8, <2>1, QuietStep DEF IdleBlock
<1>9. CASE UNCHANGED vars
  BY <1>0, <1>9, QuietStep DEF vars
<1> QED
  BY <1>1, <1>2, <1>3, <1>4, <1>5, <1>6, <1>7, <1>8, <1>9 DEF Next, ThreadStep

\* A thread is on one list at a time: the waiters of a semaphore are the BLOCKED
\* threads in its sema_down, the ready list holds the READY ones, and whoever is
\* BLOCKED is on a list from which it can be woken (threads/thread.h).
THEOREM WaitersOnOneList == Spec => []OneList
<1>1. IInv => OneList
  BY DEF IInv
<1> QED
  BY <1>1, InitIInv, NextKeepsIInv, PTL DEF Spec

\* While anybody waits for a semaphore, every unit of its value has a thread on
\* its way to it that sema_up has woken (threads/synch.c).
THEOREM NoWakeupLost == Spec => []NoLostWakeup
<1>1. IInv => NoLostWakeup
  BY DEF IInv
<1> QED
  BY <1>1, InitIInv, NextKeepsIInv, PTL DEF Spec

\* A thread that leaves the waiters of a semaphore is the one sema_up wakes.
LEMMA OnlyHighestLeaves ==
  ASSUME IInv, NEW r \in Sema,
         sema' = [sema EXCEPT ![r] = UpSema(sched, @)],
         NEW s \in Sema, NEW t \in ToSet(sema[s].waiters) \ ToSet(sema'[s].waiters),
         NEW u \in ToSet(sema[s].waiters)
  PROVE  sched.priority[t] >= sched.priority[u]
<1>1. /\ SchedOK(sched) /\ sema \in [Sema -> SemaState] /\ Distinct(sema[s].waiters)
      /\ ToSet(sema[s].waiters) \subseteq Blocked(sched)
  BY OneListMeans DEF IInv, WaitersBlocked, Waiting
<1>2. s = r /\ sema'[s] = UpSema(sched, sema[s])
  BY <1>1
<1>3. sema[s].waiters # << >> /\ sema[s] \in SemaState
  BY <1>1, EmptyWaiters
<1> DEFINE w == Head(ToWake(sched, sema[s]))
<1>4. /\ ToSet(UpSema(sched, sema[s]).waiters) = ToSet(sema[s].waiters) \ {w}
      /\ \A x \in ToSet(sema[s].waiters) : sched.priority[w] >= sched.priority[x]
  BY <1>1, <1>3, UpWakes
<1> HIDE DEF w
<1>5. t = w
  BY <1>2, <1>4
<1> QED
  BY <1>4, <1>5

\* In the other steps nobody leaves the waiters of a semaphore.
LEMMA NobodyLeaves ==
  ASSUME IInv, NEW r \in Sema, NEW new \in SemaState, sema' = [sema EXCEPT ![r] = new],
         ToSet(sema[r].waiters) \subseteq ToSet(new.waiters), NEW s \in Sema
  PROVE  ToSet(sema[s].waiters) \subseteq ToSet(sema'[s].waiters)
<1>1. sema \in [Sema -> SemaState]
  BY OneListMeans DEF IInv, WaitersBlocked
<1> QED
  BY <1>1

LEMMA DownLoopNobodyLeaves ==
  ASSUME IInv, NEW t \in Thread, NEW r \in Sema, sched.cur = t, DownLoop(t, r),
         NEW s \in Sema
  PROVE  ToSet(sema[s].waiters) \subseteq ToSet(sema'[s].waiters)
<1>1. /\ SchedOK(sched) /\ sema[r] \in SemaState /\ Distinct(sema[r].waiters)
      /\ ToSet(sema[r].waiters) \subseteq Blocked(sched)
  BY OneListMeans DEF IInv, WaitersBlocked, Waiting
<1>2. t \notin Blocked(sched)
  BY <1>1 DEF SchedOK, OneRunning, Blocked, AnyThread
<1>3. /\ DownSema(sched, sema[r]) \in SemaState
      /\ ToSet(sema[r].waiters) \subseteq ToSet(DownSema(sched, sema[r]).waiters)
  BY <1>1, <1>2, DownSemaWaits, DownSemaTakes
<1> QED
  BY <1>3, NobodyLeaves DEF DownLoop

\* sema_up wakes a waiter of the highest priority, even if the priorities have
\* changed since the waiters queued (threads/synch.c).
THEOREM HighestWoken == Spec => WakesHighest
<1> DEFINE Highest == \A s \in Sema : \A t \in ToSet(sema[s].waiters) \ ToSet(sema'[s].waiters) :
                        \A u \in ToSet(sema[s].waiters) :
                          sched.priority[t] >= sched.priority[u]
<1>1. IInv /\ [Next]_vars => [Highest]_vars
  <2> SUFFICES ASSUME IInv, Next PROVE Highest
    OBVIOUS
  <2>0. /\ downing \in [Thread -> Sema \union {Nobody}] /\ sema \in [Sema -> SemaState]
        /\ SchedOK(sched)
    BY OneListMeans DEF IInv, WaitersBlocked
  <2>1. ASSUME NEW t \in Thread, NEW s \in Sema, Down(t, s) PROVE Highest
    BY <2>1, DownLoopNobodyLeaves DEF Down, Running
  <2>2. ASSUME NEW t \in Thread, Resume(t) PROVE Highest
    <3>1. downing[t] \in Sema /\ sched.cur = t /\ DownLoop(t, downing[t])
      BY <2>0, <2>2 DEF Resume, Running
    <3> QED
      BY <3>1, DownLoopNobodyLeaves
  <2>3. ASSUME NEW t \in Thread, NEW s \in Sema, TryDown(t, s) PROVE Highest
    <3>1. /\ TryDownSema(sema[s]) \in SemaState
          /\ TryDownSema(sema[s]).waiters = sema[s].waiters
          /\ sema' = [sema EXCEPT ![s] = TryDownSema(sema[s])]
      BY <2>0, <2>3, TryDownSemaTakes DEF TryDown
    <3> QED
      BY <3>1, NobodyLeaves
  <2>4. ASSUME NEW t \in Thread, NEW s \in Sema, Up(t, s) PROVE Highest
    BY <2>4, OnlyHighestLeaves DEF Up
  <2>5. ASSUME NEW s \in Sema, InterruptUp(s) PROVE Highest
    BY <2>5, OnlyHighestLeaves DEF InterruptUp
  <2>6. CASE UNCHANGED sema
    BY <2>6
  <2> QED
    BY <2>1, <2>2, <2>3, <2>4, <2>5, <2>6
       DEF Next, ThreadStep, Reprioritise, TimerInterrupt, IdleBlock
<1> QED
  BY <1>1, InitIInv, NextKeepsIInv, PTL DEF Spec, WakesHighest

===============================================================================
