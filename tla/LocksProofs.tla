------------------------------ MODULE LocksProofs ------------------------------
(***************************************************************************)
(* For all sets of threads and locks and any priorities: a lock has one    *)
(* owner at most, and no wakeup is lost.                                   *)
(***************************************************************************)
EXTENDS Locks, ThreadsProofs

-------------------------------------------------------------------------------
(***************************************************************************)
(* The loops of set_max_priority_donated end with a priority.              *)
(***************************************************************************)

LEMMA RaisedByType ==
  ASSUME sched \in SchedState, NEW p \in Priority, NEW waiters \in Seq(Thread)
  PROVE  RaisedBy(p, waiters) \in Priority
<1> DEFINE Higher(i) == sched.priority[waiters[i]]
                          > IF i = 1 THEN p ELSE sched.priority[waiters[i - 1]]
           Ends(k) == /\ \A i \in 1 .. k : Higher(i)
                      /\ k < Len(waiters) => ~Higher(k + 1)
           Stops == { k \in 0 .. Len(waiters) : k < Len(waiters) => ~Higher(k + 1) }
           n == CHOOSE k \in 0 .. Len(waiters) : Ends(k)
<1>1. Len(waiters) \in Nat /\ \A i \in 1 .. Len(waiters) : waiters[i] \in Thread
  BY LenProperties, ElementOfSeq
<1>2. sched.priority \in [AnyThread -> Priority]
  BY DEF SchedState
<1>3. Len(waiters) \in Stops /\ Stops \in SUBSET Nat
  BY <1>1
<1>4. PICK k \in Stops : \A j \in Stops : k <= j
  BY <1>3, LeastNat
<1>5. ASSUME NEW i \in 1 .. k PROVE Higher(i)
  <2>1. i - 1 \notin Stops /\ i - 1 \in 0 .. Len(waiters) /\ i - 1 < Len(waiters)
        /\ (i - 1) + 1 = i
    BY <1>1, <1>4
  <2> QED
    BY <2>1
<1>6. n \in 0 .. Len(waiters)
  <2> HIDE DEF Higher
  <2> QED
    BY <1>4, <1>5
<1>7. RaisedBy(p, waiters) = IF n = 0 THEN p ELSE sched.priority[waiters[n]]
  BY DEF RaisedBy
<1> HIDE DEF n
<1> QED
  BY <1>1, <1>2, <1>6, <1>7 DEF AnyThread

LEMMA RaisedByAllType ==
  ASSUME sched \in SchedState, NEW p \in Priority, NEW locks \in Seq(Lock),
         sema \in [Lock -> [value : Nat, waiters : Seq(Thread)]]
  PROVE  RaisedByAll(p, locks) \in Priority
<1> DEFINE n == Len(locks)
           raised[i \in 0 .. n] ==
             IF i = 0 THEN p ELSE RaisedBy(raised[i - 1], sema[locks[i]].waiters)
           R(f) == f = [i \in 0 .. n |->
                          IF i = 0 THEN p ELSE RaisedBy(f[i - 1], sema[locks[i]].waiters)]
<1>1. n \in Nat /\ \A i \in 1 .. n : sema[locks[i]].waiters \in Seq(Thread)
  BY LenProperties, ElementOfSeq
<1>2. \A i \in 1 .. n, q \in Priority : RaisedBy(q, sema[locks[i]].waiters) \in Priority
  BY <1>1, RaisedByType
<1>3. RaisedByAll(p, locks) = raised[n]
  BY DEF RaisedByAll
<1>4. raised = CHOOSE f : R(f)
  OBVIOUS
<1> HIDE DEF n, raised, R
<1> DEFINE Path(f, m) ==
             /\ f[0] = p
             /\ \A i \in 1 .. m : f[i] = RaisedBy(f[i - 1], sema[locks[i]].waiters)
           Stuck == { m \in 0 .. n : ~ \E f \in [0 .. m -> Priority] : Path(f, m) }
<1>5. PICK g \in [0 .. n -> Priority] : Path(g, n)
  <2>1. SUFFICES ASSUME Stuck # {} PROVE FALSE
    <3>1. n \in 0 .. n
      BY <1>1
    <3> QED
      BY <2>1, <3>1
  <2>2. Stuck \in SUBSET Nat
    OBVIOUS
  <2>3. PICK m \in Stuck : \A k \in Stuck : m <= k
    BY <2>1, <2>2, LeastNat
  <2>4. CASE m = 0
    <3>1. [i \in 0 .. 0 |-> p] \in [0 .. m -> Priority] /\ Path([i \in 0 .. 0 |-> p], m)
      BY <2>4
    <3> QED
      BY <3>1, <2>3
  <2>5. CASE m # 0
    <3>1. m - 1 \in 0 .. n /\ m - 1 \notin Stuck /\ m \in 1 .. n
      <4>1. m \in 0 .. n
        OBVIOUS
      <4>2. m - 1 \in 0 .. n /\ m \in 1 .. n /\ ~(m <= m - 1)
        BY <1>1, <2>5, <4>1
      <4> HIDE DEF Stuck
      <4> QED
        BY <2>3, <4>2
    <3>2. PICK f \in [0 .. m - 1 -> Priority] : Path(f, m - 1)
      BY <3>1
    <3> DEFINE h == [i \in 0 .. m |-> IF i = m THEN RaisedBy(f[m - 1], sema[locks[m]].waiters)
                                      ELSE f[i]]
    <3>3. h \in [0 .. m -> Priority]
      BY <1>2, <3>1
    <3>4. Path(h, m)
      <4>1. h[0] = p
        BY <3>1, <3>2
      <4>2. ASSUME NEW i \in 1 .. m
            PROVE  h[i] = RaisedBy(h[i - 1], sema[locks[i]].waiters)
        <5>1. h[i - 1] = f[i - 1]
          BY <3>1
        <5>2. CASE i = m
          BY <5>1, <5>2, <3>1
        <5>3. CASE i # m
          BY <5>1, <5>3, <3>1, <3>2
        <5> QED
          BY <5>2, <5>3
      <4> QED
        BY <4>1, <4>2
    <3> QED
      BY <3>3, <3>4, <2>3
  <2> QED
    BY <2>4, <2>5
<1>6. R(g)
  <2>2. g = [i \in 0 .. n |-> g[i]]
    BY <1>5
  <2>3. \A i \in 0 .. n :
          g[i] = IF i = 0 THEN p ELSE RaisedBy(g[i - 1], sema[locks[i]].waiters)
    BY <1>1, <1>5
  <2> QED
    BY <2>2, <2>3 DEF R
<1>7. R(raised)
  <2>1. \E f : R(f)
    BY <1>6
  <2> HIDE DEF R, raised
  <2> QED
    BY <1>4, <2>1
<1> DEFINE Others == { i \in 0 .. n : raised[i] \notin Priority }
<1>8. \A i \in 0 .. n :
        raised[i] = IF i = 0 THEN p ELSE RaisedBy(raised[i - 1], sema[locks[i]].waiters)
  <2> DEFINE r == raised
  <2>1. r = [i \in 0 .. n |->
               IF i = 0 THEN p ELSE RaisedBy(r[i - 1], sema[locks[i]].waiters)]
    BY <1>7 DEF R
  <2> HIDE DEF r
  <2>2. \A i \in 0 .. n :
          r[i] = IF i = 0 THEN p ELSE RaisedBy(r[i - 1], sema[locks[i]].waiters)
    BY <2>1
  <2> QED
    BY <2>2 DEF r
<1> HIDE DEF raised
<1>9. Others = {}
  <2> SUFFICES ASSUME Others # {} PROVE FALSE
    OBVIOUS
  <2>1. Others \in SUBSET Nat
    OBVIOUS
  <2>2. PICK m \in Others : \A k \in Others : m <= k
    BY <2>1, LeastNat
  <2>3. m # 0 /\ m \in 1 .. n
    BY <1>8, <2>2
  <2>4. m - 1 \in 0 .. n /\ m - 1 \notin Others
    BY <1>1, <2>2, <2>3
  <2>5. raised[m - 1] \in Priority /\ raised[m] = RaisedBy(raised[m - 1], sema[locks[m]].waiters)
    BY <1>8, <2>3, <2>4
  <2> QED
    BY <1>1, <2>2, <2>3, <2>5, RaisedByType
<1> QED
  BY <1>1, <1>3, <1>9 DEF n

\* list_push_back of an element that is not on the list.
LEMMA AppendedOnce ==
  ASSUME NEW S, NEW list \in Seq(S), Distinct(list), NEW l \in S, l \notin ToSet(list)
  PROVE  LET new == Append(list, l)
         IN  new \in Seq(S) /\ Distinct(new) /\ ToSet(new) = ToSet(list) \union {l}
<1> DEFINE new == Append(list, l)
           n == Len(list)
<1>1. n \in Nat /\ DOMAIN list = 1 .. n
  BY LenProperties
<1>2. /\ new \in Seq(S) /\ DOMAIN new = 1 .. n + 1
      /\ \A i \in 1 .. n : new[i] = list[i]
      /\ new[n + 1] = l
  BY AppendProperties, LenProperties
<1> HIDE DEF new, n
<1>3. \A i \in 1 .. n + 1 : i = n + 1 \/ i \in 1 .. n
  BY <1>1
<1>4. 1 .. n \subseteq 1 .. n + 1 /\ n + 1 \in 1 .. n + 1
  BY <1>1
<1>5. \A i \in 1 .. n : list[i] # l
  BY <1>1 DEF ToSet
<1>6. Distinct(new)
  BY <1>1, <1>2, <1>3, <1>5 DEF Distinct
<1>7. ToSet(new) = ToSet(list) \union {l}
  BY <1>1, <1>2, <1>3, <1>4 DEF ToSet
<1> QED
  BY <1>2, <1>6, <1>7 DEF new

\* list_remove of an element that is on the list once.
LEMMA UnlinkedOnce ==
  ASSUME NEW S, NEW list \in Seq(S), Distinct(list), NEW l \in ToSet(list)
  PROVE  LET new == Unlinked(list, l)
         IN  new \in Seq(S) /\ Distinct(new) /\ ToSet(new) = ToSet(list) \ {l}
<1> DEFINE n == Len(list)
           i == CHOOSE k \in DOMAIN list : list[k] = l
           front == SubSeq(list, 1, i - 1)
           back == SubSeq(list, i + 1, n)
           new == Unlinked(list, l)
<1>1. n \in Nat /\ DOMAIN list = 1 .. n /\ \A k \in 1 .. n : list[k] \in S
  BY LenProperties, ElementOfSeq
<1>2. i \in 1 .. n /\ list[i] = l
  BY <1>1 DEF ToSet
<1>3. new = front \o back
  BY DEF Unlinked, RemoveAt
<1> HIDE DEF i
<1>4. /\ front \in Seq(S) /\ Len(front) = i - 1
      /\ \A k \in 1 .. i - 1 : front[k] = list[k]
  <2>1. \A k \in 1 .. i - 1 : k \in 1 .. n
    BY <1>1, <1>2
  <2> QED
    BY <1>1, <1>2, <2>1
<1>5. /\ back \in Seq(S) /\ Len(back) = n - i
      /\ \A k \in 1 .. n - i : back[k] = list[i + k]
  <2> HIDE DEF n
  <2>1. /\ i + 1 \in 1 .. n + 1 /\ i \in Nat
        /\ \A k \in 1 .. n - i : i + k \in 1 .. n /\ (i + 1) + k - 1 = i + k
    BY <1>1, <1>2
  <2>2. back \in Seq(S) /\ Len(back) = (IF i + 1 <= n THEN n - (i + 1) + 1 ELSE 0)
    BY <1>1, <2>1, SubSeqProperties DEF n
  <2>3. Len(back) = n - i
    BY <1>1, <1>2, <2>2
  <2>4. \A k \in 1 .. n - i : back[k] = list[(i + 1) + k - 1]
    BY <1>1, <2>1, <2>3, SubSeqProperties
  <2> QED
    BY <2>1, <2>2, <2>3, <2>4
<1> HIDE DEF n, front, back, new
<1>6. /\ new \in Seq(S) /\ Len(new) = n - 1
      /\ \A k \in 1 .. n - 1 : new[k] = IF k < i THEN front[k] ELSE back[k - (i - 1)]
  <2>1. /\ new \in Seq(S) /\ Len(new) = (i - 1) + (n - i)
        /\ \A k \in 1 .. (i - 1) + (n - i) :
             new[k] = IF k <= i - 1 THEN front[k] ELSE back[k - (i - 1)]
    BY <1>3, <1>4, <1>5, ConcatProperties
  <2>2. (i - 1) + (n - i) = n - 1 /\ \A k \in 1 .. n - 1 : k <= i - 1 <=> k < i
    BY <1>1, <1>2
  <2> QED
    BY <2>1, <2>2
<1> DEFINE old(k) == IF k < i THEN k ELSE k + 1
<1>7. \A k \in 1 .. n - 1 : old(k) \in 1 .. n /\ old(k) # i /\ new[k] = list[old(k)]
  <2> SUFFICES ASSUME NEW k \in 1 .. n - 1
               PROVE  old(k) \in 1 .. n /\ old(k) # i /\ new[k] = list[old(k)]
    OBVIOUS
  <2>1. old(k) \in 1 .. n /\ old(k) # i
    BY <1>1, <1>2
  <2>2. CASE k < i
    <3>1. k \in 1 .. i - 1
      BY <1>2, <2>2
    <3> QED
      BY <1>4, <1>6, <2>1, <2>2, <3>1
  <2>3. CASE ~(k < i)
    <3>1. k - (i - 1) \in 1 .. n - i /\ i + (k - (i - 1)) = k + 1
      BY <1>1, <1>2, <2>3
    <3>2. new[k] = back[k - (i - 1)]
      BY <1>6, <2>3
    <3> QED
      BY <1>5, <2>1, <2>3, <3>1, <3>2
  <2> QED
    BY <2>2, <2>3
<1>8. DOMAIN new = 1 .. n - 1
  BY <1>6, LenProperties
<1>9. Distinct(new)
  <2> SUFFICES ASSUME NEW j \in 1 .. n - 1, NEW k \in 1 .. n - 1, new[j] = new[k]
               PROVE  j = k
    BY <1>8 DEF Distinct
  <2>1. old(j) = old(k)
    BY <1>1, <1>7 DEF Distinct
  <2> QED
    BY <1>2, <2>1
<1>10. ToSet(new) = ToSet(list) \ {l}
  <2>1. ASSUME NEW k \in 1 .. n - 1 PROVE new[k] \in ToSet(list) \ {l}
    <3>1. old(k) \in 1 .. n /\ old(k) # i /\ new[k] = list[old(k)]
      BY <1>7
    <3> HIDE DEF old
    <3>2. new[k] \in ToSet(list)
      BY <1>1, <3>1 DEF ToSet
    <3>3. new[k] # l
      BY <1>1, <1>2, <3>1 DEF Distinct
    <3> QED
      BY <3>2, <3>3
  <2>2. ASSUME NEW k \in 1 .. n, list[k] # l PROVE list[k] \in ToSet(new)
    <3> DEFINE j == IF k < i THEN k ELSE k - 1
    <3>1. k # i
      BY <1>2, <2>2
    <3>2. j \in 1 .. n - 1 /\ old(j) = k
      BY <1>1, <1>2, <3>1
    <3> QED
      BY <1>7, <1>8, <3>2 DEF ToSet
  <2>3. ToSet(new) = { new[k] : k \in 1 .. n - 1 } /\ ToSet(list) = { list[k] : k \in 1 .. n }
    BY <1>1, <1>8 DEF ToSet
  <2> QED
    BY <2>1, <2>2, <2>3
<1> QED
  BY <1>6, <1>9, <1>10 DEF new

-------------------------------------------------------------------------------
(***************************************************************************)
(* The inductive invariant.  The unit of a lock's semaphore and its owners *)
(* add up to one; `holder' names the owner as soon as it has been written, *)
(* and until it is cleared; the list of a semaphore holds the threads that *)
(* are BLOCKED in its loop, and if the unit is there, another is awake in  *)
(* it.  The ready list is not in order, as donations change priorities     *)
(* behind its back, so the scheduler is SchedSound only.  What the loops   *)
(* of multiple_donate stand at has been linked into a list.                *)
(***************************************************************************)
IdlePc == {"run", "set_yield"}

CalmPc == IdlePc \union {"acq_compare", "acq_assign", "acq_donate", "donate", "acq_down"}

HolderPc == {"acq_save", "rel_donated", "rel_holder"}

OwnerPc == HolderPc \union {"acq_holder", "rel_up"}

Types ==
  /\ sema \in [Lock -> SemaState]
  /\ holder \in [Lock -> Thread \union {None}]
  /\ holder_priority \in [Lock -> Priority]
  /\ owning_locks \in [Thread -> Seq(Lock)]
  /\ link \in [Thread \union Lock -> Thread \union Lock \union {None}]
  /\ last \in [Thread -> Thread \union Lock]
  /\ pc \in [Thread -> PC]
  /\ arg \in [Thread -> Lock \union {None}]
  /\ donating \in [Thread -> Seq([thread : Thread, at : Thread \union Lock])]
  /\ fault \in Fault

Linked ==
  /\ \A t \in Thread : link[t] # None
  /\ \A x \in Thread \union Lock : link[x] # None => link[link[x]] # None
  /\ \A t \in Thread : \A i \in DOMAIN donating[t] : link[donating[t][i].at] # None

Place(t) ==
  /\ arg[t] = None <=> pc[t] \in IdlePc
  /\ pc[t] = "donate" => donating[t] # << >>
  /\ Distinct(owning_locks[t])
  /\ arg[t] \notin ToSet(owning_locks[t])

Holds(t, l) == l \in ToSet(owning_locks[t]) \/ (arg[t] = l /\ pc[t] \in HolderPc)

Owns(t, l) == l \in ToSet(owning_locks[t]) \/ (arg[t] = l /\ pc[t] \in OwnerPc)

InDown(t, l) == pc[t] = "down" /\ arg[t] = l

HolderOK(l) == \A t \in Thread : holder[l] = t <=> Holds(t, l)

UnitOK(l) ==
  /\ sema[l].value \in 0 .. 1
  /\ sema[l].value = 1 => \A t \in Thread : ~Owns(t, l)
  /\ sema[l].value = 0 => \E h \in Thread : \A t \in Thread : Owns(t, l) <=> t = h

WaitersOK(l) ==
  /\ Distinct(sema[l].waiters)
  /\ ToSet(sema[l].waiters) = { t \in Blocked(sched) : InDown(t, l) }
  /\ sema[l].value = 1 /\ sema[l].waiters # << >> =>
       \E t \in Thread \ Blocked(sched) : InDown(t, l)

LocksOK == \A l \in Lock : HolderOK(l) /\ UnitOK(l) /\ WaitersOK(l)

IInv ==
  /\ SchedSound(sched) /\ Types /\ Linked
  /\ \A t \in Thread : Place(t)
  /\ LocksOK

LEMMA EmptyIffNone ==
  ASSUME NEW S, NEW list \in Seq(S)
  PROVE  list = << >> <=> ToSet(list) = {}
<1>1. DOMAIN list = 1 .. Len(list)
  BY LenProperties
<1>2. list # << >> => 1 \in DOMAIN list
  BY <1>1, EmptySeq, LenProperties
<1>3. ToSet(<< >>) = {}
  BY DEF ToSet
<1> QED
  BY <1>1, <1>2, <1>3 DEF ToSet

LEMMA OwnersAre == \A l \in Lock : Owners(l) = { t \in Thread : Owns(t, l) }
BY DEF Owners, Owns, OwnerPc, HolderPc

LEMMA IInvMeans == IInv => OneOwner /\ NoLostWakeup
<1> SUFFICES ASSUME IInv PROVE OneOwner /\ NoLostWakeup
  OBVIOUS
<1>1. TypeOK
  BY DEF IInv, SchedSound, Types, TypeOK, SemaState
<1>2. ASSUME NEW l \in Lock
      PROVE  sema[l].value + Cardinality(Owners(l)) = 1
  <2>1. UnitOK(l)
    BY DEF IInv, LocksOK
  <2>2. CASE sema[l].value = 1
    <3>1. Owners(l) = {}
      BY <2>1, <2>2, OwnersAre DEF UnitOK
    <3>2. Cardinality(Owners(l)) = 0
      BY <3>1, FS_EmptySet
    <3> QED
      BY <2>2, <3>2
  <2>3. CASE sema[l].value = 0
    <3>1. PICK h \in Thread : \A t \in Thread : Owns(t, l) <=> t = h
      BY <2>1, <2>3 DEF UnitOK
    <3>2. Owners(l) = {h}
      BY <3>1, OwnersAre
    <3>3. Cardinality(Owners(l)) = 1
      BY <3>2, FS_Singleton
    <3> QED
      BY <2>3, <3>3
  <2> QED
    BY <2>1, <2>2, <2>3 DEF UnitOK
<1>3. ASSUME NEW l \in Lock, holder[l] # None PROVE holder[l] \in Owners(l)
  <2>1. holder[l] \in Thread
    BY <1>3 DEF IInv, Types
  <2>2. Owns(holder[l], l)
    BY <2>1 DEF IInv, LocksOK, HolderOK, Holds, Owns, OwnerPc
  <2> QED
    BY <2>1, <2>2, OwnersAre
<1>4. ASSUME NEW l \in Lock
      PROVE  LET inDown == { t \in Thread : pc[t] = "down" /\ arg[t] = l }
                 waiting == ToSet(sema[l].waiters)
             IN  /\ waiting = { t \in inDown : sched.status[t] = "BLOCKED" }
                 /\ waiting # {} /\ sema[l].value = 1 => inDown # waiting
  <2>1. WaitersOK(l) /\ sema[l].waiters \in Seq(Thread)
    BY DEF IInv, LocksOK, Types, SemaState
  <2>2. sema[l].waiters = << >> <=> ToSet(sema[l].waiters) = {}
    BY <2>1, EmptyIffNone
  <2> QED
    BY <2>1, <2>2 DEF WaitersOK, InDown, Blocked
<1> QED
  BY <1>1, <1>2, <1>3, <1>4 DEF OneOwner, NoLostWakeup

LEMMA InitIInv == Init => IInv
<1> SUFFICES ASSUME Init PROVE IInv
  OBVIOUS
<1>1. SchedSound(sched) /\ Blocked(sched) = {}
  BY StartedOK, OKIsSound, LocksAssumption DEF Init
<1>2. << >> \in Seq(Thread) /\ ToSet(<< >>) = {} /\ Distinct(<< >>)
  BY DEF ToSet, Distinct
<1>3. /\ sema = [l \in Lock |-> [value |-> 1, waiters |-> << >>]]
      /\ holder = [l \in Lock |-> None]
      /\ holder_priority = [l \in Lock |-> PRI_MIN]
      /\ owning_locks = [t \in Thread |-> << >>]
      /\ link = [x \in Thread \union Lock |-> IF x \in Thread THEN x ELSE None]
      /\ last = [t \in Thread |-> t]
      /\ pc = [t \in Thread |-> "run"]
      /\ arg = [t \in Thread |-> None]
      /\ donating = [t \in Thread |-> << >>]
      /\ fault = "none"
  BY DEF Init, SemaInit
<1>4. None \notin Lock /\ None \notin Thread /\ PRI_MIN \in Priority
  BY LocksAssumption, PriorityIsInt
<1>5. Types
  BY <1>2, <1>3, <1>4 DEF Types, SemaState, PC, Fault
<1>6. /\ \A l \in Lock : sema[l].value = 1 /\ sema[l].waiters = << >> /\ holder[l] = None
      /\ \A t \in Thread : /\ owning_locks[t] = << >> /\ pc[t] = "run" /\ arg[t] = None
                           /\ donating[t] = << >> /\ link[t] = t
      /\ \A l \in Lock \ Thread : link[l] = None
  BY <1>3
<1>7. Linked
  BY <1>4, <1>6 DEF Linked
<1>8. \A t \in Thread : Place(t)
  BY <1>2, <1>6 DEF Place, IdlePc
<1>9. LocksOK
  BY <1>1, <1>2, <1>4, <1>6
     DEF LocksOK, HolderOK, Holds, HolderPc, UnitOK, Owns, OwnerPc, WaitersOK, InDown
<1> QED
  BY <1>1, <1>5, <1>7, <1>8, <1>9 DEF IInv

-------------------------------------------------------------------------------
(***************************************************************************)
(* Steps that neither take nor give a lock.                                *)
(***************************************************************************)
LEMMA LocksStay ==
  ASSUME IInv, UNCHANGED <<sema, holder>>,
         \A u \in Thread, l \in Lock : /\ Holds(u, l)' <=> Holds(u, l)
                                       /\ Owns(u, l)' <=> Owns(u, l)
                                       /\ InDown(u, l)' <=> InDown(u, l),
         \A u \in Thread : pc[u] = "down" =>
           (u \in Blocked(sched') <=> u \in Blocked(sched))
  PROVE  LocksOK'
<1> SUFFICES ASSUME NEW l \in Lock PROVE (HolderOK(l) /\ UnitOK(l) /\ WaitersOK(l))'
  BY DEF LocksOK
<1>1. HolderOK(l) /\ UnitOK(l) /\ WaitersOK(l)
  BY DEF IInv, LocksOK
<1>2. HolderOK(l)'
  BY <1>1 DEF HolderOK
<1>3. UnitOK(l)'
  BY <1>1 DEF UnitOK
<1>4. Blocked(sched) \subseteq Thread /\ Blocked(sched') \subseteq Thread
  BY DEF Blocked
<1>5. { u \in Blocked(sched') : InDown(u, l)' } = { u \in Blocked(sched) : InDown(u, l) }
  BY <1>4 DEF InDown
<1>6. (\E u \in Thread \ Blocked(sched) : InDown(u, l))
        => \E u \in Thread \ Blocked(sched') : InDown(u, l)'
  BY DEF InDown
<1>7. WaitersOK(l)'
  BY <1>1, <1>5, <1>6 DEF WaitersOK
<1> QED
  BY <1>2, <1>3, <1>7

\* Only the scheduler takes a step, or the kernel stops.
LEMMA SchedStep ==
  ASSUME IInv, SchedSound(sched'), fault' \in Fault,
         \A u \in Thread : pc[u] = "down" =>
           (u \in Blocked(sched') <=> u \in Blocked(sched)),
         UNCHANGED <<sema, holder, holder_priority, owning_locks, lists, pc, arg, donating>>
  PROVE  IInv'
<1>1. Types' /\ Linked' /\ \A t \in Thread : Place(t)'
  BY DEF IInv, Types, Linked, Place, lists
<1>2. LocksOK'
  BY LocksStay DEF Holds, Owns, InDown
<1> QED
  BY <1>1, <1>2 DEF IInv

LEMMA StopKeeps ==
  ASSUME IInv, NEW what \in Fault, Stop(what)
  PROVE  IInv'
<1> DEFINE b == TRUE
<1>1. sched' = [sched EXCEPT !.panic = b]
  BY DEF Stop, Panic
<1>2. b \in BOOLEAN /\ SchedSound(sched) /\ sched \in SchedState
  BY DEF IInv, SchedSound
<1> HIDE DEF b
<1>3. /\ sched' \in SchedState
      /\ sched'.cur = sched.cur /\ sched'.status = sched.status /\ sched'.ready = sched.ready
  BY <1>1, <1>2 DEF SchedState
<1>4. SchedSound(sched') /\ Blocked(sched') = Blocked(sched)
  BY <1>2, <1>3 DEF SchedSound, ReadyListExact, OneRunning, Blocked
<1> QED
  BY <1>4, SchedStep DEF Stop

\* Priorities matter neither to the invariant nor to SchedSound.
LEMMA PrioritySet ==
  ASSUME SchedSound(sched), NEW t \in Thread, NEW p \in Priority,
         sched' = [sched EXCEPT !.priority[t] = p]
  PROVE  SchedSound(sched') /\ Blocked(sched') = Blocked(sched)
<1> DEFINE priority == [sched.priority EXCEPT ![t] = p]
<1>1. sched \in SchedState /\ t \in AnyThread
  BY DEF SchedSound, AnyThread
<1>2. priority \in [AnyThread -> Priority]
  BY <1>1 DEF SchedState
<1>3. sched' = [sched EXCEPT !.priority = priority]
  BY <1>1 DEF SchedState
<1> HIDE DEF priority
<1>4. /\ sched' \in SchedState
      /\ sched'.cur = sched.cur /\ sched'.status = sched.status /\ sched'.ready = sched.ready
  BY <1>1, <1>2, <1>3 DEF SchedState
<1> QED
  BY <1>4 DEF SchedSound, ReadyListExact, OneRunning, Blocked

\* The current thread goes from one statement at which it is neither in
\* sema_down nor owns the lock of its call to another.
LEMMA CalmStep ==
  ASSUME IInv, NEW t \in Thread, pc[t] \in CalmPc, NEW x \in CalmPc,
         NEW a \in Lock \union {None},
         pc' = [pc EXCEPT ![t] = x], arg' = [arg EXCEPT ![t] = a],
         a = None <=> x \in IdlePc, a \notin ToSet(owning_locks[t]),
         SchedSound(sched'), Blocked(sched') = Blocked(sched),
         UNCHANGED <<sema, holder, owning_locks, fault>>,
         holder_priority' \in [Lock -> Priority],
         link' \in [Thread \union Lock -> Thread \union Lock \union {None}],
         last' \in [Thread -> Thread \union Lock],
         donating' \in [Thread -> Seq([thread : Thread, at : Thread \union Lock])],
         \A u \in Thread \ {t} : donating'[u] = donating[u],
         x = "donate" => donating'[t] # << >>,
         Linked'
  PROVE  IInv'
<1>1. /\ pc \in [Thread -> PC] /\ arg \in [Thread -> Lock \union {None}] /\ x \in PC
  BY DEF IInv, Types, CalmPc, IdlePc, PC
<1>2. \A u \in Thread : /\ pc'[u] = IF u = t THEN x ELSE pc[u]
                        /\ arg'[u] = IF u = t THEN a ELSE arg[u]
  BY <1>1
<1>3. Types'
  BY <1>1 DEF IInv, Types
<1>4. ASSUME NEW u \in Thread PROVE Place(u)'
  <2>1. CASE u = t
    BY <1>2, <2>1 DEF IInv, Place
  <2>2. CASE u # t
    BY <1>2, <2>2 DEF IInv, Place
  <2> QED
    BY <2>1, <2>2
<1>5. \A u \in Thread, l \in Lock : /\ Holds(u, l)' <=> Holds(u, l)
                                    /\ Owns(u, l)' <=> Owns(u, l)
                                    /\ InDown(u, l)' <=> InDown(u, l)
  BY <1>2 DEF Holds, Owns, InDown, HolderPc, OwnerPc, CalmPc, IdlePc
<1>6. LocksOK'
  BY <1>5, LocksStay
<1> QED
  BY <1>3, <1>4, <1>6 DEF IInv

LEMMA AtFacts ==
  ASSUME IInv, NEW t \in Thread, NEW k, At(t, k)
  PROVE  /\ sched.cur = t /\ pc[t] = k /\ t \notin Blocked(sched)
         /\ SchedSound(sched) /\ sched \in SchedState /\ Types /\ Linked /\ Place(t)
         /\ k \notin IdlePc => arg[t] \in Lock
         /\ \A u \in Thread : sched.priority[u] \in Priority
<1>1. /\ sched.cur = t /\ pc[t] = k /\ SchedSound(sched) /\ Types /\ Linked /\ Place(t)
  BY DEF At, IInv
<1>2. sched \in SchedState /\ t \notin Blocked(sched)
  BY <1>1 DEF SchedSound, OneRunning, Blocked, AnyThread
<1>3. \A u \in Thread : sched.priority[u] \in Priority
  BY <1>2 DEF SchedState, AnyThread
<1>4. k \notin IdlePc => arg[t] \in Lock
  BY <1>1 DEF Types, Place
<1> QED
  BY <1>1, <1>2, <1>3, <1>4

-------------------------------------------------------------------------------
(***************************************************************************)
(* lock_acquire up to sema_down, with the frames of multiple_donate.       *)
(***************************************************************************)
Frames == [thread : Thread, at : Thread \union Lock]

StandsLinked(frames) == \A i \in DOMAIN frames : link[frames[i].at] # None

LEMMA PushKeepsLinks ==
  ASSUME Types, Linked, NEW t \in Thread, NEW l \in Lock, PushWaiting(t, l),
         donating' = donating
  PROVE  /\ link' \in [Thread \union Lock -> Thread \union Lock \union {None}]
         /\ last' \in [Thread -> Thread \union Lock]
         /\ Linked'
<1>1. /\ link \in [Thread \union Lock -> Thread \union Lock \union {None}]
      /\ last \in [Thread -> Thread \union Lock] /\ last[t] \in Thread \union Lock
      /\ None \notin Thread \union Lock
      /\ donating \in [Thread -> Seq(Frames)]
  BY LocksAssumption DEF Types, Frames
<1>2. link' = [link EXCEPT ![l] = t, ![last[t]] = l] /\ last' = [last EXCEPT ![t] = l]
  BY DEF PushWaiting
<1>3. /\ link' \in [Thread \union Lock -> Thread \union Lock \union {None}]
      /\ last' \in [Thread -> Thread \union Lock]
  BY <1>1, <1>2
<1>4. \A x \in Thread \union Lock :
        link'[x] = IF x = last[t] THEN l ELSE IF x = l THEN t ELSE link[x]
  BY <1>1, <1>2
<1>5. \A x \in Thread \union Lock : link[x] # None \/ x = l => link'[x] # None
  BY <1>1, <1>4
<1>6. \A u \in Thread : link'[u] # None
  BY <1>5 DEF Linked
<1>7. ASSUME NEW x \in Thread \union Lock, link'[x] # None PROVE link'[link'[x]] # None
  <2>1. CASE link'[x] = l
    BY <1>5, <2>1
  <2>2. CASE link'[x] = t
    BY <1>6, <2>2
  <2>3. CASE link'[x] = link[x]
    <3>1. link[x] \in Thread \union Lock /\ link[link[x]] # None
      BY <1>1, <1>7, <2>3 DEF Linked
    <3> QED
      BY <1>5, <2>3, <3>1
  <2> QED
    BY <1>4, <2>1, <2>2, <2>3
<1>8. ASSUME NEW u \in Thread, NEW i \in DOMAIN donating[u]
      PROVE  link'[donating[u][i].at] # None
  <2>1. donating[u][i] \in Frames
    BY <1>1
  <2>2. donating[u][i].at \in Thread \union Lock
    BY <2>1 DEF Frames
  <2> QED
    BY <1>5, <2>2 DEF Linked
<1> QED
  BY <1>3, <1>6, <1>7, <1>8 DEF Linked

LEMMA AcquireKeeps ==
  ASSUME IInv, NEW t \in Thread, NEW l \in Lock, Acquire(t, l)
  PROVE  IInv'
<1> DEFINE x == IF holder[l] = None THEN "acq_down" ELSE "acq_compare"
<1>1. At(t, "run") /\ holder[l] # t
  BY DEF Acquire
<1>2. /\ pc[t] = "run" /\ SchedSound(sched) /\ Types /\ Linked /\ Place(t)
  BY <1>1, AtFacts
<1>3. x \in CalmPc /\ x \notin IdlePc /\ x # "donate"
  BY DEF CalmPc, IdlePc
<1>4. pc' = [pc EXCEPT ![t] = x] /\ arg' = [arg EXCEPT ![t] = l]
  BY DEF Acquire, Goto
<1>5. /\ UNCHANGED <<sched, sema, holder, holder_priority, owning_locks, donating, fault>>
      /\ UNCHANGED lists \/ PushWaiting(t, l)
  BY DEF Acquire
<1> HIDE DEF x
<1>6. l \notin ToSet(owning_locks[t])
  BY <1>1 DEF IInv, LocksOK, HolderOK, Holds
<1>7. /\ link' \in [Thread \union Lock -> Thread \union Lock \union {None}]
      /\ last' \in [Thread -> Thread \union Lock]
      /\ Linked'
  <2>1. CASE UNCHANGED lists
    BY <1>2, <1>5, <2>1 DEF lists, Types, Linked
  <2>2. CASE PushWaiting(t, l)
    BY <1>2, <1>5, <2>2, PushKeepsLinks
  <2> QED
    BY <1>5, <2>1, <2>2
<1>8. /\ holder_priority' \in [Lock -> Priority]
      /\ donating' \in [Thread -> Seq([thread : Thread, at : Thread \union Lock])]
  BY <1>2, <1>5 DEF Types
<1>9. l # None /\ pc[t] \in CalmPc /\ l \in Lock \union {None}
  BY <1>2, LocksAssumption DEF CalmPc, IdlePc
<1> QED
  BY <1>2, <1>3, <1>4, <1>5, <1>6, <1>7, <1>8, <1>9, CalmStep

\* The steps from the first look at the holder to sema_down stay with the lock.
LEMMA WalkStep ==
  ASSUME IInv, NEW t \in Thread, NEW k, At(t, k),
         k \in {"acq_compare", "acq_assign", "acq_donate", "donate"},
         NEW x \in {"acq_assign", "acq_donate", "donate", "acq_down"},
         pc' = [pc EXCEPT ![t] = x],
         UNCHANGED <<sema, holder, holder_priority, owning_locks, lists, arg, fault>>,
         SchedSound(sched'), Blocked(sched') = Blocked(sched),
         NEW frames \in Seq(Frames), StandsLinked(frames),
         donating' = [donating EXCEPT ![t] = frames],
         x = "donate" => frames # << >>
  PROVE  IInv'
<1>1. /\ pc[t] = k /\ Types /\ Linked /\ Place(t) /\ arg[t] \in Lock
  BY AtFacts DEF IdlePc
<1>2. arg' = [arg EXCEPT ![t] = arg[t]]
  BY <1>1 DEF Types
<1>3. /\ donating' \in [Thread -> Seq(Frames)] /\ donating'[t] = frames
      /\ \A u \in Thread \ {t} : donating'[u] = donating[u]
  BY <1>1 DEF Types, Frames
<1>4. Linked'
  <2>1. ASSUME NEW u \in Thread, NEW i \in DOMAIN donating'[u]
        PROVE  link[donating'[u][i].at] # None
    <3>1. CASE u = t
      BY <1>3, <3>1 DEF StandsLinked
    <3>2. CASE u # t
      BY <1>1, <1>3, <3>2 DEF Linked
    <3> QED
      BY <3>1, <3>2
  <2> QED
    BY <1>1, <2>1 DEF Linked, lists
<1>5. arg[t] # None /\ arg[t] \notin ToSet(owning_locks[t])
  BY <1>1, LocksAssumption DEF Place
<1>6. x \in CalmPc /\ x \notin IdlePc /\ pc[t] \in CalmPc /\ arg[t] \in Lock \union {None}
  BY <1>1 DEF CalmPc, IdlePc
<1>7. /\ holder_priority' \in [Lock -> Priority]
      /\ link' \in [Thread \union Lock -> Thread \union Lock \union {None}]
      /\ last' \in [Thread -> Thread \union Lock]
  BY <1>1 DEF Types, lists
<1>8. donating' \in [Thread -> Seq([thread : Thread, at : Thread \union Lock])]
  BY <1>3 DEF Frames
<1> HIDE DEF Linked
<1> QED
  BY <1>2, <1>3, <1>4, <1>5, <1>6, <1>7, <1>8, CalmStep

LEMMA PushedFrames ==
  ASSUME NEW f \in Frames, link[f.at] # None,
         NEW frames \in Seq(Frames), StandsLinked(frames)
  PROVE  LET new == <<f>> \o frames
         IN  new \in Seq(Frames) /\ new # << >> /\ StandsLinked(new)
<1> DEFINE new == <<f>> \o frames
           n == Len(frames)
           one == <<f>>
<1>1. n \in Nat /\ DOMAIN frames = 1 .. n
  BY LenProperties
<1>2. one \in Seq(Frames) /\ Len(one) = 1 /\ one[1] = f
  OBVIOUS
<1>3. new = one \o frames
  OBVIOUS
<1> HIDE DEF n, one, new
<1>4. /\ new \in Seq(Frames) /\ Len(new) = 1 + Len(frames)
      /\ \A i \in 1 .. 1 + Len(frames) :
           new[i] = IF i <= 1 THEN one[i] ELSE frames[i - 1]
  BY <1>2, <1>3, ConcatProperties
<1>5. DOMAIN new = 1 .. 1 + n /\ Len(new) = 1 + n
  BY <1>4, LenProperties DEF n
<1>6. new # << >>
  BY <1>1, <1>5
<1>7. ASSUME NEW i \in 1 .. 1 + n PROVE link[new[i].at] # None
  <2>1. CASE i = 1
    <3>1. new[i] = f
      BY <1>1, <1>2, <1>4, <2>1 DEF n
    <3> QED
      BY <3>1
  <2>2. CASE i # 1
    <3>1. i - 1 \in 1 .. n /\ new[i] = frames[i - 1]
      BY <1>1, <1>4, <2>2 DEF n
    <3> QED
      BY <1>1, <3>1 DEF StandsLinked
  <2> QED
    BY <2>1, <2>2
<1> QED
  BY <1>4, <1>5, <1>6, <1>7 DEF StandsLinked, new

LEMMA PoppedFrames ==
  ASSUME NEW frames \in Seq(Frames), frames # << >>, StandsLinked(frames)
  PROVE  /\ Head(frames) \in Frames /\ link[Head(frames).at] # None
         /\ Tail(frames) \in Seq(Frames) /\ StandsLinked(Tail(frames))
         /\ Len(frames) # 1 => Tail(frames) # << >>
<1> DEFINE n == Len(frames)
           rest == Tail(frames)
<1>1. /\ n \in Nat /\ n >= 1 /\ DOMAIN frames = 1 .. n
      /\ Head(frames) = frames[1] /\ Head(frames) \in Frames
  BY LenProperties, EmptySeq, HeadTailProperties
<1>2. /\ rest \in Seq(Frames) /\ Len(rest) = n - 1 /\ DOMAIN rest = 1 .. n - 1
      /\ \A k \in 1 .. n - 1 : rest[k] = frames[k + 1]
  BY <1>1, HeadTailProperties, LenProperties
<1> HIDE DEF n, rest
<1>3. n # 1 => rest # << >>
  <2>1. rest = << >> => Len(rest) = 0
    BY EmptySeq
  <2> QED
    BY <1>1, <1>2, <2>1
<1>4. link[Head(frames).at] # None
  <2>1. 1 \in 1 .. n
    BY <1>1
  <2> QED
    BY <1>1, <2>1 DEF StandsLinked
<1>5. ASSUME NEW k \in 1 .. n - 1 PROVE link[rest[k].at] # None
  <2>1. k + 1 \in 1 .. n
    BY <1>1
  <2> QED
    BY <1>1, <1>2, <2>1 DEF StandsLinked
<1> QED
  BY <1>1, <1>2, <1>3, <1>4, <1>5 DEF StandsLinked, n, rest

\* The next element, like every element that is linked, has a successor.
LEMMA AdvancedFrames ==
  ASSUME Types, Linked, NEW frames \in Seq(Frames), StandsLinked(frames)
  PROVE  LET new == Advance(frames)
         IN  /\ new \in Seq(Frames) /\ StandsLinked(new)
             /\ frames # << >> => new # << >>
<1>1. CASE frames = << >>
  BY <1>1 DEF Advance
<1>2. CASE frames # << >>
  <2> DEFINE h == Head(frames)
             f == [h EXCEPT !.at = link[h.at]]
  <2>1. h \in Frames /\ link[h.at] # None /\ Tail(frames) \in Seq(Frames)
        /\ StandsLinked(Tail(frames))
    BY <1>2, PoppedFrames
  <2>2. Advance(frames) = <<f>> \o Tail(frames)
    BY <1>2 DEF Advance
  <2> HIDE DEF h
  <2>3. h.at \in Thread \union Lock /\ h.thread \in Thread
    BY <2>1 DEF Frames
  <2>4. link[h.at] \in Thread \union Lock /\ link[link[h.at]] # None
    BY <2>1, <2>3 DEF Types, Linked
  <2>5. f = [thread |-> h.thread, at |-> link[h.at]]
    BY <2>1 DEF Frames
  <2>6. f \in Frames /\ link[f.at] # None
    BY <2>3, <2>4, <2>5 DEF Frames
  <2> HIDE DEF f
  <2> QED
    BY <2>1, <2>2, <2>6, PushedFrames
<1> QED
  BY <1>1, <1>2

LEMMA FirstFrame ==
  ASSUME Types, Linked, NEW h \in Thread
  PROVE  Frame(h) \in Frames /\ link[Frame(h).at] # None
<1>1. link[h] \in Thread \union Lock /\ link[link[h]] # None
  BY DEF Types, Linked
<1>2. Frame(h) = [thread |-> h, at |-> link[h]]
  BY DEF Frame
<1> QED
  BY <1>1, <1>2 DEF Frames

LEMMA OwnFrames ==
  ASSUME Types, Linked, NEW t \in Thread
  PROVE  /\ donating[t] \in Seq(Frames) /\ StandsLinked(donating[t])
         /\ donating = [donating EXCEPT ![t] = donating[t]]
BY DEF Types, Linked, StandsLinked, Frames

LEMMA AcqCompareKeeps ==
  ASSUME IInv, NEW t \in Thread, AcqCompare(t)
  PROVE  IInv'
<1> DEFINE x == IF LacksDonation(t) THEN "acq_assign" ELSE "acq_down"
<1>1. /\ At(t, "acq_compare") /\ pc' = [pc EXCEPT ![t] = x]
      /\ UNCHANGED <<sched, sema, holder, holder_priority, owning_locks, lists, arg,
                     donating, fault>>
  BY DEF AcqCompare, Goto
<1>2. SchedSound(sched) /\ Types /\ Linked
  BY <1>1, AtFacts
<1>3. x \in {"acq_assign", "acq_donate", "donate", "acq_down"} /\ x # "donate"
  OBVIOUS
<1> HIDE DEF x
<1>4. /\ donating[t] \in Seq(Frames) /\ StandsLinked(donating[t])
      /\ donating' = [donating EXCEPT ![t] = donating[t]]
  BY <1>1, <1>2, OwnFrames
<1>5. SchedSound(sched') /\ Blocked(sched') = Blocked(sched)
  BY <1>1, <1>2
<1> DEFINE k == "acq_compare"
<1>6. At(t, k) /\ k \in {"acq_compare", "acq_assign", "acq_donate", "donate"}
  BY <1>1
<1> HIDE DEF k
<1> QED
  BY <1>1, <1>3, <1>4, <1>5, <1>6, WalkStep

LEMMA AcqAssignKeeps ==
  ASSUME IInv, NEW t \in Thread, AcqAssign(t)
  PROVE  IInv'
<1> DEFINE x == "acq_donate"
           k == "acq_assign"
           h == holder[arg[t]]
<1>1. /\ At(t, k) /\ pc' = [pc EXCEPT ![t] = x] /\ h # None
      /\ sched' = [sched EXCEPT !.priority[h] = sched.priority[t]]
      /\ UNCHANGED <<sema, holder, holder_priority, owning_locks, lists, arg,
                     donating, fault>>
  BY DEF AcqAssign, Goto
<1>2. /\ SchedSound(sched) /\ Types /\ Linked /\ arg[t] \in Lock
      /\ sched.priority[t] \in Priority
  BY <1>1, AtFacts DEF IdlePc
<1>3. /\ x \in {"acq_assign", "acq_donate", "donate", "acq_down"} /\ x # "donate"
      /\ k \in {"acq_compare", "acq_assign", "acq_donate", "donate"}
  OBVIOUS
<1>4. /\ donating[t] \in Seq(Frames) /\ StandsLinked(donating[t])
      /\ donating' = [donating EXCEPT ![t] = donating[t]]
  BY <1>1, <1>2, OwnFrames
<1>5. h \in Thread
  BY <1>1, <1>2 DEF Types
<1> HIDE DEF x, k, h
<1>6. SchedSound(sched') /\ Blocked(sched') = Blocked(sched)
  BY <1>1, <1>2, <1>5, PrioritySet
<1> QED
  BY <1>1, <1>3, <1>4, <1>6, WalkStep

LEMMA AcqDonateKeeps ==
  ASSUME IInv, NEW t \in Thread, AcqDonate(t)
  PROVE  IInv'
<1> DEFINE x == "donate"
           k == "acq_donate"
           h == holder[arg[t]]
           frames == <<Frame(h)>>
<1>1. /\ At(t, k) /\ pc' = [pc EXCEPT ![t] = x] /\ h # None
      /\ donating' = [donating EXCEPT ![t] = frames]
      /\ UNCHANGED <<sched, sema, holder, holder_priority, owning_locks, lists, arg,
                     fault>>
  BY DEF AcqDonate, Goto
<1>2. SchedSound(sched) /\ Types /\ Linked /\ arg[t] \in Lock
  BY <1>1, AtFacts DEF IdlePc
<1>3. /\ x \in {"acq_assign", "acq_donate", "donate", "acq_down"}
      /\ k \in {"acq_compare", "acq_assign", "acq_donate", "donate"}
  OBVIOUS
<1>4. h \in Thread
  BY <1>1, <1>2 DEF Types
<1>5. Frame(h) \in Frames /\ link[Frame(h).at] # None
  BY <1>2, <1>4, FirstFrame
<1>6. frames \in Seq(Frames) /\ frames # << >> /\ StandsLinked(frames)
  BY <1>5 DEF StandsLinked
<1>7. SchedSound(sched') /\ Blocked(sched') = Blocked(sched)
  BY <1>1, <1>2
<1> HIDE DEF x, k, h, frames
<1> QED
  BY <1>1, <1>3, <1>6, <1>7, WalkStep

LEMMA DonateReturnKeeps ==
  ASSUME IInv, NEW t \in Thread, DonateReturn(t)
  PROVE  IInv'
<1> DEFINE x == IF Len(donating[t]) = 1 THEN "acq_down" ELSE "donate"
           k == "donate"
           frames == Advance(Tail(donating[t]))
<1>1. /\ At(t, k) /\ pc' = [pc EXCEPT ![t] = x]
      /\ donating' = [donating EXCEPT ![t] = frames]
      /\ UNCHANGED <<sched, sema, holder, holder_priority, owning_locks, lists, arg,
                     fault>>
  BY DEF DonateReturn, Goto
<1>2. SchedSound(sched) /\ Types /\ Linked /\ Place(t) /\ pc[t] = "donate"
  BY <1>1, AtFacts
<1>3. /\ x \in {"acq_assign", "acq_donate", "donate", "acq_down"}
      /\ k \in {"acq_compare", "acq_assign", "acq_donate", "donate"}
      /\ x = "donate" => Len(donating[t]) # 1
  OBVIOUS
<1>4. /\ donating[t] \in Seq(Frames) /\ StandsLinked(donating[t]) /\ donating[t] # << >>
  BY <1>2, OwnFrames DEF Place
<1>5. /\ Tail(donating[t]) \in Seq(Frames) /\ StandsLinked(Tail(donating[t]))
      /\ Len(donating[t]) # 1 => Tail(donating[t]) # << >>
  BY <1>4, PoppedFrames
<1>6. /\ frames \in Seq(Frames) /\ StandsLinked(frames)
      /\ Tail(donating[t]) # << >> => frames # << >>
  BY <1>2, <1>5, AdvancedFrames
<1>7. SchedSound(sched') /\ Blocked(sched') = Blocked(sched)
  BY <1>1, <1>2
<1> HIDE DEF x, k, frames
<1> QED
  BY <1>1, <1>3, <1>5, <1>6, <1>7, WalkStep

LEMMA DonateOnKeeps ==
  ASSUME IInv, NEW t \in Thread, DonateOn(t)
  PROVE  IInv'
<1> DEFINE x == "donate"
           k == "donate"
           frame == Head(donating[t])
           h == holder[frame.at]
<1>1. /\ At(t, k) /\ frame.at \in Lock /\ h # None
      /\ UNCHANGED <<sema, holder, holder_priority, owning_locks, lists, pc, arg, fault>>
  BY DEF DonateOn
<1>2. SchedSound(sched) /\ Types /\ Linked /\ Place(t) /\ pc[t] = "donate"
      /\ \A u \in Thread : sched.priority[u] \in Priority
  BY <1>1, AtFacts
<1>3. /\ x \in {"acq_assign", "acq_donate", "donate", "acq_down"}
      /\ k \in {"acq_compare", "acq_assign", "acq_donate", "donate"}
      /\ pc' = [pc EXCEPT ![t] = x]
  BY <1>1, <1>2 DEF Types
<1>4. /\ donating[t] \in Seq(Frames) /\ StandsLinked(donating[t]) /\ donating[t] # << >>
  BY <1>2, OwnFrames DEF Place
<1>5. h \in Thread
  BY <1>1, <1>2 DEF Types
<1>6. frame.thread \in Thread
  BY <1>4, PoppedFrames DEF Frames
<1>7. PICK frames :
        /\ donating' = [donating EXCEPT ![t] = frames]
        /\ \/ frames = Advance(donating[t])
           \/ frames = <<Frame(h)>> \o donating[t]
  BY DEF DonateOn
<1>8. frames \in Seq(Frames) /\ StandsLinked(frames) /\ frames # << >>
  <2>1. CASE frames = Advance(donating[t])
    BY <1>2, <1>4, <2>1, AdvancedFrames
  <2>2. CASE frames = <<Frame(h)>> \o donating[t]
    <3> HIDE DEF h
    <3>1. Frame(h) \in Frames /\ link[Frame(h).at] # None
      BY <1>2, <1>5, FirstFrame
    <3> QED
      BY <1>4, <2>2, <3>1, PushedFrames
  <2> QED
    BY <1>7, <2>1, <2>2
<1>9. SchedSound(sched') /\ Blocked(sched') = Blocked(sched)
  <2>1. sched' = sched \/ sched' = [sched EXCEPT !.priority[h] = sched.priority[frame.thread]]
    BY DEF DonateOn
  <2>2. sched.priority[frame.thread] \in Priority
    BY <1>2, <1>6
  <2> HIDE DEF frame, h
  <2> QED
    BY <1>2, <1>5, <2>1, <2>2, PrioritySet
<1> HIDE DEF x, k
<1> QED
  BY <1>1, <1>3, <1>7, <1>8, <1>9, WalkStep

-------------------------------------------------------------------------------
(***************************************************************************)
(* Steps at which the kernel stops.                                        *)
(***************************************************************************)
LEMMA FaultsKeep ==
  ASSUME IInv, NEW t \in Thread,
         AcqNoHolder(t) \/ AcqDonateAssert(t) \/ DonateFault(t) \/ SetPriorityAssert(t)
  PROVE  IInv'
<1> DEFINE a == "lock->holder is NULL"
           b == "ASSERT (lock->holder != NULL)"
           c == "l->holder is NULL"
           d == "waitelem of no lock"
           e == "ASSERT (!list_empty (list))"
<1>1. Stop(a) \/ Stop(b) \/ Stop(c) \/ Stop(d) \/ Stop(e)
  BY Zenon DEF AcqNoHolder, AcqDonateAssert, DonateFault, SetPriorityAssert
<1>2. a \in Fault /\ b \in Fault /\ c \in Fault /\ d \in Fault /\ e \in Fault
  BY Zenon DEF Fault
<1> HIDE DEF a, b, c, d, e
<1> QED
  BY <1>1, <1>2, StopKeeps

-------------------------------------------------------------------------------
(***************************************************************************)
(* Steps that take or give a lock, or go on to do so.                      *)
(***************************************************************************)
LEMMA OwnerStep ==
  ASSUME IInv, NEW t \in Thread, NEW x \in PC, x # "donate",
         NEW a \in Lock \union {None}, NEW list \in Seq(Lock),
         pc' = [pc EXCEPT ![t] = x], arg' = [arg EXCEPT ![t] = a],
         owning_locks' = [owning_locks EXCEPT ![t] = list],
         a = None <=> x \in IdlePc, Distinct(list), a \notin ToSet(list),
         sema' \in [Lock -> SemaState],
         holder' \in [Lock -> Thread \union {None}],
         holder_priority' \in [Lock -> Priority],
         UNCHANGED <<lists, donating, fault>>,
         SchedSound(sched'), LocksOK'
  PROVE  IInv'
<1>1. Types /\ Linked /\ \A u \in Thread : Place(u)
  BY DEF IInv
<1>2. Types' /\ Linked'
  BY <1>1 DEF Types, Linked, lists
<1>3. \A u \in Thread : /\ pc'[u] = IF u = t THEN x ELSE pc[u]
                        /\ arg'[u] = IF u = t THEN a ELSE arg[u]
                        /\ owning_locks'[u] = IF u = t THEN list ELSE owning_locks[u]
  BY <1>1 DEF Types
<1>4. ASSUME NEW u \in Thread PROVE Place(u)'
  BY <1>1, <1>3 DEF Place
<1> QED
  BY <1>2, <1>4 DEF IInv

LEMMA OwnList ==
  ASSUME Types, NEW t \in Thread, Place(t)
  PROVE  /\ owning_locks[t] \in Seq(Lock) /\ Distinct(owning_locks[t])
         /\ arg[t] \notin ToSet(owning_locks[t])
         /\ owning_locks = [owning_locks EXCEPT ![t] = owning_locks[t]]
         /\ arg[t] \in Lock \union {None} /\ arg = [arg EXCEPT ![t] = arg[t]]
BY DEF Types, Place

LEMMA AcqDownWaits ==
  ASSUME IInv, NEW t \in Thread, NEW l \in Lock, arg[t] = l, AcqDown(t), MustWait(sema[l])
  PROVE  IInv'
<1> DEFINE d == DownSema(sched, sema[l])
           x == "down"
<1>1. /\ At(t, "acq_down") \/ At(t, "down")
      /\ sema' = [sema EXCEPT ![l] = d]
      /\ sched' = ThreadBlock(sched)
      /\ pc' = [pc EXCEPT ![t] = x]
      /\ UNCHANGED <<holder, holder_priority, owning_locks, lists, arg, donating, fault>>
  BY DEF AcqDown, DownSched, Goto
<1>2. /\ sched.cur = t /\ t \notin Blocked(sched)
      /\ SchedSound(sched) /\ Types /\ Place(t)
      /\ pc[t] \in {"acq_down", "down"}
  BY <1>1, AtFacts
<1>3. SchedSound(sched') /\ Blocked(sched') = Blocked(sched) \union {t}
  BY <1>1, <1>2, BlockSound
<1>4. HolderOK(l) /\ UnitOK(l) /\ WaitersOK(l) /\ sema[l] \in SemaState /\ sema[l].value = 0
  BY <1>2 DEF IInv, LocksOK, Types, MustWait
<1>5. /\ d \in SemaState /\ d.value = 0 /\ Distinct(d.waiters)
      /\ ToSet(d.waiters) = ToSet(sema[l].waiters) \union {t}
  <2>1. t \notin ToSet(sema[l].waiters) /\ Distinct(sema[l].waiters)
    BY <1>2, <1>4 DEF WaitersOK
  <2> QED
    BY <1>2, <1>4, <2>1, DownSemaWaits
<1> HIDE DEF d
<1>6. /\ sema' \in [Lock -> SemaState] /\ sema'[l] = d
      /\ \A k \in Lock \ {l} : sema'[k] = sema[k]
      /\ \A u \in Thread : pc'[u] = IF u = t THEN x ELSE pc[u]
  BY <1>1, <1>2, <1>5 DEF Types
<1>7. \A u \in Thread, k \in Lock :
        /\ Holds(u, k)' <=> Holds(u, k)
        /\ Owns(u, k)' <=> Owns(u, k)
        /\ InDown(u, k)' <=> InDown(u, k) \/ (u = t /\ k = l)
  BY <1>1, <1>2, <1>6 DEF Holds, Owns, HolderPc, OwnerPc, InDown
<1>8. ASSUME NEW k \in Lock PROVE (HolderOK(k) /\ UnitOK(k) /\ WaitersOK(k))'
  <2>1. HolderOK(k) /\ UnitOK(k) /\ WaitersOK(k)
    BY DEF IInv, LocksOK
  <2>2. sema'[k].value = sema[k].value
    BY <1>4, <1>5, <1>6
  <2>3. HolderOK(k)'
    BY <1>1, <1>7, <2>1 DEF HolderOK
  <2>4. UnitOK(k)'
    BY <1>7, <2>1, <2>2 DEF UnitOK
  <2>5. WaitersOK(k)'
    <3>1. CASE k = l
      <4>1. ToSet(sema'[l].waiters) = { u \in Blocked(sched') : InDown(u, l)' }
        BY <1>2, <1>3, <1>4, <1>5, <1>6, <1>7 DEF WaitersOK, Blocked
      <4> QED
        BY <1>5, <1>6, <3>1, <4>1 DEF WaitersOK
    <3>2. CASE k # l
      <4>1. InDown(t, k)' = FALSE /\ InDown(t, k) = FALSE
        BY <1>1, <1>6, <3>2 DEF InDown
      <4>2. ToSet(sema'[k].waiters) = { u \in Blocked(sched') : InDown(u, k)' }
        BY <1>3, <1>6, <1>7, <2>1, <3>2, <4>1 DEF WaitersOK, Blocked
      <4>3. sema'[k].value = 1 /\ sema'[k].waiters # << >> =>
              \E u \in Thread \ Blocked(sched') : InDown(u, k)'
        BY <1>3, <1>6, <1>7, <2>1, <3>2, <4>1 DEF WaitersOK
      <4> QED
        BY <1>6, <2>1, <3>2, <4>2, <4>3 DEF WaitersOK
    <3> QED
      BY <3>1, <3>2
  <2> QED
    BY <2>3, <2>4, <2>5
<1>9. LocksOK'
  BY <1>8 DEF LocksOK
<1>10. x \in PC /\ x # "donate" /\ x \notin IdlePc /\ l # None
  BY <1>2, LocksAssumption DEF PC, IdlePc
<1>11. /\ owning_locks[t] \in Seq(Lock) /\ Distinct(owning_locks[t])
       /\ l \notin ToSet(owning_locks[t]) /\ l \in Lock \union {None}
       /\ owning_locks' = [owning_locks EXCEPT ![t] = owning_locks[t]]
       /\ arg' = [arg EXCEPT ![t] = l]
  BY <1>1, <1>2, OwnList
<1>12. /\ holder' \in [Lock -> Thread \union {None}]
       /\ holder_priority' \in [Lock -> Priority]
  BY <1>1, <1>2 DEF Types
<1> HIDE DEF x
<1> QED
  BY <1>1, <1>3, <1>6, <1>9, <1>10, <1>11, <1>12, OwnerStep

LEMMA AcqDownTakes ==
  ASSUME IInv, NEW t \in Thread, NEW l \in Lock, arg[t] = l, AcqDown(t), ~MustWait(sema[l])
  PROVE  IInv'
<1> DEFINE d == DownSema(sched, sema[l])
           x == "acq_holder"
<1>1. /\ At(t, "acq_down") \/ At(t, "down")
      /\ sema' = [sema EXCEPT ![l] = d]
      /\ sched' = sched
      /\ pc' = [pc EXCEPT ![t] = x]
      /\ UNCHANGED <<holder, holder_priority, owning_locks, lists, arg, donating, fault>>
  BY DEF AcqDown, DownSched, Goto
<1>2. /\ sched.cur = t /\ t \notin Blocked(sched)
      /\ SchedSound(sched) /\ Types /\ Place(t)
      /\ pc[t] \in {"acq_down", "down"}
  BY <1>1, AtFacts
<1>3. HolderOK(l) /\ UnitOK(l) /\ WaitersOK(l) /\ sema[l] \in SemaState /\ sema[l].value = 1
  BY <1>2 DEF IInv, LocksOK, Types, MustWait, UnitOK
<1>4. d \in SemaState /\ d.value = 0 /\ d.waiters = sema[l].waiters
  BY <1>3, DownSemaTakes
<1> HIDE DEF d
<1>5. /\ sema' \in [Lock -> SemaState] /\ sema'[l] = d
      /\ \A k \in Lock : sema'[k].waiters = sema[k].waiters
      /\ \A k \in Lock \ {l} : sema'[k] = sema[k]
      /\ \A u \in Thread : pc'[u] = IF u = t THEN x ELSE pc[u]
  BY <1>1, <1>2, <1>4 DEF Types
<1>6. \A u \in Thread, k \in Lock :
        /\ Holds(u, k)' <=> Holds(u, k)
        /\ Owns(u, k)' <=> Owns(u, k) \/ (u = t /\ k = l)
        /\ InDown(u, k)' <=> InDown(u, k) /\ ~(u = t /\ k = l)
  BY <1>1, <1>2, <1>5 DEF Holds, Owns, HolderPc, OwnerPc, InDown
<1>7. ASSUME NEW k \in Lock PROVE (HolderOK(k) /\ UnitOK(k) /\ WaitersOK(k))'
  <2>1. HolderOK(k) /\ UnitOK(k) /\ WaitersOK(k)
    BY DEF IInv, LocksOK
  <2>2. HolderOK(k)'
    BY <1>1, <1>6, <2>1 DEF HolderOK
  <2>3. UnitOK(k)'
    <3>1. CASE k = l
      <4>1. sema'[l].value = 0 /\ \A u \in Thread : Owns(u, l)' <=> u = t
        BY <1>3, <1>4, <1>5, <1>6 DEF UnitOK
      <4> QED
        BY <3>1, <4>1 DEF UnitOK
    <3>2. CASE k # l
      BY <1>5, <1>6, <2>1, <3>2 DEF UnitOK
    <3> QED
      BY <3>1, <3>2
  <2>4. WaitersOK(k)'
    <3>1. { u \in Blocked(sched') : InDown(u, k)' } = { u \in Blocked(sched) : InDown(u, k) }
      BY <1>1, <1>2, <1>6 DEF Blocked
    <3>2. sema'[k].value = 1 /\ sema'[k].waiters # << >> =>
            \E u \in Thread \ Blocked(sched') : InDown(u, k)'
      BY <1>1, <1>4, <1>5, <1>6, <2>1 DEF WaitersOK
    <3> QED
      BY <1>5, <2>1, <3>1, <3>2 DEF WaitersOK
  <2> QED
    BY <2>2, <2>3, <2>4
<1>8. LocksOK'
  BY <1>7 DEF LocksOK
<1>9. x \in PC /\ x # "donate" /\ x \notin IdlePc /\ l # None
  BY <1>2, LocksAssumption DEF PC, IdlePc
<1>10. /\ owning_locks[t] \in Seq(Lock) /\ Distinct(owning_locks[t])
       /\ l \notin ToSet(owning_locks[t]) /\ l \in Lock \union {None}
       /\ owning_locks' = [owning_locks EXCEPT ![t] = owning_locks[t]]
       /\ arg' = [arg EXCEPT ![t] = l]
  BY <1>1, <1>2, OwnList
<1>11. /\ holder' \in [Lock -> Thread \union {None}]
       /\ holder_priority' \in [Lock -> Priority] /\ SchedSound(sched')
  BY <1>1, <1>2 DEF Types
<1> HIDE DEF x
<1> QED
  BY <1>1, <1>5, <1>8, <1>9, <1>10, <1>11, OwnerStep

\* Only `holder' of the lock changes: who owns what stays.
LEMMA HolderStep ==
  ASSUME IInv, NEW t \in Thread, NEW l \in Lock, arg[t] = l, pc[t] \in OwnerPc,
         NEW x \in OwnerPc, pc' = [pc EXCEPT ![t] = x],
         NEW h, holder' = [holder EXCEPT ![l] = h],
         h = IF x \in HolderPc THEN t ELSE None,
         UNCHANGED <<sched, sema, holder_priority, owning_locks, lists, arg, donating, fault>>
  PROVE  IInv'
<1>1. Types /\ SchedSound(sched) /\ Place(t) /\ HolderOK(l) /\ UnitOK(l)
  BY DEF IInv, LocksOK
<1>2. h \in Thread \union {None} /\ \A u \in Thread : h = u <=> u = t /\ x \in HolderPc
  BY LocksAssumption
<1>3. /\ holder' \in [Lock -> Thread \union {None}] /\ holder'[l] = h
      /\ \A k \in Lock \ {l} : holder'[k] = holder[k]
      /\ \A u \in Thread : pc'[u] = IF u = t THEN x ELSE pc[u]
  BY <1>1, <1>2 DEF Types
<1>4. l \notin ToSet(owning_locks[t]) /\ l # None
  BY <1>1, LocksAssumption DEF Place
<1>5. \A u \in Thread, k \in Lock :
        /\ Holds(u, k)' <=> IF u = t /\ k = l THEN x \in HolderPc ELSE Holds(u, k)
        /\ Owns(u, k)' <=> Owns(u, k)
        /\ InDown(u, k)' <=> InDown(u, k)
  BY <1>3, <1>4 DEF Holds, Owns, HolderPc, OwnerPc, InDown
<1>6. \A u \in Thread : u # t => ~Holds(u, l)
  <2>1. Owns(t, l)
    BY DEF Owns
  <2>2. \A u \in Thread : Owns(u, l) => u = t
    BY <1>1, <2>1 DEF UnitOK
  <2> QED
    BY <2>2 DEF Holds, Owns, HolderPc, OwnerPc
<1>7. ASSUME NEW k \in Lock PROVE (HolderOK(k) /\ UnitOK(k) /\ WaitersOK(k))'
  <2>1. HolderOK(k) /\ UnitOK(k) /\ WaitersOK(k)
    BY DEF IInv, LocksOK
  <2>2. HolderOK(k)'
    <3>1. CASE k = l
      BY <1>3, <1>5, <1>6, <1>2, <3>1 DEF HolderOK
    <3>2. CASE k # l
      BY <1>3, <1>5, <2>1, <3>2 DEF HolderOK
    <3> QED
      BY <3>1, <3>2
  <2>3. UnitOK(k)'
    BY <1>5, <2>1 DEF UnitOK
  <2>4. WaitersOK(k)'
    BY <1>5, <2>1 DEF WaitersOK, Blocked
  <2> QED
    BY <2>2, <2>3, <2>4
<1>8. LocksOK'
  BY <1>7 DEF LocksOK
<1>9. x \in PC /\ x # "donate" /\ x \notin IdlePc
  BY DEF PC, IdlePc, OwnerPc, HolderPc
<1>10. /\ owning_locks[t] \in Seq(Lock) /\ Distinct(owning_locks[t])
      /\ l \in Lock \union {None}
      /\ owning_locks' = [owning_locks EXCEPT ![t] = owning_locks[t]]
      /\ arg' = [arg EXCEPT ![t] = l]
  BY <1>1, OwnList
<1>11. /\ holder_priority' \in [Lock -> Priority] /\ SchedSound(sched')
       /\ sema' \in [Lock -> SemaState]
  BY <1>1 DEF Types
<1> QED
  BY <1>3, <1>4, <1>8, <1>9, <1>10, <1>11, OwnerStep

LEMMA AcqHolderKeeps ==
  ASSUME IInv, NEW t \in Thread, NEW l \in Lock, arg[t] = l, AcqHolder(t)
  PROVE  IInv'
<1> DEFINE x == "acq_save"
<1>1. /\ At(t, "acq_holder") /\ pc' = [pc EXCEPT ![t] = x]
      /\ holder' = [holder EXCEPT ![l] = t]
      /\ UNCHANGED <<sched, sema, holder_priority, owning_locks, lists, arg, donating,
                     fault>>
  BY DEF AcqHolder, Goto
<1>2. pc[t] \in OwnerPc /\ x \in OwnerPc /\ x \in HolderPc
  BY <1>1 DEF At, OwnerPc, HolderPc
<1>3. t = IF x \in HolderPc THEN t ELSE None
  BY <1>2
<1> HIDE DEF x
<1> QED
  BY <1>1, <1>2, <1>3, HolderStep

LEMMA RelHolderKeeps ==
  ASSUME IInv, NEW t \in Thread, NEW l \in Lock, arg[t] = l, RelHolder(t)
  PROVE  IInv'
<1> DEFINE x == "rel_up"
           h == None
<1>1. /\ At(t, "rel_holder") /\ pc' = [pc EXCEPT ![t] = x]
      /\ holder' = [holder EXCEPT ![l] = h]
      /\ UNCHANGED <<sched, sema, holder_priority, owning_locks, lists, arg, donating,
                     fault>>
  BY DEF RelHolder, Goto
<1>2. pc[t] \in OwnerPc /\ x \in OwnerPc /\ x \notin HolderPc
  BY <1>1 DEF At, OwnerPc, HolderPc
<1>3. h = IF x \in HolderPc THEN t ELSE None
  BY <1>2
<1> HIDE DEF x, h
<1> QED
  BY <1>1, <1>2, <1>3, HolderStep

\* The current thread goes on with the lock: neither semaphore nor `holder'
\* changes.
LEMMA KeepsLock ==
  ASSUME IInv, NEW t \in Thread, NEW x \in PC, x # "donate",
         NEW a \in Lock \union {None}, NEW list \in Seq(Lock),
         pc[t] # "down", x # "down",
         pc' = [pc EXCEPT ![t] = x], arg' = [arg EXCEPT ![t] = a],
         owning_locks' = [owning_locks EXCEPT ![t] = list],
         a = None <=> x \in IdlePc, Distinct(list), a \notin ToSet(list),
         \A k \in Lock :
           /\ k \in ToSet(list) \/ (a = k /\ x \in HolderPc) <=> Holds(t, k)
           /\ k \in ToSet(list) \/ (a = k /\ x \in OwnerPc) <=> Owns(t, k),
         holder_priority' \in [Lock -> Priority],
         SchedSound(sched'), Blocked(sched') = Blocked(sched),
         UNCHANGED <<sema, holder, lists, donating, fault>>
  PROVE  IInv'
<1>1. Types
  BY DEF IInv
<1>2. \A u \in Thread : /\ pc'[u] = IF u = t THEN x ELSE pc[u]
                        /\ arg'[u] = IF u = t THEN a ELSE arg[u]
                        /\ owning_locks'[u] = IF u = t THEN list ELSE owning_locks[u]
  BY <1>1 DEF Types
<1>3. \A u \in Thread, l \in Lock : /\ Holds(u, l)' <=> Holds(u, l)
                                    /\ Owns(u, l)' <=> Owns(u, l)
                                    /\ InDown(u, l)' <=> InDown(u, l)
  <2>1. ASSUME NEW u \in Thread, NEW l \in Lock
        PROVE  Holds(u, l)' <=> Holds(u, l)
    BY <1>2 DEF Holds
  <2>2. ASSUME NEW u \in Thread, NEW l \in Lock
        PROVE  Owns(u, l)' <=> Owns(u, l)
    BY <1>2 DEF Owns
  <2>3. ASSUME NEW u \in Thread, NEW l \in Lock
        PROVE  InDown(u, l)' <=> InDown(u, l)
    BY <1>2 DEF InDown
  <2> QED
    BY <2>1, <2>2, <2>3
<1>4. LocksOK'
  BY <1>3, LocksStay
<1>5. /\ sema' \in [Lock -> SemaState]
      /\ holder' \in [Lock -> Thread \union {None}]
  BY <1>1 DEF Types
<1> QED
  BY <1>4, <1>5, OwnerStep

LEMMA AcqSaveKeeps ==
  ASSUME IInv, NEW t \in Thread, NEW l \in Lock, arg[t] = l, AcqSave(t)
  PROVE  IInv'
<1> DEFINE x == "run"
           list == Append(owning_locks[t], l)
           a == None
<1>1. /\ At(t, "acq_save") /\ pc' = [pc EXCEPT ![t] = x]
      /\ arg' = [arg EXCEPT ![t] = a]
      /\ owning_locks' = [owning_locks EXCEPT ![t] = list]
      /\ holder_priority' = [holder_priority EXCEPT ![l] = sched.priority[t]]
      /\ UNCHANGED <<sched, sema, holder, lists, donating, fault>>
  BY DEF AcqSave, Goto
<1>2. /\ pc[t] = "acq_save" /\ SchedSound(sched) /\ Types /\ Place(t)
      /\ sched.priority[t] \in Priority
  BY <1>1, AtFacts
<1>3. /\ owning_locks[t] \in Seq(Lock) /\ Distinct(owning_locks[t])
      /\ l \notin ToSet(owning_locks[t])
  BY <1>2, OwnList
<1>4. /\ list \in Seq(Lock) /\ Distinct(list)
      /\ ToSet(list) = ToSet(owning_locks[t]) \union {l}
  BY <1>3, AppendedOnce
<1>5. a \notin Lock /\ a \notin ToSet(list) /\ a \in Lock \union {None}
  <2>1. ToSet(list) \subseteq Lock
    BY <1>3, <1>4, ElementOfSeq DEF ToSet
  <2> QED
    BY <2>1, LocksAssumption
<1>6. /\ x \in PC /\ x # "donate" /\ x # "down" /\ x \in IdlePc
      /\ x \notin HolderPc /\ x \notin OwnerPc
  BY DEF PC, IdlePc, HolderPc, OwnerPc
<1> HIDE DEF list, a, x
<1>7. \A k \in Lock : /\ k \in ToSet(list) <=> Holds(t, k)
                      /\ k \in ToSet(list) <=> Owns(t, k)
  BY <1>2, <1>4 DEF Holds, Owns, HolderPc, OwnerPc
<1>8. holder_priority' \in [Lock -> Priority] /\ pc[t] # "down"
  BY <1>1, <1>2 DEF Types
<1> QED
  BY <1>1, <1>2, <1>4, <1>5, <1>6, <1>7, <1>8, KeepsLock DEF a

LEMMA ReleaseKeeps ==
  ASSUME IInv, NEW t \in Thread, NEW l \in Lock, Release(t, l)
  PROVE  IInv'
<1> DEFINE x == "rel_donated"
           list == Unlinked(owning_locks[t], l)
<1>1. /\ At(t, "run") /\ pc' = [pc EXCEPT ![t] = x] /\ holder[l] = t
      /\ arg' = [arg EXCEPT ![t] = l]
      /\ owning_locks' = [owning_locks EXCEPT ![t] = list]
      /\ sched' = [sched EXCEPT !.priority[t] = holder_priority[l]]
      /\ UNCHANGED <<sema, holder, holder_priority, lists, donating, fault>>
  BY DEF Release, Goto
<1>2. /\ pc[t] = "run" /\ SchedSound(sched) /\ Types /\ Place(t)
      /\ holder_priority[l] \in Priority
  BY <1>1, AtFacts DEF Types
<1>3. owning_locks[t] \in Seq(Lock) /\ Distinct(owning_locks[t])
  BY <1>2, OwnList
<1>4. l \in ToSet(owning_locks[t])
  BY <1>1, <1>2 DEF IInv, LocksOK, HolderOK, Holds, HolderPc
<1>5. /\ list \in Seq(Lock) /\ Distinct(list)
      /\ ToSet(list) = ToSet(owning_locks[t]) \ {l}
  BY <1>3, <1>4, UnlinkedOnce
<1>6. /\ x \in PC /\ x # "donate" /\ x # "down" /\ x \notin IdlePc
      /\ x \in HolderPc /\ x \in OwnerPc /\ l # None
  BY LocksAssumption DEF PC, IdlePc, HolderPc, OwnerPc
<1> HIDE DEF list, x
<1>7. \A k \in Lock : /\ k \in ToSet(list) \/ l = k <=> Holds(t, k)
                      /\ k \in ToSet(list) \/ l = k <=> Owns(t, k)
  BY <1>2, <1>4, <1>5 DEF Holds, Owns, HolderPc, OwnerPc
<1>8. holder_priority' \in [Lock -> Priority] /\ pc[t] # "down"
  BY <1>1, <1>2 DEF Types
<1>9. SchedSound(sched') /\ Blocked(sched') = Blocked(sched)
  BY <1>1, <1>2, PrioritySet
<1>10. l \notin ToSet(list) /\ l \in Lock \union {None}
  BY <1>5
<1> QED
  BY <1>1, <1>5, <1>6, <1>7, <1>8, <1>9, <1>10, KeepsLock

LEMMA RelDonatedKeeps ==
  ASSUME IInv, NEW t \in Thread, NEW l \in Lock, arg[t] = l, RelDonated(t)
  PROVE  IInv'
<1> DEFINE x == "rel_holder"
           list == owning_locks[t]
           p == RaisedByAll(sched.priority[t], list)
<1>1. /\ At(t, "rel_donated") /\ pc' = [pc EXCEPT ![t] = x]
      /\ sched' = [sched EXCEPT !.priority[t] = p]
      /\ UNCHANGED <<sema, holder, holder_priority, owning_locks, lists, arg, donating,
                     fault>>
  <2>1. RelDonated(t)
    OBVIOUS
  <2>2. t \in DOMAIN sched.priority /\ "priority" \in DOMAIN sched
    BY DEF IInv, SchedSound, SchedState, AnyThread
  <2> QED
    BY <2>1, <2>2 DEF RelDonated, Goto
<1>2. /\ pc[t] = "rel_donated" /\ SchedSound(sched) /\ Types /\ Place(t)
      /\ sched \in SchedState /\ sched.priority[t] \in Priority
  BY <1>1, AtFacts
<1>3. /\ list \in Seq(Lock) /\ Distinct(list) /\ l \notin ToSet(list)
      /\ l \in Lock \union {None}
      /\ owning_locks' = [owning_locks EXCEPT ![t] = list]
      /\ arg' = [arg EXCEPT ![t] = l]
  BY <1>1, <1>2, OwnList
<1>4. p \in Priority
  <2>1. sema \in [Lock -> [value : Nat, waiters : Seq(Thread)]]
    BY <1>2 DEF Types, SemaState
  <2> HIDE DEF list
  <2> QED
    BY <1>2, <1>3, <2>1, RaisedByAllType
<1>5. /\ x \in PC /\ x # "donate" /\ x # "down" /\ x \notin IdlePc
      /\ x \in HolderPc /\ x \in OwnerPc /\ l # None
  BY LocksAssumption DEF PC, IdlePc, HolderPc, OwnerPc
<1>6. \A k \in Lock : /\ k \in ToSet(list) \/ l = k <=> Holds(t, k)
                      /\ k \in ToSet(list) \/ l = k <=> Owns(t, k)
  BY <1>2 DEF Holds, Owns, HolderPc, OwnerPc
<1> HIDE DEF list, x, p
<1>7. holder_priority' \in [Lock -> Priority] /\ pc[t] # "down"
  BY <1>1, <1>2 DEF Types
<1>8. SchedSound(sched') /\ Blocked(sched') = Blocked(sched)
  BY <1>1, <1>2, <1>4, PrioritySet
<1> QED
  BY <1>1, <1>3, <1>5, <1>6, <1>7, <1>8, KeepsLock

LEMMA RelUpKeeps ==
  ASSUME IInv, NEW t \in Thread, NEW l \in Lock, arg[t] = l, RelUp(t)
  PROVE  IInv'
<1> DEFINE d == UpSema(sched, sema[l])
           r == UpSched(sched, sema[l])
           x == "run"
           a == None
           list == owning_locks[t]
<1>1. /\ At(t, "rel_up") /\ pc' = [pc EXCEPT ![t] = x]
      /\ arg' = [arg EXCEPT ![t] = a]
      /\ sema' = [sema EXCEPT ![l] = d]
      /\ sched' = ThreadPreemption(r)
      /\ UNCHANGED <<holder, holder_priority, owning_locks, lists, donating, fault>>
  BY DEF RelUp, Goto
<1>2. /\ pc[t] = "rel_up" /\ SchedSound(sched) /\ Types /\ Place(t)
  BY <1>1, AtFacts
<1>3. HolderOK(l) /\ UnitOK(l) /\ WaitersOK(l) /\ sema[l] \in SemaState
  BY <1>2 DEF IInv, LocksOK, Types
<1>4. sema[l].value = 0 /\ \A u \in Thread : Owns(u, l) <=> u = t
  <2>1. Owns(t, l)
    BY <1>2 DEF Owns, OwnerPc
  <2>2. sema[l].value = 0
    BY <1>3, <2>1 DEF UnitOK
  <2> QED
    BY <1>3, <2>1, <2>2 DEF UnitOK
<1>5. /\ d \in SemaState /\ d.value = sema[l].value + 1 /\ Distinct(d.waiters)
      /\ SchedSound(r)
      /\ \E W \in SUBSET ToSet(sema[l].waiters) :
           /\ ToSet(d.waiters) = ToSet(sema[l].waiters) \ W
           /\ Blocked(r) = Blocked(sched) \ W
           /\ ToSet(sema[l].waiters) # {} => W # {}
  <2>1. Distinct(sema[l].waiters) /\ ToSet(sema[l].waiters) \subseteq Blocked(sched)
    BY <1>3 DEF WaitersOK
  <2> QED
    BY <1>2, <1>3, <2>1, UpSound
<1> HIDE DEF d, r
<1>6. SchedSound(sched') /\ Blocked(sched') = Blocked(r)
  BY <1>1, <1>5, PreemptionSound
<1>7. PICK W \in SUBSET ToSet(sema[l].waiters) :
        /\ ToSet(d.waiters) = ToSet(sema[l].waiters) \ W
        /\ Blocked(sched') = Blocked(sched) \ W
        /\ ToSet(sema[l].waiters) # {} => W # {}
  BY <1>5, <1>6
<1>8. /\ sema' \in [Lock -> SemaState] /\ sema'[l] = d /\ d.value = 1
      /\ \A k \in Lock \ {l} : sema'[k] = sema[k]
      /\ \A u \in Thread : /\ pc'[u] = IF u = t THEN x ELSE pc[u]
                           /\ arg'[u] = IF u = t THEN a ELSE arg[u]
  BY <1>1, <1>2, <1>4, <1>5 DEF Types
<1>9. l \notin ToSet(list) /\ list \in Seq(Lock) /\ Distinct(list)
      /\ owning_locks' = [owning_locks EXCEPT ![t] = list]
  BY <1>1, <1>2, OwnList
<1>10. a \notin Lock /\ a \notin ToSet(list) /\ a \in Lock \union {None}
  <2>1. ToSet(list) \subseteq Lock
    BY <1>9, ElementOfSeq DEF ToSet
  <2> QED
    BY <2>1, LocksAssumption
<1>11. \A u \in Thread, k \in Lock :
         /\ Holds(u, k)' <=> Holds(u, k)
         /\ Owns(u, k)' <=> Owns(u, k) /\ k # l
         /\ InDown(u, k)' <=> InDown(u, k)
  <2>1. ASSUME NEW u \in Thread, NEW k \in Lock
        PROVE  Holds(u, k)' <=> Holds(u, k)
    BY <1>1, <1>2, <1>8, <1>10 DEF Holds, HolderPc
  <2>2. ASSUME NEW u \in Thread, NEW k \in Lock
        PROVE  Owns(u, k)' <=> Owns(u, k) /\ k # l
    <3>1. CASE u = t
      BY <1>1, <1>2, <1>8, <1>9, <1>10, <3>1 DEF Owns, HolderPc, OwnerPc
    <3>2. CASE u # t
      BY <1>1, <1>4, <1>8, <3>2 DEF Owns
    <3> QED
      BY <3>1, <3>2
  <2>3. ASSUME NEW u \in Thread, NEW k \in Lock
        PROVE  InDown(u, k)' <=> InDown(u, k)
    BY <1>1, <1>2, <1>8, <1>10 DEF InDown
  <2> QED
    BY <2>1, <2>2, <2>3
<1>12. ASSUME NEW k \in Lock PROVE (HolderOK(k) /\ UnitOK(k) /\ WaitersOK(k))'
  <2>1. HolderOK(k) /\ UnitOK(k) /\ WaitersOK(k)
    BY DEF IInv, LocksOK
  <2>2. HolderOK(k)'
    BY <1>1, <1>11, <2>1 DEF HolderOK
  <2>3. CASE k = l
    <3>1. UnitOK(k)'
      BY <1>8, <1>11, <2>3 DEF UnitOK
    <3>2. ToSet(sema'[k].waiters) = { u \in Blocked(sched') : InDown(u, k)' }
      BY <1>7, <1>8, <1>11, <2>1, <2>3 DEF WaitersOK, Blocked
    <3>3. ASSUME sema'[k].waiters # << >>
          PROVE  \E u \in Thread \ Blocked(sched') : InDown(u, k)'
      <4>1. ToSet(sema'[k].waiters) # {}
        <5>1. d.waiters \in Seq(Thread)
          BY <1>5 DEF SemaState
        <5> QED
          BY <1>8, <2>3, <3>3, <5>1, EmptyIffNone
      <4>2. PICK w \in W : TRUE
        BY <1>7, <1>8, <2>3, <4>1
      <4>3. w \in Blocked(sched) /\ InDown(w, k) /\ w \notin Blocked(sched')
        BY <1>7, <2>1, <2>3, <4>2 DEF WaitersOK
      <4> QED
        BY <1>11, <4>3 DEF Blocked
    <3> QED
      BY <1>5, <1>8, <2>2, <2>3, <3>1, <3>2, <3>3 DEF WaitersOK
  <2>4. CASE k # l
    <3>1. UnitOK(k)'
      BY <1>8, <1>11, <2>1, <2>4 DEF UnitOK
    <3>2. \A u \in W : ~InDown(u, k)
      BY <1>3, <1>7, <2>4 DEF WaitersOK, InDown
    <3>3. { u \in Blocked(sched') : InDown(u, k)' } = { u \in Blocked(sched) : InDown(u, k) }
      BY <1>7, <1>11, <3>2 DEF Blocked
    <3>4. (\E u \in Thread \ Blocked(sched) : InDown(u, k))
            => \E u \in Thread \ Blocked(sched') : InDown(u, k)'
      BY <1>7, <1>11
    <3>5. WaitersOK(k)'
      BY <1>8, <2>1, <2>4, <3>3, <3>4 DEF WaitersOK
    <3> QED
      BY <2>2, <3>1, <3>5
  <2> QED
    BY <2>3, <2>4
<1>13. LocksOK'
  BY <1>12 DEF LocksOK
<1>14. /\ holder' \in [Lock -> Thread \union {None}]
       /\ holder_priority' \in [Lock -> Priority]
  BY <1>1, <1>2 DEF Types
<1>15. x \in PC /\ x # "donate" /\ x \in IdlePc
  BY DEF PC, IdlePc
<1> HIDE DEF list, x
<1> QED
  BY <1>1, <1>6, <1>8, <1>9, <1>10, <1>13, <1>14, <1>15, OwnerStep DEF a

-------------------------------------------------------------------------------
(***************************************************************************)
(* thread_set_priority, the devices, the timer and the idle thread.        *)
(***************************************************************************)
LEMMA SetPriorityKeeps ==
  ASSUME IInv, NEW t \in Thread, NEW new \in NewPriority[t], SetPriority(t, new)
  PROVE  IInv'
<1> DEFINE x == "set_yield"
           a == None
           list == owning_locks[t]
           l == list[Len(list)]
           w == Head(sema[l].waiters)
           p == sched.priority[w]
<1>1. /\ At(t, "run") /\ pc' = [pc EXCEPT ![t] = x] /\ list # << >>
      /\ \A k \in ToSet(list) : sema[k].waiters # << >>
      /\ sched' = [sched EXCEPT !.priority[t] = p]
      /\ holder_priority' = [k \in Lock |-> IF k \in ToSet(list) THEN new
                                            ELSE holder_priority[k]]
      /\ UNCHANGED <<sema, holder, owning_locks, lists, arg, donating, fault>>
  BY DEF SetPriority, Goto, Last
<1>2. /\ pc[t] = "run" /\ SchedSound(sched) /\ Types /\ Linked /\ Place(t)
      /\ \A u \in Thread : sched.priority[u] \in Priority
  BY <1>1, AtFacts
<1>3. list \in Seq(Lock) /\ arg' = [arg EXCEPT ![t] = arg[t]]
  BY <1>1, <1>2, OwnList
<1>4. l \in Lock /\ l \in ToSet(list)
  <2>1. Len(list) \in Nat /\ Len(list) # 0 /\ DOMAIN list = 1 .. Len(list)
    BY <1>1, <1>3, EmptySeq, LenProperties
  <2>2. Len(list) \in DOMAIN list
    BY <2>1
  <2> QED
    BY <1>3, <2>1, <2>2, ElementOfSeq DEF ToSet
<1>5. p \in Priority
  <2> HIDE DEF l, list
  <2>1. sema[l].waiters \in Seq(Thread) /\ sema[l].waiters # << >>
    BY <1>1, <1>2, <1>4 DEF Types, SemaState
  <2> QED
    BY <1>2, <2>1, HeadTailProperties
<1>6. arg[t] = None
  BY <1>2 DEF Place, IdlePc
<1>7. new \in Priority
  BY LocksAssumption
<1>8. holder_priority' \in [Lock -> Priority]
  BY <1>1, <1>2, <1>7 DEF Types
<1>9. SchedSound(sched') /\ Blocked(sched') = Blocked(sched)
  <2> HIDE DEF p
  <2> QED
    BY <1>1, <1>2, <1>5, PrioritySet
<1>10. /\ x \in CalmPc /\ x \in IdlePc /\ x # "donate" /\ pc[t] \in CalmPc
       /\ a \in Lock \union {None} /\ a \notin ToSet(owning_locks[t])
       /\ arg' = [arg EXCEPT ![t] = a]
  BY <1>2, <1>3, <1>6 DEF CalmPc, IdlePc, Place
<1>11. /\ link' \in [Thread \union Lock -> Thread \union Lock \union {None}]
       /\ last' \in [Thread -> Thread \union Lock]
       /\ donating' \in [Thread -> Seq([thread : Thread, at : Thread \union Lock])]
       /\ \A u \in Thread \ {t} : donating'[u] = donating[u]
       /\ Linked'
  BY <1>1, <1>2 DEF Types, Linked, lists
<1>12. a = None
  OBVIOUS
<1> HIDE DEF x, a, list, l, w, p
<1> QED
  BY <1>1, <1>8, <1>9, <1>10, <1>11, <1>12, CalmStep

LEMMA SetYieldKeeps ==
  ASSUME IInv, NEW t \in Thread, SetYield(t)
  PROVE  IInv'
<1> DEFINE x == "run"
           a == None
<1>1. /\ At(t, "set_yield") /\ pc' = [pc EXCEPT ![t] = x]
      /\ sched' = ThreadYield(sched) \/ sched' = sched
      /\ UNCHANGED <<sema, holder, holder_priority, owning_locks, lists, arg, donating,
                     fault>>
  BY DEF SetYield, Goto
<1>2. pc[t] = "set_yield" /\ SchedSound(sched) /\ Types /\ Linked /\ Place(t)
  BY <1>1, AtFacts
<1>3. SchedSound(sched') /\ Blocked(sched') = Blocked(sched)
  BY <1>1, <1>2, YieldSound
<1>4. arg[t] = None /\ arg' = [arg EXCEPT ![t] = arg[t]]
  BY <1>1, <1>2, OwnList DEF Place, IdlePc
<1>5. /\ x \in CalmPc /\ x \in IdlePc /\ x # "donate" /\ pc[t] \in CalmPc
      /\ a \in Lock \union {None} /\ a \notin ToSet(owning_locks[t])
      /\ arg' = [arg EXCEPT ![t] = a]
  BY <1>2, <1>4 DEF CalmPc, IdlePc, Place
<1>6. /\ link' \in [Thread \union Lock -> Thread \union Lock \union {None}]
      /\ last' \in [Thread -> Thread \union Lock]
      /\ donating' \in [Thread -> Seq([thread : Thread, at : Thread \union Lock])]
      /\ \A u \in Thread \ {t} : donating'[u] = donating[u]
      /\ holder_priority' \in [Lock -> Priority]
      /\ Linked'
  BY <1>1, <1>2 DEF Types, Linked, lists
<1>7. a = None
  OBVIOUS
<1> HIDE DEF x, a
<1> QED
  BY <1>1, <1>3, <1>5, <1>6, <1>7, CalmStep

LEMMA RestKeeps ==
  ASSUME IInv, NEW t \in Thread, Rest(t)
  PROVE  IInv'
<1>1. At(t, "run") /\ sched' = ThreadBlock(sched) /\ OthersUnchanged
  BY DEF Rest
<1>2. sched.cur = t /\ pc[t] = "run" /\ SchedSound(sched) /\ Types
  BY <1>1, AtFacts
<1>3. SchedSound(sched') /\ Blocked(sched') = Blocked(sched) \union {t}
  BY <1>1, <1>2, BlockSound
<1> QED
  BY <1>1, <1>2, <1>3, SchedStep DEF OthersUnchanged, Types

LEMMA DeviceInterruptKeeps ==
  ASSUME IInv, NEW t \in Thread, DeviceInterrupt(t)
  PROVE  IInv'
<1> DEFINE r == ThreadUnblock(sched, t)
<1>1. /\ sched.status[t] = "BLOCKED" /\ pc[t] = "run"
      /\ sched' \in Interrupted(r) /\ OthersUnchanged
  BY DEF DeviceInterrupt
<1>2. SchedSound(sched) /\ Types /\ t \in Blocked(sched)
  BY <1>1 DEF IInv, Blocked
<1>3. SchedSound(r) /\ Blocked(r) = Blocked(sched) \ {t}
  BY <1>2, UnblockSound
<1> HIDE DEF r
<1>4. SchedSound(sched') /\ Blocked(sched') = Blocked(r)
  BY <1>1, <1>3, InterruptedSound
<1> QED
  BY <1>1, <1>2, <1>3, <1>4, SchedStep DEF OthersUnchanged, Types

LEMMA TimerInterruptKeeps ==
  ASSUME IInv, TimerInterrupt
  PROVE  IInv'
<1>1. sched' \in Interrupted(sched) /\ OthersUnchanged /\ SchedSound(sched) /\ Types
  BY DEF TimerInterrupt, IInv
<1>2. SchedSound(sched') /\ Blocked(sched') = Blocked(sched)
  BY <1>1, InterruptedSound
<1> QED
  BY <1>1, <1>2, SchedStep DEF OthersUnchanged, Types

LEMMA IdleBlockKeeps ==
  ASSUME IInv, IdleBlock
  PROVE  IInv'
<1>1. /\ sched.cur = Idle /\ sched' = ThreadBlock(sched) /\ OthersUnchanged
      /\ SchedSound(sched) /\ Types
  BY DEF IdleBlock, IInv
<1>2. SchedSound(sched') /\ Blocked(sched') = Blocked(sched)
  BY <1>1, BlockSound, ThreadsAssumption
<1> QED
  BY <1>1, <1>2, SchedStep DEF OthersUnchanged, Types

-------------------------------------------------------------------------------
(***************************************************************************)
(* The invariant, and what it means.                                       *)
(***************************************************************************)
LEMMA ThreadStepKeeps ==
  ASSUME IInv, NEW t \in Thread, ThreadStep(t)
  PROVE  IInv'
<1>1. ASSUME NEW l \in Lock, Acquire(t, l) PROVE IInv'
  BY <1>1, AcquireKeeps
<1>2. CASE AcqCompare(t)
  BY <1>2, AcqCompareKeeps
<1>3. CASE AcqAssign(t)
  BY <1>3, AcqAssignKeeps
<1>4. CASE AcqNoHolder(t) \/ AcqDonateAssert(t) \/ DonateFault(t) \/ SetPriorityAssert(t)
  BY <1>4, FaultsKeep
<1>5. CASE AcqDonate(t)
  BY <1>5, AcqDonateKeeps
<1>6. CASE DonateReturn(t)
  BY <1>6, DonateReturnKeeps
<1>7. CASE DonateOn(t)
  BY <1>7, DonateOnKeeps
<1>8. CASE AcqDown(t)
  <2>1. PICK l \in Lock : arg[t] = l
    <3>1. At(t, "acq_down") \/ At(t, "down")
      BY <1>8 DEF AcqDown
    <3> QED
      BY <3>1, AtFacts DEF IdlePc
  <2>2. CASE MustWait(sema[l])
    BY <1>8, <2>1, <2>2, AcqDownWaits
  <2>3. CASE ~MustWait(sema[l])
    BY <1>8, <2>1, <2>3, AcqDownTakes
  <2> QED
    BY <2>2, <2>3
<1>9. CASE AcqHolder(t) \/ AcqSave(t) \/ RelDonated(t) \/ RelHolder(t) \/ RelUp(t)
  <2>1. PICK l \in Lock : arg[t] = l
    <3>1. At(t, "acq_holder") \/ At(t, "acq_save") \/ At(t, "rel_donated")
          \/ At(t, "rel_holder") \/ At(t, "rel_up")
      BY <1>9 DEF AcqHolder, AcqSave, RelDonated, RelHolder, RelUp
    <3> QED
      BY <3>1, AtFacts DEF IdlePc
  <2> QED
    BY <1>9, <2>1, AcqHolderKeeps, AcqSaveKeeps, RelDonatedKeeps, RelHolderKeeps,
       RelUpKeeps
<1>10. ASSUME NEW l \in Lock, Release(t, l) PROVE IInv'
  BY <1>10, ReleaseKeeps
<1>11. ASSUME NEW new \in NewPriority[t], SetPriority(t, new) PROVE IInv'
  BY <1>11, SetPriorityKeeps
<1>12. CASE SetYield(t)
  BY <1>12, SetYieldKeeps
<1>13. CASE Rest(t)
  BY <1>13, RestKeeps
<1> QED
  BY <1>1, <1>2, <1>3, <1>4, <1>5, <1>6, <1>7, <1>8, <1>9, <1>10, <1>11, <1>12, <1>13
     DEF ThreadStep

LEMMA NextKeepsIInv == IInv /\ [Next]_vars => IInv'
<1> SUFFICES ASSUME IInv, [Next]_vars PROVE IInv'
  OBVIOUS
<1>1. ASSUME NEW t \in Thread, ThreadStep(t) PROVE IInv'
  BY <1>1, ThreadStepKeeps
<1>2. ASSUME NEW t \in Thread, DeviceInterrupt(t) PROVE IInv'
  BY <1>2, DeviceInterruptKeeps
<1>3. CASE TimerInterrupt
  BY <1>3, TimerInterruptKeeps
<1>4. CASE IdleBlock
  BY <1>4, IdleBlockKeeps
<1>5. CASE UNCHANGED vars
  <2>1. /\ SchedSound(sched') /\ fault' \in Fault
        /\ UNCHANGED <<sched, sema, holder, holder_priority, owning_locks, lists, pc, arg,
                       donating>>
    BY <1>5 DEF vars, lists, IInv, Types
  <2> QED
    BY <2>1, SchedStep
<1> QED
  BY <1>1, <1>2, <1>3, <1>4, <1>5 DEF Next

\* "A lock can be held by at most a single thread at any given time"
\* (lock_init in threads/synch.c), at every statement of lock_acquire and
\* lock_release, for any number of threads and locks: the unit of the semaphore
\* and the owners add up to one, and `holder' names the owner or nobody.
THEOREM LockHasOneOwner == Spec => []OneOwner
<1>1. IInv => OneOwner
  BY IInvMeans
<1> QED
  BY <1>1, InitIInv, NextKeepsIInv, PTL DEF Spec

\* lock_acquire and lock_release lose no wakeup: the waiters of a lock are the
\* threads BLOCKED in its sema_down, and as long as the lock is free and has
\* waiters, one that lock_release woke is on its way.
THEOREM LockWaitersAreWoken == Spec => []NoLostWakeup
<1>1. IInv => NoLostWakeup
  BY IInvMeans
<1> QED
  BY <1>1, InitIInv, NextKeepsIInv, PTL DEF Spec

================================================================================
