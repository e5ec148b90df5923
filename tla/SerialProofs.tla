------------------------------ MODULE SerialProofs ------------------------------
(***************************************************************************)
(* For any number of processes, any size of the queues and any length of   *)
(* messages: nobody sleeps without somebody to wake him, one process at a  *)
(* time writes, and both queues are first in, first out.                   *)
(***************************************************************************)
EXTENDS Serial, SequenceTheorems, FiniteSetTheorems, TLAPS

(***************************************************************************)
(* The lists of waiters.                                                   *)
(***************************************************************************)
In(u, list) == \E i \in DOMAIN list : list[i] = u

OnceEach(list) == \A i, j \in DOMAIN list : list[i] = list[j] => i = j

LockState == [value : 0 .. 1, waiters : Seq(Process)]

\* Append and Tail, and who is on the list.
LEMMA AppendIn ==
  ASSUME NEW list \in Seq(Process), NEW t \in Process
  PROVE  LET new == Append(list, t)
         IN  /\ new \in Seq(Process) /\ new # << >>
             /\ \A u : In(u, new) <=> In(u, list) \/ u = t
             /\ OnceEach(list) /\ ~In(t, list) => OnceEach(new)
<1> DEFINE new == Append(list, t)
           n == Len(list)
<1>1. n \in Nat /\ DOMAIN list = 1 .. n
  BY LenProperties
<1>2. /\ new \in Seq(Process) /\ new # << >> /\ DOMAIN new = 1 .. n + 1
      /\ \A i \in 1 .. n : new[i] = list[i]
      /\ new[n + 1] = t
  BY AppendProperties, LenProperties
<1> HIDE DEF new, n
<1>3. \A i \in 1 .. n + 1 : i = n + 1 \/ i \in 1 .. n
  BY <1>1
<1>4. 1 .. n \subseteq 1 .. n + 1 /\ n + 1 \in 1 .. n + 1
  BY <1>1
<1>5. \A u : In(u, new) <=> In(u, list) \/ u = t
  BY <1>1, <1>2, <1>3, <1>4 DEF In
<1>6. OnceEach(list) /\ ~In(t, list) => OnceEach(new)
  BY <1>1, <1>2, <1>3, <1>4 DEF In, OnceEach
<1> QED
  BY <1>2, <1>5, <1>6 DEF new

LEMMA TailIn ==
  ASSUME NEW list \in Seq(Process), list # << >>
  PROVE  /\ Head(list) \in Process /\ In(Head(list), list)
         /\ Tail(list) \in Seq(Process)
         /\ \A u : In(u, Tail(list)) => In(u, list)
         /\ OnceEach(list) => OnceEach(Tail(list)) /\ ~In(Head(list), Tail(list))
<1> DEFINE n == Len(list)
           rest == Tail(list)
<1>1. /\ n \in Nat /\ n >= 1 /\ DOMAIN list = 1 .. n
      /\ Head(list) = list[1] /\ Head(list) \in Process
  BY LenProperties, EmptySeq, HeadTailProperties
<1>2. /\ rest \in Seq(Process) /\ DOMAIN rest = 1 .. n - 1
      /\ \A k \in 1 .. n - 1 : rest[k] = list[k + 1]
  BY <1>1, HeadTailProperties, LenProperties
<1> HIDE DEF n, rest
<1>3. \A k \in 1 .. n - 1 : k + 1 \in 1 .. n /\ k + 1 # 1
  BY <1>1
<1>4. 1 \in 1 .. n
  BY <1>1
<1>5. \A u : In(u, rest) => In(u, list)
  <2>1. ASSUME NEW u, NEW k \in 1 .. n - 1, rest[k] = u
        PROVE  \E m \in 1 .. n : list[m] = u
    BY <1>2, <1>3, <2>1
  <2> QED
    BY <1>1, <1>2, <2>1 DEF In
<1>6. OnceEach(list) => ~In(list[1], rest)
  <2>1. ASSUME OnceEach(list), NEW k \in 1 .. n - 1, rest[k] = list[1]
        PROVE  FALSE
    <3>1. k + 1 \in 1 .. n /\ k + 1 # 1 /\ list[k + 1] = list[1]
      BY <1>2, <1>3, <2>1
    <3> QED
      BY <1>1, <1>4, <2>1, <3>1 DEF OnceEach
  <2> QED
    BY <1>2, <2>1 DEF In
<1>7. ASSUME OnceEach(list), NEW j \in 1 .. n - 1, NEW k \in 1 .. n - 1, rest[j] = rest[k]
      PROVE  j = k
  <2>1. j + 1 \in 1 .. n /\ k + 1 \in 1 .. n /\ list[j + 1] = list[k + 1]
    BY <1>2, <1>3, <1>7
  <2>2. j + 1 = k + 1
    BY <1>1, <1>7, <2>1 DEF OnceEach
  <2> QED
    BY <2>2
<1>8. OnceEach(list) => OnceEach(rest)
  BY <1>2, <1>7 DEF OnceEach
<1>9. In(list[1], list)
  BY <1>1, <1>4 DEF In
<1> QED
  BY <1>1, <1>2, <1>5, <1>6, <1>8, <1>9 DEF rest

LEMMA DownedLock ==
  ASSUME NEW l \in LockState
  PROVE  Downed(l) \in LockState /\ Downed(l).value = 0 /\ Downed(l).waiters = l.waiters
BY DEF Downed, LockState

LEMMA QueuedLock ==
  ASSUME NEW l \in LockState, NEW t \in Process
  PROVE  /\ Queued(l, t) \in LockState
         /\ Queued(l, t).value = l.value /\ Queued(l, t).waiters # << >>
         /\ \A u : In(u, Queued(l, t).waiters) <=> In(u, l.waiters) \/ u = t
         /\ OnceEach(l.waiters) /\ ~In(t, l.waiters) => OnceEach(Queued(l, t).waiters)
<1> DEFINE new == Append(l.waiters, t)
<1>1. l.waiters \in Seq(Process) /\ l.value \in 0 .. 1
  BY DEF LockState
<1>2. /\ new \in Seq(Process) /\ new # << >>
      /\ \A u : In(u, new) <=> In(u, l.waiters) \/ u = t
      /\ OnceEach(l.waiters) /\ ~In(t, l.waiters) => OnceEach(new)
  BY <1>1, AppendIn
<1>3. Queued(l, t) = [l EXCEPT !.waiters = new]
  BY DEF Queued
<1> HIDE DEF new
<1>4. Queued(l, t) = [value |-> l.value, waiters |-> new]
  BY <1>3 DEF LockState
<1> QED
  BY <1>1, <1>2, <1>4 DEF LockState

LEMMA UppedLock ==
  ASSUME NEW l \in LockState
  PROVE  /\ Upped(l) \in LockState /\ Upped(l).value = 1
         /\ \A u : In(u, Upped(l).waiters) => In(u, l.waiters)
         /\ OnceEach(l.waiters) => OnceEach(Upped(l).waiters)
         /\ Upped(l).waiters # << >> /\ OnceEach(l.waiters) =>
              \E u \in Process : In(u, l.waiters) /\ ~In(u, Upped(l).waiters)
<1>1. l.waiters \in Seq(Process)
  BY DEF LockState
<1>2. CASE l.waiters = << >>
  <2>1. Upped(l) = [value |-> 1, waiters |-> << >>]
    BY <1>2 DEF Upped
  <2> QED
    BY <1>2, <2>1 DEF LockState, In, OnceEach
<1>3. CASE l.waiters # << >>
  <2> DEFINE rest == Tail(l.waiters)
  <2>1. Upped(l) = [value |-> 1, waiters |-> rest]
    BY <1>3 DEF Upped
  <2>2. /\ Head(l.waiters) \in Process /\ In(Head(l.waiters), l.waiters)
        /\ rest \in Seq(Process)
        /\ \A u : In(u, rest) => In(u, l.waiters)
        /\ OnceEach(l.waiters) => OnceEach(rest) /\ ~In(Head(l.waiters), rest)
    BY <1>1, <1>3, TailIn
  <2> HIDE DEF rest
  <2> QED
    BY <2>1, <2>2 DEF LockState
<1> QED
  BY <1>2, <1>3

---------------------------------------------------------------------------------
(***************************************************************************)
(* The places of a queue.                                                  *)
(***************************************************************************)
N == INTQ_BUFSIZE

LEMMA FollowingPosition ==
  ASSUME NEW i \in Position
  PROVE  /\ Following(i) \in Position /\ Following(i) # i
         /\ Following(i) = IF i = N - 1 THEN 0 ELSE i + 1
<1>1. N \in Nat \ {0, 1} /\ i \in 0 .. N - 1 /\ Following(i) = (i + 1) % N
  BY IntQAssumption DEF N, Position, Following
<1> HIDE DEF N
<1>2. i # N - 1 => (i + 1) % N = i + 1
  BY <1>1
<1>3. i = N - 1 => (i + 1) % N = 0
  BY <1>1
<1> QED
  BY <1>1, <1>2, <1>3 DEF Position, N

LEMMA UnreadIsByte == Unread \in Byte
BY IntQAssumption DEF Unread

LEMMA QueueTypes ==
  ASSUME NEW r \in IntqState
  PROVE  /\ Taken(r) \in IntqState
         /\ \A b \in Byte : Added(r, b) \in IntqState
         /\ Oldest(r) \in Byte
         /\ Full(r) => ~Empty(r)
<1>1. /\ r.buf \in [Position -> Byte] /\ r.head \in Position /\ r.tail \in Position
      /\ Following(r.head) \in Position /\ Following(r.tail) \in Position
  BY FollowingPosition DEF IntqState
<1>2. Taken(r) \in IntqState
  BY <1>1, UnreadIsByte DEF Taken, IntqState
<1>3. \A b \in Byte : Added(r, b) \in IntqState
  BY <1>1 DEF Added, IntqState
<1>4. Full(r) => ~Empty(r)
  BY <1>1, FollowingPosition DEF Full, Empty
<1> QED
  BY <1>1, <1>2, <1>3, <1>4 DEF Oldest


---------------------------------------------------------------------------------
(***************************************************************************)
(* The inductive invariant.  Whoever waits is on one list, that of his     *)
(* place in the code; the lock of a queue belongs to the process that is   *)
(* in `wait', and console_lock to the writer, wherever he is.              *)
(***************************************************************************)
Inside(u, pc, k) == proc[u].pc = pc /\ proc[u].on = k

Writer(u) == \/ proc[u].pc = "have"
             \/ proc[u].pc \in {"wait", "lock"} /\ proc[u].on = "txq"

Places ==
  \A u \in Process : proc[u].pc \in {"wait", "lock"} =>
    /\ proc[u].on \in Queue
    /\ proc[u].on = "txq" => proc[u].byte \in Byte /\ proc[u].left > 0

Lists ==
  /\ \A k \in Queue :
       /\ OnceEach(lock[k].waiters)
       /\ \A u \in Process : In(u, lock[k].waiters) => Inside(u, "lock", k)
       /\ waiter[k] # None => Inside(waiter[k], "wait", k) /\ MustWait(k)
  /\ \A u \in Process : In(u, lock["console"].waiters) => proc[u].pc = "console"

Holders ==
  \A k \in Queue :
    /\ lock[k].value = 0 <=> \E t \in Process : Inside(t, "wait", k)
    /\ \A t, u \in Process : Inside(t, "wait", k) /\ Inside(u, "wait", k) => t = u
    /\ lock[k].waiters # << >> =>
         \/ lock[k].value = 0
         \/ \E t \in Process : Inside(t, "lock", k) /\ ~Asleep(t)

Console ==
  /\ lock["console"].value = 0 <=> \E t \in Process : Writer(t)
  /\ \A t, u \in Process : Writer(t) /\ Writer(u) => t = u

Ier ==
  /\ uart.recv = ~Full(q["buffer"])
  /\ Alive => uart.xmit = ~Empty(q["txq"])

IInv == TypeOK /\ Places /\ Lists /\ Holders /\ Console /\ Ier

ProcState == [pc : PC, on : Queue \union {None}, byte : Byte \union {None},
              left : 0 .. MessageLength]

UartState == [rbr : Byte \union {None}, thr : Byte \union {None},
              recv : BOOLEAN, xmit : BOOLEAN]

LEMMA Types ==
  TypeOK <=>
  /\ q \in [Queue -> IntqState]
  /\ lock \in [Lock -> LockState]
  /\ waiter \in [Queue -> Process \union {None}]
  /\ proc \in [Process -> ProcState]
  /\ uart \in UartState
  /\ stopped \in {"no", "ASSERT", "off"}
  /\ count \in 0 .. Unexpected
BY DEF TypeOK, LockState, ProcState, UartState

LEMMA TypesNext ==
  TypeOK' <=>
  /\ q' \in [Queue -> IntqState]
  /\ lock' \in [Lock -> LockState]
  /\ waiter' \in [Queue -> Process \union {None}]
  /\ proc' \in [Process -> ProcState]
  /\ uart' \in UartState
  /\ stopped' \in {"no", "ASSERT", "off"}
  /\ count' \in 0 .. Unexpected
BY DEF TypeOK, LockState, ProcState, UartState

\* A process that waits sees what NoLostWakeup says; at most one writes.
LEMMA IInvMeans == IInv => NoLostWakeup /\ OneWriter
<1> SUFFICES ASSUME IInv PROVE NoLostWakeup /\ OneWriter
  OBVIOUS
<1>1. q["txq"] \in IntqState /\ waiter \in [Queue -> Process \union {None}]
  BY Types DEF IInv, Queue
<1>2. MustWait("txq") => ~Empty(q["txq"])
  BY <1>1, QueueTypes DEF MustWait
<1>7. Alive /\ MustWait("txq") => uart.xmit
  BY <1>2 DEF IInv, Ier
<1>8. \A k \in Queue : waiter[k] # None /\ Alive =>
        /\ proc[waiter[k]].pc = "wait" /\ proc[waiter[k]].on = k
        /\ MustWait(k)
        /\ k = "txq" => uart.xmit
  BY <1>7 DEF IInv, Lists, Inside
<1>9. \A k \in Queue :
        /\ lock[k].value = 0 <=> \E t \in Process : proc[t].pc = "wait" /\ proc[t].on = k
        /\ lock[k].waiters # << >> =>
             \/ lock[k].value = 0
             \/ \E t \in Process : proc[t].pc = "lock" /\ proc[t].on = k /\ ~Asleep(t)
  BY DEF IInv, Holders, Inside
<1>3. NoLostWakeup
  BY <1>8, <1>9 DEF IInv, Ier, NoLostWakeup
<1> DEFINE W == { t \in Process : Writer(t) }
<1>4. \A t, u \in W : t = u
  BY DEF IInv, Console
<1>5. Cardinality(W) <= 1
  <2>1. CASE W = {}
    BY <2>1, FS_EmptySet
  <2>2. ASSUME NEW t \in W PROVE Cardinality(W) <= 1
    <3>1. W = {t}
      BY <1>4, <2>2
    <3> HIDE DEF W
    <3>2. Cardinality(W) = 1
      BY <3>1, FS_Singleton
    <3> QED
      BY <3>2
  <2> QED
    BY <2>1, <2>2
<1>6. OneWriter
  BY <1>5 DEF OneWriter, Writer
<1> QED
  BY <1>3, <1>6

LEMMA InitIInv == Init => IInv
<1> SUFFICES ASSUME Init PROVE IInv
  OBVIOUS
<1>1. /\ IntqInit \in IntqState /\ Empty(IntqInit) /\ ~Full(IntqInit)
  <2>1. 0 \in Position
    BY IntQAssumption DEF Position
  <2>2. IntqInit \in IntqState
    BY <2>1, UnreadIsByte DEF IntqInit, IntqState
  <2>3. IntqInit.head = 0 /\ IntqInit.tail = 0
    BY DEF IntqInit
  <2> QED
    BY <2>1, <2>2, <2>3, FollowingPosition DEF Empty, Full
<1>2. /\ "buffer" \in Queue /\ "txq" \in Queue /\ Queue \subseteq Lock /\ "console" \in Lock
  BY DEF Queue, Lock
<1>3. \A k \in Queue : q[k] = IntqInit
  BY DEF Init
<1>4. \A l \in Lock : lock[l].value = 1 /\ lock[l].waiters = << >> /\ lock[l] \in LockState
  BY DEF Init, LockState
<1>5. \A t \in Process : /\ proc[t].pc = "run" /\ proc[t] \in ProcState
  <2>1. MessageLength \in Nat
    BY SerialAssumption
  <2> QED
    BY <2>1 DEF Init, ProcState, PC
<1>6. TypeOK
  <2>1. uart \in UartState
    BY DEF Init, UartState
  <2>2. count \in 0 .. Unexpected
    BY SerialAssumption DEF Init
  <2> QED
    BY <1>1, <1>4, <1>5, <2>1, <2>2, Types DEF Init
<1>7. \A l \in Lock : OnceEach(lock[l].waiters) /\ \A u : ~In(u, lock[l].waiters)
  BY <1>4 DEF OnceEach, In
<1>8. Lists
  BY <1>2, <1>7 DEF Init, Lists
<1>9. Places /\ Holders /\ Console
  BY <1>2, <1>4, <1>5 DEF Places, Holders, Console, Inside, Writer
<1>10. Ier
  BY <1>1, <1>2, <1>3 DEF Init, Ier
<1> QED
  BY <1>6, <1>8, <1>9, <1>10 DEF IInv

---------------------------------------------------------------------------------
(***************************************************************************)
(* A process in intq_getc or intq_putc, when it comes to the test of the   *)
(* loop: `locks' is what it leaves of the locks, and what remains of the   *)
(* invariant is about the others.                                          *)
(***************************************************************************)
AsleepIn(u, locks) ==
  \/ \E k \in Queue : waiter[k] = u
  \/ \E l \in Lock : In(u, locks[l].waiters)

OthersOK(t, locks) ==
  /\ locks \in [Lock -> LockState]
  /\ locks["console"] = lock["console"]
  /\ \A k \in Queue :
       /\ OnceEach(locks[k].waiters)
       /\ \A u \in Process : In(u, locks[k].waiters) => u # t /\ Inside(u, "lock", k)
       /\ waiter[k] # None => waiter[k] # t /\ Inside(waiter[k], "wait", k) /\ MustWait(k)
       /\ locks[k].value = 0 <=> \E u \in Process \ {t} : Inside(u, "wait", k)
  /\ \A u \in Process : In(u, locks["console"].waiters) => u # t /\ proc[u].pc = "console"

WokenOK(t, locks, k) ==
  locks[k].waiters # << >> =>
    \/ locks[k].value = 0
    \/ \E u \in Process \ {t} : Inside(u, "lock", k) /\ ~AsleepIn(u, locks)

\* One process goes on, and is a writer then if it was one.
LEMMA WritersKept ==
  ASSUME IInv, NEW t \in Process, NEW new,
         proc' = [proc EXCEPT ![t] = new],
         Writer(t)' <=> Writer(t), lock'["console"] = lock["console"]
  PROVE  Console'
<1>1. proc \in [Process -> ProcState]
  BY Types DEF IInv
<1>2. \A u \in Process : u # t => proc'[u] = proc[u]
  BY <1>1
<1>3. \A u \in Process : Writer(u)' <=> Writer(u)
  BY <1>2 DEF Writer
<1> QED
  BY <1>3 DEF IInv, Console

\* The assignments to a process, as records.
LEMMA ProcMoved ==
  ASSUME NEW p \in ProcState, NEW x, NEW w
  PROVE  [p EXCEPT !.pc = x, !.left = w] =
           [pc |-> x, on |-> p.on, byte |-> p.byte, left |-> w]
<1>1. PICK p1 \in PC, p2 \in Queue \union {None}, p3 \in Byte \union {None},
           p4 \in 0 .. MessageLength :
        p = [pc |-> p1, on |-> p2, byte |-> p3, left |-> p4]
  BY DEF ProcState
<1> DEFINE r1 == [p EXCEPT !.pc = x]
<1>2. r1 = [pc |-> x, on |-> p2, byte |-> p3, left |-> p4]
  BY <1>1
<1>3. [p EXCEPT !.pc = x, !.left = w] = [r1 EXCEPT !.left = w]
  OBVIOUS
<1>4. p.on = p2 /\ p.byte = p3
  BY <1>1
<1> HIDE DEF r1
<1>5. [r1 EXCEPT !.left = w] = [pc |-> x, on |-> p2, byte |-> p3, left |-> w]
  BY <1>2
<1> QED
  BY <1>3, <1>4, <1>5

LEMMA ProcPlaced ==
  ASSUME NEW p \in ProcState, NEW x, NEW y, NEW z
  PROVE  [p EXCEPT !.pc = x, !.on = y, !.byte = z] =
           [pc |-> x, on |-> y, byte |-> z, left |-> p.left]
<1>1. PICK p1 \in PC, p2 \in Queue \union {None}, p3 \in Byte \union {None},
           p4 \in 0 .. MessageLength :
        p = [pc |-> p1, on |-> p2, byte |-> p3, left |-> p4]
  BY DEF ProcState
<1> DEFINE r1 == [p EXCEPT !.pc = x]
           r2 == [r1 EXCEPT !.on = y]
<1>2. r1 = [pc |-> x, on |-> p2, byte |-> p3, left |-> p4]
  BY <1>1
<1>3. [p EXCEPT !.pc = x, !.on = y, !.byte = z] = [r2 EXCEPT !.byte = z]
  OBVIOUS
<1>4. p.left = p4
  BY <1>1
<1> HIDE DEF r1
<1>5. r2 = [pc |-> x, on |-> y, byte |-> p3, left |-> p4]
  BY <1>2
<1> HIDE DEF r2
<1>6. [r2 EXCEPT !.byte = z] = [pc |-> x, on |-> y, byte |-> z, left |-> p4]
  BY <1>5
<1> QED
  BY <1>3, <1>4, <1>6

LEMMA ProcReturned ==
  ASSUME NEW p \in ProcState, NEW x, NEW w
  PROVE  [p EXCEPT !.pc = x, !.on = None, !.byte = None, !.left = w] =
           [pc |-> x, on |-> None, byte |-> None, left |-> w]
<1> DEFINE r3 == [p EXCEPT !.pc = x, !.on = None, !.byte = None]
<1>1. r3 = [pc |-> x, on |-> None, byte |-> None, left |-> p.left]
  BY ProcPlaced
<1>2. [p EXCEPT !.pc = x, !.on = None, !.byte = None, !.left = w] = [r3 EXCEPT !.left = w]
  OBVIOUS
<1> HIDE DEF r3
<1>3. [r3 EXCEPT !.left = w] = [pc |-> x, on |-> None, byte |-> None, left |-> w]
  BY <1>1
<1> QED
  BY <1>2, <1>3

LEMMA SleepKeeps ==
  ASSUME IInv, NEW t \in Process, NEW k \in Queue, NEW b \in Byte \union {None},
         NEW locks, OthersOK(t, locks), \A j \in Queue \ {k} : WokenOK(t, locks, j),
         MustWait(k), k = "txq" <=> Writer(t),
         k = "txq" => b \in Byte /\ proc[t].left > 0,
         Sleep(t, k, b, locks)
  PROVE  IInv'
<1> DEFINE l == locks[k]
           place == IF Free(l) THEN "wait" ELSE "lock"
           new == [pc |-> place, on |-> k, byte |-> b, left |-> proc[t].left]
           nl == IF Free(l) THEN Downed(l) ELSE Queued(l, t)
<1>1. /\ q \in [Queue -> IntqState] /\ lock \in [Lock -> LockState]
      /\ waiter \in [Queue -> Process \union {None}]
      /\ proc \in [Process -> ProcState] /\ uart \in UartState
      /\ stopped \in {"no", "ASSERT", "off"} /\ count \in 0 .. Unexpected
  BY Types DEF IInv
<1>2. /\ locks \in [Lock -> LockState] /\ l \in LockState /\ k \in Lock
      /\ "console" \in Lock /\ k # "console" /\ Queue \subseteq Lock
      /\ None \notin Process /\ l.value \in 0 .. 1
  BY SerialAssumption DEF OthersOK, Queue, Lock, LockState
<1>3. /\ q' = q /\ uart' = uart /\ stopped' = stopped /\ count' = count
      /\ lock' = [locks EXCEPT ![k] = nl]
      /\ waiter' = IF Free(l) THEN [waiter EXCEPT ![k] = t] ELSE waiter
  BY DEF Sleep
<1>4. proc' = [proc EXCEPT ![t] = new]
  <2>1. proc[t] \in ProcState
    BY <1>1
  <2> HIDE DEF place
  <2>2. [proc[t] EXCEPT !.pc = place, !.on = k, !.byte = b] = new
    <3> DEFINE p == proc[t]
    <3>1. p \in ProcState
      BY <2>1
    <3> HIDE DEF p
    <3>2. [p EXCEPT !.pc = place, !.on = k, !.byte = b] =
            [pc |-> place, on |-> k, byte |-> b, left |-> p.left]
      BY <3>1, ProcPlaced
    <3> QED
      BY <3>2 DEF p
  <2> QED
    BY <2>2 DEF Sleep, place
<1>5. /\ proc' \in [Process -> ProcState] /\ proc'[t] = new
      /\ \A u \in Process \ {t} : proc'[u] = proc[u]
  <2>1. new \in ProcState
    BY <1>1 DEF ProcState, PC
  <2> QED
    BY <1>1, <1>4, <2>1
<1>6. /\ Inside(t, place, k)' /\ place \in {"wait", "lock"} /\ (place = "wait" <=> Free(l))
      /\ \A u \in Process \ {t} : \A p, j : Inside(u, p, j)' <=> Inside(u, p, j)
      /\ \A p, j : Inside(t, p, j)' => p = place /\ j = k
  BY <1>5 DEF Inside
<1>7. /\ nl \in LockState /\ nl.value = 0
      /\ \A u : In(u, nl.waiters) <=> In(u, l.waiters) \/ (u = t /\ ~Free(l))
      /\ OnceEach(nl.waiters)
  <2>1. OnceEach(l.waiters) /\ ~In(t, l.waiters)
    BY DEF OthersOK
  <2>2. CASE Free(l)
    BY <1>2, <2>1, <2>2, DownedLock
  <2>3. CASE ~Free(l)
    <3>1. l.value = 0 /\ nl = Queued(l, t)
      BY <1>2, <2>3 DEF Free
    <3> HIDE DEF nl, l
    <3>2. /\ Queued(l, t) \in LockState /\ Queued(l, t).value = l.value
          /\ \A u : In(u, Queued(l, t).waiters) <=> In(u, l.waiters) \/ u = t
          /\ OnceEach(Queued(l, t).waiters)
      BY <1>2, <2>1, QueuedLock
    <3> QED
      BY <2>3, <3>1, <3>2
  <2> QED
    BY <2>2, <2>3
<1> HIDE DEF nl, new
<1>8. lock' \in [Lock -> LockState] /\ lock'[k] = nl /\ \A m \in Lock \ {k} : lock'[m] = locks[m]
  BY <1>2, <1>3, <1>7
<1>9. /\ waiter' \in [Queue -> Process \union {None}]
      /\ \A j \in Queue : waiter'[j] = IF Free(l) /\ j = k THEN t ELSE waiter[j]
  BY <1>1, <1>3
<1>10. TypeOK'
  BY <1>1, <1>3, <1>5, <1>8, <1>9, TypesNext
<1>11. Places'
  <2>1. \A u \in Process \ {t} : proc'[u].pc \in {"wait", "lock"} =>
          /\ proc'[u].on \in Queue
          /\ proc'[u].on = "txq" => proc'[u].byte \in Byte /\ proc'[u].left > 0
    BY <1>5 DEF IInv, Places
  <2>2. proc'[t].on = k /\ proc'[t].byte = b /\ proc'[t].left = proc[t].left
    BY <1>5 DEF new
  <2> QED
    BY <2>1, <2>2 DEF Places
<1>12. Console'
  <2>1. Writer(t)' <=> Writer(t)
    BY <1>6 DEF Writer, Inside
  <2>2. lock'["console"] = lock["console"]
    BY <1>2, <1>8 DEF OthersOK
  <2> QED
    BY <1>4, <2>1, <2>2, WritersKept
<1>13. Ier'
  BY <1>3 DEF IInv, Ier, Alive
<1>14. \A j \in Queue : MustWait(j)' <=> MustWait(j)
  BY <1>3 DEF MustWait
<1>15. Lists'
  <2>1. ASSUME NEW j \in Queue
        PROVE  /\ OnceEach(lock'[j].waiters)
               /\ \A u \in Process : In(u, lock'[j].waiters) => Inside(u, "lock", j)'
               /\ (waiter[j] # None => Inside(waiter[j], "wait", j) /\ MustWait(j))'
    <3>1. OnceEach(lock'[j].waiters)
      BY <1>2, <1>7, <1>8 DEF OthersOK
    <3>2. \A u \in Process : In(u, lock'[j].waiters) => Inside(u, "lock", j)'
      BY <1>2, <1>6, <1>7, <1>8 DEF OthersOK
    <3>3. waiter[j] # None =>
            waiter[j] \in Process \ {t} /\ Inside(waiter[j], "wait", j) /\ MustWait(j)
      BY <1>1 DEF OthersOK
    <3>4. (waiter[j] # None => Inside(waiter[j], "wait", j) /\ MustWait(j))'
      <4>1. CASE Free(l) /\ j = k
        <5>1. waiter'[j] = t /\ proc'[t].pc = "wait" /\ proc'[t].on = j /\ MustWait(j)'
          BY <1>6, <1>9, <1>14, <4>1 DEF Inside
        <5> QED
          BY <5>1 DEF Inside
      <4>2. CASE ~(Free(l) /\ j = k)
        <5>1. waiter'[j] = waiter[j]
          BY <1>9, <4>2
        <5> QED
          BY <1>5, <1>14, <3>3, <5>1 DEF Inside
      <4> QED
        BY <4>1, <4>2
    <3> QED
      BY <3>1, <3>2, <3>4
  <2>2. \A u \in Process : In(u, lock'["console"].waiters) => proc'[u].pc = "console"
    BY <1>2, <1>5, <1>8 DEF OthersOK
  <2> QED
    BY <2>1, <2>2 DEF Lists
<1>16. Holders'
  <2>1. ASSUME NEW j \in Queue
        PROVE  /\ lock'[j].value = 0 <=> \E u \in Process : Inside(u, "wait", j)'
               /\ \A u, v \in Process : Inside(u, "wait", j)' /\ Inside(v, "wait", j)' => u = v
               /\ lock'[j].waiters # << >> =>
                    \/ lock'[j].value = 0
                    \/ \E u \in Process : Inside(u, "lock", j)' /\ ~Asleep(u)'
    <3>1. CASE j = k
      <4>1. lock'[j].value = 0
        BY <1>7, <1>8, <3>1
      <4>2. l.value = 0 <=> \E u \in Process \ {t} : Inside(u, "wait", k)
        BY DEF OthersOK
      <4>3. CASE Free(l)
        <5>1. ~ \E u \in Process \ {t} : Inside(u, "wait", k)
          BY <4>2, <4>3 DEF Free
        <5> QED
          BY <1>6, <3>1, <4>1, <4>3, <5>1
      <4>4. CASE ~Free(l)
        <5>1. \E u \in Process \ {t} : Inside(u, "wait", k)
          BY <1>2, <4>2, <4>4 DEF Free
        <5>2. \A u, v \in Process \ {t} : Inside(u, "wait", k) /\ Inside(v, "wait", k) => u = v
          BY DEF IInv, Holders
        <5> QED
          BY <1>6, <3>1, <4>1, <4>4, <5>1, <5>2
      <4> QED
        BY <4>3, <4>4
    <3>2. CASE j # k
      <4>1. lock'[j] = locks[j]
        BY <1>2, <1>8, <3>2
      <4>2. locks[j].value = 0 <=> \E u \in Process \ {t} : Inside(u, "wait", j)
        BY DEF OthersOK
      <4>3. \A u, v \in Process \ {t} : Inside(u, "wait", j) /\ Inside(v, "wait", j) => u = v
        BY DEF IInv, Holders
      <4>4. \A u \in Process \ {t} : ~AsleepIn(u, locks) => ~Asleep(u)'
        <5> SUFFICES ASSUME NEW u \in Process \ {t}, ~AsleepIn(u, locks)
                     PROVE  ~Asleep(u)'
          OBVIOUS
        <5>1. \A i \in Queue : waiter'[i] # u
          BY <1>9 DEF AsleepIn
        <5>2. \A m \in Lock : ~In(u, lock'[m].waiters)
          BY <1>2, <1>7, <1>8 DEF AsleepIn
        <5> QED
          BY <5>1, <5>2 DEF Asleep, In
      <4>5. WokenOK(t, locks, j)
        BY <3>2
      <4>6. locks[j].waiters # << >> =>
              \/ locks[j].value = 0
              \/ \E u \in Process \ {t} : Inside(u, "lock", j) /\ ~Asleep(u)'
        BY <4>4, <4>5 DEF WokenOK
      <4> QED
        BY <1>6, <3>2, <4>1, <4>2, <4>3, <4>6
    <3> QED
      BY <3>1, <3>2
  <2> QED
    BY <2>1 DEF Holders
<1> QED
  BY <1>10, <1>11, <1>12, <1>13, <1>15, <1>16 DEF IInv

LEMMA WriteIerOK ==
  ASSUME NEW u \in UartState, NEW queues
  PROVE  LET v == WriteIer(u, queues)
         IN  /\ v \in UartState
             /\ v.recv = ~Full(queues["buffer"]) /\ v.xmit = ~Empty(queues["txq"])
             /\ v.thr = u.thr /\ v.rbr = u.rbr
<1> DEFINE b == ~Full(queues["buffer"])
           c == ~Empty(queues["txq"])
           v == [u EXCEPT !.recv = b, !.xmit = c]
<1>1. b \in BOOLEAN /\ c \in BOOLEAN
  OBVIOUS
<1> HIDE DEF b, c
<1>2. v \in UartState
  BY <1>1 DEF UartState
<1>3. v.recv = b /\ v.xmit = c /\ v.thr = u.thr /\ v.rbr = u.rbr
  BY DEF UartState
<1>4. WriteIer(u, queues) = v
  BY DEF WriteIer, b, c
<1> HIDE DEF v
<1> QED
  BY <1>2, <1>3, <1>4 DEF b, c

LEMMA MoveByteKeeps ==
  ASSUME IInv, NEW t \in Process, NEW k \in Queue, NEW b \in Byte \union {None},
         NEW locks, OthersOK(t, locks), \A j \in Queue : WokenOK(t, locks, j),
         ~MustWait(k), k = "txq" <=> Writer(t),
         k = "txq" => b \in Byte /\ proc[t].left > 0,
         MoveByte(t, k, b, locks)
  PROVE  IInv'
<1> DEFINE left == IF k = "buffer" THEN proc[t].left ELSE proc[t].left - 1
           place == IF k = "buffer" THEN "run" ELSE "have"
           new == [pc |-> place, on |-> None, byte |-> None, left |-> left]
           nq == IF k = "buffer" THEN Taken(q[k]) ELSE Added(q[k], b)
<1>1. /\ q \in [Queue -> IntqState] /\ lock \in [Lock -> LockState]
      /\ waiter \in [Queue -> Process \union {None}]
      /\ proc \in [Process -> ProcState] /\ uart \in UartState
      /\ stopped \in {"no", "ASSERT", "off"} /\ count \in 0 .. Unexpected
  BY Types DEF IInv
<1>2. /\ locks \in [Lock -> LockState] /\ "console" \in Lock /\ Queue \subseteq Lock
      /\ None \notin Process /\ k \in {"buffer", "txq"} /\ None \notin Byte
      /\ proc[t] \in ProcState /\ proc[t].left \in 0 .. MessageLength
      /\ MessageLength \in Nat
  BY <1>1, SerialAssumption DEF OthersOK, Queue, Lock, LockState, ProcState
<1>3. /\ q' = [q EXCEPT ![k] = nq] /\ uart' = WriteIer(uart, q')
      /\ waiter' = waiter /\ stopped' = stopped /\ count' = count /\ lock' = locks
  BY DEF MoveByte
<1>4. proc' = [proc EXCEPT ![t] = new]
  <2>1. Returned(proc[t], k) =
          [proc[t] EXCEPT !.pc = place, !.on = None, !.byte = None, !.left = left]
    BY <1>2 DEF Returned, ProcState
  <2> DEFINE p == proc[t]
  <2>2. p \in ProcState
    BY <1>2
  <2> HIDE DEF p, place, left
  <2>3. [p EXCEPT !.pc = place, !.on = None, !.byte = None, !.left = left]
            = [pc |-> place, on |-> None, byte |-> None, left |-> left]
    BY <2>2, ProcReturned
  <2> QED
    BY <2>1, <2>3 DEF MoveByte, p
<1>5. /\ proc' \in [Process -> ProcState] /\ proc'[t] = new
      /\ \A u \in Process \ {t} : proc'[u] = proc[u]
  <2>1. left \in 0 .. MessageLength /\ place \in PC
    BY <1>2 DEF PC
  <2>2. new \in ProcState
    BY <2>1 DEF ProcState
  <2> QED
    BY <1>1, <1>4, <2>2
<1>6. nq \in IntqState
  <2>1. q[k] \in IntqState
    BY <1>1
  <2> QED
    BY <1>2, <2>1, QueueTypes
<1>7. q' \in [Queue -> IntqState] /\ \A j \in Queue \ {k} : q'[j] = q[j]
  BY <1>1, <1>3, <1>6
<1>8. proc'[t].pc = place /\ place \notin {"wait", "lock"}
  BY <1>5
<1> HIDE DEF nq, new
<1>9. /\ \A u \in Process \ {t} : \A p, j : Inside(u, p, j)' <=> Inside(u, p, j)
      /\ \A j : ~Inside(t, "wait", j)' /\ ~Inside(t, "lock", j)'
  BY <1>5, <1>8 DEF Inside
<1>10. /\ uart' \in UartState
       /\ uart'.recv = ~Full(q'["buffer"]) /\ uart'.xmit = ~Empty(q'["txq"])
  BY <1>1, <1>3, WriteIerOK
<1>11. TypeOK'
  BY <1>1, <1>2, <1>3, <1>5, <1>7, <1>10, TypesNext
<1>12. Places'
  BY <1>5, <1>8 DEF IInv, Places
<1>13. Console'
  <2>1. Writer(t)' <=> Writer(t)
    BY <1>2, <1>8 DEF Writer
  <2>2. lock'["console"] = lock["console"]
    BY <1>3 DEF OthersOK
  <2> QED
    BY <1>4, <2>1, <2>2, WritersKept
<1>14. Ier'
  BY <1>10 DEF Ier
<1>15. Lists'
  <2>1. ASSUME NEW j \in Queue
        PROVE  /\ OnceEach(lock'[j].waiters)
               /\ \A u \in Process : In(u, lock'[j].waiters) => Inside(u, "lock", j)'
               /\ (waiter[j] # None => Inside(waiter[j], "wait", j) /\ MustWait(j))'
    <3>1. /\ OnceEach(lock'[j].waiters)
          /\ \A u \in Process : In(u, lock'[j].waiters) => Inside(u, "lock", j)'
      BY <1>3, <1>9 DEF OthersOK
    <3>2. ASSUME waiter[j] # None
          PROVE  waiter[j] \in Process \ {t} /\ j # k /\ Inside(waiter[j], "wait", j)
                 /\ MustWait(j)
      BY <1>1, <3>2 DEF OthersOK
    <3>3. waiter[j] # None => MustWait(j)'
      BY <1>7, <3>2 DEF MustWait
    <3>4. waiter[j] # None => proc'[waiter[j]].pc = "wait" /\ proc'[waiter[j]].on = j
      BY <1>5, <3>2 DEF Inside
    <3> QED
      BY <1>3, <3>1, <3>3, <3>4 DEF Inside
  <2>2. \A u \in Process : In(u, lock'["console"].waiters) => proc'[u].pc = "console"
    BY <1>3, <1>5 DEF OthersOK
  <2> QED
    BY <2>1, <2>2 DEF Lists
<1>16. Holders'
  <2>1. ASSUME NEW j \in Queue
        PROVE  /\ lock'[j].value = 0 <=> \E u \in Process : Inside(u, "wait", j)'
               /\ \A u, v \in Process : Inside(u, "wait", j)' /\ Inside(v, "wait", j)' => u = v
               /\ lock'[j].waiters # << >> =>
                    \/ lock'[j].value = 0
                    \/ \E u \in Process : Inside(u, "lock", j)' /\ ~Asleep(u)'
    <3>1. locks[j].value = 0 <=> \E u \in Process \ {t} : Inside(u, "wait", j)
      BY DEF OthersOK
    <3>2. \A u, v \in Process \ {t} : Inside(u, "wait", j) /\ Inside(v, "wait", j) => u = v
      BY DEF IInv, Holders
    <3>3. \A u \in Process : ~AsleepIn(u, locks) => ~Asleep(u)'
      BY <1>3 DEF AsleepIn, Asleep, In
    <3>4. locks[j].waiters # << >> =>
            \/ locks[j].value = 0
            \/ \E u \in Process \ {t} : Inside(u, "lock", j) /\ ~Asleep(u)'
      BY <3>3 DEF WokenOK
    <3> QED
      BY <1>3, <1>9, <3>1, <3>2, <3>4
  <2> QED
    BY <2>1 DEF Holders
<1> QED
  BY <1>11, <1>12, <1>13, <1>14, <1>15, <1>16 DEF IInv

---------------------------------------------------------------------------------
(***************************************************************************)
(* Each action.                                                            *)
(***************************************************************************)
\* In intq_getc and intq_putc of a process, whatever it finds.
LEMMA LoopKeeps ==
  ASSUME IInv, NEW t \in Process, NEW k \in Queue, NEW b \in Byte \union {None},
         NEW locks, OthersOK(t, locks), \A j \in Queue : WokenOK(t, locks, j),
         k = "txq" <=> Writer(t), k = "txq" => b \in Byte /\ proc[t].left > 0,
         Loop(t, k, b, locks)
  PROVE  IInv'
BY SleepKeeps, MoveByteKeeps DEF Loop

LEMMA FromOutside ==
  ASSUME IInv, NEW t \in Process, proc[t].pc \in {"run", "have"}
  PROVE  OthersOK(t, lock) /\ \A j \in Queue : WokenOK(t, lock, j)
<1>1. \A u \in Process, p \in {"wait", "lock"} : \A j : Inside(u, p, j) => u # t
  BY DEF Inside
<1>2. OthersOK(t, lock)
  <2>1. lock \in [Lock -> LockState] /\ waiter \in [Queue -> Process \union {None}]
    BY Types DEF IInv
  <2> QED
    BY <1>1, <2>1 DEF IInv, Lists, Holders, OthersOK
<1>3. \A u : AsleepIn(u, lock) <=> Asleep(u)
  BY DEF AsleepIn, Asleep, In
<1> QED
  BY <1>1, <1>2, <1>3 DEF IInv, Holders, WokenOK

LEMMA GetcKeeps ==
  ASSUME IInv, NEW t \in Process, Getc(t)
  PROVE  IInv'
<1>1. proc[t].pc = "run" /\ Loop(t, "buffer", None, lock) /\ ~Writer(t)
  BY DEF Getc, At, Writer
<1> QED
  BY <1>1, FromOutside, LoopKeeps DEF Queue

LEMMA PutcKeeps ==
  ASSUME IInv, NEW t \in Process, NEW b \in Byte, Putc(t, b)
  PROVE  IInv'
<1>1. proc[t].pc = "have" /\ proc[t].left > 0 /\ Loop(t, "txq", b, lock) /\ Writer(t)
  BY DEF Putc, At, Writer
<1> QED
  BY <1>1, FromOutside, LoopKeeps DEF Queue

\* A process in `wait' or lock_acquire, from what it has stored.
LEMMA InsideQueue ==
  ASSUME IInv, NEW t \in Process, proc[t].pc \in {"wait", "lock"}
  PROVE  LET k == proc[t].on
         IN  /\ k \in Queue
             /\ proc[t].byte \in Byte \union {None}
             /\ k = "txq" <=> Writer(t)
             /\ k = "txq" => proc[t].byte \in Byte /\ proc[t].left > 0
<1>1. proc[t] \in ProcState
  BY Types DEF IInv
<1> QED
  BY <1>1 DEF IInv, Places, Writer, ProcState

LEMMA WakeKeeps ==
  ASSUME IInv, NEW t \in Process, Wake(t)
  PROVE  IInv'
<1> DEFINE k == proc[t].on
           up == Upped(lock[k])
           locks == [lock EXCEPT ![k] = up]
<1>1. proc[t].pc = "wait" /\ ~Asleep(t) /\ Loop(t, k, proc[t].byte, locks)
  BY DEF Wake, At
<1>2. /\ k \in Queue /\ proc[t].byte \in Byte \union {None}
      /\ k = "txq" <=> Writer(t)
      /\ k = "txq" => proc[t].byte \in Byte /\ proc[t].left > 0
  BY <1>1, InsideQueue
<1>3. /\ lock \in [Lock -> LockState] /\ waiter \in [Queue -> Process \union {None}]
      /\ Queue \subseteq Lock /\ "console" \in Lock /\ "console" \notin Queue
      /\ Inside(t, "wait", k)
  BY <1>1, Types DEF IInv, Queue, Lock, Inside
<1> HIDE DEF k
<1>4. OnceEach(lock[k].waiters) /\ lock[k] \in LockState
  BY <1>2, <1>3 DEF IInv, Lists
<1>5. /\ up \in LockState /\ up.value = 1 /\ OnceEach(up.waiters)
      /\ \A u : In(u, up.waiters) => In(u, lock[k].waiters)
      /\ up.waiters # << >> =>
           \E u \in Process : In(u, lock[k].waiters) /\ ~In(u, up.waiters)
  BY <1>4, UppedLock
<1> HIDE DEF up
<1>6. /\ locks \in [Lock -> LockState] /\ locks[k] = up
      /\ \A m \in Lock \ {k} : locks[m] = lock[m]
  BY <1>2, <1>3, <1>5
<1> HIDE DEF locks
<1>7. OthersOK(t, locks)
  <2>1. ASSUME NEW j \in Queue
        PROVE  /\ OnceEach(locks[j].waiters)
               /\ \A u \in Process : In(u, locks[j].waiters) => u # t /\ Inside(u, "lock", j)
               /\ waiter[j] # None => waiter[j] # t /\ Inside(waiter[j], "wait", j) /\ MustWait(j)
               /\ locks[j].value = 0 <=> \E u \in Process \ {t} : Inside(u, "wait", j)
    <3>1. OnceEach(locks[j].waiters)
      BY <1>3, <1>5, <1>6 DEF IInv, Lists
    <3>2. \A u \in Process : In(u, locks[j].waiters) => Inside(u, "lock", j)
      BY <1>3, <1>5, <1>6 DEF IInv, Lists
    <3>3. \A u \in Process : Inside(u, "lock", j) => u # t
      BY <1>3 DEF Inside
    <3>4. waiter[j] # None => waiter[j] # t /\ Inside(waiter[j], "wait", j) /\ MustWait(j)
      BY <1>1 DEF IInv, Lists, Asleep
    <3>5. CASE j = k
      <4>1. \A u \in Process : Inside(u, "wait", k) => u = t
        BY <1>2, <1>3 DEF IInv, Holders
      <4>2. locks[j].value = 1
        BY <1>5, <1>6, <3>5
      <4> QED
        BY <3>1, <3>2, <3>3, <3>4, <3>5, <4>1, <4>2
    <3>6. CASE j # k
      <4>1. ~Inside(t, "wait", j)
        BY <1>3, <3>6 DEF Inside
      <4>2. locks[j] = lock[j]
        BY <1>3, <1>6, <3>6
      <4>3. lock[j].value = 0 <=> \E u \in Process : Inside(u, "wait", j)
        BY DEF IInv, Holders
      <4> QED
        BY <3>1, <3>2, <3>3, <3>4, <4>1, <4>2, <4>3
    <3> QED
      BY <3>5, <3>6
  <2>2. \A u \in Process : In(u, locks["console"].waiters) => u # t /\ proc[u].pc = "console"
    BY <1>1, <1>2, <1>3, <1>6 DEF IInv, Lists
  <2> QED
    BY <1>2, <1>3, <1>6, <2>1, <2>2 DEF OthersOK
<1>8. \A u : AsleepIn(u, locks) => Asleep(u)
  <2> SUFFICES ASSUME NEW u, AsleepIn(u, locks)
               PROVE  Asleep(u)
    OBVIOUS
  <2>1. \A m \in Lock : In(u, locks[m].waiters) => In(u, lock[m].waiters)
    BY <1>5, <1>6
  <2>2. \A m \in Lock : In(u, lock[m].waiters) => Asleep(u)
    BY DEF Asleep, In
  <2>3. \A i \in Queue : waiter[i] = u => Asleep(u)
    BY DEF Asleep
  <2> QED
    BY <2>1, <2>2, <2>3 DEF AsleepIn
<1>9. ASSUME NEW j \in Queue
      PROVE  WokenOK(t, locks, j)
  <2>1. CASE j = k
    <3> SUFFICES ASSUME up.waiters # << >>
                 PROVE  \E u \in Process \ {t} : Inside(u, "lock", k) /\ ~AsleepIn(u, locks)
      BY <1>6, <2>1 DEF WokenOK
    <3>1. PICK u \in Process : In(u, lock[k].waiters) /\ ~In(u, up.waiters)
      BY <1>5
    <3>2. Inside(u, "lock", k) /\ u # t
      BY <1>2, <1>3, <3>1 DEF IInv, Lists, Inside
    <3>3. \A i \in Queue : waiter[i] # u
      BY <1>3, <3>2, SerialAssumption DEF IInv, Lists, Inside
    <3>4. \A m \in Lock : ~In(u, locks[m].waiters)
      <4>1. ~In(u, lock["console"].waiters)
        BY <3>2 DEF IInv, Lists, Inside
      <4>2. \A i \in Queue \ {k} : ~In(u, lock[i].waiters)
        BY <3>2 DEF IInv, Lists, Inside
      <4> QED
        BY <1>3, <1>6, <3>1, <4>1, <4>2 DEF Lock
    <3> QED
      BY <3>2, <3>3, <3>4 DEF AsleepIn
  <2>2. CASE j # k
    <3>1. locks[j] = lock[j]
      BY <1>3, <1>6, <2>2
    <3>2. lock[j].waiters # << >> =>
            \/ lock[j].value = 0
            \/ \E u \in Process : Inside(u, "lock", j) /\ ~Asleep(u)
      BY DEF IInv, Holders
    <3>3. ~Inside(t, "lock", j)
      BY <1>3 DEF Inside
    <3> QED
      BY <1>8, <3>1, <3>2, <3>3 DEF WokenOK
  <2> QED
    BY <2>1, <2>2
<1> QED
  BY <1>1, <1>2, <1>7, <1>9, LoopKeeps DEF locks, up, k

LEMMA RelockKeeps ==
  ASSUME IInv, NEW t \in Process, Relock(t)
  PROVE  IInv'
<1> DEFINE k == proc[t].on
<1>1. proc[t].pc = "lock" /\ ~Asleep(t)
  BY DEF Relock, At
<1>2. /\ k \in Queue /\ proc[t].byte \in Byte \union {None}
      /\ k = "txq" <=> Writer(t)
      /\ k = "txq" => proc[t].byte \in Byte /\ proc[t].left > 0
  BY <1>1, InsideQueue
<1>3. /\ lock \in [Lock -> LockState] /\ waiter \in [Queue -> Process \union {None}]
      /\ Queue \subseteq Lock /\ "console" \in Lock /\ "console" \notin Queue
      /\ Inside(t, "lock", k)
  BY <1>1, Types DEF IInv, Queue, Lock, Inside
<1>4. \A m \in Lock : ~In(t, lock[m].waiters)
  BY <1>1 DEF Asleep, In
<1>5. CASE Free(lock[k]) /\ MustWait(k) /\ Sleep(t, k, proc[t].byte, lock)
  <2> HIDE DEF k
  <2>1. \A u \in Process, j \in Queue : Inside(u, "wait", j) => u # t
    BY <1>3 DEF Inside
  <2>2. OthersOK(t, lock)
    BY <1>3, <1>4, <2>1 DEF IInv, Lists, Holders, OthersOK
  <2>3. \A u : AsleepIn(u, lock) <=> Asleep(u)
    BY DEF AsleepIn, Asleep, In
  <2>4. \A j \in Queue \ {k} : ~Inside(t, "lock", j)
    BY <1>3 DEF Inside
  <2>5. \A j \in Queue \ {k} : WokenOK(t, lock, j)
    BY <2>3, <2>4 DEF IInv, Holders, WokenOK
  <2> QED
    BY <1>2, <1>5, <2>2, <2>5, SleepKeeps DEF k
<1>6. CASE /\ ~Free(lock[k]) /\ lock' = [lock EXCEPT ![k] = Queued(@, t)]
           /\ UNCHANGED <<q, waiter, proc, uart, stopped, count>>
  <2> DEFINE l == lock[k]
             nl == Queued(l, t)
  <2> HIDE DEF k
  <2>1. /\ l \in LockState /\ OnceEach(l.waiters) /\ l.value = 0
    <3>1. l \in LockState /\ OnceEach(l.waiters)
      BY <1>2, <1>3 DEF IInv, Lists
    <3> QED
      BY <1>6, <3>1 DEF Free, LockState
  <2>2. ~In(t, l.waiters)
    BY <1>2, <1>3, <1>4
  <2> HIDE DEF l
  <2>3. /\ nl \in LockState /\ nl.value = 0 /\ OnceEach(nl.waiters)
        /\ \A u : In(u, nl.waiters) <=> In(u, l.waiters) \/ u = t
    BY <2>1, <2>2, QueuedLock
  <2> HIDE DEF nl
  <2>4. /\ lock' \in [Lock -> LockState] /\ lock'[k] = nl
        /\ \A m \in Lock \ {k} : lock'[m] = lock[m]
    BY <1>2, <1>3, <1>6, <2>3 DEF nl, l
  <2>5. \A u, p, j : Inside(u, p, j)' <=> Inside(u, p, j)
    BY <1>6 DEF Inside
  <2>6. TypeOK'
    BY <1>6, <2>4, Types, TypesNext DEF IInv
  <2>7. Places' /\ Ier'
    BY <1>6 DEF IInv, Places, Ier, Alive
  <2>8. Console'
    <3>1. lock'["console"] = lock["console"]
      BY <1>2, <1>3, <2>4
    <3> QED
      BY <1>6, <3>1 DEF IInv, Console, Writer
  <2>9. Lists'
    <3>1. ASSUME NEW j \in Queue
          PROVE  /\ OnceEach(lock'[j].waiters)
                 /\ \A u \in Process : In(u, lock'[j].waiters) => Inside(u, "lock", j)'
                 /\ (waiter[j] # None => Inside(waiter[j], "wait", j) /\ MustWait(j))'
      <4>1. OnceEach(lock'[j].waiters)
        BY <1>3, <2>3, <2>4 DEF IInv, Lists
      <4>2. \A u \in Process : In(u, lock'[j].waiters) => Inside(u, "lock", j)'
        BY <1>3, <2>3, <2>4, <2>5 DEF IInv, Lists, l
      <4>3. (waiter[j] # None => Inside(waiter[j], "wait", j) /\ MustWait(j))'
        BY <1>6 DEF IInv, Lists, Inside, MustWait
      <4> QED
        BY <4>1, <4>2, <4>3
    <3>2. \A u \in Process : In(u, lock'["console"].waiters) => proc'[u].pc = "console"
      BY <1>2, <1>3, <1>6, <2>4 DEF IInv, Lists
    <3> QED
      BY <3>1, <3>2 DEF Lists
  <2>10. Holders'
    <3>1. ASSUME NEW j \in Queue
          PROVE  /\ lock'[j].value = 0 <=> \E u \in Process : Inside(u, "wait", j)'
                 /\ \A u, v \in Process : Inside(u, "wait", j)' /\ Inside(v, "wait", j)' => u = v
                 /\ lock'[j].waiters # << >> =>
                      \/ lock'[j].value = 0
                      \/ \E u \in Process : Inside(u, "lock", j)' /\ ~Asleep(u)'
      <4>1. /\ lock[j].value = 0 <=> \E u \in Process : Inside(u, "wait", j)
            /\ \A u, v \in Process : Inside(u, "wait", j) /\ Inside(v, "wait", j) => u = v
            /\ lock[j].waiters # << >> =>
                 \/ lock[j].value = 0
                 \/ \E u \in Process : Inside(u, "lock", j) /\ ~Asleep(u)
        BY DEF IInv, Holders
      <4>2. lock'[j].value = lock[j].value
        BY <1>3, <2>1, <2>3, <2>4 DEF l
      <4>3. CASE j = k
        BY <2>1, <2>5, <4>1, <4>2, <4>3 DEF l
      <4>4. CASE j # k
        <5>1. \A u \in Process \ {t} : ~Asleep(u) => ~Asleep(u)'
          <6> SUFFICES ASSUME NEW u \in Process \ {t}, ~Asleep(u)
                       PROVE  ~Asleep(u)'
            OBVIOUS
          <6>1. \A m \in Lock : ~In(u, lock[m].waiters)
            BY DEF Asleep, In
          <6>2. \A m \in Lock : ~In(u, lock'[m].waiters)
            BY <1>2, <1>3, <2>3, <2>4, <6>1 DEF l
          <6>3. \A i \in Queue : waiter'[i] # u
            BY <1>6 DEF Asleep
          <6> QED
            BY <6>2, <6>3 DEF Asleep, In
        <5>2. ~Inside(t, "lock", j)
          BY <1>3, <4>4 DEF Inside
        <5>3. lock'[j] = lock[j]
          BY <1>3, <2>4, <4>4
        <5> QED
          BY <2>5, <4>1, <5>1, <5>2, <5>3
      <4> QED
        BY <4>3, <4>4
    <3> QED
      BY <3>1 DEF Holders
  <2> QED
    BY <2>6, <2>7, <2>8, <2>9, <2>10 DEF IInv
<1>7. CASE /\ stopped' = "ASSERT"
           /\ UNCHANGED <<q, lock, waiter, proc, uart, count>>
  <2>1. TypeOK'
    BY <1>7, Types, TypesNext DEF IInv
  <2>2. /\ \A u, p, j : Inside(u, p, j)' <=> Inside(u, p, j)
        /\ \A u : (Asleep(u)' <=> Asleep(u)) /\ (Writer(u)' <=> Writer(u))
        /\ \A j : MustWait(j)' <=> MustWait(j)
    BY <1>7 DEF Inside, Asleep, Writer, MustWait
  <2>3. Places' /\ Console' /\ Ier'
    BY <1>7, <2>2 DEF IInv, Places, Console, Ier, Alive
  <2>4. Lists'
    BY <1>7 DEF IInv, Lists, Inside, MustWait
  <2>5. Holders'
    BY <1>7, <2>2 DEF IInv, Holders
  <2> QED
    BY <2>1, <2>3, <2>4, <2>5 DEF IInv
<1> QED
  BY <1>5, <1>6, <1>7 DEF Relock

\* putbuf, before and after it has slept for console_lock.
LEMMA AcquireConsoleKeeps ==
  ASSUME IInv, NEW t \in Process, proc[t].pc \in {"run", "console"}, ~Asleep(t),
         NEW n \in 0 .. MessageLength, AcquireConsole(t, n)
  PROVE  IInv'
<1> DEFINE l == lock["console"]
           place == IF Free(l) THEN "have" ELSE "console"
           new == [pc |-> place, on |-> proc[t].on, byte |-> proc[t].byte, left |-> n]
           nl == IF Free(l) THEN Downed(l) ELSE Queued(l, t)
<1>1. /\ q \in [Queue -> IntqState] /\ lock \in [Lock -> LockState]
      /\ waiter \in [Queue -> Process \union {None}]
      /\ proc \in [Process -> ProcState] /\ uart \in UartState
      /\ stopped \in {"no", "ASSERT", "off"} /\ count \in 0 .. Unexpected
  BY Types DEF IInv
<1>2. /\ "console" \in Lock /\ Queue \subseteq Lock /\ "console" \notin Queue
      /\ l \in LockState /\ l.value \in 0 .. 1 /\ proc[t] \in ProcState
  BY <1>1 DEF Lock, Queue, LockState
<1>3. /\ lock' = [lock EXCEPT !["console"] = nl]
      /\ q' = q /\ waiter' = waiter /\ uart' = uart /\ stopped' = stopped /\ count' = count
  BY DEF AcquireConsole
<1>4. proc' = [proc EXCEPT ![t] = new]
  <2> DEFINE p == proc[t]
  <2>1. p \in ProcState
    BY <1>2
  <2> HIDE DEF p, place
  <2>2. [p EXCEPT !.pc = place, !.left = n] =
          [pc |-> place, on |-> p.on, byte |-> p.byte, left |-> n]
    BY <2>1, ProcMoved
  <2> QED
    BY <2>2 DEF AcquireConsole, p, place
<1>5. /\ proc' \in [Process -> ProcState] /\ proc'[t] = new
      /\ \A u \in Process \ {t} : proc'[u] = proc[u]
  <2>1. new \in ProcState
    BY <1>2 DEF ProcState, PC
  <2> QED
    BY <1>1, <1>4, <2>1
<1>6. /\ proc'[t].pc = place /\ place \in {"have", "console"}
      /\ proc[t].pc \notin {"wait", "lock", "have"}
  BY <1>5
<1>7. ~In(t, l.waiters)
  BY <1>2 DEF Asleep, In
<1>8. /\ nl \in LockState /\ nl.value = 0
      /\ \A u : In(u, nl.waiters) <=> In(u, l.waiters) \/ (u = t /\ ~Free(l))
  <2>1. CASE Free(l)
    BY <1>2, <2>1, DownedLock
  <2>2. CASE ~Free(l)
    <3>1. l.value = 0 /\ nl = Queued(l, t)
      BY <1>2, <2>2 DEF Free
    <3> HIDE DEF nl, l
    <3>2. /\ Queued(l, t) \in LockState /\ Queued(l, t).value = l.value
          /\ \A u : In(u, Queued(l, t).waiters) <=> In(u, l.waiters) \/ u = t
      BY <1>2, QueuedLock
    <3> QED
      BY <2>2, <3>1, <3>2
  <2> QED
    BY <2>1, <2>2
<1> HIDE DEF nl, new
<1>9. /\ lock' \in [Lock -> LockState] /\ lock'["console"] = nl
      /\ \A k \in Queue : lock'[k] = lock[k]
  BY <1>1, <1>2, <1>3, <1>8
<1>10. \A u \in Process, p \in {"wait", "lock"} : \A k : Inside(u, p, k)' <=> Inside(u, p, k)
  BY <1>5, <1>6 DEF Inside
<1>11. TypeOK'
  BY <1>1, <1>3, <1>5, <1>9, TypesNext
<1>12. Places'
  BY <1>5, <1>6 DEF IInv, Places
<1>13. Ier'
  BY <1>3 DEF IInv, Ier, Alive
<1>14. Console'
  <2>1. \A u \in Process \ {t} : Writer(u)' <=> Writer(u)
    BY <1>5 DEF Writer
  <2>2. ~Writer(t) /\ (Writer(t)' <=> Free(l))
    BY <1>6 DEF Writer
  <2>3. /\ l.value = 0 <=> \E u \in Process : Writer(u)
        /\ \A u, v \in Process : Writer(u) /\ Writer(v) => u = v
    BY DEF IInv, Console
  <2>4. Free(l) <=> l.value # 0
    BY <1>2 DEF Free
  <2>5. lock'["console"].value = 0
    BY <1>8, <1>9
  <2>6. \E u \in Process : Writer(u)'
    BY <2>1, <2>2, <2>3, <2>4
  <2>7. \A u, v \in Process : Writer(u)' /\ Writer(v)' => u = v
    BY <2>1, <2>2, <2>3, <2>4
  <2> QED
    BY <2>5, <2>6, <2>7 DEF Console
<1>15. Lists'
  <2>1. \A k \in Queue :
          /\ OnceEach(lock'[k].waiters)
          /\ \A u \in Process : In(u, lock'[k].waiters) => Inside(u, "lock", k)'
    BY <1>9, <1>10 DEF IInv, Lists
  <2>2. ASSUME NEW k \in Queue
        PROVE  (waiter[k] # None => Inside(waiter[k], "wait", k) /\ MustWait(k))'
    <3>1. waiter[k] # None =>
            waiter[k] \in Process /\ Inside(waiter[k], "wait", k) /\ MustWait(k)
      BY <1>1 DEF IInv, Lists
    <3>2. waiter[k] # None => proc'[waiter[k]] = proc[waiter[k]]
      BY <1>5, <1>6, <3>1 DEF Inside
    <3> QED
      BY <1>3, <3>1, <3>2 DEF Inside, MustWait
  <2>3. \A u \in Process : In(u, lock'["console"].waiters) => proc'[u].pc = "console"
    <3>1. \A u \in Process : In(u, l.waiters) => u # t /\ proc[u].pc = "console"
      BY <1>7 DEF IInv, Lists
    <3>2. ~Free(l) => proc'[t].pc = "console"
      BY <1>6
    <3> QED
      BY <1>5, <1>8, <1>9, <3>1, <3>2
  <2> QED
    BY <2>1, <2>2, <2>3 DEF Lists
<1>16. Holders'
  <2>1. \A u \in Process \ {t} : ~Asleep(u) => ~Asleep(u)'
    <3> SUFFICES ASSUME NEW u \in Process \ {t}, ~Asleep(u)
                 PROVE  ~Asleep(u)'
      OBVIOUS
    <3>1. \A m \in Lock : ~In(u, lock[m].waiters)
      BY DEF Asleep, In
    <3>2. \A m \in Lock : ~In(u, lock'[m].waiters)
      BY <1>2, <1>8, <1>9, <3>1 DEF Lock
    <3>3. \A i \in Queue : waiter'[i] # u
      BY <1>3 DEF Asleep
    <3> QED
      BY <3>2, <3>3 DEF Asleep, In
  <2>2. ASSUME NEW k \in Queue
        PROVE  /\ lock'[k].value = 0 <=> \E u \in Process : Inside(u, "wait", k)'
               /\ \A u, v \in Process : Inside(u, "wait", k)' /\ Inside(v, "wait", k)' => u = v
               /\ lock'[k].waiters # << >> =>
                    \/ lock'[k].value = 0
                    \/ \E u \in Process : Inside(u, "lock", k)' /\ ~Asleep(u)'
    <3>1. /\ lock[k].value = 0 <=> \E u \in Process : Inside(u, "wait", k)
          /\ \A u, v \in Process : Inside(u, "wait", k) /\ Inside(v, "wait", k) => u = v
          /\ lock[k].waiters # << >> =>
               \/ lock[k].value = 0
               \/ \E u \in Process : Inside(u, "lock", k) /\ ~Asleep(u)
      BY DEF IInv, Holders
    <3>2. ~Inside(t, "lock", k)
      BY <1>6 DEF Inside
    <3> QED
      BY <1>9, <1>10, <2>1, <3>1, <3>2
  <2> QED
    BY <2>2 DEF Holders
<1> QED
  BY <1>11, <1>12, <1>13, <1>14, <1>15, <1>16 DEF IInv

LEMMA PutbufKeeps ==
  ASSUME IInv, NEW t \in Process, NEW n \in 1 .. MessageLength, Putbuf(t, n)
  PROVE  IInv'
<1>1. n \in 0 .. MessageLength /\ proc[t].pc = "run" /\ ~Asleep(t) /\ AcquireConsole(t, n)
  BY DEF Putbuf, At
<1> QED
  BY <1>1, AcquireConsoleKeeps

LEMMA ReacquireConsoleKeeps ==
  ASSUME IInv, NEW t \in Process, ReacquireConsole(t)
  PROVE  IInv'
<1> DEFINE n == proc[t].left
<1>1. proc[t] \in ProcState
  BY Types DEF IInv
<1>2. n \in 0 .. MessageLength
  BY <1>1 DEF ProcState
<1>3. proc[t].pc = "console" /\ ~Asleep(t) /\ AcquireConsole(t, n)
  BY DEF ReacquireConsole, At
<1> HIDE DEF n
<1> QED
  BY <1>2, <1>3, AcquireConsoleKeeps

LEMMA ReleaseConsoleKeeps ==
  ASSUME IInv, NEW t \in Process, ReleaseConsole(t)
  PROVE  IInv'
<1> DEFINE new == [proc[t] EXCEPT !.pc = "run"]
           nl == Upped(lock["console"])
<1>1. /\ q \in [Queue -> IntqState] /\ lock \in [Lock -> LockState]
      /\ waiter \in [Queue -> Process \union {None}]
      /\ proc \in [Process -> ProcState] /\ uart \in UartState
      /\ stopped \in {"no", "ASSERT", "off"} /\ count \in 0 .. Unexpected
  BY Types DEF IInv
<1>2. /\ "console" \in Lock /\ Queue \subseteq Lock /\ "console" \notin Queue
      /\ lock["console"] \in LockState /\ proc[t] \in ProcState /\ proc[t].pc = "have"
  BY <1>1 DEF Lock, Queue, ReleaseConsole, At
<1>3. /\ lock' = [lock EXCEPT !["console"] = nl] /\ proc' = [proc EXCEPT ![t] = new]
      /\ q' = q /\ waiter' = waiter /\ uart' = uart /\ stopped' = stopped /\ count' = count
  BY DEF ReleaseConsole, Goto
<1>4. new \in ProcState /\ new.pc = "run"
  BY <1>2 DEF ProcState, PC
<1>5. /\ nl \in LockState /\ nl.value = 1
      /\ \A u : In(u, nl.waiters) => In(u, lock["console"].waiters)
  BY <1>2, UppedLock
<1> HIDE DEF nl, new
<1>6. /\ proc' \in [Process -> ProcState] /\ proc'[t].pc = "run"
      /\ \A u \in Process \ {t} : proc'[u] = proc[u]
  BY <1>1, <1>3, <1>4
<1>7. /\ lock' \in [Lock -> LockState] /\ lock'["console"] = nl
      /\ \A k \in Queue : lock'[k] = lock[k]
  BY <1>1, <1>2, <1>3, <1>5
<1>8. \A u \in Process, p \in {"wait", "lock"} : \A k : Inside(u, p, k)' <=> Inside(u, p, k)
  BY <1>2, <1>6 DEF Inside
<1>9. TypeOK' /\ Places' /\ Ier'
  <2>1. TypeOK'
    BY <1>1, <1>3, <1>6, <1>7, TypesNext
  <2> QED
    BY <1>3, <1>6, <2>1 DEF IInv, Places, Ier, Alive
<1>10. Console'
  <2>1. \A u \in Process \ {t} : Writer(u)' <=> Writer(u)
    BY <1>6 DEF Writer
  <2>2. Writer(t) /\ ~Writer(t)'
    BY <1>2, <1>6 DEF Writer
  <2>3. \A u, v \in Process : Writer(u) /\ Writer(v) => u = v
    BY DEF IInv, Console
  <2>4. lock'["console"].value = 1 /\ \A u \in Process : ~Writer(u)'
    BY <1>5, <1>7, <2>1, <2>2, <2>3
  <2> QED
    BY <2>4 DEF Console
<1>11. Lists'
  <2>1. \A k \in Queue :
          /\ OnceEach(lock'[k].waiters)
          /\ \A u \in Process : In(u, lock'[k].waiters) => Inside(u, "lock", k)'
    BY <1>7, <1>8 DEF IInv, Lists
  <2>2. ASSUME NEW k \in Queue
        PROVE  (waiter[k] # None => Inside(waiter[k], "wait", k) /\ MustWait(k))'
    <3>1. waiter[k] # None =>
            waiter[k] \in Process /\ Inside(waiter[k], "wait", k) /\ MustWait(k)
      BY <1>1 DEF IInv, Lists
    <3>2. waiter[k] # None => proc'[waiter[k]] = proc[waiter[k]]
      BY <1>2, <1>6, <3>1 DEF Inside
    <3> QED
      BY <1>3, <3>1, <3>2 DEF Inside, MustWait
  <2>3. \A u \in Process : In(u, lock'["console"].waiters) => proc'[u].pc = "console"
    <3>1. \A u \in Process : In(u, lock["console"].waiters) => u # t /\ proc[u].pc = "console"
      BY <1>2 DEF IInv, Lists
    <3> QED
      BY <1>5, <1>6, <1>7, <3>1
  <2> QED
    BY <2>1, <2>2, <2>3 DEF Lists
<1>12. Holders'
  <2>1. \A u \in Process : ~Asleep(u) => ~Asleep(u)'
    <3> SUFFICES ASSUME NEW u \in Process, ~Asleep(u)
                 PROVE  ~Asleep(u)'
      OBVIOUS
    <3>1. \A m \in Lock : ~In(u, lock[m].waiters)
      BY DEF Asleep, In
    <3>2. \A m \in Lock : ~In(u, lock'[m].waiters)
      BY <1>2, <1>5, <1>7, <3>1 DEF Lock
    <3>3. \A i \in Queue : waiter'[i] # u
      BY <1>3 DEF Asleep
    <3> QED
      BY <3>2, <3>3 DEF Asleep, In
  <2> QED
    BY <1>7, <1>8, <2>1 DEF IInv, Holders
<1> QED
  BY <1>9, <1>10, <1>11, <1>12 DEF IInv

---------------------------------------------------------------------------------
(***************************************************************************)
(* What is in a queue.                                                     *)
(***************************************************************************)
Wrapped(x) == IF x < N THEN x ELSE x - N

Size(r) == Wrapped(r.head + N - r.tail)

LEMMA Remainders ==
  ASSUME NEW x \in 0 .. 2 * N - 1
  PROVE  x % N = Wrapped(x) /\ Wrapped(x) \in Position
<1>1. N \in Nat \ {0, 1}
  BY IntQAssumption DEF N
<1> HIDE DEF N
<1>2. x < N => x % N = x
  BY <1>1
<1>3. x >= N => x % N = x - N
  BY <1>1
<1>4. Wrapped(x) \in 0 .. N - 1
  BY <1>1 DEF Wrapped
<1> QED
  BY <1>1, <1>2, <1>3, <1>4 DEF Wrapped, Position, N

LEMMA ContentsOf ==
  ASSUME NEW r \in IntqState
  PROVE  /\ Size(r) \in 0 .. N - 1
         /\ Contents(r) \in Seq(Byte) /\ Len(Contents(r)) = Size(r)
         /\ DOMAIN Contents(r) = 1 .. Size(r)
         /\ \A i \in 1 .. Size(r) : Contents(r)[i] = r.buf[Wrapped(r.tail + i - 1)]
         /\ Empty(r) <=> Size(r) = 0
         /\ Full(r) <=> Size(r) = N - 1
<1> DEFINE n == Size(r)
           c == [i \in 1 .. n |-> r.buf[Wrapped(r.tail + i - 1)]]
<1>1. /\ N \in Nat \ {0, 1} /\ Position = 0 .. N - 1
      /\ r.head \in Position /\ r.tail \in Position /\ r.buf \in [Position -> Byte]
  BY IntQAssumption DEF N, Position, IntqState
<1>2. Following(r.head) = IF r.head = N - 1 THEN 0 ELSE r.head + 1
  BY <1>1, FollowingPosition
<1>3. r.head + N - r.tail \in 0 .. 2 * N - 1
  BY <1>1
<1>4. (r.head + N - r.tail) % N = n /\ n \in 0 .. N - 1
  BY <1>1, <1>3, Remainders DEF Size
<1>5. \A i \in 1 .. n : r.tail + i - 1 \in 0 .. 2 * N - 1
  <2> HIDE DEF N, n
  <2>1. /\ N \in Nat /\ r.tail \in Nat /\ r.tail <= N - 1
        /\ n \in Nat /\ n <= N - 1
    BY <1>1, <1>4
  <2> QED
    BY <2>1
<1>6. \A i \in 1 .. n : /\ (r.tail + i - 1) % N = Wrapped(r.tail + i - 1)
                        /\ Wrapped(r.tail + i - 1) \in Position
  BY <1>5, Remainders
<1>7. Contents(r) = c
  BY <1>4, <1>6 DEF Contents, N
<1>8. c \in Seq(Byte) /\ Len(c) = n /\ DOMAIN c = 1 .. n
  <2>1. n \in Nat
    BY <1>1, <1>4
  <2>2. \A i \in 1 .. n : r.buf[Wrapped(r.tail + i - 1)] \in Byte
    BY <1>1, <1>6
  <2> HIDE DEF n
  <2> QED
    BY <2>1, <2>2
<1>9. (Empty(r) <=> n = 0) /\ (Full(r) <=> n = N - 1)
  <2> HIDE DEF N
  <2>1. /\ N \in Nat \ {0, 1} /\ r.head \in 0 .. N - 1 /\ r.tail \in 0 .. N - 1
    BY <1>1
  <2>2. n = IF r.head < r.tail THEN r.head + N - r.tail ELSE r.head - r.tail
    BY <2>1 DEF Size, Wrapped
  <2> HIDE DEF n
  <2>3. r.head = r.tail <=> n = 0
    BY <2>1, <2>2
  <2>4. (IF r.head = N - 1 THEN 0 ELSE r.head + 1) = r.tail <=> n = N - 1
    <3>1. CASE r.head = N - 1
      BY <2>1, <2>2, <3>1
    <3>2. CASE r.head # N - 1
      BY <2>1, <2>2, <3>2
    <3> QED
      BY <3>1, <3>2
  <2> QED
    BY <1>2, <2>3, <2>4 DEF Empty, Full
<1> HIDE DEF n
<1> QED
  BY <1>1, <1>4, <1>7, <1>8, <1>9 DEF n

\* The oldest byte comes first, and goes first.
LEMMA ContentsTaken ==
  ASSUME NEW r \in IntqState, ~Empty(r)
  PROVE  /\ Contents(Taken(r)) = Tail(Contents(r))
         /\ Contents(r) # << >> /\ Oldest(r) = Head(Contents(r))
<1> DEFINE s == Taken(r)
           c == Contents(r)
           d == Contents(s)
           n == Size(r)
<1>1. /\ N \in Nat \ {0, 1} /\ Position = 0 .. N - 1
      /\ r.head \in Position /\ r.tail \in Position /\ r.buf \in [Position -> Byte]
  BY IntQAssumption DEF N, Position, IntqState
<1>2. /\ s \in IntqState /\ s.head = r.head /\ s.tail = Following(r.tail)
      /\ \A i \in Position : i # r.tail => s.buf[i] = r.buf[i]
  <2> DEFINE buf == [r.buf EXCEPT ![r.tail] = Unread]
  <2>1. s = [buf |-> buf, head |-> r.head, tail |-> Following(r.tail)]
    <3> DEFINE s1 == [r EXCEPT !.buf = buf]
    <3>1. s = [s1 EXCEPT !.tail = Following(r.tail)]
      BY DEF Taken, IntqState
    <3> HIDE DEF buf
    <3>2. s1 = [buf |-> buf, head |-> r.head, tail |-> r.tail]
      BY DEF IntqState
    <3> HIDE DEF s, s1
    <3> QED
      BY <3>1, <3>2
  <2>2. \A i \in Position : i # r.tail => buf[i] = r.buf[i]
    BY <1>1
  <2>3. s \in IntqState
    BY QueueTypes
  <2> HIDE DEF s, buf
  <2> QED
    BY <2>1, <2>2, <2>3
<1>3. s.tail = IF r.tail = N - 1 THEN 0 ELSE r.tail + 1
  BY <1>1, <1>2, FollowingPosition
<1>4. /\ n \in 1 .. N - 1 /\ c \in Seq(Byte) /\ Len(c) = n
      /\ \A i \in 1 .. n : c[i] = r.buf[Wrapped(r.tail + i - 1)]
  BY <1>1, ContentsOf
<1>5. /\ d \in Seq(Byte) /\ Len(d) = Size(s)
      /\ \A i \in 1 .. Size(s) : d[i] = s.buf[Wrapped(s.tail + i - 1)]
  BY <1>2, ContentsOf
<1> HIDE DEF s, c, d
<1>6. Size(s) = n - 1
  <2>1. r.head # r.tail
    BY DEF Empty
  <2> HIDE DEF N
  <2>2. /\ N \in Nat \ {0, 1} /\ s.head = r.head
        /\ r.head \in 0 .. N - 1 /\ r.tail \in 0 .. N - 1
        /\ s.tail = IF r.tail = N - 1 THEN 0 ELSE r.tail + 1
    BY <1>1, <1>2, <1>3
  <2>3. CASE r.tail = N - 1
    <3>1. Size(s) = r.head /\ n = r.head + 1
      BY <2>1, <2>2, <2>3 DEF Size, Wrapped
    <3> QED
      BY <2>2, <3>1
  <2>4. CASE r.tail # N - 1 /\ r.tail < r.head
    <3>1. Size(s) = r.head - (r.tail + 1) /\ n = r.head - r.tail
      BY <2>2, <2>4 DEF Size, Wrapped
    <3> QED
      BY <2>2, <3>1
  <2>5. CASE r.tail # N - 1 /\ r.tail > r.head
    <3>1. Size(s) = r.head + N - (r.tail + 1) /\ n = r.head + N - r.tail
      BY <2>2, <2>5 DEF Size, Wrapped
    <3> QED
      BY <2>2, <3>1
  <2> QED
    BY <2>1, <2>2, <2>3, <2>4, <2>5
<1> HIDE DEF n
<1>7. \A i \in 1 .. n - 1 : d[i] = c[i + 1]
  <2> SUFFICES ASSUME NEW i \in 1 .. n - 1
               PROVE  d[i] = c[i + 1]
    OBVIOUS
  <2>1. d[i] = s.buf[Wrapped(s.tail + i - 1)] /\ c[i + 1] = r.buf[Wrapped(r.tail + (i + 1) - 1)]
    BY <1>4, <1>5, <1>6
  <2>2. /\ Wrapped(s.tail + i - 1) = Wrapped(r.tail + (i + 1) - 1)
        /\ Wrapped(s.tail + i - 1) \in 0 .. N - 1 /\ Wrapped(s.tail + i - 1) # r.tail
    <3> HIDE DEF N
    <3>1. /\ N \in Nat \ {0, 1} /\ r.tail \in 0 .. N - 1
          /\ s.tail = IF r.tail = N - 1 THEN 0 ELSE r.tail + 1
          /\ i \in Int /\ 1 <= i /\ i < N - 1
      BY <1>1, <1>3, <1>4
    <3>2. CASE r.tail = N - 1
      <4>1. Wrapped(s.tail + i - 1) = i - 1 /\ Wrapped(r.tail + (i + 1) - 1) = i - 1
        BY <3>1, <3>2 DEF Wrapped
      <4> QED
        BY <3>1, <3>2, <4>1
    <3>3. CASE r.tail # N - 1
      <4>1. s.tail + i - 1 = r.tail + i /\ r.tail + (i + 1) - 1 = r.tail + i
        BY <3>1, <3>3
      <4>2. Wrapped(r.tail + i) \in 0 .. N - 1 /\ Wrapped(r.tail + i) # r.tail
        BY <3>1 DEF Wrapped
      <4> QED
        BY <4>1, <4>2
    <3> QED
      BY <3>2, <3>3
  <2> QED
    BY <1>1, <1>2, <2>1, <2>2
<1>8. c # << >> /\ Head(c) = c[1] /\ Len(Tail(c)) = n - 1 /\ Tail(c) \in Seq(Byte)
      /\ \A i \in 1 .. n - 1 : Tail(c)[i] = c[i + 1]
  <2>1. c # << >>
    BY <1>4, EmptySeq
  <2> QED
    BY <1>4, <2>1, HeadTailProperties
<1>9. d = Tail(c)
  BY <1>4, <1>5, <1>6, <1>7, <1>8, SeqEqual
<1>10. Oldest(r) = c[1]
  <2>1. Wrapped(r.tail + 1 - 1) = r.tail
    <3> HIDE DEF N
    <3> QED
      BY <1>1 DEF Wrapped
  <2> QED
    BY <1>4, <2>1 DEF Oldest
<1> QED
  BY <1>8, <1>9, <1>10 DEF c, d, s

\* A new byte goes behind the others, while there is room.
LEMMA ContentsAdded ==
  ASSUME NEW r \in IntqState, NEW b \in Byte, ~Full(r)
  PROVE  Contents(Added(r, b)) = Append(Contents(r), b)
<1> DEFINE s == Added(r, b)
           c == Contents(r)
           d == Contents(s)
           n == Size(r)
<1>1. /\ N \in Nat \ {0, 1} /\ Position = 0 .. N - 1
      /\ r.head \in Position /\ r.tail \in Position /\ r.buf \in [Position -> Byte]
  BY IntQAssumption DEF N, Position, IntqState
<1>2. /\ s \in IntqState /\ s.head = Following(r.head) /\ s.tail = r.tail
      /\ s.buf[r.head] = b
      /\ \A i \in Position : i # r.head => s.buf[i] = r.buf[i]
  <2> DEFINE buf == [r.buf EXCEPT ![r.head] = b]
  <2>1. s = [buf |-> buf, head |-> Following(r.head), tail |-> r.tail]
    <3> DEFINE s1 == [r EXCEPT !.buf = buf]
    <3>1. s = [s1 EXCEPT !.head = Following(r.head)]
      BY DEF Added, IntqState
    <3> HIDE DEF buf
    <3>2. s1 = [buf |-> buf, head |-> r.head, tail |-> r.tail]
      BY DEF IntqState
    <3> HIDE DEF s, s1
    <3> QED
      BY <3>1, <3>2
  <2>2. buf[r.head] = b /\ \A i \in Position : i # r.head => buf[i] = r.buf[i]
    BY <1>1
  <2>3. s \in IntqState
    BY QueueTypes
  <2> HIDE DEF s, buf
  <2> QED
    BY <2>1, <2>2, <2>3
<1>3. s.head = IF r.head = N - 1 THEN 0 ELSE r.head + 1
  BY <1>1, <1>2, FollowingPosition
<1>4. /\ n \in 0 .. N - 1 /\ n # N - 1 /\ c \in Seq(Byte) /\ Len(c) = n
      /\ \A i \in 1 .. n : c[i] = r.buf[Wrapped(r.tail + i - 1)]
  BY ContentsOf
<1>5. /\ d \in Seq(Byte) /\ Len(d) = Size(s)
      /\ \A i \in 1 .. Size(s) : d[i] = s.buf[Wrapped(s.tail + i - 1)]
  BY <1>2, ContentsOf
<1> HIDE DEF s, c, d
<1>6. Size(s) = n + 1
  <2>1. n \in Nat /\ n < N - 1 /\ s.tail = r.tail
    BY <1>1, <1>2, <1>4
  <2>2. r.head \in 0 .. N - 1 /\ r.tail \in 0 .. N - 1
    BY <1>1
  <2> HIDE DEF N
  <2>3. r.head < r.tail => n = r.head + N - r.tail /\ s.head = r.head + 1
    BY <1>1, <1>3, <2>2 DEF Size, Wrapped
  <2>4. r.head >= r.tail => n = r.head - r.tail
    BY <1>1, <2>2 DEF Size, Wrapped
  <2>5. CASE r.head < r.tail
    <3>1. s.head < s.tail
      BY <1>1, <2>1, <2>2, <2>3, <2>5
    <3>2. Size(s) = s.head + N - s.tail
      BY <1>1, <2>1, <2>2, <2>3, <2>5, <3>1 DEF Size, Wrapped
    <3>3. s.head = r.head + 1 /\ s.tail = r.tail /\ n = r.head + N - r.tail /\ N \in Nat
      BY <1>1, <2>1, <2>3, <2>5
    <3> HIDE DEF n
    <3> QED
      BY <2>2, <3>2, <3>3
  <2>6. CASE r.head >= r.tail
    <3>1. CASE r.head = N - 1
      <4>1. s.head = 0 /\ r.tail # 0
        BY <1>1, <1>3, <2>1, <2>2, <2>4, <2>6, <3>1
      <4>2. Size(s) = N - r.tail
        BY <1>1, <2>1, <2>2, <4>1 DEF Size, Wrapped
      <4> QED
        BY <1>1, <2>2, <2>4, <2>6, <3>1, <4>2
    <3>2. CASE r.head # N - 1
      <4>1. s.head = r.head + 1
        BY <1>3, <3>2
      <4> DEFINE x == s.head + N - s.tail
      <4>2. x = r.head + 1 + N - r.tail
        <5> HIDE DEF s, n
        <5> QED
          BY <2>1, <4>1
      <4>3. Size(s) = Wrapped(x)
        BY DEF Size
      <4> HIDE DEF n, x
      <4>4. Size(s) = r.head + 1 - r.tail
        <5>1. x \in Int /\ ~(x < N) /\ x - N = r.head + 1 - r.tail
          <6>1. r.head \in Int /\ r.tail \in Int /\ N \in Int /\ r.head >= r.tail
            BY <1>1, <2>2, <2>6
          <6> DEFINE h == r.head
                     t == r.tail
          <6>2. h \in Int /\ t \in Int /\ h >= t /\ x = h + 1 + N - t
            BY <4>2, <6>1
          <6> HIDE DEF h, t
          <6>3. x \in Int /\ ~(x < N) /\ x - N = h + 1 - t
            BY <6>1, <6>2
          <6> QED
            BY <6>3 DEF h, t
        <5> QED
          BY <4>3, <5>1 DEF Wrapped
      <4>5. n = r.head - r.tail /\ r.head \in Int /\ r.tail \in Int
        BY <1>1, <2>2, <2>4, <2>6
      <4> QED
        BY <4>4, <4>5
    <3> QED
      BY <3>1, <3>2
  <2> QED
    BY <2>2, <2>5, <2>6
<1>7. \A i \in 1 .. n : d[i] = c[i]
  <2> SUFFICES ASSUME NEW i \in 1 .. n
               PROVE  d[i] = c[i]
    OBVIOUS
  <2>1. d[i] = s.buf[Wrapped(r.tail + i - 1)] /\ c[i] = r.buf[Wrapped(r.tail + i - 1)]
    BY <1>2, <1>4, <1>5, <1>6
  <2>2. Wrapped(r.tail + i - 1) \in 0 .. N - 1 /\ Wrapped(r.tail + i - 1) # r.head
    <3> HIDE DEF N
    <3>1. /\ N \in Nat \ {0, 1} /\ r.head \in 0 .. N - 1 /\ r.tail \in 0 .. N - 1
          /\ n \in 0 .. N - 1 /\ i \in Int /\ 1 <= i /\ i <= n
      BY <1>1, <1>4
    <3>2. n = IF r.head < r.tail THEN r.head + N - r.tail ELSE r.head - r.tail
      BY <3>1 DEF Size, Wrapped
    <3> HIDE DEF n
    <3>3. CASE r.tail + i - 1 < N
      <4>1. Wrapped(r.tail + i - 1) = r.tail + i - 1
        BY <3>3 DEF Wrapped
      <4> QED
        BY <3>1, <3>2, <3>3, <4>1
    <3>4. CASE r.tail + i - 1 >= N
      <4>1. Wrapped(r.tail + i - 1) = r.tail + i - 1 - N
        BY <3>1, <3>4 DEF Wrapped
      <4> QED
        BY <3>1, <3>2, <3>4, <4>1
    <3> QED
      BY <3>1, <3>3, <3>4
  <2> QED
    BY <1>1, <1>2, <2>1, <2>2
<1>8. d[n + 1] = b
  <2>1. Wrapped(r.tail + (n + 1) - 1) = r.head
    <3> HIDE DEF N
    <3>1. /\ N \in Nat \ {0, 1} /\ r.head \in 0 .. N - 1 /\ r.tail \in 0 .. N - 1
      BY <1>1
    <3>2. n = IF r.head < r.tail THEN r.head + N - r.tail ELSE r.head - r.tail
      BY <3>1 DEF Size, Wrapped
    <3> HIDE DEF n
    <3>3. CASE r.head < r.tail
      <4>1. r.tail + (n + 1) - 1 = r.head + N
        BY <3>1, <3>2, <3>3
      <4> QED
        BY <3>1, <4>1 DEF Wrapped
    <3>4. CASE ~(r.head < r.tail)
      <4>1. r.tail + (n + 1) - 1 = r.head
        BY <3>1, <3>2, <3>4
      <4> QED
        BY <3>1, <4>1 DEF Wrapped
    <3> QED
      BY <3>3, <3>4
  <2>2. n + 1 \in 1 .. Size(s)
    BY <1>1, <1>4, <1>6
  <2> QED
    BY <1>2, <1>5, <2>1, <2>2
<1> HIDE DEF n
<1>9. /\ Append(c, b) \in Seq(Byte) /\ Len(Append(c, b)) = n + 1
      /\ \A i \in 1 .. n : Append(c, b)[i] = c[i]
      /\ Append(c, b)[n + 1] = b
  BY <1>4, AppendProperties
<1>10. \A i \in 1 .. n + 1 : i = n + 1 \/ i \in 1 .. n
  BY <1>1, <1>4
<1>11. d = Append(c, b)
  <2>1. Len(d) = n + 1
    BY <1>5, <1>6
  <2>2. \A i \in 1 .. Len(d) : d[i] = Append(c, b)[i]
    BY <1>7, <1>8, <1>9, <1>10, <2>1
  <2> QED
    BY <1>5, <1>9, <2>1, <2>2, SeqEqual
<1> QED
  BY <1>11 DEF c, d, s

---------------------------------------------------------------------------------
(***************************************************************************)
(* The interrupt handlers, and the end.                                    *)
(***************************************************************************)
\* Who is told has nothing to wait for, and who is not still has.
LEMMA HandlerKeeps ==
  ASSUME IInv, UNCHANGED <<lock, proc>>, TypeOK', Ier',
         \A k \in Queue : waiter'[k] = None \/ (waiter'[k] = waiter[k] /\ MustWait(k)')
  PROVE  IInv'
<1>1. Places' /\ Console'
  BY DEF IInv, Places, Console, Writer
<1>2. Lists'
  BY DEF IInv, Lists, Inside
<1>3. waiter \in [Queue -> Process \union {None}] /\ None \notin Process
  BY Types, SerialAssumption DEF IInv
<1>4. \A u \in Process : ~Asleep(u) => ~Asleep(u)'
  <2> SUFFICES ASSUME NEW u \in Process, ~Asleep(u)
               PROVE  ~Asleep(u)'
    OBVIOUS
  <2>1. \A k \in Queue : waiter'[k] # u
    BY <1>3 DEF Asleep
  <2> QED
    BY <2>1 DEF Asleep
<1>5. Holders'
  <2>1. \A u \in Process : \A p, k : Inside(u, p, k)' <=> Inside(u, p, k)
    BY DEF Inside
  <2> QED
    BY <1>4, <2>1 DEF IInv, Holders
<1> QED
  BY <1>1, <1>2, <1>5 DEF IInv

LEMMA PortKeeps ==
  ASSUME IInv, \/ \E b \in Key : Arrive(b)
               \/ Sent
  PROVE  IInv' /\ q' = q
<1>1. UNCHANGED <<q, lock, waiter, proc, stopped, count>> /\ uart \in UartState
  BY Types DEF IInv, Arrive, Sent
<1>2. /\ uart' \in UartState
      /\ uart'.recv = uart.recv /\ uart'.xmit = uart.xmit
  <2>1. CASE \E b \in Key : Arrive(b)
    <3>1. PICK b \in Byte : uart' = [uart EXCEPT !.rbr = b]
      BY <2>1, SerialAssumption DEF Arrive
    <3> QED
      BY <1>1, <3>1 DEF UartState
  <2>2. CASE Sent
    BY <1>1, <2>2 DEF Sent, UartState
  <2> QED
    BY <2>1, <2>2
<1>3. TypeOK'
  BY <1>1, <1>2, Types, TypesNext DEF IInv
<1>4. Ier'
  BY <1>1, <1>2 DEF IInv, Ier, Alive
<1>5. \A k \in Queue : waiter'[k] = None \/ (waiter'[k] = waiter[k] /\ MustWait(k)')
  BY <1>1 DEF IInv, Lists, MustWait
<1> QED
  BY <1>1, <1>3, <1>4, <1>5, HandlerKeeps

LEMMA KeyboardInterruptKeeps ==
  ASSUME IInv, NEW b \in Key, KeyboardInterrupt(b)
  PROVE  IInv'
<1> DEFINE nq == Added(q["buffer"], b)
<1>1. /\ q \in [Queue -> IntqState] /\ waiter \in [Queue -> Process \union {None}]
      /\ uart \in UartState /\ Queue = {"buffer", "txq"} /\ b \in Byte
  BY Types, SerialAssumption DEF IInv, Queue
<1>2. nq \in IntqState
  BY <1>1, QueueTypes
<1>3. /\ UNCHANGED <<lock, proc, stopped, count>> /\ q' = [q EXCEPT !["buffer"] = nq]
      /\ waiter' = [k \in Queue |-> IF k = "buffer" THEN None ELSE waiter[k]]
      /\ uart' = WriteIer(uart, q')
  BY DEF KeyboardInterrupt, Signalled
<1> HIDE DEF nq
<1>4. q' \in [Queue -> IntqState] /\ q'["txq"] = q["txq"]
  BY <1>1, <1>2, <1>3
<1>5. waiter' \in [Queue -> Process \union {None}]
  BY <1>1, <1>3
<1>6. /\ uart' \in UartState
      /\ uart'.recv = ~Full(q'["buffer"]) /\ uart'.xmit = ~Empty(q'["txq"])
  BY <1>1, <1>3, WriteIerOK
<1>7. TypeOK'
  BY <1>3, <1>4, <1>5, <1>6, Types, TypesNext DEF IInv
<1>8. Ier'
  BY <1>6 DEF Ier
<1>9. \A k \in Queue : waiter'[k] = None \/ (waiter'[k] = waiter[k] /\ MustWait(k)')
  BY <1>1, <1>3, <1>4 DEF IInv, Lists, MustWait
<1> QED
  BY <1>3, <1>7, <1>8, <1>9, HandlerKeeps

LEMMA SerialInterruptKeeps ==
  ASSUME IInv, SerialInterrupt
  PROVE  IInv'
<1> DEFINE nb == IF Receivable THEN Added(q["buffer"], uart.rbr) ELSE q["buffer"]
           nt == IF Transmittable THEN Taken(q["txq"]) ELSE q["txq"]
           rbr == IF Receivable THEN None ELSE uart.rbr
           thr == IF Transmittable THEN Oldest(q["txq"]) ELSE uart.thr
           u == [uart EXCEPT !.rbr = rbr, !.thr = thr]
<1>1. /\ q \in [Queue -> IntqState] /\ waiter \in [Queue -> Process \union {None}]
      /\ uart \in UartState /\ Queue = {"buffer", "txq"}
      /\ q["buffer"] \in IntqState /\ q["txq"] \in IntqState
      /\ uart.rbr \in Byte \union {None} /\ uart.thr \in Byte \union {None}
  BY Types DEF IInv, Queue, UartState
<1>2. nb \in IntqState /\ nt \in IntqState
  BY <1>1, QueueTypes DEF Receivable
<1>3. u \in UartState
  <2>1. rbr \in Byte \union {None} /\ thr \in Byte \union {None}
    BY <1>1, QueueTypes
  <2> HIDE DEF rbr, thr
  <2> DEFINE u1 == [uart EXCEPT !.rbr = rbr]
  <2>2. u1 \in UartState /\ u = [u1 EXCEPT !.thr = thr]
    BY <1>1, <2>1 DEF UartState
  <2> HIDE DEF u1
  <2>3. [u1 EXCEPT !.thr = thr] \in UartState
    BY <2>1, <2>2 DEF UartState
  <2> QED
    BY <2>2, <2>3
<1>4. /\ UNCHANGED <<lock, proc, stopped, count>>
      /\ q' = [q EXCEPT !["buffer"] = nb, !["txq"] = nt]
      /\ \A k \in Queue :
           waiter'[k] = IF \/ k = "buffer" /\ Receivable
                           \/ k = "txq" /\ Transmittable
                          THEN None ELSE waiter[k]
      /\ waiter' \in [Queue -> Process \union {None}]
      /\ uart' = WriteIer(u, q')
  BY <1>1 DEF SerialInterrupt, Signalled
<1> HIDE DEF u
<1>5. q' \in [Queue -> IntqState] /\ q'["buffer"] = nb /\ q'["txq"] = nt
  <2> HIDE DEF nb, nt
  <2> QED
    BY <1>1, <1>2, <1>4
<1>6. /\ uart' \in UartState
      /\ uart'.recv = ~Full(q'["buffer"]) /\ uart'.xmit = ~Empty(q'["txq"])
  BY <1>3, <1>4, WriteIerOK, ZenonT(60)
<1>7. TypeOK'
  BY <1>4, <1>5, <1>6, Types, TypesNext DEF IInv
<1>8. Ier'
  BY <1>6 DEF Ier
<1>9. \A k \in Queue : waiter'[k] = None \/ (waiter'[k] = waiter[k] /\ MustWait(k)')
  BY <1>1, <1>4, <1>5 DEF IInv, Lists, MustWait
<1> QED
  BY <1>4, <1>7, <1>8, <1>9, HandlerKeeps

LEMMA UnexpectedInterruptKeeps ==
  ASSUME IInv, NEW b \in Byte, UnexpectedInterrupt(b)
  PROVE  IInv'
<1> DEFINE r == q["txq"]
           nt == IF Full(r) THEN Added(Taken(r), b) ELSE Added(r, b)
           u == IF Full(r) THEN [uart EXCEPT !.thr = Oldest(r)] ELSE uart
<1>1. /\ q \in [Queue -> IntqState] /\ waiter \in [Queue -> Process \union {None}]
      /\ uart \in UartState /\ Queue = {"buffer", "txq"} /\ r \in IntqState
  BY Types DEF IInv, Queue
<1>2. nt \in IntqState
  BY <1>1, QueueTypes
<1>3. u \in UartState
  <2>1. Oldest(r) \in Byte
    BY <1>1, QueueTypes
  <2> QED
    BY <1>1, <2>1 DEF UartState
<1>4. /\ UNCHANGED <<lock, proc, stopped>>
      /\ q' = [q EXCEPT !["txq"] = nt]
      /\ \A k \in Queue : waiter'[k] = IF k = "txq" /\ Full(r) THEN None ELSE waiter[k]
      /\ waiter' \in [Queue -> Process \union {None}]
      /\ uart' = WriteIer(u, q')
  BY <1>1 DEF UnexpectedInterrupt, Signalled
<1>5. count' \in 0 .. Unexpected
  <2>1. count \in 0 .. Unexpected /\ Unexpected \in Nat
    BY Types, SerialAssumption DEF IInv
  <2> QED
    BY <2>1 DEF UnexpectedInterrupt
<1> HIDE DEF u
<1>6. q' \in [Queue -> IntqState] /\ q'["buffer"] = q["buffer"]
  <2> HIDE DEF nt
  <2> QED
    BY <1>1, <1>2, <1>4
<1>7. /\ uart' \in UartState
      /\ uart'.recv = ~Full(q'["buffer"]) /\ uart'.xmit = ~Empty(q'["txq"])
  BY <1>3, <1>4, WriteIerOK
<1>8. TypeOK'
  BY <1>4, <1>5, <1>6, <1>7, Types, TypesNext DEF IInv
<1>9. Ier'
  BY <1>7 DEF Ier
<1>10. \A k \in Queue : waiter'[k] = None \/ (waiter'[k] = waiter[k] /\ MustWait(k)')
  <2>1. waiter'["buffer"] = None \/ (waiter'["buffer"] = waiter["buffer"] /\ MustWait("buffer")')
    BY <1>1, <1>4, <1>6 DEF IInv, Lists, MustWait
  <2>2. waiter'["txq"] = None
    BY <1>1, <1>4 DEF IInv, Lists, MustWait
  <2> QED
    BY <1>1, <2>1, <2>2
<1> QED
  BY <1>4, <1>8, <1>9, <1>10, HandlerKeeps

LEMMA PowerOffKeeps ==
  ASSUME IInv, NEW t \in Process, PowerOff(t)
  PROVE  IInv'
<1> DEFINE r == q["txq"]
           nt == [buf |-> [i \in Position |-> Unread], head |-> r.head, tail |-> r.head]
           thr == IF Empty(r) THEN uart.thr ELSE Contents(r)[Len(Contents(r))]
<1>1. /\ q \in [Queue -> IntqState] /\ waiter \in [Queue -> Process \union {None}]
      /\ uart \in UartState /\ Queue = {"buffer", "txq"} /\ r \in IntqState
  BY Types DEF IInv, Queue
<1>2. nt \in IntqState
  BY <1>1, UnreadIsByte DEF IntqState
<1>3. thr \in Byte \union {None}
  <2>1. CASE Empty(r)
    BY <1>1, <2>1 DEF UartState
  <2>2. CASE ~Empty(r)
    <3> DEFINE c == Contents(r)
    <3>1. c \in Seq(Byte) /\ Len(c) = Size(r) /\ Size(r) \in 0 .. N - 1 /\ Size(r) # 0
      BY <1>1, <2>2, ContentsOf
    <3>2. N \in Nat
      BY IntQAssumption DEF N
    <3> HIDE DEF c
    <3>3. Len(c) \in 1 .. Len(c)
      BY <3>1, <3>2
    <3>4. c[Len(c)] \in Byte
      BY <3>1, <3>3, ElementOfSeq
    <3> QED
      BY <2>2, <3>4 DEF c
  <2> QED
    BY <2>1, <2>2
<1>4. /\ UNCHANGED <<lock, proc, count>> /\ stopped' = "off"
      /\ q' = [q EXCEPT !["txq"] = nt] /\ uart' = [uart EXCEPT !.thr = thr]
      /\ \A k \in Queue : waiter'[k] = IF k = "txq" /\ ~Empty(r) THEN None ELSE waiter[k]
      /\ waiter' \in [Queue -> Process \union {None}]
  BY <1>1 DEF PowerOff, Signalled
<1> HIDE DEF nt, thr
<1>5. q' \in [Queue -> IntqState] /\ q'["buffer"] = q["buffer"]
  BY <1>1, <1>2, <1>4
<1>6. uart' \in UartState /\ uart'.recv = uart.recv
  BY <1>1, <1>3, <1>4 DEF UartState
<1>7. TypeOK'
  BY <1>4, <1>5, <1>6, Types, TypesNext DEF IInv
<1>8. Ier'
  BY <1>4, <1>5, <1>6 DEF IInv, Ier, Alive
<1>9. \A k \in Queue : waiter'[k] = None \/ (waiter'[k] = waiter[k] /\ MustWait(k)')
  <2>1. waiter'["buffer"] = None \/ (waiter'["buffer"] = waiter["buffer"] /\ MustWait("buffer")')
    BY <1>1, <1>4, <1>5 DEF IInv, Lists, MustWait
  <2>2. Full(r) => ~Empty(r)
    BY <1>1, QueueTypes
  <2>3. waiter'["txq"] = None
    BY <1>1, <1>4, <2>2 DEF IInv, Lists, MustWait
  <2> QED
    BY <1>1, <2>1, <2>3
<1> QED
  BY <1>4, <1>7, <1>8, <1>9, HandlerKeeps

LEMMA StepKeepsIInv == IInv /\ [Next]_vars => IInv'
<1> SUFFICES ASSUME IInv, [Next]_vars
             PROVE  IInv'
  OBVIOUS
<1>1. ASSUME NEW b \in Key, Arrive(b) \/ KeyboardInterrupt(b)
      PROVE  IInv'
  BY <1>1, PortKeeps, KeyboardInterruptKeeps
<1>2. ASSUME NEW b \in Byte, UnexpectedInterrupt(b)
      PROVE  IInv'
  BY <1>2, UnexpectedInterruptKeeps
<1>3. CASE Sent
  BY <1>3, PortKeeps
<1>4. CASE SerialInterrupt
  BY <1>4, SerialInterruptKeeps
<1>5. ASSUME NEW t \in Process, Step(t)
      PROVE  IInv'
  BY <1>5, GetcKeeps, PutcKeeps, WakeKeeps, RelockKeeps, ReacquireConsoleKeeps,
     ReleaseConsoleKeeps DEF Step
<1>6. ASSUME NEW t \in Process, PowerOff(t)
      PROVE  IInv'
  BY <1>6, PowerOffKeeps
<1>7. ASSUME NEW t \in Process, NEW n \in 1 .. MessageLength, Putbuf(t, n)
      PROVE  IInv'
  BY <1>7, PutbufKeeps
<1>8. CASE UNCHANGED vars
  <2>1. TypeOK'
    BY <1>8, Types, TypesNext DEF IInv, vars
  <2>2. Ier'
    BY <1>8 DEF IInv, Ier, Alive, vars
  <2>3. \A k \in Queue : waiter'[k] = None \/ (waiter'[k] = waiter[k] /\ MustWait(k)')
    BY <1>8 DEF IInv, Lists, MustWait, vars
  <2> QED
    BY <1>8, <2>1, <2>2, <2>3, HandlerKeeps DEF vars
<1> QED
  BY <1>1, <1>2, <1>3, <1>4, <1>5, <1>6, <1>7, <1>8 DEF Next

(***************************************************************************)
(* What a process waits for in the console queues is still to come, and    *)
(* the interrupt or the process that brings it will wake it.               *)
(***************************************************************************)
THEOREM WaitersAreWoken == Spec => []NoLostWakeup
<1>1. Init => IInv
  BY InitIInv
<1>2. IInv /\ [Next]_vars => IInv'
  BY StepKeepsIInv
<1>3. IInv => NoLostWakeup
  BY IInvMeans
<1> QED
  BY <1>1, <1>2, <1>3, PTL DEF Spec

\* console_lock lets one process at a time into putc.
THEOREM OneProcessWrites == Spec => []OneWriter
<1>1. Init => IInv
  BY InitIInv
<1>2. IInv /\ [Next]_vars => IInv'
  BY StepKeepsIInv
<1>3. IInv => OneWriter
  BY IInvMeans
<1> QED
  BY <1>1, <1>2, <1>3, PTL DEF Spec

---------------------------------------------------------------------------------
(***************************************************************************)
(* Both queues are first in, first out.                                    *)
(***************************************************************************)
Register == IF uart.thr = None THEN << >> ELSE <<uart.thr>>

Outgoing == Register \o Contents(q["txq"])

Incoming == Contents(q["buffer"])

NewBytes == {<< >>} \union { <<b>> : b \in Byte }

LEMMA OutputStep ==
  ASSUME NEW leaving \in 0 .. Len(Outgoing), leaving <= N, NEW new \in NewBytes,
         Outgoing' = SubSeq(Outgoing, leaving + 1, Len(Outgoing)) \o new,
         Len(Outgoing)' <= N, Len(Outgoing) \in Nat
  PROVE  Output!Next
<1>1. N \in Nat
  BY IntQAssumption DEF N
<1>2. leaving \in 0 .. N
  BY <1>1
<1>3. Output!Step(leaving, new)
  BY DEF Output!Step, Outgoing, Register, N
<1> QED
  BY <1>2, <1>3 DEF Output!Next, NewBytes, N

LEMMA InputStep ==
  ASSUME NEW leaving \in 0 .. Len(Incoming), leaving <= N - 1, NEW new \in NewBytes,
         Incoming' = SubSeq(Incoming, leaving + 1, Len(Incoming)) \o new,
         Len(Incoming)' <= N - 1, Len(Incoming) \in Nat
  PROVE  Input!Next
<1>1. N \in Nat
  BY IntQAssumption DEF N
<1>2. leaving \in 0 .. N - 1
  BY <1>1
<1>3. Input!Step(leaving, new)
  BY DEF Input!Step, Incoming, N
<1> QED
  BY <1>2, <1>3 DEF Input!Next, NewBytes, N

\* One byte leaves, or comes.
LEMMA Pieces ==
  ASSUME NEW s \in Seq(Byte)
  PROVE  /\ << >> \in NewBytes /\ \A b \in Byte : <<b>> \in NewBytes
         /\ SubSeq(s, 0 + 1, Len(s)) = s
         /\ s \o << >> = s /\ << >> \o s = s
         /\ \A b \in Byte : s \o <<b>> = Append(s, b)
         /\ s # << >> => /\ SubSeq(s, 1 + 1, Len(s)) = Tail(s)
                         /\ Len(s) \in Nat \ {0} /\ Tail(s) \in Seq(Byte)
                         /\ Len(Tail(s)) = Len(s) - 1
                         /\ <<Head(s)>> \o Tail(s) = s
<1>1. << >> \in NewBytes /\ \A b \in Byte : <<b>> \in NewBytes
  BY DEF NewBytes
<1>2. SubSeq(s, 0 + 1, Len(s)) = s
  BY SubSeqFull
<1>3. s \o << >> = s /\ << >> \o s = s
  BY ConcatEmptySeq
<1>4. \A b \in Byte : s \o <<b>> = Append(s, b)
  BY AppendIsConcat
<1>5. ASSUME s # << >>
      PROVE  /\ SubSeq(s, 1 + 1, Len(s)) = Tail(s)
             /\ Len(s) \in Nat \ {0} /\ Tail(s) \in Seq(Byte)
             /\ Len(Tail(s)) = Len(s) - 1
             /\ <<Head(s)>> \o Tail(s) = s
  <2>1. Len(s) \in Nat \ {0} /\ Tail(s) = SubSeq(s, 2, Len(s)) /\ SubSeq(s, 1, Len(s)) = s
    BY <1>5, EmptySeq, TailIsSubSeq, SubSeqFull
  <2>2. Tail(s) \in Seq(Byte) /\ Len(Tail(s)) = Len(s) - 1 /\ Head(s) = s[1]
    BY <1>5, HeadTailProperties
  <2> DEFINE n == Len(s)
  <2>3. n \in 1 .. n /\ 1 \in 1 .. n
    BY <2>1
  <2>4. SubSeq(s, 1, n) = <<s[1]>> \o SubSeq(s, 1 + 1, n)
    <3> HIDE DEF n
    <3>1. n = Len(s)
      BY DEF n
    <3> QED
      BY <2>3, <3>1, SubSeqRecursiveFirst
  <2> QED
    BY <2>1, <2>2, <2>4
<1> QED
  BY <1>1, <1>2, <1>3, <1>4, <1>5

LEMMA RegisterIs ==
  ASSUME NEW c \in Seq(Byte), NEW x \in Byte \union {None}
  PROVE  LET s == (IF x = None THEN << >> ELSE <<x>>) \o c
         IN  s \in Seq(Byte) /\ Len(s) = (IF x = None THEN 0 ELSE 1) + Len(c)
<1>1. CASE x = None
  BY <1>1, ConcatEmptySeq, LenProperties
<1>2. CASE x # None
  <2>1. x \in Byte
    BY <1>2
  <2>2. <<x>> \in Seq(Byte) /\ Len(<<x>>) = 1
    BY <2>1
  <2> QED
    BY <1>2, <2>2, ConcatProperties
<1> QED
  BY <1>1, <1>2

QueuesOK ==
  /\ q["txq"] \in IntqState /\ q["buffer"] \in IntqState
  /\ Incoming \in Seq(Byte) /\ Len(Incoming) \in 0 .. N - 1
  /\ Contents(q["txq"]) \in Seq(Byte) /\ Len(Contents(q["txq"])) \in 0 .. N - 1
  /\ uart.thr \in Byte \union {None}
  /\ Outgoing \in Seq(Byte) /\ Len(Outgoing) \in 0 .. N

LEMMA QueuesAre == TypeOK => QueuesOK
<1> SUFFICES ASSUME TypeOK PROVE QueuesOK
  OBVIOUS
<1>1. /\ q["txq"] \in IntqState /\ q["buffer"] \in IntqState
      /\ uart.thr \in Byte \union {None}
  BY Types DEF Queue, UartState
<1>2. /\ Incoming \in Seq(Byte) /\ Len(Incoming) \in 0 .. N - 1
      /\ Contents(q["txq"]) \in Seq(Byte) /\ Len(Contents(q["txq"])) \in 0 .. N - 1
  BY <1>1, ContentsOf DEF Incoming
<1>3. N \in Nat
  BY IntQAssumption DEF N
<1>4. /\ Outgoing \in Seq(Byte)
      /\ Len(Outgoing) = (IF uart.thr = None THEN 0 ELSE 1) + Len(Contents(q["txq"]))
  BY <1>1, <1>2, RegisterIs DEF Outgoing, Register
<1> QED
  BY <1>1, <1>2, <1>3, <1>4 DEF QueuesOK

LEMMA QueuesAreNext == TypeOK' => QueuesOK'
BY QueuesAre, PTL

LEMMA InitFifo == Init => Output!Init /\ Input!Init
<1> SUFFICES ASSUME Init PROVE Output!Init /\ Input!Init
  OBVIOUS
<1>1. QueuesOK
  BY InitIInv, QueuesAre DEF IInv
<1>2. \A k \in Queue : q[k] \in IntqState /\ Empty(q[k])
  BY <1>1 DEF Init, Queue, QueuesOK, IntqInit, Empty
<1>3. \A k \in Queue : Contents(q[k]) \in Seq(Byte) /\ Len(Contents(q[k])) = 0
  BY <1>2, ContentsOf
<1>4. \A k \in Queue : Contents(q[k]) = << >>
  BY <1>3, EmptySeq
<1>5. << >> \o << >> = << >>
  BY EmptySeq, ConcatEmptySeq
<1> QED
  BY <1>4, <1>5 DEF Init, Queue, Output!Init, Input!Init

\* What is put behind the others, and what is taken from the front.
LEMMA OutgoingAdded ==
  ASSUME IInv, IInv', NEW b \in Byte, ~Full(q["txq"]),
         q'["txq"] = Added(q["txq"], b), uart'.thr = uart.thr
  PROVE  Output!Next
<1> DEFINE c == Contents(q["txq"])
<1>1. QueuesOK /\ QueuesOK'
  BY QueuesAre, QueuesAreNext DEF IInv
<1>2. Contents(q'["txq"]) = Append(c, b)
  BY <1>1, ContentsAdded DEF QueuesOK
<1>3. c \in Seq(Byte) /\ Register \in Seq(Byte) /\ <<b>> \in Seq(Byte)
  BY <1>1 DEF QueuesOK, Register
<1>4. Append(c, b) = c \o <<b>>
  BY <1>3, AppendIsConcat
<1>5. Outgoing' = Register \o (c \o <<b>>)
  BY <1>2, <1>4 DEF Outgoing, Register
<1>6. Outgoing = Register \o c
  BY DEF Outgoing
<1> HIDE DEF c
<1>7. Outgoing' = Outgoing \o <<b>>
  BY <1>3, <1>5, <1>6, ConcatAssociative
<1>8. SubSeq(Outgoing, 0 + 1, Len(Outgoing)) = Outgoing /\ <<b>> \in NewBytes
  BY <1>1, Pieces DEF QueuesOK
<1>9. Len(Outgoing) \in Nat /\ 0 \in 0 .. Len(Outgoing) /\ Len(Outgoing)' <= N /\ 0 <= N
  BY <1>1, IntQAssumption DEF QueuesOK, N
<1> QED
  BY <1>7, <1>8, <1>9, OutputStep

LEMMA IncomingAdded ==
  ASSUME IInv, IInv', NEW b \in Byte, ~Full(q["buffer"]),
         q'["buffer"] = Added(q["buffer"], b)
  PROVE  Input!Next
<1>1. QueuesOK /\ QueuesOK'
  BY QueuesAre, QueuesAreNext DEF IInv
<1>2. Incoming' = Append(Incoming, b)
  BY <1>1, ContentsAdded DEF QueuesOK, Incoming
<1>3. /\ SubSeq(Incoming, 0 + 1, Len(Incoming)) = Incoming /\ <<b>> \in NewBytes
      /\ Incoming \o <<b>> = Append(Incoming, b)
  BY <1>1, Pieces DEF QueuesOK
<1>4. /\ Len(Incoming) \in Nat /\ 0 \in 0 .. Len(Incoming) /\ Len(Incoming)' <= N - 1
      /\ 0 <= N - 1
  BY <1>1, IntQAssumption DEF QueuesOK, N
<1> QED
  BY <1>2, <1>3, <1>4, InputStep

LEMMA IncomingTaken ==
  ASSUME IInv, IInv', ~Empty(q["buffer"]), q'["buffer"] = Taken(q["buffer"])
  PROVE  Input!Next
<1>1. QueuesOK /\ QueuesOK'
  BY QueuesAre, QueuesAreNext DEF IInv
<1>2. Incoming' = Tail(Incoming) /\ Incoming # << >>
  BY <1>1, ContentsTaken DEF QueuesOK, Incoming
<1>3. /\ SubSeq(Incoming, 1 + 1, Len(Incoming)) = Tail(Incoming)
      /\ Len(Incoming) \in Nat \ {0} /\ Tail(Incoming) \in Seq(Byte)
  BY <1>1, <1>2, Pieces DEF QueuesOK
<1>4. << >> \in NewBytes /\ Tail(Incoming) \o << >> = Tail(Incoming)
  BY <1>3, Pieces
<1>5. /\ 1 \in 0 .. Len(Incoming) /\ Len(Incoming)' <= N - 1 /\ 1 <= N - 1
  BY <1>1, <1>3, IntQAssumption DEF QueuesOK, N
<1> QED
  BY <1>2, <1>3, <1>4, <1>5, InputStep

\* The byte in the holding register goes out.
LEMMA SentFifo ==
  ASSUME IInv, IInv', Sent
  PROVE  Output!Next
<1> DEFINE c == Contents(q["txq"])
           b == uart.thr
<1>1. QueuesOK /\ QueuesOK' /\ uart \in UartState
  BY QueuesAre, QueuesAreNext, Types DEF IInv
<1>2. c \in Seq(Byte) /\ b \in Byte
  BY <1>1 DEF QueuesOK, Sent
<1>3. Outgoing = <<b>> \o c
  BY DEF Sent, Outgoing, Register
<1>4. uart'.thr = None /\ q' = q
  BY <1>1 DEF Sent, UartState
<1>5. Outgoing' = << >> \o c
  BY <1>4 DEF Outgoing, Register
<1> HIDE DEF c, b
<1>6. <<b>> \in Seq(Byte) /\ Len(<<b>>) = 1 /\ <<b>>[1] = b
  BY <1>2
<1>7. /\ <<b>> \o c \in Seq(Byte) /\ Len(<<b>> \o c) = 1 + Len(c)
      /\ \A i \in 1 .. 1 + Len(c) : (<<b>> \o c)[i] = IF i <= 1 THEN <<b>>[i] ELSE c[i - 1]
  BY <1>2, <1>6, ConcatProperties
<1>8. Len(c) \in Nat
  BY <1>2, LenProperties
<1>9. Outgoing # << >>
  BY <1>3, <1>7, <1>8, EmptySeq
<1>10. /\ SubSeq(Outgoing, 1 + 1, Len(Outgoing)) = Tail(Outgoing)
       /\ Len(Outgoing) \in Nat \ {0} /\ Tail(Outgoing) \in Seq(Byte)
       /\ Len(Tail(Outgoing)) = Len(Outgoing) - 1
  BY <1>1, <1>9, Pieces DEF QueuesOK
<1>11. /\ << >> \in NewBytes /\ Tail(Outgoing) \o << >> = Tail(Outgoing)
       /\ << >> \o c = c
  BY <1>2, <1>10, Pieces
<1>12. Tail(Outgoing) = c
  <2> DEFINE n == Len(c)
  <2>1. Len(Tail(Outgoing)) = n
    BY <1>3, <1>7, <1>8, <1>10
  <2>2. \A i \in 1 .. n : Tail(Outgoing)[i] = Outgoing[i + 1]
    BY <1>1, <1>9, <1>10, <2>1, HeadTailProperties DEF QueuesOK
  <2>3. \A i \in 1 .. n : Outgoing[i + 1] = c[i]
    BY <1>3, <1>7, <1>8
  <2> HIDE DEF n
  <2>4. \A i \in 1 .. Len(Tail(Outgoing)) : Tail(Outgoing)[i] = c[i]
    BY <2>1, <2>2, <2>3
  <2>5. Len(Tail(Outgoing)) = Len(c)
    BY <2>1 DEF n
  <2> QED
    BY <1>2, <1>10, <2>4, <2>5, SeqEqual
<1>13. 1 \in 0 .. Len(Outgoing) /\ Len(Outgoing)' <= N /\ 1 <= N
  BY <1>1, <1>10, IntQAssumption DEF QueuesOK, N
<1> QED
  BY <1>5, <1>10, <1>11, <1>12, <1>13, OutputStep

\* txq and the holding register as they were, and the bytes of buffer.
FifoStep == [Output!Next]_Outgoing /\ [Input!Next]_Incoming

LEMMA SerialInterruptFifo ==
  ASSUME IInv, IInv', SerialInterrupt
  PROVE  FifoStep
<1> DEFINE r == q["txq"]
           rbr == IF Receivable THEN None ELSE uart.rbr
           thr == IF Transmittable THEN Oldest(r) ELSE uart.thr
           u == [uart EXCEPT !.rbr = rbr, !.thr = thr]
<1>1. /\ QueuesOK /\ QueuesOK' /\ uart \in UartState /\ q \in [Queue -> IntqState]
      /\ Queue = {"buffer", "txq"} /\ uart.rbr \in Byte \union {None}
  BY QueuesAre, QueuesAreNext, Types DEF IInv, Queue, UartState
<1>2. thr \in Byte \union {None} /\ rbr \in Byte \union {None}
  BY <1>1, QueueTypes DEF QueuesOK
<1>3. uart'.thr = thr
  <2> HIDE DEF thr, rbr
  <2> DEFINE u1 == [uart EXCEPT !.rbr = rbr]
  <2>1. u1 \in UartState /\ u = [u1 EXCEPT !.thr = thr]
    BY <1>1, <1>2 DEF UartState
  <2> HIDE DEF u1
  <2>2. u \in UartState /\ u.thr = thr
    BY <1>2, <2>1 DEF UartState
  <2>3. uart' = WriteIer(u, q')
    BY DEF SerialInterrupt, rbr, thr
  <2> HIDE DEF u
  <2> QED
    BY <2>2, <2>3, WriteIerOK
<1>4. /\ q'["buffer"] = IF Receivable THEN Added(q["buffer"], uart.rbr) ELSE q["buffer"]
      /\ q'["txq"] = IF Transmittable THEN Taken(r) ELSE r
  BY <1>1 DEF SerialInterrupt
<1>5. Outgoing' = Outgoing
  <2>1. CASE Transmittable
    <3> DEFINE c == Contents(r)
    <3>1. ~Empty(r) /\ uart.thr = None /\ r \in IntqState /\ c \in Seq(Byte)
      BY <1>1, <2>1 DEF Transmittable, QueuesOK
    <3>2. Contents(q'["txq"]) = Tail(c) /\ c # << >> /\ Oldest(r) = Head(c)
      BY <1>4, <2>1, <3>1, ContentsTaken
    <3>3. Oldest(r) # None
      BY <3>1, QueueTypes, SerialAssumption
    <3>4. Outgoing' = <<Head(c)>> \o Tail(c)
      BY <1>3, <2>1, <3>2, <3>3 DEF Outgoing, Register
    <3>5. Outgoing = << >> \o c
      BY <3>1 DEF Outgoing, Register
    <3> HIDE DEF c
    <3>6. <<Head(c)>> \o Tail(c) = c /\ << >> \o c = c
      BY <3>1, <3>2, Pieces
    <3> QED
      BY <3>4, <3>5, <3>6
  <2>2. CASE ~Transmittable
    BY <1>3, <1>4, <2>2 DEF Outgoing, Register
  <2> QED
    BY <2>1, <2>2
<1>6. [Input!Next]_Incoming
  <2>1. CASE Receivable
    <3>1. ~Full(q["buffer"]) /\ uart.rbr \in Byte
      BY <1>1, <2>1 DEF Receivable
    <3> QED
      BY <1>4, <2>1, <3>1, IncomingAdded
  <2>2. CASE ~Receivable
    BY <1>4, <2>2 DEF Incoming
  <2> QED
    BY <2>1, <2>2
<1> QED
  BY <1>5, <1>6 DEF FifoStep

LEMMA KeyboardInterruptFifo ==
  ASSUME IInv, IInv', NEW b \in Key, KeyboardInterrupt(b)
  PROVE  FifoStep
<1>1. /\ q \in [Queue -> IntqState] /\ uart \in UartState
      /\ Queue = {"buffer", "txq"} /\ b \in Byte
  BY Types, SerialAssumption DEF IInv, Queue
<1>2. /\ q'["buffer"] = Added(q["buffer"], b) /\ ~Full(q["buffer"])
      /\ q'["txq"] = q["txq"] /\ uart' = WriteIer(uart, q')
  BY <1>1 DEF KeyboardInterrupt
<1>3. uart'.thr = uart.thr
  BY <1>1, <1>2, WriteIerOK
<1>4. Outgoing' = Outgoing
  BY <1>2, <1>3 DEF Outgoing, Register
<1>5. Input!Next
  BY <1>1, <1>2, IncomingAdded
<1> QED
  BY <1>4, <1>5 DEF FifoStep

\* A full txq: its oldest byte takes the place of what was sent.
LEMMA UnexpectedInterruptFifo ==
  ASSUME IInv, IInv', NEW b \in Byte, UnexpectedInterrupt(b)
  PROVE  FifoStep
<1> DEFINE r == q["txq"]
           u == IF Full(r) THEN [uart EXCEPT !.thr = Oldest(r)] ELSE uart
<1>1. /\ QueuesOK /\ QueuesOK' /\ uart \in UartState /\ q \in [Queue -> IntqState]
      /\ Queue = {"buffer", "txq"} /\ r \in IntqState
  BY QueuesAre, QueuesAreNext, Types DEF IInv, Queue
<1>2. u \in UartState /\ u.thr = IF Full(r) THEN Oldest(r) ELSE uart.thr
  <2>1. Oldest(r) \in Byte
    BY <1>1, QueueTypes
  <2> QED
    BY <1>1, <2>1 DEF UartState
<1>3. /\ q'["buffer"] = q["buffer"]
      /\ q'["txq"] = IF Full(r) THEN Added(Taken(r), b) ELSE Added(r, b)
      /\ uart' = WriteIer(u, q')
  BY <1>1 DEF UnexpectedInterrupt
<1> HIDE DEF u
<1>4. uart'.thr = IF Full(r) THEN Oldest(r) ELSE uart.thr
  BY <1>2, <1>3, WriteIerOK
<1>5. Incoming' = Incoming
  BY <1>3 DEF Incoming
<1>6. CASE ~Full(r)
  BY <1>3, <1>4, <1>5, <1>6, OutgoingAdded DEF FifoStep
<1>7. CASE Full(r)
  <2> DEFINE c == Contents(r)
             x == Head(c)
             s == Taken(r)
             leaving == IF uart.thr = None THEN 0 ELSE 1
  <2>1. /\ ~Empty(r) /\ s \in IntqState /\ c \in Seq(Byte) /\ Oldest(r) \in Byte
    BY <1>1, <1>7, QueueTypes DEF QueuesOK
  <2>2. Contents(s) = Tail(c) /\ c # << >> /\ Oldest(r) = x
    BY <1>1, <2>1, ContentsTaken
  <2>3. ~Full(s)
    <3>1. Len(c) = Size(r) /\ Size(r) = N - 1 /\ Len(Contents(s)) = Size(s)
          /\ (Full(s) <=> Size(s) = N - 1)
      BY <1>1, <1>7, <2>1, ContentsOf
    <3>2. Len(Tail(c)) = Len(c) - 1 /\ N \in Nat
      BY <2>1, <2>2, Pieces, IntQAssumption DEF N
    <3> QED
      BY <2>2, <3>1, <3>2
  <2>4. Contents(q'["txq"]) = Append(Tail(c), b)
    BY <1>3, <1>7, <2>1, <2>2, <2>3, ContentsAdded
  <2>5. x \in Byte /\ x # None
    BY <2>1, <2>2, SerialAssumption
  <2>6. Outgoing' = <<x>> \o Append(Tail(c), b)
    BY <1>4, <1>7, <2>2, <2>4, <2>5 DEF Outgoing, Register
  <2>7. Outgoing = Register \o c
    BY DEF Outgoing
  <2> HIDE DEF c, x
  <2>8. <<x>> \o Tail(c) = c /\ Tail(c) \in Seq(Byte)
    BY <2>1, <2>2, Pieces DEF x
  <2>9. <<x>> \o Append(Tail(c), b) = c \o <<b>>
    <3>1. <<x>> \in Seq(Byte) /\ <<b>> \in Seq(Byte)
      BY <2>5
    <3>2. Append(Tail(c), b) = Tail(c) \o <<b>>
      BY <2>8, AppendIsConcat
    <3>3. <<x>> \o (Tail(c) \o <<b>>) = (<<x>> \o Tail(c)) \o <<b>>
      BY <2>8, <3>1, ConcatAssociative
    <3> QED
      BY <2>8, <3>2, <3>3
  <2>10. SubSeq(Outgoing, leaving + 1, Len(Outgoing)) = c
    <3>1. CASE uart.thr = None
      <4>1. Outgoing = c /\ leaving = 0
        BY <2>1, <2>7, <3>1, ConcatEmptySeq DEF Register
      <4> QED
        BY <2>1, <4>1, Pieces
    <3>2. CASE uart.thr # None
      <4> DEFINE y == uart.thr
      <4>1. Register = <<y>> /\ y \in Byte /\ leaving = 1
        BY <1>1, <3>2 DEF Register, QueuesOK
      <4> HIDE DEF y
      <4>2. <<y>> \in Seq(Byte) /\ Len(<<y>>) = 1 /\ Len(c) \in Nat /\ c # << >>
        BY <2>1, <2>2, <4>1, LenProperties
      <4>3. Len(Outgoing) = 1 + Len(c)
        BY <2>1, <2>7, <4>1, <4>2, ConcatProperties
      <4> DEFINE n == Len(c)
      <4>4. n \in Nat \ {0}
        BY <2>1, <4>2, EmptySeq
      <4>5. 2 \in 1 + 1 .. 1 + n /\ 1 + n \in 1 + 1 .. 1 + n /\ 2 - 1 = 1 /\ (1 + n) - 1 = n
        BY <4>4
      <4> HIDE DEF n
      <4>6. SubSeq(<<y>> \o c, 2, 1 + n) = SubSeq(c, 2 - 1, (1 + n) - 1)
        <5>1. n = Len(c)
          BY DEF n
        <5> QED
          BY <2>1, <4>2, <4>5, <5>1, SubSeqOfConcat2
      <4>7. SubSeq(c, 1, Len(c)) = c
        BY <2>1, SubSeqFull
      <4> QED
        BY <2>7, <4>1, <4>3, <4>5, <4>6, <4>7 DEF n
    <3> QED
      BY <3>1, <3>2
  <2>11. /\ Len(Outgoing) \in Nat /\ Len(Outgoing)' <= N /\ N \in Nat \ {0}
         /\ leaving \in 0 .. Len(Outgoing) /\ leaving <= N
    <3>1. Len(Outgoing) = leaving + Len(c) /\ Len(c) \in Nat
      BY <1>1, <2>1, <2>7, RegisterIs, LenProperties DEF Register, QueuesOK
    <3> QED
      BY <1>1, <3>1, IntQAssumption DEF QueuesOK, N
  <2>12. <<b>> \in NewBytes
    BY <2>1, Pieces
  <2> HIDE DEF leaving
  <2>13. Output!Next
    BY <2>6, <2>9, <2>10, <2>11, <2>12, OutputStep
  <2> QED
    BY <1>5, <2>13 DEF FifoStep
<1> QED
  BY <1>6, <1>7

\* serial_flush: all but the last byte is gone when the power goes.
LEMMA PowerOffFifo ==
  ASSUME IInv, IInv', NEW t \in Process, PowerOff(t)
  PROVE  FifoStep
<1> DEFINE r == q["txq"]
           c == Contents(r)
           n == Len(c)
           m == Len(Outgoing)
           none == [buf |-> [i \in Position |-> Unread], head |-> r.head, tail |-> r.head]
<1>1. /\ QueuesOK /\ QueuesOK' /\ uart \in UartState /\ q \in [Queue -> IntqState]
      /\ Queue = {"buffer", "txq"} /\ r \in IntqState /\ c \in Seq(Byte)
  BY QueuesAre, QueuesAreNext, Types DEF IInv, Queue, QueuesOK
<1>2. /\ q'["buffer"] = q["buffer"] /\ q'["txq"] = none
      /\ uart'.thr = IF Empty(r) THEN uart.thr ELSE c[n]
  BY <1>1 DEF PowerOff, UartState
<1>3. Incoming' = Incoming
  BY <1>2 DEF Incoming
<1>4. Contents(q'["txq"]) = << >>
  <2>1. none \in IntqState
    BY <1>1, UnreadIsByte DEF IntqState
  <2>2. Empty(none)
    BY DEF Empty
  <2> HIDE DEF none
  <2>3. Contents(none) \in Seq(Byte) /\ Len(Contents(none)) = 0
    BY <2>1, <2>2, ContentsOf
  <2> QED
    BY <1>2, <2>3, EmptySeq
<1>5. n \in Nat /\ (Empty(r) <=> n = 0)
  BY <1>1, ContentsOf, LenProperties
<1>6. Outgoing = Register \o c /\ Register \in Seq(Byte) /\ Len(Register) \in Nat
  BY <1>1 DEF Outgoing, Register, QueuesOK
<1>7. Outgoing' = Register' \o << >>
  BY <1>4 DEF Outgoing
<1>8. CASE Empty(r)
  <2>1. c = << >>
    BY <1>1, <1>5, <1>8, EmptySeq
  <2>2. Register' = Register
    BY <1>2, <1>8 DEF Register
  <2> QED
    BY <1>3, <1>6, <1>7, <2>1, <2>2 DEF FifoStep
<1>9. CASE ~Empty(r)
  <2> DEFINE x == c[n]
  <2> HIDE DEF c, n
  <2>1. n \in 1 .. n /\ n = Len(c)
    BY <1>5, <1>9 DEF n
  <2>2. x \in Byte /\ x # None
    BY <1>1, <2>1, ElementOfSeq, SerialAssumption
  <2>3. m = Len(Register) + n /\ Outgoing[m] = x
    <3>1. /\ m = Len(Register) + n
          /\ \A i \in 1 .. Len(Register) + n :
               Outgoing[i] = IF i <= Len(Register) THEN Register[i] ELSE c[i - Len(Register)]
      BY <1>1, <1>6, <2>1, ConcatProperties
    <3> DEFINE l == Len(Register)
    <3>2. l \in Nat /\ n \in Nat \ {0}
      BY <1>5, <1>6, <1>9
    <3> HIDE DEF l
    <3>3. l + n \in 1 .. l + n /\ ~(l + n <= l) /\ (l + n) - l = n
      BY <3>2
    <3> QED
      BY <3>1, <3>3 DEF l
  <2>4. m \in 1 .. m /\ m \in Nat
    BY <1>5, <1>6, <1>9, <2>3
  <2>5. SubSeq(Outgoing, (m - 1) + 1, m) = <<x>>
    <3> HIDE DEF m, x
    <3>1. m \in m .. m /\ m = Len(Outgoing) /\ (m - 1) + 1 = m
      BY <2>4 DEF m
    <3>2. SubSeq(Outgoing, m, m) = <<Outgoing[m]>> \o SubSeq(Outgoing, m + 1, m)
      BY <1>1, <2>4, <3>1, SubSeqRecursiveFirst DEF QueuesOK
    <3>3. m + 1 \in Int /\ m \in Int /\ m < m + 1
      BY <2>4
    <3>4. SubSeq(Outgoing, m + 1, m) = << >>
      BY <3>3, SubSeqEmpty
    <3>5. <<x>> \o << >> = <<x>>
      BY <2>2, ConcatEmptySeq
    <3> QED
      BY <2>3, <3>1, <3>2, <3>4, <3>5
  <2>6. Register' = <<x>>
    BY <1>2, <1>9, <2>2 DEF Register, c, n
  <2>7. << >> \in NewBytes
    BY <1>1, Pieces
  <2>8. /\ m - 1 \in 0 .. m /\ m - 1 <= N /\ Len(Outgoing)' <= N
    BY <1>1, <2>4, IntQAssumption DEF QueuesOK, N
  <2> DEFINE leaving == m - 1
  <2>9. /\ leaving \in 0 .. Len(Outgoing) /\ leaving <= N /\ Len(Outgoing) \in Nat
        /\ Outgoing' = SubSeq(Outgoing, leaving + 1, Len(Outgoing)) \o << >>
    BY <1>7, <2>4, <2>5, <2>6, <2>8
  <2> HIDE DEF leaving
  <2>10. Output!Next
    BY <2>7, <2>8, <2>9, OutputStep
  <2> QED
    BY <1>3, <2>10 DEF FifoStep
<1> QED
  BY <1>8, <1>9

\* A process in a queue moves one byte, or none.
LEMMA LoopFifo ==
  ASSUME IInv, IInv', NEW t \in Process, NEW k \in Queue, NEW b \in Byte \union {None},
         k = "txq" => b \in Byte, NEW locks, Loop(t, k, b, locks)
  PROVE  FifoStep
<1>1. /\ QueuesOK /\ QueuesOK' /\ uart \in UartState /\ q \in [Queue -> IntqState]
      /\ Queue = {"buffer", "txq"}
  BY QueuesAre, QueuesAreNext, Types DEF IInv, Queue
<1>2. CASE MustWait(k)
  BY <1>2 DEF Loop, Sleep, FifoStep, Outgoing, Register, Incoming
<1>3. CASE ~MustWait(k)
  <2>1. /\ uart' = WriteIer(uart, q')
        /\ q' = [q EXCEPT ![k] = IF k = "buffer" THEN Taken(q[k]) ELSE Added(q[k], b)]
    BY <1>3 DEF Loop, MoveByte
  <2>2. uart'.thr = uart.thr
    BY <1>1, <2>1, WriteIerOK
  <2>3. CASE k = "buffer"
    <3>1. q'["buffer"] = Taken(q["buffer"]) /\ q'["txq"] = q["txq"] /\ ~Empty(q["buffer"])
      BY <1>1, <1>3, <2>1, <2>3 DEF MustWait
    <3>2. Outgoing' = Outgoing
      BY <2>2, <3>1 DEF Outgoing, Register
    <3> QED
      BY <3>1, <3>2, IncomingTaken DEF FifoStep
  <2>4. CASE k = "txq"
    <3>1. /\ q'["txq"] = Added(q["txq"], b) /\ q'["buffer"] = q["buffer"] /\ ~Full(q["txq"])
          /\ b \in Byte
      BY <1>1, <1>3, <2>1, <2>4 DEF MustWait
    <3>2. Incoming' = Incoming
      BY <3>1 DEF Incoming
    <3> QED
      BY <2>2, <3>1, <3>2, OutgoingAdded DEF FifoStep
  <2> QED
    BY <1>1, <2>3, <2>4
<1> QED
  BY <1>2, <1>3

LEMMA ProcessFifo ==
  ASSUME IInv, IInv', NEW t \in Process, Step(t)
  PROVE  FifoStep
<1>1. CASE Getc(t)
  BY <1>1, LoopFifo DEF Getc, Queue
<1>2. ASSUME NEW b \in Byte, Putc(t, b)
      PROVE  FifoStep
  BY <1>2, LoopFifo DEF Putc, Queue
<1>3. CASE Wake(t)
  <2> DEFINE k == proc[t].on
             b == proc[t].byte
             locks == [lock EXCEPT ![k] = Upped(@)]
  <2>1. Loop(t, k, b, locks) /\ proc[t].pc = "wait"
    BY <1>3 DEF Wake, At
  <2>2. k \in Queue /\ b \in Byte \union {None} /\ (k = "txq" => b \in Byte)
    BY <2>1, InsideQueue
  <2> HIDE DEF k, b, locks
  <2> QED
    BY <2>1, <2>2, LoopFifo
<1>4. CASE Relock(t)
  BY <1>4 DEF Relock, Sleep, FifoStep, Outgoing, Register, Incoming
<1>5. CASE ReacquireConsole(t)
  BY <1>5 DEF ReacquireConsole, AcquireConsole, FifoStep, Outgoing, Register, Incoming
<1>6. CASE ReleaseConsole(t)
  BY <1>6 DEF ReleaseConsole, FifoStep, Outgoing, Register, Incoming
<1> QED
  BY <1>1, <1>2, <1>3, <1>4, <1>5, <1>6 DEF Step

LEMMA NextFifo == IInv /\ IInv' /\ [Next]_vars => FifoStep
<1> SUFFICES ASSUME IInv, IInv', [Next]_vars
             PROVE  FifoStep
  OBVIOUS
<1>1. ASSUME NEW b \in Key, Arrive(b)
      PROVE  FifoStep
  <2>1. q' = q /\ uart'.thr = uart.thr
    <3>1. uart \in UartState
      BY Types DEF IInv
    <3> QED
      BY <1>1, <3>1 DEF Arrive, UartState
  <2> QED
    BY <2>1 DEF FifoStep, Outgoing, Register, Incoming
<1>2. ASSUME NEW b \in Key, KeyboardInterrupt(b)
      PROVE  FifoStep
  BY <1>2, KeyboardInterruptFifo
<1>3. ASSUME NEW b \in Byte, UnexpectedInterrupt(b)
      PROVE  FifoStep
  BY <1>3, UnexpectedInterruptFifo
<1>4. CASE Sent
  <2>1. Output!Next
    BY <1>4, SentFifo
  <2>2. Incoming' = Incoming
    BY <1>4 DEF Sent, Incoming
  <2> QED
    BY <2>1, <2>2 DEF FifoStep
<1>5. CASE SerialInterrupt
  BY <1>5, SerialInterruptFifo
<1>6. ASSUME NEW t \in Process, Step(t)
      PROVE  FifoStep
  BY <1>6, ProcessFifo
<1>7. ASSUME NEW t \in Process, PowerOff(t)
      PROVE  FifoStep
  BY <1>7, PowerOffFifo
<1>8. ASSUME NEW t \in Process, NEW n \in 1 .. MessageLength, Putbuf(t, n)
      PROVE  FifoStep
  BY <1>8 DEF Putbuf, AcquireConsole, FifoStep, Outgoing, Register, Incoming
<1>9. CASE UNCHANGED vars
  BY <1>9 DEF vars, FifoStep, Outgoing, Register, Incoming
<1> QED
  BY <1>1, <1>2, <1>3, <1>4, <1>5, <1>6, <1>7, <1>8, <1>9 DEF Next

(***************************************************************************)
(* The bytes that were written leave the port, and the keys come to the    *)
(* readers, in their order, each once, whatever handlers and processes do  *)
(* in between: intq.c, with serial.c and input.c over it, implements two   *)
(* bounded queues.                                                         *)
(***************************************************************************)
THEOREM BytesInOrder == Spec => ImplementsFifo
<1>1. Init => IInv
  BY InitIInv
<1>2. IInv /\ [Next]_vars => IInv'
  BY StepKeepsIInv
<1>3. Init => Output!Init /\ Input!Init
  BY InitFifo
<1>4. IInv /\ IInv' /\ [Next]_vars => [Output!Next]_Outgoing /\ [Input!Next]_Incoming
  BY NextFifo DEF FifoStep
<1>5. Spec => Output!Init /\ Input!Init /\ [][Output!Next]_Outgoing /\ [][Input!Next]_Incoming
  BY <1>1, <1>2, <1>3, <1>4, PTL DEF Spec
<1> QED
  BY <1>5, PTL DEF ImplementsFifo, Output!Spec, Input!Spec, Outgoing, Register, Incoming

================================================================================
