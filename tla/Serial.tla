--------------------------------- MODULE Serial ---------------------------------
(***************************************************************************)
(* Console input and output: read from the keyboard and the serial port    *)
(* (devices/input.c, kbd.c), write to the serial port through txq          *)
(* (devices/serial.c, lib/kernel/console.c), and the interrupt queues      *)
(* under both (devices/intq.c).                                            *)
(*                                                                         *)
(* intq code runs with interrupts off, so a step lasts until its thread    *)
(* sleeps, or turns interrupts on.  Processes have equal priorities: none  *)
(* is preempted by the sema_up in lock_release, a woken one runs whenever  *)
(* the scheduler gets to it, and nobody donates a priority.                *)
(***************************************************************************)
EXTENDS IntQ, FiniteSets

CONSTANTS
  Process,
  None,           \* no process, no byte
  Key,            \* the bytes that come in
  MessageLength,  \* bound: bytes in one call of write
  Unexpected      \* bound: unexpected interrupts that print a byte

ASSUME SerialAssumption ==
  /\ None \notin Process \union Byte /\ Key \subseteq Byte
  /\ MessageLength \in Nat \ {0} /\ Unexpected \in Nat

VARIABLES
  q,        \* the two queues: `buffer' of input.c, `txq' of serial.c
  lock,     \* `lock' of each queue, and console_lock: value and waiters
  waiter,   \* `not_empty' of buffer and `not_full' of txq
  proc,     \* place in the code, byte to write, bytes to write after it
  uart,     \* receive buffer, transmit holding register, enabled interrupts
  stopped,  \* the kernel has halted, or an ASSERT has failed
  count     \* unexpected interrupts so far

vars == <<q, lock, waiter, proc, uart, stopped, count>>

Queue == {"buffer", "txq"}

Lock == Queue \union {"console"}

(***************************************************************************)
(* A process is at "run" outside this code; "console" sleeps for           *)
(* console_lock, "have" has it and is about to put a byte; "lock" sleeps   *)
(* for the lock of a queue and "wait" in `wait'.                           *)
(***************************************************************************)
PC == {"run", "console", "have", "lock", "wait"}

TypeOK ==
  /\ q \in [Queue -> IntqState]
  /\ lock \in [Lock -> [value : 0 .. 1, waiters : Seq(Process)]]
  /\ waiter \in [Queue -> Process \union {None}]
  /\ proc \in [Process -> [pc : PC, on : Queue \union {None}, byte : Byte \union {None},
                           left : 0 .. MessageLength]]
  /\ uart \in [rbr : Byte \union {None}, thr : Byte \union {None},
               recv : BOOLEAN, xmit : BOOLEAN]
  /\ stopped \in {"no", "ASSERT", "off"}
  /\ count \in 0 .. Unexpected

\* After serial_init_queue.
Init ==
  /\ q = [k \in Queue |-> IntqInit]
  /\ lock = [l \in Lock |-> [value |-> 1, waiters |-> << >>]]
  /\ waiter = [k \in Queue |-> None]
  /\ proc = [t \in Process |->
              [pc |-> "run", on |-> None, byte |-> None, left |-> 0]]
  /\ uart = [rbr |-> None, thr |-> None, recv |-> TRUE, xmit |-> FALSE]
  /\ stopped = "no"
  /\ count = 0

Alive == stopped = "no"

Asleep(t) ==
  \/ \E k \in Queue : waiter[k] = t
  \/ \E l \in Lock : \E i \in DOMAIN lock[l].waiters : lock[l].waiters[i] = t

At(t, pc) == Alive /\ proc[t].pc = pc /\ ~Asleep(t)

Goto(t, pc) == proc' = [proc EXCEPT ![t] = [@ EXCEPT !.pc = pc]]

\* sema_down and sema_up of a lock; its waiters have equal priorities.
Free(l) == l.value = 1
Downed(l) == [l EXCEPT !.value = 0]
Queued(l, t) == [l EXCEPT !.waiters = Append(@, t)]
Upped(l) == [value |-> 1, waiters |-> IF l.waiters = << >> THEN << >> ELSE Tail(l.waiters)]

---------------------------------------------------------------------------------
(***************************************************************************)
(* The serial port.                                                        *)
(***************************************************************************)
\* Wrong on purpose: the transmit interrupt stays as it was.
WriteIerRecvOnly(u, queues) == [u EXCEPT !.recv = ~Full(queues["buffer"])]

\* write_ier, once the queues have changed
WriteIer(u, queues) ==
  [u EXCEPT !.recv = ~Full(queues["buffer"]), !.xmit = ~Empty(queues["txq"])]

\* A byte comes in, or the byte in the holding register goes out.
Arrive(b) ==
  /\ Alive
  /\ uart.rbr = None
  /\ uart' = [uart EXCEPT !.rbr = b]
  /\ UNCHANGED <<q, lock, waiter, proc, stopped, count>>

Sent ==
  /\ Alive
  /\ uart.thr # None
  /\ uart' = [uart EXCEPT !.thr = None]
  /\ UNCHANGED <<q, lock, waiter, proc, stopped, count>>

\* Wrong on purpose: only a thread that waits for a byte is told.
SignalledReader(ks) ==
  [k \in Queue |-> IF k \in ks /\ k = "buffer" THEN None ELSE waiter[k]]

\* `signal': the sleeping process, if any, becomes ready.
Signalled(ks) == [k \in Queue |-> IF k \in ks THEN None ELSE waiter[k]]

Receivable == ~Full(q["buffer"]) /\ uart.rbr # None

Transmittable == ~Empty(q["txq"]) /\ uart.thr = None

InterruptPending ==
  /\ Alive
  /\ \/ uart.recv /\ uart.rbr # None
     \/ uart.xmit /\ uart.thr = None

\* serial_interrupt: each register holds one byte, so each loop moves at most one.
SerialInterrupt ==
  /\ InterruptPending
  /\ q' = [q EXCEPT !["buffer"] = IF Receivable THEN Added(@, uart.rbr) ELSE @,
                    !["txq"] = IF Transmittable THEN Taken(@) ELSE @]
  /\ waiter' = Signalled((IF Receivable THEN {"buffer"} ELSE {})
                         \union (IF Transmittable THEN {"txq"} ELSE {}))
  /\ uart' = WriteIer([uart EXCEPT !.rbr = IF Receivable THEN None ELSE @,
                                   !.thr = IF Transmittable THEN Oldest(q["txq"]) ELSE @], q')
  /\ UNCHANGED <<lock, proc, stopped, count>>

\* keyboard_interrupt for an ordinary character: without room it is dropped.
KeyboardInterrupt(b) ==
  /\ Alive
  /\ ~Full(q["buffer"])
  /\ q' = [q EXCEPT !["buffer"] = Added(@, b)]
  /\ waiter' = Signalled({"buffer"})
  /\ uart' = WriteIer(uart, q')
  /\ UNCHANGED <<lock, proc, stopped, count>>

(***************************************************************************)
(* serial_putc in a handler, which prints that an interrupt is unexpected: *)
(* with a full queue one byte is put out by polling, once the holding      *)
(* register is empty.                                                      *)
(***************************************************************************)
UnexpectedInterrupt(b) ==
  /\ Alive
  /\ count < Unexpected
  /\ count' = count + 1
  /\ IF Full(q["txq"])
       THEN /\ q' = [q EXCEPT !["txq"] = Added(Taken(@), b)]
            /\ waiter' = Signalled({"txq"})
            /\ uart' = WriteIer([uart EXCEPT !.thr = Oldest(q["txq"])], q')
       ELSE /\ q' = [q EXCEPT !["txq"] = Added(@, b)]
            /\ uart' = WriteIer(uart, q')
            /\ UNCHANGED waiter
  /\ UNCHANGED <<lock, proc, stopped>>

---------------------------------------------------------------------------------
(***************************************************************************)
(* intq_getc and intq_putc in a thread, with the locks that it leaves      *)
(* behind when it comes to the test of the loop.                           *)
(***************************************************************************)
MustWait(k) == IF k = "buffer" THEN Empty(q[k]) ELSE Full(q[k])

Returned(p, k) ==
  [p EXCEPT !.pc = IF k = "buffer" THEN "run" ELSE "have", !.on = None, !.byte = None,
            !.left = IF k = "buffer" THEN @ ELSE @ - 1]

\* The byte moves, write_ier follows and the call returns.
MoveByte(t, k, b, locks) ==
  /\ q' = [q EXCEPT ![k] = IF k = "buffer" THEN Taken(@) ELSE Added(@, b)]
  /\ uart' = WriteIer(uart, q')
  /\ lock' = locks
  /\ proc' = [proc EXCEPT ![t] = Returned(@, k)]
  /\ UNCHANGED <<waiter, stopped, count>>

\* lock_acquire, and `wait', which asserts what was just tested
Sleep(t, k, b, locks) ==
  /\ lock' = [locks EXCEPT ![k] = IF Free(@) THEN Downed(@) ELSE Queued(@, t)]
  /\ waiter' = IF Free(locks[k]) THEN [waiter EXCEPT ![k] = t] ELSE waiter
  /\ proc' = [proc EXCEPT ![t] =
                [@ EXCEPT !.pc = IF Free(locks[k]) THEN "wait" ELSE "lock",
                          !.on = k, !.byte = b]]
  /\ UNCHANGED <<q, uart, stopped, count>>

Loop(t, k, b, locks) ==
  IF MustWait(k) THEN Sleep(t, k, b, locks) ELSE MoveByte(t, k, b, locks)

\* input_getc
Getc(t) == At(t, "run") /\ Loop(t, "buffer", None, lock)

\* serial_putc
Putc(t, b) ==
  /\ At(t, "have")
  /\ proc[t].left > 0
  /\ Loop(t, "txq", b, lock)

\* Wrong on purpose: a thread that was woken does not test the condition again.
WakeUntested(t) ==
  /\ At(t, "wait")
  /\ LET k == proc[t].on
     IN  MoveByte(t, k, proc[t].byte, [lock EXCEPT ![k] = Upped(@)])

\* Back from `wait': lock_release, and round the loop.
Wake(t) ==
  /\ At(t, "wait")
  /\ LET k == proc[t].on
     IN  Loop(t, k, proc[t].byte, [lock EXCEPT ![k] = Upped(@)])

(***************************************************************************)
(* Back in lock_acquire: the lock may be taken again, and when it is not   *)
(* the condition may be true, which `wait' does not allow.                 *)
(***************************************************************************)
Relock(t) ==
  /\ At(t, "lock")
  /\ LET k == proc[t].on
     IN  \/ /\ ~Free(lock[k])
            /\ lock' = [lock EXCEPT ![k] = Queued(@, t)]
            /\ UNCHANGED <<q, waiter, proc, uart, stopped, count>>
         \/ /\ Free(lock[k]) /\ MustWait(k)
            /\ Sleep(t, k, proc[t].byte, lock)
         \/ /\ Free(lock[k]) /\ ~MustWait(k)
            /\ stopped' = "ASSERT"
            /\ UNCHANGED <<q, lock, waiter, proc, uart, count>>

---------------------------------------------------------------------------------
(***************************************************************************)
(* putbuf, and the end of the kernel.                                      *)
(***************************************************************************)
\* acquire_console, with N bytes to write
AcquireConsole(t, n) ==
  /\ lock' = [lock EXCEPT !["console"] = IF Free(@) THEN Downed(@) ELSE Queued(@, t)]
  /\ proc' = [proc EXCEPT ![t] = [@ EXCEPT !.pc = IF Free(lock["console"]) THEN "have"
                                                  ELSE "console",
                                           !.left = n]]
  /\ UNCHANGED <<q, waiter, uart, stopped, count>>

\* Wrong on purpose: console_lock is left out.
PutbufUnlocked(t, n) ==
  /\ At(t, "run")
  /\ proc' = [proc EXCEPT ![t] = [@ EXCEPT !.pc = "have", !.left = n]]
  /\ UNCHANGED <<q, lock, waiter, uart, stopped, count>>

Putbuf(t, n) == At(t, "run") /\ AcquireConsole(t, n)

ReacquireConsole(t) == At(t, "console") /\ AcquireConsole(t, proc[t].left)

ReleaseConsole(t) ==
  /\ At(t, "have")
  /\ proc[t].left = 0
  /\ lock' = [lock EXCEPT !["console"] = Upped(@)]
  /\ Goto(t, "run")
  /\ UNCHANGED <<q, waiter, uart, stopped, count>>

\* serial_flush in shutdown_power_off: polling puts out all there is.
PowerOff(t) ==
  /\ At(t, "run")
  /\ q' = [q EXCEPT !["txq"] = [buf |-> [i \in Position |-> Unread],
                                 head |-> @.head, tail |-> @.head]]
  /\ waiter' = IF Empty(q["txq"]) THEN waiter ELSE Signalled({"txq"})
  /\ uart' = [uart EXCEPT !.thr =
                IF Empty(q["txq"]) THEN @ ELSE Contents(q["txq"])[Len(Contents(q["txq"]))]]
  /\ stopped' = "off"
  /\ UNCHANGED <<lock, proc, count>>

Step(t) ==
  \/ Getc(t) \/ \E b \in Byte : Putc(t, b)
  \/ Wake(t) \/ Relock(t)
  \/ ReacquireConsole(t) \/ ReleaseConsole(t)

Next ==
  \/ \E b \in Key : Arrive(b) \/ KeyboardInterrupt(b)
  \/ \E b \in Byte : UnexpectedInterrupt(b)
  \/ Sent \/ SerialInterrupt
  \/ \E t \in Process : Step(t) \/ PowerOff(t) \/ \E n \in 1 .. MessageLength : Putbuf(t, n)

Spec == Init /\ [][Next]_vars

(***************************************************************************)
(* The port sends what it was given, an interrupt that is enabled and due  *)
(* comes, and the scheduler gets round to each process.                    *)
(***************************************************************************)
FairSpec ==
  /\ Spec
  /\ []<>(~Alive \/ uart.thr = None) \/ []<><<Sent>>_vars
  /\ []<>~InterruptPending \/ []<><<SerialInterrupt>>_vars
  /\ \A t \in Process : []<>(~Alive \/ Asleep(t) \/ proc[t].pc = "run") \/ []<><<Step(t)>>_vars

---------------------------------------------------------------------------------
(***************************************************************************)
(* Both queues are first in, first out (devices/intq.c): no byte that was  *)
(* written is lost, doubled or overtaken on its way through txq and the    *)
(* holding register, whoever puts it there and however it leaves; and no   *)
(* key that was accepted on its way to a reader.                           *)
(***************************************************************************)
Output == INSTANCE BoundedFifo WITH
  Capacity <- INTQ_BUFSIZE,
  queue <- (IF uart.thr = None THEN << >> ELSE <<uart.thr>>) \o Contents(q["txq"])

Input == INSTANCE BoundedFifo WITH
  Capacity <- INTQ_BUFSIZE - 1,
  queue <- Contents(q["buffer"])

ImplementsFifo == Output!Spec /\ Input!Spec

(***************************************************************************)
(* A process sleeps in `wait' only while the queue gives it nothing to do  *)
(* and the interrupt that will is enabled, and for the lock of a queue     *)
(* only while another has it, or has been woken for it.                    *)
(***************************************************************************)
NoLostWakeup ==
  /\ TypeOK
  /\ uart.recv = ~Full(q["buffer"])
  /\ \A k \in Queue :
       /\ waiter[k] # None /\ Alive =>
            /\ proc[waiter[k]].pc = "wait" /\ proc[waiter[k]].on = k
            /\ MustWait(k)
            /\ k = "txq" => uart.xmit
       /\ lock[k].value = 0 <=> \E t \in Process : proc[t].pc = "wait" /\ proc[t].on = k
       /\ lock[k].waiters # << >> =>
            \/ lock[k].value = 0
            \/ \E t \in Process : proc[t].pc = "lock" /\ proc[t].on = k /\ ~Asleep(t)

(***************************************************************************)
(* console_lock keeps writers out of each other's messages, so a thread    *)
(* that puts a byte never meets another at the lock of txq, and the        *)
(* condition it waits for cannot change before it waits.                   *)
(***************************************************************************)
OneWriter ==
  Cardinality({ t \in Process : \/ proc[t].pc = "have"
                                \/ proc[t].pc \in {"wait", "lock"} /\ proc[t].on = "txq" }) <= 1

(***************************************************************************)
(* Bytes in txq go on being sent, and a process that writes comes to the   *)
(* end of its message.                                                     *)
(***************************************************************************)
OutputMoves ==
  /\ []<>(Empty(q["txq"]) \/ uart.thr # None \/ ~Alive)
  /\ \A t \in Process :
       (proc[t].pc = "have" \/ proc[t].on = "txq") ~> (proc[t].pc = "run" \/ ~Alive)

(***************************************************************************)
(* "Waits until the given condition is true" (intq.c:85): the condition is *)
(* false when a thread comes to wait for it.                               *)
(***************************************************************************)
WaitFindsCondition == stopped # "ASSERT"

=================================================================================
