# A verification of the Pintos kernel in `src/CS140/pintos/src`

The repository holds several things that do not interact: a Pintos teaching
kernel with its solutions (`CS140/pintos`), a vendored Bochs emulator
(`CS140/tools`), and web pages and exercises at the top level. The program with
logic worth verifying is the kernel, and this directory is about it. Paths below
are relative to `CS140/pintos/src`.

TLC checks every run in `PROJECT.json` on a small instance; TLAPS checks the
theorems in the modules `*Proofs` for all instances. To repeat:

    tlc -config Scheduler.cfg SchedulerSlice.tla
    tlapm SchedulerProofs.tla

## Inventory

| component | state it keeps | operations | correct when |
|---|---|---|---|
| `threads/thread.c` scheduler | `ready_list`, status and priority of each `struct thread`, `thread_ticks` | create, block, unblock, yield, exit, set priority, tick, idle loop | statuses, CPU and ready list agree; the highest priority runs; equals take turns; no halt with work |
| `threads/interrupt.c` | `in_external_intr`, `yield_on_return` | deliver an interrupt, yield on return | a handler that wakes a thread preempts the one it interrupted |
| `threads/synch.c` semaphores | value, waiters | down, try down, up | no lost wakeup, highest waiter first, each unit taken once |
| `threads/synch.c` locks | holder, `holder_priority`, `owning_locks`, `waiting_locks` | acquire with donation, release | one owner; donation raises; priorities are restored |
| `threads/synch.c` conditions | list of private semaphores | wait, signal, broadcast | no lost signal, highest waiter first, lock held on return |
| `devices/timer.c` alarm clock | `ticks`, `sleep_list` | sleep, tick | sleepers wake, on time, once |
| MLFQS (`thread.c`, `fixedpoint.h`) | `nice`, `recent_cpu`, `load_avg` | recalculation on ticks | priorities follow `recent_cpu`, nobody starves |
| `userprog/process.c`, `syscall.c` | parent, exit statuses, `wait_child_load`, `being_waited`, open files, `fs_lock` | exec, wait, exit, file calls, mmap | parent gets the status once, does not hang, exec reports its own child's load |
| `userprog/exception.c`, `pagedir.c` | page directory bits | page fault | faults resolved or process killed |
| `vm/` | frame table, page tables, swap bitmap | allocate, evict, map, swap | a frame belongs to one page or is free, an eviction ends, no fault under `fs_lock` |
| `filesys/` | open inodes, directory, free map | create, open, read, write, remove, close | the disk sound after a crash, sectors owned once, removal deferred to the last close, programs not written while they run |
| `threads/palloc.c`, `malloc.c`, `lib/kernel/bitmap.c` | pools, arenas, bitmaps | get, free | no block handed out twice |
| `devices/intq.c`, `kbd.c`, `serial.c`, `input.c` | ring buffers, one waiting slot each way | get, put, interrupt | bytes in order, waiter woken, no overwrite |
| `devices/ide.c`, `block.c`, `partition.c` | channel lock, `expecting_interrupt`, `completion_wait` | read, write, interrupt | one request per channel, each completion awaited once |
| `lib/kernel/list.c` | links | ordered insertion, sort, removal | an element on one list, order kept |
| start-up, console, vga, pit, rtc, speaker, shutdown, C library | hardware registers | output, set-up | straight-line code, not modelled |
| tests, examples, utils, Bochs, web pages | | | clients, tools or unrelated |

How they interact: every blocking operation ends in `thread_block`, every wakeup
in `thread_unblock` and `thread_preemption`. Semaphores use only the scheduler;
locks use semaphores and change priorities in the scheduler; conditions use
both; the timer handler calls the scheduler and wakes sleepers; device handlers
up semaphores. Processes, the file system, virtual memory and the drivers are
clients of these.

What makes it hard: the kernel has one CPU and turns interrupts off for mutual
exclusion, and where it forgets to, a tick may run another thread between any
two statements. `struct thread` has one `elem` for the ready list, wait lists
and `sleep_list` alike. Priorities change while a thread sits in a sorted list.
All hazards, with the property that covers each or the reason that none does
yet, are listed in `PROJECT.json`.

## How the code becomes actions

* **One CPU.** Only the thread `sched.cur` takes steps. Code between
  `intr_disable` and `intr_set_level` is one action; code that runs with
  interrupts on is split where shared state is read or written, and a thread's
  place is kept in `pc` (`stage` in `AlarmClock`). `TimerInterrupt` (`AlarmInterrupt`) and the device interrupts (`AlarmDevice`) are
  enabled in every state in which interrupts are on. A thread that is resumed inside
  `sema_down` has interrupts off until it has looked at the value again.
* **Interrupts.** `intr_handler` is one action: the handler, and
  `thread_yield` on return if `yield_on_return` was set. `Scheduler` counts
  ticks as the code does. The other modules use `Interrupted` (in `AlarmClock`
  `HandlerReturns` and `HandlerPreempts`), which allows the end of a time slice at any tick.
* **Several threads in one piece of code.** `Process`, `FileSystem`, `VirtualMemory`
  and `Serial` leave the scheduler out and let any thread take the next step: one
  step is one access to what is shared (in `FileSystem` a write to the disk or an
  access to `open_inodes` or an open inode, in `VirtualMemory` one to the pool, the frame table or
  the page tables, in `Serial` what runs with interrupts off).
* **Crashes.** `Crash` of `FileSystem` loses everything in memory between any
  two steps and reads the free map again, as `filesys_init` does.
* **Undefined outcomes.** An `ASSERT` that fails and a null pointer that is
  dereferenced stop the kernel: `sched.panic`. Where a stale element is
  followed, the model either takes every outcome (`ScanStale`) or stops, when
  nothing definite can be said any more (`tangled`, `DonateFault`, `wild`, `raced`, `halted`).
* **Lists** are sequences (`KernelList`), except `waiting_locks`, whose bug is in
  the links: `Locks` keeps these.

## Modules

| module | models | state ↔ code |
|---|---|---|
| `KernelList` | `list_insert_ordered`, `list_sort`, `thread_compare` | operators on sequences |
| `Threads` | the variable `sched`, and the scheduler functions as operators on it | `cur`, `status`, `priority`, `ready`, `thread_ticks`, `yield_on_return`, `panic` |
| `Scheduler` | threads and interrupts that use them | `pc` and `local` for the statements of `thread_create` and `thread_set_priority` that run with interrupts on, and for the idle loop |
| `SchedulerSlice` | `Scheduler` with a count of ticks since the last switch | `elapsed` is a history variable |
| `Semaphores` | bodies of `sema_down`, `sema_try_down`, `sema_up` | operators on a scheduler state and one semaphore |
| `Semaphore` | threads and handlers on several semaphores | `sema`; `downing` names the semaphore in whose loop a thread is |
| `CountingSemaphore` | abstract specification: units taken and given | implemented by `Semaphore` |
| `AlarmClock` | `timer_sleep`, wakeups in `timer_interrupt`, handlers of other devices | `sleep_list`; `left` is `sleep_end - ticks`; `stage` is the statement, or "wait" for a thread blocked elsewhere (`Await`), which `AlarmDevice` wakes; `before` the element that the search ended at; `clean` and `tangled` are history variables |
| `Locks` | `lock_acquire`, `multiple_donate`, `lock_release`, `set_max_priority_donated`, `thread_set_priority` of an owner | fields of `struct lock`; `link`, `last` are the pointers of `waiting_locks`; `donating` is the call stack of `multiple_donate` |
| `Condition` | `cond_wait`, `cond_signal`, `cond_broadcast`, `cond_compare` | `waiters`, and `private`, the semaphore in each `struct semaphore_elem` |
| `Process` | `process_execute`, `start_process`, `process_wait`, `process_exit` under exec, wait and exit | `thread[t]` has the fields of `struct thread`, semaphores by their values; `pc` is the statement; `wild` marks the use of a freed page, `asked` is history |
| `Mlfqs` | the recalculations of `timer_interrupt` and `thread_set_nice` on the scheduler of `Threads` | `nice`, `recent_cpu`, `load_avg` and `ticks` are the code's; `fresh` is history |
| `Bitmap` | `bitmap_scan`, `bitmap_scan_and_flip` | a bitmap is the set of its bits that are set |
| `FileSystem` | `filesys/` under system calls, `load` and `process_exit` | `disk` is what is written, `freeMap` and `inode` are in memory; an inode is `listed` while a walk over `open_inodes` finds it; `fsLock` is `fs_lock`; `Meet` is a preemption in the middle of a list operation or count; `hist` is history |
| `VirtualMemory` | `vm/`, `page_fault`, mmap, munmap, loading and exit | `pool` is the user pool, `frameTable` the frame table, each process has `page_table`, `pagedir`, `mmap_file`; `hist` is history |
| `IntQ` | the ring buffer of `intq.c` | operators on one record |
| `Serial` | `input_getc`, `serial_putc` and their queues, interrupt handlers, `putbuf` | `q`, `waiter` and `lock` are the fields of `struct intq`; `uart` the registers of the port |
| `BoundedFifo` | abstract specification: bytes leave in the order they came | implemented twice by `Serial`, for output and for input |
| `MC*` | instances for TLC | |
| `ThreadsProofs` | lemmas on the operators of `Threads`, `KernelList` and `Semaphores` | |
| `SchedulerProofs` | theorems on `Scheduler`, `SchedulerSlice`, `AlarmClock` and `Mlfqs` | |
| `ProcessProofs` | theorems on `Process` and `VirtualMemory` | |
| `SemaphoreProofs`, `LocksProofs`, `ConditionProofs`, `SerialProofs`, `FileSystemProofs` | theorems on the module of that name | |

`Semaphores` and `Locks`, `Semaphore`, `Condition`, `AlarmClock` and `Mlfqs` all extend
`Threads`, so the same translation of the scheduler is underneath all of them.
`AlarmClock`, `Mlfqs` and `VirtualMemory` put their own name before `Init`, `Next`,
`Spec` and the like, since a module of proofs extends two or three specifications.
Definitions marked "Wrong on purpose" are not part of any specification: each is a
plausible bug in one definition, and `PROJECT.json` says which property
it breaks.

Simplifications, each on the side of fewer interleavings:

* In `Locks` the reads and the write of one turn of the loop of
  `multiple_donate`, and the whole of `set_max_priority_donated`, are one step
  although interrupts are on. `holder_priority` is assigned in the same step as
  the insertion into `owning_locks`. What is a step of its own is every read of
  `lock->holder` in `lock_acquire`, whose races the runs exhibit.
  In `thread_set_priority` the loop over `owning_locks` is one step, and the
  walk over `ready_list` another, which `Scheduler` takes apart.
* In `AlarmClock` the search and the insertion of `list_insert_ordered` are two
  steps, not one per element or store. If a handler takes sleepers off the list while
  a thread searches, the search may go astray, and if one comes between the stores of
  `list_insert`, links may be lost: the handler's step then tangles the lists or not,
  as it likes. Threads neither yield nor change their priority there.
* In `Condition` `list_sort` is one step; a comparison sees no change half-way.
  With three or more waiters that are not asleep `list_sort` may also loop for
  ever; the model stops in either case. The lock is a semaphore without
  donation.
* `Process` leaves the scheduler out: its processes have one priority and a
  semaphore there has one possible waiter, so any interleaving may come about.
  The walk of `thread_get_by_id` over `all_list`, which has interrupts on, is one
  step; a thread that exits under it, or takes itself off the list there, is not
  modelled.
  Files, pages and `fs_lock` are left out too. The page of a dead process reads
  as 0xcc; if it may already be another's, the model also stops (`wild`).
* In `FileSystem` the two stores of `list_remove` are two steps, and the walk of
  `inode_open` is one, its push or count another; the model does not keep the order of
  `open_inodes`. It need not, as nothing but `process_exit` comes to the list without
  `fs_lock`: where such a process is inside `list_remove` (`Unlinking`) while another
  is too, or is in a call that walks the list or changes it, and where two are at one
  count (`AtOnce`), the step `Meet` may be taken, which says that one preempts the
  other in the middle, and the model stops (`raced`). Two outcomes are kept as
  well: an inode is found while its last user is closing it, and a new
  inode is put in front of one that was first and is half removed (`halfOut`), so that no
  walk comes to it (`OpenInodesListed`). The model stops after either.
  A change of the free map and its write to disk are one step, bits of it are set and
  cleared atomically, and `bitmap_write` succeeds. A call
  that fails before it has changed anything is no step. File contents, positions,
  reads and file descriptors are left out. A failure of `setup_stack`
  is a load that ends and a process that exits.
* In `VirtualMemory` dirty pages are not written back (the executable denies it,
  and pages of mappings are never read in), `malloc` succeeds, the
  kernel pool fails only in `install_page`, and mappings are of one page.
  Zero-filled pages are as others. The model stops at an `_mmap` that loops
  and at a scan of what is not there (`halted`).
* In `Serial` processes have one priority. A handler prints one byte, scan codes and
  shift keys are left out, and so are the screen and the polled modes before
  `serial_init_queue`.
* In `Mlfqs` nobody is on `sleep_list`; a thread blocks and is woken by a handler.
  New threads are there from the beginning.
* In `Scheduler` a thread blocks when it likes and any blocked thread may be
  woken: the callers are the other modules. Its device interrupt is a handler that
  ups a semaphore; one that wakes a thread through `intq.c` and does not preempt is in
  `AlarmClock` and `Serial`. Its threads own no locks, so nobody donates: a
  donation to a READY holder (`synch.c:265`, `synch.c:222`) raises its priority and
  leaves it where it is in `ready_list`. `Sorted` and `HighestRuns`, and their theorems, hold
  without donation only; `Locks`, which has it, claims neither.

## Runs

Passing runs:

| run | instance | what it shows |
|---|---|---|
| `scheduler` | main and two threads, three priorities, slice of four, fair timer | `Consistent`, `Sorted`, `HighestRuns`, `NoHaltWithWork` (without donation, see below); no thread runs longer than `TIME_SLICE` ticks; equals of the top priority take turns (`TopPriorityRuns`) |
| `semaphore` | three threads, two semaphores, three priorities, values up to two, fair slices | one list per thread, no lost wakeup, highest first, refinement of `CountingSemaphore`; among threads of one priority a unit does not lie idle while threads wait |
| `alarm` | three threads, two priorities, sleeps up to two ticks, fair timer | with ticks and device handlers at every statement, every blocked sleeper is on `sleep_list`, up to a tangle or a panic, and wakes, even from an unsorted list; while `clean`, wakeups are exact and nothing goes wrong |
| `locks` | three threads of priorities 2, 1, 0, one lock; main may give its priority up | one owner, `holder` names only the owner (`OneOwner`), no lost wakeup |
| `condition` | four threads, two priorities | no lost signal, monitor exclusive, order among sleepers |
| `process` | the kernel and processes 62, 63 and 64, fair CPU | nobody sleeps in exec or wait for a child that will not wake it; both return; the status of a child that is gone stays in the table until its parent asks |
| `filesys` | two processes, two names, seven sectors, files of one or two sectors, one open file each, two creations | what is on disk is sound at every moment, so after any crash; only failed creates and crashes lose sectors; until two processes meet (`Meet`), an open inode keeps its sectors though its file is removed, a sector has one inode, `open_cnt` and `deny_write_cnt` are exact and no running program is written |
| `vm` | two processes of one executable page and two of stack, two frames | a frame has one user or is free, also between the steps of munmap and exit; the frame table agrees; nothing with a frame can be evicted; no call faults while it holds `fs_lock` |
| `serial` | two processes, queues of two bytes, messages of up to two, one unexpected interrupt, fair port and scheduler | both queues are first in, first out (`BoundedFifo`), polled or not; nobody sleeps through its condition; messages are not mixed; output goes on and writers return |
| `mlfqs` | three threads, the code's priorities, slice and tick rate, `f` 24, `Window` 12 | a priority lags by its own thread's ticks since the recalculation and by no more; every ready thread runs, although `ready_list` is not in order |

`QuietWindow` and `WokenOnTime` are about the behaviours in which no handler, of
the timer or of another device, has woken a sleeper during a search of
`sleep_list` or between the search and `thread_block`, nor taken the CPU between
them (`clean`). Ticks that find nobody due, handlers that wake threads
elsewhere, and preemptions during the search may come at any time. Turning interrupts
off before `list_insert_ordered`, and not after it, leaves no other behaviours, so
the two show that it is enough to mend the alarm clock.

`OpenIsKept` and `CountsExact` hold up to the moment at which two processes are inside
operations on the same list or count (`Meet`). Such a moment comes only because
`process_exit` closes files without `fs_lock`; `OpenInodesListed` and `LastCloseIsFinal` below
are what it breaks.

Violated runs, each a disagreement of the code with a comment or an assertion,
quoted in the findings of `PROJECT.json`:

| run | instance | what happens |
|---|---|---|
| `process_wait` | that of `process` | wait returns a status plus one: the child's, if it is on its way out, or a sibling's |
| `vm_evict` | that of `vm` with one frame | no page that has a frame is ever EVICTABLE, so `frame_alloc_evict` scans for ever, with `frame_table_lock` held |

The modules state some more that the code does not keep. TLC violates each of
these on the instance named; none is among the runs:

| property | instance | what happens |
|---|---|---|
| `WalkStaysOnReadyList` (`Scheduler`) | `scheduler` | `thread_set_priority` walks off `ready_list` after a preemption |
| `FullSlice` (`SchedulerSlice`) | `scheduler` | a slice lasts two ticks in place of four, as `thread_ticks` is advanced twice per tick |
| `HighestAfterTick` (`Mlfqs`) | `mlfqs` | a recalculation gives the front of `ready_list` a lower priority than a thread behind it, and the wrong one runs (`thread.c:732`). A donation to a READY holder does the same to `ready_list` (`synch.c:265`, `synch.c:222`), so `Sorted` and `HighestRuns` of `scheduler` hold without donation only |
| `WakesOnlyBlocked` (`AlarmClock`) | `alarm` | `timer_sleep` joins `sleep_list` with interrupts on; the timer wakes a thread that has yet to block, and `thread_unblock` panics |
| `ElemOnOneList`, `SleepListSorted` (`AlarmClock`) | `alarm` | a sleeper is preempted before it blocks, by a tick or a device; two insertions overlap |
| `OwnerInherits` (`Locks`) | three threads, two locks | a thread waits for a lock whose owner has not been written to `holder` yet, and donates to nobody |
| `DonatesToHolder`, `DonationRaises` (`Locks`) | three threads, two locks | the lock is released, or passes to a thread of higher priority, between the test of `holder` and its use |
| `WaitingListsClosed` (`Locks`) | three threads, two locks | one `waitelem` per lock, never taken off `waiting_locks`, is linked in twice |
| `WaitsForHeldLocks` (`Locks`) | three threads, two locks | `multiple_donate` comes to a lock that its thread got long ago |
| `PriorityCanBeSet` (`Locks`) | `locks` | an owner whose lock nobody waits for calls `thread_set_priority`, which takes the front of an empty list |
| `PrioritySetBack` (`Locks`) | three threads, two locks | a donated priority outlives the locks |
| `WaitersSortable` (`Condition`) | `condition` | `cond_compare` is no order while two waiters are not asleep yet, and `list_sort` ends in an assertion |
| `SignalsHighest` (`Condition`) | `condition` | a waiter that is not asleep is signalled before one of higher priority |
| `ExecReportsLoad` (`Process`) | `process` | exec returns a tid before its program has been loaded, or loaded at all: each exit ups `wait_child_load` once more, and nothing sets `child_load_success` back |
| `OpenInodesListed` (`FileSystem`) | `filesys` | `process_exit` is preempted inside `list_remove` of the first inode; `inode_open` puts a new inode in front of it, which no walk finds any more, so that its sector gets a second one |
| `LastCloseIsFinal` (`FileSystem`) | `filesys` | `process_exit` closes files without `fs_lock`, and a call finds the inode after its count is zero and before it is off the list, or holds it when it is freed |
| `EntriesCurrent` (`VirtualMemory`) | `vm` with three frames, one mapping | munmap of a mapping over a stack page takes the stack's page out of `page_table`; the frame is freed at exit but stays in the frame table |
| `WaitFindsCondition` (`Serial`) | `serial` | of two readers one is woken and takes the byte, another byte comes, and the second gets the lock and asserts in `wait` that the queue is empty |

Why the bounds suffice. Three threads give a runner, one it preempts or wakes,
and a third that interferes; the fourth of `condition` adds two waiters of
different rank besides these. Three priorities are below, equal and above. Two
semaphores or locks let an element be looked for on the wrong list and locks
nest. `MaxValue` of two lets a unit lie in a semaphore while another is added.
`Late` (-1) is enough to tell a sleeper that is overdue from one that is due.
Three processes allow for two siblings or a grandchild; tids 62 to 64 lie around
`MAX_CHILD_SIZE`. Sleeps of two ticks let a later one be due earlier than its predecessor.
Seven sectors hold two files and one that is removed but open, or run out; two
names let one be used again, and two creations race a removal. Two frames for
two processes of three pages run out at each place where a frame is asked for.
Queues of two bytes are empty, half full and full, and wrap. In `mlfqs` threads
change within the first twelve ticks, three recalculations, after which the
rest is determined and TLC follows it until it repeats; `f` and `Window` are
smaller than 2^14 and 60 so that it does, which rounds more coarsely. With two
changes the run passes too. `MaxDepth`
(30) of `multiple_donate` is the code's own and is out of reach of three threads.

Deadlock checking is off: a panic, power-off or an undefined outcome stops the
kernel for good, processes may all have gone, and a semaphore module in which
`MaxValue` is reached may stop.

Symmetry is used for interchangeable threads, processes, names and locks,
only in runs of safety properties.

Fairness. The timer chip never stops: ticks come for ever in `SchedulerSlice`,
`AlarmClock` (for as long as anybody sleeps) and `Mlfqs`, and `WF(SliceEnd)`
of `Semaphore` is the tick at which a time slice is used up. `WF(IdleBlock)` and `WF(Resume)`
only say that the CPU goes on executing the thread that it runs. Where the
scheduler is left out, round robin gives every thread that can run its turn:
`RoundRobin` of `Process`, the last conjunct of `FairSpec` of `Serial`, and
`FairVMSpec` of `VirtualMemory`, each only for threads that are inside the
kernel. The serial port sends what is in its register and raises an interrupt
that is enabled and due. No thread is assumed to release, up, yield, read or
write anything.

## Proofs

Every theorem is proved for all values of the constants, from the named
assumptions alone: in `Threads` that there are finitely many threads (each is a
page of memory), that idle is not one of the others, `PRI_DEFAULT` lies
between `PRI_MIN` and `PRI_MAX`, and the slice is positive; in `Semaphore`
and `Locks` that "none" is no semaphore, lock or thread and that the
priorities given are priorities; in `Process` that tids are numbers from
`FirstTid` to `LastTid` after the one of main; in `Serial` and `IntQ`
that "none" is neither a process nor a byte and that a buffer has room for one
byte; in `FileSystem` that there are finitely many processes, that the limits are
numbers and that the two reserved sectors are on the disk; in `AlarmClock` that sleeps
last at least a tick and that `Late` is negative; in `Mlfqs` that `f`, Window and
the two periods are positive and that `THREAD_RECALC_PRIO` divides `TIMER_FREQ`; in
`VirtualMemory` that processes and pages are finitely many, that no page is both of the
executable and of the stack, and that the first page of the stack is one of the
stack. `tlapm` checks them to the last leaf.

| module | theorems | property |
|---|---|---|
| `SchedulerProofs` | `ConsistentHolds`, `SortedHolds`, `HighestRunsHolds`, `NoHaltWithWorkHolds`, `SliceBounded` | invariants of `Scheduler`, `SchedulerSlice` |
| | `SleepersListedHolds`, `QuietWindowHolds`, `WokenOnTimeHolds` | two invariants and an action property of `AlarmClock` |
| | `PriorityCurrentHolds` | invariant of `Mlfqs` |
| `SemaphoreProofs` | `WaitersOnOneList`, `NoWakeupLost`, `HighestWoken`, `CountingImplemented` | two invariants, an action property, the refinement of `CountingSemaphore` |
| `LocksProofs` | `LockHasOneOwner`, `LockWaitersAreWoken` | invariants of `Locks` |
| `ConditionProofs` | `OneInMonitor`, `SignalIsKept`, `WaitersWait`, `HighestSignalled` | three invariants and an action property of `Condition` |
| `ProcessProofs` | `WaitersAreWoken`, `StatusIsKept` | invariants of `Process` |
| | `FramesExactHolds`, `TableExactHolds`, `PinnedHolds`, `NoFaultUnderLockHolds` | four invariants of `VirtualMemory` |
| | `ScanIsForGood` | an action property of `VirtualMemory`, the reason why `EvictionEnds` fails |
| `SerialProofs` | `WaitersAreWoken`, `OneProcessWrites`, `BytesInOrder` | two invariants, the refinement of `BoundedFifo`, twice |
| `FileSystemProofs` | `DiskIsSound`, `OpenInodesAreKept`, `CountsAreExact`, `OnlyCreateAndCrashLose` | four invariants of `FileSystem` |

**`ThreadsProofs`** has the lemmas on the operators. `InsertOrderedElements` and
`InsertByPrioritySorted` say where `list_insert_ordered` inserts and that a
sorted list stays sorted; `SortPermutes` that the result of `list_sort` has the
elements of the list, each once, in order. They rest on `LeastNat`, the
least-number principle (from the library's `WFMin`), as the
induction theorems cannot be instantiated by the installed provers. Then each
scheduler function is taken from a state with `SchedOK` (statuses, ready list
and current thread fit; the list is sorted) to another (`Switched`, `Handled`),
and `UpWakes` tells whom `sema_up` readies. `SchedSound` is `SchedOK` without
the order of the ready list, for the modules that change priorities behind its
back.

**`SchedulerProofs`.** `Consistent` alone is not inductive: `thread_unblock`
needs the child of `thread_create` to be still BLOCKED and to belong to one
creator (`NewbornBlocked`), `HighestRuns` needs `Sorted`, as it looks at the front
only, and the walk of `thread_set_priority` needs to know that it stands at the
front whenever somebody outranks it (`ScanSeesFront`). `SliceBounded` needs in
addition that the ticks counted since the last switch are those in
`thread_ticks`.

For the alarm clock, `AlarmIInv` has two halves. While the lists are sound, the
scheduler is (`SchedOK`), and the elements of `sleep_list` are exactly the BLOCKED
threads and those about to block (`AlarmConsistent`); a tick at any statement keeps
this, because the elements that it takes off the front are the ones it readies.
`QuietWindow` and `WokenOnTime` need more: as long as no handler has woken a sleeper
during a search or in the window behind it, nor taken the CPU in the window, whoever is in
it has the CPU, and the place its search has found is still the
right one (`AlarmQuiet`), so the list stays sorted and those that are due are a
prefix of it. A device handler wakes a thread that waits elsewhere, whose elem is
not on `sleep_list`; it changes the order of nothing (`AlarmDevice`). The loop of `thread_unblock` is the recursive function `Woken`. `LoopExists`
shows that it has a value for lists of any length, and `WokenOK` that every turn of
it keeps `SchedOK`: the first turn that did not, by the least-number principle,
would contradict `thread_unblock`.

For MLFQS, `MlfqsIInv` adds to `PriorityCurrent` that the scheduler is sound and has
not panicked. The heart is arithmetic modulo `THREAD_RECALC_PRIO`: between two
recalculations the count of ticks and the lag of the running thread grow together
(`NextRemainder`), and a recalculation of all `recent_cpu`, once in `TIMER_FREQ`
ticks, falls on one of all priorities because the one period divides the other.
`LoadAvgBounded` shows that `load_avg` never exceeds the number of threads: an
average of two numbers that do not (`AverageBounded`), rounded as
`fixedpoint.h` rounds. Products of two variables are beyond the prover's
arithmetic, so `DivisionIs`, `RemainderUnique` and `CancelFactor` spell out what is needed.

**`SemaphoreProofs`.** The refinement needs only the types of the counters:
a woken thread that finds no unit changes nothing in the abstraction. The two
invariants are inductive together: that a unit has a woken thread on its way
(`NoLostWakeup`) holds after `sema_up` only because the thread it takes off the
list is BLOCKED inside `sema_down` and on no other list (`OneList`).
`HighestWoken` follows from `SortPermutes`, for `sema_up` sorts before it pops.

**`LocksProofs`.** The invariant has seven parts. `SchedSound` takes the place of `SchedOK`, as
`multiple_donate` raises priorities of threads on the ready list. `Linked`
says that what the loops of the donation stand at is on the list
`waiting_locks`, which `last` closes, so that a step on to the next element
finds one; the lemmas `RaisedByAllType` and `UnlinkedOnce` are about the operators
of those loops. `Place` fixes, for every value of `pc`, which thread may be
where; `HolderOK` says who is named in `holder` while an owner moves through
`lock_acquire` and `lock_release`; `UnitOK` counts the unit of the lock's
semaphore and its owners to one; `WaitersOK` is `NoLostWakeup` with the facts on
the waiters' lists that keep it. Donation is part of every step, and the theorem
says that none of its races, which `Locks.cfg` exhibits, costs the lock its
exclusion or a waiter its wakeup.

**`ConditionProofs`.** `SignalKept` needs that the private semaphores are binary and
that a waiter's place (on the list, upped, awake) fits its `pc`; `MonitorExclusive` that the unit of
the lock and its holder add up to one, through the release and the reacquiring
in `cond_wait`. `HighestSignalled` treats `cond_compare`, which compares the first
waiters of two private semaphores, as a comparison by one key per thread
(`Urgency`); it is one as long as every waiter sleeps.

**`ProcessProofs`.** `Started`, `ExecOK`, `UnitOK`, `KeptOK` and `MainWaits`, with the
types and `WaitOK`, say for each value of a parent's `pc` what its child has done so
far. The units of the two semaphores and the flags in the parent's page are
written by two processes; the invariant says which writes are behind and which
are to come, so that a parent asleep has a child that will up its semaphore,
at every interleaving of `process_wait` and `process_exit`.

For virtual memory, `FramesExact` speaks of cardinalities; `VMIInv` says the same by
functions: two slots of processes (a page, or the frame a call has in hand)
never hold one frame (`OneUser`), the pool is what they hold
(`PoolExact`), and the entries of the frame table for a frame are counted by
`stale` and the slots (`EntriesExact`). `LocalOK` fixes for each `pc` what a process may
have in hand, and that pages of the executable are never ON_SWAP and pages of the stack
never EVICTABLE. `EntryOK` says that whatever page is in the frame table has lost its
EVICTABLE for good; this is what makes the pages `Pinned`, and a scan endless
(`ScanIsForGood`): no step of the process but another turn of the loop can follow one,
and `frame_table_lock`, which a new frame needs to get into the table, stays taken
even when `pagedir_destroy` gives a frame back. The counting lemmas
(`EntriesAppended` and those after it) say what one step does to the entries of a
frame; what `process_munmap_file` selects is the recursive function `Selected`, whose
result is a list of files by the least-number principle.

**`SerialProofs`.** `Places`, `Lists`, `Holders`, `Console` and `Ier` say for each
`pc` on which list a process is, who has the lock of the queue, who has
`console_lock`, and that the interrupt a sleeper waits for is enabled. The refinement
maps the ring buffer to the bytes from `tail` to `head` (`ContentsOf`,
`ContentsTaken`, `ContentsAdded`, which rest on arithmetic modulo the length of the
buffer): every step of the program adds or takes one byte of the abstract queue
or changes nothing in it.

**`FileSystemProofs`.** The invariant has two parts. `Base` holds at every moment,
across crashes and also when two processes have met inside a list operation or at a
count, or an inode has been found that is on its way out. A sector marked in the free map
belongs to one file of the directory, to one inode in memory whose file has been
removed, or to one create under way, unless it is reserved or lost (`Marked`, `Apart`); an
inode in memory that is not removed agrees with the disk (`InodeOK`); a create
has written what it is about to enter (`DraftOK`); an inode being freed has one
process that frees it (`ReleaseOK`). `DiskSound` and `OpenIsKept` rest on the order
in which `filesys_create` and `inode_close` write. `Running` holds until two
processes have met: `fs_lock` has one holder, in the calls that take it; what a lookup found is
still there when it is used; one process at most takes an inode off the list, in two steps ("unlink", "unlink_prev"); and the counts are
those of the references that the processes hold. Freeing is safe only because of the
last: an inode to which a process still refers is open, so it is on the list. The
counting lemmas (`ReferencesGrow`, `ReferencesShrink`, `ReferencesMove`)
say what one process does to the set of references; `LeastNat`
does for the scan of the free map what it does for lists.

All safety properties of the passing runs are proved. Checked by TLC alone:

* all liveness (`TopPriorityRuns`, `UnitsReachWaiters`, `SleepersWake`, `ExecReturns`,
  `WaitReturns`, `OutputMoves`, `EveryThreadRuns`), as the prover does
  not do `ENABLED` and fairness;
* the violations, which are about single behaviours.

## Plan

Done: `KernelList`, `Threads`, `Scheduler`, `Semaphores`, `Semaphore`, `AlarmClock`,
`Locks`, `Condition`, `Process`, with the proofs above; `FileSystem`, `VirtualMemory`,
`Serial`, `Mlfqs`. Left to model:

1. `Ide`: a channel's lock, `expecting_interrupt` and `completion_wait`.
2. The arenas of `malloc` and the kernel pool.

Theorems to come: with `Ide`, that each completion is awaited once. The liveness
properties need a prover that does `ENABLED`.

## Not modelled, and why

* `vm/swap.c` and what follows the scan in `frame_alloc_evict` cannot be reached:
  no page that has a frame is EVICTABLE (`Pinned`), and page_map_swap needs a page
  that is INVALID and ON_SWAP at once, which `Pinned` excludes too.
* `Ide` and the arenas of `malloc` (see the plan) are not modelled yet.
* `thread_get_recent_cpu` overflows once `recent_cpu` passes 1310
  (`thread.c:486`); that takes dozens of ready threads of niceness 20, which TLC does not
  reach, and the value is only reported.
* `lock_try_acquire` (`synch.c:295`) links nothing into `owning_locks`, from which
  `lock_release` then removes it; only a test calls it.
* The GDT, TSS, IDT and PIC set-up, the loader, `init.c`, VGA, PIT, RTC, speaker and
  shutdown are straight programming of hardware; `printf` is formatting; argument
  passing, ELF headers, scan codes and partition tables are conversions;
  calibrated busy waits count loop iterations.
* The stock C library, tests, examples and host tools are clients or helpers.
* Nearly all other lines of the repository are the vendored Bochs emulator
  (about 290,000 of 302,000), on which the kernel runs and
  which is none of its logic; the web pages and exercises do not interact
  with the kernel. The kernel itself has about 12,000 lines.

What `list_sort` and `bitmap_scan` compute step by step is stated by their result.
