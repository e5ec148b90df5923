-------------------------------- MODULE Process --------------------------------
(***************************************************************************)
(* Starting, waiting for and ending user processes: process_execute,       *)
(* start_process, process_wait and process_exit (userprog/process.c) under *)
(* the system calls exec, wait and exit (userprog/syscall.c).  They run    *)
(* with interrupts on, so processes interleave at every statement that     *)
(* touches another's struct thread; inside sema_down and sema_up they do   *)
(* not.  A semaphore here has one possible waiter, so which one is woken   *)
(* does not matter and the scheduler is left out.  So are files, pages and *)
(* fs_lock, which a process takes to load and gives up when it exits.      *)
(*                                                                         *)
(* The struct thread of a dead process is a free page, filled with 0xcc by *)
(* palloc_free_multiple until somebody else gets it.                       *)
(***************************************************************************)
EXTENDS Integers, FiniteSets

CONSTANTS
  Main,             \* the tid of initial_thread
  FirstTid,         \* the tid of the first process
  LastTid,          \* bound: no process is created after this one
  MAX_CHILD_SIZE,   \* length of child_exit_status
  EXIT_NOT_EXIT,    \* "Still execution"
  ExitStatus        \* bound: what programs pass to exit, or -1 if they are killed

Process == FirstTid .. LastTid
Tid == Process \union {Main}

ASSUME ProcessAssumption ==
  /\ Main \in Nat /\ FirstTid \in Nat /\ LastTid \in Nat
  /\ Main < FirstTid /\ FirstTid <= LastTid
  /\ MAX_CHILD_SIZE \in Nat /\ EXIT_NOT_EXIT \in Int /\ ExitStatus \subseteq Int

VARIABLES
  pc,       \* where each thread is; "none" before thread_create
  arg,      \* the child of the exec or wait that a thread is in, or itself
  thread,   \* the fields of struct thread; of the semaphores their values
  wild,     \* a page that may belong to somebody else was used
  asked     \* history: the children whose parents have called process_wait

vars == <<pc, arg, thread, wild, asked>>

ExecPc == {"exec_down", "exec_sleep", "exec_ret"}
WaitPc == {"wait_check", "wait_mark", "wait_claim", "wait_test", "wait_down",
           "wait_sleep", "wait_ret"}
LoadPc == {"load", "load_tell", "load_up"}
ExitPc == {"exit", "exit_keep", "exit_drop", "exit_tell", "exit_else",
           "exit_up", "exit_up_load", "exit_die"}

Status == ExitStatus \union {-1, 0, EXIT_NOT_EXIT}

TypeOK ==
  /\ pc \in [Tid -> {"none", "user", "dead"} \union ExecPc \union WaitPc
                    \union LoadPc \union ExitPc]
  /\ arg \in [Tid -> Tid]
  /\ thread \in [Tid ->
       [ parent : Tid,
         process_exit_status : Status,
         wait_exit_status : Status \union { s + 1 : s \in Status },
         child_exit_status : [Tid -> Status],
         child_load_success : BOOLEAN,
         is_already_call_wait : BOOLEAN,
         wait_child_load : Nat,
         being_waited : Nat ]]
  /\ wild \in BOOLEAN
  /\ asked \subseteq Process

\* init_thread clears that many bytes of child_exit_status, not that many ints.
Cleared(c) == c < MAX_CHILD_SIZE \div 4

Recorded(c) == c < MAX_CHILD_SIZE

(***************************************************************************)
(* What init_thread and thread_create leave in a struct thread;            *)
(* initial_thread has zeroes where thread_create writes EXIT_NOT_EXIT.     *)
(***************************************************************************)
InitThread(p, status) ==
  [ parent |-> p,
    process_exit_status |-> status,
    wait_exit_status |-> status,
    child_exit_status |-> [c \in Tid |-> IF Cleared(c) THEN -1 ELSE 0],
    child_load_success |-> FALSE,
    is_already_call_wait |-> FALSE,
    wait_child_load |-> 0,
    being_waited |-> 0 ]

(***************************************************************************)
(* run_task has executed the first process, which is loaded, and sleeps in *)
(* process_wait; the other tids are to be given out.                       *)
(***************************************************************************)
Init ==
  /\ pc = [t \in Tid |-> CASE t = Main -> "wait_sleep"
                           [] t = FirstTid -> "user"
                           [] OTHER -> "none"]
  /\ arg = [t \in Tid |-> IF t = Main THEN FirstTid ELSE t]
  /\ thread =
       [t \in Tid |->
          CASE t = Main ->
                 [InitThread(Main, 0) EXCEPT !.child_load_success = TRUE,
                                             !.wait_child_load = 1,
                                             !.child_exit_status[FirstTid] = -1]
            [] t = FirstTid ->
                 [InitThread(Main, EXIT_NOT_EXIT) EXCEPT !.is_already_call_wait = TRUE]
            [] OTHER -> InitThread(Main, EXIT_NOT_EXIT)]
  /\ wild = FALSE
  /\ asked = {FirstTid}

At(p, l) == ~wild /\ pc[p] = l

Goto(p, l) == pc' = [pc EXCEPT ![p] = l]

Return(p) == Goto(p, "user") /\ arg' = [arg EXCEPT ![p] = p]

Dead(t) == pc[t] = "dead"

\* On all_list.
Alive(t) == ~Dead(t) /\ pc[t] # "none"

\* The free page of a dead thread may be somebody else's by now; what a use of
\* it does then is not modelled.
Reused(t) == Dead(t) /\ wild' = TRUE /\ UNCHANGED <<pc, arg, thread, asked>>

\* A write to a dead thread's page is not seen by anybody.
Write(t, f, v) ==
  thread' = IF Dead(t) THEN thread ELSE [thread EXCEPT ![t] = [@ EXCEPT ![f] = v]]

RecordStatus(p, c, status) ==
  IF Recorded(c)
    THEN Write(p, "child_exit_status",
               [thread[p].child_exit_status EXCEPT ![c] = status])
    ELSE UNCHANGED thread

-------------------------------------------------------------------------------
(***************************************************************************)
(* process_execute and the rest of _exec, for which there is memory: exec  *)
(* returns -1 at once if there is none.                                    *)
(***************************************************************************)
Exec(p, c) ==
  /\ At(p, "user")
  /\ \A t \in Process : pc[t] = "none" <=> t >= c      \* allocate_tid
  /\ arg' = [arg EXCEPT ![p] = c]
  /\ thread' = [thread EXCEPT ![c] = InitThread(p, EXIT_NOT_EXIT)]
  /\ pc' = [pc EXCEPT ![p] = "exec_down", ![c] = "load"]
  /\ UNCHANGED <<wild, asked>>

\* sema_down (&thread_current ()->wait_child_load)
ExecDown(p) ==
  /\ At(p, "exec_down")
  /\ LET value == thread[p].wait_child_load
     IN  \/ value > 0 /\ Goto(p, "exec_ret") /\ Write(p, "wait_child_load", value - 1)
         \/ value = 0 /\ Goto(p, "exec_sleep") /\ UNCHANGED thread
  /\ UNCHANGED <<arg, wild, asked>>

ExecReturn(p) ==
  /\ At(p, "exec_ret")
  /\ Return(p)
  /\ UNCHANGED <<thread, wild, asked>>

(***************************************************************************)
(* sema_up (&parent->wait_child_load), from label l to label m.  In a free *)
(* page the list of waiters is 0xcc: list_sort follows it into nowhere.    *)
(***************************************************************************)
UpLoad(c, l, m) ==
  /\ At(c, l)
  /\ LET p == thread[c].parent
     IN  \/ Reused(p)
         \/ /\ ~Dead(p)
            /\ Write(p, "wait_child_load", thread[p].wait_child_load + 1)
            /\ pc' = [pc EXCEPT ![c] = m,
                                ![p] = IF @ = "exec_sleep" THEN "exec_down" ELSE @]
            /\ UNCHANGED <<arg, wild, asked>>

-------------------------------------------------------------------------------
(***************************************************************************)
(* start_process                                                           *)
(***************************************************************************)
Load(c) ==
  /\ At(c, "load")
  /\ \/ Goto(c, "load_tell") /\ UNCHANGED thread
     \/ Goto(c, "exit") /\ Write(c, "process_exit_status", -1)
  /\ UNCHANGED <<arg, wild, asked>>

LoadTell(c) ==
  /\ At(c, "load_tell")
  /\ \/ Reused(thread[c].parent)
     \/ /\ Write(thread[c].parent, "child_load_success", TRUE)
        /\ Goto(c, "load_up")
        /\ UNCHANGED <<arg, wild, asked>>

LoadUp(c) == UpLoad(c, "load_up", "user")

-------------------------------------------------------------------------------
(***************************************************************************)
(* process_wait                                                            *)
(***************************************************************************)
WaitCall(p, c) ==
  /\ At(p, "user")
  /\ asked' = IF c \in Process /\ pc[c] # "none" /\ thread[c].parent = p
                THEN asked \union {c} ELSE asked
  /\ IF Alive(c)
       THEN /\ Goto(p, "wait_check")
            /\ arg' = [arg EXCEPT ![p] = c]
            /\ UNCHANGED thread
       ELSE Return(p) /\ RecordStatus(p, c, -1)
  /\ UNCHANGED wild

\* What it has returned if the child is not alive.
TableStatus(p, c) == IF Recorded(c) THEN thread[p].child_exit_status[c] ELSE -1

\* In a free page `parent' is 0xcccccccc.
MayWait(p, c) ==
  /\ ~Dead(c)
  /\ c # Main            \* is_process
  /\ thread[c].parent = p
  /\ ~thread[c].is_already_call_wait

WaitCheck(p) ==
  /\ At(p, "wait_check")
  /\ \/ Reused(arg[p])
     \/ /\ IF MayWait(p, arg[p]) THEN Goto(p, "wait_mark") /\ UNCHANGED arg
                                  ELSE Return(p)
        /\ UNCHANGED <<thread, wild, asked>>

\* child_exit_status[child_tid] and is_already_call_wait, one after the other.
WaitForget(p) ==
  /\ At(p, "wait_mark")
  /\ RecordStatus(p, arg[p], -1)
  /\ Goto(p, "wait_claim")
  /\ UNCHANGED <<arg, wild, asked>>

WaitClaim(p) ==
  /\ At(p, "wait_claim")
  /\ \/ Reused(arg[p])
     \/ /\ Write(arg[p], "is_already_call_wait", TRUE)
        /\ Goto(p, "wait_test")
        /\ UNCHANGED <<arg, wild, asked>>

StillRunning(p, c) ==
  \/ ~Dead(c) /\ thread[c].process_exit_status = EXIT_NOT_EXIT
  \/ thread[p].wait_exit_status = EXIT_NOT_EXIT

WaitTest(p) ==
  /\ At(p, "wait_test")
  /\ \/ Reused(arg[p])
     \/ /\ Goto(p, IF StillRunning(p, arg[p]) THEN "wait_down" ELSE "wait_ret")
        /\ UNCHANGED <<arg, thread, wild, asked>>

\* sema_down (&child->being_waited): in a free page the value is 0xcccccccc.
WaitDown(p) ==
  /\ At(p, "wait_down")
  /\ LET c == arg[p]
         value == thread[c].being_waited
     IN  \/ Reused(c)
         \/ /\ IF Dead(c) \/ value > 0
                 THEN Goto(p, "wait_ret") /\ Write(c, "being_waited", value - 1)
                 ELSE Goto(p, "wait_sleep") /\ UNCHANGED thread
            /\ UNCHANGED <<arg, wild, asked>>

WaitReturn(p) ==
  /\ At(p, "wait_ret")
  /\ Write(p, "wait_exit_status", EXIT_NOT_EXIT)
  /\ Return(p)
  /\ UNCHANGED <<wild, asked>>

-------------------------------------------------------------------------------
(***************************************************************************)
(* _exit, the ends of a process that the kernel kills, and process_exit    *)
(* as far as it concerns the parent.                                       *)
(***************************************************************************)
Exit(c, status) ==
  /\ At(c, "user")
  /\ Write(c, "process_exit_status", status)
  /\ Goto(c, "exit")
  /\ UNCHANGED <<arg, wild, asked>>

\* Wrong on purpose: the two cases are swapped.
ExitLookSwapped(c) ==
  /\ At(c, "exit")
  /\ Goto(c, IF thread[c].is_already_call_wait THEN "exit_keep" ELSE "exit_drop")
  /\ UNCHANGED <<arg, thread, wild, asked>>

ExitLookWaited(c) ==
  /\ At(c, "exit")
  /\ Goto(c, IF thread[c].is_already_call_wait THEN "exit_drop" ELSE "exit_keep")
  /\ UNCHANGED <<arg, thread, wild, asked>>

ExitRecord(c) ==
  /\ pc[c] \in {"exit_keep", "exit_drop"} /\ ~wild
  /\ \/ Recorded(c) /\ Reused(thread[c].parent)
     \/ /\ RecordStatus(thread[c].parent, c,
                        IF pc[c] = "exit_keep" THEN thread[c].process_exit_status
                        ELSE -1)
        /\ Goto(c, "exit_tell")
        /\ UNCHANGED <<arg, wild, asked>>

\* The list of c's being_waited: only a parent waits there.
Waiters(c) == { p \in Tid : pc[p] = "wait_sleep" /\ arg[p] = c }

ExitTell(c) ==
  /\ At(c, "exit_tell")
  /\ thread' = [ t \in Tid |->
                   IF t \in Waiters(c)
                     THEN [thread[t] EXCEPT
                             !.wait_exit_status = thread[c].process_exit_status]
                     ELSE thread[t] ]
  /\ Goto(c, "exit_else")
  /\ UNCHANGED <<arg, wild, asked>>

ExitElse(c) ==
  /\ At(c, "exit_else")
  /\ \/ Waiters(c) = {} /\ Reused(thread[c].parent)
     \/ /\ IF Waiters(c) = {}
             THEN Write(thread[c].parent, "wait_exit_status",
                        thread[c].process_exit_status + 1)
             ELSE UNCHANGED thread
        /\ Goto(c, "exit_up")
        /\ UNCHANGED <<arg, wild, asked>>

\* Wrong on purpose: the parent is told, but not woken.
ExitUpQuietly(c) ==
  /\ At(c, "exit_up")
  /\ Write(c, "being_waited", thread[c].being_waited + 1)
  /\ Goto(c, "exit_up_load")
  /\ UNCHANGED <<arg, wild, asked>>

\* sema_up (&cur->being_waited)
ExitUp(c) ==
  /\ At(c, "exit_up")
  /\ Write(c, "being_waited", thread[c].being_waited + 1)
  /\ pc' = [ t \in Tid |-> IF t = c THEN "exit_up_load"
                           ELSE IF t \in Waiters(c) THEN "wait_down" ELSE pc[t] ]
  /\ UNCHANGED <<arg, wild, asked>>

\* Wrong on purpose: a process that has failed to load tells nobody.
ExitUpLoadNot(c) ==
  /\ At(c, "exit_up_load")
  /\ Goto(c, "exit_die")
  /\ UNCHANGED <<arg, thread, wild, asked>>

ExitUpLoad(c) == UpLoad(c, "exit_up_load", "exit_die")

\* The rest of thread_exit, up to the next thread_schedule_tail.
ExitDie(c) ==
  /\ At(c, "exit_die")
  /\ Goto(c, "dead")
  /\ UNCHANGED <<arg, thread, wild, asked>>

-------------------------------------------------------------------------------
\* What a process does without being asked to by its program.
KernelStep(p) ==
  \/ ExecDown(p) \/ ExecReturn(p)
  \/ Load(p) \/ LoadTell(p) \/ LoadUp(p)
  \/ WaitCheck(p) \/ WaitForget(p) \/ WaitClaim(p) \/ WaitTest(p) \/ WaitDown(p)
  \/ WaitReturn(p)
  \/ ExitLookWaited(p) \/ ExitRecord(p) \/ ExitTell(p) \/ ExitElse(p) \/ ExitUp(p)
  \/ ExitUpLoad(p) \/ ExitDie(p)

SystemCall(p) ==
  \/ \E c \in Process : Exec(p, c)
  \/ \E c \in Tid : WaitCall(p, c)
  \/ \E status \in ExitStatus : Exit(p, status)

Next == (\E p \in Tid : KernelStep(p)) \/ (\E p \in Process : SystemCall(p))

Spec == Init /\ [][Next]_vars

(***************************************************************************)
(* The CPU goes round the threads that are ready: WF_vars (KernelStep (p)) *)
(* for each of them, with its ENABLED spelled out.                         *)
(***************************************************************************)
Busy(p) ==
  ~wild /\ pc[p] \notin {"none", "user", "exec_sleep", "wait_sleep", "dead"}

RoundRobin == \A p \in Tid : []<>~Busy(p) \/ []<><<KernelStep(p)>>_vars

FairSpec == Spec /\ RoundRobin

-------------------------------------------------------------------------------
(***************************************************************************)
(* Properties.                                                             *)
(***************************************************************************)

\* Nobody sleeps on a semaphore that will not be upped any more: the child for
\* which a parent sleeps in wait or exec has its sema_up still before it,
\* although the parent looks at the child, and the child at its waiters, with
\* interrupts on.
NoLostWakeup ==
  \A p \in Tid :
    /\ pc[p] = "wait_sleep" =>
         /\ thread[arg[p]].being_waited = 0
         /\ pc[arg[p]] \notin {"none", "exit_up_load", "exit_die", "dead"}
    /\ pc[p] = "exec_sleep" =>
         /\ thread[p].wait_child_load = 0
         /\ pc[arg[p]] \notin {"none", "exit_die", "dead"}

\* "the kernel must still allow the parent to retrieve its child's exit status"
\* (userprog/syscall.c, _wait): until the parent asks, the status of a child
\* that is gone stays in the table, for tids that it has room for.
StatusKept ==
  /\ TypeOK
  /\ \A c \in Process \ asked :
       (~wild /\ Dead(c) /\ Recorded(c) /\ ~Dead(thread[c].parent)) =>
         TableStatus(thread[c].parent, c) = thread[c].process_exit_status

\* A parent finds out how loading ended: exec does not wait for ever.  (Of a
\* small family only the first process may have several children.)
ExecReturns ==
  pc[FirstTid] \in {"exec_down", "exec_sleep"}
    ~> wild \/ pc[FirstTid] = "exec_ret"

\* When the child exits, wait returns.
WaitReturns ==
  (pc[FirstTid] \in {"wait_down", "wait_sleep"} /\ pc[arg[FirstTid]] \in ExitPc)
    ~> (wild \/ pc[FirstTid] = "wait_ret")

\* "Then, returns the status that pid passed to exit" (userprog/syscall.c, _wait):
\* a parent that calls wait once for its child gets the child's status.
WaitReturnsStatus ==
  \A p \in Tid : pc[p] = "wait_ret" =>
    thread[p].wait_exit_status = thread[arg[p]].process_exit_status

\* "Must return -1 if the program can not load or run" (userprog/syscall.c,
\* _exec): exec returns a tid only when the program has been loaded.
ExecReportsLoad ==
  \A p \in Process :
    pc[p] = "exec_ret" /\ thread[p].child_load_success => pc[arg[p]] \notin LoadPc

===============================================================================
