----------------------------- MODULE ProcessProofs -----------------------------
(***************************************************************************)
(* The safety of the processes, for any number of them: of Process, that   *)
(* no parent sleeps for a child that has nothing more to say and that the  *)
(* status of a child stays until its parent asks; of VirtualMemory, for    *)
(* any frames and pages, that the frame table and the page tables agree.   *)
(***************************************************************************)
EXTENDS Process, VirtualMemory, FiniteSetTheorems, SequenceTheorems, WellFoundedInduction,
        TLAPS

ThreadState ==
  [ parent : Tid,
    process_exit_status : Status,
    wait_exit_status : Status \union { s + 1 : s \in Status },
    child_exit_status : [Tid -> Status],
    child_load_success : BOOLEAN,
    is_already_call_wait : BOOLEAN,
    wait_child_load : Nat,
    being_waited : Nat ]

Labels == {"none", "user", "dead"} \union ExecPc \union WaitPc \union LoadPc \union ExitPc

LEMMA Types ==
  TypeOK <=> /\ pc \in [Tid -> Labels]
             /\ arg \in [Tid -> Tid]
             /\ thread \in [Tid -> ThreadState]
             /\ wild \in BOOLEAN
             /\ asked \subseteq Process
BY DEF TypeOK, ThreadState, Labels

LEMMA TypesNext ==
  TypeOK' <=> /\ pc' \in [Tid -> Labels]
              /\ arg' \in [Tid -> Tid]
              /\ thread' \in [Tid -> ThreadState]
              /\ wild' \in BOOLEAN
              /\ asked' \subseteq Process
BY DEF TypeOK, ThreadState, Labels

LEMMA Tids == Main \in Tid /\ Process \subseteq Tid /\ Main \notin Process
BY ProcessAssumption DEF Tid, Process

Fields == { "parent", "process_exit_status", "wait_exit_status", "child_exit_status",
            "child_load_success", "is_already_call_wait", "wait_child_load", "being_waited" }

\* One field of one struct thread is written, unless its page is free.
LEMMA Written ==
  ASSUME thread \in [Tid -> ThreadState], NEW t \in Tid, NEW f \in Fields, NEW v,
         Write(t, f, v)
  PROVE  \A u \in Tid, g \in Fields :
           thread'[u][g] = IF u = t /\ g = f /\ ~Dead(t) THEN v ELSE thread[u][g]
<1> DEFINE r == [thread[t] EXCEPT ![f] = v]
<1>1. thread' = IF Dead(t) THEN thread ELSE [thread EXCEPT ![t] = r]
  BY DEF Write
<1>2. \A g \in Fields : r[g] = IF g = f THEN v ELSE thread[t][g]
  BY DEF ThreadState, Fields
<1> HIDE DEF r
<1> QED
  BY <1>1, <1>2

Allowed(f, v) ==
  \/ f = "parent" /\ v \in Tid
  \/ f = "process_exit_status" /\ v \in Status
  \/ f = "wait_exit_status" /\ v \in Status \union { s + 1 : s \in Status }
  \/ f = "child_exit_status" /\ v \in [Tid -> Status]
  \/ f \in {"child_load_success", "is_already_call_wait"} /\ v \in BOOLEAN
  \/ f \in {"wait_child_load", "being_waited"} /\ v \in Nat

LEMMA WrittenType ==
  ASSUME thread \in [Tid -> ThreadState], NEW t \in Tid, NEW f \in Fields, NEW v,
         Write(t, f, v), Allowed(f, v)
  PROVE  thread' \in [Tid -> ThreadState]
<1> DEFINE r == [thread[t] EXCEPT ![f] = v]
<1>1. r \in ThreadState
  BY DEF ThreadState, Allowed
<1> HIDE DEF r
<1>2. thread' = IF Dead(t) THEN thread ELSE [thread EXCEPT ![t] = r]
  BY DEF Write, r
<1> QED
  BY <1>1, <1>2

LEMMA Wrote ==
  ASSUME thread \in [Tid -> ThreadState], NEW t \in Tid, NEW f \in Fields, NEW v,
         Write(t, f, v), Allowed(f, v)
  PROVE  /\ thread' \in [Tid -> ThreadState]
         /\ \A u \in Tid, g \in Fields :
              thread'[u][g] = IF u = t /\ g = f /\ ~Dead(t) THEN v ELSE thread[u][g]
BY Written, WrittenType

-------------------------------------------------------------------------------
(***************************************************************************)
(* The inductive invariant.                                                *)
(*                                                                         *)
(* A parent that waits has marked a child of its own that was not marked   *)
(* before, so it alone takes the unit that process_exit puts into          *)
(* being_waited; until it does, the unit is there as soon as the child has *)
(* come past that sema_up.  A parent in exec has a child with a sema_up    *)
(* for it still to come, or a unit.  A child whose parent has not called   *)
(* process_wait is not marked, so it leaves its status in the table.       *)
(***************************************************************************)
Started ==
  \A c \in Process : pc[c] # "none" =>
    thread[c].parent # c /\ pc[thread[c].parent] # "none"

Claimed == {"wait_test", "wait_down", "wait_sleep"}

Upped == {"exit_up_load", "exit_die"}

WaitOK(p) ==
  LET c == arg[p]
  IN  /\ pc[p] \in WaitPc \ {"wait_ret"} => pc[c] # "none"
      /\ pc[p] = "wait_check" /\ c \in Process /\ thread[c].parent = p => c \in asked
      /\ pc[p] \in {"wait_mark", "wait_claim"} \union Claimed =>
           c \in Process /\ thread[c].parent = p /\ c \in asked
      /\ pc[p] \in {"wait_mark", "wait_claim"} => ~thread[c].is_already_call_wait
      /\ pc[p] \in Claimed => Dead(c) \/ thread[c].is_already_call_wait
      /\ pc[p] = "wait_sleep" => pc[c] \notin Upped /\ ~Dead(c)

\* The unit that c's exit puts into being_waited has not been taken.
Pending(c) ==
  \/ ~thread[c].is_already_call_wait
  \/ pc[thread[c].parent] \in Claimed /\ arg[thread[c].parent] = c

UnitOK(c) ==
  ~Dead(c) /\ Pending(c) =>
    thread[c].being_waited = IF pc[c] \in Upped THEN 1 ELSE 0

ExecOK(p) ==
  LET c == arg[p]
  IN  pc[p] \in {"exec_down", "exec_sleep"} =>
        /\ c \in Process /\ thread[c].parent = p /\ pc[c] # "none"
        /\ pc[c] \in {"exit_die", "dead"} => thread[p].wait_child_load > 0
        /\ pc[p] = "exec_sleep" => thread[p].wait_child_load = 0

Recording == {"exit_tell", "exit_else", "exit_up", "exit_up_load", "exit_die", "dead"}

KeptOK(c) ==
  /\ thread[c].is_already_call_wait => c \in asked
  /\ pc[c] = "exit_drop" => c \in asked
  /\ pc[c] \in Recording /\ c \notin asked /\ Recorded(c) /\ ~Dead(thread[c].parent) =>
       thread[thread[c].parent].child_exit_status[c] = thread[c].process_exit_status

IInv ==
  /\ TypeOK /\ Started
  /\ \A p \in Tid : WaitOK(p) /\ ExecOK(p)
  /\ \A c \in Process : UnitOK(c) /\ KeptOK(c)

LEMMA IInvMeans == IInv => NoLostWakeup /\ StatusKept
<1> SUFFICES ASSUME IInv PROVE NoLostWakeup /\ StatusKept
  OBVIOUS
<1>1. /\ pc \in [Tid -> Labels] /\ arg \in [Tid -> Tid] /\ thread \in [Tid -> ThreadState]
  BY Types DEF IInv
<1>2. ASSUME NEW p \in Tid, pc[p] = "wait_sleep"
      PROVE  /\ thread[arg[p]].being_waited = 0
             /\ pc[arg[p]] \notin {"none", "exit_up_load", "exit_die", "dead"}
  <2> DEFINE c == arg[p]
  <2>1. /\ c \in Process /\ thread[c].parent = p /\ pc[c] \notin Upped /\ ~Dead(c) /\ pc[c] # "none"
    BY <1>2 DEF IInv, WaitOK, Claimed, WaitPc
  <2>2. Pending(c)
    BY <1>2, <2>1 DEF Pending, Claimed
  <2>3. UnitOK(c)
    BY <2>1 DEF IInv
  <2> HIDE DEF c
  <2>4. thread[c].being_waited = 0
    BY <2>1, <2>2, <2>3 DEF UnitOK
  <2> QED
    BY <2>1, <2>4 DEF c, Upped, Dead
<1>3. ASSUME NEW p \in Tid, pc[p] = "exec_sleep"
      PROVE  /\ thread[p].wait_child_load = 0
             /\ pc[arg[p]] \notin {"none", "exit_die", "dead"}
  BY <1>1, <1>3 DEF IInv, ExecOK
<1>4. ASSUME NEW c \in Process \ asked, Dead(c), Recorded(c), ~Dead(thread[c].parent)
      PROVE  TableStatus(thread[c].parent, c) = thread[c].process_exit_status
  BY <1>4 DEF IInv, KeptOK, Recording, Dead, TableStatus
<1> QED
  BY <1>2, <1>3, <1>4 DEF IInv, NoLostWakeup, StatusKept

-------------------------------------------------------------------------------
(***************************************************************************)
(* Steps that leave alone what the invariant looks at, but for the place   *)
(* of one process.                                                         *)
(***************************************************************************)
Watched == Fields \ {"wait_exit_status", "child_load_success"}

\* Nobody looks at where a process is between these places.
Moves(k, l) ==
  \/ k = "load" /\ l = "load_tell"
  \/ k = "load_tell" /\ l = "load_up"
  \/ k = "wait_test" /\ l \in {"wait_down", "wait_ret"}
  \/ k = "exit_tell" /\ l = "exit_else"
  \/ k = "exit_else" /\ l = "exit_up"
  \/ k = "exit_die" /\ l = "dead"

LEMMA StartedKept ==
  ASSUME IInv, \A u \in Tid : pc'[u] = "none" <=> pc[u] = "none",
         \A u \in Tid : thread'[u].parent = thread[u].parent
  PROVE  Started'
<1>1. Process \subseteq Tid /\ \A c \in Process : thread[c].parent \in Tid
  BY Tids, Types DEF IInv, ThreadState
<1> QED
  BY <1>1 DEF IInv, Started

LEMMA MoveKeeps ==
  ASSUME IInv, TypeOK', NEW t \in Tid, NEW l, Moves(pc[t], l),
         pc' = [pc EXCEPT ![t] = l], UNCHANGED <<arg, asked>>,
         \A u \in Tid, f \in Watched : thread'[u][f] = thread[u][f]
  PROVE  IInv'
<1>1. /\ pc \in [Tid -> Labels] /\ arg \in [Tid -> Tid] /\ Process \subseteq Tid
      /\ \A u \in Tid : thread[u].parent \in Tid
  BY Tids, Types DEF IInv, ThreadState
<1>2. \A u \in Tid :
        /\ thread'[u].parent = thread[u].parent
        /\ thread'[u].process_exit_status = thread[u].process_exit_status
        /\ thread'[u].child_exit_status = thread[u].child_exit_status
        /\ (thread'[u].is_already_call_wait <=> thread[u].is_already_call_wait)
        /\ thread'[u].wait_child_load = thread[u].wait_child_load
        /\ thread'[u].being_waited = thread[u].being_waited
  BY DEF Watched, Fields
<1>3. \A u \in Tid : pc'[u] = IF u = t THEN l ELSE pc[u]
  BY <1>1
<1>4. Started'
  BY <1>2, <1>3, StartedKept DEF Moves
<1>5. ASSUME NEW p \in Tid
      PROVE  WaitOK(p)'
  <2>1. WaitOK(p)
    BY DEF IInv
  <2> QED
    BY <1>1, <1>2, <1>3, <2>1 DEF WaitOK, Moves, Claimed, Upped, WaitPc, Dead
<1>6. ASSUME NEW p \in Tid
      PROVE  ExecOK(p)'
  <2>1. ExecOK(p)
    BY DEF IInv
  <2> QED
    BY <1>1, <1>2, <1>3, <2>1 DEF ExecOK, Moves
<1>7. ASSUME NEW c \in Process
      PROVE  UnitOK(c)'
  <2>1. UnitOK(c) /\ WaitOK(thread[c].parent)
    BY <1>1 DEF IInv
  <2> QED
    BY <1>1, <1>2, <1>3, <2>1 DEF UnitOK, WaitOK, Pending, Moves, Claimed, Upped, Dead
<1>8. ASSUME NEW c \in Process
      PROVE  KeptOK(c)'
  <2>1. KeptOK(c)
    BY DEF IInv
  <2> QED
    BY <1>1, <1>2, <1>3, <2>1 DEF KeptOK, Moves, Recording, Dead
<1> QED
  BY <1>4, <1>5, <1>6, <1>7, <1>8 DEF IInv

\* A free page is used: then nothing is known but what was.
LEMMA ReusedKeeps ==
  ASSUME IInv, wild' \in BOOLEAN, UNCHANGED <<pc, arg, thread, asked>>
  PROVE  IInv'
<1>1. TypeOK'
  BY Types, TypesNext DEF IInv
<1>2. /\ Started'
      /\ \A p \in Tid : WaitOK(p)' /\ ExecOK(p)'
      /\ \A c \in Process : UnitOK(c)' /\ KeptOK(c)'
  BY DEF IInv, Started, WaitOK, ExecOK, UnitOK, KeptOK, Pending, Dead
<1> QED
  BY <1>1, <1>2 DEF IInv

LEMMA NewThread ==
  ASSUME NEW p \in Tid, NEW status \in Status
  PROVE  LET r == InitThread(p, status)
         IN  /\ r \in ThreadState
             /\ r.parent = p /\ r.process_exit_status = status
             /\ ~r.is_already_call_wait /\ r.being_waited = 0 /\ r.wait_child_load = 0
<1> DEFINE blank == [c \in Tid |-> IF Cleared(c) THEN -1 ELSE 0]
<1>1. blank \in [Tid -> Status]
  BY DEF Status
<1>2. InitThread(p, status) =
        [ parent |-> p, process_exit_status |-> status, wait_exit_status |-> status,
          child_exit_status |-> blank, child_load_success |-> FALSE,
          is_already_call_wait |-> FALSE, wait_child_load |-> 0, being_waited |-> 0 ]
  BY DEF InitThread
<1> HIDE DEF blank
<1> QED
  BY <1>1, <1>2 DEF ThreadState

LEMMA InitIInv == Init => IInv
<1> SUFFICES ASSUME Init PROVE IInv
  OBVIOUS
<1> DEFINE r == InitThread(Main, 0)
           s == InitThread(Main, EXIT_NOT_EXIT)
           table == [r.child_exit_status EXCEPT ![FirstTid] = -1]
           b == TRUE
           kernel == [r EXCEPT !.child_load_success = b, !.wait_child_load = 1,
                               !.child_exit_status = table]
           first == [s EXCEPT !.is_already_call_wait = b]
<1>1. /\ Main \in Tid /\ Process \subseteq Tid /\ Main \notin Process
      /\ FirstTid \in Process
  BY Tids, ProcessAssumption DEF Process
<1>2. /\ r \in ThreadState /\ s \in ThreadState
      /\ r.parent = Main /\ s.parent = Main
      /\ ~s.is_already_call_wait /\ s.being_waited = 0
  BY <1>1, NewThread DEF Status
<1>3. \A t \in Tid : thread[t] = IF t = Main THEN kernel ELSE IF t = FirstTid THEN first ELSE s
  BY <1>1 DEF Init
<1>4. /\ pc = [t \in Tid |-> IF t = Main THEN "wait_sleep"
                             ELSE IF t = FirstTid THEN "user" ELSE "none"]
      /\ arg = [t \in Tid |-> IF t = Main THEN FirstTid ELSE t]
      /\ wild = FALSE /\ asked = {FirstTid} /\ DOMAIN thread = Tid
      /\ thread = [t \in Tid |-> thread[t]]
  BY <1>1 DEF Init
<1>5. b \in BOOLEAN /\ b = TRUE
  OBVIOUS
<1> HIDE DEF r, s, b
<1>6. first \in ThreadState /\ first.parent = Main /\ first.being_waited = 0
      /\ first.is_already_call_wait = b
  BY <1>2, <1>5 DEF ThreadState
<1>7. kernel \in ThreadState
  <2> DEFINE r1 == [r EXCEPT !.child_load_success = b]
             r2 == [r1 EXCEPT !.wait_child_load = 1]
  <2>1. r1 \in ThreadState /\ r1.child_exit_status = r.child_exit_status
    BY <1>2, <1>5 DEF ThreadState
  <2>2. table \in [Tid -> Status]
    BY <1>1, <1>2 DEF ThreadState, Status
  <2>3. kernel = [r2 EXCEPT !.child_exit_status = table]
    OBVIOUS
  <2> HIDE DEF r1, table
  <2>4. r2 \in ThreadState
    BY <2>1 DEF ThreadState
  <2> HIDE DEF r2
  <2>5. [r2 EXCEPT !.child_exit_status = table] \in ThreadState
    BY <2>2, <2>4 DEF ThreadState
  <2> QED
    BY <2>3, <2>5
<1> HIDE DEF kernel, first
<1>8. TypeOK
  <2>1. thread \in [Tid -> ThreadState]
    BY <1>2, <1>3, <1>4, <1>6, <1>7
  <2>2. pc \in [Tid -> Labels] /\ arg \in [Tid -> Tid]
    BY <1>1, <1>4 DEF Labels, WaitPc
  <2>3. wild \in BOOLEAN /\ asked \subseteq Process
    BY <1>1, <1>4
  <2> QED
    BY <2>1, <2>2, <2>3, Types
<1>9. \A c \in Process : /\ c # Main /\ thread[c].parent = Main /\ thread[c].being_waited = 0
                         /\ c # FirstTid => ~thread[c].is_already_call_wait
  BY <1>1, <1>2, <1>3, <1>6
<1>10. thread[FirstTid].is_already_call_wait
  BY <1>1, <1>3, <1>5, <1>6
<1>11. \A t \in Tid : pc[t] = IF t = Main THEN "wait_sleep"
                              ELSE IF t = FirstTid THEN "user" ELSE "none"
  BY <1>4
<1>12. \A p \in Tid : WaitOK(p) /\ ExecOK(p)
  BY <1>1, <1>4, <1>9, <1>10, <1>11 DEF WaitOK, ExecOK, Claimed, Upped, WaitPc, Dead
<1>13. \A c \in Process : UnitOK(c) /\ KeptOK(c)
  BY <1>1, <1>4, <1>9, <1>11 DEF UnitOK, KeptOK, Upped, Recording
<1>14. Started
  BY <1>1, <1>9, <1>11 DEF Started
<1> QED
  BY <1>8, <1>12, <1>13, <1>14 DEF IInv

-------------------------------------------------------------------------------
(***************************************************************************)
(* process_execute and start_process.                                      *)
(***************************************************************************)
LEMMA StateTypes ==
  ASSUME IInv
  PROVE  /\ pc \in [Tid -> Labels] /\ arg \in [Tid -> Tid] /\ thread \in [Tid -> ThreadState]
         /\ wild \in BOOLEAN /\ asked \subseteq Process
         /\ Process \subseteq Tid /\ Main \in Tid /\ Main \notin Process
         /\ \A u \in Tid : thread[u] \in ThreadState /\ thread[u].parent \in Tid
BY Tids, Types DEF IInv, ThreadState

LEMMA ExecKeeps ==
  ASSUME IInv, NEW p \in Process, NEW c \in Process, Exec(p, c)
  PROVE  IInv'
<1> DEFINE r == InitThread(p, EXIT_NOT_EXIT)
<1>1. /\ pc \in [Tid -> Labels] /\ arg \in [Tid -> Tid] /\ thread \in [Tid -> ThreadState]
      /\ wild \in BOOLEAN /\ asked \subseteq Process /\ p \in Tid /\ c \in Tid
      /\ Process \subseteq Tid
      /\ \A u \in Tid : thread[u].parent \in Tid
  BY StateTypes
<1>2. /\ r \in ThreadState /\ r.parent = p /\ ~r.is_already_call_wait /\ r.being_waited = 0
  BY <1>1, NewThread DEF Status
<1>3. /\ pc[p] = "user" /\ pc[c] = "none" /\ p # c
  <2>1. pc[p] = "user" /\ (pc[c] = "none" <=> c >= c)
    BY DEF Exec, At
  <2> QED
    BY <2>1 DEF Process
<1>4. /\ arg' = [arg EXCEPT ![p] = c] /\ thread' = [thread EXCEPT ![c] = r]
      /\ pc' = [pc EXCEPT ![p] = "exec_down", ![c] = "load"]
      /\ wild' = wild /\ asked' = asked
  BY DEF Exec
<1> HIDE DEF r
<1>5. \A u \in Tid : /\ thread'[u] = IF u = c THEN r ELSE thread[u]
                     /\ pc'[u] = IF u = p THEN "exec_down" ELSE IF u = c THEN "load" ELSE pc[u]
                     /\ arg'[u] = IF u = p THEN c ELSE arg[u]
  BY <1>1, <1>3, <1>4
<1>6. TypeOK'
  <2>1. thread' \in [Tid -> ThreadState] /\ arg' \in [Tid -> Tid]
    BY <1>1, <1>2, <1>4
  <2>2. pc' \in [Tid -> Labels]
    BY <1>1, <1>4 DEF Labels, ExecPc, LoadPc
  <2> QED
    BY <1>1, <1>4, <2>1, <2>2, TypesNext
<1>7. Started'
  <2>1. \A d \in Process : pc[d] # "none" =>
          thread[d].parent # d /\ pc[thread[d].parent] # "none"
    BY DEF IInv, Started
  <2> QED
    BY <1>1, <1>2, <1>3, <1>5, <2>1 DEF Started
<1>8. ASSUME NEW u \in Tid
      PROVE  WaitOK(u)'
  <2>1. WaitOK(u)
    BY DEF IInv
  <2>2. u # p /\ u # c => arg'[u] = arg[u] /\ pc'[u] = pc[u]
    BY <1>5
  <2>3. (u = p \/ u = c) => pc'[u] \notin WaitPc /\ pc'[u] \notin Claimed
    BY <1>3, <1>5 DEF WaitPc, Claimed
  <2>4. CASE u # p /\ u # c /\ pc[u] \in WaitPc
    <3>1. pc[arg[u]] # "none" \/ pc[u] = "wait_ret"
      BY <2>1, <2>4 DEF WaitOK
    <3> QED
      BY <1>1, <1>3, <1>4, <1>5, <2>1, <2>2, <2>4, <3>1 DEF WaitOK, WaitPc, Claimed, Upped, Dead
  <2> QED
    BY <2>2, <2>3, <2>4 DEF WaitOK, WaitPc, Claimed
<1>9. ASSUME NEW u \in Tid
      PROVE  ExecOK(u)'
  <2>1. ExecOK(u)
    BY DEF IInv
  <2> QED
    BY <1>1, <1>2, <1>3, <1>5, <2>1 DEF ExecOK
<1>10. ASSUME NEW d \in Process
       PROVE  UnitOK(d)'
  <2>1. UnitOK(d)
    BY DEF IInv
  <2>2. CASE d = c
    BY <1>1, <1>2, <1>3, <1>5, <2>2 DEF UnitOK, Upped
  <2>3. CASE d # c
    <3>1. Pending(d)' => Pending(d)
      BY <1>1, <1>3, <1>5, <2>3 DEF Pending, Claimed
    <3> QED
      BY <1>1, <1>3, <1>5, <2>1, <2>3, <3>1 DEF UnitOK, Upped, Dead
  <2> QED
    BY <2>2, <2>3
<1>11. ASSUME NEW d \in Process
       PROVE  KeptOK(d)'
  <2>1. KeptOK(d) /\ (pc[d] # "none" => pc[thread[d].parent] # "none")
    BY DEF IInv, Started
  <2> QED
    BY <1>1, <1>2, <1>3, <1>4, <1>5, <2>1 DEF KeptOK, Recording, Dead
<1> QED
  BY <1>6, <1>7, <1>8, <1>9, <1>10, <1>11 DEF IInv

LEMMA ExecDownKeeps ==
  ASSUME IInv, NEW p \in Tid, ExecDown(p)
  PROVE  IInv'
<1> DEFINE v == thread[p].wait_child_load
           w == v - 1
<1>1. /\ pc \in [Tid -> Labels] /\ arg \in [Tid -> Tid] /\ thread \in [Tid -> ThreadState]
      /\ wild \in BOOLEAN /\ asked \subseteq Process /\ Process \subseteq Tid
      /\ \A u \in Tid : thread[u].parent \in Tid
      /\ v \in Nat
  BY StateTypes DEF ThreadState
<1>2. PICK l \in {"exec_ret", "exec_sleep"} :
        /\ pc' = [pc EXCEPT ![p] = l]
        /\ l = "exec_ret" => v > 0 /\ Write(p, "wait_child_load", w)
        /\ l = "exec_sleep" => v = 0 /\ thread' = thread
  BY DEF ExecDown, Goto
<1>3. pc[p] = "exec_down" /\ UNCHANGED <<arg, wild, asked>>
  BY DEF ExecDown, At
<1> HIDE DEF w
<1>4. /\ thread' \in [Tid -> ThreadState]
      /\ \A u \in Tid, g \in Fields \ {"wait_child_load"} : thread'[u][g] = thread[u][g]
      /\ \A u \in Tid : u # p \/ l = "exec_sleep" =>
           thread'[u].wait_child_load = thread[u].wait_child_load
  <2>1. CASE l = "exec_ret"
    <3>1. w \in Nat
      BY <1>1, <1>2, <2>1 DEF w
    <3>2. "wait_child_load" \in Fields /\ Allowed("wait_child_load", w)
      BY <3>1 DEF Fields, Allowed
    <3> DEFINE f == "wait_child_load"
    <3>3. f \in Fields /\ Allowed(f, w) /\ Write(p, f, w)
      BY <1>2, <2>1, <3>2
    <3> HIDE DEF f
    <3>4. /\ thread' \in [Tid -> ThreadState]
          /\ \A u \in Tid, g \in Fields :
               thread'[u][g] = IF u = p /\ g = f /\ ~Dead(p) THEN w ELSE thread[u][g]
      BY <1>1, <3>3, Wrote
    <3> QED
      BY <2>1, <3>4 DEF f, Fields
  <2>2. CASE l = "exec_sleep"
    BY <1>1, <1>2, <2>2
  <2> QED
    BY <2>1, <2>2
<1>5. \A u \in Tid :
        /\ thread'[u].parent = thread[u].parent
        /\ thread'[u].process_exit_status = thread[u].process_exit_status
        /\ thread'[u].child_exit_status = thread[u].child_exit_status
        /\ (thread'[u].is_already_call_wait <=> thread[u].is_already_call_wait)
        /\ thread'[u].being_waited = thread[u].being_waited
        /\ pc'[u] = IF u = p THEN l ELSE pc[u]
  BY <1>1, <1>2, <1>4 DEF Fields
<1>6. TypeOK'
  <2>1. pc' \in [Tid -> Labels]
    BY <1>1, <1>2 DEF Labels, ExecPc
  <2> QED
    BY <1>1, <1>3, <1>4, <2>1, TypesNext
<1>7. Started'
  BY <1>3, <1>5, StartedKept
<1>8. ASSUME NEW u \in Tid
      PROVE  WaitOK(u)' /\ ExecOK(u)'
  <2>1. WaitOK(u) /\ ExecOK(u)
    BY DEF IInv
  <2>2. WaitOK(u)'
    BY <1>1, <1>3, <1>5, <2>1 DEF WaitOK, WaitPc, Claimed, Upped, Dead
  <2>3. ExecOK(u)'
    BY <1>1, <1>2, <1>3, <1>4, <1>5, <2>1 DEF ExecOK
  <2> QED
    BY <2>2, <2>3
<1>9. ASSUME NEW c \in Process
      PROVE  UnitOK(c)' /\ KeptOK(c)'
  <2>1. UnitOK(c) /\ KeptOK(c)
    BY DEF IInv
  <2>2. UnitOK(c)'
    BY <1>1, <1>3, <1>5, <2>1 DEF UnitOK, Pending, Claimed, Upped, Dead
  <2>3. KeptOK(c)'
    BY <1>1, <1>3, <1>5, <2>1 DEF KeptOK, Recording, Dead
  <2> QED
    BY <2>2, <2>3
<1> QED
  BY <1>6, <1>7, <1>8, <1>9 DEF IInv

LEMMA ExecReturnKeeps ==
  ASSUME IInv, NEW p \in Tid, ExecReturn(p)
  PROVE  IInv'
<1>1. /\ pc \in [Tid -> Labels] /\ arg \in [Tid -> Tid] /\ thread \in [Tid -> ThreadState]
      /\ wild \in BOOLEAN /\ asked \subseteq Process /\ Process \subseteq Tid
      /\ \A u \in Tid : thread[u].parent \in Tid
  BY StateTypes
<1>2. /\ pc[p] = "exec_ret" /\ UNCHANGED <<thread, wild, asked>>
      /\ pc' = [pc EXCEPT ![p] = "user"] /\ arg' = [arg EXCEPT ![p] = p]
  BY DEF ExecReturn, At, Return, Goto
<1>3. \A u \in Tid : /\ pc'[u] = IF u = p THEN "user" ELSE pc[u]
                     /\ arg'[u] = IF u = p THEN p ELSE arg[u]
  BY <1>1, <1>2
<1>4. TypeOK'
  <2>1. pc' \in [Tid -> Labels] /\ arg' \in [Tid -> Tid]
    BY <1>1, <1>2 DEF Labels
  <2> QED
    BY <1>1, <1>2, <2>1, TypesNext
<1>5. Started'
  BY <1>2, <1>3, StartedKept
<1>6. ASSUME NEW u \in Tid
      PROVE  WaitOK(u)' /\ ExecOK(u)'
  BY <1>1, <1>2, <1>3 DEF IInv, WaitOK, ExecOK, WaitPc, Claimed, Upped, Dead
<1>7. ASSUME NEW c \in Process
      PROVE  UnitOK(c)' /\ KeptOK(c)'
  <2>1. UnitOK(c) /\ KeptOK(c)
    BY DEF IInv
  <2> QED
    BY <1>1, <1>2, <1>3, <2>1 DEF UnitOK, Pending, KeptOK, Claimed, Upped, Recording, Dead
<1> QED
  BY <1>4, <1>5, <1>6, <1>7 DEF IInv

\* A child that has loaded, or is about to die, ups the semaphore of its parent.
LEMMA UpLoadKeeps ==
  ASSUME IInv, NEW c \in Process, NEW k, NEW l,
         \/ k = "load_up" /\ l = "user"
         \/ k = "exit_up_load" /\ l = "exit_die",
         UpLoad(c, k, l)
  PROVE  IInv'
<1> DEFINE p == thread[c].parent
           v == thread[p].wait_child_load + 1
<1>1. /\ pc \in [Tid -> Labels] /\ arg \in [Tid -> Tid] /\ thread \in [Tid -> ThreadState]
      /\ wild \in BOOLEAN /\ asked \subseteq Process /\ Process \subseteq Tid
      /\ \A u \in Tid : thread[u] \in ThreadState /\ thread[u].parent \in Tid
      /\ c \in Tid /\ p \in Tid
  BY StateTypes
<1>2. CASE Reused(p)
  BY <1>2, ReusedKeeps DEF Reused
<1>3. CASE /\ ~Dead(p) /\ Write(p, "wait_child_load", v)
           /\ pc' = [pc EXCEPT ![c] = l,
                               ![p] = IF @ = "exec_sleep" THEN "exec_down" ELSE @]
           /\ UNCHANGED <<arg, wild, asked>>
  <2>1. /\ pc[c] = k /\ p # c
    BY DEF UpLoad, At, IInv, Started
  <2>2. thread[p].wait_child_load \in Nat
    BY <1>1 DEF ThreadState
  <2>3. v \in Nat /\ v > 0
    BY <2>2
  <2> DEFINE f == "wait_child_load"
  <2>4. f \in Fields /\ Allowed(f, v) /\ Write(p, f, v)
    BY <1>3, <2>3 DEF Fields, Allowed
  <2> HIDE DEF p, v, f
  <2>5. /\ thread' \in [Tid -> ThreadState]
        /\ \A u \in Tid, g \in Fields :
             thread'[u][g] = IF u = p /\ g = f /\ ~Dead(p) THEN v ELSE thread[u][g]
    BY <1>1, <2>4, Wrote
  <2>6. \A u \in Tid :
          /\ thread'[u].parent = thread[u].parent
          /\ thread'[u].process_exit_status = thread[u].process_exit_status
          /\ thread'[u].child_exit_status = thread[u].child_exit_status
          /\ (thread'[u].is_already_call_wait <=> thread[u].is_already_call_wait)
          /\ thread'[u].being_waited = thread[u].being_waited
          /\ u # p => thread'[u].wait_child_load = thread[u].wait_child_load
          /\ u = p => thread'[u].wait_child_load > 0
    BY <1>3, <2>3, <2>5 DEF f, Fields
  <2>7. \A u \in Tid : pc'[u] = IF u = p /\ pc[u] = "exec_sleep" THEN "exec_down"
                                ELSE IF u = c THEN l ELSE pc[u]
    BY <1>1, <1>3, <2>1
  <2>8. TypeOK'
    <3>1. pc' \in [Tid -> Labels]
      BY <1>1, <1>3 DEF Labels, ExecPc, ExitPc
    <3> QED
      BY <1>1, <1>3, <2>5, <3>1, TypesNext
  <2>9. Started'
    BY <2>1, <2>6, <2>7, StartedKept
  <2>10. ASSUME NEW u \in Tid
         PROVE  WaitOK(u)' /\ ExecOK(u)'
    <3>1. WaitOK(u) /\ ExecOK(u)
      BY DEF IInv
    <3>2. WaitOK(u)'
      BY <1>1, <1>3, <2>1, <2>6, <2>7, <3>1 DEF WaitOK, WaitPc, Claimed, Upped, Dead
    <3>3. ExecOK(u)'
      <4>1. u # p /\ pc[u] \in {"exec_down", "exec_sleep"} => arg[u] # c
        BY <3>1 DEF ExecOK, p
      <4> QED
        BY <1>1, <1>3, <2>1, <2>6, <2>7, <3>1, <4>1 DEF ExecOK
    <3> QED
      BY <3>2, <3>3
  <2>11. ASSUME NEW d \in Process
         PROVE  UnitOK(d)' /\ KeptOK(d)'
    <3>1. UnitOK(d) /\ KeptOK(d)
      BY DEF IInv
    <3>2. UnitOK(d)'
      BY <1>1, <1>3, <2>1, <2>6, <2>7, <3>1 DEF UnitOK, Pending, Claimed, Upped, Dead
    <3>3. KeptOK(d)'
      BY <1>1, <1>3, <2>1, <2>6, <2>7, <3>1 DEF KeptOK, Recording, Dead
    <3> QED
      BY <3>2, <3>3
  <2> QED
    BY <2>8, <2>9, <2>10, <2>11 DEF IInv
<1> QED
  BY <1>2, <1>3 DEF UpLoad

LEMMA LoadTellKeeps ==
  ASSUME IInv, NEW c \in Process, LoadTell(c)
  PROVE  IInv'
<1> DEFINE p == thread[c].parent
           b == TRUE
           f == "child_load_success"
<1>1. /\ pc \in [Tid -> Labels] /\ thread \in [Tid -> ThreadState]
      /\ c \in Tid /\ p \in Tid
  BY StateTypes
<1>2. CASE Reused(p)
  BY <1>2, ReusedKeeps DEF Reused
<1>3. CASE Write(p, f, b) /\ Goto(c, "load_up") /\ UNCHANGED <<arg, wild, asked>>
  <2>1. f \in Fields /\ b \in BOOLEAN
    BY DEF Fields
  <2> HIDE DEF b, p
  <2>2. Allowed(f, b)
    BY <2>1 DEF Allowed
  <2> HIDE DEF f
  <2>3. /\ thread' \in [Tid -> ThreadState]
        /\ \A u \in Tid, g \in Fields :
             thread'[u][g] = IF u = p /\ g = f /\ ~Dead(p) THEN b ELSE thread[u][g]
    BY <1>1, <1>3, <2>1, <2>2, Wrote
  <2>4. \A u \in Tid, g \in Watched : thread'[u][g] = thread[u][g]
    BY <2>3 DEF Watched, f
  <2>5. pc[c] = "load_tell" /\ pc' = [pc EXCEPT ![c] = "load_up"]
    BY <1>3 DEF LoadTell, At, Goto
  <2>6. TypeOK'
    <3>1. pc' \in [Tid -> Labels]
      BY <1>1, <2>5 DEF Labels, LoadPc
    <3> QED
      BY <1>3, <2>3, <3>1, Types, TypesNext DEF IInv
  <2> QED
    BY <1>1, <1>3, <2>4, <2>5, <2>6, MoveKeeps DEF Moves
<1> QED
  BY <1>2, <1>3 DEF LoadTell

\* A process that has not loaded, or calls exit, or is killed.
LEMMA LeaveKeeps ==
  ASSUME IInv, NEW c \in Process, pc[c] \in {"user", "load"}, NEW v \in Status,
         Write(c, "process_exit_status", v), Goto(c, "exit"), UNCHANGED <<arg, wild, asked>>
  PROVE  IInv'
<1> DEFINE f == "process_exit_status"
<1>1. /\ pc \in [Tid -> Labels] /\ arg \in [Tid -> Tid] /\ thread \in [Tid -> ThreadState]
      /\ wild \in BOOLEAN /\ asked \subseteq Process /\ Process \subseteq Tid
      /\ \A u \in Tid : thread[u].parent \in Tid
      /\ c \in Tid
  BY StateTypes
<1>2. f \in Fields /\ Allowed(f, v) /\ Write(c, f, v)
  BY DEF Fields, Allowed
<1> HIDE DEF f
<1>3. /\ thread' \in [Tid -> ThreadState]
      /\ \A u \in Tid, g \in Fields :
           thread'[u][g] = IF u = c /\ g = f /\ ~Dead(c) THEN v ELSE thread[u][g]
  BY <1>1, <1>2, Wrote
<1>4. \A u \in Tid :
        /\ thread'[u].parent = thread[u].parent
        /\ u # c => thread'[u].process_exit_status = thread[u].process_exit_status
        /\ thread'[u].child_exit_status = thread[u].child_exit_status
        /\ (thread'[u].is_already_call_wait <=> thread[u].is_already_call_wait)
        /\ thread'[u].being_waited = thread[u].being_waited
        /\ thread'[u].wait_child_load = thread[u].wait_child_load
  BY <1>3 DEF f, Fields
<1>5. pc' = [pc EXCEPT ![c] = "exit"] /\ \A u \in Tid : pc'[u] = IF u = c THEN "exit" ELSE pc[u]
  BY <1>1 DEF Goto
<1>6. TypeOK'
  <2>1. pc' \in [Tid -> Labels]
    BY <1>1, <1>5 DEF Labels, ExitPc
  <2> QED
    BY <1>1, <1>3, <2>1, TypesNext
<1>7. Started'
  BY <1>4, <1>5, StartedKept
<1>8. ASSUME NEW u \in Tid
      PROVE  WaitOK(u)' /\ ExecOK(u)'
  <2>1. WaitOK(u) /\ ExecOK(u)
    BY DEF IInv
  <2>2. WaitOK(u)'
    BY <1>1, <1>4, <1>5, <2>1 DEF WaitOK, WaitPc, Claimed, Upped, Dead
  <2>3. ExecOK(u)'
    BY <1>1, <1>4, <1>5, <2>1 DEF ExecOK
  <2> QED
    BY <2>2, <2>3
<1>9. ASSUME NEW d \in Process
      PROVE  UnitOK(d)' /\ KeptOK(d)'
  <2>1. UnitOK(d) /\ KeptOK(d)
    BY DEF IInv
  <2>2. UnitOK(d)'
    BY <1>1, <1>4, <1>5, <2>1 DEF UnitOK, Pending, Claimed, Upped, Dead
  <2>3. KeptOK(d)'
    BY <1>1, <1>4, <1>5, <2>1 DEF KeptOK, Recording, Dead
  <2> QED
    BY <2>2, <2>3
<1> QED
  BY <1>6, <1>7, <1>8, <1>9 DEF IInv

LEMMA LoadKeeps ==
  ASSUME IInv, NEW c \in Process, Load(c)
  PROVE  IInv'
<1>1. pc[c] = "load" /\ UNCHANGED <<arg, wild, asked>>
  BY DEF Load, At
<1>2. CASE Goto(c, "load_tell") /\ UNCHANGED thread
  <2>1. pc' = [pc EXCEPT ![c] = "load_tell"] /\ c \in Tid /\ pc \in [Tid -> Labels]
    BY <1>2, StateTypes DEF Goto
  <2>2. TypeOK'
    <3>1. pc' \in [Tid -> Labels]
      BY <2>1 DEF Labels, LoadPc
    <3> QED
      BY <1>1, <1>2, <3>1, Types, TypesNext DEF IInv
  <2> QED
    BY <1>1, <1>2, <2>1, <2>2, MoveKeeps DEF Moves
<1>3. CASE Goto(c, "exit") /\ Write(c, "process_exit_status", -1)
  <2> DEFINE v == -1
  <2>1. v \in Status /\ Write(c, "process_exit_status", v)
    BY <1>3 DEF Status
  <2> HIDE DEF v
  <2> QED
    BY <1>1, <1>3, <2>1, LeaveKeeps
<1> QED
  BY <1>2, <1>3 DEF Load

LEMMA ExitKeeps ==
  ASSUME IInv, NEW c \in Process, NEW status \in ExitStatus, Exit(c, status)
  PROVE  IInv'
<1>1. /\ pc[c] = "user" /\ status \in Status /\ Write(c, "process_exit_status", status)
      /\ Goto(c, "exit") /\ UNCHANGED <<arg, wild, asked>>
  BY DEF Exit, At, Status
<1> QED
  BY <1>1, LeaveKeeps

-------------------------------------------------------------------------------
(***************************************************************************)
(* process_wait.                                                           *)
(***************************************************************************)
LEMMA RecordStatusWrites ==
  ASSUME thread \in [Tid -> ThreadState], NEW p \in Tid, NEW c \in Tid, NEW s \in Status,
         RecordStatus(p, c, s)
  PROVE  /\ thread' \in [Tid -> ThreadState]
         /\ \A u \in Tid, g \in Fields \ {"child_exit_status"} : thread'[u][g] = thread[u][g]
         /\ \A u, d \in Tid :
              thread'[u].child_exit_status[d] =
                IF u = p /\ d = c /\ Recorded(c) /\ ~Dead(p) THEN s
                ELSE thread[u].child_exit_status[d]
<1>1. CASE ~Recorded(c)
  BY <1>1 DEF RecordStatus
<1>2. CASE Recorded(c)
  <2> DEFINE f == "child_exit_status"
             v == [thread[p].child_exit_status EXCEPT ![c] = s]
  <2>1. thread[p].child_exit_status \in [Tid -> Status]
    BY DEF ThreadState
  <2>2. /\ v \in [Tid -> Status]
        /\ \A d \in Tid : v[d] = IF d = c THEN s ELSE thread[p].child_exit_status[d]
    BY <2>1
  <2>3. f \in Fields /\ Allowed(f, v) /\ Write(p, f, v)
    BY <1>2, <2>2 DEF Fields, Allowed, RecordStatus
  <2> HIDE DEF f, v
  <2>4. /\ thread' \in [Tid -> ThreadState]
        /\ \A u \in Tid, g \in Fields :
             thread'[u][g] = IF u = p /\ g = f /\ ~Dead(p) THEN v ELSE thread[u][g]
    BY <2>3, Wrote
  <2>5. \A u \in Tid : thread'[u].child_exit_status =
                         IF u = p /\ ~Dead(p) THEN v ELSE thread[u].child_exit_status
    BY <2>4 DEF f, Fields
  <2>6. \A u \in Tid, g \in Fields \ {"child_exit_status"} : thread'[u][g] = thread[u][g]
    BY <2>4 DEF f
  <2> QED
    BY <1>2, <2>2, <2>4, <2>5, <2>6
<1> QED
  BY <1>1, <1>2

\* A parent forgets the status of a child only when it has asked for it.
LEMMA ForgetKeeps ==
  ASSUME IInv, NEW p \in Tid, NEW c \in Tid, NEW s \in Status, RecordStatus(p, c, s),
         UNCHANGED <<wild>>, asked \subseteq asked', asked' \subseteq Process,
         c \in Process /\ pc[c] # "none" /\ thread[c].parent = p => c \in asked',
         NEW l, NEW a \in Tid,
         pc' = [pc EXCEPT ![p] = l], arg' = [arg EXCEPT ![p] = a],
         \/ pc[p] = "user" /\ l = "user"
         \/ pc[p] = "wait_mark" /\ l = "wait_claim" /\ a = arg[p]
  PROVE  IInv'
<1>1. /\ pc \in [Tid -> Labels] /\ arg \in [Tid -> Tid] /\ thread \in [Tid -> ThreadState]
      /\ wild \in BOOLEAN /\ asked \subseteq Process /\ Process \subseteq Tid
      /\ \A u \in Tid : thread[u].parent \in Tid
  BY StateTypes
<1>2. /\ thread' \in [Tid -> ThreadState]
      /\ \A u \in Tid, g \in Fields \ {"child_exit_status"} : thread'[u][g] = thread[u][g]
      /\ \A u, d \in Tid :
           thread'[u].child_exit_status[d] =
             IF u = p /\ d = c /\ Recorded(c) /\ ~Dead(p) THEN s
             ELSE thread[u].child_exit_status[d]
  BY <1>1, RecordStatusWrites
<1>3. \A u \in Tid :
        /\ thread'[u].parent = thread[u].parent
        /\ thread'[u].process_exit_status = thread[u].process_exit_status
        /\ (thread'[u].is_already_call_wait <=> thread[u].is_already_call_wait)
        /\ thread'[u].being_waited = thread[u].being_waited
        /\ thread'[u].wait_child_load = thread[u].wait_child_load
        /\ pc'[u] = IF u = p THEN l ELSE pc[u]
        /\ arg'[u] = IF u = p THEN a ELSE arg[u]
  BY <1>1, <1>2 DEF Fields
<1>4. TypeOK'
  <2>1. pc' \in [Tid -> Labels] /\ arg' \in [Tid -> Tid]
    BY <1>1 DEF Labels, WaitPc
  <2> QED
    BY <1>1, <1>2, <2>1, TypesNext
<1>5. Started'
  BY <1>3, StartedKept
<1>6. ASSUME NEW u \in Tid
      PROVE  WaitOK(u)' /\ ExecOK(u)'
  <2>1. WaitOK(u) /\ ExecOK(u)
    BY DEF IInv
  <2>2. WaitOK(u)'
    BY <1>1, <1>3, <2>1 DEF WaitOK, WaitPc, Claimed, Upped, Dead
  <2>3. ExecOK(u)'
    BY <1>1, <1>3, <2>1 DEF ExecOK
  <2> QED
    BY <2>2, <2>3
<1>7. ASSUME NEW d \in Process
      PROVE  UnitOK(d)' /\ KeptOK(d)'
  <2>1. UnitOK(d) /\ KeptOK(d)
    BY DEF IInv
  <2>2. UnitOK(d)'
    BY <1>1, <1>3, <2>1 DEF UnitOK, Pending, Claimed, Upped, Dead
  <2>3. KeptOK(d)'
    <3>1. CASE pc[d] \in Recording /\ d \notin asked' /\ Recorded(d) /\ ~Dead(thread[d].parent)
      <4>1. ~(d = c /\ thread[d].parent = p)
        BY <3>1 DEF Recording
      <4> QED
        BY <1>1, <1>2, <1>3, <2>1, <3>1, <4>1 DEF KeptOK, Recording, Dead
    <3>2. CASE ~(pc[d] \in Recording /\ d \notin asked' /\ Recorded(d) /\ ~Dead(thread[d].parent))
      BY <1>1, <1>3, <2>1, <3>2 DEF KeptOK, Recording, Dead
    <3> QED
      BY <3>1, <3>2
  <2> QED
    BY <2>2, <2>3
<1> QED
  BY <1>4, <1>5, <1>6, <1>7 DEF IInv

\* A parent goes from one place where it has claimed nothing to another.
LEMMA WaitMoveKeeps ==
  ASSUME IInv, TypeOK', NEW p \in Tid, NEW l, NEW a \in Tid,
         pc' = [pc EXCEPT ![p] = l], arg' = [arg EXCEPT ![p] = a], asked \subseteq asked',
         \A u \in Tid, f \in Watched : thread'[u][f] = thread[u][f],
         pc[p] \in {"user", "wait_check", "wait_ret"},
         \/ l = "user"
         \/ /\ l = "wait_check" /\ pc[a] # "none"
            /\ a \in Process /\ thread[a].parent = p => a \in asked'
         \/ /\ l = "wait_mark" /\ pc[a] # "none" /\ a \in Process /\ thread[a].parent = p
            /\ a \in asked' /\ ~thread[a].is_already_call_wait
  PROVE  IInv'
<1>1. /\ pc \in [Tid -> Labels] /\ arg \in [Tid -> Tid] /\ Process \subseteq Tid
      /\ \A u \in Tid : thread[u].parent \in Tid
  BY StateTypes
<1>2. \A u \in Tid :
        /\ thread'[u].parent = thread[u].parent
        /\ thread'[u].process_exit_status = thread[u].process_exit_status
        /\ thread'[u].child_exit_status = thread[u].child_exit_status
        /\ (thread'[u].is_already_call_wait <=> thread[u].is_already_call_wait)
        /\ thread'[u].wait_child_load = thread[u].wait_child_load
        /\ thread'[u].being_waited = thread[u].being_waited
  BY DEF Watched, Fields
<1>3. \A u \in Tid : /\ pc'[u] = IF u = p THEN l ELSE pc[u]
                     /\ arg'[u] = IF u = p THEN a ELSE arg[u]
  BY <1>1
<1>4. Started'
  BY <1>2, <1>3, StartedKept
<1>5. ASSUME NEW u \in Tid
      PROVE  WaitOK(u)' /\ ExecOK(u)'
  <2>1. WaitOK(u) /\ ExecOK(u)
    BY DEF IInv
  <2>2. CASE u = p
    <3>1. pc[a] # "none" => pc'[a] # "none"
      BY <1>3
    <3> QED
      BY <1>1, <1>2, <1>3, <2>2, <3>1 DEF WaitOK, ExecOK, WaitPc, Claimed, Upped
  <2>3. CASE u # p
    <3>1. WaitOK(u)'
      BY <1>1, <1>2, <1>3, <2>1, <2>3 DEF WaitOK, WaitPc, Claimed, Upped, Dead
    <3>2. ExecOK(u)'
      BY <1>1, <1>2, <1>3, <2>1, <2>3 DEF ExecOK
    <3> QED
      BY <3>1, <3>2
  <2> QED
    BY <2>2, <2>3
<1>6. ASSUME NEW d \in Process
      PROVE  UnitOK(d)' /\ KeptOK(d)'
  <2>1. UnitOK(d) /\ KeptOK(d)
    BY DEF IInv
  <2>2. UnitOK(d)'
    BY <1>1, <1>2, <1>3, <2>1 DEF UnitOK, Pending, Claimed, Upped, Dead
  <2>3. KeptOK(d)'
    BY <1>1, <1>2, <1>3, <2>1 DEF KeptOK, Recording, Dead
  <2> QED
    BY <2>2, <2>3
<1> QED
  BY <1>4, <1>5, <1>6 DEF IInv

LEMMA WaitCallKeeps ==
  ASSUME IInv, NEW p \in Tid, NEW c \in Tid, WaitCall(p, c)
  PROVE  IInv'
<1>1. /\ pc \in [Tid -> Labels] /\ arg \in [Tid -> Tid] /\ thread \in [Tid -> ThreadState]
      /\ wild \in BOOLEAN /\ asked \subseteq Process
  BY StateTypes
<1>2. /\ pc[p] = "user" /\ wild' = wild
      /\ asked \subseteq asked' /\ asked' \subseteq Process
      /\ c \in Process /\ pc[c] # "none" /\ thread[c].parent = p => c \in asked'
  BY <1>1 DEF WaitCall, At
<1>3. CASE Alive(c)
  <2>1. /\ pc' = [pc EXCEPT ![p] = "wait_check"] /\ arg' = [arg EXCEPT ![p] = c]
        /\ thread' = thread /\ pc[c] # "none"
    BY <1>3 DEF WaitCall, Goto, Alive
  <2>2. TypeOK'
    <3>1. pc' \in [Tid -> Labels] /\ arg' \in [Tid -> Tid]
      BY <1>1, <2>1 DEF Labels, WaitPc
    <3> QED
      BY <1>1, <1>2, <2>1, <3>1, TypesNext
  <2> QED
    BY <1>2, <2>1, <2>2, WaitMoveKeeps
<1>4. CASE ~Alive(c)
  <2> DEFINE s == -1
  <2>1. /\ pc' = [pc EXCEPT ![p] = "user"] /\ arg' = [arg EXCEPT ![p] = p]
        /\ RecordStatus(p, c, s)
    BY <1>4 DEF WaitCall, Return, Goto
  <2>2. s \in Status
    BY DEF Status
  <2> HIDE DEF s
  <2> DEFINE l == "user"
             a == p
  <2>3. /\ pc' = [pc EXCEPT ![p] = l] /\ arg' = [arg EXCEPT ![p] = a] /\ a \in Tid
        /\ pc[p] = "user" /\ l = "user"
    BY <1>2, <2>1
  <2> HIDE DEF l, a
  <2> QED
    BY <1>2, <2>1, <2>2, <2>3, ForgetKeeps
<1> QED
  BY <1>3, <1>4

LEMMA WaitCheckKeeps ==
  ASSUME IInv, NEW p \in Tid, WaitCheck(p)
  PROVE  IInv'
<1> DEFINE c == arg[p]
<1>1. /\ pc \in [Tid -> Labels] /\ arg \in [Tid -> Tid] /\ thread \in [Tid -> ThreadState]
      /\ wild \in BOOLEAN /\ asked \subseteq Process /\ c \in Tid /\ WaitOK(p)
  BY StateTypes DEF IInv
<1>2. pc[p] = "wait_check"
  BY DEF WaitCheck, At
<1>3. CASE Reused(c)
  BY <1>3, ReusedKeeps DEF Reused
<1>4. CASE MayWait(p, c) /\ Goto(p, "wait_mark") /\ UNCHANGED <<arg, thread, wild, asked>>
  <2>1. pc' = [pc EXCEPT ![p] = "wait_mark"] /\ arg' = [arg EXCEPT ![p] = c]
    BY <1>1, <1>4 DEF Goto
  <2>2. TypeOK'
    <3>1. pc' \in [Tid -> Labels]
      BY <1>1, <2>1 DEF Labels, WaitPc
    <3> QED
      BY <1>1, <1>4, <3>1, TypesNext
  <2>3. /\ pc[c] # "none" /\ c \in Process /\ thread[c].parent = p
        /\ c \in asked /\ ~thread[c].is_already_call_wait
    BY <1>1, <1>2, <1>4 DEF MayWait, WaitOK, WaitPc, Tid
  <2> HIDE DEF c
  <2> QED
    BY <1>1, <1>2, <1>4, <2>1, <2>2, <2>3, WaitMoveKeeps
<1>5. CASE Return(p) /\ UNCHANGED <<thread, wild, asked>>
  <2>1. pc' = [pc EXCEPT ![p] = "user"] /\ arg' = [arg EXCEPT ![p] = p]
    BY <1>5 DEF Return, Goto
  <2>2. TypeOK'
    <3>1. pc' \in [Tid -> Labels] /\ arg' \in [Tid -> Tid]
      BY <1>1, <2>1 DEF Labels
    <3> QED
      BY <1>1, <1>5, <3>1, TypesNext
  <2> QED
    BY <1>2, <1>5, <2>1, <2>2, WaitMoveKeeps
<1> QED
  BY <1>3, <1>4, <1>5 DEF WaitCheck

LEMMA WaitForgetKeeps ==
  ASSUME IInv, NEW p \in Tid, WaitForget(p)
  PROVE  IInv'
<1> DEFINE c == arg[p]
           s == -1
           l == "wait_claim"
<1>1. /\ pc \in [Tid -> Labels] /\ arg \in [Tid -> Tid] /\ asked \subseteq Process
      /\ c \in Tid /\ WaitOK(p)
  BY StateTypes DEF IInv
<1>2. /\ pc[p] = "wait_mark" /\ RecordStatus(p, c, s) /\ UNCHANGED <<arg, wild, asked>>
      /\ pc' = [pc EXCEPT ![p] = l] /\ arg' = [arg EXCEPT ![p] = c]
      /\ l = "wait_claim" /\ c = arg[p]
  BY <1>1 DEF WaitForget, At, Goto
<1>3. s \in Status /\ c \in asked
  BY <1>1, <1>2 DEF Status, WaitOK
<1> HIDE DEF c, s, l
<1> QED
  BY <1>1, <1>2, <1>3, ForgetKeeps

LEMMA WaitClaimKeeps ==
  ASSUME IInv, NEW p \in Tid, WaitClaim(p)
  PROVE  IInv'
<1> DEFINE c == arg[p]
           f == "is_already_call_wait"
           b == TRUE
<1>1. /\ pc \in [Tid -> Labels] /\ arg \in [Tid -> Tid] /\ thread \in [Tid -> ThreadState]
      /\ wild \in BOOLEAN /\ asked \subseteq Process /\ c \in Tid
      /\ Process \subseteq Tid /\ \A u \in Tid : thread[u].parent \in Tid
  BY StateTypes
<1>2. pc[p] = "wait_claim"
  BY DEF WaitClaim, At
<1>3. CASE Reused(c)
  BY <1>3, ReusedKeeps DEF Reused
<1>4. CASE Write(c, f, b) /\ Goto(p, "wait_test") /\ UNCHANGED <<arg, wild, asked>>
  <2>1. /\ c \in Process /\ thread[c].parent = p /\ c \in asked
        /\ ~thread[c].is_already_call_wait /\ pc[c] # "none"
    <3>1. WaitOK(p)
      BY DEF IInv
    <3> QED
      BY <1>2, <3>1 DEF WaitOK, WaitPc
  <2>2. f \in Fields /\ b \in BOOLEAN
    BY DEF Fields
  <2>3. b <=> TRUE
    OBVIOUS
  <2> HIDE DEF b, c
  <2>4. Allowed(f, b)
    BY <2>2 DEF Allowed
  <2> HIDE DEF f
  <2>5. /\ thread' \in [Tid -> ThreadState]
        /\ \A u \in Tid, g \in Fields :
             thread'[u][g] = IF u = c /\ g = f /\ ~Dead(c) THEN b ELSE thread[u][g]
    BY <1>1, <1>4, <2>2, <2>4, Wrote
  <2>6. \A u \in Tid :
          /\ thread'[u].parent = thread[u].parent
          /\ thread'[u].process_exit_status = thread[u].process_exit_status
          /\ thread'[u].child_exit_status = thread[u].child_exit_status
          /\ thread'[u].being_waited = thread[u].being_waited
          /\ thread'[u].wait_child_load = thread[u].wait_child_load
          /\ u # c \/ Dead(c) => (thread'[u].is_already_call_wait <=> thread[u].is_already_call_wait)
    BY <2>5 DEF f, Fields
  <2>7. Dead(c) \/ thread'[c].is_already_call_wait
    <3>1. Dead(c) \/ thread'[c].is_already_call_wait = b
      BY <1>1, <2>5 DEF f, Fields
    <3> QED
      BY <2>3, <3>1
  <2>8. \A u \in Tid : pc'[u] = IF u = p THEN "wait_test" ELSE pc[u]
    BY <1>1, <1>4 DEF Goto
  <2>9. TypeOK'
    <3>1. pc' \in [Tid -> Labels]
      BY <1>1, <1>4 DEF Labels, WaitPc, Goto
    <3> QED
      BY <1>1, <1>4, <2>5, <3>1, TypesNext
  <2>10. Started'
    BY <1>2, <2>6, <2>8, StartedKept
  <2>11. ASSUME NEW u \in Tid
         PROVE  WaitOK(u)' /\ ExecOK(u)'
    <3>1. WaitOK(u) /\ ExecOK(u)
      BY DEF IInv
    <3>2. CASE u = p
      <4>1. arg'[u] = c /\ pc'[u] = "wait_test"
        BY <1>4, <2>8, <3>2 DEF c
      <4>2. pc'[c] # "none"
        BY <1>1, <2>1, <2>8
      <4>3. c \in asked' /\ thread'[c].parent = p
        BY <1>1, <1>4, <2>1, <2>6
      <4>4. pc'[c] = "dead" \/ thread'[c].is_already_call_wait
        BY <1>1, <1>2, <2>7, <2>8 DEF Dead
      <4>5. WaitOK(u)'
        BY <2>1, <3>2, <4>1, <4>2, <4>3, <4>4 DEF WaitOK, Dead, WaitPc, Claimed
      <4>6. ExecOK(u)'
        BY <4>1 DEF ExecOK
      <4> QED
        BY <4>5, <4>6
    <3>3. CASE u # p
      <4>1. WaitOK(u)'
        BY <1>1, <1>2, <1>4, <2>1, <2>6, <2>7, <2>8, <3>1, <3>3 DEF WaitOK, WaitPc, Claimed, Upped, Dead
      <4>2. ExecOK(u)'
        BY <1>1, <1>2, <1>4, <2>6, <2>8, <3>1, <3>3 DEF ExecOK
      <4> QED
        BY <4>1, <4>2
    <3> QED
      BY <3>2, <3>3
  <2>12. ASSUME NEW d \in Process
         PROVE  UnitOK(d)' /\ KeptOK(d)'
    <3>1. UnitOK(d) /\ KeptOK(d)
      BY DEF IInv
    <3>2. UnitOK(d)'
      <4>1. CASE d = c
        <5>1. Pending(c)
          BY <2>1 DEF Pending
        <5> QED
          BY <1>1, <1>2, <2>6, <2>8, <3>1, <4>1, <5>1 DEF UnitOK, Upped, Dead
      <4>2. CASE d # c
        BY <1>1, <1>2, <1>4, <2>1, <2>6, <2>8, <3>1, <4>2 DEF UnitOK, Pending, Claimed, Upped, Dead, c
      <4> QED
        BY <4>1, <4>2
    <3>3. KeptOK(d)'
      BY <1>1, <1>2, <1>4, <2>1, <2>6, <2>8, <3>1 DEF KeptOK, Recording, Dead
    <3> QED
      BY <3>2, <3>3
  <2> QED
    BY <2>9, <2>10, <2>11, <2>12 DEF IInv
<1> QED
  BY <1>3, <1>4 DEF WaitClaim

LEMMA WaitTestKeeps ==
  ASSUME IInv, NEW p \in Tid, WaitTest(p)
  PROVE  IInv'
<1>1. /\ pc \in [Tid -> Labels] /\ arg \in [Tid -> Tid] /\ thread \in [Tid -> ThreadState]
      /\ wild \in BOOLEAN /\ asked \subseteq Process
  BY StateTypes
<1>2. CASE Reused(arg[p])
  BY <1>2, ReusedKeeps DEF Reused
<1>3. CASE ~Reused(arg[p])
  <2>1. PICK l \in {"wait_down", "wait_ret"} :
          pc' = [pc EXCEPT ![p] = l] /\ UNCHANGED <<arg, thread, wild, asked>>
    BY <1>3 DEF WaitTest, Goto
  <2>2. pc[p] = "wait_test"
    BY DEF WaitTest, At
  <2>3. TypeOK'
    <3>1. pc' \in [Tid -> Labels]
      BY <1>1, <2>1 DEF Labels, WaitPc
    <3> QED
      BY <1>1, <2>1, <3>1, TypesNext
  <2> QED
    BY <2>1, <2>2, <2>3, MoveKeeps DEF Moves
<1> QED
  BY <1>2, <1>3

LEMMA WaitDownKeeps ==
  ASSUME IInv, NEW p \in Tid, WaitDown(p)
  PROVE  IInv'
<1> DEFINE c == arg[p]
           f == "being_waited"
           v == thread[c].being_waited - 1
<1>1. /\ pc \in [Tid -> Labels] /\ arg \in [Tid -> Tid] /\ thread \in [Tid -> ThreadState]
      /\ wild \in BOOLEAN /\ asked \subseteq Process /\ c \in Tid
      /\ Process \subseteq Tid /\ \A u \in Tid : thread[u].parent \in Tid
      /\ thread[c] \in ThreadState
  BY StateTypes
<1>2. pc[p] = "wait_down"
  BY DEF WaitDown, At
<1>3. CASE Reused(c)
  BY <1>3, ReusedKeeps DEF Reused
<1>4. /\ c \in Process /\ thread[c].parent = p /\ c \in asked /\ pc[c] # "none"
      /\ Dead(c) \/ thread[c].is_already_call_wait
  <2>1. WaitOK(p)
    BY DEF IInv
  <2> QED
    BY <1>2, <2>1 DEF WaitOK, WaitPc, Claimed
<1>5. UnitOK(c) /\ Pending(c)
  BY <1>2, <1>4 DEF IInv, Pending, Claimed
<1>6. CASE /\ Dead(c) \/ thread[c].being_waited > 0
           /\ Goto(p, "wait_ret") /\ Write(c, f, v) /\ UNCHANGED <<arg, wild, asked>>
  <2>1. /\ thread' \in [Tid -> ThreadState]
        /\ \A u \in Tid :
             /\ thread'[u].parent = thread[u].parent
             /\ thread'[u].process_exit_status = thread[u].process_exit_status
             /\ thread'[u].child_exit_status = thread[u].child_exit_status
             /\ u # c \/ Dead(c) => thread'[u].being_waited = thread[u].being_waited
             /\ thread'[u].wait_child_load = thread[u].wait_child_load
             /\ (thread'[u].is_already_call_wait <=> thread[u].is_already_call_wait)
    <3>1. CASE Dead(c)
      <4>1. thread' = thread
        BY <1>6, <3>1 DEF Write
      <4> QED
        BY <1>1, <4>1
    <3>2. CASE ~Dead(c)
      <4>1. v \in Nat
        BY <1>1, <1>6, <3>2 DEF ThreadState
      <4>2. f \in Fields /\ Allowed(f, v) /\ Write(c, f, v)
        BY <1>6, <4>1 DEF Fields, Allowed
      <4> HIDE DEF c, f, v
      <4>3. /\ thread' \in [Tid -> ThreadState]
            /\ \A u \in Tid, g \in Fields :
                 thread'[u][g] = IF u = c /\ g = f /\ ~Dead(c) THEN v ELSE thread[u][g]
        BY <1>1, <4>2, Wrote
      <4> QED
        BY <4>3, <3>2 DEF f, Fields
    <3> QED
      BY <3>1, <3>2
  <2>2. \A u \in Tid : pc'[u] = IF u = p THEN "wait_ret" ELSE pc[u]
    BY <1>1, <1>6 DEF Goto
  <2>3. TypeOK'
    <3>1. pc' \in [Tid -> Labels]
      BY <1>1, <1>6 DEF Labels, WaitPc, Goto
    <3> QED
      BY <1>1, <1>6, <2>1, <3>1, TypesNext
  <2>4. Started'
    BY <1>2, <2>1, <2>2, StartedKept
  <2>5. ASSUME NEW u \in Tid
        PROVE  WaitOK(u)' /\ ExecOK(u)'
    <3>1. WaitOK(u) /\ ExecOK(u)
      BY DEF IInv
    <3>2. WaitOK(u)'
      BY <1>1, <1>2, <1>6, <2>1, <2>2, <3>1 DEF WaitOK, WaitPc, Claimed, Upped, Dead
    <3>3. ExecOK(u)'
      BY <1>1, <1>2, <1>6, <2>1, <2>2, <3>1 DEF ExecOK
    <3> QED
      BY <3>2, <3>3
  <2>6. ASSUME NEW d \in Process
        PROVE  UnitOK(d)' /\ KeptOK(d)'
    <3>1. UnitOK(d) /\ KeptOK(d)
      BY DEF IInv
    <3>2. UnitOK(d)'
      <4>1. d = c /\ ~Dead(c) => ~Pending(d)'
        BY <1>1, <1>4, <2>1, <2>2 DEF Pending, Claimed
      <4>2. CASE d = c
        BY <1>1, <1>2, <2>2, <4>1, <4>2 DEF UnitOK, Dead
      <4>3. CASE d # c
        BY <1>1, <1>2, <1>6, <2>1, <2>2, <3>1, <4>3 DEF UnitOK, Pending, Claimed, Upped, Dead
      <4> QED
        BY <4>2, <4>3
    <3>3. KeptOK(d)'
      BY <1>1, <1>2, <1>6, <2>1, <2>2, <3>1 DEF KeptOK, Recording, Dead
    <3> QED
      BY <3>2, <3>3
  <2> QED
    BY <2>3, <2>4, <2>5, <2>6 DEF IInv
<1>7. CASE /\ ~(Dead(c) \/ thread[c].being_waited > 0)
           /\ Goto(p, "wait_sleep") /\ UNCHANGED <<arg, thread, wild, asked>>
  <2>1. pc[c] \notin Upped /\ ~Dead(c)
    BY <1>5, <1>7 DEF UnitOK
  <2>2. \A u \in Tid : pc'[u] = IF u = p THEN "wait_sleep" ELSE pc[u]
    BY <1>1, <1>7 DEF Goto
  <2>3. TypeOK'
    <3>1. pc' \in [Tid -> Labels]
      BY <1>1, <1>7 DEF Labels, WaitPc, Goto
    <3> QED
      BY <1>1, <1>7, <3>1, TypesNext
  <2>4. Started'
    BY <1>2, <1>7, <2>2, StartedKept
  <2>5. ASSUME NEW u \in Tid
        PROVE  WaitOK(u)' /\ ExecOK(u)'
    <3>1. WaitOK(u) /\ ExecOK(u)
      BY DEF IInv
    <3>2. WaitOK(u)'
      BY <1>1, <1>2, <1>7, <2>1, <2>2, <3>1 DEF WaitOK, WaitPc, Claimed, Upped, Dead
    <3>3. ExecOK(u)'
      BY <1>1, <1>2, <1>7, <2>2, <3>1 DEF ExecOK
    <3> QED
      BY <3>2, <3>3
  <2>6. ASSUME NEW d \in Process
        PROVE  UnitOK(d)' /\ KeptOK(d)'
    <3>1. UnitOK(d) /\ KeptOK(d)
      BY DEF IInv
    <3>2. UnitOK(d)'
      BY <1>1, <1>2, <1>7, <2>2, <3>1 DEF UnitOK, Pending, Claimed, Upped, Dead
    <3>3. KeptOK(d)'
      BY <1>1, <1>2, <1>7, <2>2, <3>1 DEF KeptOK, Recording, Dead
    <3> QED
      BY <3>2, <3>3
  <2> QED
    BY <2>3, <2>4, <2>5, <2>6 DEF IInv
<1> QED
  BY <1>3, <1>6, <1>7 DEF WaitDown

LEMMA WaitReturnKeeps ==
  ASSUME IInv, NEW p \in Tid, WaitReturn(p)
  PROVE  IInv'
<1> DEFINE f == "wait_exit_status"
<1>1. /\ pc \in [Tid -> Labels] /\ arg \in [Tid -> Tid] /\ thread \in [Tid -> ThreadState]
      /\ wild \in BOOLEAN /\ asked \subseteq Process
  BY StateTypes
<1>2. /\ pc[p] = "wait_ret" /\ Write(p, f, EXIT_NOT_EXIT) /\ UNCHANGED <<wild, asked>>
      /\ pc' = [pc EXCEPT ![p] = "user"] /\ arg' = [arg EXCEPT ![p] = p]
  BY DEF WaitReturn, At, Return, Goto
<1>3. f \in Fields /\ Allowed(f, EXIT_NOT_EXIT)
  BY DEF Fields, Allowed, Status
<1> HIDE DEF f
<1>4. /\ thread' \in [Tid -> ThreadState]
      /\ \A u \in Tid, g \in Fields :
           thread'[u][g] = IF u = p /\ g = f /\ ~Dead(p) THEN EXIT_NOT_EXIT ELSE thread[u][g]
  BY <1>1, <1>2, <1>3, Wrote
<1>5. \A u \in Tid, g \in Watched : thread'[u][g] = thread[u][g]
  BY <1>4 DEF Watched, f
<1>6. TypeOK'
  <2>1. pc' \in [Tid -> Labels] /\ arg' \in [Tid -> Tid]
    BY <1>1, <1>2 DEF Labels
  <2> QED
    BY <1>1, <1>2, <1>4, <2>1, TypesNext
<1> QED
  BY <1>2, <1>5, <1>6, WaitMoveKeeps

-------------------------------------------------------------------------------
(***************************************************************************)
(* process_exit.                                                           *)
(***************************************************************************)
LEMMA ExitLookWaitedKeeps ==
  ASSUME IInv, NEW c \in Process, ExitLookWaited(c)
  PROVE  IInv'
<1>1. /\ pc \in [Tid -> Labels] /\ arg \in [Tid -> Tid] /\ thread \in [Tid -> ThreadState]
      /\ wild \in BOOLEAN /\ asked \subseteq Process /\ Process \subseteq Tid
      /\ \A u \in Tid : thread[u].parent \in Tid
  BY StateTypes
<1>2. pc[c] = "exit" /\ UNCHANGED <<arg, thread, wild, asked>>
  BY DEF ExitLookWaited, At
<1>3. PICK l \in {"exit_drop", "exit_keep"} :
        /\ pc' = [pc EXCEPT ![c] = l]
        /\ l = "exit_drop" => thread[c].is_already_call_wait
  BY DEF ExitLookWaited, Goto
<1>4. \A u \in Tid : pc'[u] = IF u = c THEN l ELSE pc[u]
  BY <1>1, <1>3
<1>5. TypeOK'
  <2>1. pc' \in [Tid -> Labels]
    BY <1>1, <1>3 DEF Labels, ExitPc
  <2> QED
    BY <1>1, <1>2, <2>1, TypesNext
<1>6. Started'
  BY <1>2, <1>4, StartedKept
<1>7. ASSUME NEW u \in Tid
      PROVE  WaitOK(u)' /\ ExecOK(u)'
  <2>1. WaitOK(u) /\ ExecOK(u)
    BY DEF IInv
  <2>2. WaitOK(u)'
    BY <1>1, <1>2, <1>4, <2>1 DEF WaitOK, WaitPc, Claimed, Upped, Dead
  <2>3. ExecOK(u)'
    BY <1>1, <1>2, <1>4, <2>1 DEF ExecOK
  <2> QED
    BY <2>2, <2>3
<1>8. ASSUME NEW d \in Process
      PROVE  UnitOK(d)' /\ KeptOK(d)'
  <2>1. UnitOK(d) /\ KeptOK(d)
    BY DEF IInv
  <2>2. UnitOK(d)'
    BY <1>1, <1>2, <1>4, <2>1 DEF UnitOK, Pending, Claimed, Upped, Dead
  <2>3. KeptOK(d)'
    BY <1>1, <1>2, <1>3, <1>4, <2>1 DEF KeptOK, Recording, Dead
  <2> QED
    BY <2>2, <2>3
<1> QED
  BY <1>5, <1>6, <1>7, <1>8 DEF IInv

LEMMA ExitRecordKeeps ==
  ASSUME IInv, NEW c \in Process, ExitRecord(c)
  PROVE  IInv'
<1> DEFINE p == thread[c].parent
           s == IF pc[c] = "exit_keep" THEN thread[c].process_exit_status ELSE -1
<1>1. /\ pc \in [Tid -> Labels] /\ arg \in [Tid -> Tid] /\ thread \in [Tid -> ThreadState]
      /\ wild \in BOOLEAN /\ asked \subseteq Process /\ Process \subseteq Tid
      /\ \A u \in Tid : thread[u].parent \in Tid
      /\ c \in Tid /\ p \in Tid /\ thread[c] \in ThreadState
  BY StateTypes
<1>2. pc[c] \in {"exit_keep", "exit_drop"}
  BY DEF ExitRecord
<1>3. CASE Reused(p)
  BY <1>3, ReusedKeeps DEF Reused
<1>4. CASE RecordStatus(p, c, s) /\ Goto(c, "exit_tell") /\ UNCHANGED <<arg, wild, asked>>
  <2>1. s \in Status /\ (pc[c] = "exit_keep" => s = thread[c].process_exit_status)
    BY <1>1 DEF ThreadState, Status
  <2>2. p # c /\ p = thread[c].parent
    BY <1>2 DEF IInv, Started
  <2>3. pc[c] = "exit_drop" => c \in asked
    BY DEF IInv, KeptOK
  <2> HIDE DEF p, s
  <2>4. /\ thread' \in [Tid -> ThreadState]
        /\ \A u \in Tid, g \in Fields \ {"child_exit_status"} : thread'[u][g] = thread[u][g]
        /\ \A u, d \in Tid :
             thread'[u].child_exit_status[d] =
               IF u = p /\ d = c /\ Recorded(c) /\ ~Dead(p) THEN s
               ELSE thread[u].child_exit_status[d]
    BY <1>1, <1>4, <2>1, RecordStatusWrites
  <2>5. \A u \in Tid :
          /\ thread'[u].parent = thread[u].parent
          /\ thread'[u].process_exit_status = thread[u].process_exit_status
          /\ (thread'[u].is_already_call_wait <=> thread[u].is_already_call_wait)
          /\ thread'[u].being_waited = thread[u].being_waited
          /\ thread'[u].wait_child_load = thread[u].wait_child_load
          /\ pc'[u] = IF u = c THEN "exit_tell" ELSE pc[u]
    BY <1>1, <1>4, <2>4 DEF Fields, Goto
  <2>6. TypeOK'
    <3>1. pc' \in [Tid -> Labels]
      BY <1>1, <1>4 DEF Labels, ExitPc, Goto
    <3> QED
      BY <1>1, <1>4, <2>4, <3>1, TypesNext
  <2>7. Started'
    BY <1>2, <2>5, StartedKept
  <2>8. ASSUME NEW u \in Tid
        PROVE  WaitOK(u)' /\ ExecOK(u)'
    <3>1. WaitOK(u) /\ ExecOK(u)
      BY DEF IInv
    <3>2. WaitOK(u)'
      BY <1>1, <1>2, <1>4, <2>5, <3>1 DEF WaitOK, WaitPc, Claimed, Upped, Dead
    <3>3. ExecOK(u)'
      BY <1>1, <1>2, <1>4, <2>5, <3>1 DEF ExecOK
    <3> QED
      BY <3>2, <3>3
  <2>9. ASSUME NEW d \in Process
        PROVE  UnitOK(d)' /\ KeptOK(d)'
    <3>1. UnitOK(d) /\ KeptOK(d)
      BY DEF IInv
    <3>2. UnitOK(d)'
      BY <1>1, <1>2, <1>4, <2>5, <3>1 DEF UnitOK, Pending, Claimed, Upped, Dead
    <3>3. KeptOK(d)'
      <4>1. CASE d = c
        <5>1. \/ c \in asked \/ ~Recorded(c) \/ Dead(p)
              \/ thread'[p].child_exit_status[c] = thread[c].process_exit_status
          BY <1>1, <1>2, <2>1, <2>3, <2>4
        <5>2. pc'[p] = pc[p]
          BY <1>1, <2>2, <2>5
        <5>3. \/ c \in asked \/ ~Recorded(c) \/ pc'[thread'[c].parent] = "dead"
              \/ thread'[thread'[c].parent].child_exit_status[c] = thread'[c].process_exit_status
          BY <1>1, <2>2, <2>5, <5>1, <5>2 DEF Dead
        <5> QED
          BY <1>1, <1>2, <1>4, <2>5, <3>1, <4>1, <5>3 DEF KeptOK, Dead
      <4>2. CASE d # c
        BY <1>1, <1>2, <1>4, <2>4, <2>5, <3>1, <4>2 DEF KeptOK, Recording, Dead
      <4> QED
        BY <4>1, <4>2
    <3> QED
      BY <3>2, <3>3
  <2> QED
    BY <2>6, <2>7, <2>8, <2>9 DEF IInv
<1> QED
  BY <1>3, <1>4 DEF ExitRecord

LEMMA ExitTellKeeps ==
  ASSUME IInv, NEW c \in Process, ExitTell(c)
  PROVE  IInv'
<1> DEFINE v == thread[c].process_exit_status
           told(t) == [thread[t] EXCEPT !.wait_exit_status = v]
<1>1. /\ pc \in [Tid -> Labels] /\ arg \in [Tid -> Tid] /\ thread \in [Tid -> ThreadState]
      /\ wild \in BOOLEAN /\ asked \subseteq Process /\ Process \subseteq Tid
      /\ c \in Tid /\ thread[c] \in ThreadState
  BY StateTypes
<1>2. /\ pc[c] = "exit_tell" /\ pc' = [pc EXCEPT ![c] = "exit_else"]
      /\ UNCHANGED <<arg, wild, asked>>
      /\ thread' = [t \in Tid |-> IF t \in Waiters(c) THEN told(t) ELSE thread[t]]
  BY DEF ExitTell, At, Goto
<1>3. v \in Status
  BY <1>1 DEF ThreadState
<1>4. \A t \in Tid : told(t) \in ThreadState /\ \A f \in Watched : told(t)[f] = thread[t][f]
  <2> HIDE DEF v
  <2> QED
    BY <1>1, <1>3 DEF ThreadState, Watched, Fields
<1> HIDE DEF told
<1>5. /\ thread' \in [Tid -> ThreadState]
      /\ \A u \in Tid, f \in Watched : thread'[u][f] = thread[u][f]
  BY <1>1, <1>2, <1>4
<1>6. TypeOK'
  <2>1. pc' \in [Tid -> Labels]
    BY <1>1, <1>2 DEF Labels, ExitPc
  <2> QED
    BY <1>1, <1>2, <1>5, <2>1, TypesNext
<1> QED
  BY <1>1, <1>2, <1>5, <1>6, MoveKeeps DEF Moves

LEMMA ExitElseKeeps ==
  ASSUME IInv, NEW c \in Process, ExitElse(c)
  PROVE  IInv'
<1> DEFINE p == thread[c].parent
           v == thread[c].process_exit_status + 1
           f == "wait_exit_status"
<1>1. /\ pc \in [Tid -> Labels] /\ arg \in [Tid -> Tid] /\ thread \in [Tid -> ThreadState]
      /\ wild \in BOOLEAN /\ asked \subseteq Process /\ Process \subseteq Tid
      /\ c \in Tid /\ p \in Tid /\ thread[c] \in ThreadState
  BY StateTypes
<1>2. CASE Reused(p)
  BY <1>2, ReusedKeeps DEF Reused
<1>3. CASE /\ Write(p, f, v) \/ UNCHANGED thread
           /\ Goto(c, "exit_up") /\ UNCHANGED <<arg, wild, asked>>
  <2>1. /\ thread' \in [Tid -> ThreadState]
        /\ \A u \in Tid, g \in Watched : thread'[u][g] = thread[u][g]
    <3>1. CASE Write(p, f, v)
      <4>1. f \in Fields /\ Allowed(f, v)
        BY <1>1 DEF Fields, Allowed, ThreadState
      <4> HIDE DEF p, v, f
      <4>2. /\ thread' \in [Tid -> ThreadState]
            /\ \A u \in Tid, g \in Fields :
                 thread'[u][g] = IF u = p /\ g = f /\ ~Dead(p) THEN v ELSE thread[u][g]
        BY <1>1, <3>1, <4>1, Wrote
      <4> QED
        BY <4>2 DEF Watched, f
    <3>2. CASE UNCHANGED thread
      BY <1>1, <3>2
    <3> QED
      BY <1>3, <3>1, <3>2
  <2>2. pc[c] = "exit_else" /\ pc' = [pc EXCEPT ![c] = "exit_up"]
    BY <1>3 DEF ExitElse, At, Goto
  <2>3. TypeOK'
    <3>1. pc' \in [Tid -> Labels]
      BY <1>1, <2>2 DEF Labels, ExitPc
    <3> QED
      BY <1>1, <1>3, <2>1, <3>1, TypesNext
  <2> QED
    BY <1>1, <1>3, <2>1, <2>2, <2>3, MoveKeeps DEF Moves
<1> QED
  BY <1>2, <1>3 DEF ExitElse

LEMMA ExitUpKeeps ==
  ASSUME IInv, NEW c \in Process, ExitUp(c)
  PROVE  IInv'
<1> DEFINE v == thread[c].being_waited + 1
           f == "being_waited"
<1>1. /\ pc \in [Tid -> Labels] /\ arg \in [Tid -> Tid] /\ thread \in [Tid -> ThreadState]
      /\ wild \in BOOLEAN /\ asked \subseteq Process /\ Process \subseteq Tid
      /\ \A u \in Tid : thread[u].parent \in Tid
      /\ c \in Tid /\ thread[c] \in ThreadState
  BY StateTypes
<1>2. /\ pc[c] = "exit_up" /\ Write(c, f, v) /\ UNCHANGED <<arg, wild, asked>>
      /\ pc' = [t \in Tid |-> IF t = c THEN "exit_up_load"
                              ELSE IF t \in Waiters(c) THEN "wait_down" ELSE pc[t]]
  BY DEF ExitUp, At
<1>3. v \in Nat /\ v = thread[c].being_waited + 1 /\ ~Dead(c)
  BY <1>1, <1>2 DEF ThreadState, Dead
<1>4. f \in Fields /\ Allowed(f, v)
  BY <1>3 DEF Fields, Allowed
<1> HIDE DEF v, f
<1>5. /\ thread' \in [Tid -> ThreadState]
      /\ \A u \in Tid, g \in Fields :
           thread'[u][g] = IF u = c /\ g = f /\ ~Dead(c) THEN v ELSE thread[u][g]
  BY <1>1, <1>2, <1>4, Wrote
<1>6. \A u \in Tid :
        /\ thread'[u].parent = thread[u].parent
        /\ thread'[u].process_exit_status = thread[u].process_exit_status
        /\ thread'[u].child_exit_status = thread[u].child_exit_status
        /\ thread'[u].being_waited = IF u = c THEN v ELSE thread[u].being_waited
        /\ thread'[u].wait_child_load = thread[u].wait_child_load
        /\ (thread'[u].is_already_call_wait <=> thread[u].is_already_call_wait)
  BY <1>3, <1>5 DEF f, Fields
<1>7. \A u \in Tid : pc'[u] = IF u = c THEN "exit_up_load"
                              ELSE IF pc[u] = "wait_sleep" /\ arg[u] = c THEN "wait_down"
                              ELSE pc[u]
  BY <1>2 DEF Waiters
<1>8. TypeOK'
  <2>1. pc' \in [Tid -> Labels]
    BY <1>1, <1>2 DEF Labels, ExitPc, WaitPc
  <2> QED
    BY <1>1, <1>2, <1>5, <2>1, TypesNext
<1>9. Started'
  BY <1>2, <1>6, <1>7, StartedKept
<1>10. ASSUME NEW u \in Tid
       PROVE  WaitOK(u)' /\ ExecOK(u)'
  <2>1. WaitOK(u) /\ ExecOK(u)
    BY DEF IInv
  <2>2. WaitOK(u)'
    BY <1>1, <1>2, <1>6, <1>7, <2>1 DEF WaitOK, WaitPc, Claimed, Upped, Dead
  <2>3. ExecOK(u)'
    BY <1>1, <1>2, <1>6, <1>7, <2>1 DEF ExecOK
  <2> QED
    BY <2>2, <2>3
<1>11. ASSUME NEW d \in Process
       PROVE  UnitOK(d)' /\ KeptOK(d)'
  <2>1. UnitOK(d) /\ KeptOK(d)
    BY DEF IInv
  <2>2. Pending(d)' => Pending(d)
    BY <1>1, <1>2, <1>6, <1>7 DEF Pending, Claimed
  <2>3. UnitOK(d)'
    <3>1. CASE d = c
      <4>1. Pending(c) => v = 1
        BY <1>2, <1>3, <2>1, <3>1 DEF UnitOK, Upped
      <4> QED
        BY <1>1, <1>6, <1>7, <2>2, <3>1, <4>1 DEF UnitOK, Upped
    <3>2. CASE d # c
      BY <1>1, <1>6, <1>7, <2>1, <2>2, <3>2 DEF UnitOK, Upped, Dead
    <3> QED
      BY <3>1, <3>2
  <2>4. KeptOK(d)'
    BY <1>1, <1>2, <1>6, <1>7, <2>1 DEF KeptOK, Recording, Dead
  <2> QED
    BY <2>3, <2>4
<1> QED
  BY <1>8, <1>9, <1>10, <1>11 DEF IInv

LEMMA ExitDieKeeps ==
  ASSUME IInv, NEW c \in Process, ExitDie(c)
  PROVE  IInv'
<1>1. /\ pc \in [Tid -> Labels] /\ arg \in [Tid -> Tid] /\ thread \in [Tid -> ThreadState]
      /\ wild \in BOOLEAN /\ asked \subseteq Process /\ c \in Tid
  BY StateTypes
<1>2. /\ pc[c] = "exit_die" /\ pc' = [pc EXCEPT ![c] = "dead"]
      /\ UNCHANGED <<arg, thread, wild, asked>>
  BY DEF ExitDie, At, Goto
<1>3. TypeOK'
  <2>1. pc' \in [Tid -> Labels]
    BY <1>1, <1>2 DEF Labels
  <2> QED
    BY <1>1, <1>2, <2>1, TypesNext
<1> QED
  BY <1>1, <1>2, <1>3, MoveKeeps DEF Moves

-------------------------------------------------------------------------------
(***************************************************************************)
(* The kernel's first thread does nothing but wait, for the first process. *)
(***************************************************************************)
MainWaits == pc[Main] \in WaitPc \union {"user"}

LEMMA MainWaitsKept ==
  ASSUME IInv, MainWaits, Next
  PROVE  MainWaits'
<1>1. /\ pc \in [Tid -> Labels] /\ Main \in Tid /\ Main \notin Process /\ Process \subseteq Tid
      /\ \A u \in Tid : thread[u].parent \in Tid
  BY StateTypes
<1> USE DEF MainWaits, WaitPc
<1>2. ASSUME NEW p \in Tid, NEW l, pc' = [pc EXCEPT ![p] = l],
             p = Main => l \in WaitPc \union {"user"}
      PROVE  MainWaits'
  BY <1>1, <1>2
<1>3. ASSUME NEW p \in Tid, NEW k, NEW l, pc[p] = k, k \notin WaitPc \union {"user"},
             UpLoad(p, k, l)
      PROVE  MainWaits'
  BY <1>1, <1>3 DEF UpLoad, Reused
<1>4. ASSUME NEW p \in Tid, KernelStep(p)
      PROVE  MainWaits'
  <2>1. CASE ExecDown(p) \/ ExecReturn(p)
    BY <1>1, <2>1 DEF ExecDown, ExecReturn, At, Goto, Return
  <2>2. CASE Load(p) \/ LoadTell(p)
    BY <1>1, <2>2 DEF Load, LoadTell, At, Goto, Reused
  <2>3. CASE LoadUp(p) \/ ExitUpLoad(p)
    BY <1>3, <2>3 DEF LoadUp, ExitUpLoad, UpLoad, At
  <2>4. CASE WaitCheck(p)
    BY <1>1, <2>4 DEF WaitCheck, Goto, Return, Reused
  <2>5. CASE WaitForget(p) \/ WaitClaim(p)
    BY <1>1, <2>5 DEF WaitForget, WaitClaim, Goto, Reused
  <2>6. CASE WaitTest(p)
    BY <1>1, <2>6 DEF WaitTest, Goto, Reused
  <2>7. CASE WaitDown(p) \/ WaitReturn(p)
    BY <1>1, <2>7 DEF WaitDown, WaitReturn, Goto, Return, Reused
  <2>8. CASE ExitLookWaited(p) \/ ExitRecord(p)
    BY <1>1, <2>8 DEF ExitLookWaited, ExitRecord, At, Goto, Reused
  <2>9. CASE ExitTell(p) \/ ExitElse(p) \/ ExitDie(p)
    BY <1>1, <2>9 DEF ExitTell, ExitElse, ExitDie, At, Goto, Reused
  <2>10. CASE ExitUp(p)
    BY <1>1, <2>10 DEF ExitUp, At
  <2> QED
    BY <1>4, <2>1, <2>2, <2>3, <2>4, <2>5, <2>6, <2>7, <2>8, <2>9, <2>10 DEF KernelStep
<1>5. ASSUME NEW p \in Process, SystemCall(p)
      PROVE  MainWaits'
  <2>1. CASE \E c \in Process : Exec(p, c)
    <3>1. PICK c \in Process : pc' = [pc EXCEPT ![p] = "exec_down", ![c] = "load"]
      BY <2>1 DEF Exec
    <3> QED
      BY <1>1, <3>1
  <2>2. CASE \E c \in Tid : WaitCall(p, c)
    BY <1>1, <2>2 DEF WaitCall, Goto, Return
  <2>3. CASE \E status \in ExitStatus : Exit(p, status)
    BY <1>1, <2>3 DEF Exit, Goto
  <2> QED
    BY <1>5, <2>1, <2>2, <2>3 DEF SystemCall
<1> QED
  BY <1>4, <1>5 DEF Next

LEMMA StepKeepsIInv ==
  ASSUME IInv, MainWaits, [Next]_vars
  PROVE  IInv' /\ MainWaits'
<1>1. CASE UNCHANGED vars
  BY <1>1, ReusedKeeps, StateTypes DEF vars, MainWaits
<1>2. ASSUME NEW p \in Tid, KernelStep(p)
      PROVE  IInv'
  <2>1. CASE ExecDown(p)
    BY <2>1, ExecDownKeeps
  <2>2. CASE ExecReturn(p)
    BY <2>2, ExecReturnKeeps
  <2>3. CASE WaitCheck(p)
    BY <2>3, WaitCheckKeeps
  <2>4. CASE WaitForget(p)
    BY <2>4, WaitForgetKeeps
  <2>5. CASE WaitClaim(p)
    BY <2>5, WaitClaimKeeps
  <2>6. CASE WaitTest(p)
    BY <2>6, WaitTestKeeps
  <2>7. CASE WaitDown(p)
    BY <2>7, WaitDownKeeps
  <2>8. CASE WaitReturn(p)
    BY <2>8, WaitReturnKeeps
  <2>9. CASE p \in Process
    <3>1. CASE Load(p)
      BY <2>9, <3>1, LoadKeeps
    <3>2. CASE LoadTell(p)
      BY <2>9, <3>2, LoadTellKeeps
    <3>3. CASE LoadUp(p)
      <4> DEFINE k == "load_up"
                 l == "user"
      <4>1. /\ UpLoad(p, k, l)
            /\ \/ k = "load_up" /\ l = "user"
               \/ k = "exit_up_load" /\ l = "exit_die"
        BY <3>3 DEF LoadUp
      <4> HIDE DEF k, l
      <4> QED
        BY <2>9, <4>1, UpLoadKeeps
    <3>4. CASE ExitLookWaited(p)
      BY <2>9, <3>4, ExitLookWaitedKeeps
    <3>5. CASE ExitRecord(p)
      BY <2>9, <3>5, ExitRecordKeeps
    <3>6. CASE ExitTell(p)
      BY <2>9, <3>6, ExitTellKeeps
    <3>7. CASE ExitElse(p)
      BY <2>9, <3>7, ExitElseKeeps
    <3>8. CASE ExitUp(p)
      BY <2>9, <3>8, ExitUpKeeps
    <3>9. CASE ExitUpLoad(p)
      <4> DEFINE k == "exit_up_load"
                 l == "exit_die"
      <4>1. /\ UpLoad(p, k, l)
            /\ \/ k = "load_up" /\ l = "user"
               \/ k = "exit_up_load" /\ l = "exit_die"
        BY <3>9 DEF ExitUpLoad
      <4> HIDE DEF k, l
      <4> QED
        BY <2>9, <4>1, UpLoadKeeps
    <3>10. CASE ExitDie(p)
      BY <2>9, <3>10, ExitDieKeeps
    <3> QED
      BY <1>2, <2>1, <2>2, <2>3, <2>4, <2>5, <2>6, <2>7, <2>8, <3>1, <3>2, <3>3, <3>4,
         <3>5, <3>6, <3>7, <3>8, <3>9, <3>10 DEF KernelStep
  <2>10. CASE p = Main
    <3>1. pc[p] \in WaitPc \union {"user"}
      BY <2>10 DEF MainWaits
    <3>2. /\ ~Load(p) /\ ~LoadTell(p) /\ ~LoadUp(p) /\ ~ExitLookWaited(p) /\ ~ExitTell(p)
          /\ ~ExitElse(p) /\ ~ExitUp(p) /\ ~ExitUpLoad(p) /\ ~ExitDie(p)
      BY <3>1 DEF WaitPc, At, Load, LoadTell, LoadUp, UpLoad, ExitLookWaited, ExitTell, ExitElse,
                  ExitUp, ExitUpLoad, ExitDie
    <3>3. ~ExitRecord(p)
      BY <3>1 DEF WaitPc, ExitRecord
    <3> QED
      BY <1>2, <2>1, <2>2, <2>3, <2>4, <2>5, <2>6, <2>7, <2>8, <3>2, <3>3 DEF KernelStep
  <2> QED
    BY <2>9, <2>10 DEF Tid
<1>3. ASSUME NEW p \in Process, SystemCall(p)
      PROVE  IInv'
  <2>1. p \in Tid
    BY Tids
  <2> QED
    BY <1>3, <2>1, ExecKeeps, WaitCallKeeps, ExitKeeps DEF SystemCall
<1>4. CASE Next
  BY <1>2, <1>3, <1>4, MainWaitsKept DEF Next
<1> QED
  BY <1>1, <1>4

\* A parent that sleeps in process_wait or process_execute has not missed the
\* sema_up it sleeps for: the child has it still before it, however their
\* steps interleave, since the parent claims a child once and alone.
THEOREM WaitersAreWoken == Spec => []NoLostWakeup
<1>1. Init => MainWaits
  BY Tids DEF Init, MainWaits, WaitPc
<1>2. IInv /\ MainWaits /\ [Next]_vars => IInv' /\ MainWaits'
  BY StepKeepsIInv
<1> QED
  BY InitIInv, IInvMeans, <1>1, <1>2, PTL DEF Spec

\* The status of a child that is gone stays in its parent's child_exit_status
\* until the parent calls process_wait for it: process_exit writes it unless
\* the parent has asked, and nobody writes there for that child but the two.
THEOREM StatusIsKept == Spec => []StatusKept
<1>1. Init => MainWaits
  BY Tids DEF Init, MainWaits, WaitPc
<1>2. IInv /\ MainWaits /\ [Next]_vars => IInv' /\ MainWaits'
  BY StepKeepsIInv
<1> QED
  BY InitIInv, IInvMeans, <1>1, <1>2, PTL DEF Spec

-------------------------------------------------------------------------------
(***************************************************************************)
(* Virtual memory.                                                         *)
(***************************************************************************)

Faulting == {"alloc", "evict", "scan", "push", "fill", "grow"}

\* What holds of each process by itself.
LocalOK(r) ==
  /\ r.pc = "none" => r = Idle
  /\ r.pc \in {"push", "fill", "grow"} => r.kpage \in Frame
  /\ r.pc \notin {"push", "fill", "grow", "free"} => r.kpage = Nil
  /\ r.pc \in Faulting => /\ r.page \in Page /\ r.pagedir[r.page] = Nil
                          /\ "EVICTABLE" \notin r.flags[r.page]
  /\ r.pc = "grow" => r.page \in StackPage
  /\ r.pc = "clear" => r.unmapping # <<>>
  /\ r.call = "mmap" => r.mapid < Mappings
  /\ r.pc \in {"user", "check", "transfer"} \union Faulting =>
       \A vp \in r.buffer \ r.toCheck : r.pagedir[vp] # Nil
  /\ r.pc = "transfer" => r.toCheck = {}
  /\ \A vp \in SegmentPage : r.flags[vp] \subseteq {"EVICTABLE", "INVALID"}
  /\ \A vp \in StackPage : r.flags[vp] \subseteq {"ON_SWAP"}

\* The entry E when the processes are PS.
EntryOK(e, ps) ==
  e.used_process # Nobody =>
    /\ ps[e.used_process].pc # "none"
    /\ e.uvpage # NoPage => "EVICTABLE" \notin ps[e.used_process].flags[e.uvpage]

Scanning ==
  /\ \A p \in UserProcess : proc[p].pc = "scan" => frameTableLock = p
  /\ frameTableLock # Nobody /\ ~hist.halted => frameTable # <<>>

OneUser ==
  \A p, q \in UserProcess, x, y \in Slots :
    Held(proc[p], x) # Nil /\ Held(proc[p], x) = Held(proc[q], y) => p = q /\ x = y

PoolExact ==
  \A k \in Frame :
    k \in pool <=> \E p \in UserProcess, x \in Slots : Held(proc[p], x) = k

InTable(k) ==
  \E p \in UserProcess, x \in Slots :
    Held(proc[p], x) = k /\ (proc[p].pc # "push" \/ x # NoPage)

Entries(table, k) == { i \in DOMAIN table : table[i].kpage = k }

EntriesExact ==
  \A k \in Frame :
    Cardinality(Entries(frameTable, k)) = hist.stale[k] + (IF InTable(k) THEN 1 ELSE 0)

VMIInv ==
  /\ VMTypeOK
  /\ \A p \in UserProcess : LocalOK(proc[p])
  /\ \A i \in DOMAIN frameTable : EntryOK(frameTable[i], proc)
  /\ Scanning /\ OneUser /\ PoolExact /\ EntriesExact

-------------------------------------------------------------------------------
(***************************************************************************)
(* The bitmap of the pool.                                                 *)
(***************************************************************************)
LEMMA LeastNumber ==
  ASSUME NEW N \in SUBSET Nat, N # {}
  PROVE  \E n \in N : \A k \in N : n <= k
<1> DEFINE R == OpToRel(<, Nat)
<1>1. PICK n : n \in N
  OBVIOUS
<1>2. PICK m \in N : \A k \in N : ~(<<k, m>> \in R)
  BY <1>1, NatLessThanWellFounded, WFMin
<1>3. \A k \in N : ~(k < m)
  BY <1>2 DEF OpToRel
<1>4. \A k \in N : m <= k
  BY <1>3
<1> QED
  BY <1>4

LEMMA LeastOf ==
  ASSUME NEW N \in SUBSET Nat, N # {}
  PROVE  Min(N) \in N
BY LeastNumber DEF Min

LEMMA BitmapFinds ==
  LET k == ScanClear(pool, FrameCount, 1)
  IN  \/ k = BITMAP_ERROR
      \/ /\ k \in Frame /\ k \notin pool /\ k # BITMAP_ERROR
         /\ ScanAndSet(pool, FrameCount, 1) = pool \union {k}
<1> DEFINE groups == { i \in 0 .. FrameCount - 1 : Bits(i, 1) \intersect pool = {} }
           k == ScanClear(pool, FrameCount, 1)
<1>1. k = IF groups = {} THEN BITMAP_ERROR ELSE Min(groups)
  BY DEF ScanClear
<1>2. CASE groups = {}
  BY <1>1, <1>2
<1>3. CASE groups # {}
  <2>1. groups \in SUBSET Nat
    BY VirtualMemoryAssumption
  <2>2. k \in groups
    BY <1>1, <1>3, <2>1, LeastOf
  <2>3. k \in Nat /\ Bits(k, 1) = {k}
    BY <2>1, <2>2 DEF Bits
  <2>4. k \in Frame /\ k \notin pool
    BY <2>2, <2>3 DEF Frame
  <2> HIDE DEF k, groups
  <2>5. k # BITMAP_ERROR
    BY <2>3 DEF BITMAP_ERROR
  <2>6. ScanAndSet(pool, FrameCount, 1) = pool \union {k}
    BY <2>3, <2>5 DEF ScanAndSet, k
  <2> QED
    BY <2>4, <2>5, <2>6 DEF k
<1> QED
  BY <1>2, <1>3

-------------------------------------------------------------------------------
(***************************************************************************)
(* The frame table: entries come at the end, go one by one and change      *)
(* without losing their frame.                                             *)
(***************************************************************************)
LEMMA EntriesFinite ==
  ASSUME NEW table \in Seq(Entry), NEW k
  PROVE  /\ IsFiniteSet(Entries(table, k)) /\ Entries(table, k) \in SUBSET Nat
         /\ Cardinality(Entries(table, k)) \in Nat
<1>1. Len(table) \in Nat /\ DOMAIN table = 1 .. Len(table)
  BY LenProperties
<1>2. Entries(table, k) \in SUBSET (1 .. Len(table)) /\ IsFiniteSet(1 .. Len(table))
  BY <1>1, FS_Interval DEF Entries
<1>3. IsFiniteSet(Entries(table, k))
  BY <1>2, FS_Subset
<1> QED
  BY <1>1, <1>2, <1>3, FS_CardinalityType

LEMMA EntriesAppended ==
  ASSUME NEW table \in Seq(Entry), NEW e \in Entry, NEW k
  PROVE  /\ Append(table, e) \in Seq(Entry)
         /\ Cardinality(Entries(Append(table, e), k))
              = Cardinality(Entries(table, k)) + (IF e.kpage = k THEN 1 ELSE 0)
<1> DEFINE n == Len(table)
           new == Append(table, e)
<1>1. /\ n \in Nat /\ DOMAIN table = 1 .. n
      /\ new \in Seq(Entry) /\ Len(new) = n + 1
      /\ \A i \in 1 .. n : new[i] = table[i]
      /\ new[n + 1] = e
  BY LenProperties, AppendProperties
<1>2. DOMAIN new = 1 .. n + 1
  BY <1>1, LenProperties
<1> HIDE DEF new, n
<1>3. Entries(new, k) = Entries(table, k) \union (IF e.kpage = k THEN {n + 1} ELSE {})
  <2>1. \A i \in 1 .. n + 1 : i \in 1 .. n \/ i = n + 1
    BY <1>1
  <2>2. \A i \in 1 .. n : i \in 1 .. n + 1
    BY <1>1
  <2>3. n + 1 \in 1 .. n + 1
    BY <1>1
  <2> QED
    BY <1>1, <1>2, <2>1, <2>2, <2>3 DEF Entries
<1>4. n + 1 \notin Entries(table, k)
  BY <1>1 DEF Entries
<1>5. IsFiniteSet(Entries(table, k)) /\ Cardinality(Entries(table, k)) \in Nat
  BY EntriesFinite
<1>6. CASE e.kpage = k
  <2>1. Entries(new, k) = Entries(table, k) \union {n + 1}
    BY <1>3, <1>6
  <2>2. Cardinality(Entries(table, k) \union {n + 1}) = Cardinality(Entries(table, k)) + 1
    BY <1>4, <1>5, FS_AddElement
  <2> QED
    BY <1>1, <1>6, <2>1, <2>2 DEF new
<1>7. CASE e.kpage # k
  BY <1>1, <1>3, <1>5, <1>7 DEF new
<1> QED
  BY <1>6, <1>7

\* RemoveAt takes one entry out and keeps the others.
LEMMA RemovedAt ==
  ASSUME NEW S, NEW list \in Seq(S), NEW at \in 1 .. Len(list)
  PROVE  LET new == Seqs!RemoveAt(list, at)
         IN  /\ new \in Seq(S) /\ Len(new) = Len(list) - 1
             /\ \A i \in 1 .. Len(list) - 1 :
                  new[i] = IF i < at THEN list[i] ELSE list[i + 1]
<1> DEFINE n == Len(list)
           front == SubSeq(list, 1, at - 1)
           back == SubSeq(list, at + 1, n)
           new == Seqs!RemoveAt(list, at)
<1>1. n \in Nat /\ at \in 1 .. n /\ \A i \in 1 .. n : list[i] \in S
  BY LenProperties, ElementOfSeq
<1>2. /\ front \in Seq(S) /\ Len(front) = at - 1
      /\ \A i \in 1 .. at - 1 : front[i] = list[i]
  <2>1. \A k \in 1 .. at - 1 : k \in 1 .. n
    BY <1>1
  <2> QED
    BY <1>1, <2>1
<1>3. /\ back \in Seq(S) /\ Len(back) = n - at
      /\ \A i \in 1 .. n - at : back[i] = list[at + i]
  <2> DEFINE m == at + 1
  <2>1. m \in Int /\ n \in Int /\ \A i \in m .. n : list[i] \in S
    BY <1>1
  <2>2. /\ (IF m <= n THEN n - m + 1 ELSE 0) = n - at /\ n - m + 1 = n - at
        /\ \A i \in 1 .. n - at : m + i - 1 = at + i
    BY <1>1
  <2> HIDE DEF m, n
  <2>3. LET b == SubSeq(list, m, n)
        IN  /\ b \in Seq(S) /\ Len(b) = IF m <= n THEN n - m + 1 ELSE 0
            /\ \A i \in 1 .. n - m + 1 : b[i] = list[m + i - 1]
    BY <2>1, SubSeqProperties
  <2> QED
    BY <2>2, <2>3 DEF m
<1>4. new = front \o back
  BY DEF Seqs!RemoveAt
<1> HIDE DEF new, front, back, n
<1>5. /\ new \in Seq(S) /\ Len(new) = (at - 1) + (n - at)
      /\ \A i \in 1 .. (at - 1) + (n - at) :
           new[i] = IF i <= at - 1 THEN front[i] ELSE back[i - (at - 1)]
  <2>1. LET both == front \o back
        IN  /\ both \in Seq(S) /\ Len(both) = Len(front) + Len(back)
            /\ \A i \in 1 .. Len(front) + Len(back) :
                 both[i] = IF i <= Len(front) THEN front[i] ELSE back[i - Len(front)]
    BY <1>2, <1>3, ConcatProperties
  <2> QED
    BY <1>2, <1>3, <1>4, <2>1
<1>6. (at - 1) + (n - at) = n - 1
  BY <1>1
<1>7. ASSUME NEW i \in 1 .. n - 1
      PROVE  new[i] = IF i < at THEN list[i] ELSE list[i + 1]
  <2>1. CASE i < at
    <3>1. i <= at - 1 /\ i \in 1 .. at - 1
      BY <1>1, <2>1
    <3> QED
      BY <1>2, <1>5, <1>6, <2>1, <3>1
  <2>2. CASE ~(i < at)
    <3>1. ~(i <= at - 1) /\ i - (at - 1) \in 1 .. n - at /\ at + (i - (at - 1)) = i + 1
      BY <1>1, <2>2
    <3> QED
      BY <1>3, <1>5, <1>6, <2>2, <3>1
  <2> QED
    BY <2>1, <2>2
<1> QED
  BY <1>5, <1>6, <1>7 DEF new, n

LEMMA EntriesRemoved ==
  ASSUME NEW table \in Seq(Entry), NEW at \in 1 .. Len(table), NEW k
  PROVE  Cardinality(Entries(Seqs!RemoveAt(table, at), k))
           = Cardinality(Entries(table, k)) - (IF table[at].kpage = k THEN 1 ELSE 0)
<1> DEFINE n == Len(table)
           new == Seqs!RemoveAt(table, at)
           old == Entries(table, k) \ {at}
           to == [i \in Entries(new, k) |-> IF i < at THEN i ELSE i + 1]
<1>1. /\ n \in Nat /\ DOMAIN table = 1 .. n /\ at \in 1 .. n
      /\ new \in Seq(Entry) /\ Len(new) = n - 1
      /\ \A i \in 1 .. n - 1 : new[i] = IF i < at THEN table[i] ELSE table[i + 1]
  BY LenProperties, RemovedAt
<1>2. DOMAIN new = 1 .. n - 1
  <2>1. DOMAIN new = 1 .. Len(new)
    BY <1>1, LenProperties
  <2> QED
    BY <1>1, <2>1
<1> HIDE DEF new, n
<1>3. to \in [Entries(new, k) -> old]
  <2> SUFFICES ASSUME NEW i \in Entries(new, k)
               PROVE  (IF i < at THEN i ELSE i + 1) \in old
    OBVIOUS
  <2>1. i \in 1 .. n - 1 /\ new[i].kpage = k
    BY <1>2 DEF Entries
  <2>2. i \in 1 .. n /\ i + 1 \in 1 .. n
    BY <1>1, <2>1
  <2>3. CASE i < at
    BY <1>1, <2>1, <2>2, <2>3 DEF Entries
  <2>4. CASE ~(i < at)
    <3>1. i + 1 # at
      BY <1>1, <2>1, <2>4
    <3> QED
      BY <1>1, <2>1, <2>2, <2>4, <3>1 DEF Entries
  <2> QED
    BY <2>3, <2>4
<1>4. \A i, j \in Entries(new, k) : to[i] = to[j] => i = j
  <2>1. \A i \in Entries(new, k) : i \in 1 .. n - 1
    BY <1>2 DEF Entries
  <2> SUFFICES ASSUME NEW i \in Entries(new, k), NEW j \in Entries(new, k), to[i] = to[j]
               PROVE  i = j
    OBVIOUS
  <2>2. (IF i < at THEN i ELSE i + 1) = (IF j < at THEN j ELSE j + 1)
    OBVIOUS
  <2> HIDE DEF to
  <2> QED
    BY <1>1, <2>1, <2>2
<1>5. ASSUME NEW j \in old
      PROVE  \E i \in Entries(new, k) : to[i] = j
  <2>1. j \in 1 .. n /\ table[j].kpage = k /\ j # at
    BY <1>1 DEF Entries
  <2>2. CASE j < at
    <3>1. j \in 1 .. n - 1
      BY <1>1, <2>1, <2>2
    <3>2. j \in Entries(new, k)
      BY <1>1, <1>2, <2>1, <2>2, <3>1 DEF Entries
    <3> QED
      BY <2>2, <3>2
  <2>3. CASE ~(j < at)
    <3>1. j - 1 \in 1 .. n - 1 /\ ~(j - 1 < at) /\ j - 1 + 1 = j
      BY <1>1, <2>1, <2>3
    <3>2. j - 1 \in Entries(new, k)
      BY <1>1, <1>2, <2>1, <3>1 DEF Entries
    <3> QED
      BY <3>1, <3>2
  <2> QED
    BY <2>2, <2>3
<1>6. to \in Bijection(Entries(new, k), old)
  <2>1. to \in Injection(Entries(new, k), old)
    BY <1>3, <1>4 DEF Injection, IsInjective
  <2>2. to \in Surjection(Entries(new, k), old)
    BY <1>3, <1>5 DEF Surjection
  <2> QED
    BY <2>1, <2>2 DEF Bijection
<1>7. IsFiniteSet(Entries(table, k)) /\ IsFiniteSet(Entries(new, k))
  BY <1>1, EntriesFinite
<1>8. Cardinality(old) = Cardinality(Entries(new, k))
  <2>1. ExistsBijection(Entries(new, k), old)
    BY <1>6 DEF ExistsBijection
  <2> QED
    BY <1>7, <2>1, FS_Bijection
<1>9. Cardinality(old) = IF at \in Entries(table, k) THEN Cardinality(Entries(table, k)) - 1
                         ELSE Cardinality(Entries(table, k))
  BY <1>7, FS_RemoveElement
<1>10. at \in Entries(table, k) <=> table[at].kpage = k
  BY <1>1 DEF Entries
<1>11. Cardinality(Entries(table, k)) \in Nat
  BY EntriesFinite
<1> QED
  BY <1>8, <1>9, <1>10, <1>11 DEF new


-------------------------------------------------------------------------------
(***************************************************************************)
(* What the helpers do to the record of a process.                         *)
(***************************************************************************)
LEMMA IdleIs ==
  /\ Idle \in ProcRecord /\ Idle.pc = "none" /\ Idle.kpage = Nil /\ Idle.buffer = {}
  /\ \A vp \in Page : Idle.pagedir[vp] = Nil /\ Idle.flags[vp] = {}
  /\ LocalOK(Idle)
<1>1. 0 \in 0 .. Mappings /\ 0 \in Nat /\ <<>> \in Seq(MmapFile)
  BY VirtualMemoryAssumption
<1>2. /\ [vp \in Page |-> {}] \in [Page -> SUBSET Flag]
      /\ [vp \in Page |-> Nil] \in [Page -> Frame \union {Nil}]
  OBVIOUS
<1>3. Idle \in ProcRecord
  BY <1>1, <1>2 DEF Idle, ProcRecord
<1>4. /\ Idle.pc = "none" /\ Idle.kpage = Nil /\ Idle.buffer = {} /\ Idle.call = "none"
      /\ \A vp \in Page : Idle.pagedir[vp] = Nil /\ Idle.flags[vp] = {}
  BY DEF Idle
<1>5. LocalOK(Idle)
  BY <1>4 DEF LocalOK, Faulting, Page
<1> QED
  BY <1>3, <1>4, <1>5

LEMMA LeaveIs ==
  ASSUME NEW r \in ProcRecord
  PROVE  LET s == Leave(r)
         IN  /\ s \in ProcRecord
             /\ s.pc = "unmap" /\ s.call = "exit" /\ s.page = NoPage /\ s.kpage = Nil
             /\ s.buffer = {} /\ s.toCheck = {} /\ s.page_table = r.page_table
             /\ s.flags = r.flags /\ s.pagedir = r.pagedir
             /\ s.unmapping = r.mmap_file /\ s.mmap_file = <<>>
             /\ s.close = r.close /\ s.mapid = r.mapid /\ s.hand = r.hand
<1>1. <<>> \in Seq(MmapFile) /\ Nil \in Frame \union {Nil} /\ NoPage \in Page \union {NoPage}
  OBVIOUS
<1>2. r.mmap_file \in Seq(MmapFile)
  BY DEF ProcRecord
<1> QED
  BY <1>1, <1>2 DEF Leave, ProcRecord

LEMMA ResumeIs ==
  ASSUME NEW r \in ProcRecord
  PROVE  LET s == Resume(r)
         IN  /\ s \in ProcRecord
             /\ s.pc = (IF r.call \in {"io", "mmap"} THEN "check" ELSE "user")
             /\ s.call = (IF r.call = "load" THEN "none" ELSE r.call)
             /\ s.page = NoPage /\ s.kpage = Nil
             /\ s.buffer = r.buffer /\ s.toCheck = r.toCheck /\ s.page_table = r.page_table
             /\ s.flags = r.flags /\ s.pagedir = r.pagedir
             /\ s.unmapping = r.unmapping /\ s.mmap_file = r.mmap_file
             /\ s.close = r.close /\ s.mapid = r.mapid /\ s.hand = r.hand
BY ZenonT(60) DEF Resume, ProcRecord

LEMMA BackToUserIs ==
  ASSUME NEW r \in ProcRecord
  PROVE  LET s == BackToUser(r)
         IN  /\ s \in ProcRecord
             /\ s.pc = "user" /\ s.call = "none" /\ s.page = r.page /\ s.kpage = r.kpage
             /\ s.buffer = {} /\ s.toCheck = r.toCheck /\ s.page_table = r.page_table
             /\ s.flags = r.flags /\ s.pagedir = r.pagedir
             /\ s.unmapping = r.unmapping /\ s.mmap_file = r.mmap_file
             /\ s.close = 0 /\ s.mapid = r.mapid /\ s.hand = r.hand
<1>1. 0 \in 0 .. Mappings
  BY VirtualMemoryAssumption
<1> QED
  BY <1>1 DEF BackToUser, ProcRecord


-------------------------------------------------------------------------------
(***************************************************************************)
(* What a step of P, whose record becomes R, does to the frames.           *)
(***************************************************************************)
LEMMA NilIsNoFrame == Nil \notin Frame /\ NoPage \notin Page /\ NoPage \in Slots /\ Page \subseteq Slots
BY VirtualMemoryAssumption DEF Nil, Frame, Slots

Becomes(p, r) == r \in ProcRecord /\ proc' = [proc EXCEPT ![p] = r]

LEMMA ProcAfter ==
  ASSUME VMTypeOK, NEW p \in UserProcess, NEW r, Becomes(p, r)
  PROVE  /\ proc' \in [UserProcess -> ProcRecord]
         /\ proc[p] \in ProcRecord /\ proc'[p] = r
         /\ \A q \in UserProcess : q # p => proc'[q] = proc[q]
BY DEF VMTypeOK, Becomes

\* Nobody gets or loses a frame.
LEMMA HeldKept ==
  ASSUME VMIInv, NEW p \in UserProcess, NEW r, Becomes(p, r),
         \A x \in Slots : Held(r, x) = Held(proc[p], x)
  PROVE  /\ OneUser'
         /\ pool' = pool => PoolExact'
         /\ (r.pc = "push" <=> proc[p].pc = "push") =>
              \A k \in Frame : InTable(k)' <=> InTable(k)
<1>1. /\ proc'[p] = r
      /\ \A q \in UserProcess : q # p => proc'[q] = proc[q]
  BY ProcAfter DEF VMIInv
<1>2. \A q \in UserProcess, x \in Slots : Held(proc'[q], x) = Held(proc[q], x)
  BY <1>1
<1>3. OneUser'
  BY <1>2 DEF VMIInv, OneUser
<1>4. ASSUME pool' = pool PROVE PoolExact'
  BY <1>2, <1>4 DEF VMIInv, PoolExact
<1>5. ASSUME r.pc = "push" <=> proc[p].pc = "push", NEW k \in Frame
      PROVE  InTable(k)' <=> InTable(k)
  <2>1. \A q \in UserProcess : proc'[q].pc = "push" <=> proc[q].pc = "push"
    BY <1>1, <1>5
  <2> QED
    BY <1>2, <2>1 DEF InTable
<1> QED
  BY <1>3, <1>4, <1>5

\* P's frame at A is now its frame at B.
LEMMA HeldMoved ==
  ASSUME VMIInv, NEW p \in UserProcess, NEW r, Becomes(p, r),
         NEW a \in Slots, NEW b \in Slots, a # b,
         Held(proc[p], b) = Nil, Held(r, a) = Nil, Held(r, b) = Held(proc[p], a),
         \A x \in Slots \ {a, b} : Held(r, x) = Held(proc[p], x)
  PROVE  /\ OneUser'
         /\ pool' = pool => PoolExact'
         /\ r.pc # "push" /\ proc[p].pc # "push" =>
              \A k \in Frame : InTable(k)' <=> InTable(k)
<1>1. /\ proc'[p] = r
      /\ \A q \in UserProcess : q # p => proc'[q] = proc[q]
  BY ProcAfter DEF VMIInv
<1>2. \A q \in UserProcess, x \in Slots :
        Held(proc'[q], x) = IF q = p /\ x = a THEN Nil
                            ELSE IF q = p /\ x = b THEN Held(proc[p], a)
                            ELSE Held(proc[q], x)
  BY <1>1
<1>3. OneUser'
  BY <1>2 DEF VMIInv, OneUser
<1>4. ASSUME NEW k \in Frame
      PROVE  /\ \A q \in UserProcess, x \in Slots : Held(proc[q], x) = k =>
                   \E y \in Slots : Held(proc'[q], y) = k
             /\ \A q \in UserProcess, x \in Slots : Held(proc'[q], x) = k =>
                   \E y \in Slots : Held(proc[q], y) = k
  <2>1. k # Nil
    BY NilIsNoFrame
  <2> QED
    BY <1>2, <2>1
<1>5. ASSUME pool' = pool PROVE PoolExact'
  BY <1>4, <1>5 DEF VMIInv, PoolExact
<1>6. ASSUME r.pc # "push", proc[p].pc # "push", NEW k \in Frame
      PROVE  InTable(k)' <=> InTable(k)
  <2>1. \A q \in UserProcess : proc'[q].pc = "push" <=> proc[q].pc = "push"
    BY <1>1, <1>6
  <2>2. k # Nil
    BY NilIsNoFrame
  <2>3. InTable(k) => InTable(k)'
    <3> SUFFICES ASSUME NEW q \in UserProcess, NEW x \in Slots, Held(proc[q], x) = k,
                        proc[q].pc # "push" \/ x # NoPage
                 PROVE  InTable(k)'
      BY DEF InTable
    <3>1. CASE q = p
      BY <1>1, <1>4, <1>6, <3>1 DEF InTable
    <3>2. CASE q # p
      BY <1>1, <3>2 DEF InTable
    <3> QED
      BY <3>1, <3>2
  <2>4. InTable(k)' => InTable(k)
    <3> SUFFICES ASSUME NEW q \in UserProcess, NEW x \in Slots, Held(proc'[q], x) = k,
                        proc'[q].pc # "push" \/ x # NoPage
                 PROVE  InTable(k)
      BY DEF InTable
    <3>1. CASE q = p
      BY <1>1, <1>4, <1>6, <3>1 DEF InTable
    <3>2. CASE q # p
      BY <1>1, <3>2 DEF InTable
    <3> QED
      BY <3>1, <3>2
  <2> QED
    BY <2>3, <2>4
<1> QED
  BY <1>3, <1>5, <1>6

\* P gives the frames of the slots G back.
LEMMA HeldGone ==
  ASSUME VMIInv, NEW p \in UserProcess, NEW r, Becomes(p, r), NEW G \in SUBSET Slots,
         \A x \in Slots : Held(r, x) = IF x \in G THEN Nil ELSE Held(proc[p], x),
         proc[p].pc # "push", r.pc # "push"
  PROVE  LET gone == { Held(proc[p], x) : x \in G }
         IN  /\ OneUser'
             /\ (pool' = pool \ gone) => PoolExact'
             /\ \A k \in Frame : InTable(k)' <=> InTable(k) /\ k \notin gone
             /\ \A k \in Frame : k \in gone => InTable(k)
<1> DEFINE gone == { Held(proc[p], x) : x \in G }
<1>1. /\ proc'[p] = r
      /\ \A q \in UserProcess : q # p => proc'[q] = proc[q]
  BY ProcAfter DEF VMIInv
<1>2. \A q \in UserProcess, x \in Slots :
        Held(proc'[q], x) = IF q = p /\ x \in G THEN Nil ELSE Held(proc[q], x)
  BY <1>1
<1>3. OneUser'
  BY <1>2 DEF VMIInv, OneUser
<1>4. \A q \in UserProcess : proc'[q].pc = "push" <=> proc[q].pc = "push"
  BY <1>1
<1>5. ASSUME NEW k \in Frame, NEW q \in UserProcess, NEW x \in Slots
      PROVE  Held(proc'[q], x) = k <=> Held(proc[q], x) = k /\ k \notin gone
  <2>1. k # Nil
    BY NilIsNoFrame
  <2>2. ASSUME Held(proc[q], x) = k, k \in gone
        PROVE  q = p /\ x \in G
    <3>1. PICK y \in G : k = Held(proc[p], y)
      BY <2>2
    <3>2. q = p /\ x = y
      BY <2>1, <2>2, <3>1 DEF VMIInv, OneUser
    <3> QED
      BY <3>1, <3>2
  <2>3. ASSUME Held(proc[q], x) = k, k \notin gone
        PROVE  ~(q = p /\ x \in G)
    BY <2>3
  <2> HIDE DEF gone
  <2> QED
    BY <1>2, <2>1, <2>2, <2>3
<1>6. ASSUME NEW k \in Frame, k \in gone
      PROVE  InTable(k) /\ k \in pool
  BY <1>6 DEF InTable, VMIInv, PoolExact
<1> HIDE DEF gone
<1>7. ASSUME pool' = pool \ gone
      PROVE  PoolExact'
  BY <1>5, <1>6, <1>7 DEF VMIInv, PoolExact
<1>8. \A k \in Frame : InTable(k)' <=> InTable(k) /\ k \notin gone
  BY <1>4, <1>5 DEF InTable
<1> QED
  BY <1>3, <1>6, <1>7, <1>8 DEF gone

\* The call of P gets a frame that is free.
LEMMA HeldTaken ==
  ASSUME VMIInv, NEW p \in UserProcess, NEW r, Becomes(p, r), NEW k \in Frame, k \notin pool,
         Held(proc[p], NoPage) = Nil, Held(r, NoPage) = k,
         \A x \in Page : Held(r, x) = Held(proc[p], x),
         proc[p].pc # "push", r.pc = "push"
  PROVE  /\ OneUser'
         /\ (pool' = pool \union {k}) => PoolExact'
         /\ \A j \in Frame : InTable(j)' <=> InTable(j)
<1>1. /\ proc'[p] = r
      /\ \A q \in UserProcess : q # p => proc'[q] = proc[q]
  BY ProcAfter DEF VMIInv
<1>2. \A q \in UserProcess, x \in Slots :
        Held(proc'[q], x) = IF q = p /\ x = NoPage THEN k ELSE Held(proc[q], x)
  BY <1>1 DEF Slots
<1>3. \A q \in UserProcess, x \in Slots : Held(proc[q], x) # k
  BY DEF VMIInv, PoolExact
<1>4. k # Nil /\ NoPage \in Slots
  BY NilIsNoFrame
<1>5. OneUser'
  BY <1>2, <1>3, <1>4 DEF VMIInv, OneUser
<1>6. ASSUME pool' = pool \union {k}
      PROVE  PoolExact'
  <2>1. Held(proc'[p], NoPage) = k
    BY <1>2, <1>4
  <2>2. \A j \in Frame, q \in UserProcess, x \in Slots :
          j # k => (Held(proc'[q], x) = j <=> Held(proc[q], x) = j)
    <3> SUFFICES ASSUME NEW j \in Frame, NEW q \in UserProcess, NEW x \in Slots, j # k
                 PROVE  Held(proc'[q], x) = j <=> Held(proc[q], x) = j
      OBVIOUS
    <3>1. j # Nil
      BY NilIsNoFrame
    <3> QED
      BY <1>2, <3>1
  <2>3. \A j \in Frame : j \in pool <=> \E q \in UserProcess, x \in Slots : Held(proc[q], x) = j
    BY DEF VMIInv, PoolExact
  <2>4. \A j \in Frame : j \in pool' <=> \E q \in UserProcess, x \in Slots : Held(proc'[q], x) = j
    <3> SUFFICES ASSUME NEW j \in Frame
                 PROVE  j \in pool' <=> \E q \in UserProcess, x \in Slots : Held(proc'[q], x) = j
      OBVIOUS
    <3>1. CASE j = k
      BY <1>4, <1>6, <2>1, <3>1
    <3>2. CASE j # k
      BY <1>6, <2>2, <2>3, <3>2
    <3> QED
      BY <3>1, <3>2
  <2> QED
    BY <2>4 DEF PoolExact
<1>7. ASSUME NEW j \in Frame
      PROVE  InTable(j)' <=> InTable(j)
  <2>1. j # Nil
    BY NilIsNoFrame
  <2> QED
    BY <1>1, <1>2, <2>1 DEF InTable
<1> QED
  BY <1>5, <1>6, <1>7

-------------------------------------------------------------------------------
(***************************************************************************)
(* What a step of P does to the rest.                                      *)
(***************************************************************************)

\* Table U is table T with the pages or the processes of some entries gone.
Derived(d, e) ==
  d.used_process \in {e.used_process, Nobody} /\ d.uvpage \in {e.uvpage, NoPage}

SameFrames(t, u) ==
  /\ u \in Seq(Entry) /\ Len(u) = Len(t)
  /\ \A i \in 1 .. Len(t) : u[i].kpage = t[i].kpage /\ Derived(u[i], t[i])

\* No page becomes EVICTABLE, unless P is new.
FlagsFall(p, r) ==
  /\ r.pc # "none"
  /\ proc[p].pc # "none" =>
       \A vp \in Page : "EVICTABLE" \in r.flags[vp] => "EVICTABLE" \in proc[p].flags[vp]

LEMMA EntryKept ==
  ASSUME VMIInv, NEW p \in UserProcess, NEW r, Becomes(p, r), FlagsFall(p, r),
         NEW e \in Entry, EntryOK(e, proc), NEW d \in Entry, Derived(d, e)
  PROVE  EntryOK(d, proc')
<1>1. /\ proc'[p] = r
      /\ \A q \in UserProcess : q # p => proc'[q] = proc[q]
  BY ProcAfter DEF VMIInv
<1> SUFFICES ASSUME d.used_process # Nobody
             PROVE  /\ proc'[d.used_process].pc # "none"
                    /\ d.uvpage # NoPage =>
                         "EVICTABLE" \notin proc'[d.used_process].flags[d.uvpage]
  BY DEF EntryOK
<1> DEFINE q == d.used_process
           vp == d.uvpage
<1>2. q = e.used_process /\ q \in UserProcess /\ vp \in Page \union {NoPage}
      /\ (vp # NoPage => vp = e.uvpage)
  BY DEF Derived, Entry
<1>3. /\ proc[q].pc # "none"
      /\ vp # NoPage => "EVICTABLE" \notin proc[q].flags[vp]
  BY <1>2 DEF EntryOK
<1> HIDE DEF q, vp
<1>4. /\ proc'[q].pc # "none"
      /\ vp # NoPage => "EVICTABLE" \notin proc'[q].flags[vp]
  BY <1>1, <1>2, <1>3 DEF FlagsFall
<1> QED
  BY <1>4 DEF q, vp

LEMMA FreePageKeeps ==
  ASSUME NEW t \in Seq(Entry), NEW p, NEW vp
  PROVE  SameFrames(t, FreePage(t, p, vp))
<1> DEFINE u == FreePage(t, p, vp)
<1>1. /\ Len(t) \in Nat /\ DOMAIN t = 1 .. Len(t)
      /\ \A i \in 1 .. Len(t) : t[i] \in Entry
  BY LenProperties, ElementOfSeq
<1>2. u = [i \in 1 .. Len(t) |-> IF t[i].used_process = p /\ t[i].uvpage = vp
                                 THEN [t[i] EXCEPT !.uvpage = NoPage] ELSE t[i]]
  BY <1>1 DEF FreePage
<1> HIDE DEF u
<1>3. ASSUME NEW i \in 1 .. Len(t)
      PROVE  u[i] \in Entry /\ u[i].kpage = t[i].kpage /\ Derived(u[i], t[i])
  <2>1. t[i] \in Entry /\ (u[i] = t[i] \/ u[i] = [t[i] EXCEPT !.uvpage = NoPage])
    BY <1>1, <1>2
  <2> DEFINE e == t[i]
             d == [e EXCEPT !.uvpage = NoPage]
  <2>2. /\ d \in Entry /\ d.kpage = e.kpage /\ d.used_process = e.used_process
        /\ d.uvpage = NoPage
    BY <2>1 DEF Entry
  <2> QED
    BY <2>1, <2>2 DEF Derived
<1>4. u \in [1 .. Len(t) -> Entry]
  BY <1>2, <1>3
<1>5. u \in Seq(Entry) /\ Len(u) = Len(t)
  BY <1>1, <1>4
<1> QED
  BY <1>3, <1>5 DEF SameFrames, u

LEMMA SameFramesItself ==
  ASSUME NEW t \in Seq(Entry)
  PROVE  SameFrames(t, t)
BY DEF SameFrames, Derived

LEMMA SameFramesEntries ==
  ASSUME NEW t \in Seq(Entry), NEW u, SameFrames(t, u), NEW k
  PROVE  Entries(u, k) = Entries(t, k) /\ (u = <<>> <=> t = <<>>)
<1>1. DOMAIN t = 1 .. Len(t) /\ DOMAIN u = 1 .. Len(t) /\ Len(u) = Len(t)
  BY LenProperties DEF SameFrames
<1>2. u = <<>> <=> t = <<>>
  BY <1>1, EmptySeq DEF SameFrames
<1> QED
  BY <1>1, <1>2 DEF SameFrames, Entries

LEMMA LocalAfter ==
  ASSUME VMIInv, NEW p \in UserProcess, NEW r, Becomes(p, r), LocalOK(r)
  PROVE  \A q \in UserProcess : LocalOK(proc'[q])
<1>1. /\ proc'[p] = r
      /\ \A q \in UserProcess : q # p => proc'[q] = proc[q]
  BY ProcAfter DEF VMIInv
<1> QED
  BY <1>1 DEF VMIInv

LEMMA ScanningKept ==
  ASSUME VMIInv, NEW p \in UserProcess, NEW r, Becomes(p, r),
         r.pc = "scan" => proc[p].pc = "scan",
         frameTableLock' = frameTableLock,
         frameTableLock = Nobody \/ (frameTable' = <<>> => frameTable = <<>>),
         hist.halted => hist'.halted
  PROVE  Scanning'
<1>1. /\ proc'[p] = r
      /\ \A q \in UserProcess : q # p => proc'[q] = proc[q]
  BY ProcAfter DEF VMIInv
<1> QED
  BY <1>1 DEF VMIInv, Scanning

\* A step that leaves every entry of the frame table its frame.
LEMMA QuietStep ==
  ASSUME VMIInv, NEW p \in UserProcess, NEW r, Becomes(p, r), LocalOK(r), FlagsFall(p, r),
         r.pc = "scan" => proc[p].pc = "scan",
         pool' \subseteq Frame, SameFrames(frameTable, frameTable'),
         frameTableLock' = frameTableLock, fsLock' \in UserProcess \union {Nobody},
         hist' \in HistRecord, hist'.stale = hist.stale, hist.halted => hist'.halted,
         OneUser', PoolExact', \A k \in Frame : InTable(k)' <=> InTable(k)
  PROVE  VMIInv'
<1>1. /\ VMTypeOK /\ frameTable \in Seq(Entry) /\ frameTable' \in Seq(Entry)
      /\ DOMAIN frameTable = 1 .. Len(frameTable)
      /\ DOMAIN frameTable' = 1 .. Len(frameTable)
  BY LenProperties DEF VMIInv, VMTypeOK, SameFrames
<1>2. VMTypeOK'
  BY <1>1, ProcAfter DEF VMTypeOK
<1>3. ASSUME NEW i \in DOMAIN frameTable'
      PROVE  EntryOK(frameTable'[i], proc')
  <2>1. /\ frameTable[i] \in Entry /\ frameTable'[i] \in Entry
        /\ Derived(frameTable'[i], frameTable[i]) /\ EntryOK(frameTable[i], proc)
    BY <1>1, <1>3, ElementOfSeq DEF SameFrames, VMIInv
  <2> QED
    BY <2>1, EntryKept
<1>4. Scanning'
  BY <1>1, ScanningKept, SameFramesEntries
<1>5. EntriesExact'
  BY <1>1, SameFramesEntries DEF VMIInv, EntriesExact
<1> QED
  BY <1>2, <1>3, <1>4, <1>5, LocalAfter DEF VMIInv

LEMMA StateOf ==
  ASSUME VMIInv, NEW p \in UserProcess
  PROVE  /\ proc \in [UserProcess -> ProcRecord] /\ proc[p] \in ProcRecord /\ LocalOK(proc[p])
         /\ pool \in SUBSET Frame /\ frameTable \in Seq(Entry)
         /\ frameTableLock \in UserProcess \union {Nobody}
         /\ fsLock \in UserProcess \union {Nobody} /\ p \in UserProcess \union {Nobody}
         /\ Nobody \in UserProcess \union {Nobody}
         /\ hist \in HistRecord
BY DEF VMIInv, VMTypeOK

\* A step that leaves every frame with its user.
LEMMA LocalStep ==
  ASSUME VMIInv, NEW p \in UserProcess, NEW r, Becomes(p, r), LocalOK(r), FlagsFall(p, r),
         r.pc = "scan" => proc[p].pc = "scan", r.pc = "push" <=> proc[p].pc = "push",
         UNCHANGED pool, SameFrames(frameTable, frameTable'), UNCHANGED frameTableLock,
         fsLock' \in UserProcess \union {Nobody},
         hist' \in HistRecord, hist'.stale = hist.stale, hist.halted => hist'.halted,
         \A x \in Slots : Held(r, x) = Held(proc[p], x)
  PROVE  VMIInv'
<1>1. pool' \subseteq Frame
  BY StateOf
<1>2. OneUser' /\ PoolExact' /\ \A k \in Frame : InTable(k)' <=> InTable(k)
  BY HeldKept
<1> QED
  BY <1>1, <1>2, QuietStep

LEMMA SameTable == VMIInv /\ UNCHANGED frameTable => SameFrames(frameTable, frameTable')
BY SameFramesItself DEF VMIInv, VMTypeOK

LEMMA SameHist ==
  ASSUME VMIInv, UNCHANGED hist
  PROVE  hist' \in HistRecord /\ hist'.stale = hist.stale /\ (hist.halted => hist'.halted)
BY DEF VMIInv, VMTypeOK

-------------------------------------------------------------------------------
(***************************************************************************)
(* The actions.                                                            *)
(***************************************************************************)
LEMMA SegmentIsSeq == Seqs!SetToSeq({ [page |-> vp, id |-> 0] : vp \in SegmentPage }) \in Seq(MmapFile)
<1> DEFINE S == { [page |-> vp, id |-> 0] : vp \in SegmentPage }
           file == [vp \in SegmentPage |-> [page |-> vp, id |-> 0]]
<1>1. IsFiniteSet(SegmentPage)
  BY VirtualMemoryAssumption, FS_Subset DEF Page
<1>2. file \in Surjection(SegmentPage, S)
  BY DEF Surjection
<1>3. IsFiniteSet(S)
  BY <1>1, <1>2, FS_Surjection
<1>4. S \subseteq MmapFile
  BY VirtualMemoryAssumption DEF MmapFile, Page
<1> HIDE DEF S
<1>5. Cardinality(S) \in Nat /\ ExistsBijection(1 .. Cardinality(S), S)
  BY <1>3, FS_CardinalityType
<1>6. \E g \in [1 .. Cardinality(S) -> S] : Seqs!IsInjective(g)
  BY <1>5 DEF ExistsBijection, Bijection, Injection, Surjection, IsInjective, Seqs!IsInjective
<1>7. Seqs!SetToSeq(S) \in [1 .. Cardinality(S) -> S]
  <2>1. Seqs!Cardinality(S) = Cardinality(S)
    BY DEF Seqs!Cardinality, Cardinality
  <2> QED
    BY <1>6, <2>1 DEF Seqs!SetToSeq
<1>8. Seqs!SetToSeq(S) \in Seq(MmapFile)
  BY <1>4, <1>5, <1>7
<1> QED
  BY <1>8 DEF S

LEMMA LoadPagesKeeps == VMIInv /\ (\E p \in UserProcess : LoadPages(p)) => VMIInv'
<1> SUFFICES ASSUME VMIInv, NEW p \in UserProcess, LoadPages(p) PROVE VMIInv'
  OBVIOUS
<1> DEFINE files == Seqs!SetToSeq({ [page |-> vp, id |-> 0] : vp \in SegmentPage })
           fl == [vp \in Page |-> IF vp \in SegmentPage THEN {"EVICTABLE", "INVALID"} ELSE {}]
           r == [proc[p] EXCEPT !.pc = "alloc", !.call = "load", !.page = Top,
                   !.page_table = SegmentPage, !.flags = fl, !.mmap_file = files]
<1>1. /\ proc[p].pc = "none" /\ proc' = [proc EXCEPT ![p] = r] /\ fsLock' = p
      /\ hist.loads < Loads /\ hist' = [hist EXCEPT !.loads = @ + 1]
      /\ UNCHANGED <<pool, frameTable, frameTableLock>>
  BY DEF LoadPages, PcIs
<1>2. /\ proc[p] \in ProcRecord /\ proc[p] = Idle
      /\ fsLock' \in UserProcess \union {Nobody} /\ hist \in HistRecord
  BY <1>1, StateOf DEF LocalOK
<1>3. files \in Seq(MmapFile) /\ fl \in [Page -> SUBSET Flag] /\ Top \in Page
      /\ SegmentPage \in SUBSET Page
  BY SegmentIsSeq, VirtualMemoryAssumption DEF Flag, Page
<1> HIDE DEF files
<1>4. hist' \in HistRecord /\ hist'.stale = hist.stale /\ hist'.halted = hist.halted
  <2>1. hist.loads + 1 \in 0 .. Loads
    BY <1>1, <1>2, VirtualMemoryAssumption DEF HistRecord
  <2> QED
    BY <1>1, <1>2, <2>1 DEF HistRecord
<1>5. /\ r \in ProcRecord /\ r.pc = "alloc" /\ r.call = "load" /\ r.page = Top /\ r.flags = fl
      /\ r.kpage = Nil /\ r.buffer = {} /\ r.pagedir = proc[p].pagedir
      /\ \A vp \in Page : r.pagedir[vp] = Nil
  <2>1. proc[p].kpage = Nil /\ proc[p].buffer = {} /\ \A vp \in Page : proc[p].pagedir[vp] = Nil
    BY <1>2 DEF Idle
  <2> QED
    BY <1>2, <1>3, <2>1, ZenonT(60) DEF ProcRecord
<1> HIDE DEF r
<1>6. LocalOK(r)
  <2>1. Top \in StackPage /\ SegmentPage \intersect StackPage = {} /\ Page = SegmentPage \union StackPage
    BY VirtualMemoryAssumption DEF Page
  <2> QED
    BY <1>3, <1>5, <2>1 DEF LocalOK, Faulting
<1>7. Becomes(p, r) /\ FlagsFall(p, r)
  BY <1>1, <1>5 DEF Becomes, FlagsFall
<1>8. \A x \in Slots : Held(r, x) = Held(proc[p], x)
  <2>1. proc[p].pc = "none" /\ proc[p].kpage = Nil
    BY <1>2 DEF Idle
  <2> QED
    BY <1>5, <2>1 DEF Held
<1> QED
  BY <1>1, <1>2, <1>4, <1>5, <1>6, <1>7, <1>8, LocalStep, SameTable

\* A fault that can be dealt with, in user mode or in check_valid_ptr.
LEMMA FaultKeeps ==
  ASSUME VMIInv, NEW p \in UserProcess, NEW vp \in Page, proc[p].pc \in {"user", "check"},
         ~Present(p, vp), Fault(p, vp), UNCHANGED <<pool, frameTable, frameTableLock, fsLock, hist>>
  PROVE  VMIInv'
<1> DEFINE r == [proc[p] EXCEPT !.pc = "alloc", !.page = vp, !.flags[vp] = @ \ {"EVICTABLE"}]
<1>1. proc' = [proc EXCEPT ![p] = r]
  BY DEF Fault
<1>2. proc[p] \in ProcRecord /\ LocalOK(proc[p]) /\ proc[p].pagedir[vp] = Nil
      /\ fsLock' \in UserProcess \union {Nobody}
  BY StateOf DEF Present
<1>3. /\ r \in ProcRecord /\ r.pc = "alloc" /\ r.page = vp /\ r.kpage = proc[p].kpage
      /\ r.call = proc[p].call /\ r.mapid = proc[p].mapid
      /\ r.buffer = proc[p].buffer /\ r.toCheck = proc[p].toCheck /\ r.pagedir = proc[p].pagedir
      /\ \A x \in Page : r.flags[x] = IF x = vp THEN proc[p].flags[x] \ {"EVICTABLE"}
                                      ELSE proc[p].flags[x]
  BY <1>2, ZenonT(60) DEF ProcRecord
<1> HIDE DEF r
<1>4. LocalOK(r)
  <2>1. /\ \A x \in SegmentPage : r.flags[x] \subseteq {"EVICTABLE", "INVALID"}
        /\ \A x \in StackPage : r.flags[x] \subseteq {"ON_SWAP"}
    <3> DEFINE g == proc[p].flags
    <3>1. /\ \A x \in SegmentPage : g[x] \subseteq {"EVICTABLE", "INVALID"}
          /\ \A x \in StackPage : g[x] \subseteq {"ON_SWAP"}
      BY <1>2 DEF LocalOK
    <3>2. \A x \in Page : r.flags[x] \subseteq g[x]
      BY <1>3
    <3> HIDE DEF g
    <3> QED
      BY <3>1, <3>2 DEF Page
  <2>2. r.kpage = Nil /\ r.pagedir[r.page] = Nil /\ "EVICTABLE" \notin r.flags[r.page]
    BY <1>2, <1>3 DEF LocalOK
  <2>3. /\ \A x \in r.buffer \ r.toCheck : r.pagedir[x] # Nil
        /\ r.call = "mmap" => r.mapid < Mappings
    BY <1>2, <1>3 DEF LocalOK
  <2> QED
    BY <1>3, <2>1, <2>2, <2>3 DEF LocalOK, Faulting
<1>5. Becomes(p, r) /\ FlagsFall(p, r)
  BY <1>1, <1>3 DEF Becomes, FlagsFall
<1>6. \A x \in Slots : Held(r, x) = Held(proc[p], x)
  BY <1>3 DEF Held
<1> QED
  BY <1>2, <1>3, <1>4, <1>5, <1>6, LocalStep, SameTable, SameHist

LEMMA AccessKeeps == VMIInv /\ (\E p \in UserProcess, vp \in Page : Access(p, vp)) => VMIInv'
BY FaultKeeps DEF Access, PcIs

\* A process leaves user mode, or check_valid_ptr, for process_exit.
LEMMA LeavingKeeps ==
  ASSUME VMIInv, NEW p \in UserProcess, proc[p].pc \in {"user", "check"},
         proc' = [proc EXCEPT ![p] = Leave(proc[p])],
         UNCHANGED <<pool, frameTable, frameTableLock, fsLock, hist>>
  PROVE  VMIInv'
<1> DEFINE r == Leave(proc[p])
<1>1. proc[p] \in ProcRecord /\ LocalOK(proc[p]) /\ fsLock' \in UserProcess \union {Nobody}
  BY StateOf
<1>2. /\ r \in ProcRecord /\ r.pc = "unmap" /\ r.call = "exit" /\ r.kpage = Nil
      /\ r.flags = proc[p].flags /\ r.pagedir = proc[p].pagedir
  BY <1>1, LeaveIs
<1>3. Becomes(p, r)
  BY <1>2 DEF Becomes
<1> HIDE DEF r
<1>4. LocalOK(r) /\ FlagsFall(p, r)
  BY <1>1, <1>2 DEF LocalOK, FlagsFall, Faulting
<1>5. \A x \in Slots : Held(r, x) = Held(proc[p], x)
  BY <1>1, <1>2 DEF Held, LocalOK
<1> QED
  BY <1>1, <1>2, <1>3, <1>4, <1>5, LocalStep, SameTable, SameHist

LEMMA ExitUserKeeps == VMIInv /\ (\E p \in UserProcess : ExitUser(p)) => VMIInv'
BY LeavingKeeps DEF ExitUser, PcIs

LEMMA CheckKeeps == VMIInv /\ (\E p \in UserProcess : Check(p)) => VMIInv'
<1> SUFFICES ASSUME VMIInv, NEW p \in UserProcess, Check(p) PROVE VMIInv'
  OBVIOUS
<1>1. proc[p].pc = "check" /\ UNCHANGED <<pool, frameTable, frameTableLock, fsLock, hist>>
  BY DEF Check, PcIs
<1>2. /\ proc[p] \in ProcRecord /\ LocalOK(proc[p]) /\ proc[p].toCheck \subseteq Page
      /\ fsLock' \in UserProcess \union {Nobody}
  BY <1>1, StateOf DEF ProcRecord
<1>3. PICK vp \in proc[p].toCheck :
        \/ Present(p, vp) /\ proc' = [proc EXCEPT ![p] = [proc[p] EXCEPT !.toCheck = @ \ {vp}]]
        \/ ~Present(p, vp) /\ Fault(p, vp)
        \/ proc' = [proc EXCEPT ![p] = Leave(proc[p])]
  BY DEF Check
<1>4. CASE Present(p, vp) /\ proc' = [proc EXCEPT ![p] = [proc[p] EXCEPT !.toCheck = @ \ {vp}]]
  <2> DEFINE r == [proc[p] EXCEPT !.toCheck = @ \ {vp}]
  <2>1. /\ r \in ProcRecord /\ r.pc = "check" /\ r.call = proc[p].call /\ r.mapid = proc[p].mapid
        /\ r.kpage = proc[p].kpage /\ r.buffer = proc[p].buffer
        /\ r.toCheck = proc[p].toCheck \ {vp}
        /\ r.flags = proc[p].flags /\ r.pagedir = proc[p].pagedir
    BY <1>1, <1>2 DEF ProcRecord
  <2>2. Becomes(p, r)
    BY <1>4, <2>1 DEF Becomes
  <2> HIDE DEF r
  <2>3. \A x \in r.buffer \ r.toCheck : r.pagedir[x] # Nil
    BY <1>1, <1>2, <1>4, <2>1 DEF LocalOK, Present
  <2>4. LocalOK(r) /\ FlagsFall(p, r)
    BY <1>1, <1>2, <2>1, <2>3 DEF LocalOK, FlagsFall, Faulting
  <2>5. \A x \in Slots : Held(r, x) = Held(proc[p], x)
    BY <1>1, <2>1 DEF Held
  <2> QED
    BY <1>1, <1>2, <2>1, <2>2, <2>4, <2>5, LocalStep, SameTable, SameHist
<1>5. CASE ~Present(p, vp) /\ Fault(p, vp)
  BY <1>1, <1>2, <1>5, FaultKeeps
<1>6. CASE proc' = [proc EXCEPT ![p] = Leave(proc[p])]
  BY <1>1, <1>6, LeavingKeeps
<1> QED
  BY <1>3, <1>4, <1>5, <1>6

LEMMA CallKeeps ==
  VMIInv /\ (\E p \in UserProcess, call \in {"io", "mmap"}, buffer \in Buffers :
               Call(p, call, buffer)) => VMIInv'
<1> SUFFICES ASSUME VMIInv, NEW p \in UserProcess, NEW call \in {"io", "mmap"},
                    NEW buffer \in Buffers, Call(p, call, buffer)
             PROVE  VMIInv'
  OBVIOUS
<1> DEFINE r == [proc[p] EXCEPT !.pc = "check", !.call = call, !.buffer = buffer,
                                !.toCheck = buffer]
<1>1. /\ proc[p].pc = "user" /\ proc' = [proc EXCEPT ![p] = r]
      /\ call = "mmap" => proc[p].mapid < Mappings
      /\ UNCHANGED <<pool, frameTable, frameTableLock, fsLock, hist>>
  BY DEF Call, PcIs
<1>2. /\ proc[p] \in ProcRecord /\ LocalOK(proc[p]) /\ fsLock' \in UserProcess \union {Nobody}
      /\ buffer \in SUBSET Page
  BY <1>1, StateOf, VirtualMemoryAssumption
<1>3. /\ r \in ProcRecord /\ r.pc = "check" /\ r.call = call /\ r.mapid = proc[p].mapid
      /\ r.kpage = proc[p].kpage /\ r.buffer = buffer /\ r.toCheck = buffer
      /\ r.flags = proc[p].flags /\ r.pagedir = proc[p].pagedir
  BY <1>2 DEF ProcRecord
<1>4. Becomes(p, r)
  BY <1>1, <1>3 DEF Becomes
<1> HIDE DEF r
<1>5. LocalOK(r) /\ FlagsFall(p, r)
  BY <1>1, <1>2, <1>3 DEF LocalOK, FlagsFall, Faulting
<1>6. \A x \in Slots : Held(r, x) = Held(proc[p], x)
  BY <1>1, <1>3 DEF Held
<1> QED
  BY <1>1, <1>2, <1>3, <1>4, <1>5, <1>6, LocalStep, SameTable, SameHist

LEMMA TransferKeeps == VMIInv /\ (\E p \in UserProcess : Transfer(p)) => VMIInv'
<1> SUFFICES ASSUME VMIInv, NEW p \in UserProcess, Transfer(p) PROVE VMIInv'
  OBVIOUS
<1> DEFINE r == [proc[p] EXCEPT !.pc = "transfer"]
<1>1. /\ proc[p].pc = "check" /\ proc' = [proc EXCEPT ![p] = r] /\ proc[p].toCheck = {}
      /\ fsLock' = p /\ UNCHANGED <<pool, frameTable, frameTableLock, hist>>
  BY DEF Transfer, Checked, PcIs, SetPc
<1>2. /\ proc[p] \in ProcRecord /\ LocalOK(proc[p]) /\ fsLock' \in UserProcess \union {Nobody}
  BY <1>1, StateOf
<1>3. /\ r \in ProcRecord /\ r.pc = "transfer" /\ r.call = proc[p].call
      /\ r.mapid = proc[p].mapid /\ r.kpage = proc[p].kpage
      /\ r.buffer = proc[p].buffer /\ r.toCheck = {}
      /\ r.flags = proc[p].flags /\ r.pagedir = proc[p].pagedir
  BY <1>1, <1>2 DEF ProcRecord
<1>4. Becomes(p, r)
  BY <1>1, <1>3 DEF Becomes
<1> HIDE DEF r
<1>5. LocalOK(r) /\ FlagsFall(p, r)
  BY <1>1, <1>2, <1>3 DEF LocalOK, FlagsFall, Faulting
<1>6. \A x \in Slots : Held(r, x) = Held(proc[p], x)
  BY <1>1, <1>3 DEF Held
<1> QED
  BY <1>1, <1>2, <1>3, <1>4, <1>5, <1>6, LocalStep, SameTable, SameHist

\* A call, or an unmapping, ends.
LEMMA BackKeeps ==
  ASSUME VMIInv, NEW p \in UserProcess, proc[p].pc \in {"check", "transfer", "unmap"},
         NEW s \in ProcRecord, s.kpage = proc[p].kpage, s.flags = proc[p].flags,
         s.pagedir = proc[p].pagedir, proc' = [proc EXCEPT ![p] = BackToUser(s)],
         fsLock' \in UserProcess \union {Nobody},
         UNCHANGED <<pool, frameTable, frameTableLock, hist>>
  PROVE  VMIInv'
<1> DEFINE r == BackToUser(s)
<1>1. proc[p] \in ProcRecord /\ LocalOK(proc[p])
  BY StateOf
<1>2. /\ r \in ProcRecord /\ r.pc = "user" /\ r.call = "none" /\ r.kpage = proc[p].kpage
      /\ r.buffer = {} /\ r.flags = proc[p].flags /\ r.pagedir = proc[p].pagedir
  BY BackToUserIs
<1>3. Becomes(p, r)
  BY <1>2 DEF Becomes
<1> HIDE DEF r
<1>4. LocalOK(r) /\ FlagsFall(p, r)
  BY <1>1, <1>2 DEF LocalOK, FlagsFall, Faulting
<1>5. \A x \in Slots : Held(r, x) = Held(proc[p], x)
  BY <1>2 DEF Held
<1> QED
  BY <1>2, <1>3, <1>4, <1>5, LocalStep, SameTable, SameHist

LEMMA TransferDoneKeeps == VMIInv /\ (\E p \in UserProcess : TransferDone(p)) => VMIInv'
<1> SUFFICES ASSUME VMIInv, NEW p \in UserProcess, TransferDone(p) PROVE VMIInv'
  OBVIOUS
<1>1. proc[p] \in ProcRecord
  BY StateOf
<1> QED
  BY <1>1, BackKeeps DEF TransferDone, PcIs

LEMMA MmapKeeps == VMIInv /\ (\E p \in UserProcess : Mmap(p)) => VMIInv'
<1> SUFFICES ASSUME VMIInv, NEW p \in UserProcess, Mmap(p) PROVE VMIInv'
  OBVIOUS
<1> DEFINE mid == proc[p].mapid + 1
<1>1. /\ proc[p].pc = "check" /\ proc[p].call = "mmap"
      /\ UNCHANGED <<pool, frameTable, frameTableLock, fsLock>>
  BY DEF Mmap, Checked, PcIs
<1>2. /\ proc[p] \in ProcRecord /\ LocalOK(proc[p]) /\ fsLock' \in UserProcess \union {Nobody}
      /\ hist \in HistRecord
  BY <1>1, StateOf
<1>3. mid \in 0 .. Mappings
  BY <1>1, <1>2, VirtualMemoryAssumption DEF LocalOK, ProcRecord
<1>4. CASE proc[p].buffer \subseteq proc[p].page_table
  <2>1. UNCHANGED hist /\ \E vp \in proc[p].buffer :
          proc' = [proc EXCEPT ![p] = BackToUser([proc[p] EXCEPT
            !.mapid = mid, !.mmap_file = Append(@, [page |-> vp, id |-> mid])])]
    BY <1>4 DEF Mmap
  <2>2. PICK vp \in proc[p].buffer :
          proc' = [proc EXCEPT ![p] = BackToUser([proc[p] EXCEPT
            !.mapid = mid, !.mmap_file = Append(@, [page |-> vp, id |-> mid])])]
    BY <2>1
  <2> DEFINE s == [proc[p] EXCEPT !.mapid = mid,
                                  !.mmap_file = Append(@, [page |-> vp, id |-> mid])]
  <2>3. [page |-> vp, id |-> mid] \in MmapFile /\ proc[p].mmap_file \in Seq(MmapFile)
    BY <1>2, <1>3 DEF MmapFile, ProcRecord
  <2>4. Append(proc[p].mmap_file, [page |-> vp, id |-> mid]) \in Seq(MmapFile)
    BY <2>3, AppendProperties
  <2> HIDE DEF mid
  <2>5. /\ s \in ProcRecord /\ s.kpage = proc[p].kpage /\ s.flags = proc[p].flags
        /\ s.pagedir = proc[p].pagedir
    BY <1>2, <1>3, <2>4 DEF ProcRecord
  <2> HIDE DEF s
  <2> QED
    BY <1>1, <1>2, <2>1, <2>2, <2>5, BackKeeps DEF s
<1>5. CASE ~(proc[p].buffer \subseteq proc[p].page_table)
  <2>1. hist' = [hist EXCEPT !.halted = TRUE] /\ UNCHANGED proc
    BY <1>5 DEF Mmap
  <2>2. hist' \in HistRecord /\ hist'.stale = hist.stale /\ hist'.halted
    BY <1>2, <2>1 DEF HistRecord
  <2>3. Becomes(p, proc[p]) /\ FlagsFall(p, proc[p])
    BY <1>1, <1>2, <2>1, StateOf DEF Becomes, FlagsFall
  <2> QED
    BY <1>1, <1>2, <2>2, <2>3, LocalStep, SameTable
<1> QED
  BY <1>4, <1>5

LEMMA AllocKeeps == VMIInv /\ (\E p \in UserProcess : Alloc(p)) => VMIInv'
<1> SUFFICES ASSUME VMIInv, NEW p \in UserProcess, Alloc(p) PROVE VMIInv'
  OBVIOUS
<1> DEFINE k == ScanClear(pool, FrameCount, 1)
<1>1. proc[p].pc = "alloc" /\ UNCHANGED <<frameTable, frameTableLock, fsLock, hist>>
  BY DEF Alloc, PcIs
<1>2. /\ proc[p] \in ProcRecord /\ LocalOK(proc[p]) /\ fsLock' \in UserProcess \union {Nobody}
      /\ pool \subseteq Frame
  BY <1>1, StateOf
<1>3. CASE k = BITMAP_ERROR
  <2> DEFINE r == [proc[p] EXCEPT !.pc = "evict"]
  <2>1. proc' = [proc EXCEPT ![p] = r] /\ UNCHANGED pool
    BY <1>3 DEF Alloc, SetPc
  <2>2. /\ r \in ProcRecord /\ r.pc = "evict" /\ r.call = proc[p].call /\ r.page = proc[p].page
        /\ r.mapid = proc[p].mapid /\ r.kpage = proc[p].kpage
        /\ r.buffer = proc[p].buffer /\ r.toCheck = proc[p].toCheck
        /\ r.flags = proc[p].flags /\ r.pagedir = proc[p].pagedir
    BY <1>2 DEF ProcRecord
  <2>3. Becomes(p, r)
    BY <2>1, <2>2 DEF Becomes
  <2> HIDE DEF r
  <2>4. LocalOK(r) /\ FlagsFall(p, r)
    BY <1>1, <1>2, <2>2 DEF LocalOK, FlagsFall, Faulting
  <2>5. \A x \in Slots : Held(r, x) = Held(proc[p], x)
    BY <1>1, <2>2 DEF Held
  <2> QED
    BY <1>1, <1>2, <2>1, <2>2, <2>3, <2>4, <2>5, LocalStep, SameTable, SameHist
<1>4. CASE k # BITMAP_ERROR
  <2> DEFINE r == [proc[p] EXCEPT !.pc = "push", !.kpage = k]
  <2>1. proc' = [proc EXCEPT ![p] = r] /\ pool' = ScanAndSet(pool, FrameCount, 1)
    BY <1>4 DEF Alloc
  <2>2. k \in Frame /\ k \notin pool /\ pool' = pool \union {k}
    BY <1>4, <2>1, BitmapFinds
  <2> HIDE DEF k
  <2>3. /\ r \in ProcRecord /\ r.pc = "push" /\ r.call = proc[p].call /\ r.page = proc[p].page
        /\ r.mapid = proc[p].mapid /\ r.kpage = k
        /\ r.buffer = proc[p].buffer /\ r.toCheck = proc[p].toCheck
        /\ r.flags = proc[p].flags /\ r.pagedir = proc[p].pagedir
    BY <1>2, <2>2 DEF ProcRecord
  <2>4. Becomes(p, r)
    BY <2>1, <2>3 DEF Becomes
  <2> HIDE DEF r
  <2>5. LocalOK(r) /\ FlagsFall(p, r)
    BY <1>1, <1>2, <2>2, <2>3 DEF LocalOK, FlagsFall, Faulting
  <2>6. Held(proc[p], NoPage) = Nil /\ Held(r, NoPage) = k
    BY <1>1, <1>2, <2>3 DEF Held, LocalOK
  <2>7. \A x \in Page : Held(r, x) = Held(proc[p], x)
    BY <1>1, <2>3, NilIsNoFrame DEF Held
  <2>8. OneUser' /\ PoolExact' /\ \A j \in Frame : InTable(j)' <=> InTable(j)
    BY <1>1, <2>2, <2>3, <2>4, <2>6, <2>7, HeldTaken
  <2>9. pool' \subseteq Frame
    BY <1>2, <2>2
  <2> QED
    BY <1>1, <1>2, <2>3, <2>4, <2>5, <2>8, <2>9, QuietStep, SameTable, SameHist
<1> QED
  BY <1>3, <1>4

LEMMA ScanKeeps == VMIInv /\ (\E p \in UserProcess : Scan(p)) => VMIInv'
<1> SUFFICES ASSUME VMIInv, NEW p \in UserProcess, Scan(p) PROVE VMIInv'
  OBVIOUS
<1> DEFINE n == Len(frameTable)
           next == (proc[p].hand % n) + 1
           r == [proc[p] EXCEPT !.hand = next]
           e == frameTable[proc[p].hand]
<1>1. /\ proc[p].pc = "scan" /\ ~hist.halted /\ proc' = [proc EXCEPT ![p] = r]
      /\ hist' = [hist EXCEPT !.halted = e.uvpage = NoPage]
      /\ UNCHANGED <<pool, frameTable, frameTableLock, fsLock>>
  BY DEF Scan, PcIs
<1>2. /\ proc[p] \in ProcRecord /\ LocalOK(proc[p]) /\ fsLock' \in UserProcess \union {Nobody}
      /\ hist \in HistRecord /\ frameTable \in Seq(Entry)
  BY <1>1, StateOf
<1>3. next \in Nat
  <2>1. frameTable # <<>>
    BY <1>1, VirtualMemoryAssumption DEF VMIInv, Scanning
  <2>2. n \in Nat /\ n # 0
    BY <1>2, <2>1, LenProperties, EmptySeq
  <2>3. proc[p].hand \in Nat
    BY <1>2 DEF ProcRecord
  <2> HIDE DEF n
  <2> QED
    BY <2>2, <2>3
<1> HIDE DEF next
<1>4. hist' \in HistRecord /\ hist'.stale = hist.stale /\ (hist.halted => hist'.halted)
  <2>1. (e.uvpage = NoPage) \in BOOLEAN
    OBVIOUS
  <2> HIDE DEF e
  <2> QED
    BY <1>1, <1>2, <2>1 DEF HistRecord
<1>5. /\ r \in ProcRecord /\ r.pc = "scan" /\ r.call = proc[p].call /\ r.page = proc[p].page
      /\ r.mapid = proc[p].mapid /\ r.kpage = proc[p].kpage
      /\ r.buffer = proc[p].buffer /\ r.toCheck = proc[p].toCheck
      /\ r.flags = proc[p].flags /\ r.pagedir = proc[p].pagedir
  BY <1>1, <1>2, <1>3 DEF ProcRecord
<1>6. Becomes(p, r)
  BY <1>1, <1>5 DEF Becomes
<1> HIDE DEF r
<1>7. LocalOK(r) /\ FlagsFall(p, r)
  BY <1>1, <1>2, <1>5 DEF LocalOK, FlagsFall, Faulting
<1>8. \A x \in Slots : Held(r, x) = Held(proc[p], x)
  BY <1>1, <1>5 DEF Held
<1> QED
  BY <1>1, <1>2, <1>4, <1>5, <1>6, <1>7, <1>8, LocalStep, SameTable

\* No frame changes hands and the frame table does not change; P takes its lock.
LEMMA EvictKeeps == VMIInv /\ (\E p \in UserProcess : Evict(p)) => VMIInv'
<1> SUFFICES ASSUME VMIInv, NEW p \in UserProcess, Evict(p) PROVE VMIInv'
  OBVIOUS
<1> DEFINE r == [proc[p] EXCEPT !.pc = "scan", !.hand = 1]
<1>1. /\ proc[p].pc = "evict" /\ ~hist.halted /\ proc' = [proc EXCEPT ![p] = r]
      /\ frameTableLock = Nobody /\ frameTableLock' = p
      /\ hist' = [hist EXCEPT !.halted = frameTable = <<>>]
      /\ UNCHANGED <<pool, frameTable, fsLock>>
  BY DEF Evict, PcIs
<1>2. /\ proc[p] \in ProcRecord /\ LocalOK(proc[p]) /\ hist \in HistRecord
      /\ p # Nobody /\ frameTable \in Seq(Entry)
  BY StateOf, VirtualMemoryAssumption
<1>3. /\ r \in ProcRecord /\ r.pc = "scan" /\ r.call = proc[p].call /\ r.page = proc[p].page
      /\ r.mapid = proc[p].mapid /\ r.kpage = proc[p].kpage
      /\ r.buffer = proc[p].buffer /\ r.toCheck = proc[p].toCheck
      /\ r.flags = proc[p].flags /\ r.pagedir = proc[p].pagedir
  BY <1>1, <1>2 DEF ProcRecord
<1>4. Becomes(p, r)
  BY <1>1, <1>3 DEF Becomes
<1> HIDE DEF r
<1>5. /\ proc' \in [UserProcess -> ProcRecord] /\ proc'[p] = r
      /\ \A q \in UserProcess : q # p => proc'[q] = proc[q]
  BY <1>4, ProcAfter DEF VMIInv
<1>6. LocalOK(r) /\ FlagsFall(p, r)
  BY <1>1, <1>2, <1>3 DEF LocalOK, FlagsFall, Faulting
<1>7. \A x \in Slots : Held(r, x) = Held(proc[p], x)
  BY <1>1, <1>3 DEF Held
<1>8. OneUser' /\ PoolExact' /\ \A k \in Frame : InTable(k)' <=> InTable(k)
  BY <1>1, <1>3, <1>4, <1>7, HeldKept
<1>9. hist' \in HistRecord /\ hist'.stale = hist.stale /\ hist'.halted = (frameTable = <<>>)
  BY <1>1, <1>2 DEF HistRecord
<1>10. VMTypeOK'
  BY <1>1, <1>5, <1>9 DEF VMIInv, VMTypeOK
<1>11. \A i \in DOMAIN frameTable : EntryOK(frameTable[i], proc')
  <2> SUFFICES ASSUME NEW i \in DOMAIN frameTable
               PROVE  EntryOK(frameTable[i], proc')
    OBVIOUS
  <2>1. frameTable[i] \in Entry /\ EntryOK(frameTable[i], proc)
    BY <1>2, ElementOfSeq, LenProperties DEF VMIInv
  <2> QED
    BY <1>4, <1>6, <2>1, EntryKept DEF Derived
<1>12. Scanning'
  <2>1. \A q \in UserProcess : proc[q].pc # "scan"
    BY <1>1, VirtualMemoryAssumption DEF VMIInv, Scanning
  <2> QED
    BY <1>1, <1>5, <1>9, <2>1 DEF Scanning
<1>13. EntriesExact'
  BY <1>1, <1>8, <1>9 DEF VMIInv, EntriesExact
<1> QED
  BY <1>1, <1>4, <1>6, <1>8, <1>10, <1>11, <1>12, <1>13, LocalAfter DEF VMIInv

\* The frame of the call, which was taken from the pool, now is in the table.
LEMMA PushKeeps == VMIInv /\ (\E p \in UserProcess : Push(p)) => VMIInv'
<1> SUFFICES ASSUME VMIInv, NEW p \in UserProcess, Push(p) PROVE VMIInv'
  OBVIOUS
<1> DEFINE to == IF proc[p].page \in StackPage THEN "grow" ELSE "fill"
           r == [proc[p] EXCEPT !.pc = to]
           j == proc[p].kpage
           e == [kpage |-> j, used_process |-> p, uvpage |-> proc[p].page]
<1>1. /\ proc[p].pc = "push" /\ proc' = [proc EXCEPT ![p] = r]
      /\ frameTable' = Append(frameTable, e)
      /\ UNCHANGED <<pool, frameTableLock, fsLock, hist>>
  BY DEF Push, PcIs, SetPc
<1>2. /\ proc[p] \in ProcRecord /\ LocalOK(proc[p]) /\ hist \in HistRecord
      /\ frameTable \in Seq(Entry) /\ j \in Frame /\ proc[p].page \in Page
      /\ "EVICTABLE" \notin proc[p].flags[proc[p].page]
  BY <1>1, StateOf DEF LocalOK, Faulting
<1>3. e \in Entry /\ e.kpage = j /\ e.used_process = p /\ e.uvpage = proc[p].page
  BY <1>2 DEF Entry
<1>4. /\ r \in ProcRecord /\ r.pc \in {"grow", "fill"} /\ r.call = proc[p].call
      /\ r.page = proc[p].page /\ r.mapid = proc[p].mapid /\ r.kpage = j
      /\ r.buffer = proc[p].buffer /\ r.toCheck = proc[p].toCheck
      /\ r.flags = proc[p].flags /\ r.pagedir = proc[p].pagedir
      /\ r.pc = "grow" => r.page \in StackPage
  BY <1>2, ZenonT(60) DEF ProcRecord
<1>5. Becomes(p, r)
  BY <1>1, <1>4 DEF Becomes
<1> HIDE DEF r, e
<1>6. /\ proc' \in [UserProcess -> ProcRecord] /\ proc'[p] = r
      /\ \A q \in UserProcess : q # p => proc'[q] = proc[q]
  BY <1>5, ProcAfter DEF VMIInv
<1>7. LocalOK(r) /\ FlagsFall(p, r)
  BY <1>1, <1>2, <1>4 DEF LocalOK, FlagsFall, Faulting
<1>8. \A x \in Slots : Held(r, x) = Held(proc[p], x)
  BY <1>1, <1>4 DEF Held
<1>9. OneUser' /\ PoolExact'
  BY <1>1, <1>5, <1>8, HeldKept
<1>10. \A q \in UserProcess, x \in Slots : Held(proc'[q], x) = Held(proc[q], x)
  BY <1>6, <1>8
<1>11. Held(proc[p], NoPage) = j /\ NoPage \in Slots /\ j # Nil
  BY <1>2, NilIsNoFrame DEF Held
<1>12. \A k \in Frame : InTable(k)' <=> InTable(k) \/ k = j
  <2> SUFFICES ASSUME NEW k \in Frame
               PROVE  InTable(k)' <=> InTable(k) \/ k = j
    OBVIOUS
  <2>1. \A q \in UserProcess, x \in Slots :
          Held(proc[q], x) = k => (q = p /\ x = NoPage <=> k = j)
    BY <1>11 DEF VMIInv, OneUser
  <2> QED
    BY <1>1, <1>4, <1>6, <1>10, <1>11, <2>1 DEF InTable
<1>13. ~InTable(j)
  <2>1. \A q \in UserProcess, x \in Slots : Held(proc[q], x) = j => q = p /\ x = NoPage
    BY <1>11 DEF VMIInv, OneUser
  <2> QED
    BY <1>1, <2>1 DEF InTable
<1>14. frameTable' \in Seq(Entry)
  BY <1>1, <1>2, <1>3, EntriesAppended
<1>15. VMTypeOK'
  BY <1>1, <1>6, <1>14 DEF VMIInv, VMTypeOK
<1>16. \A i \in DOMAIN frameTable' : EntryOK(frameTable'[i], proc')
  <2> SUFFICES ASSUME NEW i \in DOMAIN frameTable'
               PROVE  EntryOK(frameTable'[i], proc')
    OBVIOUS
  <2>1. /\ Len(frameTable) \in Nat /\ DOMAIN frameTable = 1 .. Len(frameTable)
        /\ Len(frameTable') = Len(frameTable) + 1
        /\ DOMAIN frameTable' = 1 .. Len(frameTable')
        /\ frameTable'[Len(frameTable) + 1] = e
        /\ \A k \in 1 .. Len(frameTable) : frameTable'[k] = frameTable[k]
    BY <1>1, <1>2, <1>3, <1>14, LenProperties, AppendProperties
  <2>2. EntryOK(e, proc')
    BY <1>2, <1>3, <1>4, <1>6 DEF EntryOK
  <2>3. CASE i \in 1 .. Len(frameTable)
    <3>1. frameTable[i] \in Entry /\ EntryOK(frameTable[i], proc)
      BY <1>2, <2>1, <2>3, ElementOfSeq DEF VMIInv
    <3> QED
      BY <1>5, <1>7, <2>1, <2>3, <3>1, EntryKept DEF Derived
  <2>4. CASE i \notin 1 .. Len(frameTable)
    <3>1. i = Len(frameTable) + 1
      BY <2>1, <2>4
    <3> QED
      BY <2>1, <2>2, <3>1
  <2> QED
    BY <2>3, <2>4
<1>17. Scanning'
  <2>1. frameTable' # <<>>
    <3>1. Len(frameTable) \in Nat /\ Len(frameTable') = Len(frameTable) + 1
      BY <1>1, <1>2, <1>3, LenProperties, AppendProperties
    <3> QED
      BY <3>1
  <2> QED
    BY <1>1, <1>4, <1>6, <2>1 DEF VMIInv, Scanning
<1>18. EntriesExact'
  <2> SUFFICES ASSUME NEW k \in Frame
               PROVE  Cardinality(Entries(frameTable', k))
                        = hist.stale[k] + (IF InTable(k)' THEN 1 ELSE 0)
    BY <1>1 DEF EntriesExact
  <2>1. Cardinality(Entries(frameTable', k))
          = Cardinality(Entries(frameTable, k)) + (IF k = j THEN 1 ELSE 0)
    BY <1>1, <1>2, <1>3, EntriesAppended
  <2>2. Cardinality(Entries(frameTable, k)) = hist.stale[k] + (IF InTable(k) THEN 1 ELSE 0)
    BY DEF VMIInv, EntriesExact
  <2>3. hist.stale[k] \in Nat
    BY <1>2 DEF HistRecord
  <2> QED
    BY <1>12, <1>13, <2>1, <2>2, <2>3
<1> QED
  BY <1>5, <1>7, <1>9, <1>15, <1>16, <1>17, <1>18, LocalAfter DEF VMIInv

\* The frame of the call is now that of its page.
LEMMA InstallKeeps ==
  ASSUME VMIInv, NEW p \in UserProcess, proc[p].pc \in {"fill", "grow"},
         NEW u \in ProcRecord,
         u.buffer = proc[p].buffer, u.toCheck = proc[p].toCheck,
         u.mapid = proc[p].mapid, u.call = proc[p].call,
         \A x \in Page : u.pagedir[x] = IF x = proc[p].page THEN proc[p].kpage
                                        ELSE proc[p].pagedir[x],
         \A x \in SegmentPage : u.flags[x] \subseteq {"EVICTABLE", "INVALID"},
         \A x \in StackPage : u.flags[x] \subseteq {"ON_SWAP"},
         \A x \in Page : "EVICTABLE" \in u.flags[x] => "EVICTABLE" \in proc[p].flags[x],
         proc' = [proc EXCEPT ![p] = Resume(u)],
         fsLock' \in UserProcess \union {Nobody},
         UNCHANGED <<pool, frameTable, frameTableLock, hist>>
  PROVE  VMIInv'
<1> DEFINE r == Resume(u)
           vp == proc[p].page
<1>1. /\ proc[p] \in ProcRecord /\ LocalOK(proc[p]) /\ proc[p].kpage \in Frame
      /\ vp \in Page /\ proc[p].pagedir[vp] = Nil /\ pool \subseteq Frame
  BY StateOf DEF LocalOK, Faulting
<1>2. /\ r \in ProcRecord /\ r.pc \in {"check", "user"}
      /\ r.call = (IF u.call = "load" THEN "none" ELSE u.call)
      /\ r.kpage = Nil /\ r.buffer = u.buffer /\ r.toCheck = u.toCheck
      /\ r.flags = u.flags /\ r.pagedir = u.pagedir /\ r.mapid = u.mapid
  BY ResumeIs
<1>3. Becomes(p, r)
  BY <1>2 DEF Becomes
<1> HIDE DEF r
<1>4. \A x \in r.buffer \ r.toCheck : r.pagedir[x] # Nil
  <2>1. \A x \in proc[p].buffer \ proc[p].toCheck : x \in Page /\ proc[p].pagedir[x] # Nil
    BY <1>1 DEF LocalOK, Faulting, ProcRecord
  <2>2. proc[p].kpage # Nil
    BY <1>1, NilIsNoFrame
  <2> QED
    BY <1>2, <2>1, <2>2
<1>5. LocalOK(r) /\ FlagsFall(p, r)
  BY <1>1, <1>2, <1>4 DEF LocalOK, FlagsFall, Faulting
<1>6. /\ NoPage \in Slots /\ vp \in Slots /\ NoPage # vp
      /\ Held(proc[p], vp) = Nil /\ Held(r, NoPage) = Nil
      /\ Held(r, vp) = Held(proc[p], NoPage)
      /\ \A x \in Slots \ {NoPage, vp} : Held(r, x) = Held(proc[p], x)
  BY <1>1, <1>2, NilIsNoFrame DEF Held, Slots
<1>7. OneUser' /\ PoolExact' /\ \A k \in Frame : InTable(k)' <=> InTable(k)
  BY <1>2, <1>3, <1>6, HeldMoved
<1> QED
  BY <1>1, <1>2, <1>3, <1>5, <1>7, QuietStep, SameTable, SameHist

LEMMA FillKeeps == VMIInv /\ (\E p \in UserProcess : Fill(p)) => VMIInv'
<1> SUFFICES ASSUME VMIInv, NEW p \in UserProcess, Fill(p) PROVE VMIInv'
  OBVIOUS
<1> DEFINE vp == proc[p].page
           s == [proc[p] EXCEPT !.flags[vp] = {}]
<1>1. /\ proc[p].pc = "fill"
      /\ UNCHANGED <<pool, frameTable, frameTableLock, fsLock, hist>>
      /\ \/ proc' = [proc EXCEPT ![p] = Resume([s EXCEPT !.pagedir[vp] = s.kpage])]
         \/ proc' = [proc EXCEPT ![p] = [s EXCEPT !.pc = "free"]]
  BY DEF Fill, PcIs
<1>2. /\ proc[p] \in ProcRecord /\ LocalOK(proc[p]) /\ fsLock' \in UserProcess \union {Nobody}
      /\ vp \in Page /\ proc[p].kpage \in Frame /\ proc[p].pagedir[vp] = Nil
  BY <1>1, StateOf DEF LocalOK, Faulting
<1>3. /\ s \in ProcRecord /\ s.pc = "fill" /\ s.kpage = proc[p].kpage /\ s.page = vp
      /\ s.buffer = proc[p].buffer /\ s.toCheck = proc[p].toCheck /\ s.call = proc[p].call
      /\ s.mapid = proc[p].mapid /\ s.pagedir = proc[p].pagedir
      /\ \A x \in Page : s.flags[x] = IF x = vp THEN {} ELSE proc[p].flags[x]
  BY <1>1, <1>2, ZenonT(60) DEF ProcRecord
<1> HIDE DEF s
<1>4. /\ \A x \in SegmentPage : s.flags[x] \subseteq {"EVICTABLE", "INVALID"}
      /\ \A x \in StackPage : s.flags[x] \subseteq {"ON_SWAP"}
      /\ \A x \in Page : "EVICTABLE" \in s.flags[x] => "EVICTABLE" \in proc[p].flags[x]
  BY <1>2, <1>3 DEF LocalOK, Page
<1>5. CASE proc' = [proc EXCEPT ![p] = Resume([s EXCEPT !.pagedir[vp] = s.kpage])]
  <2> DEFINE u == [s EXCEPT !.pagedir[vp] = s.kpage]
  <2>1. /\ u \in ProcRecord /\ u.flags = s.flags /\ u.buffer = s.buffer /\ u.toCheck = s.toCheck
        /\ u.mapid = s.mapid /\ u.call = s.call
        /\ \A x \in Page : u.pagedir[x] = IF x = vp THEN proc[p].kpage ELSE proc[p].pagedir[x]
    BY <1>2, <1>3, ZenonT(60) DEF ProcRecord
  <2>2. proc' = [proc EXCEPT ![p] = Resume(u)]
    BY <1>5
  <2> HIDE DEF u
  <2>3. /\ u.buffer = proc[p].buffer /\ u.toCheck = proc[p].toCheck
        /\ u.mapid = proc[p].mapid /\ u.call = proc[p].call
        /\ \A x \in SegmentPage : u.flags[x] \subseteq {"EVICTABLE", "INVALID"}
        /\ \A x \in StackPage : u.flags[x] \subseteq {"ON_SWAP"}
        /\ \A x \in Page : "EVICTABLE" \in u.flags[x] => "EVICTABLE" \in proc[p].flags[x]
    BY <1>3, <1>4, <2>1
  <2>4. /\ proc[p].pc \in {"fill", "grow"} /\ fsLock' \in UserProcess \union {Nobody}
        /\ UNCHANGED <<pool, frameTable, frameTableLock, hist>>
    BY <1>1, <1>2
  <2>5. /\ u \in ProcRecord
        /\ \A x \in Page : u.pagedir[x] = IF x = proc[p].page THEN proc[p].kpage
                                           ELSE proc[p].pagedir[x]
    BY <2>1
  <2> QED
    BY <2>2, <2>3, <2>4, <2>5, InstallKeeps, ZenonT(60)
<1>6. CASE proc' = [proc EXCEPT ![p] = [s EXCEPT !.pc = "free"]]
  <2> DEFINE r == [s EXCEPT !.pc = "free"]
  <2>1. /\ r \in ProcRecord /\ r.pc = "free" /\ r.kpage = proc[p].kpage /\ r.page = vp
        /\ r.buffer = s.buffer /\ r.toCheck = s.toCheck /\ r.call = s.call
        /\ r.mapid = s.mapid /\ r.pagedir = s.pagedir /\ r.flags = s.flags
    BY <1>3 DEF ProcRecord
  <2>2. Becomes(p, r)
    BY <1>6, <2>1 DEF Becomes
  <2> HIDE DEF r
  <2>3. LocalOK(r) /\ FlagsFall(p, r)
    BY <1>1, <1>2, <1>3, <1>4, <2>1 DEF LocalOK, FlagsFall, Faulting
  <2>4. \A x \in Slots : Held(r, x) = Held(proc[p], x)
    BY <1>1, <1>3, <2>1 DEF Held
  <2> QED
    BY <1>1, <1>2, <2>1, <2>2, <2>3, <2>4, LocalStep, SameTable, SameHist
<1> QED
  BY <1>1, <1>5, <1>6

LEMMA GrowKeeps == VMIInv /\ (\E p \in UserProcess : Grow(p)) => VMIInv'
<1> SUFFICES ASSUME VMIInv, NEW p \in UserProcess, Grow(p) PROVE VMIInv'
  OBVIOUS
<1> DEFINE vp == proc[p].page
           u == [proc[p] EXCEPT !.pagedir[vp] = proc[p].kpage, !.flags[vp] = {"ON_SWAP"},
                                !.page_table = @ \union {vp}]
<1>1. /\ proc[p].pc = "grow"
      /\ UNCHANGED <<pool, frameTable, frameTableLock, hist>>
      /\ \/ proc' = [proc EXCEPT ![p] = Resume(u)] /\ fsLock' = Unlock(fsLock, p)
         \/ proc' = [proc EXCEPT ![p] = [proc[p] EXCEPT !.pc = "free"]] /\ UNCHANGED fsLock
  BY DEF Grow, PcIs, SetPc
<1>2. /\ proc[p] \in ProcRecord /\ LocalOK(proc[p]) /\ fsLock' \in UserProcess \union {Nobody}
      /\ vp \in Page /\ proc[p].kpage \in Frame /\ proc[p].pagedir[vp] = Nil
      /\ vp \in StackPage
  BY <1>1, StateOf DEF LocalOK, Faulting, Unlock
<1> HIDE DEF u
<1>3. CASE proc' = [proc EXCEPT ![p] = Resume(u)]
  <2>1. /\ u \in ProcRecord /\ u.buffer = proc[p].buffer /\ u.toCheck = proc[p].toCheck
        /\ u.mapid = proc[p].mapid /\ u.call = proc[p].call
        /\ \A x \in Page : u.pagedir[x] = IF x = vp THEN proc[p].kpage ELSE proc[p].pagedir[x]
        /\ \A x \in Page : u.flags[x] = IF x = vp THEN {"ON_SWAP"} ELSE proc[p].flags[x]
    <3>1. {"ON_SWAP"} \in SUBSET Flag
      BY DEF Flag
    <3> QED
      BY <1>2, <3>1, ZenonT(60) DEF ProcRecord, u
  <2>2. /\ \A x \in SegmentPage : u.flags[x] \subseteq {"EVICTABLE", "INVALID"}
        /\ \A x \in StackPage : u.flags[x] \subseteq {"ON_SWAP"}
        /\ \A x \in Page : "EVICTABLE" \in u.flags[x] => "EVICTABLE" \in proc[p].flags[x]
    BY <1>2, <2>1, VirtualMemoryAssumption DEF LocalOK, Page
  <2>3. /\ proc[p].pc \in {"fill", "grow"} /\ fsLock' \in UserProcess \union {Nobody}
        /\ UNCHANGED <<pool, frameTable, frameTableLock, hist>>
    BY <1>1, <1>2
  <2>4. /\ u \in ProcRecord /\ u.buffer = proc[p].buffer /\ u.toCheck = proc[p].toCheck
        /\ u.mapid = proc[p].mapid /\ u.call = proc[p].call
        /\ \A x \in Page : u.pagedir[x] = IF x = proc[p].page THEN proc[p].kpage
                                           ELSE proc[p].pagedir[x]
    BY <2>1
  <2> QED
    BY <1>3, <2>2, <2>3, <2>4, InstallKeeps, ZenonT(60)
<1>4. CASE proc' = [proc EXCEPT ![p] = [proc[p] EXCEPT !.pc = "free"]]
  <2> DEFINE r == [proc[p] EXCEPT !.pc = "free"]
  <2>1. /\ r \in ProcRecord /\ r.pc = "free" /\ r.kpage = proc[p].kpage /\ r.page = vp
        /\ r.buffer = proc[p].buffer /\ r.toCheck = proc[p].toCheck /\ r.call = proc[p].call
        /\ r.mapid = proc[p].mapid /\ r.pagedir = proc[p].pagedir /\ r.flags = proc[p].flags
    BY <1>2, ZenonT(60) DEF ProcRecord
  <2>2. Becomes(p, r)
    BY <1>4, <2>1 DEF Becomes
  <2> HIDE DEF r
  <2>3. LocalOK(r) /\ FlagsFall(p, r)
    BY <1>1, <1>2, <2>1 DEF LocalOK, FlagsFall, Faulting
  <2>4. \A x \in Slots : Held(r, x) = Held(proc[p], x)
    BY <1>1, <2>1 DEF Held
  <2> QED
    BY <1>1, <1>2, <2>1, <2>2, <2>3, <2>4, LocalStep, SameTable, SameHist
<1> QED
  BY <1>1, <1>3, <1>4

\* What Selected chooses is a list of files of the list it chooses from.
IsSelection(G, files, ids, N) ==
  G = [n \in 0 .. N |-> IF n = 0 THEN <<>>
                        ELSE IF files[n].id \in ids THEN Append(G[n - 1], files[n]) ELSE G[n - 1]]

LEMMA SelectionExists ==
  ASSUME NEW files, NEW ids, NEW N \in Nat
  PROVE  \E G : IsSelection(G, files, ids, N)
<1> DEFINE Bad == { n \in Nat : ~\E G : IsSelection(G, files, ids, n) }
<1> SUFFICES ASSUME N \in Bad
             PROVE  FALSE
  OBVIOUS
<1>1. PICK m \in Bad : \A k \in Bad : m <= k
  <2> HIDE DEF Bad
  <2>1. Bad \in SUBSET Nat
    BY DEF Bad
  <2> QED
    BY <2>1, LeastNumber
<1>2. CASE m = 0
  <2>1. IsSelection([n \in 0 .. 0 |-> <<>>], files, ids, 0)
    BY DEF IsSelection
  <2> QED
    BY <1>1, <1>2, <2>1
<1>3. CASE m # 0
  <2>1. m - 1 \in Nat /\ m - 1 \notin Bad
    BY <1>1, <1>3
  <2>2. PICK F : IsSelection(F, files, ids, m - 1)
    BY <2>1
  <2> DEFINE After(H, n) == IF files[n].id \in ids THEN Append(H[n - 1], files[n]) ELSE H[n - 1]
             G == [n \in 0 .. m |-> IF n = 0 THEN <<>> ELSE After(F, n)]
  <2>3. \A n \in 0 .. m - 1 : F[n] = IF n = 0 THEN <<>> ELSE After(F, n)
    BY <2>2 DEF IsSelection
  <2>4. \A n \in 0 .. m - 1 : G[n] = F[n]
    BY <2>3, <1>1
  <2>5. \A n \in 0 .. m : G[n] = IF n = 0 THEN <<>> ELSE After(F, n)
    OBVIOUS
  <2>6. G = [n \in 0 .. m |-> G[n]]
    OBVIOUS
  <2> HIDE DEF G
  <2>7. \A n \in 0 .. m : G[n] = IF n = 0 THEN <<>> ELSE After(G, n)
    <3>1. \A n \in 0 .. m : n # 0 => n - 1 \in 0 .. m - 1
      BY <1>1
    <3> QED
      BY <2>4, <2>5, <3>1
  <2>8. IsSelection(G, files, ids, m)
    BY <2>6, <2>7, Zenon DEF IsSelection
  <2> QED
    BY <1>1, <2>8
<1> QED
  BY <1>2, <1>3

LEMMA SelectedIsSeq ==
  ASSUME NEW files \in Seq(MmapFile), NEW ids
  PROVE  Selected(files, ids) \in Seq(MmapFile)
<1> DEFINE D == Len(files)
           A == CHOOSE G : IsSelection(G, files, ids, D)
<1>1. D \in Nat /\ \A n \in 1 .. D : files[n] \in MmapFile
  BY LenProperties, ElementOfSeq
<1>2. \E G : IsSelection(G, files, ids, D)
  BY <1>1, SelectionExists
<1>3. IsSelection(A, files, ids, D)
  BY <1>2
<1>4. Selected(files, ids) = A[D]
  BY Zenon DEF Selected, IsSelection
<1> HIDE DEF A, D
<1>5. \A n \in 0 .. D :
        A[n] = IF n = 0 THEN <<>>
               ELSE IF files[n].id \in ids THEN Append(A[n - 1], files[n]) ELSE A[n - 1]
  BY <1>3 DEF IsSelection
<1> DEFINE Bad == { n \in 0 .. D : A[n] \notin Seq(MmapFile) }
<1>6. Bad = {}
  <2> SUFFICES ASSUME NEW b \in Bad
               PROVE  FALSE
    OBVIOUS
  <2>1. Bad \in SUBSET Nat
    BY <1>1
  <2>2. PICK m \in Bad : \A k \in Bad : m <= k
    <3> HIDE DEF Bad
    <3> QED
      BY <2>1, LeastNumber
  <2>3. m # 0
    <3>1. 0 \in 0 .. D /\ <<>> \in Seq(MmapFile)
      BY <1>1
    <3> QED
      BY <1>5, <2>2, <3>1
  <2>4. m \in 1 .. D /\ m - 1 \in 0 .. D /\ m - 1 \notin Bad
    BY <1>1, <2>1, <2>2, <2>3
  <2>5. A[m - 1] \in Seq(MmapFile) /\ files[m] \in MmapFile
    BY <1>1, <2>4
  <2>6. Append(A[m - 1], files[m]) \in Seq(MmapFile)
    BY <2>5, AppendProperties
  <2>7. A[m] \in Seq(MmapFile)
    BY <1>1, <1>5, <2>3, <2>4, <2>5, <2>6
  <2> QED
    BY <2>2, <2>7
<1> QED
  BY <1>1, <1>4, <1>6 DEF D

LEMMA MunmapKeeps ==
  VMIInv /\ (\E p \in UserProcess, id \in ALL .. Mappings : Munmap(p, id)) => VMIInv'
<1> SUFFICES ASSUME VMIInv, NEW p \in UserProcess, NEW id \in ALL .. Mappings, Munmap(p, id)
             PROVE  VMIInv'
  OBVIOUS
<1> DEFINE ids == IF id = ALL THEN 0 .. Mappings ELSE {id}
           un == Selected(proc[p].mmap_file, ids)
           mf == Selected(proc[p].mmap_file, (0 .. Mappings) \ ids)
           r == [proc[p] EXCEPT !.pc = "unmap", !.unmapping = un, !.mmap_file = mf]
<1>1. /\ proc[p].pc = "user" /\ proc' = [proc EXCEPT ![p] = r]
      /\ UNCHANGED <<pool, frameTable, frameTableLock, fsLock, hist>>
  BY DEF Munmap, PcIs
<1>2. /\ proc[p] \in ProcRecord /\ LocalOK(proc[p]) /\ fsLock' \in UserProcess \union {Nobody}
  BY <1>1, StateOf
<1>3. un \in Seq(MmapFile) /\ mf \in Seq(MmapFile)
  BY <1>2, SelectedIsSeq DEF ProcRecord
<1> HIDE DEF un, mf
<1>4. /\ r \in ProcRecord /\ r.pc = "unmap" /\ r.call = proc[p].call
      /\ r.mapid = proc[p].mapid /\ r.kpage = proc[p].kpage
      /\ r.flags = proc[p].flags /\ r.pagedir = proc[p].pagedir
  BY <1>2, <1>3 DEF ProcRecord
<1>5. Becomes(p, r)
  BY <1>1, <1>4 DEF Becomes
<1> HIDE DEF r
<1>6. LocalOK(r) /\ FlagsFall(p, r)
  BY <1>1, <1>2, <1>4 DEF LocalOK, FlagsFall, Faulting
<1>7. \A x \in Slots : Held(r, x) = Held(proc[p], x)
  BY <1>1, <1>4 DEF Held
<1> QED
  BY <1>1, <1>2, <1>4, <1>5, <1>6, <1>7, LocalStep, SameTable, SameHist

LEMMA UnmapDoneKeeps == VMIInv /\ (\E p \in UserProcess : UnmapDone(p)) => VMIInv'
<1> SUFFICES ASSUME VMIInv, NEW p \in UserProcess, UnmapDone(p) PROVE VMIInv'
  OBVIOUS
<1> DEFINE r == [proc[p] EXCEPT !.pc = "destroy", !.close = 0]
<1>1. /\ proc[p].pc = "unmap"
      /\ UNCHANGED <<pool, frameTable, frameTableLock, fsLock, hist>>
      /\ proc' = [proc EXCEPT ![p] = IF proc[p].call = "exit" THEN r ELSE BackToUser(proc[p])]
  BY DEF UnmapDone, PcIs
<1>2. /\ proc[p] \in ProcRecord /\ LocalOK(proc[p]) /\ fsLock' \in UserProcess \union {Nobody}
  BY <1>1, StateOf
<1>3. CASE proc[p].call = "exit"
  <2>1. /\ r \in ProcRecord /\ r.pc = "destroy" /\ r.call = "exit"
        /\ r.kpage = proc[p].kpage /\ r.flags = proc[p].flags /\ r.pagedir = proc[p].pagedir
    <3>1. 0 \in 0 .. Mappings
      BY VirtualMemoryAssumption
    <3> QED
      BY <1>2, <1>3, <3>1 DEF ProcRecord
  <2>2. Becomes(p, r)
    BY <1>1, <1>3, <2>1 DEF Becomes
  <2> HIDE DEF r
  <2>3. LocalOK(r) /\ FlagsFall(p, r)
    BY <1>1, <1>2, <2>1 DEF LocalOK, FlagsFall, Faulting
  <2>4. \A x \in Slots : Held(r, x) = Held(proc[p], x)
    BY <1>1, <2>1 DEF Held
  <2> QED
    BY <1>1, <1>2, <2>1, <2>2, <2>3, <2>4, LocalStep, SameTable, SameHist
<1>4. CASE proc[p].call # "exit"
  BY <1>1, <1>2, <1>4, BackKeeps
<1> QED
  BY <1>3, <1>4

\* A page that gave its frame back, or that had none, leaves page_table.
LEMMA UnmapClearKeeps == VMIInv /\ (\E p \in UserProcess : UnmapClear(p)) => VMIInv'
<1> SUFFICES ASSUME VMIInv, NEW p \in UserProcess, UnmapClear(p) PROVE VMIInv'
  OBVIOUS
<1> DEFINE m == Head(proc[p].unmapping)
           vp == m.page
           frame == IF proc[p].pc = "clear" THEN Nil ELSE proc[p].pagedir[vp]
           left == IF m.id = 0 THEN {} ELSE proc[p].flags[vp]
           r == [proc[p] EXCEPT !.pc = "unmap", !.unmapping = Tail(@), !.close = m.id,
                   !.page_table = @ \ {vp}, !.pagedir[vp] = frame, !.flags[vp] = left]
<1>1. /\ \/ proc[p].pc = "clear"
         \/ proc[p].pc = "unmap" /\ proc[p].unmapping # <<>>
      /\ frameTable' = IF m.id = 0 THEN FreePage(frameTable, p, vp) ELSE frameTable
      /\ UNCHANGED <<pool, frameTableLock, fsLock, hist>>
  BY DEF UnmapClear, PcIs
<1>2. proc' = [proc EXCEPT ![p] = r]
  BY DEF UnmapClear
<1>3. /\ proc[p] \in ProcRecord /\ LocalOK(proc[p]) /\ fsLock' \in UserProcess \union {Nobody}
      /\ frameTable \in Seq(Entry) /\ proc[p].unmapping # <<>>
  BY <1>1, StateOf DEF LocalOK
<1>4. /\ proc[p].unmapping \in Seq(MmapFile) /\ Tail(proc[p].unmapping) \in Seq(MmapFile)
      /\ m \in MmapFile
  BY <1>3, HeadTailProperties DEF ProcRecord
<1>5. vp \in Page /\ m.id \in 0 .. Mappings /\ frame \in Frame \union {Nil} /\ left \in SUBSET Flag
      /\ left \subseteq proc[p].flags[vp]
  BY <1>3, <1>4 DEF MmapFile, ProcRecord
<1> DEFINE cid == m.id
<1>6. r = [proc[p] EXCEPT !.pc = "unmap", !.unmapping = Tail(@), !.close = cid,
             !.page_table = @ \ {vp}, !.pagedir[vp] = frame, !.flags[vp] = left]
  OBVIOUS
<1> HIDE DEF vp, frame, left, cid
<1>7. /\ r \in ProcRecord /\ r.pc = "unmap" /\ r.kpage = proc[p].kpage
      /\ r.call = proc[p].call /\ r.mapid = proc[p].mapid
      /\ \A x \in Page : r.pagedir[x] = IF x = vp THEN frame ELSE proc[p].pagedir[x]
      /\ \A x \in Page : r.flags[x] = IF x = vp THEN left ELSE proc[p].flags[x]
  BY <1>3, <1>4, <1>5, <1>6, ZenonT(60) DEF ProcRecord, cid
<1>8. Becomes(p, r)
  BY <1>2, <1>7 DEF Becomes
<1> HIDE DEF r
<1>9. \A x \in Page : r.flags[x] \subseteq proc[p].flags[x]
  BY <1>5, <1>7
<1>10. LocalOK(r) /\ FlagsFall(p, r)
  <2>1. /\ \A x \in SegmentPage : r.flags[x] \subseteq {"EVICTABLE", "INVALID"}
        /\ \A x \in StackPage : r.flags[x] \subseteq {"ON_SWAP"}
    <3> DEFINE g == proc[p].flags
    <3>1. /\ \A x \in SegmentPage : g[x] \subseteq {"EVICTABLE", "INVALID"}
          /\ \A x \in StackPage : g[x] \subseteq {"ON_SWAP"}
      BY <1>3 DEF LocalOK
    <3> HIDE DEF g
    <3>2. \A x \in Page : r.flags[x] \subseteq g[x]
      BY <1>9 DEF g
    <3> QED
      BY <3>1, <3>2 DEF Page
  <2> QED
    BY <1>1, <1>3, <1>7, <1>9, <2>1 DEF LocalOK, FlagsFall, Faulting
<1>11. \A x \in Slots : Held(r, x) = Held(proc[p], x)
  BY <1>1, <1>7 DEF Held, Slots, vp, frame
<1>12. SameFrames(frameTable, frameTable')
  BY <1>1, <1>3, FreePageKeeps, SameFramesItself
<1> QED
  BY <1>1, <1>3, <1>7, <1>8, <1>10, <1>11, <1>12, LocalStep, SameHist

\* The frame of a page becomes that of page_free; the page may not have one.
LEMMA PageFreeKeeps == VMIInv /\ (\E p \in UserProcess : PageFree(p)) => VMIInv'
<1> SUFFICES ASSUME VMIInv, NEW p \in UserProcess, PageFree(p) PROVE VMIInv'
  OBVIOUS
<1>1. /\ proc[p].pc = "destroy"
      /\ UNCHANGED <<pool, frameTable, frameTableLock, fsLock, hist>>
  BY DEF PageFree, PcIs
<1>2. /\ proc[p] \in ProcRecord /\ LocalOK(proc[p]) /\ fsLock' \in UserProcess \union {Nobody}
      /\ pool \subseteq Frame
  BY <1>1, StateOf
<1>3. PICK vp \in proc[p].page_table :
        proc' = [proc EXCEPT ![p] = [proc[p] EXCEPT
          !.pc = "free", !.page = vp, !.kpage = proc[p].pagedir[vp], !.pagedir[vp] = Nil,
          !.page_table = @ \ {vp}, !.flags[vp] = {}]]
  BY DEF PageFree
<1> DEFINE r == [proc[p] EXCEPT
             !.pc = "free", !.page = vp, !.kpage = proc[p].pagedir[vp], !.pagedir[vp] = Nil,
             !.page_table = @ \ {vp}, !.flags[vp] = {}]
<1>4. vp \in Page
  BY <1>2 DEF ProcRecord
<1>5. /\ r \in ProcRecord /\ r.pc = "free" /\ r.kpage = proc[p].pagedir[vp] /\ r.page = vp
      /\ r.call = proc[p].call /\ r.mapid = proc[p].mapid
      /\ \A x \in Page : r.pagedir[x] = IF x = vp THEN Nil ELSE proc[p].pagedir[x]
      /\ \A x \in Page : r.flags[x] = IF x = vp THEN {} ELSE proc[p].flags[x]
  BY <1>2, <1>4, ZenonT(60) DEF ProcRecord
<1>6. Becomes(p, r)
  BY <1>3, <1>5 DEF Becomes
<1> HIDE DEF r
<1>7. LocalOK(r) /\ FlagsFall(p, r)
  <2>1. /\ \A x \in SegmentPage : r.flags[x] \subseteq {"EVICTABLE", "INVALID"}
        /\ \A x \in StackPage : r.flags[x] \subseteq {"ON_SWAP"}
    BY <1>2, <1>5 DEF LocalOK, Page
  <2> QED
    BY <1>1, <1>2, <1>5, <2>1 DEF LocalOK, FlagsFall, Faulting
<1>8. /\ NoPage \in Slots /\ vp \in Slots /\ NoPage # vp
      /\ Held(proc[p], NoPage) = Nil /\ Held(r, vp) = Nil
      /\ Held(r, NoPage) = Held(proc[p], vp)
      /\ \A x \in Slots \ {NoPage, vp} : Held(r, x) = Held(proc[p], x)
  BY <1>1, <1>2, <1>4, <1>5, NilIsNoFrame DEF Held, Slots, LocalOK
<1>9. OneUser' /\ PoolExact' /\ \A k \in Frame : InTable(k)' <=> InTable(k)
  BY <1>1, <1>5, <1>6, <1>8, HeldMoved
<1> QED
  BY <1>1, <1>2, <1>5, <1>6, <1>7, <1>9, QuietStep, SameTable, SameHist

-------------------------------------------------------------------------------
(***************************************************************************)
(* Frames that are given back.                                             *)
(***************************************************************************)
LEMMA RemovedKeeps ==
  ASSUME VMIInv, NEW p \in UserProcess, NEW r, Becomes(p, r), FlagsFall(p, r),
         NEW at \in 1 .. Len(frameTable),
         SameFrames(Seqs!RemoveAt(frameTable, at), frameTable')
  PROVE  \A i \in DOMAIN frameTable' : EntryOK(frameTable'[i], proc')
<1> DEFINE n == Len(frameTable)
           new == Seqs!RemoveAt(frameTable, at)
<1>1. frameTable \in Seq(Entry)
  BY StateOf
<1>2. /\ n \in Nat /\ DOMAIN frameTable = 1 .. n
      /\ \A i \in 1 .. n : frameTable[i] \in Entry /\ EntryOK(frameTable[i], proc)
  BY <1>1, LenProperties, ElementOfSeq DEF VMIInv
<1>3. /\ new \in Seq(Entry) /\ Len(new) = n - 1
      /\ \A i \in 1 .. n - 1 : new[i] = IF i < at THEN frameTable[i] ELSE frameTable[i + 1]
  BY <1>1, RemovedAt
<1> HIDE DEF new, n
<1>4. /\ DOMAIN frameTable' = 1 .. n - 1
      /\ \A i \in 1 .. n - 1 : frameTable'[i] \in Entry /\ Derived(frameTable'[i], new[i])
  <2>1. frameTable' \in Seq(Entry) /\ Len(frameTable') = n - 1
    BY <1>3 DEF SameFrames, new
  <2>2. DOMAIN frameTable' = 1 .. n - 1
    BY <2>1, LenProperties
  <2>3. \A i \in 1 .. n - 1 : frameTable'[i] \in Entry
    BY <2>1, ElementOfSeq
  <2> QED
    BY <1>3, <2>2, <2>3 DEF SameFrames, new
<1> SUFFICES ASSUME NEW i \in 1 .. n - 1
             PROVE  EntryOK(frameTable'[i], proc')
  BY <1>4
<1>5. new[i] \in Entry /\ EntryOK(new[i], proc)
  <2>1. i \in 1 .. n /\ i + 1 \in 1 .. n
    BY <1>2
  <2> QED
    BY <1>2, <1>3, <2>1
<1> QED
  BY <1>4, <1>5, EntryKept

\* P gives back the frame K that it has at A.
LEMMA FreedKeeps ==
  ASSUME VMIInv, NEW p \in UserProcess, NEW r, Becomes(p, r), LocalOK(r), FlagsFall(p, r),
         NEW a \in Slots, NEW k \in Frame \union {Nil}, Held(proc[p], a) = k,
         \A x \in Slots : Held(r, x) = IF x = a THEN Nil ELSE Held(proc[p], x),
         proc[p].pc # "push", r.pc \notin {"push", "scan"},
         frameTableLock = Nobody, UNCHANGED <<frameTableLock, hist>>,
         fsLock' \in UserProcess \union {Nobody},
         pool' = PoolWithout(k), SameFrames(TableWithout(k), frameTable')
  PROVE  VMIInv'
<1> DEFINE found == { i \in DOMAIN frameTable : frameTable[i].kpage = k }
           n == Len(frameTable)
<1>1. /\ frameTable \in Seq(Entry) /\ hist \in HistRecord /\ pool \subseteq Frame
      /\ n \in Nat /\ DOMAIN frameTable = 1 .. n
      /\ found = Entries(frameTable, k)
      /\ FirstEntry(k) = IF found = {} THEN Nil ELSE Min(found)
  BY StateOf, LenProperties DEF FirstEntry, Entries
<1>2. CASE k = Nil
  <2>1. found = {}
    <3> SUFFICES ASSUME NEW i \in found
                 PROVE  FALSE
      OBVIOUS
    <3>1. i \in 1 .. n /\ frameTable[i] \in Entry
      BY <1>1, ElementOfSeq
    <3> QED
      BY <1>2, <3>1, NilIsNoFrame DEF Entry
  <2>2. pool' = pool /\ SameFrames(frameTable, frameTable')
    BY <1>1, <2>1 DEF PoolWithout, TableWithout
  <2>3. \A x \in Slots : Held(r, x) = Held(proc[p], x)
    BY <1>2
  <2> QED
    BY <2>2, <2>3, LocalStep, SameHist
<1>3. CASE k # Nil
  <2> DEFINE at == Min(found)
  <2>1. k \in Frame
    BY <1>3
  <2>2. /\ OneUser' /\ (pool' = pool \ {k} => PoolExact')
        /\ \A j \in Frame : InTable(j)' <=> InTable(j) /\ j # k
        /\ InTable(k)
    <3> DEFINE gone == { Held(proc[p], x) : x \in {a} }
    <3>1. gone = {k}
      OBVIOUS
    <3>2. /\ OneUser' /\ (pool' = pool \ gone => PoolExact')
          /\ \A j \in Frame : InTable(j)' <=> InTable(j) /\ j \notin gone
          /\ \A j \in Frame : j \in gone => InTable(j)
      <4>1. {a} \in SUBSET Slots /\ \A x \in Slots :
              Held(r, x) = IF x \in {a} THEN Nil ELSE Held(proc[p], x)
        OBVIOUS
      <4> QED
        BY <4>1, HeldGone
    <3> HIDE DEF gone
    <3> QED
      BY <2>1, <3>1, <3>2
  <2>3. hist.stale \in [Frame -> Nat]
    BY <1>1 DEF HistRecord
  <2>4. \A j \in Frame : Cardinality(Entries(frameTable, j))
                           = hist.stale[j] + (IF InTable(j) THEN 1 ELSE 0)
    BY DEF VMIInv, EntriesExact
  <2>5. found # {}
    <3>1. Cardinality(Entries(frameTable, k)) # 0
      BY <2>1, <2>2, <2>3, <2>4
    <3> QED
      BY <1>1, <3>1, FS_EmptySet
  <2>6. at \in found /\ at \in 1 .. n /\ frameTable[at].kpage = k
    <3>1. found \in SUBSET Nat
      BY <1>1
    <3>2. at \in found
      BY <2>5, <3>1, LeastOf
    <3> QED
      BY <1>1, <3>2
  <2> DEFINE new == Seqs!RemoveAt(frameTable, at)
  <2>7. pool' = pool \ {k} /\ SameFrames(new, frameTable')
    <3>1. FirstEntry(k) = at /\ FirstEntry(k) # Nil
      BY <1>1, <2>5, <2>6 DEF Nil
    <3> QED
      BY <3>1 DEF PoolWithout, TableWithout
  <2> HIDE DEF found, at
  <2>8. new \in Seq(Entry)
    BY <1>1, <2>6, RemovedAt
  <2>9. \A j \in Frame : Cardinality(Entries(frameTable', j))
          = Cardinality(Entries(frameTable, j)) - (IF j = k THEN 1 ELSE 0)
    <3>1. \A j \in Frame : Entries(frameTable', j) = Entries(new, j)
      BY <2>7, <2>8, SameFramesEntries
    <3> QED
      BY <1>1, <2>6, <3>1, EntriesRemoved
  <2>10. EntriesExact'
    <3> SUFFICES ASSUME NEW j \in Frame
                 PROVE  Cardinality(Entries(frameTable', j))
                          = hist.stale[j] + (IF InTable(j)' THEN 1 ELSE 0)
      BY DEF EntriesExact
    <3>1. hist.stale[j] \in Nat
      BY <2>3
    <3> QED
      BY <2>2, <2>4, <2>9, <3>1
  <2>11. /\ proc' \in [UserProcess -> ProcRecord] /\ proc'[p] = r
         /\ \A q \in UserProcess : q # p => proc'[q] = proc[q]
    BY ProcAfter DEF VMIInv
  <2>12. VMTypeOK'
    <3>1. frameTable' \in Seq(Entry)
      BY <2>7 DEF SameFrames
    <3> QED
      BY <1>1, <2>7, <2>11, <3>1 DEF VMIInv, VMTypeOK
  <2>13. \A i \in DOMAIN frameTable' : EntryOK(frameTable'[i], proc')
    BY <2>6, <2>7, RemovedKeeps
  <2>14. Scanning'
    BY <2>11 DEF VMIInv, Scanning
  <2> QED
    BY <2>2, <2>7, <2>10, <2>12, <2>13, <2>14, LocalAfter DEF VMIInv
<1> QED
  BY <1>2, <1>3

LEMMA TableWithoutIsTable ==
  ASSUME VMIInv, NEW k
  PROVE  TableWithout(k) \in Seq(Entry)
<1> DEFINE found == { i \in DOMAIN frameTable : frameTable[i].kpage = k }
<1>1. /\ frameTable \in Seq(Entry) /\ Len(frameTable) \in Nat
      /\ DOMAIN frameTable = 1 .. Len(frameTable)
      /\ FirstEntry(k) = IF found = {} THEN Nil ELSE Min(found)
  BY LenProperties DEF VMIInv, VMTypeOK, FirstEntry
<1>2. CASE FirstEntry(k) = Nil
  BY <1>1, <1>2 DEF TableWithout
<1>3. CASE FirstEntry(k) # Nil
  <2>1. found # {} /\ found \in SUBSET Nat
    BY <1>1, <1>3
  <2>2. Min(found) \in found
    BY <2>1, LeastOf
  <2>3. FirstEntry(k) \in 1 .. Len(frameTable)
    BY <1>1, <2>1, <2>2
  <2> QED
    BY <1>1, <1>3, <2>3, RemovedAt DEF TableWithout
<1> QED
  BY <1>2, <1>3

LEMMA FreeKeeps == VMIInv /\ (\E p \in UserProcess : Free(p)) => VMIInv'
<1> SUFFICES ASSUME VMIInv, NEW p \in UserProcess, Free(p) PROVE VMIInv'
  OBVIOUS
<1> DEFINE k == proc[p].kpage
           vp == proc[p].page
           u == [proc[p] EXCEPT !.pc = "destroy", !.kpage = Nil, !.page = NoPage]
           r == IF proc[p].call = "exit" THEN u ELSE Leave(proc[p])
<1>1. /\ proc[p].pc = "free" /\ proc' = [proc EXCEPT ![p] = r]
      /\ frameTableLock = Nobody /\ UNCHANGED <<frameTableLock, hist>>
      /\ pool' = PoolWithout(k) /\ fsLock' = Unlock(fsLock, p)
      /\ frameTable' = IF vp \in StackPage THEN FreePage(TableWithout(k), p, vp)
                       ELSE TableWithout(k)
  BY DEF Free, PcIs
<1>2. /\ proc[p] \in ProcRecord /\ LocalOK(proc[p]) /\ fsLock' \in UserProcess \union {Nobody}
      /\ k \in Frame \union {Nil}
  BY <1>1, StateOf DEF Unlock, ProcRecord
<1>3. /\ u \in ProcRecord /\ u.pc = "destroy" /\ u.call = proc[p].call /\ u.kpage = Nil
      /\ u.mapid = proc[p].mapid /\ u.flags = proc[p].flags /\ u.pagedir = proc[p].pagedir
  BY <1>2 DEF ProcRecord
<1>4. /\ r \in ProcRecord /\ r.pc \in {"destroy", "unmap"} /\ r.call = "exit" /\ r.kpage = Nil
      /\ r.flags = proc[p].flags /\ r.pagedir = proc[p].pagedir
  BY <1>2, <1>3, LeaveIs
<1>5. Becomes(p, r)
  BY <1>1, <1>4 DEF Becomes
<1> HIDE DEF r, u
<1>6. LocalOK(r) /\ FlagsFall(p, r)
  BY <1>1, <1>2, <1>4 DEF LocalOK, FlagsFall, Faulting
<1>7. /\ Held(proc[p], NoPage) = k /\ NoPage \in Slots
      /\ \A x \in Slots : Held(r, x) = IF x = NoPage THEN Nil ELSE Held(proc[p], x)
  BY <1>1, <1>4, NilIsNoFrame DEF Held
<1>8. SameFrames(TableWithout(k), frameTable')
  BY <1>1, TableWithoutIsTable, FreePageKeeps, SameFramesItself
<1> QED
  BY <1>1, <1>2, <1>4, <1>5, <1>6, <1>7, <1>8, FreedKeeps

LEMMA UnmapFreeKeeps == VMIInv /\ (\E p \in UserProcess : UnmapFree(p)) => VMIInv'
<1> SUFFICES ASSUME VMIInv, NEW p \in UserProcess, UnmapFree(p) PROVE VMIInv'
  OBVIOUS
<1> DEFINE vp == Head(proc[p].unmapping).page
           k == proc[p].pagedir[vp]
           r == [proc[p] EXCEPT !.pc = "clear"]
<1>1. /\ proc[p].pc = "unmap" /\ proc[p].unmapping # <<>> /\ proc' = [proc EXCEPT ![p] = r]
      /\ frameTableLock = Nobody /\ UNCHANGED <<frameTableLock, fsLock, hist>>
      /\ pool' = PoolWithout(k) /\ frameTable' = TableWithout(k)
  BY DEF UnmapFree, PcIs, SetPc
<1>2. /\ proc[p] \in ProcRecord /\ LocalOK(proc[p]) /\ fsLock' \in UserProcess \union {Nobody}
  BY <1>1, StateOf
<1>3. vp \in Page /\ k \in Frame \union {Nil}
  <2>1. Head(proc[p].unmapping) \in MmapFile
    BY <1>1, <1>2, HeadTailProperties DEF ProcRecord
  <2>2. vp \in Page
    BY <2>1 DEF MmapFile
  <2> QED
    BY <1>2, <2>2 DEF ProcRecord
<1>4. /\ r \in ProcRecord /\ r.pc = "clear" /\ r.call = proc[p].call /\ r.kpage = proc[p].kpage
      /\ r.mapid = proc[p].mapid /\ r.flags = proc[p].flags /\ r.pagedir = proc[p].pagedir
      /\ r.unmapping = proc[p].unmapping
  BY <1>2 DEF ProcRecord
<1>5. Becomes(p, r)
  BY <1>1, <1>4 DEF Becomes
<1> HIDE DEF r
<1>6. LocalOK(r) /\ FlagsFall(p, r)
  BY <1>1, <1>2, <1>4 DEF LocalOK, FlagsFall, Faulting
<1>7. /\ Held(proc[p], vp) = k /\ vp \in Slots
      /\ \A x \in Slots : Held(r, x) = IF x = vp THEN Nil ELSE Held(proc[p], x)
  BY <1>1, <1>3, <1>4, NilIsNoFrame DEF Held
<1>8. SameFrames(TableWithout(k), frameTable')
  BY <1>1, TableWithoutIsTable, SameFramesItself
<1> HIDE DEF vp, k
<1>9. proc[p].pc # "push" /\ r.pc \notin {"push", "scan"}
  BY <1>1, <1>4
<1> QED
  BY <1>1, <1>2, <1>3, <1>5, <1>6, <1>7, <1>8, <1>9, FreedKeeps

\* All frames of P go back to the pool; what is in the table for them stays.
LEMMA PagedirDestroyKeeps == VMIInv /\ (\E p \in UserProcess : PagedirDestroy(p)) => VMIInv'
<1> SUFFICES ASSUME VMIInv, NEW p \in UserProcess, PagedirDestroy(p) PROVE VMIInv'
  OBVIOUS
<1> DEFINE mapped == { proc[p].pagedir[vp] : vp \in Page } \ {Nil}
           gone == { Held(proc[p], x) : x \in Slots }
<1>1. /\ proc[p].pc = "destroy" /\ proc' = [proc EXCEPT ![p] = Idle]
      /\ pool' = pool \ mapped /\ UNCHANGED <<frameTableLock, fsLock>>
      /\ frameTable' = [i \in DOMAIN frameTable |->
           IF frameTable[i].used_process = p
           THEN [frameTable[i] EXCEPT !.used_process = Nobody] ELSE frameTable[i]]
      /\ hist' = [hist EXCEPT !.stale =
           [k \in Frame |-> IF k \in mapped THEN hist.stale[k] + 1 ELSE hist.stale[k]]]
  BY DEF PagedirDestroy, PcIs
<1>2. /\ proc[p] \in ProcRecord /\ LocalOK(proc[p]) /\ pool \subseteq Frame
      /\ frameTable \in Seq(Entry) /\ hist \in HistRecord /\ hist.stale \in [Frame -> Nat]
  BY StateOf DEF HistRecord
<1>3. /\ Idle \in ProcRecord /\ Idle.pc = "none" /\ Idle.kpage = Nil /\ Idle.buffer = {}
      /\ \A vp \in Page : Idle.pagedir[vp] = Nil /\ Idle.flags[vp] = {}
      /\ LocalOK(Idle)
  BY IdleIs
<1>4. Becomes(p, Idle)
  BY <1>1, <1>3 DEF Becomes
<1>5. /\ proc' \in [UserProcess -> ProcRecord] /\ proc'[p] = Idle
      /\ \A q \in UserProcess : q # p => proc'[q] = proc[q]
  BY <1>4, ProcAfter DEF VMIInv
<1>6. gone \ {Nil} = mapped
  <2>1. Held(proc[p], NoPage) = Nil /\ \A x \in Page : Held(proc[p], x) = proc[p].pagedir[x]
    BY <1>1, <1>2, NilIsNoFrame DEF Held, LocalOK
  <2> QED
    BY <2>1 DEF Slots
<1> HIDE DEF mapped
<1>7. /\ OneUser' /\ (pool' = pool \ gone => PoolExact')
      /\ \A k \in Frame : InTable(k)' <=> InTable(k) /\ k \notin gone
      /\ \A k \in Frame : k \in gone => InTable(k)
  <2>1. \A x \in Slots : Held(Idle, x) = IF x \in Slots THEN Nil ELSE Held(proc[p], x)
    BY <1>3 DEF Held, Slots
  <2> QED
    BY <1>1, <1>3, <1>4, <2>1, HeldGone, ZenonT(60)
<1> HIDE DEF gone
<1>8. PoolExact'
  BY <1>1, <1>2, <1>6, <1>7, NilIsNoFrame
<1>9. SameFrames(frameTable, frameTable')
      /\ \A i \in DOMAIN frameTable' : frameTable'[i].used_process # p
                                        /\ frameTable'[i] \in Entry
                                        /\ i \in DOMAIN frameTable
  <2>1. /\ Len(frameTable) \in Nat /\ DOMAIN frameTable = 1 .. Len(frameTable)
        /\ \A i \in 1 .. Len(frameTable) : frameTable[i] \in Entry
    BY <1>2, LenProperties, ElementOfSeq
  <2>2. ASSUME NEW i \in 1 .. Len(frameTable)
        PROVE  /\ frameTable'[i] \in Entry /\ frameTable'[i].kpage = frameTable[i].kpage
               /\ Derived(frameTable'[i], frameTable[i]) /\ frameTable'[i].used_process # p
    <3> DEFINE e == frameTable[i]
               d == [e EXCEPT !.used_process = Nobody]
    <3>1. frameTable'[i] = IF e.used_process = p THEN d ELSE e
      BY <1>1, <2>1
    <3>2. e \in Entry
      BY <2>1
    <3> HIDE DEF e
    <3>3. d \in Entry /\ d.kpage = e.kpage /\ d.used_process = Nobody /\ d.uvpage = e.uvpage
      BY <3>2 DEF Entry
    <3>4. Nobody # p
      BY VirtualMemoryAssumption
    <3> QED
      BY <3>1, <3>2, <3>3, <3>4 DEF Derived, e
  <2>3. frameTable' \in [1 .. Len(frameTable) -> Entry]
    BY <1>1, <2>1, <2>2
  <2>4. frameTable' \in Seq(Entry) /\ Len(frameTable') = Len(frameTable)
    BY <2>1, <2>3
  <2> QED
    BY <2>1, <2>2, <2>3, <2>4 DEF SameFrames
<1>10. /\ hist' \in HistRecord /\ hist'.halted = hist.halted
       /\ \A k \in Frame : hist'.stale[k] = IF k \in mapped THEN hist.stale[k] + 1
                                            ELSE hist.stale[k]
  <2> DEFINE after == [k \in Frame |-> IF k \in mapped THEN hist.stale[k] + 1 ELSE hist.stale[k]]
  <2>1. after \in [Frame -> Nat]
    BY <1>2
  <2>2. \A k \in Frame : after[k] = IF k \in mapped THEN hist.stale[k] + 1 ELSE hist.stale[k]
    OBVIOUS
  <2>3. hist' = [hist EXCEPT !.stale = after]
    BY <1>1
  <2> HIDE DEF after
  <2>4. hist' \in HistRecord /\ hist'.halted = hist.halted /\ hist'.stale = after
    BY <1>2, <2>1, <2>3 DEF HistRecord
  <2> QED
    BY <2>2, <2>4
<1>11. VMTypeOK'
  BY <1>1, <1>2, <1>5, <1>9, <1>10 DEF VMIInv, VMTypeOK, SameFrames
<1>12. LocalOK(Idle)
  BY <1>3
<1>13. \A i \in DOMAIN frameTable' : EntryOK(frameTable'[i], proc')
  <2> SUFFICES ASSUME NEW i \in DOMAIN frameTable', frameTable'[i].used_process # Nobody
               PROVE  EntryOK(frameTable'[i], proc')
    BY DEF EntryOK
  <2> DEFINE d == frameTable'[i]
             e == frameTable[i]
  <2>1. d \in Entry /\ d.used_process # p /\ d.used_process # Nobody
        /\ Derived(d, e) /\ EntryOK(e, proc)
    <3>1. DOMAIN frameTable = 1 .. Len(frameTable)
      BY <1>2, LenProperties
    <3> QED
      BY <1>9, <3>1 DEF SameFrames, VMIInv
  <2> HIDE DEF d, e
  <2>2. /\ d.used_process = e.used_process /\ d.used_process \in UserProcess
        /\ d.uvpage # NoPage => d.uvpage = e.uvpage
        /\ e.used_process # Nobody
    BY <2>1 DEF Derived, Entry
  <2>3. proc'[d.used_process] = proc[e.used_process]
    BY <1>5, <2>1, <2>2
  <2>4. EntryOK(d, proc')
    BY <2>1, <2>2, <2>3 DEF EntryOK
  <2> QED
    BY <2>4 DEF d
<1>14. Scanning'
  <2>1. frameTable' = <<>> <=> frameTable = <<>>
    BY <1>2, <1>9, SameFramesEntries
  <2> QED
    BY <1>1, <1>3, <1>5, <1>10, <2>1 DEF VMIInv, Scanning
<1>15. EntriesExact'
  <2> SUFFICES ASSUME NEW k \in Frame
               PROVE  Cardinality(Entries(frameTable', k))
                        = hist'.stale[k] + (IF InTable(k)' THEN 1 ELSE 0)
    BY DEF EntriesExact
  <2>1. Entries(frameTable', k) = Entries(frameTable, k)
    BY <1>2, <1>9, SameFramesEntries
  <2>2. Cardinality(Entries(frameTable, k)) = hist.stale[k] + (IF InTable(k) THEN 1 ELSE 0)
    BY DEF VMIInv, EntriesExact
  <2>3. hist.stale[k] \in Nat /\ (k \in gone <=> k \in mapped)
    BY <1>2, <1>6, NilIsNoFrame
  <2> QED
    BY <1>7, <1>10, <2>1, <2>2, <2>3
<1> QED
  BY <1>4, <1>7, <1>8, <1>11, <1>12, <1>13, <1>14, <1>15, LocalAfter DEF VMIInv

-------------------------------------------------------------------------------
(***************************************************************************)
(* The start, and all steps.                                               *)
(***************************************************************************)
LEMMA InitVM == VMInit => VMIInv
<1> SUFFICES ASSUME VMInit PROVE VMIInv
  OBVIOUS
<1>1. /\ pool = {} /\ frameTable = <<>> /\ frameTableLock = Nobody /\ fsLock = Nobody
      /\ proc = [p \in UserProcess |-> Idle]
      /\ hist = [stale |-> [k \in Frame |-> 0], halted |-> FALSE, loads |-> 0]
  BY DEF VMInit
<1>2. /\ Idle \in ProcRecord /\ Idle.pc = "none" /\ Idle.kpage = Nil /\ Idle.buffer = {}
      /\ \A vp \in Page : Idle.pagedir[vp] = Nil /\ Idle.flags[vp] = {}
      /\ LocalOK(Idle)
  BY IdleIs
<1>3. hist \in HistRecord /\ hist.stale = [k \in Frame |-> 0]
  BY <1>1, VirtualMemoryAssumption DEF HistRecord
<1>4. VMTypeOK
  <2>1. <<>> \in Seq(Entry) /\ {} \subseteq Frame
    OBVIOUS
  <2> QED
    BY <1>1, <1>2, <1>3, <2>1 DEF VMTypeOK
<1>5. \A p \in UserProcess : LocalOK(proc[p])
  BY <1>1, <1>2
<1>6. \A i \in DOMAIN frameTable : EntryOK(frameTable[i], proc)
  BY <1>1
<1>7. Scanning
  BY <1>1, <1>2 DEF Scanning
<1>8. \A p \in UserProcess, x \in Slots : Held(proc[p], x) = Nil
  BY <1>1, <1>2 DEF Held, Slots
<1>9. OneUser
  BY <1>8 DEF OneUser
<1>10. PoolExact /\ \A k \in Frame : ~InTable(k)
  BY <1>1, <1>8, NilIsNoFrame DEF PoolExact, InTable
<1>11. EntriesExact
  <2>1. \A k \in Frame : Entries(frameTable, k) = {} /\ hist.stale[k] = 0
    BY <1>1, <1>3 DEF Entries
  <2> QED
    BY <1>10, <2>1, FS_EmptySet DEF EntriesExact
<1> QED
  BY <1>4, <1>5, <1>6, <1>7, <1>9, <1>10, <1>11 DEF VMIInv

LEMMA VMNextKeeps == VMIInv /\ [VMNext]_vmVars => VMIInv'
<1> SUFFICES ASSUME VMIInv, [VMNext]_vmVars PROVE VMIInv'
  OBVIOUS
<1>1. CASE UNCHANGED vmVars
  <2>1. /\ UNCHANGED <<pool, frameTable, frameTableLock, fsLock, proc, hist>>
    BY <1>1 DEF vmVars
  <2> QED
    BY <2>1 DEF VMIInv, VMTypeOK, Scanning, OneUser, PoolExact, InTable, EntriesExact
<1>2. CASE VMNext
  <2>1. PICK p \in UserProcess : Step(p)
    BY <1>2 DEF VMNext
  <2>2. CASE LoadPages(p) \/ Alloc(p) \/ Evict(p) \/ Scan(p) \/ Push(p) \/ Fill(p) \/ Grow(p)
    BY <2>2, LoadPagesKeeps, AllocKeeps, EvictKeeps, ScanKeeps, PushKeeps, FillKeeps, GrowKeeps
  <2>3. CASE Free(p) \/ \E vp \in Page : Access(p, vp)
    BY <2>3, FreeKeeps, AccessKeeps
  <2>4. CASE \E call \in {"io", "mmap"}, buffer \in Buffers : Call(p, call, buffer)
    BY <2>4, CallKeeps
  <2>5. CASE Check(p) \/ Transfer(p) \/ TransferDone(p) \/ Mmap(p)
    BY <2>5, CheckKeeps, TransferKeeps, TransferDoneKeeps, MmapKeeps
  <2>6. CASE \E id \in ALL .. Mappings : Munmap(p, id)
    BY <2>6, MunmapKeeps
  <2>7. CASE UnmapFree(p) \/ UnmapClear(p) \/ UnmapDone(p) \/ ExitUser(p) \/ PageFree(p)
             \/ PagedirDestroy(p)
    BY <2>7, UnmapFreeKeeps, UnmapClearKeeps, UnmapDoneKeeps, ExitUserKeeps, PageFreeKeeps,
       PagedirDestroyKeeps
  <2> QED
    BY <2>1, <2>2, <2>3, <2>4, <2>5, <2>6, <2>7 DEF Step
<1> QED
  BY <1>1, <1>2

LEMMA VMInvariant == VMSpec => []VMIInv
<1> QED
  BY InitVM, VMNextKeeps, PTL DEF VMSpec

-------------------------------------------------------------------------------
LEMMA HoldersAre ==
  ASSUME NEW k
  PROVE  /\ \A p \in UserProcess, x \in Slots : <<p, x>> \in Holders(k) <=> Held(proc[p], x) = k
         /\ \A h \in Holders(k) : /\ h[1] \in UserProcess /\ h[2] \in Slots /\ h = <<h[1], h[2]>>
                                  /\ Held(proc[h[1]], h[2]) = k
BY DEF Holders

(***************************************************************************)
(* No two processes, and no two pages of one process, have the same frame, *)
(* and the pool has every frame that nobody has: frame_alloc_get_page,     *)
(* frame_free_page and pagedir_destroy neither lose a frame nor free one   *)
(* twice (userprog/exception.c, vm/page.c, vm/frame.c).                    *)
(***************************************************************************)
THEOREM FramesExactHolds == VMSpec => []FramesExact
<1>1. VMIInv => FramesExact
  <2> SUFFICES ASSUME VMIInv, NEW k \in Frame
               PROVE  Cardinality(Holders(k)) <= 1 /\ (k \in pool <=> Holders(k) # {})
    BY DEF FramesExact, VMIInv
  <2>1. k # Nil
    BY NilIsNoFrame
  <2>2. \A h \in Holders(k) : \A g \in Holders(k) : h = g
    <3> SUFFICES ASSUME NEW h \in Holders(k), NEW g \in Holders(k)
                 PROVE  h = g
      OBVIOUS
    <3>1. /\ h = <<h[1], h[2]>> /\ h[1] \in UserProcess /\ h[2] \in Slots
          /\ g = <<g[1], g[2]>> /\ g[1] \in UserProcess /\ g[2] \in Slots
          /\ Held(proc[h[1]], h[2]) = k /\ Held(proc[g[1]], g[2]) = k
      BY HoldersAre
    <3>2. h[1] = g[1] /\ h[2] = g[2]
      BY <2>1, <3>1 DEF VMIInv, OneUser
    <3> QED
      BY <3>1, <3>2
  <2>3. k \in pool <=> Holders(k) # {}
    <3>1. k \in pool <=> \E p \in UserProcess, x \in Slots : Held(proc[p], x) = k
      BY DEF VMIInv, PoolExact
    <3> QED
      BY <3>1, HoldersAre, ZenonT(60)
  <2>4. CASE Holders(k) = {}
    BY <2>3, <2>4, FS_EmptySet
  <2>5. CASE Holders(k) # {}
    <3>1. \E h : Holders(k) = {h}
      BY <2>2, <2>5
    <3>2. Cardinality(Holders(k)) = 1
      BY <3>1, FS_Singleton
    <3> QED
      BY <2>3, <3>2
  <2> QED
    BY <2>4, <2>5
<1> QED
  BY <1>1, VMInvariant, PTL

(***************************************************************************)
(* The frame table has each frame in use once, and each frame as often     *)
(* again as an exit left it there: frame_free_page always finds the frame  *)
(* that page_free and process_munmap_file give it (vm/frame.c).            *)
(***************************************************************************)
THEOREM TableExactHolds == VMSpec => []TableExact
<1>1. VMIInv => TableExact
  <2> SUFFICES ASSUME VMIInv, NEW k \in Frame
               PROVE  Cardinality({ i \in DOMAIN frameTable : frameTable[i].kpage = k })
                        = hist.stale[k] + (IF \E h \in Holders(k) : proc[h[1]].pc # "push" \/ h[2] # NoPage
                                           THEN 1 ELSE 0)
    BY DEF TableExact
  <2>1. InTable(k) <=> \E h \in Holders(k) : proc[h[1]].pc # "push" \/ h[2] # NoPage
    <3>1. ASSUME InTable(k)
          PROVE  \E h \in Holders(k) : proc[h[1]].pc # "push" \/ h[2] # NoPage
      <4>1. PICK p \in UserProcess, x \in Slots :
              Held(proc[p], x) = k /\ (proc[p].pc # "push" \/ x # NoPage)
        BY <3>1 DEF InTable
      <4>2. <<p, x>> \in Holders(k) /\ <<p, x>>[1] = p /\ <<p, x>>[2] = x
        BY <4>1, HoldersAre
      <4> QED
        BY <4>1, <4>2
    <3>2. ASSUME NEW h \in Holders(k), proc[h[1]].pc # "push" \/ h[2] # NoPage
          PROVE  InTable(k)
      BY <3>2, HoldersAre DEF InTable
    <3> QED
      BY <3>1, <3>2
  <2> QED
    BY <2>1 DEF VMIInv, EntriesExact, Entries
<1> QED
  BY <1>1, VMInvariant, PTL

(***************************************************************************)
(* No frame in the frame table belongs to a page that is EVICTABLE, so     *)
(* frame_alloc_evict never takes a frame from a page that is being read or *)
(* used (vm/frame.c).                                                      *)
(***************************************************************************)
THEOREM PinnedHolds == VMSpec => []Pinned
<1>1. VMIInv => Pinned
  <2> SUFFICES ASSUME VMIInv
               PROVE  Pinned
    OBVIOUS
  <2>1. \A i \in DOMAIN frameTable : ~Evictable(frameTable[i])
    BY DEF VMIInv, EntryOK, Evictable
  <2>2. \A p \in UserProcess, vp \in Page : ~({"INVALID", "ON_SWAP"} \subseteq proc[p].flags[vp])
    <3> SUFFICES ASSUME NEW p \in UserProcess, NEW vp \in Page,
                        {"INVALID", "ON_SWAP"} \subseteq proc[p].flags[vp]
                 PROVE  FALSE
      OBVIOUS
    <3>1. LocalOK(proc[p])
      BY StateOf
    <3>2. CASE vp \in SegmentPage
      BY <3>1, <3>2 DEF LocalOK
    <3>3. CASE vp \in StackPage
      BY <3>1, <3>3 DEF LocalOK
    <3> QED
      BY <3>2, <3>3 DEF Page
  <2> QED
    BY <2>1, <2>2 DEF Pinned
<1> QED
  BY <1>1, VMInvariant, PTL

(***************************************************************************)
(* A process that reads or writes a file with fs_lock held has all pages   *)
(* of its buffer, so it cannot fault and take fs_lock again                *)
(* (userprog/syscall.c, vm/page.c).                                        *)
(***************************************************************************)
THEOREM NoFaultUnderLockHolds == VMSpec => []NoFaultUnderLock
<1>1. VMIInv => NoFaultUnderLock
  BY StateOf DEF NoFaultUnderLock, Present, LocalOK
<1> QED
  BY <1>1, VMInvariant, PTL

-------------------------------------------------------------------------------
(***************************************************************************)
(* What a step does to a process that is scanning the frame table.         *)
(***************************************************************************)
LEMMA OnlyScanFromScan ==
  ASSUME NEW p \in UserProcess, proc[p].pc = "scan", Step(p)
  PROVE  Scan(p)
BY DEF Step, PcIs, LoadPages, Alloc, Evict, Push, Fill, Grow, Free, Access, Call, Check, Checked,
       Transfer, TransferDone, Mmap, Munmap, UnmapFree, UnmapClear, UnmapDone, ExitUser, PageFree,
       PagedirDestroy

LEMMA StepIsLocal ==
  ASSUME NEW q \in UserProcess, Step(q)
  PROVE  \A p \in UserProcess \ {q} : VMTypeOK => proc'[p] = proc[p]
<1> SUFFICES ASSUME VMTypeOK, NEW p \in UserProcess, p # q
             PROVE  proc'[p] = proc[p]
  OBVIOUS
<1>1. proc \in [UserProcess -> ProcRecord]
  BY DEF VMTypeOK
<1>2. CASE LoadPages(q) \/ Alloc(q) \/ Evict(q) \/ Scan(q) \/ Push(q) \/ Fill(q) \/ Grow(q) \/ Free(q)
  BY <1>1, <1>2 DEF LoadPages, Alloc, Evict, Scan, Push, Fill, Grow, Free, SetPc
<1>3. CASE \E vp \in Page : Access(q, vp)
  BY <1>1, <1>3 DEF Access, Fault
<1>4. CASE \E call \in {"io", "mmap"}, buffer \in Buffers : Call(q, call, buffer)
  BY <1>1, <1>4 DEF Call
<1>5. CASE Check(q)
  BY <1>1, <1>5 DEF Check, Fault
<1>6. CASE Transfer(q) \/ TransferDone(q)
  BY <1>1, <1>6 DEF Transfer, TransferDone, SetPc
<1>7. CASE Mmap(q)
  <2> DEFINE mid == proc[q].mapid + 1
  <2>1. CASE proc[q].buffer \subseteq proc[q].page_table
    <3>1. UNCHANGED hist /\ \E vp \in proc[q].buffer :
            proc' = [proc EXCEPT ![q] = BackToUser([proc[q] EXCEPT
              !.mapid = mid, !.mmap_file = Append(@, [page |-> vp, id |-> mid])])]
      BY <1>7, <2>1 DEF Mmap
    <3> HIDE DEF mid
    <3> QED
      BY <1>1, <3>1
  <2>2. CASE ~(proc[q].buffer \subseteq proc[q].page_table)
    BY <1>7, <2>2 DEF Mmap
  <2> QED
    BY <2>1, <2>2
<1>8. CASE \E id \in ALL .. Mappings : Munmap(q, id)
  BY <1>1, <1>8 DEF Munmap
<1>9. CASE UnmapFree(q) \/ UnmapDone(q) \/ ExitUser(q)
  BY <1>1, <1>9 DEF UnmapFree, UnmapDone, ExitUser, SetPc
<1>10. CASE UnmapClear(q)
  BY <1>1, <1>10 DEF UnmapClear
<1>11. CASE PageFree(q)
  BY <1>1, <1>11 DEF PageFree
<1>12. CASE PagedirDestroy(q)
  BY <1>1, <1>12 DEF PagedirDestroy
<1> QED
  BY <1>2, <1>3, <1>4, <1>5, <1>6, <1>7, <1>8, <1>9, <1>10, <1>11, <1>12 DEF Step

(***************************************************************************)
(* A process that has found the pool empty scans for good, though others   *)
(* may free frames meanwhile, and keeps the lock of the frame table, which *)
(* a new frame needs to get into it: no entry ever becomes EVICTABLE       *)
(* (frame_alloc_evict in vm/frame.c).                                      *)
(***************************************************************************)
THEOREM ScanIsForGood ==
  VMSpec => [][\A p \in UserProcess : proc[p].pc = "scan" =>
                 proc'[p].pc = "scan" /\ frameTableLock' = p]_vmVars
<1> DEFINE Stays == \A p \in UserProcess : proc[p].pc = "scan" =>
                      proc'[p].pc = "scan" /\ frameTableLock' = p
<1>1. VMIInv /\ VMIInv' /\ [VMNext]_vmVars => [Stays]_vmVars
  <2> SUFFICES ASSUME VMIInv, VMIInv', NEW q \in UserProcess, Step(q),
                      NEW p \in UserProcess, proc[p].pc = "scan"
               PROVE  proc'[p].pc = "scan" /\ frameTableLock' = p
    BY DEF VMNext
  <2>1. proc'[p].pc = "scan"
    <3>1. CASE p = q
      <4>1. proc' = [proc EXCEPT ![p] = [proc[p] EXCEPT !.hand = (@ % Len(frameTable)) + 1]]
        BY <3>1, OnlyScanFromScan DEF Scan
      <4>2. proc \in [UserProcess -> ProcRecord]
        BY DEF VMIInv, VMTypeOK
      <4>3. proc[p] \in ProcRecord
        BY <4>2
      <4> QED
        BY <4>1, <4>2, <4>3 DEF ProcRecord
    <3>2. CASE p # q
      BY <3>2, StepIsLocal DEF VMIInv
    <3> QED
      BY <3>1, <3>2
  <2>2. (\A r \in UserProcess : proc[r].pc = "scan" => frameTableLock = r)'
    BY DEF VMIInv, Scanning
  <2> QED
    BY <2>1, <2>2
<1>2. VMSpec => [][VMNext]_vmVars
  BY DEF VMSpec
<1> QED
  BY <1>1, <1>2, VMInvariant, PTL

===============================================================================
