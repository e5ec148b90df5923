------------------------------ MODULE VirtualMemory -----------------------------
(***************************************************************************)
(* Virtual memory (vm/, page_fault, and the parts of load, process_exit    *)
(* and the system calls that touch the page table): pages of the           *)
(* executable that are read when first used, a stack that grows, mapped    *)
(* files, and the frames all of them take from the user pool.              *)
(*                                                                         *)
(* One step is one access to the user pool, to the frame table or to the   *)
(* page tables of a process.  An eviction scans for ever, see Pinned, so   *)
(* what would follow the scan, and swap space, are not modelled.           *)
(***************************************************************************)
EXTENDS Bitmap, Sequences

Seqs == INSTANCE SequencesExt

CONSTANTS
  UserProcess,
  SegmentPage,  \* pages of the executable
  StackPage,
  Top,          \* the stack page that load sets up
  Buffers,      \* bound: sets of pages that the buffer of a call is in
  FrameCount,   \* page frames in the user pool
  Mappings,     \* bound: calls of mmap in the life of a process
  Loads         \* bound: processes that are started

Page == SegmentPage \union StackPage
Frame == 0 .. FrameCount - 1
Nil == -1
Nobody == "nobody"
NoPage == "no page"
ALL == -1

ASSUME VirtualMemoryAssumption ==
  /\ IsFiniteSet(UserProcess) /\ Nobody \notin UserProcess
  /\ IsFiniteSet(Page) /\ NoPage \notin Page
  /\ SegmentPage \intersect StackPage = {} /\ Top \in StackPage
  /\ Buffers \subseteq SUBSET Page
  /\ FrameCount \in Nat
  /\ Mappings \in Nat /\ Loads \in Nat

VARIABLES
  pool,            \* used_map of user_pool
  frameTable,      \* frame_table
  frameTableLock,  \* frame_table_lock: its holder
  fsLock,          \* fs_lock: its holder
  proc,            \* the processes: place in the code, locals, page tables
  hist             \* history, see below

vmVars == <<pool, frameTable, frameTableLock, fsLock, proc, hist>>

(***************************************************************************)
(* flags are those of the struct page of the executable or of the stack    *)
(* while it exists.  A mapped file has one more for the same page, INVALID *)
(* and in mmap_file only.                                                  *)
(***************************************************************************)
Flag == {"EVICTABLE", "ON_SWAP", "INVALID"}

MmapFile == [page : Page, id : 0 .. Mappings]

ProcRecord ==
  [ pc : {"none", "user", "alloc", "evict", "scan", "push", "fill", "grow",
          "check", "transfer", "unmap", "clear", "destroy", "free"},
    call : {"none", "load", "io", "mmap", "exit"},
    page : Page \union {NoPage}, kpage : Frame \union {Nil}, hand : Nat,
    buffer : SUBSET Page, toCheck : SUBSET Page,
    page_table : SUBSET Page, flags : [Page -> SUBSET Flag],
    pagedir : [Page -> Frame \union {Nil}],
    mmap_file : Seq(MmapFile), unmapping : Seq(MmapFile),
    close : 0 .. Mappings, mapid : 0 .. Mappings ]

Idle ==
  [ pc |-> "none", call |-> "none", page |-> NoPage, kpage |-> Nil, hand |-> 0,
    buffer |-> {}, toCheck |-> {}, page_table |-> {}, flags |-> [vp \in Page |-> {}],
    pagedir |-> [vp \in Page |-> Nil], mmap_file |-> <<>>, unmapping |-> <<>>,
    close |-> 0, mapid |-> 0 ]

(***************************************************************************)
(* An entry of the frame table may outlive its page.  It points to a page  *)
(* that was freed (NoPage), or to one that was never freed though its      *)
(* process is gone (Nobody).                                               *)
(***************************************************************************)
Entry ==
  [ kpage : Frame, used_process : UserProcess \union {Nobody}, uvpage : Page \union {NoPage} ]

(***************************************************************************)
(* stale:  how often a frame is in the frame table for a page that is gone *)
(* halted: something undefined was done: _mmap closes one file for ever, or *)
(*         a scan reads a frame or a page that is not there                *)
(* loads:  processes started so far                                        *)
(***************************************************************************)
HistRecord == [ stale : [Frame -> Nat], halted : BOOLEAN, loads : 0 .. Loads ]

VMTypeOK ==
  /\ pool \subseteq Frame
  /\ frameTable \in Seq(Entry)
  /\ {frameTableLock, fsLock} \subseteq UserProcess \union {Nobody}
  /\ proc \in [UserProcess -> ProcRecord]
  /\ hist \in HistRecord

VMInit ==
  /\ pool = {} /\ frameTable = <<>>
  /\ frameTableLock = Nobody /\ fsLock = Nobody
  /\ proc = [p \in UserProcess |-> Idle]
  /\ hist = [stale |-> [k \in Frame |-> 0], halted |-> FALSE, loads |-> 0]

-------------------------------------------------------------------------------

PcIs(p, l) == ~hist.halted /\ proc[p].pc = l

SetPc(p, l) == proc' = [proc EXCEPT ![p] = [proc[p] EXCEPT !.pc = l]]

\* Back from a fault to the call in which it came, or to user mode.
Resume(r) ==
  [r EXCEPT !.page = NoPage, !.kpage = Nil,
            !.pc = IF r.call \in {"io", "mmap"} THEN "check" ELSE "user",
            !.call = IF r.call = "load" THEN "none" ELSE @]

\* Back to user mode.
BackToUser(r) == [r EXCEPT !.pc = "user", !.call = "none", !.buffer = {}, !.close = 0]

\* process_exit, which first unmaps everything.
Leave(r) ==
  [r EXCEPT !.pc = "unmap", !.call = "exit", !.page = NoPage, !.kpage = Nil,
            !.buffer = {}, !.toCheck = {}, !.unmapping = r.mmap_file, !.mmap_file = <<>>]

Unlock(lock, p) == IF lock = p THEN Nobody ELSE lock

-------------------------------------------------------------------------------
(***************************************************************************)
(* start_process and load: each page of the executable gets a struct page, *)
(* in page_table and in mmap_file, and the stack gets its first page.      *)
(***************************************************************************)
LoadPages(p) ==
  /\ PcIs(p, "none")
  /\ fsLock = Nobody
  /\ hist.loads < Loads
  /\ fsLock' = p
  /\ proc' = [proc EXCEPT ![p] = [proc[p] EXCEPT
       !.pc = "alloc", !.call = "load", !.page = Top,
       !.page_table = SegmentPage,
       !.flags = [vp \in Page |-> IF vp \in SegmentPage THEN {"EVICTABLE", "INVALID"} ELSE {}],
       !.mmap_file = Seqs!SetToSeq({ [page |-> vp, id |-> 0] : vp \in SegmentPage })]]
  /\ hist' = [hist EXCEPT !.loads = @ + 1]
  /\ UNCHANGED <<pool, frameTable, frameTableLock>>

(***************************************************************************)
(* page_fault for a page that is not present.  page_map_page takes away    *)
(* EVICTABLE; a page that is INVALID can be read, the stack can grow.      *)
(***************************************************************************)
Present(p, vp) == proc[p].pagedir[vp] # Nil

CanMap(p, vp) ==
  IF vp \in proc[p].page_table THEN "INVALID" \in proc[p].flags[vp] ELSE vp \in StackPage

\* Wrong on purpose: page_map_page leaves EVICTABLE set.
FaultUnpinned(p, vp) ==
  /\ CanMap(p, vp)
  /\ proc' = [proc EXCEPT ![p] = [proc[p] EXCEPT !.pc = "alloc", !.page = vp]]

Fault(p, vp) ==
  /\ CanMap(p, vp)
  /\ proc' = [proc EXCEPT ![p] = [proc[p] EXCEPT
       !.pc = "alloc", !.page = vp, !.flags[vp] = @ \ {"EVICTABLE"}]]

Access(p, vp) ==
  /\ PcIs(p, "user")
  /\ ~Present(p, vp)
  /\ Fault(p, vp)
  /\ UNCHANGED <<pool, frameTable, frameTableLock, fsLock, hist>>

(***************************************************************************)
(* frame_alloc_get_page.  frame_alloc_evict scans the frame table, with    *)
(* its lock held, for a page that is EVICTABLE.  If all frames have been   *)
(* freed before it has the lock, it takes the end of the list for a frame. *)
(***************************************************************************)
Alloc(p) ==
  LET k == ScanClear(pool, FrameCount, 1) IN
  /\ PcIs(p, "alloc")
  /\ IF k = BITMAP_ERROR
     THEN /\ SetPc(p, "evict")
          /\ UNCHANGED pool
     ELSE /\ pool' = ScanAndSet(pool, FrameCount, 1)
          /\ proc' = [proc EXCEPT ![p] = [proc[p] EXCEPT !.pc = "push", !.kpage = k]]
  /\ UNCHANGED <<frameTable, frameTableLock, fsLock, hist>>

Evict(p) ==
  /\ PcIs(p, "evict")
  /\ frameTableLock = Nobody
  /\ frameTableLock' = p
  /\ proc' = [proc EXCEPT ![p] = [proc[p] EXCEPT !.pc = "scan", !.hand = 1]]
  /\ hist' = [hist EXCEPT !.halted = frameTable = <<>>]
  /\ UNCHANGED <<pool, frameTable, fsLock>>

Evictable(e) ==
  /\ e.used_process # Nobody /\ e.uvpage # NoPage
  /\ "EVICTABLE" \in proc[e.used_process].flags[e.uvpage]

Scan(p) ==
  LET e == frameTable[proc[p].hand] IN
  /\ PcIs(p, "scan")
  /\ ~Evictable(e)
  /\ proc' = [proc EXCEPT ![p] = [proc[p] EXCEPT !.hand = (@ % Len(frameTable)) + 1]]
  /\ hist' = [hist EXCEPT !.halted = e.uvpage = NoPage]
  /\ UNCHANGED <<pool, frameTable, frameTableLock, fsLock>>

Push(p) ==
  /\ PcIs(p, "push")
  /\ frameTableLock = Nobody
  /\ frameTable' = Append(frameTable,
       [kpage |-> proc[p].kpage, used_process |-> p, uvpage |-> proc[p].page])
  /\ SetPc(p, IF proc[p].page \in StackPage THEN "grow" ELSE "fill")
  /\ UNCHANGED <<pool, frameTableLock, fsLock, hist>>

(***************************************************************************)
(* page_map_file reads the page under fs_lock and installs it, after which *)
(* page_fault leaves it no flag.  It fails if the file is too short.       *)
(***************************************************************************)
Fill(p) ==
  LET vp == proc[p].page
      r  == [proc[p] EXCEPT !.flags[vp] = {}] IN
  /\ PcIs(p, "fill")
  /\ fsLock = Nobody
  /\ \/ proc' = [proc EXCEPT ![p] = Resume([r EXCEPT !.pagedir[vp] = r.kpage])]
     \/ proc' = [proc EXCEPT ![p] = [r EXCEPT !.pc = "free"]]
  /\ UNCHANGED <<pool, frameTable, frameTableLock, fsLock, hist>>

\* page_user_stack, which install_page may refuse for want of memory; the end of load.
Grow(p) ==
  LET vp == proc[p].page IN
  /\ PcIs(p, "grow")
  /\ \/ /\ proc' = [proc EXCEPT ![p] = Resume([proc[p] EXCEPT
               !.pagedir[vp] = proc[p].kpage, !.flags[vp] = {"ON_SWAP"},
               !.page_table = @ \union {vp}])]
          /\ fsLock' = Unlock(fsLock, p)
     \/ SetPc(p, "free") /\ UNCHANGED fsLock
  /\ UNCHANGED <<pool, frameTable, frameTableLock, hist>>

(***************************************************************************)
(* frame_free_page: the first frame of the table with this address goes    *)
(* back to the pool.  What is left in the table for a page that is freed   *)
(* then points to nothing.                                                 *)
(***************************************************************************)
FreePage(table, p, vp) ==
  [i \in DOMAIN table |-> IF table[i].used_process = p /\ table[i].uvpage = vp
                          THEN [table[i] EXCEPT !.uvpage = NoPage] ELSE table[i]]

FirstEntry(k) ==
  LET found == { i \in DOMAIN frameTable : frameTable[i].kpage = k }
  IN  IF found = {} THEN Nil ELSE Min(found)

TableWithout(k) ==
  IF FirstEntry(k) = Nil THEN frameTable ELSE Seqs!RemoveAt(frameTable, FirstEntry(k))

PoolWithout(k) == IF FirstEntry(k) = Nil THEN pool ELSE pool \ {k}

\* Wrong on purpose: the frame goes back to the pool past the frame table.
FreePastTable(p) ==
  /\ PcIs(p, "free")
  /\ frameTableLock = Nobody
  /\ pool' = pool \ {proc[p].kpage}
  /\ proc' = [proc EXCEPT ![p] =
       IF @.call = "exit"
       THEN [proc[p] EXCEPT !.pc = "destroy", !.kpage = Nil, !.page = NoPage]
       ELSE Leave(@)]
  /\ fsLock' = Unlock(fsLock, p)
  /\ UNCHANGED <<frameTable, frameTableLock, hist>>

\* After a fault that failed, which ends the process, or in page_free.
Free(p) ==
  LET k == proc[p].kpage
      vp == proc[p].page IN
  /\ PcIs(p, "free")
  /\ frameTableLock = Nobody
  /\ pool' = PoolWithout(k)
  /\ frameTable' = IF vp \in StackPage THEN FreePage(TableWithout(k), p, vp)
                   ELSE TableWithout(k)
  /\ proc' = [proc EXCEPT ![p] =
       IF @.call = "exit"
       THEN [proc[p] EXCEPT !.pc = "destroy", !.kpage = Nil, !.page = NoPage]
       ELSE Leave(@)]
  /\ fsLock' = Unlock(fsLock, p)
  /\ UNCHANGED <<frameTableLock, hist>>

-------------------------------------------------------------------------------
(***************************************************************************)
(* read and write of a file, and mmap: check_valid_ptr reads each byte of  *)
(* the buffer.  A fault that fails ends the process; in the kernel, whether*)
(* it is an access to the stack is decided by an esp that was not saved.   *)
(***************************************************************************)
Call(p, call, buffer) ==
  /\ PcIs(p, "user")
  /\ call = "mmap" => Cardinality(buffer) = 1 /\ proc[p].mapid < Mappings
  /\ proc' = [proc EXCEPT ![p] = [proc[p] EXCEPT
       !.pc = "check", !.call = call, !.buffer = buffer, !.toCheck = buffer]]
  /\ UNCHANGED <<pool, frameTable, frameTableLock, fsLock, hist>>

\* Wrong on purpose: check_valid_ptr reads the first byte only.
CheckFirst(p) ==
  /\ PcIs(p, "check")
  /\ \E vp \in proc[p].toCheck :
       /\ proc[p].toCheck = proc[p].buffer
       /\ \/ Present(p, vp) /\ proc' = [proc EXCEPT ![p] = [proc[p] EXCEPT !.toCheck = {}]]
          \/ ~Present(p, vp) /\ Fault(p, vp)
          \/ /\ ~Present(p, vp)
             /\ CanMap(p, vp) => vp \in StackPage
             /\ proc' = [proc EXCEPT ![p] = Leave(@)]
  /\ UNCHANGED <<pool, frameTable, frameTableLock, fsLock, hist>>

Check(p) ==
  /\ PcIs(p, "check")
  /\ \E vp \in proc[p].toCheck :
       \/ Present(p, vp) /\ proc' = [proc EXCEPT ![p] = [proc[p] EXCEPT !.toCheck = @ \ {vp}]]
       \/ ~Present(p, vp) /\ Fault(p, vp)
       \/ /\ ~Present(p, vp)
          /\ CanMap(p, vp) => vp \in StackPage
          /\ proc' = [proc EXCEPT ![p] = Leave(@)]
  /\ UNCHANGED <<pool, frameTable, frameTableLock, fsLock, hist>>

Checked(p, call) == PcIs(p, "check") /\ proc[p].toCheck = {} /\ proc[p].call = call

Transfer(p) ==
  /\ Checked(p, "io")
  /\ fsLock = Nobody
  /\ fsLock' = p
  /\ SetPc(p, "transfer")
  /\ UNCHANGED <<pool, frameTable, frameTableLock, hist>>

TransferDone(p) ==
  /\ PcIs(p, "transfer")
  /\ fsLock' = Nobody
  /\ proc' = [proc EXCEPT ![p] = BackToUser(@)]
  /\ UNCHANGED <<pool, frameTable, frameTableLock, hist>>

(***************************************************************************)
(* _mmap takes what hash_insert returns, the page that was there before,   *)
(* for success: it ends after one page if there is one, and never if there *)
(* is none.                                                                *)
(***************************************************************************)
Mmap(p) ==
  LET id == proc[p].mapid + 1 IN
  /\ Checked(p, "mmap")
  /\ fsLock = Nobody
  /\ IF proc[p].buffer \subseteq proc[p].page_table
     THEN /\ \E vp \in proc[p].buffer :
               proc' = [proc EXCEPT ![p] = BackToUser([proc[p] EXCEPT
                 !.mapid = id, !.mmap_file = Append(@, [page |-> vp, id |-> id])])]
          /\ UNCHANGED hist
     ELSE /\ hist' = [hist EXCEPT !.halted = TRUE]
          /\ UNCHANGED proc
  /\ UNCHANGED <<pool, frameTable, frameTableLock, fsLock>>

-------------------------------------------------------------------------------
(***************************************************************************)
(* process_munmap_file, of one file, of the executable (0) or of all (-1). *)
(* A page that is not INVALID gives its frame back.                        *)
(***************************************************************************)
Selected(files, ids) ==
  LET kept[n \in 0 .. Len(files)] ==
        IF n = 0 THEN <<>>
        ELSE IF files[n].id \in ids THEN Append(kept[n - 1], files[n]) ELSE kept[n - 1]
  IN  kept[Len(files)]

Munmap(p, id) ==
  LET files == proc[p].mmap_file
      ids   == IF id = ALL THEN 0 .. Mappings ELSE {id} IN
  /\ PcIs(p, "user")
  /\ \E k \in DOMAIN files : files[k].id \in ids
  /\ proc' = [proc EXCEPT ![p] = [proc[p] EXCEPT
       !.pc = "unmap", !.unmapping = Selected(files, ids),
       !.mmap_file = Selected(files, (0 .. Mappings) \ ids)]]
  /\ UNCHANGED <<pool, frameTable, frameTableLock, fsLock, hist>>

\* Whether the page to unmap next has been read.
Valid(p) ==
  LET m == Head(proc[p].unmapping) IN m.id = 0 /\ "INVALID" \notin proc[p].flags[m.page]

UnmapFree(p) ==
  /\ PcIs(p, "unmap")
  /\ proc[p].unmapping # <<>> /\ Valid(p)
  /\ frameTableLock = Nobody
  /\ LET k == proc[p].pagedir[Head(proc[p].unmapping).page]
     IN  pool' = PoolWithout(k) /\ frameTable' = TableWithout(k)
  /\ SetPc(p, "clear")
  /\ UNCHANGED <<frameTableLock, fsLock, hist>>

\* hash_delete finds the page by its address; the file that was unmapped before
\* this one is closed.
UnmapClear(p) ==
  LET m == Head(proc[p].unmapping) IN
  /\ \/ PcIs(p, "clear")
     \/ PcIs(p, "unmap") /\ proc[p].unmapping # <<>> /\ ~Valid(p)
  /\ proc[p].close \in {0, m.id} \/ fsLock = Nobody
  /\ proc' = [proc EXCEPT ![p] = [proc[p] EXCEPT
       !.pc = "unmap", !.unmapping = Tail(@), !.close = m.id,
       !.page_table = @ \ {m.page},
       !.pagedir[m.page] = IF proc[p].pc = "clear" THEN Nil ELSE @,
       !.flags[m.page] = IF m.id = 0 THEN {} ELSE @]]
  /\ frameTable' = IF m.id = 0 THEN FreePage(frameTable, p, m.page) ELSE frameTable
  /\ UNCHANGED <<pool, frameTableLock, fsLock, hist>>

UnmapDone(p) ==
  /\ PcIs(p, "unmap")
  /\ proc[p].unmapping = <<>>
  /\ proc' = [proc EXCEPT ![p] =
       IF @.call = "exit" THEN [proc[p] EXCEPT !.pc = "destroy", !.close = 0]
       ELSE BackToUser(@)]
  /\ UNCHANGED <<pool, frameTable, frameTableLock, fsLock, hist>>

\* exit, or a fault that kills.
ExitUser(p) ==
  /\ PcIs(p, "user")
  /\ proc' = [proc EXCEPT ![p] = Leave(@)]
  /\ UNCHANGED <<pool, frameTable, frameTableLock, fsLock, hist>>

\* page_table_destory: page_free of each page, cleared first.
PageFree(p) ==
  /\ PcIs(p, "destroy")
  /\ \E vp \in proc[p].page_table :
       proc' = [proc EXCEPT ![p] = [proc[p] EXCEPT
         !.pc = "free", !.page = vp, !.kpage = proc[p].pagedir[vp], !.pagedir[vp] = Nil,
         !.page_table = @ \ {vp}, !.flags[vp] = {}]]
  /\ UNCHANGED <<pool, frameTable, frameTableLock, fsLock, hist>>

\* Wrong on purpose: pagedir_destroy does not free what is still mapped.
PagedirDestroyKeeping(p) ==
  /\ PcIs(p, "destroy")
  /\ proc[p].page_table = {}
  /\ proc' = [proc EXCEPT ![p] = Idle]
  /\ UNCHANGED <<pool, frameTable, frameTableLock, fsLock, hist>>

\* pagedir_destroy frees what is still mapped, past the frame table.
PagedirDestroy(p) ==
  LET mapped == { proc[p].pagedir[vp] : vp \in Page } \ {Nil} IN
  /\ PcIs(p, "destroy")
  /\ proc[p].page_table = {}
  /\ pool' = pool \ mapped
  /\ proc' = [proc EXCEPT ![p] = Idle]
  /\ frameTable' = [i \in DOMAIN frameTable |->
       IF frameTable[i].used_process = p
       THEN [frameTable[i] EXCEPT !.used_process = Nobody] ELSE frameTable[i]]
  /\ hist' = [hist EXCEPT !.stale =
       [k \in Frame |-> IF k \in mapped THEN @[k] + 1 ELSE @[k]]]
  /\ UNCHANGED <<frameTableLock, fsLock>>

Step(p) ==
  \/ LoadPages(p) \/ Alloc(p) \/ Evict(p) \/ Scan(p) \/ Push(p) \/ Fill(p) \/ Grow(p) \/ Free(p)
  \/ \E vp \in Page : Access(p, vp)
  \/ \E call \in {"io", "mmap"}, buffer \in Buffers : Call(p, call, buffer)
  \/ Check(p) \/ Transfer(p) \/ TransferDone(p) \/ Mmap(p)
  \/ \E id \in ALL .. Mappings : Munmap(p, id)
  \/ UnmapFree(p) \/ UnmapClear(p) \/ UnmapDone(p)
  \/ ExitUser(p) \/ PageFree(p) \/ PagedirDestroy(p)

VMNext == \E p \in UserProcess : Step(p)

VMSpec == VMInit /\ [][VMNext]_vmVars

\* A process in the kernel goes on as long as it can: the timer shares the CPU.
FairVMSpec == VMSpec /\ \A p \in UserProcess : WF_vmVars(proc[p].pc # "user" /\ Step(p))

-------------------------------------------------------------------------------
(***************************************************************************)
(* The frame that a process, given its record, has for a page, or for the  *)
(* call in which it is (under NoPage).  A page that is being unmapped has  *)
(* lost its frame though page tables still show it.                        *)
(***************************************************************************)
Slots == Page \union {NoPage}

Held(r, x) ==
  IF x = NoPage THEN r.kpage
  ELSE IF r.pc = "clear" /\ Head(r.unmapping).page = x THEN Nil
  ELSE r.pagedir[x]

Holders(k) == { h \in UserProcess \X Slots : Held(proc[h[1]], h[2]) = k }

(***************************************************************************)
(* A frame has at most one user, and is free exactly if it has none: no    *)
(* process sees the memory of another, nothing is freed twice, and a       *)
(* process that is gone has left nothing behind.                           *)
(***************************************************************************)
FramesExact ==
  /\ VMTypeOK
  /\ \A k \in Frame : /\ Cardinality(Holders(k)) <= 1
                      /\ k \in pool <=> Holders(k) # {}

(***************************************************************************)
(* Every frame in use is once in the frame table, and what else is there   *)
(* was left by an exit after munmap had taken a stack page out of          *)
(* page_table: frame_free_page never takes away the wrong count.           *)
(***************************************************************************)
TableExact ==
  \A k \in Frame :
    Cardinality({ i \in DOMAIN frameTable : frameTable[i].kpage = k })
      = hist.stale[k] + (IF \E h \in Holders(k) : proc[h[1]].pc # "push" \/ h[2] # NoPage
                         THEN 1 ELSE 0)

(***************************************************************************)
(* No page that has a frame is EVICTABLE, so no frame is taken while it is *)
(* filled or read from, and nothing comes from or goes to swap space.      *)
(***************************************************************************)
Pinned ==
  /\ \A i \in DOMAIN frameTable : ~Evictable(frameTable[i])
  /\ \A p \in UserProcess, vp \in Page : ~({"INVALID", "ON_SWAP"} \subseteq proc[p].flags[vp])

(***************************************************************************)
(* The buffer of a call that holds fs_lock is present: a fault would take  *)
(* fs_lock again (page.c:92), which lock_acquire does not allow.           *)
(***************************************************************************)
NoFaultUnderLock ==
  \A p \in UserProcess : proc[p].pc = "transfer" => \A vp \in proc[p].buffer : Present(p, vp)

(***************************************************************************)
(* "Free a frame in frame table" (frame.c:57): a scan comes to an end.     *)
(***************************************************************************)
EvictionEnds == \A p \in UserProcess : proc[p].pc = "scan" ~> proc[p].pc # "scan"

(***************************************************************************)
(* "Each entry in the frame table contains a pointer to the page, if any,  *)
(* that currently occupies it." (frame.h:9)                                *)
(***************************************************************************)
EntriesCurrent ==
  \A i \in DOMAIN frameTable :
    LET e == frameTable[i] IN
    /\ e.used_process # Nobody /\ e.uvpage # NoPage
    /\ e.kpage \in {proc[e.used_process].kpage, proc[e.used_process].pagedir[e.uvpage]}

================================================================================
