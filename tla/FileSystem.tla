------------------------------- MODULE FileSystem -------------------------------
(***************************************************************************)
(* The file system (filesys/) under the system calls create, open, write,  *)
(* close and remove, and under processes that load, run and exit.  System  *)
(* calls and load hold fs_lock; process_exit closes the files of a process *)
(* without it.  One step is one write to the disk, or one access to the    *)
(* open inodes that others may come in between; where two processes may be *)
(* at the same list or count at once, the step Meet says so.  A crash may  *)
(* come between any two steps, and the kernel then starts again from the   *)
(* disk.                                                                   *)
(*                                                                         *)
(* The free map on disk takes one sector, which one write replaces.  A     *)
(* failed call that has changed nothing is not a step.                     *)
(***************************************************************************)
EXTENDS Bitmap, Sequences

Seqs == INSTANCE SequencesExt

CONSTANTS
  Process,
  Name,         \* of files
  SectorCount,  \* of the file system device
  DirEntries,   \* entries in the root directory, which does not grow
  FileSectors,  \* bound: sectors of data that a file is created with
  InodeCount,   \* bound: inodes that are in memory at a time
  OpenFiles,    \* bound: files that a process has open
  Creations     \* bound: calls of create

Sector == 0 .. SectorCount - 1
FREE_MAP_SECTOR == 0
ROOT_DIR_SECTOR == 1
Reserved == {FREE_MAP_SECTOR, ROOT_DIR_SECTOR}

Inode == 1 .. InodeCount
Nil == 0
Nobody == "nobody"
NoName == "no name"

ASSUME FileSystemAssumption ==
  /\ IsFiniteSet(Process) /\ Nobody \notin Process /\ NoName \notin Name
  /\ SectorCount \in Nat /\ DirEntries \in Nat /\ InodeCount \in Nat
  /\ OpenFiles \in Nat /\ Creations \in Nat /\ FileSectors \subseteq Nat
  /\ Reserved \subseteq Sector

VARIABLES
  disk,     \* what is on the device: free map, root directory, inodes
  freeMap,  \* free_map, the bitmap in memory
  inode,    \* struct inode
  proc,     \* the processes: place in the code, locals, open files, executable
  fsLock,   \* fs_lock: its holder
  hist      \* history, see below

vars == <<disk, freeMap, inode, proc, fsLock, hist>>

(***************************************************************************)
(* An inode in memory is "listed" while a walk over open_inodes comes to   *)
(* it, and "live" until nobody can find it or needs its sectors any more.  *)
(***************************************************************************)
InodeRecord ==
  [ sector : Sector, data : SUBSET Sector, open_cnt : Int,
    deny_write_cnt : Int, removed : BOOLEAN, listed : BOOLEAN, live : BOOLEAN ]

Freed ==
  [ sector |-> 0, data |-> {}, open_cnt |-> 0, deny_write_cnt |-> 0,
    removed |-> FALSE, listed |-> FALSE, live |-> FALSE ]

Pc == {"none", "user", "exit",
       "search", "found", "loading",
       "drop", "unlink", "unlink_prev", "release_inode", "release_data",
       "create_data", "create_write", "create_add", "create_undo"}

ProcRecord ==
  [ pc : Pc, call : {"none", "create", "open", "remove", "load", "close", "exit"},
    name : Name \union {NoName}, sector : Sector, data : SUBSET Sector,
    inode : Inode \union {Nil},
    opened_files : UNION { [1 .. n -> Inode] : n \in 0 .. OpenFiles },
    executable : Inode \union {Nil} ]

Idle == [ pc |-> "none", call |-> "none", name |-> NoName, sector |-> 0,
          data |-> {}, inode |-> Nil, opened_files |-> <<>>, executable |-> Nil ]

(***************************************************************************)
(* raced:     two processes have met at open_inodes, at a count or at an   *)
(*            inode on its way out: what follows is not modelled           *)
(* halfOut:   processes between the two stores of list_remove since before *)
(*            the root directory was opened for the call that has fs_lock  *)
(* lost:      sectors that a failed create or a crash left marked          *)
(* stranded:  the inode that a failed load has left open                   *)
(* clobbered: processes whose executable was written while they ran        *)
(* creations: calls of create so far                                       *)
(***************************************************************************)
HistRecord ==
  [ raced : BOOLEAN, halfOut : SUBSET Process, lost : SUBSET Sector, stranded : Inode \union {Nil},
    clobbered : SUBSET Process, creations : 0 .. Creations ]

TypeOK ==
  /\ disk \in [ map : SUBSET Sector, dir : SUBSET [name : Name, sector : Sector],
                inode : [Sector -> SUBSET Sector] ]
  /\ freeMap \subseteq Sector
  /\ inode \in [Inode -> InodeRecord]
  /\ proc \in [Process -> ProcRecord]
  /\ fsLock \in Process \union {Nobody}
  /\ hist \in HistRecord

(***************************************************************************)
(* A formatted disk with one file, and no process yet.                     *)
(***************************************************************************)
Init ==
  /\ \E n \in Name, size \in FileSectors :
       LET data == Bits(3, size)
       IN  /\ {2} \union data \subseteq Sector
           /\ disk = [ map   |-> Reserved \union {2} \union data,
                       dir   |-> {[name |-> n, sector |-> 2]},
                       inode |-> [s \in Sector |-> IF s = 2 THEN data ELSE {}] ]
           /\ freeMap = Reserved \union {2} \union data
  /\ inode = [i \in Inode |-> Freed]
  /\ proc = [p \in Process |-> Idle]
  /\ fsLock = Nobody
  /\ hist = [ raced |-> FALSE, halfOut |-> {}, lost |-> {}, stranded |-> Nil, clobbered |-> {},
             creations |-> 0 ]

-------------------------------------------------------------------------------

At(p, l) == ~hist.raced /\ proc[p].pc = l

Goto(p, l) == proc' = [proc EXCEPT ![p] = [@ EXCEPT !.pc = l]]

Forget(r, l) ==
  [r EXCEPT !.pc = l, !.call = IF l = "exit" THEN "exit" ELSE "none", !.name = NoName,
            !.sector = 0, !.data = {}, !.inode = Nil]

\* Back to user mode, or to the loop of process_exit.
Return(p) ==
  /\ proc' = [proc EXCEPT ![p] = Forget(@, IF @.call = "exit" THEN "exit" ELSE "user")]
  /\ fsLock' = IF fsLock = p THEN Nobody ELSE fsLock

-------------------------------------------------------------------------------
(***************************************************************************)
(* The free map, changed in memory and on disk.  bitmap_write is taken to  *)
(* succeed; if it fails an allocation is undone, and a release is not.     *)
(***************************************************************************)
FreeMapAllocate(cnt) == ScanAndSet(freeMap, SectorCount, cnt)

Allocate(cnt) ==
  /\ ScanClear(freeMap, SectorCount, cnt) # BITMAP_ERROR
  /\ freeMap' = FreeMapAllocate(cnt)
  /\ disk' = [disk EXCEPT !.map = FreeMapAllocate(cnt)]

\* What is left in a sector that is free does not matter.
Release(sectors) ==
  /\ freeMap' = freeMap \ sectors
  /\ disk' = [disk EXCEPT
       !.map = freeMap \ sectors,
       !.inode = [s \in Sector |-> IF s \in sectors THEN {} ELSE @[s]]]

(***************************************************************************)
(* filesys_create: a sector for the inode, sectors for the data, the inode *)
(* and zeros, the directory entry.  Each but the first can fail, and only  *)
(* the sector of the inode is then given back.                             *)
(***************************************************************************)
Create(p, n) ==
  /\ At(p, "user")
  /\ fsLock = Nobody
  /\ hist.creations < Creations
  /\ Allocate(1)
  /\ fsLock' = p
  /\ proc' = [proc EXCEPT ![p] = [@ EXCEPT
       !.pc = "create_data", !.call = "create", !.name = n,
       !.sector = ScanClear(freeMap, SectorCount, 1)]]
  /\ hist' = [hist EXCEPT !.creations = @ + 1]
  /\ UNCHANGED inode

CreateData(p) ==
  /\ At(p, "create_data")
  /\ \/ \E cnt \in FileSectors :
          /\ Allocate(cnt)
          /\ proc' = [proc EXCEPT ![p] = [@ EXCEPT
               !.pc = "create_write",
               !.data = Bits(ScanClear(freeMap, SectorCount, cnt), cnt)]]
     \/ Goto(p, "create_undo") /\ UNCHANGED <<disk, freeMap>>
  /\ UNCHANGED <<inode, fsLock, hist>>

\* The processes that run from one of these sectors.
RunsFrom(sectors) ==
  { q \in Process : /\ proc[q].executable # Nil
                    /\ inode[proc[q].executable].data \intersect sectors # {} }

CreateWrite(p) ==
  /\ At(p, "create_write")
  /\ disk' = [disk EXCEPT !.inode[proc[p].sector] = proc[p].data]
  /\ Goto(p, "create_add")
  /\ hist' = [hist EXCEPT !.clobbered = @ \union RunsFrom(proc[p].data)]
  /\ UNCHANGED <<freeMap, inode, fsLock>>

\* dir_add.
InUse(n) == \E e \in disk.dir : e.name = n

\* Wrong on purpose: dir_add without the lookup.
CreateAddUnchecked(p) ==
  /\ At(p, "create_add")
  /\ IF Cardinality(disk.dir) = DirEntries
     THEN Goto(p, "create_undo") /\ UNCHANGED <<disk, fsLock>>
     ELSE /\ disk' = [disk EXCEPT
               !.dir = @ \union {[name |-> proc[p].name, sector |-> proc[p].sector]}]
          /\ Return(p)
  /\ UNCHANGED <<freeMap, inode, hist>>

CreateAdd(p) ==
  /\ At(p, "create_add")
  /\ IF InUse(proc[p].name) \/ Cardinality(disk.dir) = DirEntries
     THEN /\ Goto(p, "create_undo")
          /\ UNCHANGED <<disk, fsLock>>
     ELSE /\ disk' = [disk EXCEPT
               !.dir = @ \union {[name |-> proc[p].name, sector |-> proc[p].sector]}]
          /\ Return(p)
  /\ UNCHANGED <<freeMap, inode, hist>>

CreateUndo(p) ==
  /\ At(p, "create_undo")
  /\ Release({proc[p].sector})
  /\ Return(p)
  /\ hist' = [hist EXCEPT !.lost = @ \union proc[p].data]
  /\ UNCHANGED <<inode>>

-------------------------------------------------------------------------------
(***************************************************************************)
(* filesys_open for open and load, and dir_remove: the entry of the name   *)
(* is looked up in the root directory, whose inode is put in front of      *)
(* open_inodes, and inode_open walks over the list for the sector.         *)
(***************************************************************************)
Find(p, call, n) ==
  /\ fsLock = Nobody
  /\ \E e \in disk.dir :
       /\ e.name = n
       /\ proc' = [proc EXCEPT ![p] = [@ EXCEPT
            !.pc = "search", !.call = call, !.sector = e.sector]]
  /\ fsLock' = p
  /\ hist' = [hist EXCEPT !.halfOut = { q \in Process : proc[q].pc = "unlink_prev" }]
  /\ UNCHANGED <<disk, freeMap, inode>>

\* The walk is over.
Search(p) ==
  /\ At(p, "search")
  /\ \E i \in Inode \union {Nil} :
       /\ IF i = Nil
          THEN \A k \in Inode : inode[k].listed => inode[k].sector # proc[p].sector
          ELSE inode[i].listed /\ inode[i].sector = proc[p].sector
       /\ proc' = [proc EXCEPT ![p] = [@ EXCEPT
            !.pc = "found", !.inode = i,
            !.sector = IF i = Nil THEN proc[p].sector ELSE 0]]
  /\ UNCHANGED <<disk, freeMap, inode, fsLock, hist>>

Open(p, n) ==
  At(p, "user") /\ Len(proc[p].opened_files) < OpenFiles /\ Find(p, "open", n)

Remove(p, n) == At(p, "user") /\ Find(p, "remove", n)

Load(p, n) == At(p, "none") /\ Find(p, "load", n)

Referenced ==
  UNION { {proc[p].inode, proc[p].executable}
            \union {proc[p].opened_files[k] : k \in DOMAIN proc[p].opened_files}
        : p \in Process }

\* An inode in memory that is on its way out, or gone, because a process that
\* exits has closed it for the last time.
Dying(i) == inode[i].open_cnt = 0

(***************************************************************************)
(* inode_open: one more reference to the inode that was found, or a new    *)
(* inode read from disk; dir_remove marks it as well.  If the one that was *)
(* found is dying it will be freed under its new user, and the model       *)
(* stops.  So it does if an inode was taken from the front before the call *)
(* and is half out of the list still: the head skips what is put in front  *)
(* of it, the root directory's inode and the new one.                      *)
(***************************************************************************)
InodeOpen(p, i) ==
  LET removes == proc[p].call = "remove" IN
  IF proc[p].inode # Nil
  THEN /\ i = proc[p].inode
       /\ inode' = [inode EXCEPT ![i] = [@ EXCEPT
            !.open_cnt = inode[i].open_cnt + 1, !.removed = inode[i].removed \/ removes]]
       /\ hist' = [hist EXCEPT !.raced = Dying(i)]
  ELSE LET unused == { k \in Inode : ~inode[k].live /\ k \notin Referenced }
       IN  /\ unused # {}
           /\ i = Min(unused)
           /\ \E missed \in {FALSE, hist.halfOut # {}} :
                /\ inode' = [inode EXCEPT ![i] =
                     [ sector |-> proc[p].sector, data |-> disk.inode[proc[p].sector],
                       open_cnt |-> 1, deny_write_cnt |-> 0, removed |-> removes,
                       listed |-> ~missed, live |-> TRUE ]]
                /\ hist' = [hist EXCEPT !.raced = missed]

\* file_open and process_add_openfile; without memory the inode is closed.
OpenFile(p) ==
  /\ At(p, "found") /\ proc[p].call = "open"
  /\ \E i \in Inode :
       /\ InodeOpen(p, i)
       /\ \/ /\ proc' = [proc EXCEPT ![p] =
                  [Forget(@, "user") EXCEPT !.opened_files = Append(proc[p].opened_files, i)]]
             /\ fsLock' = Nobody
          \/ /\ proc' = [proc EXCEPT ![p] = [@ EXCEPT
                  !.pc = "drop", !.sector = 0, !.inode = i]]
             /\ UNCHANGED fsLock
  /\ UNCHANGED <<disk, freeMap>>

\* load opens the executable; it has much to read before it is done.
LoadOpen(p) ==
  /\ At(p, "found") /\ proc[p].call = "load"
  /\ \E i \in Inode :
       /\ InodeOpen(p, i)
       /\ proc' = [proc EXCEPT ![p] = [@ EXCEPT !.pc = "loading", !.sector = 0, !.inode = i]]
  /\ UNCHANGED <<disk, freeMap, fsLock>>

\* The executable has been read; file_deny_write comes before the stack is set up.
LoadDone(p) ==
  /\ At(p, "loading")
  /\ inode' = [inode EXCEPT ![proc[p].inode].deny_write_cnt = @ + 1]
  /\ proc' = [proc EXCEPT ![p] = [Forget(@, "user") EXCEPT !.executable = proc[p].inode]]
  /\ fsLock' = Nobody
  /\ UNCHANGED <<disk, freeMap, hist>>

\* A load that fails leaves the file open; the process exits.  Bound: one such
\* load between two starts of the kernel.
LoadFails(p) ==
  /\ At(p, "loading")
  /\ hist.stranded = Nil
  /\ proc' = [proc EXCEPT ![p] = Forget(@, "exit")]
  /\ hist' = [hist EXCEPT !.stranded = proc[p].inode]
  /\ fsLock' = Nobody
  /\ UNCHANGED <<disk, freeMap, inode>>

\* dir_remove opens the inode, erases the entry and marks the inode, which it
\* closes next.
RemoveErase(p) ==
  /\ At(p, "found") /\ proc[p].call = "remove"
  /\ \E i \in Inode :
       /\ InodeOpen(p, i)
       /\ disk' = [disk EXCEPT !.dir = { e \in @ : e.sector # inode'[i].sector }]
       /\ proc' = [proc EXCEPT ![p] = [@ EXCEPT !.pc = "drop", !.sector = 0, !.inode = i]]
  /\ UNCHANGED <<freeMap, fsLock>>

-------------------------------------------------------------------------------
\* file_write, which inode_write_at refuses while somebody denies it.
Write(p, k) ==
  LET i == proc[p].opened_files[k] IN
  /\ At(p, "user")
  /\ fsLock = Nobody
  /\ inode[i].deny_write_cnt = 0
  /\ hist' = [hist EXCEPT !.clobbered = @ \union RunsFrom(inode[i].data)]
  /\ UNCHANGED <<disk, freeMap, inode, proc, fsLock>>

\* _close takes fs_lock.
Close(p, k) ==
  /\ At(p, "user")
  /\ fsLock = Nobody
  /\ fsLock' = p
  /\ proc' = [proc EXCEPT ![p] = [@ EXCEPT
       !.pc = "drop", !.call = "close", !.inode = proc[p].opened_files[k],
       !.opened_files = Seqs!RemoveAt(proc[p].opened_files, k)]]
  /\ UNCHANGED <<disk, freeMap, inode, hist>>

\* process_exit does not.
Exit(p) ==
  /\ At(p, "user")
  /\ proc' = [proc EXCEPT ![p] = Forget(@, "exit")]
  /\ UNCHANGED <<disk, freeMap, inode, fsLock, hist>>

ExitFile(p) ==
  /\ At(p, "exit")
  /\ proc[p].opened_files # <<>>
  /\ proc' = [proc EXCEPT ![p] = [@ EXCEPT
       !.pc = "drop", !.inode = Head(proc[p].opened_files), !.opened_files = Tail(proc[p].opened_files)]]
  /\ UNCHANGED <<disk, freeMap, inode, fsLock, hist>>

\* Wrong on purpose: the executable is closed with writes still denied.
ExitExecutableDenying(p) ==
  LET i == proc[p].executable IN
  /\ At(p, "exit")
  /\ proc[p].opened_files = <<>> /\ i # Nil
  /\ proc' = [proc EXCEPT ![p] = [@ EXCEPT !.pc = "drop", !.inode = i, !.executable = Nil]]
  /\ UNCHANGED <<disk, freeMap, inode, fsLock, hist>>

\* file_allow_write on the executable, which is closed next.
ExitExecutable(p) ==
  LET i == proc[p].executable IN
  /\ At(p, "exit")
  /\ proc[p].opened_files = <<>> /\ i # Nil
  /\ inode' = [inode EXCEPT ![i].deny_write_cnt = @ - 1]
  /\ proc' = [proc EXCEPT ![p] = [@ EXCEPT !.pc = "drop", !.inode = i, !.executable = Nil]]
  /\ UNCHANGED <<disk, freeMap, fsLock, hist>>

ExitDone(p) ==
  /\ At(p, "exit")
  /\ proc[p].opened_files = <<>> /\ proc[p].executable = Nil
  /\ proc' = [proc EXCEPT ![p] = Idle]
  /\ UNCHANGED <<disk, freeMap, inode, fsLock, hist>>

(***************************************************************************)
(* inode_close: the count, then open_inodes, then the sectors of a removed *)
(* inode.                                                                  *)
(***************************************************************************)
\* Wrong on purpose: every close is taken for the last.
DropAlways(p) ==
  LET i == proc[p].inode IN
  /\ At(p, "drop")
  /\ inode' = [inode EXCEPT ![i].open_cnt = @ - 1]
  /\ Goto(p, "unlink")
  /\ UNCHANGED <<disk, freeMap, fsLock, hist>>

Drop(p) ==
  LET i == proc[p].inode IN
  /\ At(p, "drop")
  /\ inode' = [inode EXCEPT ![i].open_cnt = @ - 1]
  /\ IF inode[i].open_cnt = 1
     THEN Goto(p, "unlink") /\ UNCHANGED fsLock
     ELSE Return(p)
  /\ UNCHANGED <<disk, freeMap, hist>>

\* Wrong on purpose: the sectors of a removed inode are not released.
UnlinkOnly(p) ==
  /\ At(p, "unlink")
  /\ inode' = [inode EXCEPT ![proc[p].inode] = Freed]
  /\ Return(p)
  /\ UNCHANGED <<disk, freeMap, hist>>

\* The first store of list_remove takes the inode out of every walk.
Unlink(p) ==
  LET i == proc[p].inode IN
  /\ At(p, "unlink")
  /\ inode' = [inode EXCEPT ![i] =
       IF inode[i].removed THEN [@ EXCEPT !.listed = FALSE] ELSE Freed]
  /\ Goto(p, "unlink_prev")
  /\ UNCHANGED <<disk, freeMap, fsLock, hist>>

\* The second; what is not removed is freed.
UnlinkDone(p) ==
  /\ At(p, "unlink_prev")
  /\ IF inode[proc[p].inode].removed
     THEN Goto(p, "release_inode") /\ UNCHANGED fsLock
     ELSE Return(p)
  /\ hist' = [hist EXCEPT !.halfOut = @ \ {p}]
  /\ UNCHANGED <<disk, freeMap, inode>>

ReleaseInode(p) ==
  /\ At(p, "release_inode")
  /\ Release({inode[proc[p].inode].sector})
  /\ Goto(p, "release_data")
  /\ UNCHANGED <<inode, fsLock, hist>>

ReleaseData(p) ==
  LET i == proc[p].inode IN
  /\ At(p, "release_data")
  /\ Release(inode[i].data)
  /\ inode' = [inode EXCEPT ![i] = Freed]
  /\ Return(p)
  /\ UNCHANGED hist

-------------------------------------------------------------------------------
(***************************************************************************)
(* process_exit holds no fs_lock when it closes a file.  So it may be      *)
(* between the loads and stores of list_remove while another process is in *)
(* one, or has fs_lock and walks over open_inodes or changes it (besides   *)
(* the inode of the call there is the root directory's, which comes and    *)
(* goes); and it may change a count of an inode while another does.        *)
(***************************************************************************)
Unlinking(p) == proc[p].pc \in {"unlink", "unlink_prev"}

AtExecutable(p, i) ==
  \/ proc[p].pc = "loading" /\ proc[p].inode = i
  \/ proc[p].pc = "exit" /\ proc[p].opened_files = <<>> /\ proc[p].executable = i

AtOnce(p, q) ==
  \/ Unlinking(p) /\ (Unlinking(q) \/ (fsLock = q /\ proc[q].pc # "loading"))
  \/ \E i \in Inode : \/ /\ proc[p].pc = "drop" /\ proc[p].inode = i
                         /\ proc[q].pc \in {"found", "drop"} /\ proc[q].inode = i
                      \/ AtExecutable(p, i) /\ AtExecutable(q, i)

\* One of them is preempted there by the other.
Meet ==
  /\ ~hist.raced
  /\ \E p, q \in Process : p # q /\ AtOnce(p, q)
  /\ hist' = [hist EXCEPT !.raced = TRUE]
  /\ UNCHANGED <<disk, freeMap, inode, proc, fsLock>>

-------------------------------------------------------------------------------

Sectors(e) == {e.sector} \union disk.inode[e.sector]

Filed == UNION { Sectors(e) : e \in disk.dir }

\* Power fails; the kernel starts again without formatting.  What is left in a
\* sector that no entry names does not matter.
Crash ==
  /\ ~hist.raced
  /\ freeMap' = disk.map
  /\ disk' = [disk EXCEPT !.inode =
       [s \in Sector |-> IF \E e \in disk.dir : e.sector = s THEN disk.inode[s] ELSE {}]]
  /\ inode' = [i \in Inode |-> Freed]
  /\ proc' = [p \in Process |-> Idle]
  /\ fsLock' = Nobody
  /\ hist' = [ raced |-> FALSE, halfOut |-> {}, lost |-> disk.map \ (Reserved \union Filed),
               stranded |-> Nil, clobbered |-> {},
               creations |-> hist.creations ]

Next ==
  \/ Crash
  \/ Meet
  \/ \E p \in Process :
       \/ \E n \in Name : Create(p, n) \/ Open(p, n) \/ Remove(p, n) \/ Load(p, n)
       \/ Search(p)
       \/ CreateData(p) \/ CreateWrite(p) \/ CreateAdd(p) \/ CreateUndo(p)
       \/ OpenFile(p) \/ LoadOpen(p) \/ LoadDone(p) \/ LoadFails(p)
       \/ RemoveErase(p)
       \/ \E k \in DOMAIN proc[p].opened_files : Write(p, k) \/ Close(p, k)
       \/ Exit(p) \/ ExitFile(p) \/ ExitExecutable(p) \/ ExitDone(p)
       \/ Drop(p) \/ Unlink(p) \/ UnlinkDone(p) \/ ReleaseInode(p) \/ ReleaseData(p)

Spec == Init /\ [][Next]_vars

-------------------------------------------------------------------------------
(***************************************************************************)
(* What is on disk is sound at every moment, so also after a crash: names  *)
(* are unique, no two files share a sector, and no sector of a file is     *)
(* free.  filesys_create and inode_close write in the order this needs.    *)
(***************************************************************************)
DiskSound ==
  /\ Filed \subseteq disk.map \ Reserved
  /\ \A e, f \in disk.dir : e # f => /\ e.name # f.name
                                     /\ Sectors(e) \intersect Sectors(f) = {}

(***************************************************************************)
(* Until two processes meet: an inode that is open keeps its sectors,      *)
(* though its file may have been removed, and no other file gets them; no  *)
(* sector has two inodes in memory, and the ASSERTs of free_map_release    *)
(* hold.                                                                   *)
(***************************************************************************)
Owns(i) == {inode[i].sector} \union inode[i].data

OpenIsKept ==
  \A i \in Inode :
    /\ inode[i].open_cnt > 0 =>
         /\ Owns(i) \subseteq freeMap
         /\ \A k \in Inode \ {i} :
              /\ inode[k].live => Owns(i) \intersect inode[k].data = {}
              /\ inode[k].open_cnt > 0 => inode[k].sector \notin Owns(i)
         /\ \A e \in disk.dir : e.sector # inode[i].sector => Owns(i) \intersect Sectors(e) = {}
    /\ \A p \in Process :
         proc[p].inode = i => /\ proc[p].pc = "release_inode" => inode[i].sector \in freeMap
                              /\ proc[p].pc = "release_data" => inode[i].data \subseteq freeMap

\* The k-th open file of p, or at 0 the file that a call has in hand.
Refers(p, k, i) ==
  \/ k = 0 /\ proc[p].pc \in {"loading", "drop"} /\ proc[p].inode = i
  \/ k \in DOMAIN proc[p].opened_files /\ proc[p].opened_files[k] = i

References(i) == { x \in Process \X (0 .. OpenFiles) : Refers(x[1], x[2], i) }

Runners(i) == { p \in Process : proc[p].executable = i }

ReferencesTo(i) ==
  Cardinality(References(i)) + Cardinality(Runners(i))
  + IF hist.stranded = i THEN 1 ELSE 0

(***************************************************************************)
(* Until two processes meet, open_cnt counts the files that are open and   *)
(* deny_write_cnt the processes that run, so that no program is written    *)
(* while it runs.                                                          *)
(***************************************************************************)
CountsExact ==
  /\ TypeOK
  /\ ~hist.raced =>
       \A i \in Inode :
         /\ inode[i].open_cnt = ReferencesTo(i)
         /\ inode[i].deny_write_cnt = Cardinality(Runners(i))
  /\ hist.clobbered = {}

(***************************************************************************)
(* A sector that is marked belongs to a file, to an inode in memory or to  *)
(* a create under way, or was lost by a create that failed or by a crash:  *)
(* nothing else leaks, however removals, closes and crashes fall together. *)
(***************************************************************************)
NothingElseLost ==
  freeMap \subseteq
    Reserved \union hist.lost \union Filed
      \union (UNION { Owns(i) : i \in { k \in Inode : inode[k].live } })
      \union (UNION { {proc[p].sector} \union proc[p].data : p \in Process })

(***************************************************************************)
(* "List of open inodes, so that opening a single inode twice returns the  *)
(* same `struct inode'." (inode.c:56): an inode that is open is found.     *)
(***************************************************************************)
OpenInodesListed ==
  \A i \in Inode : inode[i].live /\ inode[i].open_cnt > 0 => inode[i].listed

(***************************************************************************)
(* "If this was the last reference to INODE, frees its memory."            *)
(* (inode.c:159): nobody else has the inode then, and nobody gets it.      *)
(***************************************************************************)
LastCloseIsFinal ==
  [][\A i \in Inode : inode[i].live /\ Dying(i) => inode'[i].open_cnt = 0]_vars

================================================================================
