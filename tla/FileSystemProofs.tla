---------------------------- MODULE FileSystemProofs ----------------------------
(***************************************************************************)
(* For any number of processes, names, sectors and inodes, and until two   *)
(* processes meet at open_inodes or at a count: the disk is sound at every *)
(* moment, an open inode keeps its sectors, the counts of an inode are     *)
(* exact, and only failed creates and crashes lose sectors.                *)
(***************************************************************************)
EXTENDS FileSystem, FiniteSetTheorems, FunctionTheorems, SequenceTheorems,
        WellFoundedInduction, TLAPS

-------------------------------------------------------------------------------
(***************************************************************************)
(* The inductive invariant.  A sector that is marked belongs to one file,  *)
(* to one inode in memory whose file has been removed (an orphan), to a    *)
(* create under way (a draft), or is reserved or lost.  An inode in memory *)
(* that is not removed agrees with the disk.  All this holds to the end,   *)
(* also when two processes have met; until then fs_lock has one holder     *)
(* where it should, what was found is still there, and counts are exact.   *)
(***************************************************************************)
LockCall == {"create", "open", "remove", "load", "close"}

CreatePc == {"create_data", "create_write", "create_add", "create_undo"}

ReleasePc == {"release_inode", "release_data"}

ClosePc == {"unlink", "unlink_prev"} \union ReleasePc

InodePc == {"loading", "drop"} \union ClosePc

Orphan(i) == inode[i].live /\ inode[i].removed

Alive(i) == inode[i].live /\ ~inode[i].removed

Released(i) == \E p \in Process : proc[p].pc = "release_data" /\ proc[p].inode = i

InFile(s, e) == s \in Sectors(e)

InOrphan(s, i) ==
  /\ Orphan(i)
  /\ s \in inode[i].data \/ (s = inode[i].sector /\ ~Released(i))

InDraft(s, p) ==
  proc[p].pc \in CreatePc /\ (s = proc[p].sector \/ s \in proc[p].data)

Taken(s) ==
  \/ \E e \in disk.dir : InFile(s, e)
  \/ \E i \in Inode : InOrphan(s, i)
  \/ \E p \in Process : InDraft(s, p)

Marked ==
  /\ freeMap = disk.map /\ Reserved \subseteq freeMap
  /\ \A s \in Sector : s \in freeMap => s \in Reserved \union hist.lost \/ Taken(s)
  /\ \A s \in Sector : Taken(s) => s \in freeMap \ Reserved

Apart ==
  \A s \in Sector :
    /\ \A e, f \in disk.dir : InFile(s, e) /\ InFile(s, f) => e = f
    /\ \A i, k \in Inode : InOrphan(s, i) /\ InOrphan(s, k) => i = k
    /\ \A e \in disk.dir, i \in Inode : ~(InFile(s, e) /\ InOrphan(s, i))
    /\ \A e \in disk.dir, p \in Process : ~(InFile(s, e) /\ InDraft(s, p))
    /\ \A i \in Inode, p \in Process : ~(InOrphan(s, i) /\ InDraft(s, p))

FilesOK ==
  /\ \A e \in disk.dir : e.sector \notin disk.inode[e.sector]
  /\ \A e, f \in disk.dir : e.name = f.name => e = f

DraftOK(p) ==
  /\ proc[p].pc \in CreatePc => proc[p].sector \notin proc[p].data
  /\ proc[p].pc = "create_add" => disk.inode[proc[p].sector] = proc[p].data

InodeOK(i) ==
  /\ ~inode[i].live => inode[i].sector = 0 /\ inode[i].data = {}
  /\ Alive(i) => /\ \E e \in disk.dir : e.sector = inode[i].sector
                 /\ inode[i].data = disk.inode[inode[i].sector]
  /\ Orphan(i) => inode[i].sector \notin inode[i].data
  /\ \A k \in Inode :
       \/ Alive(i) /\ Alive(k) /\ inode[i].sector = inode[k].sector
       \/ /\ ~inode[i].live /\ inode[i].open_cnt > 0
          /\ ~inode[k].live /\ inode[k].open_cnt > 0
       => i = k

ReleaseOK(p) ==
  proc[p].pc \in ReleasePc =>
    LET i == proc[p].inode
    IN  /\ i \in Inode /\ Orphan(i) /\ ~inode[i].listed /\ inode[i].open_cnt = 0
        /\ \A q \in Process : proc[q].pc \in ReleasePc /\ proc[q].inode = i => q = p

Base ==
  /\ TypeOK /\ Marked /\ Apart /\ FilesOK
  /\ \A p \in Process : DraftOK(p) /\ ReleaseOK(p)
  /\ \A i \in Inode : InodeOK(i)
  /\ hist.clobbered = {}

ProcOK(p) ==
  LET r == proc[p] IN
  /\ fsLock = p <=> r.call \in LockCall
  /\ r.pc \in {"none", "user"} => r.call = "none"
  /\ r.pc = "exit" => r.call = "exit"
  /\ r.pc \in {"search", "found"} => r.call \in {"open", "remove", "load"}
  /\ r.pc = "loading" => r.call = "load"
  /\ r.pc \in {"drop"} \union ClosePc => r.call \in {"open", "remove", "close", "exit"}
  /\ r.pc \in CreatePc => r.call = "create" /\ r.name \in Name
  /\ r.pc \in InodePc => r.inode # Nil
  /\ r.pc \notin {"found"} \union InodePc => r.inode = Nil
  /\ r.pc \notin {"search", "found"} \union CreatePc => r.sector = 0
  /\ r.pc \notin CreatePc \ {"create_data"} => r.data = {}
  /\ r.pc = "none" \/ r.call = "load" => r.executable = Nil /\ r.opened_files = <<>>
  /\ r.pc \in {"search", "found"} /\ r.call = "open" => Len(r.opened_files) < OpenFiles

FoundOK(p) ==
  LET r == proc[p] IN
  /\ r.pc = "search" => \E e \in disk.dir : e.sector = r.sector
  /\ r.pc = "found" =>
       IF r.inode = Nil
       THEN /\ \E e \in disk.dir : e.sector = r.sector
            /\ \A k \in Inode : inode[k].listed => inode[k].sector # r.sector
       ELSE inode[r.inode] = Freed \/ (Alive(r.inode) /\ inode[r.inode].listed)

UnlinkOK(p) ==
  LET i == proc[p].inode IN
  /\ proc[p].pc = "unlink" => inode[i].live /\ inode[i].open_cnt = 0 /\ inode[i].listed
  /\ proc[p].pc = "unlink_prev" =>
       IF inode[i].removed
       THEN Orphan(i) /\ inode[i].open_cnt = 0 /\ ~inode[i].listed
       ELSE inode[i] = Freed
  /\ proc[p].pc \in {"unlink", "unlink_prev"} =>
       \A q \in Process : proc[q].pc \in ClosePc /\ proc[q].inode = i => q = p

ListedOK(i) ==
  /\ ~inode[i].live => inode[i] = Freed
  /\ Alive(i) => inode[i].listed
  /\ inode[i].live /\ ~inode[i].listed => inode[i].open_cnt = 0

CountOK(i) ==
  /\ inode[i].open_cnt = ReferencesTo(i)
  /\ inode[i].deny_write_cnt = Cardinality(Runners(i))

Running ==
  /\ \A p \in Process : ProcOK(p) /\ FoundOK(p) /\ UnlinkOK(p)
  /\ \A i \in Inode : ListedOK(i) /\ CountOK(i)

IInv == Base /\ (~hist.raced => Running)

-------------------------------------------------------------------------------

LEMMA ForgetIs ==
  ASSUME NEW r \in ProcRecord, NEW l \in {"user", "exit"}
  PROVE  /\ Forget(r, l) \in ProcRecord
         /\ Forget(r, l).pc = l
         /\ Forget(r, l).call = IF l = "exit" THEN "exit" ELSE "none"
         /\ Forget(r, l).name = NoName
         /\ Forget(r, l).sector = 0
         /\ Forget(r, l).data = {}
         /\ Forget(r, l).inode = Nil
         /\ Forget(r, l).opened_files = r.opened_files
         /\ Forget(r, l).executable = r.executable
<1>1. 0 \in Sector /\ l \in Pc
  BY FileSystemAssumption DEF Reserved, FREE_MAP_SECTOR, Pc
<1> QED
  BY <1>1 DEF Forget, ProcRecord, Nil

LEMMA SectorNumbers == 0 \in Sector /\ 1 \in Sector /\ Sector \subseteq Nat
BY FileSystemAssumption DEF Reserved, FREE_MAP_SECTOR, ROOT_DIR_SECTOR, Sector

LEMMA FilesAreSeqs ==
  ASSUME NEW f
  PROVE  f \in UNION { [1 .. n -> Inode] : n \in 0 .. OpenFiles }
           <=> f \in Seq(Inode) /\ Len(f) <= OpenFiles
<1>1. OpenFiles \in Nat
  BY FileSystemAssumption
<1>2. ASSUME NEW n \in 0 .. OpenFiles, f \in [1 .. n -> Inode]
      PROVE  f \in Seq(Inode) /\ Len(f) <= OpenFiles
  BY <1>1, <1>2
<1>3. ASSUME f \in Seq(Inode), Len(f) <= OpenFiles
      PROVE  f \in UNION { [1 .. n -> Inode] : n \in 0 .. OpenFiles }
  <2>1. f \in [1 .. Len(f) -> Inode] /\ Len(f) \in 0 .. OpenFiles
    BY <1>1, <1>3, LenProperties
  <2> QED
    BY <2>1
<1> QED
  BY <1>2, <1>3

LEMMA ProcTypes ==
  ASSUME TypeOK, NEW p \in Process
  PROVE  /\ proc \in [Process -> ProcRecord]
         /\ proc[p] \in ProcRecord
         /\ proc[p].pc \in Pc
         /\ proc[p].name \in Name \union {NoName}
         /\ proc[p].sector \in Sector
         /\ proc[p].data \subseteq Sector
         /\ proc[p].inode \in Inode \union {Nil}
         /\ proc[p].executable \in Inode \union {Nil}
         /\ proc[p].opened_files \in Seq(Inode)
         /\ Len(proc[p].opened_files) \in 0 .. OpenFiles
<1>1. proc[p] \in ProcRecord
  BY DEF TypeOK
<1>2. proc[p].opened_files \in UNION { [1 .. n -> Inode] : n \in 0 .. OpenFiles }
  BY <1>1 DEF ProcRecord
<1>3. proc[p].opened_files \in Seq(Inode) /\ Len(proc[p].opened_files) <= OpenFiles
  BY <1>2, FilesAreSeqs
<1>4. Len(proc[p].opened_files) \in Nat /\ OpenFiles \in Nat
  BY <1>3, FileSystemAssumption, LenProperties
<1> QED
  BY <1>1, <1>3, <1>4 DEF TypeOK, ProcRecord

LEMMA StateTypes ==
  ASSUME TypeOK
  PROVE  /\ disk.map \subseteq Sector
         /\ disk.dir \subseteq [name : Name, sector : Sector]
         /\ disk.inode \in [Sector -> SUBSET Sector]
         /\ freeMap \subseteq Sector
         /\ inode \in [Inode -> InodeRecord]
         /\ hist.lost \subseteq Sector
         /\ \A e \in disk.dir : e.sector \in Sector /\ e.name \in Name /\ Sectors(e) \subseteq Sector
         /\ \A i \in Inode : /\ inode[i].sector \in Sector /\ inode[i].data \subseteq Sector
                             /\ inode[i].open_cnt \in Int /\ inode[i].deny_write_cnt \in Int
                             /\ inode[i].removed \in BOOLEAN /\ inode[i].listed \in BOOLEAN
                             /\ inode[i].live \in BOOLEAN
BY DEF TypeOK, InodeRecord, HistRecord, Sectors

LEMMA InodesAreNumbers == Inode \subseteq Nat \ {0} /\ IsFiniteSet(Inode)
<1>1. InodeCount \in Nat
  BY FileSystemAssumption
<1> QED
  BY <1>1, FS_Interval DEF Inode

-------------------------------------------------------------------------------
(***************************************************************************)
(* What the invariant says about the properties of FileSystem.             *)
(***************************************************************************)
LEMMA BaseMeansSound == Base => DiskSound
<1> SUFFICES ASSUME Base PROVE DiskSound
  OBVIOUS
<1>1. TypeOK /\ Marked /\ Apart /\ FilesOK
  BY DEF Base
<1>2. ASSUME NEW e \in disk.dir, NEW s \in Sectors(e)
      PROVE  s \in Sector /\ InFile(s, e) /\ s \in disk.map \ Reserved
  BY <1>1, StateTypes DEF InFile, Marked, Taken
<1>3. ASSUME NEW e \in disk.dir, NEW f \in disk.dir, e # f
      PROVE  e.name # f.name /\ Sectors(e) \intersect Sectors(f) = {}
  <2>1. ASSUME NEW s \in Sectors(e), s \in Sectors(f) PROVE FALSE
    BY <1>1, <1>2, <1>3, <2>1 DEF InFile, Apart
  <2> QED
    BY <1>1, <1>3, <2>1 DEF FilesOK
<1> QED
  BY <1>2, <1>3 DEF DiskSound, Filed

LEMMA BaseMeansCovered == Base => NothingElseLost
<1> SUFFICES ASSUME Base, NEW s \in freeMap, s \notin Reserved \union hist.lost
             PROVE  \/ s \in Filed
                    \/ \E i \in Inode : inode[i].live /\ s \in Owns(i)
                    \/ \E p \in Process : s \in {proc[p].sector} \union proc[p].data
  BY DEF NothingElseLost
<1>1. s \in Sector /\ Taken(s)
  BY StateTypes DEF Base, Marked
<1> QED
  BY <1>1 DEF Taken, InFile, InOrphan, InDraft, Filed, Owns, Orphan

\* To whom the sectors of an inode belong.
LEMMA OwnsOf ==
  ASSUME Base, NEW i \in Inode
  PROVE  /\ Owns(i) \subseteq Sector
         /\ ~inode[i].live => Owns(i) = {0}
         /\ Alive(i) => \E e \in disk.dir : e.sector = inode[i].sector /\ Owns(i) = Sectors(e)
         /\ Orphan(i) /\ ~Released(i) => \A s \in Owns(i) : InOrphan(s, i)
         /\ Orphan(i) => \A s \in inode[i].data : InOrphan(s, i)
BY StateTypes DEF Base, InodeOK, Owns, Sectors, InOrphan, Alive, Orphan

LEMMA OpenIsNotReleased ==
  ASSUME Base, NEW i \in Inode, inode[i].open_cnt > 0
  PROVE  ~Released(i)
BY DEF Base, Released, ReleaseOK, ReleasePc

LEMMA BaseMeansKept == Base => OpenIsKept
<1> SUFFICES ASSUME Base, NEW i \in Inode
             PROVE  /\ inode[i].open_cnt > 0 =>
                         /\ Owns(i) \subseteq freeMap
                         /\ \A k \in Inode \ {i} :
                              /\ inode[k].live => Owns(i) \intersect inode[k].data = {}
                              /\ inode[k].open_cnt > 0 => inode[k].sector \notin Owns(i)
                         /\ \A e \in disk.dir : e.sector # inode[i].sector =>
                              Owns(i) \intersect Sectors(e) = {}
                    /\ \A p \in Process : proc[p].inode = i =>
                         /\ proc[p].pc = "release_inode" => inode[i].sector \in freeMap
                         /\ proc[p].pc = "release_data" => inode[i].data \subseteq freeMap
  BY DEF OpenIsKept
<1>1. TypeOK /\ Marked /\ Apart /\ FilesOK
  BY DEF Base
<1>2. \A k \in Inode : (Alive(k) \/ Orphan(k) \/ ~inode[k].live) /\ InodeOK(k)
  BY DEF Base, Alive, Orphan
<1>3. ASSUME NEW p \in Process, proc[p].inode = i
      PROVE  /\ proc[p].pc = "release_inode" => inode[i].sector \in freeMap
             /\ proc[p].pc = "release_data" => inode[i].data \subseteq freeMap
  <2>1. ASSUME proc[p].pc \in ReleasePc PROVE Orphan(i)
    BY <1>3, <2>1 DEF Base, ReleaseOK
  <2>2. ASSUME proc[p].pc = "release_inode" PROVE ~Released(i)
    BY <1>3, <2>2 DEF Base, ReleaseOK, ReleasePc, Released
  <2>3. \A s \in Sector : InOrphan(s, i) => s \in freeMap
    BY <1>1 DEF Marked, Taken
  <2> QED
    BY <1>1, <2>1, <2>2, <2>3, StateTypes DEF InOrphan, ReleasePc
<1> SUFFICES ASSUME inode[i].open_cnt > 0
             PROVE  /\ Owns(i) \subseteq freeMap
                    /\ \A k \in Inode \ {i} :
                         /\ inode[k].live => Owns(i) \intersect inode[k].data = {}
                         /\ inode[k].open_cnt > 0 => inode[k].sector \notin Owns(i)
                    /\ \A e \in disk.dir : e.sector # inode[i].sector =>
                         Owns(i) \intersect Sectors(e) = {}
  BY <1>3
<1>4. ~Released(i)
  BY OpenIsNotReleased
<1> DEFINE Mine(s) == \/ ~inode[i].live /\ s = 0
                      \/ Alive(i) /\ \E e \in disk.dir : e.sector = inode[i].sector /\ InFile(s, e)
                      \/ Orphan(i) /\ InOrphan(s, i)
<1>5. \A s \in Owns(i) : s \in Sector /\ Mine(s)
  BY <1>2, <1>4, OwnsOf DEF InFile
<1>6. \A e \in disk.dir : InFile(e.sector, e) /\ e.sector \in Sector
  BY <1>1, StateTypes DEF InFile, Sectors
<1>7. \A s \in Sector : /\ s \in Reserved => ~Taken(s)
                        /\ Taken(s) => s \in freeMap
                        /\ 0 \in Reserved /\ 0 \in Sector /\ 0 \in freeMap
  BY <1>1, SectorNumbers DEF Marked, Reserved, FREE_MAP_SECTOR
<1>8. Owns(i) \subseteq freeMap
  BY <1>5, <1>7 DEF Taken
<1>9. ASSUME NEW k \in Inode \ {i}, inode[k].live, NEW s \in Owns(i), s \in inode[k].data
      PROVE  FALSE
  <2>1. s \in Sector /\ Mine(s)
    BY <1>5
  <2>2. CASE Alive(k)
    <3>1. PICK f \in disk.dir : f.sector = inode[k].sector /\ InFile(s, f)
      BY <1>9, <2>2, OwnsOf DEF InFile, Owns
    <3>2. f.sector # inode[i].sector \/ ~Alive(i)
      BY <1>2, <2>2, <3>1 DEF InodeOK
    <3> QED
      BY <1>1, <1>7, <2>1, <3>1, <3>2 DEF Apart, Taken
  <2>3. CASE Orphan(k)
    <3>1. InOrphan(s, k)
      BY <1>9, <2>3 DEF InOrphan
    <3> QED
      BY <1>1, <1>7, <2>1, <3>1 DEF Apart, Taken
  <2> QED
    BY <1>2, <1>9, <2>2, <2>3
<1>10. ASSUME NEW k \in Inode \ {i}, inode[k].open_cnt > 0, inode[k].sector \in Owns(i)
       PROVE  FALSE
  <2> DEFINE s == inode[k].sector
  <2>1. s \in Sector /\ Mine(s)
    BY <1>5, <1>10
  <2>2. CASE Alive(k)
    <3>1. PICK f \in disk.dir : f.sector = inode[k].sector /\ InFile(s, f)
      BY <2>2, OwnsOf DEF InFile, Owns
    <3>2. f.sector # inode[i].sector \/ ~Alive(i)
      BY <1>2, <2>2, <3>1 DEF InodeOK
    <3> QED
      BY <1>1, <1>7, <2>1, <3>1, <3>2 DEF Apart, Taken
  <2>3. CASE Orphan(k)
    <3>1. InOrphan(s, k)
      BY <1>10, <2>3, OpenIsNotReleased DEF InOrphan
    <3> QED
      BY <1>1, <1>7, <2>1, <3>1 DEF Apart, Taken
  <2>4. CASE ~inode[k].live
    <3>1. s = 0 /\ inode[i].live
      BY <1>2, <1>10, <2>4 DEF InodeOK
    <3> QED
      BY <1>7, <2>1, <3>1 DEF Taken
  <2> QED
    BY <1>2, <2>2, <2>3, <2>4
<1>11. ASSUME NEW e \in disk.dir, e.sector # inode[i].sector, NEW s \in Owns(i), s \in Sectors(e)
       PROVE  FALSE
  <2>1. s \in Sector /\ Mine(s) /\ InFile(s, e)
    BY <1>5, <1>11 DEF InFile
  <2> QED
    BY <1>1, <1>7, <1>11, <2>1 DEF Apart, Taken
<1> QED
  BY <1>8, <1>9, <1>10, <1>11

LEMMA IInvMeans == IInv => DiskSound /\ OpenIsKept /\ CountsExact /\ NothingElseLost
<1>1. IInv => CountsExact
  BY DEF IInv, Base, Running, CountOK, CountsExact
<1> QED
  BY <1>1, BaseMeansSound, BaseMeansKept, BaseMeansCovered DEF IInv

-------------------------------------------------------------------------------
(***************************************************************************)
(* Steps that leave the disk and the free map alone.                       *)
(***************************************************************************)
SectorsSame ==
  /\ disk' = disk /\ freeMap' = freeMap
  /\ hist'.lost = hist.lost /\ hist'.clobbered = {}

OthersSame(p) == \A q \in Process \ {p} : proc'[q] = proc[q]

LEMMA SectorsStay ==
  ASSUME Base, SectorsSame,
         \A s \in Sector, i \in Inode : InOrphan(s, i)' <=> InOrphan(s, i),
         \A s \in Sector, p \in Process : InDraft(s, p)' <=> InDraft(s, p)
  PROVE  Marked' /\ Apart' /\ FilesOK'
<1>1. disk' = disk /\ freeMap' = freeMap /\ hist'.lost = hist.lost
  BY DEF SectorsSame
<1>2. \A s, e : InFile(s, e)' <=> InFile(s, e)
  BY <1>1 DEF InFile, Sectors
<1>3. \A s \in Sector : Taken(s)' <=> Taken(s)
  BY <1>1, <1>2 DEF Taken
<1>4. Marked'
  BY <1>1, <1>3 DEF Base, Marked
<1>5. Apart'
  BY <1>1, <1>2 DEF Base, Apart
<1>6. FilesOK'
  BY <1>1 DEF Base, FilesOK
<1> QED
  BY <1>4, <1>5, <1>6

LEMMA OrphansStay ==
  ASSUME NEW p \in Process, OthersSame(p),
         proc[p].pc # "release_data", proc'[p].pc # "release_data",
         NEW i \in Inode, Orphan(i)' <=> Orphan(i),
         Orphan(i) => inode'[i].sector = inode[i].sector /\ inode'[i].data = inode[i].data,
         NEW s
  PROVE  InOrphan(s, i)' <=> InOrphan(s, i)
<1>1. Released(i)' <=> Released(i)
  BY DEF Released, OthersSame
<1> QED
  BY <1>1 DEF InOrphan

LEMMA DraftsStay ==
  ASSUME NEW p \in Process, OthersSame(p), NEW s,
         InDraft(s, p)' <=> InDraft(s, p)
  PROVE  \A q \in Process : InDraft(s, q)' <=> InDraft(s, q)
BY DEF InDraft, OthersSame

\* p moves on outside of inode_close, and no inode changes.
LEMMA ProcStepBase ==
  ASSUME Base, NEW p \in Process, TypeOK', SectorsSame, OthersSame(p), inode' = inode,
         proc[p].pc \notin ReleasePc, proc'[p].pc \notin ReleasePc,
         \A s \in Sector : InDraft(s, p)' <=> InDraft(s, p),
         DraftOK(p)'
  PROVE  Base'
<1>1. \A i \in Inode : Orphan(i)' <=> Orphan(i)
  BY DEF Orphan
<1>2. Marked' /\ Apart' /\ FilesOK'
  BY <1>1, OrphansStay, DraftsStay, SectorsStay DEF ReleasePc
<1>3. ASSUME NEW q \in Process PROVE DraftOK(q)' /\ ReleaseOK(q)'
  <2>1. DraftOK(q)'
    BY DEF Base, DraftOK, OthersSame, SectorsSame
  <2>2. ReleaseOK(q)'
    BY <1>1 DEF Base, ReleaseOK, OthersSame
  <2> QED
    BY <2>1, <2>2
<1>4. ASSUME NEW i \in Inode PROVE InodeOK(i)'
  BY DEF Base, InodeOK, Alive, Orphan, SectorsSame
<1> QED
  BY <1>2, <1>3, <1>4 DEF Base, SectorsSame

LEMMA OthersProcOK ==
  ASSUME Running, NEW p \in Process, OthersSame(p), NEW q \in Process \ {p},
         fsLock' = q <=> fsLock = q
  PROVE  ProcOK(q)'
BY DEF Running, ProcOK, OthersSame

LEMMA ProcStep ==
  ASSUME IInv, ~hist.raced, NEW p \in Process, TypeOK', SectorsSame, OthersSame(p),
         inode' = inode,
         proc[p].pc \notin ClosePc, proc'[p].pc \notin ClosePc,
         \A s \in Sector : InDraft(s, p)' <=> InDraft(s, p), DraftOK(p)',
         \A q \in Process \ {p} : fsLock' = q <=> fsLock = q,
         ProcOK(p)', FoundOK(p)',
         \A i \in Inode : ReferencesTo(i)' = ReferencesTo(i) /\ Runners(i)' = Runners(i)
  PROVE  IInv'
<1>1. Base /\ Running
  BY DEF IInv
<1>2. Base'
  BY <1>1, ProcStepBase DEF ClosePc
<1>3. ASSUME NEW q \in Process PROVE ProcOK(q)' /\ FoundOK(q)' /\ UnlinkOK(q)'
  <2>1. ProcOK(q)'
    BY <1>1, OthersProcOK
  <2>2. FoundOK(q)'
    BY <1>1 DEF Running, FoundOK, OthersSame, SectorsSame, Alive
  <2>3. UnlinkOK(q)'
    BY <1>1 DEF Running, UnlinkOK, OthersSame, ClosePc, Orphan
  <2> QED
    BY <2>1, <2>2, <2>3
<1>4. ASSUME NEW i \in Inode PROVE ListedOK(i)' /\ CountOK(i)'
  BY <1>1 DEF Running, ListedOK, CountOK, Alive
<1> QED
  BY <1>2, <1>3, <1>4 DEF IInv, Running

-------------------------------------------------------------------------------
(***************************************************************************)
(* The count of references.                                                *)
(***************************************************************************)
\* The k-th element of a list goes to place 0, and those behind it move up.
LEMMA MovedToFront ==
  ASSUME NEW P, NEW p \in P, NEW n \in Nat, NEW k \in 1 .. n,
         NEW S \in SUBSET (P \X (0 .. n)), NEW T \in SUBSET (P \X (0 .. n)), IsFiniteSet(S),
         \A q \in P \ {p}, j \in 0 .. n : <<q, j>> \in T <=> <<q, j>> \in S,
         <<p, 0>> \notin S, <<p, 0>> \in T <=> <<p, k>> \in S,
         \A j \in 1 .. n : <<p, j>> \in T <=>
                             IF j < k THEN <<p, j>> \in S ELSE j < n /\ <<p, j + 1>> \in S
  PROVE  Cardinality(T) = Cardinality(S)
<1> DEFINE place(j) == IF j = k THEN 0 ELSE IF j < k THEN j ELSE j - 1
           moved(x) == IF x[1] = p THEN <<p, place(x[2])>> ELSE x
           F == [x \in S |-> moved(x)]
<1>1. \A x \in P \X (0 .. n) : x[1] \in P /\ x[2] \in 0 .. n /\ x = <<x[1], x[2]>>
  OBVIOUS
<1>2. ASSUME NEW j \in 0 .. n, <<p, j>> \in S
      PROVE  j \in 1 .. n /\ <<p, place(j)>> \in T
  <2>1. j # 0
    BY <1>2
  <2>2. CASE j = k
    BY <1>2, <2>2
  <2>3. CASE j < k
    <3>1. j \in 1 .. n /\ j # k
      BY <2>1, <2>3
    <3> QED
      BY <1>2, <2>3, <3>1
  <2>4. CASE j > k
    <3>1. j - 1 \in 1 .. n /\ ~(j - 1 < k) /\ j - 1 < n /\ (j - 1) + 1 = j /\ j # k /\ ~(j < k)
      BY <2>4
    <3> QED
      BY <1>2, <2>1, <3>1
  <2> QED
    BY <2>1, <2>2, <2>3, <2>4
<1>3. ASSUME NEW x \in S PROVE moved(x) \in T
  <2>1. x[1] \in P /\ x[2] \in 0 .. n /\ x = <<x[1], x[2]>>
    BY <1>1
  <2> QED
    BY <1>2, <2>1
<1>4. F \in [S -> T]
  BY <1>3
<1>5. ASSUME NEW x \in S, NEW y \in S, moved(x) = moved(y) PROVE x = y
  <2>1. /\ x[1] \in P /\ x[2] \in 0 .. n /\ x = <<x[1], x[2]>>
        /\ y[1] \in P /\ y[2] \in 0 .. n /\ y = <<y[1], y[2]>>
    BY <1>1
  <2>2. CASE x[1] = p /\ y[1] = p
    <3>1. place(x[2]) = place(y[2])
      BY <1>5, <2>2
    <3>2. x[2] \in 1 .. n /\ y[2] \in 1 .. n
      BY <1>2, <2>1, <2>2
    <3>3. x[2] = y[2]
      BY <3>1, <3>2
    <3> QED
      BY <2>1, <2>2, <3>3
  <2>3. CASE ~(x[1] = p /\ y[1] = p)
    BY <1>5, <2>1, <2>3
  <2> QED
    BY <2>2, <2>3
<1>6. ASSUME NEW y \in T PROVE \E x \in S : moved(x) = y
  <2>1. y[1] \in P /\ y[2] \in 0 .. n /\ y = <<y[1], y[2]>>
    BY <1>1
  <2>2. CASE y[1] # p
    <3>1. y \in S
      BY <2>1, <2>2
    <3> QED
      BY <2>2, <3>1
  <2>3. CASE y[1] = p
    <3>1. \E j \in 0 .. n : <<p, j>> \in S /\ place(j) = y[2]
      <4>1. CASE y[2] = 0
        BY <2>1, <2>3, <4>1
      <4>2. CASE y[2] # 0 /\ y[2] < k
        <5>1. y[2] \in 0 .. n /\ place(y[2]) = y[2]
          BY <2>1, <4>2
        <5>2. ASSUME NEW m \in 1 .. n, m < k, <<p, m>> \in T
              PROVE  <<p, m>> \in S
          BY <5>2
        <5>3. y[2] \in 1 .. n /\ <<p, y[2]>> \in T
          BY <2>1, <2>3, <4>2
        <5>4. <<p, y[2]>> \in S
          BY <4>2, <5>2, <5>3
        <5> QED
          BY <5>1, <5>4
      <4>3. CASE y[2] # 0 /\ ~(y[2] < k)
        <5>1. y[2] \in 1 .. n /\ y[2] < n /\ <<p, y[2] + 1>> \in S
          BY <2>1, <2>3, <4>3
        <5>2. y[2] + 1 \in 0 .. n /\ place(y[2] + 1) = y[2]
          BY <4>3, <5>1
        <5> QED
          BY <5>1, <5>2
      <4> QED
        BY <4>1, <4>2, <4>3
    <3>2. PICK j \in 0 .. n : <<p, j>> \in S /\ place(j) = y[2]
      BY <3>1
    <3>3. moved(<<p, j>>) = <<p, place(j)>>
      OBVIOUS
    <3> QED
      BY <2>1, <2>3, <3>2, <3>3
  <2> QED
    BY <2>2, <2>3
<1>7. \A x \in S : F[x] = moved(x)
  OBVIOUS
<1> HIDE DEF F, moved, place
<1>8. /\ \A x \in S, y \in S : F[x] = F[y] => x = y
      /\ \A y \in T : \E x \in S : F[x] = y
  BY <1>5, <1>6, <1>7
<1>9. F \in Injection(S, T) /\ F \in Surjection(S, T)
  BY <1>4, <1>8, Fun_IsInj, Fun_IsSurj
<1> QED
  BY <1>9, FS_Surjection

LEMMA ReferencesFinite ==
  ASSUME NEW i
  PROVE  /\ References(i) \subseteq Process \X (0 .. OpenFiles)
         /\ IsFiniteSet(References(i)) /\ Cardinality(References(i)) \in Nat
         /\ IsFiniteSet(Runners(i)) /\ Cardinality(Runners(i)) \in Nat
<1>1. IsFiniteSet(Process) /\ IsFiniteSet(0 .. OpenFiles)
  BY FileSystemAssumption, FS_Interval
<1>2. IsFiniteSet(Process \X (0 .. OpenFiles))
  BY <1>1, FS_Product
<1>3. References(i) \subseteq Process \X (0 .. OpenFiles) /\ Runners(i) \subseteq Process
  BY DEF References, Runners
<1> QED
  BY <1>1, <1>2, <1>3, FS_Subset, FS_CardinalityType

LEMMA OthersRefer ==
  ASSUME NEW p \in Process, OthersSame(p), NEW i, NEW q \in Process \ {p}, NEW k
  PROVE  Refers(q, k, i)' <=> Refers(q, k, i)
BY DEF OthersSame, Refers

LEMMA ReferencesAre ==
  ASSUME NEW i, NEW p \in Process, NEW k \in 0 .. OpenFiles
  PROVE  /\ <<p, k>> \in References(i) <=> Refers(p, k, i)
         /\ <<p, k>> \in References(i)' <=> Refers(p, k, i)'
BY DEF References

LEMMA ReferencesPairs ==
  ASSUME NEW i
  PROVE  /\ \A x \in References(i) : \E q \in Process, k \in 0 .. OpenFiles : x = <<q, k>>
         /\ \A x \in References(i)' : \E q \in Process, k \in 0 .. OpenFiles : x = <<q, k>>
BY DEF References

LEMMA ReferencesSame ==
  ASSUME NEW p \in Process, OthersSame(p), NEW i,
         \A k \in 0 .. OpenFiles : Refers(p, k, i)' <=> Refers(p, k, i)
  PROVE  References(i)' = References(i)
<1>1. \A q \in Process, k \in 0 .. OpenFiles : <<q, k>> \in References(i)' <=> <<q, k>> \in References(i)
  BY OthersRefer, ReferencesAre
<1> QED
  BY <1>1, ReferencesPairs

LEMMA ReferencesGrow ==
  ASSUME NEW p \in Process, OthersSame(p), NEW i, NEW k \in 0 .. OpenFiles,
         ~Refers(p, k, i), Refers(p, k, i)',
         \A j \in (0 .. OpenFiles) \ {k} : Refers(p, j, i)' <=> Refers(p, j, i)
  PROVE  Cardinality(References(i)') = Cardinality(References(i)) + 1
<1>1. \A q \in Process, j \in 0 .. OpenFiles :
        <<q, j>> \in References(i)' <=> <<q, j>> \in References(i) \/ <<q, j>> = <<p, k>>
  BY OthersRefer, ReferencesAre
<1>2. References(i)' = References(i) \union {<<p, k>>}
  BY <1>1, ReferencesPairs
<1>3. <<p, k>> \notin References(i)
  BY ReferencesAre
<1> QED
  BY <1>2, <1>3, ReferencesFinite, FS_AddElement

LEMMA ReferencesShrink ==
  ASSUME NEW p \in Process, OthersSame(p), NEW i, NEW k \in 0 .. OpenFiles,
         Refers(p, k, i), ~Refers(p, k, i)',
         \A j \in (0 .. OpenFiles) \ {k} : Refers(p, j, i)' <=> Refers(p, j, i)
  PROVE  Cardinality(References(i)') = Cardinality(References(i)) - 1
<1>1. \A q \in Process, j \in 0 .. OpenFiles :
        <<q, j>> \in References(i)' <=> <<q, j>> \in References(i) /\ <<q, j>> # <<p, k>>
  BY OthersRefer, ReferencesAre
<1>2. References(i)' = References(i) \ {<<p, k>>}
  BY <1>1, ReferencesPairs
<1>3. <<p, k>> \in References(i)
  BY ReferencesAre
<1> QED
  BY <1>2, <1>3, ReferencesFinite, FS_RemoveElement, ZenonT(60)

LEMMA ReferencesMove ==
  ASSUME NEW p \in Process, OthersSame(p), NEW i, NEW k \in 1 .. OpenFiles,
         ~Refers(p, 0, i), Refers(p, 0, i)' <=> Refers(p, k, i),
         \A j \in 1 .. OpenFiles : Refers(p, j, i)' <=>
            IF j < k THEN Refers(p, j, i) ELSE j < OpenFiles /\ Refers(p, j + 1, i)
  PROVE  Cardinality(References(i)') = Cardinality(References(i))
<1>1. OpenFiles \in Nat
  BY FileSystemAssumption
<1>2. \A q \in Process \ {p}, j \in 0 .. OpenFiles : <<q, j>> \in References(i)' <=> <<q, j>> \in References(i)
  BY OthersRefer, ReferencesAre
<1>3. /\ <<p, 0>> \notin References(i)
      /\ <<p, 0>> \in References(i)' <=> <<p, k>> \in References(i)
  BY <1>1, ReferencesAre
<1>4. ASSUME NEW j \in 1 .. OpenFiles
      PROVE  <<p, j>> \in References(i)' <=>
               IF j < k THEN <<p, j>> \in References(i)
               ELSE j < OpenFiles /\ <<p, j + 1>> \in References(i)
  <2>1. j \in 0 .. OpenFiles
    BY <1>1
  <2>2. j < OpenFiles => j + 1 \in 0 .. OpenFiles
    BY <1>1
  <2> QED
    BY <2>1, <2>2, ReferencesAre
<1>5. References(i) \in SUBSET (Process \X (0 .. OpenFiles)) /\ IsFiniteSet(References(i))
  BY ReferencesFinite
<1>6. References(i)' \in SUBSET (Process \X (0 .. OpenFiles))
  BY DEF References
<1> QED
  BY <1>1, <1>2, <1>3, <1>4, <1>5, <1>6, MovedToFront

LEMMA RunnersSame ==
  ASSUME NEW p \in Process, OthersSame(p), NEW i,
         proc'[p].executable = i <=> proc[p].executable = i
  PROVE  Runners(i)' = Runners(i)
BY DEF Runners, OthersSame

LEMMA RunnersGrow ==
  ASSUME NEW p \in Process, OthersSame(p), NEW i,
         proc[p].executable # i, proc'[p].executable = i
  PROVE  Cardinality(Runners(i)') = Cardinality(Runners(i)) + 1
<1>1. Runners(i)' = Runners(i) \union {p} /\ p \notin Runners(i)
  BY DEF Runners, OthersSame
<1> QED
  BY <1>1, ReferencesFinite, FS_AddElement

LEMMA RunnersShrink ==
  ASSUME NEW p \in Process, OthersSame(p), NEW i,
         proc[p].executable = i, proc'[p].executable # i
  PROVE  Cardinality(Runners(i)') = Cardinality(Runners(i)) - 1
<1>1. Runners(i)' = Runners(i) \ {p} /\ p \in Runners(i)
  BY DEF Runners, OthersSame
<1> QED
  BY <1>1, ReferencesFinite, FS_RemoveElement, ZenonT(60)

\* The files that p has open, its executable and the file in hand are counted.
LEMMA ReferencesPositive ==
  ASSUME NEW i \in Inode, NEW p \in Process,
         (\E k \in 0 .. OpenFiles : Refers(p, k, i)) \/ proc[p].executable = i
  PROVE  ReferencesTo(i) > 0
<1>1. Cardinality(References(i)) \in Nat /\ Cardinality(Runners(i)) \in Nat
  BY ReferencesFinite
<1>2. ASSUME NEW k \in 0 .. OpenFiles, Refers(p, k, i) PROVE Cardinality(References(i)) # 0
  <2>1. References(i) # {}
    BY <1>2, ReferencesAre
  <2> QED
    BY <2>1, ReferencesFinite, FS_EmptySet
<1>3. ASSUME proc[p].executable = i PROVE Cardinality(Runners(i)) # 0
  <2>1. Runners(i) # {}
    BY <1>3 DEF Runners
  <2> QED
    BY <2>1, ReferencesFinite, FS_EmptySet
<1>4. Cardinality(References(i)) # 0 \/ Cardinality(Runners(i)) # 0
  BY <1>2, <1>3
<1>5. ReferencesTo(i) = Cardinality(References(i)) + Cardinality(Runners(i))
                          + IF hist.stranded = i THEN 1 ELSE 0
  BY DEF ReferencesTo
<1> QED
  BY <1>1, <1>4, <1>5

-------------------------------------------------------------------------------
(***************************************************************************)
(* What the operators on the record of a process do to it.                 *)
(***************************************************************************)
LEMMA NewRecord ==
  ASSUME TypeOK, NEW p \in Process, NEW r \in ProcRecord, proc' = [proc EXCEPT ![p] = r]
  PROVE  proc' \in [Process -> ProcRecord] /\ OthersSame(p) /\ proc'[p] = r
BY DEF TypeOK, OthersSame

LEMMA GotoIs ==
  ASSUME TypeOK, NEW p \in Process, NEW l \in Pc, Goto(p, l)
  PROVE  /\ proc' \in [Process -> ProcRecord] /\ OthersSame(p)
         /\ proc'[p].pc = l
         /\ proc'[p].call = proc[p].call
         /\ proc'[p].name = proc[p].name
         /\ proc'[p].sector = proc[p].sector
         /\ proc'[p].data = proc[p].data
         /\ proc'[p].inode = proc[p].inode
         /\ proc'[p].opened_files = proc[p].opened_files
         /\ proc'[p].executable = proc[p].executable
<1> DEFINE r == [proc[p] EXCEPT !.pc = l]
<1>1. proc[p] \in ProcRecord
  BY ProcTypes
<1>2. /\ r \in ProcRecord /\ r.pc = l
      /\ r.call = proc[p].call /\ r.name = proc[p].name /\ r.sector = proc[p].sector
      /\ r.data = proc[p].data /\ r.inode = proc[p].inode
      /\ r.opened_files = proc[p].opened_files /\ r.executable = proc[p].executable
  BY <1>1 DEF ProcRecord
<1>3. proc' = [proc EXCEPT ![p] = r]
  BY DEF Goto
<1> HIDE DEF r
<1> QED
  BY <1>2, <1>3, NewRecord

LEMMA IdleIs == Idle \in ProcRecord
<1>1. Idle.opened_files \in UNION { [1 .. n -> Inode] : n \in 0 .. OpenFiles }
  <2>1. Idle.opened_files = <<>> /\ <<>> \in Seq(Inode) /\ Len(<<>>) <= OpenFiles
    BY FileSystemAssumption DEF Idle
  <2> QED
    BY <2>1, FilesAreSeqs
<1>2. Idle.opened_files = <<>>
  BY DEF Idle
<1> QED
  BY <1>1, <1>2, SectorNumbers DEF Idle, ProcRecord, Pc, Nil

LEMMA ForgotIs ==
  ASSUME TypeOK, NEW p \in Process, NEW l \in {"user", "exit"},
         proc' = [proc EXCEPT ![p] = Forget(@, l)]
  PROVE  /\ proc' \in [Process -> ProcRecord] /\ OthersSame(p)
         /\ proc'[p].pc = l
         /\ proc'[p].call = IF l = "exit" THEN "exit" ELSE "none"
         /\ proc'[p].name = NoName
         /\ proc'[p].sector = 0
         /\ proc'[p].data = {}
         /\ proc'[p].inode = Nil
         /\ proc'[p].opened_files = proc[p].opened_files
         /\ proc'[p].executable = proc[p].executable
<1>1. proc[p] \in ProcRecord
  BY ProcTypes
<1> DEFINE r == Forget(proc[p], l)
<1>2. proc' = [proc EXCEPT ![p] = r]
  BY DEF TypeOK
<1>3. /\ r \in ProcRecord /\ r.pc = l /\ r.call = IF l = "exit" THEN "exit" ELSE "none"
      /\ r.name = NoName /\ r.sector = 0 /\ r.data = {} /\ r.inode = Nil
      /\ r.opened_files = proc[p].opened_files /\ r.executable = proc[p].executable
  BY <1>1, ForgetIs
<1> HIDE DEF r
<1>4. proc' \in [Process -> ProcRecord] /\ OthersSame(p) /\ proc'[p] = r
  BY <1>2, <1>3, NewRecord
<1> QED
  BY <1>3, <1>4

-------------------------------------------------------------------------------
(***************************************************************************)
(* Calls that look and processes that exit: nothing but the process moves. *)
(***************************************************************************)
LEMMA NoDrafts ==
  ASSUME NEW p \in Process, proc[p].pc \notin CreatePc, proc'[p].pc \notin CreatePc
  PROVE  (\A s \in Sector : InDraft(s, p)' <=> InDraft(s, p)) /\ DraftOK(p)'
BY DEF InDraft, DraftOK, CreatePc

LEMMA ExitKeeps ==
  ASSUME IInv, NEW p \in Process, Exit(p)
  PROVE  IInv'
<1>1. TypeOK /\ Running /\ ~hist.raced /\ hist.clobbered = {}
  BY DEF IInv, Base, Exit, At
<1>2. proc[p].pc = "user" /\ proc[p].call = "none" /\ ProcOK(p)
  BY <1>1 DEF Exit, At, Running, ProcOK
<1>3. proc' = [proc EXCEPT ![p] = Forget(@, "exit")]
  BY DEF Exit
<1>4. /\ proc' \in [Process -> ProcRecord] /\ OthersSame(p)
      /\ proc'[p].pc = "exit" /\ proc'[p].call = "exit" /\ proc'[p].sector = 0
      /\ proc'[p].data = {} /\ proc'[p].inode = Nil
      /\ proc'[p].opened_files = proc[p].opened_files
      /\ proc'[p].executable = proc[p].executable
  BY <1>1, <1>3, ForgotIs
<1>5. UNCHANGED <<disk, freeMap, inode, fsLock, hist>>
  BY DEF Exit
<1>6. TypeOK' /\ SectorsSame
  BY <1>1, <1>4, <1>5 DEF TypeOK, SectorsSame
<1>7. ProcOK(p)' /\ FoundOK(p)'
  BY <1>2, <1>4, <1>5 DEF ProcOK, FoundOK, LockCall, CreatePc, ClosePc, InodePc, ReleasePc
<1>8. \A i \in Inode : ReferencesTo(i)' = ReferencesTo(i) /\ Runners(i)' = Runners(i)
  <2> TAKE i \in Inode
  <2>1. \A k \in 0 .. OpenFiles : Refers(p, k, i)' <=> Refers(p, k, i)
    BY <1>2, <1>4 DEF Refers
  <2>2. References(i)' = References(i) /\ Runners(i)' = Runners(i)
    BY <1>4, <2>1, ReferencesSame, RunnersSame
  <2> QED
    BY <1>5, <2>2 DEF ReferencesTo
<1>9. /\ proc[p].pc \notin CreatePc \union ClosePc
      /\ proc'[p].pc \notin CreatePc \union ClosePc
  BY <1>2, <1>4 DEF CreatePc, ClosePc, ReleasePc
<1> QED
  BY <1>1, <1>4, <1>5, <1>6, <1>7, <1>8, <1>9, NoDrafts, ProcStep

LEMMA ExitDoneKeeps ==
  ASSUME IInv, NEW p \in Process, ExitDone(p)
  PROVE  IInv'
<1>1. TypeOK /\ Running /\ ~hist.raced /\ hist.clobbered = {}
  BY DEF IInv, Base, ExitDone, At
<1>2. /\ proc[p].pc = "exit" /\ ProcOK(p) /\ proc[p].call = "exit"
      /\ proc[p].opened_files = <<>> /\ proc[p].executable = Nil
  BY <1>1 DEF ExitDone, At, Running, ProcOK
<1>3. proc' = [proc EXCEPT ![p] = Idle]
  BY DEF ExitDone
<1>4. proc' \in [Process -> ProcRecord] /\ OthersSame(p) /\ proc'[p] = Idle
  BY <1>1, <1>3, IdleIs, NewRecord
<1>5. UNCHANGED <<disk, freeMap, inode, fsLock, hist>>
  BY DEF ExitDone
<1>6. TypeOK' /\ SectorsSame
  BY <1>1, <1>4, <1>5 DEF TypeOK, SectorsSame
<1>7. ProcOK(p)' /\ FoundOK(p)'
  BY <1>2, <1>4, <1>5 DEF ProcOK, FoundOK, LockCall, CreatePc, ClosePc, InodePc, ReleasePc, Idle
<1>8. \A i \in Inode : ReferencesTo(i)' = ReferencesTo(i) /\ Runners(i)' = Runners(i)
  <2> TAKE i \in Inode
  <2>1. \A k \in 0 .. OpenFiles : Refers(p, k, i)' <=> Refers(p, k, i)
    BY <1>2, <1>4 DEF Refers, Idle
  <2>2. References(i)' = References(i) /\ Runners(i)' = Runners(i)
    BY <1>2, <1>4, <2>1, ReferencesSame, RunnersSame DEF Idle
  <2> QED
    BY <1>5, <2>2 DEF ReferencesTo
<1>9. /\ proc[p].pc \notin CreatePc \union ClosePc
      /\ proc'[p].pc \notin CreatePc \union ClosePc
  BY <1>2, <1>4 DEF CreatePc, ClosePc, ReleasePc, Idle
<1> QED
  BY <1>1, <1>4, <1>5, <1>6, <1>7, <1>8, <1>9, NoDrafts, ProcStep

LEMMA FindKeeps ==
  ASSUME IInv, ~hist.raced, NEW p \in Process, NEW call \in {"open", "remove", "load"},
         NEW n \in Name, Find(p, call, n),
         proc[p].pc = IF call = "load" THEN "none" ELSE "user",
         call = "open" => Len(proc[p].opened_files) < OpenFiles
  PROVE  IInv'
<1>1. TypeOK /\ Running /\ hist.clobbered = {} /\ proc[p] \in ProcRecord
  BY ProcTypes DEF IInv, Base
<1>2. ProcOK(p) /\ proc[p].call = "none" /\ proc[p].pc \in {"none", "user"}
  BY <1>1 DEF Running, ProcOK
<1>3. PICK e \in disk.dir :
        proc' = [proc EXCEPT ![p] = [@ EXCEPT !.pc = "search", !.call = call, !.sector = e.sector]]
  BY DEF Find
<1>4. /\ UNCHANGED <<disk, freeMap, inode>> /\ fsLock' = p /\ fsLock = Nobody
      /\ e.sector \in Sector
  BY <1>1, StateTypes DEF Find
<1>5. /\ hist' \in HistRecord /\ hist'.lost = hist.lost /\ hist'.clobbered = hist.clobbered
      /\ hist'.stranded = hist.stranded
  <2> DEFINE Q == { q \in Process : proc[q].pc = "unlink_prev" }
  <2>1. hist' = [hist EXCEPT !.halfOut = Q] /\ Q \in SUBSET Process /\ hist \in HistRecord
    BY <1>1 DEF Find, TypeOK
  <2> HIDE DEF Q
  <2> QED
    BY <2>1 DEF HistRecord
<1> DEFINE r == [proc[p] EXCEPT !.pc = "search", !.call = call, !.sector = e.sector]
<1>6. proc' = [proc EXCEPT ![p] = r]
  BY <1>1, <1>3 DEF TypeOK
<1>7. /\ r \in ProcRecord /\ r.pc = "search" /\ r.call = call /\ r.name = proc[p].name
      /\ r.sector = e.sector /\ r.data = proc[p].data /\ r.inode = proc[p].inode
      /\ r.opened_files = proc[p].opened_files /\ r.executable = proc[p].executable
  BY <1>1, <1>4 DEF ProcRecord, Pc
<1> HIDE DEF r
<1>8. proc' \in [Process -> ProcRecord] /\ OthersSame(p) /\ proc'[p] = r
  BY <1>1, <1>6, <1>7, NewRecord
<1>9. TypeOK' /\ SectorsSame
  BY <1>1, <1>4, <1>5, <1>8 DEF TypeOK, SectorsSame
<1>10. ProcOK(p)'
  BY <1>2, <1>4, <1>7, <1>8 DEF ProcOK, LockCall, CreatePc, ClosePc, InodePc, ReleasePc
<1>11. FoundOK(p)'
  BY <1>4, <1>7, <1>8 DEF FoundOK
<1>12. \A k \in Inode : ReferencesTo(k)' = ReferencesTo(k) /\ Runners(k)' = Runners(k)
  <2> TAKE k \in Inode
  <2>1. \A j \in 0 .. OpenFiles : Refers(p, j, k)' <=> Refers(p, j, k)
    BY <1>2, <1>7, <1>8 DEF Refers
  <2>2. References(k)' = References(k) /\ Runners(k)' = Runners(k)
    BY <1>7, <1>8, <2>1, ReferencesSame, RunnersSame
  <2> QED
    BY <1>5, <2>2 DEF ReferencesTo
<1>13. /\ proc[p].pc \notin CreatePc \union ClosePc
       /\ proc'[p].pc \notin CreatePc \union ClosePc
  BY <1>2, <1>7, <1>8 DEF CreatePc, ClosePc, ReleasePc
<1>14. \A q \in Process \ {p} : fsLock' = q <=> fsLock = q
  BY <1>4, FileSystemAssumption
<1> QED
  BY <1>1, <1>4, <1>8, <1>9, <1>10, <1>11, <1>12, <1>13, <1>14, NoDrafts, ProcStep

LEMMA SearchKeeps ==
  ASSUME IInv, NEW p \in Process, Search(p)
  PROVE  IInv'
<1>1. /\ TypeOK /\ Running /\ ~hist.raced /\ hist.clobbered = {} /\ proc[p] \in ProcRecord
      /\ proc[p].pc = "search" /\ UNCHANGED <<disk, freeMap, inode, fsLock, hist>>
  BY ProcTypes DEF IInv, Base, Search, At
<1>2. ProcOK(p) /\ proc[p].call \in {"open", "remove", "load"} /\ FoundOK(p)
  BY <1>1 DEF Running, ProcOK
<1>3. PICK i \in Inode \union {Nil} :
        /\ IF i = Nil
           THEN \A k \in Inode : inode[k].listed => inode[k].sector # proc[p].sector
           ELSE inode[i].listed /\ inode[i].sector = proc[p].sector
        /\ proc' = [proc EXCEPT ![p] = [@ EXCEPT
             !.pc = "found", !.inode = i,
             !.sector = IF i = Nil THEN proc[p].sector ELSE 0]]
  BY DEF Search
<1>4. PICK e \in disk.dir : e.sector = proc[p].sector /\ e.sector \in Sector
  BY <1>1, <1>2, StateTypes DEF FoundOK
<1> DEFINE s == IF i = Nil THEN proc[p].sector ELSE 0
           r == [proc[p] EXCEPT !.pc = "found", !.inode = i, !.sector = s]
<1>5. s \in Sector
  BY <1>4, SectorNumbers
<1>6. proc' = [proc EXCEPT ![p] = r]
  BY <1>1, <1>3 DEF TypeOK
<1> HIDE DEF s
<1>7. /\ r \in ProcRecord /\ r.pc = "found" /\ r.call = proc[p].call /\ r.name = proc[p].name
      /\ r.sector = s /\ r.data = proc[p].data /\ r.inode = i
      /\ r.opened_files = proc[p].opened_files /\ r.executable = proc[p].executable
  BY <1>1, <1>5 DEF ProcRecord, Pc
<1> HIDE DEF r
<1>8. proc' \in [Process -> ProcRecord] /\ OthersSame(p) /\ proc'[p] = r
  BY <1>1, <1>6, <1>7, NewRecord
<1>9. TypeOK' /\ SectorsSame
  BY <1>1, <1>8 DEF TypeOK, SectorsSame
<1>10. ProcOK(p)'
  BY <1>1, <1>2, <1>7, <1>8 DEF ProcOK, LockCall, CreatePc, ClosePc, InodePc, ReleasePc
<1>11. FoundOK(p)'
  <2>1. CASE i = Nil
    <3>1. /\ proc'[p].inode = Nil /\ proc'[p].sector = e.sector /\ disk' = disk /\ inode' = inode
          /\ \A k \in Inode : inode[k].listed => inode[k].sector # e.sector
      BY <1>1, <1>3, <1>4, <1>7, <1>8, <2>1 DEF s
    <3> QED
      BY <1>7, <1>8, <3>1 DEF FoundOK
  <2>2. CASE i # Nil
    <3>1. i \in Inode /\ inode[i].listed /\ inode[i].sector = e.sector /\ ListedOK(i)
      BY <1>1, <1>3, <1>4, <2>2 DEF Running
    <3>2. inode[i].live
      BY <3>1 DEF ListedOK, Freed
    <3>3. ~inode[i].removed
      <4> SUFFICES ASSUME Orphan(i) PROVE FALSE
        BY <3>2 DEF Orphan
      <4>1. ~Released(i)
        BY <3>1 DEF IInv, Base, ReleaseOK, ReleasePc, Released
      <4>2. InOrphan(e.sector, i) /\ InFile(e.sector, e)
        BY <3>1, <4>1 DEF InOrphan, InFile, Sectors
      <4> QED
        BY <1>4, <3>1, <4>2 DEF IInv, Base, Apart
    <3> QED
      BY <1>1, <1>7, <1>8, <2>2, <3>1, <3>2, <3>3 DEF FoundOK, Alive
  <2> QED
    BY <2>1, <2>2
<1>12. \A k \in Inode : ReferencesTo(k)' = ReferencesTo(k) /\ Runners(k)' = Runners(k)
  <2> TAKE k \in Inode
  <2>1. \A j \in 0 .. OpenFiles : Refers(p, j, k)' <=> Refers(p, j, k)
    BY <1>1, <1>7, <1>8 DEF Refers
  <2>2. References(k)' = References(k) /\ Runners(k)' = Runners(k)
    BY <1>7, <1>8, <2>1, ReferencesSame, RunnersSame
  <2> QED
    BY <1>1, <2>2 DEF ReferencesTo
<1>13. /\ proc[p].pc \notin CreatePc \union ClosePc
       /\ proc'[p].pc \notin CreatePc \union ClosePc
  BY <1>1, <1>7, <1>8 DEF CreatePc, ClosePc, ReleasePc
<1> QED
  BY <1>1, <1>8, <1>9, <1>10, <1>11, <1>12, <1>13, NoDrafts, ProcStep

LEMMA LoadFailsKeeps ==
  ASSUME IInv, NEW p \in Process, LoadFails(p)
  PROVE  IInv'
<1>1. TypeOK /\ Running /\ ~hist.raced /\ hist.clobbered = {} /\ hist.stranded = Nil
  BY DEF IInv, Base, LoadFails, At
<1>2. /\ proc[p].pc = "loading" /\ ProcOK(p) /\ proc[p].call = "load"
      /\ proc[p].inode \in Inode /\ fsLock = p
      /\ proc[p].opened_files = <<>> /\ proc[p].executable = Nil
  BY <1>1, ProcTypes DEF LoadFails, At, Running, ProcOK, InodePc, LockCall
<1>3. proc' = [proc EXCEPT ![p] = Forget(@, "exit")]
  BY DEF LoadFails
<1>4. /\ proc' \in [Process -> ProcRecord] /\ OthersSame(p)
      /\ proc'[p].pc = "exit" /\ proc'[p].call = "exit" /\ proc'[p].sector = 0
      /\ proc'[p].data = {} /\ proc'[p].inode = Nil
      /\ proc'[p].opened_files = proc[p].opened_files
      /\ proc'[p].executable = proc[p].executable
  BY <1>1, <1>3, ForgotIs
<1>5. /\ UNCHANGED <<disk, freeMap, inode>> /\ fsLock' = Nobody
      /\ hist' = [hist EXCEPT !.stranded = proc[p].inode]
  BY DEF LoadFails
<1>6. /\ hist' \in HistRecord /\ hist'.lost = hist.lost /\ hist'.clobbered = hist.clobbered
      /\ hist'.raced = hist.raced /\ hist'.stranded = proc[p].inode
  BY <1>1, <1>2, <1>5 DEF TypeOK, HistRecord
<1>7. TypeOK' /\ SectorsSame
  BY <1>1, <1>4, <1>5, <1>6 DEF TypeOK, SectorsSame
<1>8. fsLock' # p /\ \A q \in Process \ {p} : fsLock' = q <=> fsLock = q
  BY <1>2, <1>5, FileSystemAssumption
<1>9. ProcOK(p)' /\ FoundOK(p)'
  BY <1>2, <1>4, <1>8 DEF ProcOK, FoundOK, LockCall, CreatePc, ClosePc, InodePc, ReleasePc
<1>10. \A i \in Inode : ReferencesTo(i)' = ReferencesTo(i) /\ Runners(i)' = Runners(i)
  <2> TAKE i \in Inode
  <2>1. Runners(i)' = Runners(i)
    BY <1>4, RunnersSame
  <2>2. \A k \in 0 .. OpenFiles : /\ Refers(p, k, i) <=> k = 0 /\ i = proc[p].inode
                                  /\ ~Refers(p, k, i)'
    BY <1>2, <1>4 DEF Refers
  <2>3. 0 \in 0 .. OpenFiles
    BY FileSystemAssumption
  <2>4. CASE i = proc[p].inode
    <3>1. Cardinality(References(i)') = Cardinality(References(i)) - 1
      BY <1>4, <2>2, <2>3, <2>4, ReferencesShrink
    <3>2. hist.stranded # i /\ hist'.stranded = i
      BY <1>1, <1>2, <1>6, <2>4 DEF Nil, Inode
    <3> QED
      BY <2>1, <3>1, <3>2, ReferencesFinite DEF ReferencesTo
  <2>5. CASE i # proc[p].inode
    <3>1. References(i)' = References(i)
      BY <1>4, <2>2, <2>5, ReferencesSame
    <3>2. hist.stranded # i /\ hist'.stranded # i
      BY <1>1, <1>6, <2>5 DEF Nil, Inode
    <3> QED
      BY <2>1, <3>1, <3>2 DEF ReferencesTo
  <2> QED
    BY <2>4, <2>5
<1>11. /\ proc[p].pc \notin CreatePc \union ClosePc
       /\ proc'[p].pc \notin CreatePc \union ClosePc
  BY <1>2, <1>4 DEF CreatePc, ClosePc, ReleasePc
<1> QED
  BY <1>1, <1>4, <1>5, <1>7, <1>8, <1>9, <1>10, <1>11, NoDrafts, ProcStep

LEMMA RemovedAt ==
  ASSUME NEW files \in Seq(Inode), NEW k \in 1 .. Len(files)
  PROVE  LET f == Seqs!RemoveAt(files, k)
         IN  /\ f \in Seq(Inode) /\ Len(f) = Len(files) - 1
             /\ \A j \in 1 .. Len(files) - 1 : f[j] = IF j < k THEN files[j] ELSE files[j + 1]
<1> DEFINE n == Len(files)
           front == SubSeq(files, 1, k - 1)
           back == SubSeq(files, k + 1, n)
<1>1. n \in Nat /\ k \in 1 .. n /\ \A j \in 1 .. n : files[j] \in Inode
  BY LenProperties
<1> HIDE DEF n
<1>2. /\ front \in Seq(Inode) /\ Len(front) = k - 1
      /\ \A j \in 1 .. k - 1 : front[j] = files[j]
  <2>1. /\ 1 \in Int /\ k - 1 \in Int /\ \A j \in 1 .. k - 1 : files[j] \in Inode
        /\ (IF 1 <= k - 1 THEN (k - 1) - 1 + 1 ELSE 0) = k - 1
        /\ \A j \in 1 .. k - 1 : j \in 1 .. (k - 1) - 1 + 1 /\ 1 + j - 1 = j
    BY <1>1
  <2>2. /\ front \in Seq(Inode) /\ Len(front) = IF 1 <= k - 1 THEN (k - 1) - 1 + 1 ELSE 0
        /\ \A j \in 1 .. (k - 1) - 1 + 1 : front[j] = files[1 + j - 1]
    BY <2>1, SubSeqProperties
  <2> QED
    BY <2>1, <2>2
<1>3. /\ back \in Seq(Inode) /\ Len(back) = n - k
      /\ \A j \in 1 .. n - k : back[j] = files[k + j]
  <2>1. /\ k + 1 \in Int /\ n \in Int /\ \A j \in k + 1 .. n : files[j] \in Inode
        /\ (IF k + 1 <= n THEN n - (k + 1) + 1 ELSE 0) = n - k
        /\ \A j \in 1 .. n - k : j \in 1 .. n - (k + 1) + 1 /\ (k + 1) + j - 1 = k + j
    BY <1>1
  <2>2. /\ back \in Seq(Inode) /\ Len(back) = IF k + 1 <= n THEN n - (k + 1) + 1 ELSE 0
        /\ \A j \in 1 .. n - (k + 1) + 1 : back[j] = files[(k + 1) + j - 1]
    BY <2>1, SubSeqProperties
  <2> QED
    BY <2>1, <2>2
<1> HIDE DEF front, back
<1> DEFINE f == front \o back
<1>4. /\ f \in Seq(Inode) /\ Len(f) = (k - 1) + (n - k)
      /\ \A j \in 1 .. (k - 1) + (n - k) : f[j] = IF j <= k - 1 THEN front[j] ELSE back[j - (k - 1)]
  <2>1. /\ f \in Seq(Inode) /\ Len(f) = Len(front) + Len(back)
        /\ \A j \in 1 .. Len(front) + Len(back) :
             f[j] = IF j <= Len(front) THEN front[j] ELSE back[j - Len(front)]
    BY <1>2, <1>3, ConcatProperties
  <2> QED
    BY <1>2, <1>3, <2>1
<1> HIDE DEF f
<1>5. Len(f) = n - 1
  BY <1>1, <1>4
<1>6. ASSUME NEW j \in 1 .. n - 1 PROVE f[j] = IF j < k THEN files[j] ELSE files[j + 1]
  <2>1. j \in 1 .. (k - 1) + (n - k)
    BY <1>1
  <2>2. CASE j < k
    <3>1. j <= k - 1 /\ j \in 1 .. k - 1
      BY <1>1, <2>2
    <3> QED
      BY <1>2, <1>4, <2>1, <2>2, <3>1
  <2>3. CASE ~(j < k)
    <3>1. ~(j <= k - 1) /\ j - (k - 1) \in 1 .. n - k /\ k + (j - (k - 1)) = j + 1
      BY <1>1, <2>3
    <3>2. f[j] = back[j - (k - 1)]
      BY <1>4, <2>1, <3>1
    <3> QED
      BY <1>3, <2>3, <3>1, <3>2
  <2> QED
    BY <2>2, <2>3
<1> QED
  BY <1>4, <1>5, <1>6 DEF f, n, front, back, Seqs!RemoveAt

LEMMA TailRemoves ==
  ASSUME NEW files \in Seq(Inode), files # <<>>
  PROVE  /\ 1 \in 1 .. Len(files) /\ Head(files) = files[1]
         /\ Tail(files) \in Seq(Inode) /\ Len(Tail(files)) = Len(files) - 1
         /\ \A j \in 1 .. Len(files) - 1 : Tail(files)[j] = IF j < 1 THEN files[j] ELSE files[j + 1]
<1>1. Len(files) \in Nat /\ Len(files) # 0
  BY EmptySeq, LenProperties
<1>2. /\ Tail(files) \in Seq(Inode) /\ Len(Tail(files)) = Len(files) - 1
      /\ \A j \in 1 .. Len(Tail(files)) : Tail(files)[j] = files[j + 1]
  BY HeadTailProperties
<1>3. Head(files) = files[1]
  OBVIOUS
<1> QED
  BY <1>1, <1>2, <1>3

\* The k-th open file of p is taken in hand: the references are as many.
LEMMA TakenInHand ==
  ASSUME TypeOK, NEW p \in Process, OthersSame(p), NEW k \in 1 .. Len(proc[p].opened_files),
         proc[p].pc \notin {"loading", "drop"}, proc'[p].pc = "drop",
         proc'[p].inode = proc[p].opened_files[k],
         proc'[p].opened_files \in Seq(Inode),
         Len(proc'[p].opened_files) = Len(proc[p].opened_files) - 1,
         \A j \in 1 .. Len(proc[p].opened_files) - 1 :
           proc'[p].opened_files[j] = IF j < k THEN proc[p].opened_files[j]
                                      ELSE proc[p].opened_files[j + 1],
         proc'[p].executable = proc[p].executable, hist' = hist, NEW i
  PROVE  ReferencesTo(i)' = ReferencesTo(i) /\ Runners(i)' = Runners(i)
<1> DEFINE f == proc[p].opened_files
           g == proc'[p].opened_files
           n == Len(f)
<1>1. f \in Seq(Inode) /\ n \in 0 .. OpenFiles /\ OpenFiles \in Nat
  BY ProcTypes, FileSystemAssumption
<1>2. DOMAIN f = 1 .. n /\ DOMAIN g = 1 .. n - 1
  BY <1>1, LenProperties
<1>3. /\ \A j : Refers(p, j, i) <=> j \in 1 .. n /\ f[j] = i
      /\ \A j : Refers(p, j, i)' <=> \/ j = 0 /\ f[k] = i
                                     \/ j \in 1 .. n - 1 /\ g[j] = i
  BY <1>2 DEF Refers
<1>4. \A j \in 1 .. n - 1 : g[j] = IF j < k THEN f[j] ELSE f[j + 1]
  OBVIOUS
<1>5. k \in 1 .. n
  OBVIOUS
<1> HIDE DEF f, g, n
<1>6. k \in 1 .. OpenFiles /\ ~Refers(p, 0, i) /\ (Refers(p, 0, i)' <=> Refers(p, k, i))
  BY <1>1, <1>3, <1>5
<1>7. ASSUME NEW j \in 1 .. OpenFiles
      PROVE  Refers(p, j, i)' <=>
               IF j < k THEN Refers(p, j, i) ELSE j < OpenFiles /\ Refers(p, j + 1, i)
  <2>1. j # 0 /\ j \in Nat
    BY <1>1
  <2>2. CASE j < k
    <3>1. j \in 1 .. n - 1 /\ j \in 1 .. n
      BY <1>1, <1>5, <2>2
    <3> QED
      BY <1>3, <1>4, <2>1, <2>2, <3>1
  <2>3. CASE ~(j < k) /\ j \in 1 .. n - 1
    <3>1. j < OpenFiles /\ j + 1 \in 1 .. n
      BY <1>1, <2>3
    <3> QED
      BY <1>3, <1>4, <2>1, <2>3, <3>1
  <2>4. CASE ~(j < k) /\ j \notin 1 .. n - 1
    <3>1. j + 1 \notin 1 .. n
      BY <1>1, <2>1, <2>4
    <3> QED
      BY <1>3, <2>1, <2>4, <3>1
  <2> QED
    BY <2>2, <2>3, <2>4
<1>8. Cardinality(References(i)') = Cardinality(References(i))
  BY <1>6, <1>7, ReferencesMove
<1>9. Runners(i)' = Runners(i)
  BY RunnersSame
<1> QED
  BY <1>8, <1>9 DEF ReferencesTo

LEMMA CloseKeeps ==
  ASSUME IInv, NEW p \in Process, NEW k \in DOMAIN proc[p].opened_files, Close(p, k)
  PROVE  IInv'
<1>1. TypeOK /\ Running /\ ~hist.raced /\ hist.clobbered = {} /\ proc[p] \in ProcRecord
  BY ProcTypes DEF IInv, Base, Close, At
<1>2. /\ proc[p].pc = "user" /\ ProcOK(p) /\ proc[p].call = "none"
      /\ proc[p].sector = 0 /\ proc[p].data = {}
  BY <1>1 DEF Close, At, Running, ProcOK, CreatePc, InodePc, ClosePc, ReleasePc
<1>3. proc[p].opened_files \in Seq(Inode) /\ Len(proc[p].opened_files) \in 0 .. OpenFiles
  BY <1>1, ProcTypes
<1>4. k \in 1 .. Len(proc[p].opened_files) /\ proc[p].opened_files[k] \in Inode
  BY <1>3, LenProperties
<1> DEFINE f == Seqs!RemoveAt(proc[p].opened_files, k)
           i == proc[p].opened_files[k]
           r == [proc[p] EXCEPT !.pc = "drop", !.call = "close",
                                !.inode = i, !.opened_files = f]
<1>5. /\ f \in Seq(Inode) /\ Len(f) = Len(proc[p].opened_files) - 1
      /\ \A j \in 1 .. Len(proc[p].opened_files) - 1 :
           f[j] = IF j < k THEN proc[p].opened_files[j] ELSE proc[p].opened_files[j + 1]
  BY <1>3, <1>4, RemovedAt
<1>6. f \in UNION { [1 .. n -> Inode] : n \in 0 .. OpenFiles }
  <2>1. Len(f) <= OpenFiles
    BY <1>3, <1>4, <1>5, FileSystemAssumption
  <2> QED
    BY <1>5, <2>1, FilesAreSeqs
<1>7. proc' = [proc EXCEPT ![p] = r]
  BY DEF Close
<1> HIDE DEF f, i
<1>8. /\ r \in ProcRecord /\ r.pc = "drop" /\ r.call = "close" /\ r.name = proc[p].name
      /\ r.sector = proc[p].sector /\ r.data = proc[p].data /\ r.inode = i
      /\ r.opened_files = f /\ r.executable = proc[p].executable
  BY <1>1, <1>4, <1>6 DEF ProcRecord, Pc, i
<1> HIDE DEF r
<1>9. proc' \in [Process -> ProcRecord] /\ OthersSame(p) /\ proc'[p] = r
  BY <1>1, <1>7, <1>8, NewRecord
<1>10. UNCHANGED <<disk, freeMap, inode, hist>> /\ fsLock' = p /\ fsLock = Nobody
  BY DEF Close
<1>11. TypeOK' /\ SectorsSame
  BY <1>1, <1>9, <1>10 DEF TypeOK, SectorsSame
<1>12. ProcOK(p)' /\ FoundOK(p)'
  <2>1. i # Nil
    BY <1>4, InodesAreNumbers DEF i, Nil
  <2> QED
    BY <1>2, <1>8, <1>9, <1>10, <2>1
       DEF ProcOK, FoundOK, LockCall, CreatePc, ClosePc, InodePc, ReleasePc
<1>13. \A x \in Inode : ReferencesTo(x)' = ReferencesTo(x) /\ Runners(x)' = Runners(x)
  BY <1>1, <1>2, <1>4, <1>5, <1>8, <1>9, <1>10, TakenInHand DEF i
<1>14. /\ proc[p].pc \notin CreatePc \union ClosePc
       /\ proc'[p].pc \notin CreatePc \union ClosePc
  BY <1>2, <1>8, <1>9 DEF CreatePc, ClosePc, ReleasePc
<1>15. \A q \in Process \ {p} : fsLock' = q <=> fsLock = q
  BY <1>10, FileSystemAssumption
<1> QED
  BY <1>1, <1>9, <1>10, <1>11, <1>12, <1>13, <1>14, <1>15, NoDrafts, ProcStep

LEMMA ExitFileKeeps ==
  ASSUME IInv, NEW p \in Process, ExitFile(p)
  PROVE  IInv'
<1>1. TypeOK /\ Running /\ ~hist.raced /\ hist.clobbered = {} /\ proc[p] \in ProcRecord
  BY ProcTypes DEF IInv, Base, ExitFile, At
<1>2. /\ proc[p].pc = "exit" /\ ProcOK(p) /\ proc[p].call = "exit"
      /\ proc[p].sector = 0 /\ proc[p].data = {} /\ proc[p].opened_files # <<>>
  BY <1>1 DEF ExitFile, At, Running, ProcOK, CreatePc, InodePc, ClosePc, ReleasePc
<1>3. proc[p].opened_files \in Seq(Inode) /\ Len(proc[p].opened_files) \in 0 .. OpenFiles
  BY <1>1, ProcTypes
<1> DEFINE f == Tail(proc[p].opened_files)
           i == proc[p].opened_files[1]
           r == [proc[p] EXCEPT !.pc = "drop", !.inode = Head(proc[p].opened_files),
                                !.opened_files = f]
<1>4. /\ 1 \in 1 .. Len(proc[p].opened_files) /\ i \in Inode
      /\ Head(proc[p].opened_files) = i
  BY <1>2, <1>3, TailRemoves, LenProperties
<1>5. /\ f \in Seq(Inode) /\ Len(f) = Len(proc[p].opened_files) - 1
      /\ \A j \in 1 .. Len(proc[p].opened_files) - 1 :
           f[j] = IF j < 1 THEN proc[p].opened_files[j] ELSE proc[p].opened_files[j + 1]
  BY <1>2, <1>3, TailRemoves
<1>6. f \in UNION { [1 .. n -> Inode] : n \in 0 .. OpenFiles }
  <2>1. Len(f) <= OpenFiles
    BY <1>3, <1>4, <1>5, FileSystemAssumption
  <2> QED
    BY <1>5, <2>1, FilesAreSeqs
<1>7. proc' = [proc EXCEPT ![p] = r]
  BY DEF ExitFile
<1> HIDE DEF f, i
<1>8. /\ r \in ProcRecord /\ r.pc = "drop" /\ r.call = proc[p].call /\ r.name = proc[p].name
      /\ r.sector = proc[p].sector /\ r.data = proc[p].data /\ r.inode = i
      /\ r.opened_files = f /\ r.executable = proc[p].executable
  BY <1>1, <1>4, <1>6 DEF ProcRecord, Pc
<1> HIDE DEF r
<1>9. proc' \in [Process -> ProcRecord] /\ OthersSame(p) /\ proc'[p] = r
  BY <1>1, <1>7, <1>8, NewRecord
<1>10. UNCHANGED <<disk, freeMap, inode, fsLock, hist>>
  BY DEF ExitFile
<1>11. TypeOK' /\ SectorsSame
  BY <1>1, <1>9, <1>10 DEF TypeOK, SectorsSame
<1>12. ProcOK(p)' /\ FoundOK(p)'
  <2>1. i # Nil
    BY <1>4, InodesAreNumbers DEF Nil
  <2> QED
    BY <1>2, <1>8, <1>9, <1>10, <2>1
       DEF ProcOK, FoundOK, LockCall, CreatePc, ClosePc, InodePc, ReleasePc
<1>13. \A x \in Inode : ReferencesTo(x)' = ReferencesTo(x) /\ Runners(x)' = Runners(x)
  BY <1>1, <1>2, <1>4, <1>5, <1>8, <1>9, <1>10, TakenInHand DEF i
<1>14. /\ proc[p].pc \notin CreatePc \union ClosePc
       /\ proc'[p].pc \notin CreatePc \union ClosePc
  BY <1>2, <1>8, <1>9 DEF CreatePc, ClosePc, ReleasePc
<1> QED
  BY <1>1, <1>9, <1>10, <1>11, <1>12, <1>13, <1>14, NoDrafts, ProcStep

-------------------------------------------------------------------------------
(***************************************************************************)
(* Steps that change one inode in memory, and nothing of an orphan.        *)
(***************************************************************************)
InodesSame(i) == \A k \in Inode \ {i} : inode'[k] = inode[k]

LEMMA InodeStepBase ==
  ASSUME Base, NEW p \in Process, TypeOK', SectorsSame, OthersSame(p),
         NEW i \in Inode, InodesSame(i), Orphan(i)' <=> Orphan(i),
         Orphan(i) => inode'[i].sector = inode[i].sector /\ inode'[i].data = inode[i].data,
         \A q \in Process : proc[q].pc \in ReleasePc => proc[q].inode # i,
         proc[p].pc \notin CreatePc \union ReleasePc,
         proc'[p].pc \notin CreatePc \union {"release_data"},
         ReleaseOK(p)', InodeOK(i)'
  PROVE  Base'
<1>1. ASSUME NEW k \in Inode, NEW s \in Sector PROVE InOrphan(s, k)' <=> InOrphan(s, k)
  <2>1. /\ Orphan(k)' <=> Orphan(k)
        /\ Orphan(k) => inode'[k].sector = inode[k].sector /\ inode'[k].data = inode[k].data
    BY DEF InodesSame, Orphan
  <2>2. proc[p].pc # "release_data" /\ proc'[p].pc # "release_data"
    BY DEF ReleasePc
  <2> QED
    BY <2>1, <2>2, OrphansStay
<1>2. /\ \A s \in Sector, q \in Process : InDraft(s, q)' <=> InDraft(s, q)
      /\ DraftOK(p)'
  BY NoDrafts, DraftsStay
<1>3. Marked' /\ Apart' /\ FilesOK'
  BY <1>1, <1>2, SectorsStay
<1>4. ASSUME NEW q \in Process PROVE DraftOK(q)' /\ ReleaseOK(q)'
  <2>1. DraftOK(q)'
    BY <1>2 DEF Base, DraftOK, OthersSame, SectorsSame
  <2>2. ASSUME q # p PROVE ReleaseOK(q)'
    <3>1. ReleaseOK(q) /\ proc'[q] = proc[q]
      BY <2>2 DEF Base, OthersSame
    <3> SUFFICES ASSUME proc[q].pc \in ReleasePc,
                        NEW x \in Process, proc'[x].pc \in ReleasePc, proc'[x].inode = proc[q].inode
                 PROVE  /\ proc[q].inode \in Inode /\ Orphan(proc[q].inode)'
                        /\ ~inode'[proc[q].inode].listed /\ inode'[proc[q].inode].open_cnt = 0
                        /\ x = q
      BY <3>1 DEF ReleaseOK, Orphan
    <3>2. /\ proc[q].inode \in Inode /\ Orphan(proc[q].inode) /\ proc[q].inode # i
          /\ ~inode[proc[q].inode].listed /\ inode[proc[q].inode].open_cnt = 0
      BY <3>1 DEF ReleaseOK
    <3>3. x = q
      <4>1. CASE x = p
        BY <2>2, <3>1, <4>1 DEF ReleaseOK
      <4>2. CASE x # p
        <5>1. proc'[x] = proc[x]
          BY <4>2 DEF OthersSame
        <5> QED
          BY <3>1, <5>1 DEF ReleaseOK
      <4> QED
        BY <4>1, <4>2
    <3> QED
      BY <3>2, <3>3 DEF Orphan, InodesSame
  <2> QED
    BY <2>1, <2>2
<1>5. ASSUME NEW k \in Inode PROVE InodeOK(k)'
  <2> SUFFICES ASSUME k # i PROVE InodeOK(k)'
    OBVIOUS
  <2>1. inode'[k] = inode[k] /\ InodeOK(k) /\ disk' = disk
    BY DEF InodesSame, Base, SectorsSame
  <2>2. ASSUME NEW x \in Inode,
               \/ Alive(k)' /\ Alive(x)' /\ inode'[k].sector = inode'[x].sector
               \/ /\ ~inode'[k].live /\ inode'[k].open_cnt > 0
                  /\ ~inode'[x].live /\ inode'[x].open_cnt > 0
        PROVE  k = x
    <3>1. CASE x = i
      BY <2>2, <3>1 DEF InodeOK, Alive
    <3>2. CASE x # i
      <4>1. inode'[x] = inode[x]
        BY <3>2 DEF InodesSame
      <4> QED
        BY <2>1, <2>2, <4>1 DEF InodeOK, Alive
    <3> QED
      BY <3>1, <3>2
  <2> QED
    BY <2>1, <2>2 DEF InodeOK, Alive, Orphan
<1> QED
  BY <1>3, <1>4, <1>5 DEF Base, SectorsSame

LEMMA InodeStep ==
  ASSUME IInv, ~hist.raced, NEW p \in Process, TypeOK', OthersSame(p),
         NEW i \in Inode, InodesSame(i), Base',
         \A q \in Process \ {p} : fsLock' = q <=> fsLock = q,
         \A q \in Process \ {p} : proc[q].pc \in ClosePc => proc[q].inode # i,
         proc'[p].pc \in ClosePc => proc'[p].inode = i,
         ProcOK(p)', FoundOK(p)', UnlinkOK(p)',
         \A q \in Process \ {p} : proc[q].pc \in {"search", "found"} => FoundOK(q)',
         ListedOK(i)', \A k \in Inode : CountOK(k)'
  PROVE  IInv'
<1>1. Running
  BY DEF IInv
<1>2. ASSUME NEW q \in Process \ {p} PROVE ProcOK(q)' /\ FoundOK(q)' /\ UnlinkOK(q)'
  <2>1. ProcOK(q)'
    BY <1>1, OthersProcOK
  <2>2. proc'[q] = proc[q] /\ UnlinkOK(q)
    BY <1>1 DEF OthersSame, Running
  <2>3. FoundOK(q)'
    BY <2>2 DEF FoundOK
  <2>4. UnlinkOK(q)'
    <3> SUFFICES ASSUME proc[q].pc \in {"unlink", "unlink_prev"} PROVE UnlinkOK(q)'
      BY <2>2 DEF UnlinkOK
    <3>1. proc[q].inode \in Inode /\ proc[q].inode # i
      BY <1>1, ProcTypes DEF Running, ProcOK, InodePc, ClosePc, IInv, Base
    <3>2. inode'[proc[q].inode] = inode[proc[q].inode]
      BY <3>1 DEF InodesSame
    <3>3. ASSUME NEW x \in Process, proc'[x].pc \in ClosePc, proc'[x].inode = proc[q].inode
          PROVE  x = q
      <4>1. x # p
        BY <3>1, <3>3
      <4>2. proc'[x] = proc[x]
        BY <4>1 DEF OthersSame
      <4> QED
        BY <2>2, <3>3, <4>2 DEF UnlinkOK
    <3> QED
      BY <2>2, <3>2, <3>3 DEF UnlinkOK, Orphan
  <2> QED
    BY <2>1, <2>3, <2>4
<1>3. ASSUME NEW k \in Inode \ {i} PROVE ListedOK(k)'
  BY <1>1 DEF InodesSame, Running, ListedOK, Alive
<1> QED
  BY <1>2, <1>3 DEF IInv, Running

\* An inode that is referred to is open, on the list, and nobody frees it.
LEMMA InUseIsOpen ==
  ASSUME IInv, ~hist.raced, NEW i \in Inode, ReferencesTo(i) > 0
  PROVE  /\ inode[i].open_cnt = ReferencesTo(i) /\ inode[i].live /\ inode[i].listed
         /\ inode[i] # Freed
         /\ \A q \in Process : proc[q].pc \in ClosePc => proc[q].inode # i
<1>1. Running /\ Base
  BY DEF IInv
<1>2. inode[i].open_cnt = ReferencesTo(i) /\ inode[i].open_cnt > 0 /\ ListedOK(i)
  BY <1>1 DEF Running, CountOK
<1>3. inode[i] # Freed
  BY <1>2 DEF Freed
<1>4. inode[i].live
  BY <1>2, <1>3 DEF ListedOK
<1>5. inode[i].listed
  BY <1>2, <1>4 DEF ListedOK
<1>6. ASSUME NEW q \in Process, proc[q].pc \in ClosePc, proc[q].inode = i PROVE FALSE
  <2>1. inode[i].open_cnt = 0
    BY <1>1, <1>6 DEF Base, Running, UnlinkOK, ReleaseOK, ClosePc, Freed
  <2> QED
    BY <1>2, <2>1
<1> QED
  BY <1>2, <1>3, <1>4, <1>5, <1>6

LEMMA LockHolder ==
  ASSUME Running, NEW p \in Process, fsLock = p, NEW q \in Process \ {p}
  PROVE  /\ proc[q].call \notin LockCall
         /\ proc[q].pc \notin CreatePc \union {"search", "found", "loading"}
BY DEF Running, ProcOK, LockCall

LEMMA LoadDoneKeeps ==
  ASSUME IInv, NEW p \in Process, LoadDone(p)
  PROVE  IInv'
<1>1. /\ Base /\ TypeOK /\ Running /\ ~hist.raced /\ hist.clobbered = {}
      /\ proc[p] \in ProcRecord
  BY ProcTypes DEF IInv, Base, LoadDone, At
<1>2. /\ proc[p].pc = "loading" /\ ProcOK(p) /\ proc[p].call = "load"
      /\ proc[p].inode \in Inode /\ proc[p].inode # Nil /\ fsLock = p
      /\ proc[p].opened_files = <<>> /\ proc[p].executable = Nil
  BY <1>1, ProcTypes DEF LoadDone, At, Running, ProcOK, InodePc, LockCall
<1>3. PICK i \in Inode : i = proc[p].inode
  BY <1>2
<1> DEFINE f == Forget(proc[p], "user")
           r == [f EXCEPT !.executable = i]
<1>4. /\ f \in ProcRecord /\ f.pc = "user" /\ f.call = "none" /\ f.name = NoName
      /\ f.sector = 0 /\ f.data = {} /\ f.inode = Nil
      /\ f.opened_files = proc[p].opened_files
  BY <1>1, ForgetIs
<1>5. proc' = [proc EXCEPT ![p] = r]
  BY <1>3 DEF LoadDone
<1> HIDE DEF f
<1>6. /\ r \in ProcRecord /\ r.pc = "user" /\ r.call = "none" /\ r.name = NoName
      /\ r.sector = 0 /\ r.data = {} /\ r.inode = Nil
      /\ r.opened_files = <<>> /\ r.executable = i
  BY <1>2, <1>4 DEF ProcRecord
<1> HIDE DEF r
<1>7. proc' \in [Process -> ProcRecord] /\ OthersSame(p) /\ proc'[p] = r
  BY <1>1, <1>5, <1>6, NewRecord
<1>8. /\ UNCHANGED <<disk, freeMap, hist>> /\ fsLock' = Nobody
      /\ inode' = [inode EXCEPT ![i].deny_write_cnt = @ + 1]
  BY <1>3 DEF LoadDone
<1>9. /\ inode' \in [Inode -> InodeRecord] /\ InodesSame(i)
      /\ inode'[i].deny_write_cnt = inode[i].deny_write_cnt + 1
      /\ inode'[i].sector = inode[i].sector /\ inode'[i].data = inode[i].data
      /\ inode'[i].open_cnt = inode[i].open_cnt /\ (inode'[i].removed <=> inode[i].removed)
      /\ (inode'[i].listed <=> inode[i].listed) /\ (inode'[i].live <=> inode[i].live)
  BY <1>1, <1>8 DEF TypeOK, InodeRecord, InodesSame
<1>10. TypeOK' /\ SectorsSame
  BY <1>1, <1>7, <1>8, <1>9 DEF TypeOK, SectorsSame
<1>11. \A k \in 0 .. OpenFiles, x \in Inode : /\ Refers(p, k, x) <=> k = 0 /\ x = i
                                             /\ ~Refers(p, k, x)'
  BY <1>2, <1>3, <1>6, <1>7 DEF Refers
<1>12. 0 \in 0 .. OpenFiles
  BY FileSystemAssumption
<1>13. /\ inode[i].open_cnt = ReferencesTo(i) /\ inode[i].live /\ inode[i].listed
       /\ \A q \in Process : proc[q].pc \in ClosePc => proc[q].inode # i
  <2>1. ReferencesTo(i) > 0
    BY <1>11, <1>12, ReferencesPositive
  <2> QED
    BY <1>1, <2>1, InUseIsOpen
<1>14. InodeOK(i)'
  <2>1. InodeOK(i)
    BY <1>1 DEF Base
  <2> QED
    BY <1>8, <1>9, <1>13, <2>1 DEF InodeOK, Alive, Orphan, InodesSame
<1>15. Base'
  <2>1. Orphan(i)' <=> Orphan(i)
    BY <1>9 DEF Orphan
  <2>2. /\ proc[p].pc \notin CreatePc \union ReleasePc
        /\ proc'[p].pc \notin CreatePc \union ReleasePc
    BY <1>2, <1>6, <1>7 DEF CreatePc, ReleasePc
  <2>3. ReleaseOK(p)' /\ proc'[p].pc # "release_data"
    BY <2>2 DEF ReleaseOK, ReleasePc
  <2> QED
    BY <1>1, <1>7, <1>9, <1>10, <1>13, <1>14, <2>1, <2>2, <2>3, InodeStepBase DEF ClosePc
<1>16. \A q \in Process \ {p} : fsLock' = q <=> fsLock = q
  BY <1>2, <1>8, FileSystemAssumption
<1>17. ProcOK(p)' /\ FoundOK(p)' /\ UnlinkOK(p)' /\ proc'[p].pc \notin ClosePc
  <2>1. fsLock' # p
    BY <1>8, FileSystemAssumption
  <2> QED
    BY <1>6, <1>7, <2>1
       DEF ProcOK, FoundOK, UnlinkOK, LockCall, CreatePc, ClosePc, InodePc, ReleasePc
<1>18. \A q \in Process \ {p} : proc[q].pc \notin {"search", "found"}
  BY <1>1, <1>2, LockHolder
<1>19. ListedOK(i)'
  BY <1>9, <1>13 DEF ListedOK, Alive
<1>20. \A k \in Inode : CountOK(k)'
  <2> TAKE k \in Inode
  <2>1. CountOK(k) /\ inode[k].deny_write_cnt = Cardinality(Runners(k))
    BY <1>1 DEF Running, CountOK
  <2>2. CASE k = i
    <3>1. Cardinality(References(i)') = Cardinality(References(i)) - 1
      BY <1>7, <1>11, <1>12, ReferencesShrink
    <3>2. Cardinality(Runners(i)') = Cardinality(Runners(i)) + 1
      BY <1>2, <1>6, <1>7, RunnersGrow DEF Nil, Inode
    <3>3. ReferencesTo(i)' = ReferencesTo(i)
      BY <1>8, <3>1, <3>2, ReferencesFinite DEF ReferencesTo
    <3> QED
      BY <1>9, <1>13, <2>1, <2>2, <3>2, <3>3 DEF CountOK
  <2>3. CASE k # i
    <3>1. References(k)' = References(k)
      BY <1>7, <1>11, <2>3, ReferencesSame
    <3>2. Runners(k)' = Runners(k)
      <4>1. proc[p].executable # k /\ proc'[p].executable # k
        BY <1>2, <1>6, <1>7, <2>3, InodesAreNumbers DEF Nil
      <4> QED
        BY <1>7, <4>1, RunnersSame
    <3> QED
      BY <1>8, <1>9, <2>1, <2>3, <3>1, <3>2 DEF CountOK, ReferencesTo, InodesSame
  <2> QED
    BY <2>2, <2>3
<1> QED
  BY <1>1, <1>7, <1>9, <1>10, <1>13, <1>15, <1>16, <1>17, <1>18, <1>19, <1>20, InodeStep

LEMMA ReturnIs ==
  ASSUME TypeOK, NEW p \in Process, Return(p)
  PROVE  /\ proc' \in [Process -> ProcRecord] /\ OthersSame(p)
         /\ proc'[p].pc = IF proc[p].call = "exit" THEN "exit" ELSE "user"
         /\ proc'[p].call = IF proc[p].call = "exit" THEN "exit" ELSE "none"
         /\ proc'[p].name = NoName
         /\ proc'[p].sector = 0
         /\ proc'[p].data = {}
         /\ proc'[p].inode = Nil
         /\ proc'[p].opened_files = proc[p].opened_files
         /\ proc'[p].executable = proc[p].executable
         /\ fsLock' = IF fsLock = p THEN Nobody ELSE fsLock
         /\ fsLock' # p /\ \A q \in Process \ {p} : fsLock' = q <=> fsLock = q
<1>1. /\ fsLock' = IF fsLock = p THEN Nobody ELSE fsLock
      /\ fsLock' # p /\ \A q \in Process \ {p} : fsLock' = q <=> fsLock = q
  BY FileSystemAssumption DEF Return
<1>2. CASE proc[p].call = "exit"
  <2>1. proc' = [proc EXCEPT ![p] = Forget(@, "exit")]
    BY <1>2 DEF Return
  <2> QED
    BY <1>1, <1>2, <2>1, ForgotIs
<1>3. CASE proc[p].call # "exit"
  <2>1. proc' = [proc EXCEPT ![p] = Forget(@, "user")]
    BY <1>3 DEF Return
  <2> QED
    BY <1>1, <1>3, <2>1, ForgotIs
<1> QED
  BY <1>2, <1>3

LEMMA ReturnProcOK ==
  ASSUME TypeOK, Running, NEW p \in Process, Return(p),
         proc[p].pc \in {"drop", "create_add", "create_undo"} \union ClosePc
  PROVE  /\ ProcOK(p)' /\ FoundOK(p)' /\ UnlinkOK(p)'
         /\ proc'[p].pc \notin CreatePc \union ClosePc \union {"search", "found"}
<1>1. ProcOK(p) /\ proc[p].call \in {"open", "remove", "close", "exit", "create"}
  BY DEF Running, ProcOK, CreatePc
<1>2. /\ proc'[p].pc = IF proc[p].call = "exit" THEN "exit" ELSE "user"
      /\ proc'[p].call = IF proc[p].call = "exit" THEN "exit" ELSE "none"
      /\ proc'[p].sector = 0 /\ proc'[p].data = {} /\ proc'[p].inode = Nil
      /\ fsLock' # p
  BY ReturnIs
<1> QED
  BY <1>1, <1>2 DEF ProcOK, FoundOK, UnlinkOK, LockCall, CreatePc, ClosePc, InodePc, ReleasePc

LEMMA ExitExecutableKeeps ==
  ASSUME IInv, NEW p \in Process, ExitExecutable(p)
  PROVE  IInv'
<1>1. /\ Base /\ TypeOK /\ Running /\ ~hist.raced /\ hist.clobbered = {}
      /\ proc[p] \in ProcRecord
  BY ProcTypes DEF IInv, Base, ExitExecutable, At
<1>2. /\ proc[p].pc = "exit" /\ ProcOK(p) /\ proc[p].call = "exit"
      /\ proc[p].executable \in Inode /\ proc[p].sector = 0 /\ proc[p].data = {}
      /\ proc[p].opened_files = <<>>
  BY <1>1, ProcTypes
     DEF ExitExecutable, At, Running, ProcOK, CreatePc, InodePc, ClosePc, ReleasePc
<1>3. PICK i \in Inode : i = proc[p].executable
  BY <1>2
<1> DEFINE r == [proc[p] EXCEPT !.pc = "drop", !.inode = i, !.executable = Nil]
<1>4. proc' = [proc EXCEPT ![p] = r]
  BY <1>3 DEF ExitExecutable
<1>5. /\ r \in ProcRecord /\ r.pc = "drop" /\ r.call = "exit" /\ r.name = proc[p].name
      /\ r.sector = 0 /\ r.data = {} /\ r.inode = i /\ r.opened_files = <<>>
      /\ r.executable = Nil
  BY <1>1, <1>2 DEF ProcRecord, Pc
<1> HIDE DEF r
<1>6. proc' \in [Process -> ProcRecord] /\ OthersSame(p) /\ proc'[p] = r
  BY <1>1, <1>4, <1>5, NewRecord
<1>7. /\ UNCHANGED <<disk, freeMap, fsLock, hist>>
      /\ inode' = [inode EXCEPT ![i].deny_write_cnt = @ - 1]
  BY <1>3 DEF ExitExecutable
<1>8. /\ inode' \in [Inode -> InodeRecord] /\ InodesSame(i)
      /\ inode'[i].deny_write_cnt = inode[i].deny_write_cnt - 1
      /\ inode'[i].sector = inode[i].sector /\ inode'[i].data = inode[i].data
      /\ inode'[i].open_cnt = inode[i].open_cnt /\ (inode'[i].removed <=> inode[i].removed)
      /\ (inode'[i].listed <=> inode[i].listed) /\ (inode'[i].live <=> inode[i].live)
  BY <1>1, <1>7 DEF TypeOK, InodeRecord, InodesSame
<1>9. TypeOK' /\ SectorsSame
  BY <1>1, <1>6, <1>7, <1>8 DEF TypeOK, SectorsSame
<1>10. \A k \in 0 .. OpenFiles : \A x : /\ ~Refers(p, k, x)
                                        /\ Refers(p, k, x)' <=> k = 0 /\ x = i
  BY <1>2, <1>3, <1>5, <1>6 DEF Refers
<1>11. 0 \in 0 .. OpenFiles /\ i # Nil
  BY FileSystemAssumption, InodesAreNumbers DEF Nil
<1>12. /\ inode[i].open_cnt = ReferencesTo(i) /\ inode[i].live /\ inode[i].listed
       /\ inode[i] # Freed
       /\ \A q \in Process : proc[q].pc \in ClosePc => proc[q].inode # i
  <2>1. ReferencesTo(i) > 0
    BY <1>3, ReferencesPositive
  <2> QED
    BY <1>1, <2>1, InUseIsOpen
<1>13. InodeOK(i)'
  <2>1. InodeOK(i)
    BY <1>1 DEF Base
  <2> QED
    BY <1>7, <1>8, <1>12, <2>1 DEF InodeOK, Alive, Orphan, InodesSame
<1>14. /\ proc[p].pc \notin CreatePc \union ReleasePc
       /\ proc'[p].pc \notin CreatePc \union ClosePc
  BY <1>2, <1>5, <1>6 DEF CreatePc, ReleasePc, ClosePc
<1>15. Base'
  <2>1. Orphan(i)' <=> Orphan(i)
    BY <1>8 DEF Orphan
  <2>2. ReleaseOK(p)' /\ proc'[p].pc # "release_data"
    BY <1>14 DEF ReleaseOK, ReleasePc, ClosePc
  <2> QED
    BY <1>1, <1>6, <1>8, <1>9, <1>12, <1>13, <1>14, <2>1, <2>2, InodeStepBase DEF ClosePc
<1>16. ProcOK(p)' /\ FoundOK(p)' /\ UnlinkOK(p)'
  BY <1>2, <1>5, <1>6, <1>7, <1>11
     DEF ProcOK, FoundOK, UnlinkOK, LockCall, CreatePc, ClosePc, InodePc, ReleasePc
<1>17. ASSUME NEW q \in Process \ {p}, proc[q].pc \in {"search", "found"} PROVE FoundOK(q)'
  <2>1. FoundOK(q) /\ proc'[q] = proc[q]
    BY <1>1, <1>6 DEF Running, OthersSame
  <2> QED
    BY <1>1, <1>7, <1>8, <1>12, <2>1, ProcTypes DEF FoundOK, Alive, InodesSame, Nil
<1>18. ListedOK(i)'
  BY <1>8, <1>12 DEF ListedOK, Alive
<1>19. \A k \in Inode : CountOK(k)'
  <2> TAKE k \in Inode
  <2>1. CountOK(k) /\ inode[k].deny_write_cnt = Cardinality(Runners(k))
    BY <1>1 DEF Running, CountOK
  <2>2. CASE k = i
    <3>1. Cardinality(References(i)') = Cardinality(References(i)) + 1
      BY <1>6, <1>10, <1>11, ReferencesGrow
    <3>2. Cardinality(Runners(i)') = Cardinality(Runners(i)) - 1
      BY <1>3, <1>5, <1>6, <1>11, RunnersShrink
    <3>3. ReferencesTo(i)' = ReferencesTo(i)
      BY <1>7, <3>1, <3>2, ReferencesFinite DEF ReferencesTo
    <3> QED
      BY <1>8, <1>12, <2>1, <2>2, <3>2, <3>3 DEF CountOK
  <2>3. CASE k # i
    <3>1. References(k)' = References(k)
      BY <1>6, <1>10, <2>3, ReferencesSame
    <3>2. Runners(k)' = Runners(k)
      <4>1. proc[p].executable # k /\ proc'[p].executable # k
        BY <1>3, <1>5, <1>6, <2>3, InodesAreNumbers DEF Nil
      <4> QED
        BY <1>6, <4>1, RunnersSame
    <3> QED
      BY <1>7, <1>8, <2>1, <2>3, <3>1, <3>2 DEF CountOK, ReferencesTo, InodesSame
  <2> QED
    BY <2>2, <2>3
<1> QED
  BY <1>1, <1>6, <1>7, <1>8, <1>9, <1>12, <1>14, <1>15, <1>16, <1>17, <1>18, <1>19, InodeStep

-------------------------------------------------------------------------------
(***************************************************************************)
(* inode_close: the count, and open_inodes.                                *)
(***************************************************************************)
LEMMA DropKeeps ==
  ASSUME IInv, NEW p \in Process, Drop(p)
  PROVE  IInv'
<1>1. /\ Base /\ TypeOK /\ Running /\ ~hist.raced /\ hist.clobbered = {}
  BY DEF IInv, Base, Drop, At
<1>2. /\ proc[p].pc = "drop" /\ ProcOK(p)
      /\ proc[p].call \in {"open", "remove", "close", "exit"}
      /\ proc[p].inode \in Inode /\ proc[p].sector = 0 /\ proc[p].data = {}
  BY <1>1, ProcTypes
     DEF Drop, At, Running, ProcOK, CreatePc, InodePc, ClosePc, ReleasePc
<1>3. PICK i \in Inode : i = proc[p].inode
  BY <1>2
<1>4. /\ UNCHANGED <<disk, freeMap, hist>>
      /\ inode' = [inode EXCEPT ![i].open_cnt = @ - 1]
      /\ IF inode[i].open_cnt = 1 THEN Goto(p, "unlink") /\ UNCHANGED fsLock ELSE Return(p)
  BY <1>3 DEF Drop
<1>5. /\ proc' \in [Process -> ProcRecord] /\ OthersSame(p)
      /\ proc'[p].opened_files = proc[p].opened_files
      /\ proc'[p].executable = proc[p].executable
      /\ fsLock' \in Process \union {Nobody}
      /\ proc'[p].pc \notin CreatePc \union ReleasePc \union {"loading", "drop"}
      /\ \A q \in Process \ {p} : fsLock' = q <=> fsLock = q
  <2>1. CASE inode[i].open_cnt = 1
    <3>1. Goto(p, "unlink") /\ fsLock' = fsLock /\ "unlink" \in Pc
      BY <1>4, <2>1 DEF Pc
    <3> QED
      BY <1>1, <3>1, GotoIs DEF TypeOK, CreatePc, ReleasePc
  <2>2. CASE inode[i].open_cnt # 1
    <3>1. Return(p)
      BY <1>4, <2>2
    <3> QED
      BY <1>1, <3>1, ReturnIs DEF TypeOK, CreatePc, ReleasePc
  <2> QED
    BY <2>1, <2>2
<1>6. /\ inode' \in [Inode -> InodeRecord] /\ InodesSame(i)
      /\ inode'[i].open_cnt = inode[i].open_cnt - 1
      /\ inode'[i].sector = inode[i].sector /\ inode'[i].data = inode[i].data
      /\ inode'[i].deny_write_cnt = inode[i].deny_write_cnt
      /\ (inode'[i].removed <=> inode[i].removed)
      /\ (inode'[i].listed <=> inode[i].listed) /\ (inode'[i].live <=> inode[i].live)
  BY <1>1, <1>4 DEF TypeOK, InodeRecord, InodesSame
<1>7. TypeOK' /\ SectorsSame
  BY <1>1, <1>4, <1>5, <1>6 DEF TypeOK, SectorsSame
<1>8. \A k \in 0 .. OpenFiles : \A x :
        /\ k = 0 => (Refers(p, k, x) <=> x = i \/ Refers(p, k, x)') /\ ~Refers(p, k, i)'
        /\ k # 0 => (Refers(p, k, x)' <=> Refers(p, k, x))
  <2>1. 0 \notin DOMAIN proc[p].opened_files
    BY <1>1, ProcTypes, LenProperties
  <2> QED
    BY <1>2, <1>3, <1>5, <2>1 DEF Refers
<1>9. 0 \in 0 .. OpenFiles /\ i # Nil
  BY FileSystemAssumption, InodesAreNumbers DEF Nil
<1>10. /\ inode[i].open_cnt = ReferencesTo(i) /\ inode[i].live /\ inode[i].listed
       /\ inode[i] # Freed /\ ReferencesTo(i) > 0
       /\ \A q \in Process : proc[q].pc \in ClosePc => proc[q].inode # i
  <2>1. ReferencesTo(i) > 0
    BY <1>8, <1>9, ReferencesPositive
  <2> QED
    BY <1>1, <2>1, InUseIsOpen
<1>11. InodeOK(i)'
  <2>1. InodeOK(i)
    BY <1>1 DEF Base
  <2> QED
    BY <1>4, <1>6, <1>10, <2>1 DEF InodeOK, Alive, Orphan, InodesSame
<1>12. Base'
  <2>1. Orphan(i)' <=> Orphan(i)
    BY <1>6 DEF Orphan
  <2>2. ReleaseOK(p)' /\ proc'[p].pc # "release_data"
    BY <1>5 DEF ReleaseOK, ReleasePc
  <2>3. proc[p].pc \notin CreatePc \union ReleasePc
    BY <1>2 DEF CreatePc, ReleasePc
  <2> QED
    BY <1>1, <1>5, <1>6, <1>7, <1>10, <1>11, <2>1, <2>2, <2>3, InodeStepBase DEF ClosePc
<1>13. /\ ProcOK(p)' /\ FoundOK(p)' /\ UnlinkOK(p)'
       /\ proc'[p].pc \in ClosePc => proc'[p].inode = i
  <2>1. CASE inode[i].open_cnt = 1
    <3>1. Goto(p, "unlink") /\ fsLock' = fsLock /\ "unlink" \in Pc
      BY <1>4, <2>1 DEF Pc
    <3>2. /\ proc'[p].pc = "unlink" /\ proc'[p].call = proc[p].call
          /\ proc'[p].sector = 0 /\ proc'[p].data = {} /\ proc'[p].inode = i
      BY <1>1, <1>2, <1>3, <3>1, GotoIs
    <3>3. ProcOK(p)' /\ FoundOK(p)'
      BY <1>2, <1>5, <1>9, <3>1, <3>2
         DEF ProcOK, FoundOK, LockCall, CreatePc, ClosePc, InodePc, ReleasePc
    <3>4. UnlinkOK(p)'
      <4>1. /\ inode'[i].live /\ inode'[i].open_cnt = 0 /\ inode'[i].listed
        BY <1>6, <1>10, <2>1
      <4>2. ASSUME NEW q \in Process, proc'[q].pc \in ClosePc, proc'[q].inode = i PROVE q = p
        BY <1>5, <1>10, <4>2 DEF OthersSame
      <4> QED
        BY <3>2, <4>1, <4>2 DEF UnlinkOK
    <3> QED
      BY <3>2, <3>3, <3>4
  <2>2. CASE inode[i].open_cnt # 1
    <3>1. Return(p)
      BY <1>4, <2>2
    <3> QED
      BY <1>1, <1>2, <3>1, ReturnProcOK
  <2> QED
    BY <2>1, <2>2
<1>14. ASSUME NEW q \in Process \ {p}, proc[q].pc \in {"search", "found"} PROVE FoundOK(q)'
  <2>1. FoundOK(q) /\ proc'[q] = proc[q]
    BY <1>1, <1>5, <1>14 DEF Running, OthersSame
  <2> QED
    BY <1>1, <1>4, <1>6, <1>10, <2>1, ProcTypes DEF FoundOK, Alive, InodesSame, Nil
<1>15. ListedOK(i)'
  BY <1>6, <1>10 DEF ListedOK, Alive
<1>16. \A k \in Inode : CountOK(k)'
  <2> TAKE k \in Inode
  <2>1. CountOK(k) /\ inode[k].deny_write_cnt = Cardinality(Runners(k))
    BY <1>1 DEF Running, CountOK
  <2>2. Runners(k)' = Runners(k)
    BY <1>5, RunnersSame
  <2>3. CASE k = i
    <3>1. Cardinality(References(i)') = Cardinality(References(i)) - 1
      BY <1>5, <1>8, <1>9, ReferencesShrink
    <3>2. ReferencesTo(i)' = ReferencesTo(i) - 1
      BY <1>4, <2>2, <2>3, <3>1, ReferencesFinite DEF ReferencesTo
    <3> QED
      BY <1>6, <1>10, <2>1, <2>2, <2>3, <3>2 DEF CountOK
  <2>4. CASE k # i
    <3>1. References(k)' = References(k)
      BY <1>5, <1>8, <2>4, ReferencesSame
    <3> QED
      BY <1>4, <1>6, <2>1, <2>2, <2>4, <3>1 DEF CountOK, ReferencesTo, InodesSame
  <2> QED
    BY <2>3, <2>4
<1> QED
  BY <1>1, <1>5, <1>6, <1>7, <1>10, <1>12, <1>13, <1>14, <1>15, <1>16, InodeStep

LEMMA CountsStay ==
  ASSUME Running, NEW p \in Process, OthersSame(p),
         proc'[p].opened_files = proc[p].opened_files, proc'[p].executable = proc[p].executable,
         {proc[p].pc, proc'[p].pc} \intersect {"loading", "drop"} = {},
         NEW i \in Inode, InodesSame(i), inode'[i].open_cnt = inode[i].open_cnt,
         inode'[i].deny_write_cnt = inode[i].deny_write_cnt, hist'.stranded = hist.stranded
  PROVE  \A k \in Inode : CountOK(k)'
<1> TAKE k \in Inode
<1>1. References(k)' = References(k) /\ Runners(k)' = Runners(k)
  <2>1. \A j \in 0 .. OpenFiles : Refers(p, j, k)' <=> Refers(p, j, k)
    BY DEF Refers
  <2> QED
    BY <2>1, ReferencesSame, RunnersSame
<1>2. ReferencesTo(k)' = ReferencesTo(k) /\ CountOK(k)
  BY <1>1 DEF ReferencesTo, Running
<1> QED
  BY <1>1, <1>2 DEF CountOK, InodesSame

\* An inode that nobody has open is run by nobody.
LEMMA NobodyRunsIt ==
  ASSUME Running, NEW i \in Inode, inode[i].open_cnt = 0
  PROVE  inode[i].deny_write_cnt = 0
<1>1. Cardinality(References(i)) \in Nat /\ Cardinality(Runners(i)) \in Nat
  BY ReferencesFinite
<1>2. Cardinality(References(i)) + Cardinality(Runners(i))
        + (IF hist.stranded = i THEN 1 ELSE 0) = 0
  BY DEF Running, CountOK, ReferencesTo
<1>3. Cardinality(Runners(i)) = 0
  BY <1>1, <1>2
<1> QED
  BY <1>3 DEF Running, CountOK

LEMMA UnlinkKeeps ==
  ASSUME IInv, NEW p \in Process, Unlink(p)
  PROVE  IInv'
<1>1. /\ Base /\ TypeOK /\ Running /\ ~hist.raced /\ hist.clobbered = {}
  BY DEF IInv, Base, Unlink, At
<1>2. /\ proc[p].pc = "unlink" /\ ProcOK(p) /\ UnlinkOK(p)
      /\ proc[p].call \in {"open", "remove", "close", "exit"}
      /\ proc[p].inode \in Inode /\ proc[p].sector = 0 /\ proc[p].data = {}
  BY <1>1, ProcTypes
     DEF Unlink, At, Running, ProcOK, CreatePc, InodePc, ClosePc, ReleasePc
<1>3. PICK i \in Inode : i = proc[p].inode
  BY <1>2
<1>4. /\ UNCHANGED <<disk, freeMap, fsLock, hist>>
      /\ inode' = [inode EXCEPT ![i] =
           IF inode[i].removed THEN [@ EXCEPT !.listed = FALSE] ELSE Freed]
      /\ Goto(p, "unlink_prev") /\ "unlink_prev" \in Pc
  BY <1>3 DEF Unlink, Pc
<1>5. /\ inode[i].live /\ inode[i].open_cnt = 0 /\ inode[i].listed
      /\ \A q \in Process : proc[q].pc \in ClosePc /\ proc[q].inode = i => q = p
      /\ InodeOK(i) /\ i # Nil
  BY <1>1, <1>2, <1>3, InodesAreNumbers DEF UnlinkOK, Base, Nil
<1>6. /\ proc' \in [Process -> ProcRecord] /\ OthersSame(p)
      /\ proc'[p].pc = "unlink_prev" /\ proc'[p].call = proc[p].call
      /\ proc'[p].sector = 0 /\ proc'[p].data = {} /\ proc'[p].inode = i
      /\ proc'[p].opened_files = proc[p].opened_files
      /\ proc'[p].executable = proc[p].executable
  BY <1>1, <1>2, <1>3, <1>4, GotoIs
<1>7. /\ inode' \in [Inode -> InodeRecord] /\ InodesSame(i)
      /\ inode'[i].open_cnt = 0 /\ inode'[i].deny_write_cnt = inode[i].deny_write_cnt
      /\ (inode'[i].removed <=> inode[i].removed) /\ ~inode'[i].listed
      /\ inode[i].removed =>
           /\ inode'[i].live
           /\ inode'[i].sector = inode[i].sector /\ inode'[i].data = inode[i].data
      /\ ~inode[i].removed => inode'[i] = Freed
  <2>1. CASE inode[i].removed
    <3> DEFINE b == FALSE
               r == [inode[i] EXCEPT !.listed = b]
    <3>1. inode' = [inode EXCEPT ![i] = r] /\ b \in BOOLEAN /\ ~b /\ inode[i] \in InodeRecord
      BY <1>1, <1>4, <2>1 DEF TypeOK
    <3> HIDE DEF b
    <3>2. /\ r \in InodeRecord /\ r.open_cnt = 0 /\ r.deny_write_cnt = inode[i].deny_write_cnt
          /\ r.removed /\ ~r.listed /\ r.live
          /\ r.sector = inode[i].sector /\ r.data = inode[i].data
      BY <1>5, <2>1, <3>1 DEF InodeRecord
    <3> HIDE DEF r
    <3>3. inode' \in [Inode -> InodeRecord] /\ InodesSame(i) /\ inode'[i] = r
      BY <1>1, <3>1, <3>2 DEF TypeOK, InodesSame
    <3> QED
      BY <2>1, <3>2, <3>3
  <2>2. CASE ~inode[i].removed
    <3>1. inode' = [inode EXCEPT ![i] = Freed]
      BY <1>4, <2>2
    <3>2. inode[i].deny_write_cnt = 0
      BY <1>1, <1>5, NobodyRunsIt
    <3> QED
      BY <1>1, <2>2, <3>1, <3>2, SectorNumbers DEF TypeOK, InodeRecord, InodesSame, Freed
  <2> QED
    BY <2>1, <2>2
<1>8. TypeOK' /\ SectorsSame
  BY <1>1, <1>4, <1>6, <1>7 DEF TypeOK, SectorsSame
<1>9. InodeOK(i)'
  <2>1. CASE inode[i].removed
    BY <1>5, <1>7, <2>1 DEF InodeOK, Alive, Orphan, InodesSame
  <2>2. CASE ~inode[i].removed
    BY <1>7, <2>2 DEF InodeOK, Alive, Orphan, Freed
  <2> QED
    BY <2>1, <2>2
<1>10. Base'
  <2>1. Orphan(i)' <=> Orphan(i)
    BY <1>5, <1>7 DEF Orphan
  <2>2. Orphan(i) => inode'[i].sector = inode[i].sector /\ inode'[i].data = inode[i].data
    BY <1>7 DEF Orphan
  <2>3. \A q \in Process : proc[q].pc \in ReleasePc => proc[q].inode # i
    BY <1>2, <1>5 DEF ClosePc, ReleasePc
  <2>4. /\ proc[p].pc \notin CreatePc \union ReleasePc
        /\ proc'[p].pc \notin CreatePc \union {"release_data"} /\ ReleaseOK(p)'
    BY <1>2, <1>6 DEF CreatePc, ReleasePc, ReleaseOK
  <2> QED
    BY <1>1, <1>6, <1>7, <1>8, <1>9, <2>1, <2>2, <2>3, <2>4, InodeStepBase
<1>11. ProcOK(p)' /\ FoundOK(p)'
  BY <1>2, <1>4, <1>5, <1>6
     DEF ProcOK, FoundOK, LockCall, CreatePc, ClosePc, InodePc, ReleasePc
<1>12. UnlinkOK(p)'
  <2>1. ASSUME NEW q \in Process, proc'[q].pc \in ClosePc, proc'[q].inode = i PROVE q = p
    BY <1>5, <1>6, <2>1 DEF OthersSame
  <2> QED
    BY <1>6, <1>7, <2>1 DEF UnlinkOK, Orphan
<1>13. ASSUME NEW q \in Process \ {p}, proc[q].pc \in {"search", "found"} PROVE FoundOK(q)'
  <2>1. FoundOK(q) /\ proc'[q] = proc[q] /\ disk' = disk
    BY <1>1, <1>4, <1>6 DEF Running, OthersSame
  <2>2. CASE proc[q].inode = Nil
    <3>1. \A k \in Inode : inode'[k].listed => inode[k].listed /\ inode'[k].sector = inode[k].sector
      BY <1>7 DEF InodesSame
    <3> QED
      BY <1>13, <2>1, <2>2, <3>1 DEF FoundOK
  <2>3. CASE proc[q].pc = "search"
    BY <2>1, <2>3 DEF FoundOK
  <2> SUFFICES ASSUME proc[q].pc = "found", proc[q].inode # Nil PROVE FoundOK(q)'
    BY <1>13, <2>2, <2>3
  <2>4. CASE proc[q].inode = i
    <3>1. ~inode[i].removed
      BY <1>5, <2>1, <2>4 DEF FoundOK, Freed, Alive
    <3> QED
      BY <1>7, <2>1, <2>4, <3>1 DEF FoundOK
  <2>5. CASE proc[q].inode # i
    <3>1. inode'[proc[q].inode] = inode[proc[q].inode]
      BY <1>1, <1>7, <2>5, ProcTypes DEF InodesSame
    <3> QED
      BY <2>1, <3>1 DEF FoundOK, Alive
  <2> QED
    BY <2>4, <2>5
<1>14. ListedOK(i)'
  BY <1>7 DEF ListedOK, Alive, Freed
<1>15. \A k \in Inode : CountOK(k)'
  <2>1. {proc[p].pc, proc'[p].pc} \intersect {"loading", "drop"} = {}
    BY <1>2, <1>6
  <2> QED
    BY <1>1, <1>4, <1>5, <1>6, <1>7, <2>1, CountsStay
<1>16. /\ \A q \in Process \ {p} : fsLock' = q <=> fsLock = q
       /\ \A q \in Process \ {p} : proc[q].pc \in ClosePc => proc[q].inode # i
  BY <1>4, <1>5
<1> QED
  BY <1>1, <1>6, <1>7, <1>8, <1>10, <1>11, <1>12, <1>13, <1>14, <1>15, <1>16, InodeStep

LEMMA UnlinkDoneKeeps ==
  ASSUME IInv, NEW p \in Process, UnlinkDone(p)
  PROVE  IInv'
<1>1. /\ Base /\ TypeOK /\ Running /\ ~hist.raced /\ hist.clobbered = {}
  BY DEF IInv, Base, UnlinkDone, At
<1>2. /\ proc[p].pc = "unlink_prev" /\ ProcOK(p) /\ UnlinkOK(p)
      /\ proc[p].call \in {"open", "remove", "close", "exit"}
      /\ proc[p].inode \in Inode /\ proc[p].sector = 0 /\ proc[p].data = {}
      /\ UNCHANGED <<disk, freeMap, inode>>
  BY <1>1, ProcTypes
     DEF UnlinkDone, At, Running, ProcOK, CreatePc, InodePc, ClosePc, ReleasePc
<1>3. PICK i \in Inode : i = proc[p].inode
  BY <1>2
<1>4. /\ hist' \in HistRecord /\ hist'.lost = hist.lost /\ hist'.clobbered = {}
      /\ hist'.stranded = hist.stranded
  <2> DEFINE Q == hist.halfOut \ {p}
  <2>1. hist' = [hist EXCEPT !.halfOut = Q] /\ Q \in SUBSET Process /\ hist \in HistRecord
    BY <1>1 DEF UnlinkDone, TypeOK, HistRecord
  <2> HIDE DEF Q
  <2> QED
    BY <1>1, <2>1 DEF HistRecord
<1>5. /\ \A q \in Process : proc[q].pc \in ClosePc /\ proc[q].inode = i => q = p
      /\ i # Nil
  BY <1>2, <1>3, InodesAreNumbers DEF UnlinkOK, Nil
<1>6. /\ proc' \in [Process -> ProcRecord] /\ OthersSame(p)
      /\ proc'[p].opened_files = proc[p].opened_files
      /\ proc'[p].executable = proc[p].executable
      /\ fsLock' \in Process \union {Nobody}
      /\ \A q \in Process \ {p} : fsLock' = q <=> fsLock = q
      /\ ProcOK(p)' /\ FoundOK(p)' /\ UnlinkOK(p)'
      /\ IF inode[i].removed THEN proc'[p].pc = "release_inode" /\ proc'[p].inode = i
                             ELSE proc'[p].pc \in {"user", "exit"}
  <2>1. CASE inode[i].removed
    <3>1. Goto(p, "release_inode") /\ fsLock' = fsLock /\ "release_inode" \in Pc
      BY <1>3, <2>1 DEF UnlinkDone, Pc
    <3>2. /\ proc' \in [Process -> ProcRecord] /\ OthersSame(p)
          /\ proc'[p].pc = "release_inode" /\ proc'[p].call = proc[p].call
          /\ proc'[p].sector = 0 /\ proc'[p].data = {} /\ proc'[p].inode = i
          /\ proc'[p].opened_files = proc[p].opened_files
          /\ proc'[p].executable = proc[p].executable
      BY <1>1, <1>2, <1>3, <3>1, GotoIs
    <3>3. ProcOK(p)' /\ FoundOK(p)' /\ UnlinkOK(p)'
      BY <1>2, <1>5, <3>1, <3>2
         DEF ProcOK, FoundOK, UnlinkOK, LockCall, CreatePc, ClosePc, InodePc, ReleasePc
    <3> QED
      BY <1>1, <2>1, <3>1, <3>2, <3>3 DEF TypeOK
  <2>2. CASE ~inode[i].removed
    <3>1. Return(p)
      BY <1>3, <2>2 DEF UnlinkDone
    <3>2. ProcOK(p)' /\ FoundOK(p)' /\ UnlinkOK(p)'
      BY <1>1, <1>2, <3>1, ReturnProcOK DEF ClosePc
    <3> QED
      BY <1>1, <2>2, <3>1, <3>2, ReturnIs DEF TypeOK
  <2> QED
    BY <2>1, <2>2
<1>7. TypeOK' /\ SectorsSame /\ InodesSame(i)
  BY <1>1, <1>2, <1>4, <1>6 DEF TypeOK, SectorsSame, InodesSame
<1>8. InodeOK(i)'
  BY <1>1, <1>2 DEF Base, InodeOK, Alive, Orphan
<1>9. ReleaseOK(p)'
  <2>1. CASE inode[i].removed
    <3>1. Orphan(i) /\ inode[i].open_cnt = 0 /\ ~inode[i].listed
      BY <1>2, <1>3, <2>1 DEF UnlinkOK
    <3>2. ASSUME NEW q \in Process, proc'[q].pc \in ReleasePc, proc'[q].inode = i PROVE q = p
      BY <1>5, <1>6, <3>2 DEF OthersSame, ClosePc
    <3> QED
      BY <1>2, <1>6, <2>1, <3>1, <3>2 DEF ReleaseOK, Orphan
  <2>2. CASE ~inode[i].removed
    BY <1>6, <2>2 DEF ReleaseOK, ReleasePc
  <2> QED
    BY <2>1, <2>2
<1>10. Base'
  <2>1. Orphan(i)' <=> Orphan(i)
    BY <1>2 DEF Orphan
  <2>2. \A q \in Process : proc[q].pc \in ReleasePc => proc[q].inode # i
    BY <1>2, <1>5 DEF ClosePc, ReleasePc
  <2>3. /\ proc[p].pc \notin CreatePc \union ReleasePc
        /\ proc'[p].pc \notin CreatePc \union {"release_data"}
    BY <1>2, <1>6 DEF CreatePc, ReleasePc
  <2> QED
    BY <1>1, <1>2, <1>6, <1>7, <1>8, <1>9, <2>1, <2>2, <2>3, InodeStepBase
<1>11. \A q \in Process \ {p} : FoundOK(q)'
  BY <1>1, <1>2, <1>6 DEF Running, FoundOK, OthersSame, Alive
<1>12. ListedOK(i)'
  BY <1>1, <1>2 DEF Running, ListedOK, Alive
<1>13. \A k \in Inode : CountOK(k)'
  <2>1. {proc[p].pc, proc'[p].pc} \intersect {"loading", "drop"} = {}
    BY <1>2, <1>6
  <2> QED
    BY <1>1, <1>2, <1>4, <1>6, <1>7, <2>1, CountsStay
<1>14. /\ \A q \in Process \ {p} : proc[q].pc \in ClosePc => proc[q].inode # i
       /\ proc'[p].pc \in ClosePc => proc'[p].inode = i
  BY <1>5, <1>6 DEF ClosePc, ReleasePc
<1> QED
  BY <1>1, <1>6, <1>7, <1>10, <1>11, <1>12, <1>13, <1>14, InodeStep

-------------------------------------------------------------------------------
(***************************************************************************)
(* A write is to an inode that nobody runs, and reaches nobody else's.     *)
(***************************************************************************)
LEMMA NotesKeepBase ==
  ASSUME IInv, UNCHANGED <<disk, freeMap, inode, proc, fsLock>>, hist' \in HistRecord,
         hist'.lost = hist.lost, hist'.clobbered = hist.clobbered
  PROVE  Base'
<1>1. /\ disk' = disk /\ freeMap' = freeMap /\ inode' = inode /\ proc' = proc
      /\ fsLock' = fsLock
  OBVIOUS
<1>2. \A i : /\ Orphan(i)' <=> Orphan(i)
             /\ Alive(i)' <=> Alive(i)
             /\ Released(i)' <=> Released(i)
  BY <1>1 DEF Orphan, Alive, Released
<1>3. Marked' /\ Apart' /\ FilesOK' /\ TypeOK'
  <2>1. TypeOK' /\ SectorsSame
    BY <1>1 DEF IInv, Base, TypeOK, SectorsSame
  <2>2. \A s \in Sector : /\ \A i \in Inode : InOrphan(s, i)' <=> InOrphan(s, i)
                          /\ \A p \in Process : InDraft(s, p)' <=> InDraft(s, p)
    BY <1>1, <1>2 DEF InOrphan, InDraft
  <2> QED
    BY <2>1, <2>2, SectorsStay DEF IInv
<1> QED
  BY <1>1, <1>2, <1>3 DEF IInv, Base, DraftOK, ReleaseOK, InodeOK

LEMMA StutterKeeps ==
  ASSUME IInv, UNCHANGED vars
  PROVE  IInv'
<1>1. /\ disk' = disk /\ freeMap' = freeMap /\ inode' = inode /\ proc' = proc
      /\ fsLock' = fsLock /\ hist' = hist
  BY DEF vars
<1>2. Base'
  BY <1>1, NotesKeepBase DEF IInv, Base, TypeOK
<1>3. \A i : /\ Orphan(i)' <=> Orphan(i)
             /\ Alive(i)' <=> Alive(i)
             /\ References(i)' = References(i) /\ Runners(i)' = Runners(i)
             /\ ReferencesTo(i)' = ReferencesTo(i)
  BY <1>1 DEF Orphan, Alive, References, Refers, Runners, ReferencesTo
<1>4. ASSUME Running PROVE Running'
  BY <1>1, <1>3, <1>4 DEF Running, ProcOK, FoundOK, UnlinkOK, ListedOK, CountOK
<1> QED
  BY <1>1, <1>2, <1>4 DEF IInv

LEMMA MeetKeeps ==
  ASSUME IInv, Meet
  PROVE  IInv'
<1> DEFINE t == TRUE
<1>1. hist' = [hist EXCEPT !.raced = t] /\ t \in BOOLEAN /\ t /\ hist \in HistRecord
  BY DEF Meet, IInv, Base, TypeOK
<1> HIDE DEF t
<1>2. /\ hist' \in HistRecord /\ hist'.raced
      /\ hist'.lost = hist.lost /\ hist'.clobbered = hist.clobbered
  BY <1>1 DEF HistRecord
<1>3. Base'
  BY <1>2, NotesKeepBase DEF Meet
<1> QED
  BY <1>2, <1>3 DEF IInv

LEMMA WriteKeeps ==
  ASSUME IInv, NEW p \in Process, NEW k \in DOMAIN proc[p].opened_files, Write(p, k)
  PROVE  IInv'
<1>1. Base /\ TypeOK /\ Running /\ ~hist.raced /\ hist.clobbered = {}
  BY DEF IInv, Base, Write, At
<1>2. /\ k \in 1 .. Len(proc[p].opened_files) /\ proc[p].opened_files[k] \in Inode
      /\ k \in 0 .. OpenFiles
  BY <1>1, ProcTypes, LenProperties, FileSystemAssumption
<1>3. PICK i \in Inode : i = proc[p].opened_files[k]
  BY <1>2
<1>4. /\ UNCHANGED <<disk, freeMap, inode, proc, fsLock>> /\ inode[i].deny_write_cnt = 0
      /\ hist' = [hist EXCEPT !.clobbered = @ \union RunsFrom(inode[i].data)]
  BY <1>3 DEF Write
<1>5. Refers(p, k, i)
  BY <1>3 DEF Refers
<1>6. inode[i].live /\ inode[i].open_cnt > 0
  <2>1. ReferencesTo(i) > 0
    BY <1>2, <1>5, ReferencesPositive
  <2> QED
    BY <1>1, <2>1, InUseIsOpen
<1>7. ASSUME NEW q \in Process, proc[q].executable # Nil,
             inode[proc[q].executable].data \intersect inode[i].data # {}
      PROVE  FALSE
  <2>1. PICK e \in Inode : e = proc[q].executable
    BY <1>1, <1>7, ProcTypes
  <2>2. inode[e].live
    <3>1. ReferencesTo(e) > 0
      BY <2>1, ReferencesPositive
    <3> QED
      BY <1>1, <3>1, InUseIsOpen
  <2>3. e # i
    <3> SUFFICES ASSUME e = i PROVE FALSE
      OBVIOUS
    <3>1. q \in Runners(i) /\ Cardinality(Runners(i)) = 0
      BY <1>1, <1>4, <2>1 DEF Runners, Running, CountOK
    <3> QED
      BY <3>1, ReferencesFinite, FS_EmptySet
  <2> QED
    BY <1>1, <1>6, <1>7, <2>1, <2>2, <2>3, BaseMeansKept DEF OpenIsKept, Owns
<1>8. RunsFrom(inode[i].data) = {}
  BY <1>7 DEF RunsFrom
<1>9. hist' = hist
  BY <1>1, <1>4, <1>8 DEF TypeOK, HistRecord
<1> QED
  BY <1>4, <1>9, StutterKeeps DEF vars

-------------------------------------------------------------------------------
(***************************************************************************)
(* inode_open, which opens an inode that is in memory or reads it from the *)
(* disk.                                                                   *)
(***************************************************************************)
LEMMA LeastNat ==
  ASSUME NEW N \in SUBSET Nat, NEW n \in N
  PROVE  \E m \in N : \A k \in N : m <= k
<1> DEFINE R == OpToRel(<, Nat)
<1>1. IsWellFoundedOn(R, Nat)
  BY NatLessThanWellFounded
<1>2. \E m \in N : \A k \in N : ~(<<k, m>> \in R)
  BY <1>1, WFMin
<1>3. PICK m \in N : \A k \in N : ~(<<k, m>> \in R)
  BY <1>2
<1>4. \A k \in N : ~(k < m)
  BY <1>3 DEF OpToRel
<1> QED
  BY <1>4

LEMMA LeastIs ==
  ASSUME NEW S \in SUBSET Nat, S # {}
  PROVE  Min(S) \in S
<1>1. \E m \in S : \A k \in S : m <= k
  BY LeastNat
<1> QED
  BY <1>1 DEF Min

\* What is known of an inode in memory once it has been opened.
Opened(i, p) ==
  \/ /\ inode'[i].live
     /\ \E e \in disk.dir : e.sector = inode'[i].sector
     /\ inode'[i].data = disk.inode[inode'[i].sector]
     /\ \A k \in Inode \ {i} : Alive(k) => inode[k].sector # inode'[i].sector
  \/ /\ ~inode'[i].live /\ inode'[i].sector = 0 /\ inode'[i].data = {} /\ hist'.raced
     /\ \A k \in Inode \ {i} : ~inode[k].live => ~(inode[k].open_cnt > 0)

LEMMA OpenNew ==
  ASSUME IInv, ~hist.raced, NEW p \in Process, proc[p].pc = "found",
         NEW i \in Inode, InodeOpen(p, i), proc[p].inode = Nil
  PROVE  /\ inode' \in [Inode -> InodeRecord] /\ InodesSame(i)
         /\ \E missed \in BOOLEAN :
              hist' = [hist EXCEPT !.raced = missed] /\ (inode'[i].listed <=> ~missed)
         /\ inode[i] = Freed /\ inode'[i].live /\ inode'[i].open_cnt = 1
         /\ inode'[i].deny_write_cnt = 0
         /\ (inode'[i].removed <=> proc[p].call = "remove")
         /\ \A q \in Process : proc[q].pc \in ClosePc => proc[q].inode # i
         /\ Opened(i, p)
<1>1. Base /\ TypeOK /\ Running /\ FoundOK(p) /\ ListedOK(i)
  BY DEF IInv, Base, Running
<1> DEFINE unused == { k \in Inode : ~inode[k].live /\ k \notin Referenced }
           s == proc[p].sector
           b == proc[p].call = "remove"
           t == TRUE
           r(missed) == [ sector |-> s, data |-> disk.inode[s], open_cnt |-> 1,
                          deny_write_cnt |-> 0, removed |-> b, listed |-> ~missed, live |-> t ]
<1>2. PICK m \in BOOLEAN :
        /\ unused # {} /\ i = Min(unused)
        /\ inode' = [inode EXCEPT ![i] = r(m)] /\ hist' = [hist EXCEPT !.raced = m]
  BY DEF InodeOpen
<1>3. ~inode[i].live /\ i \notin Referenced
  <2>1. unused \in SUBSET Nat
    BY InodesAreNumbers
  <2>2. i \in unused
    BY <1>2, <2>1, LeastIs
  <2> QED
    BY <2>2
<1>4. inode[i] = Freed
  BY <1>1, <1>3 DEF ListedOK
<1>5. b \in BOOLEAN /\ t \in BOOLEAN /\ t
  OBVIOUS
<1> HIDE DEF b, t
<1>6. r(m) \in InodeRecord
  BY <1>1, <1>5, ProcTypes, StateTypes DEF InodeRecord
<1>7. /\ inode' \in [Inode -> InodeRecord] /\ InodesSame(i)
      /\ inode'[i].live /\ (inode'[i].listed <=> ~m) /\ inode'[i].open_cnt = 1
      /\ inode'[i].deny_write_cnt = 0 /\ (inode'[i].removed <=> b)
      /\ inode'[i].sector = s /\ inode'[i].data = disk.inode[s]
  BY <1>1, <1>2, <1>5, <1>6 DEF TypeOK, InodesSame
<1>8. \A q \in Process : proc[q].inode # i
  BY <1>3 DEF Referenced
<1>9. Opened(i, p)
  <2>1. \E e \in disk.dir : e.sector = s
    BY <1>1 DEF FoundOK
  <2>2. ASSUME NEW k \in Inode, Alive(k) PROVE inode[k].sector # s
    <3>1. inode[k].listed
      BY <1>1, <2>2 DEF Running, ListedOK
    <3> QED
      BY <1>1, <3>1 DEF FoundOK
  <2> QED
    BY <1>7, <2>1, <2>2 DEF Opened
<1> QED
  BY <1>2, <1>4, <1>7, <1>8, <1>9 DEF b

LEMMA OpenAgain ==
  ASSUME IInv, ~hist.raced, NEW p \in Process, proc[p].pc = "found",
         NEW i \in Inode, InodeOpen(p, i), proc[p].inode # Nil
  PROVE  /\ inode' \in [Inode -> InodeRecord] /\ InodesSame(i)
         /\ hist' = [hist EXCEPT !.raced = Dying(i)]
         /\ ~Orphan(i)
         /\ inode'[i].open_cnt = inode[i].open_cnt + 1
         /\ inode'[i].deny_write_cnt = inode[i].deny_write_cnt
         /\ (inode'[i].listed <=> inode[i].listed)
         /\ (inode'[i].removed <=> proc[p].call = "remove")
         /\ \A q \in Process : proc[q].pc \in ReleasePc => proc[q].inode # i
         /\ Opened(i, p)
         /\ ~Dying(i) => /\ inode'[i].live /\ inode[i].listed /\ inode[i].open_cnt > 0
                         /\ \A q \in Process : proc[q].pc \in ClosePc => proc[q].inode # i
<1>1. /\ Base /\ TypeOK /\ Running /\ FoundOK(p) /\ ListedOK(i) /\ CountOK(i) /\ InodeOK(i)
      /\ inode[i].removed \in BOOLEAN
  BY StateTypes DEF IInv, Base, Running
<1> DEFINE b == inode[i].removed \/ proc[p].call = "remove"
<1>2. /\ i = proc[p].inode /\ hist' = [hist EXCEPT !.raced = Dying(i)]
      /\ inode' = [inode EXCEPT ![i] = [@ EXCEPT !.open_cnt = inode[i].open_cnt + 1, !.removed = b]]
  BY DEF InodeOpen
<1>3. b \in BOOLEAN
  BY <1>1
<1> HIDE DEF b
<1>4. /\ inode' \in [Inode -> InodeRecord] /\ InodesSame(i)
      /\ inode'[i].open_cnt = inode[i].open_cnt + 1 /\ (inode'[i].removed <=> b)
      /\ inode'[i].sector = inode[i].sector /\ inode'[i].data = inode[i].data
      /\ inode'[i].deny_write_cnt = inode[i].deny_write_cnt
      /\ (inode'[i].listed <=> inode[i].listed) /\ (inode'[i].live <=> inode[i].live)
  <2> DEFINE n == inode[i].open_cnt + 1
             r == [inode[i] EXCEPT !.open_cnt = n, !.removed = b]
  <2>1. inode[i] \in InodeRecord /\ n \in Int
    BY <1>1 DEF TypeOK, InodeRecord
  <2>2. inode' = [inode EXCEPT ![i] = r]
    BY <1>2
  <2> HIDE DEF n
  <2>3. /\ r \in InodeRecord /\ r.open_cnt = n /\ (r.removed <=> b)
        /\ r.sector = inode[i].sector /\ r.data = inode[i].data
        /\ r.deny_write_cnt = inode[i].deny_write_cnt
        /\ (r.listed <=> inode[i].listed) /\ (r.live <=> inode[i].live)
    BY <1>3, <2>1 DEF InodeRecord
  <2> HIDE DEF r
  <2>4. inode' \in [Inode -> InodeRecord] /\ InodesSame(i) /\ inode'[i] = r
    BY <1>1, <2>2, <2>3 DEF TypeOK, InodesSame
  <2> QED
    BY <2>3, <2>4 DEF n
<1>5. inode[i] = Freed \/ (Alive(i) /\ inode[i].listed)
  BY <1>1, <1>2 DEF FoundOK
<1>6. ~Orphan(i) /\ ~inode[i].removed
  BY <1>5 DEF Freed, Alive, Orphan
<1>7. \A q \in Process : proc[q].pc \in ReleasePc => proc[q].inode # i
  BY <1>1, <1>6 DEF Base, ReleaseOK
<1>8. ASSUME ~Dying(i)
      PROVE  /\ inode'[i].live /\ inode[i].listed /\ inode[i].open_cnt > 0
             /\ \A q \in Process : proc[q].pc \in ClosePc => proc[q].inode # i
  <2>1. inode[i] # Freed
    BY <1>8 DEF Dying, Freed
  <2>2. inode[i].open_cnt > 0
    BY <1>1, <1>8, ReferencesFinite DEF Dying, CountOK, ReferencesTo
  <2>3. ReferencesTo(i) > 0
    BY <1>1, <2>2 DEF CountOK
  <2> QED
    BY <1>4, <1>5, <2>1, <2>2, <2>3, InUseIsOpen DEF Alive
<1>9. Opened(i, p)
  <2>1. CASE inode[i] = Freed
    <3>1. hist'.raced
      <4>1. Dying(i)
        BY <2>1 DEF Dying, Freed
      <4>2. Dying(i) \in BOOLEAN
        BY DEF Dying
      <4> HIDE DEF Dying
      <4> QED
        BY <1>1, <1>2, <4>1, <4>2 DEF TypeOK, HistRecord
    <3>2. \A k \in Inode : ~inode[k].live => ~(inode[k].open_cnt > 0)
      BY <1>1 DEF Running, ListedOK, Freed
    <3> QED
      BY <1>4, <2>1, <3>1, <3>2 DEF Opened, Freed
  <2>2. CASE Alive(i)
    BY <1>1, <1>4, <2>2 DEF Opened, InodeOK, Alive
  <2> QED
    BY <1>5, <2>1, <2>2
<1> QED
  BY <1>2, <1>4, <1>6, <1>7, <1>8, <1>9 DEF b

\* The two cases together.
LEMMA OpenIs ==
  ASSUME IInv, ~hist.raced, NEW p \in Process, proc[p].pc = "found",
         NEW i \in Inode, InodeOpen(p, i)
  PROVE  /\ inode' \in [Inode -> InodeRecord] /\ InodesSame(i)
         /\ hist' \in HistRecord /\ hist'.lost = hist.lost /\ hist'.clobbered = hist.clobbered
         /\ hist'.stranded = hist.stranded
         /\ ~Orphan(i) /\ (inode'[i].removed <=> proc[p].call = "remove")
         /\ \A q \in Process : proc[q].pc \in ReleasePc => proc[q].inode # i
         /\ Opened(i, p)
         /\ ~hist'.raced =>
              /\ inode'[i].live /\ inode'[i].listed
              /\ inode'[i].open_cnt = inode[i].open_cnt + 1 /\ inode[i].open_cnt >= 0
              /\ inode'[i].deny_write_cnt = inode[i].deny_write_cnt
              /\ \A q \in Process : proc[q].pc \in ClosePc => proc[q].inode # i
<1>1. hist \in HistRecord
  BY DEF IInv, Base, TypeOK
<1>2. CASE proc[p].inode = Nil
  <2>1. /\ inode' \in [Inode -> InodeRecord] /\ InodesSame(i)
        /\ \E missed \in BOOLEAN :
             hist' = [hist EXCEPT !.raced = missed] /\ (inode'[i].listed <=> ~missed)
        /\ inode[i] = Freed /\ inode'[i].live /\ inode'[i].open_cnt = 1
        /\ inode'[i].deny_write_cnt = 0
        /\ (inode'[i].removed <=> proc[p].call = "remove")
        /\ \A q \in Process : proc[q].pc \in ClosePc => proc[q].inode # i
        /\ Opened(i, p)
    BY <1>2, OpenNew
  <2>2. ~Orphan(i) /\ inode[i].open_cnt = 0 /\ inode[i].deny_write_cnt = 0
    BY <2>1 DEF Orphan, Freed
  <2>3. /\ hist' \in HistRecord /\ hist'.lost = hist.lost /\ hist'.clobbered = hist.clobbered
        /\ hist'.stranded = hist.stranded /\ (~hist'.raced => inode'[i].listed)
    BY <1>1, <2>1 DEF HistRecord
  <2> QED
    BY <2>1, <2>2, <2>3 DEF ClosePc
<1>3. CASE proc[p].inode # Nil
  <2>1. /\ inode' \in [Inode -> InodeRecord] /\ InodesSame(i)
        /\ hist' = [hist EXCEPT !.raced = Dying(i)]
        /\ ~Orphan(i)
        /\ inode'[i].open_cnt = inode[i].open_cnt + 1
        /\ inode'[i].deny_write_cnt = inode[i].deny_write_cnt
        /\ (inode'[i].listed <=> inode[i].listed)
        /\ (inode'[i].removed <=> proc[p].call = "remove")
        /\ \A q \in Process : proc[q].pc \in ReleasePc => proc[q].inode # i
        /\ Opened(i, p)
        /\ ~Dying(i) => /\ inode'[i].live /\ inode[i].listed /\ inode[i].open_cnt > 0
                        /\ \A q \in Process : proc[q].pc \in ClosePc => proc[q].inode # i
    BY <1>3, OpenAgain
  <2>2. Dying(i) \in BOOLEAN
    BY DEF Dying
  <2>3. inode[i].open_cnt \in Int
    BY StateTypes DEF IInv, Base
  <2> HIDE DEF Dying
  <2>4. /\ hist' \in HistRecord /\ hist'.lost = hist.lost /\ hist'.clobbered = hist.clobbered
        /\ hist'.stranded = hist.stranded /\ (hist'.raced <=> Dying(i))
    BY <1>1, <2>1, <2>2 DEF HistRecord
  <2> QED
    BY <2>1, <2>3, <2>4
<1> QED
  BY <1>2, <1>3

\* An inode that has been opened agrees with the disk, or is gone.
LEMMA OpenedOK ==
  ASSUME Base, NEW p \in Process, NEW i \in Inode, Opened(i, p), disk' = disk,
         inode' \in [Inode -> InodeRecord], InodesSame(i),
         inode'[i].removed => ~inode'[i].live
  PROVE  InodeOK(i)'
<1>1. \A k \in Inode : k # i => inode'[k] = inode[k]
  BY DEF InodesSame
<1>2. CASE inode'[i].live
  BY <1>1, <1>2 DEF Opened, InodeOK, Alive, Orphan
<1>3. CASE ~inode'[i].live
  BY <1>1, <1>3 DEF Opened, InodeOK, Alive, Orphan
<1> QED
  BY <1>2, <1>3

LEMMA OpenStep ==
  ASSUME IInv, ~hist.raced, NEW p \in Process, proc[p].pc = "found",
         NEW i \in Inode, InodeOpen(p, i), proc[p].call # "remove",
         UNCHANGED <<disk, freeMap>>, proc' \in [Process -> ProcRecord], OthersSame(p),
         fsLock' \in Process \union {Nobody}, \A q \in Process \ {p} : fsLock' = q <=> fsLock = q,
         proc'[p].pc \notin CreatePc \union ClosePc \union {"search", "found"}, ProcOK(p)',
         Cardinality(References(i)') = Cardinality(References(i)) + 1,
         \A k \in Inode \ {i} : References(k)' = References(k),
         proc'[p].executable = proc[p].executable
  PROVE  IInv'
<1>1. Base /\ TypeOK /\ Running /\ ProcOK(p) /\ hist.clobbered = {}
  BY DEF IInv, Base, Running
<1>2. /\ inode' \in [Inode -> InodeRecord] /\ InodesSame(i)
      /\ hist' \in HistRecord /\ hist'.lost = hist.lost /\ hist'.clobbered = hist.clobbered
      /\ hist'.stranded = hist.stranded
      /\ ~Orphan(i) /\ (inode'[i].removed <=> proc[p].call = "remove")
      /\ \A q \in Process : proc[q].pc \in ReleasePc => proc[q].inode # i
      /\ Opened(i, p)
      /\ ~hist'.raced =>
           /\ inode'[i].live /\ inode'[i].listed
           /\ inode'[i].open_cnt = inode[i].open_cnt + 1 /\ inode[i].open_cnt >= 0
           /\ inode'[i].deny_write_cnt = inode[i].deny_write_cnt
           /\ \A q \in Process : proc[q].pc \in ClosePc => proc[q].inode # i
  BY OpenIs
<1>3. TypeOK' /\ SectorsSame
  BY <1>1, <1>2 DEF TypeOK, SectorsSame
<1>4. Base'
  <2>1. InodeOK(i)'
    BY <1>1, <1>2, OpenedOK
  <2>2. ~Orphan(i)'
    BY <1>2 DEF Orphan
  <2>3. /\ proc[p].pc \notin CreatePc \union ReleasePc
        /\ proc'[p].pc \notin CreatePc \union {"release_data"}
    BY DEF CreatePc, ReleasePc, ClosePc
  <2>4. ReleaseOK(p)'
    BY DEF ReleaseOK, ClosePc
  <2> QED
    BY <1>1, <1>2, <1>3, <2>1, <2>2, <2>3, <2>4, InodeStepBase
<1>5. ASSUME ~hist'.raced PROVE IInv'
  <2>1. FoundOK(p)' /\ UnlinkOK(p)'
    BY DEF FoundOK, UnlinkOK, ClosePc
  <2>2. \A q \in Process \ {p} : proc[q].pc \notin {"search", "found"}
    <3>1. fsLock = p
      BY <1>1 DEF ProcOK, LockCall
    <3> QED
      BY <1>1, <3>1, LockHolder
  <2>3. ListedOK(i)'
    BY <1>2, <1>5 DEF ListedOK, Alive
  <2>4. ASSUME NEW k \in Inode PROVE CountOK(k)'
    <3>1. CountOK(k) /\ Runners(k)' = Runners(k) /\ hist'.stranded = hist.stranded
      BY <1>1, <1>2, RunnersSame DEF Running
    <3>2. CASE k = i
      BY <1>2, <1>5, <3>1, <3>2, ReferencesFinite DEF CountOK, ReferencesTo
    <3>3. CASE k # i
      BY <1>2, <3>1, <3>3 DEF CountOK, ReferencesTo, InodesSame
    <3> QED
      BY <3>2, <3>3
  <2> QED
    BY <1>2, <1>3, <1>4, <1>5, <2>1, <2>2, <2>3, <2>4, InodeStep
<1> QED
  BY <1>4, <1>5 DEF IInv

\* The file is in hand next.
LEMMA InHandIs ==
  ASSUME IInv, ~hist.raced, NEW p \in Process, proc[p].pc = "found",
         NEW i \in Inode, NEW l \in {"loading", "drop"},
         l = "loading" => proc[p].call = "load",
         l = "drop" => proc[p].call \in {"open", "remove"},
         proc' = [proc EXCEPT ![p] = [@ EXCEPT !.pc = l, !.sector = 0, !.inode = i]],
         fsLock' = fsLock
  PROVE  /\ proc' \in [Process -> ProcRecord] /\ OthersSame(p) /\ fsLock' \in Process \union {Nobody}
         /\ proc'[p].pc = l /\ proc'[p].executable = proc[p].executable
         /\ ProcOK(p)'
         /\ Cardinality(References(i)') = Cardinality(References(i)) + 1
         /\ \A k \in Inode \ {i} : References(k)' = References(k)
<1>1. TypeOK /\ Running /\ ProcOK(p) /\ proc[p] \in ProcRecord
  BY ProcTypes DEF IInv, Base, Running
<1> DEFINE r == [proc[p] EXCEPT !.pc = l, !.sector = 0, !.inode = i]
<1>2. proc' = [proc EXCEPT ![p] = r]
  OBVIOUS
<1>3. /\ r \in ProcRecord /\ r.pc = l /\ r.call = proc[p].call /\ r.name = proc[p].name
      /\ r.sector = 0 /\ r.data = proc[p].data /\ r.inode = i
      /\ r.opened_files = proc[p].opened_files /\ r.executable = proc[p].executable
  BY <1>1, SectorNumbers DEF ProcRecord, Pc
<1> HIDE DEF r
<1>4. proc' \in [Process -> ProcRecord] /\ OthersSame(p) /\ proc'[p] = r
  BY <1>1, <1>2, <1>3, NewRecord
<1>5. i # Nil /\ 0 \in 0 .. OpenFiles /\ 0 \notin DOMAIN proc[p].opened_files
  BY <1>1, InodesAreNumbers, FileSystemAssumption, ProcTypes, LenProperties DEF Nil
<1>6. ProcOK(p)'
  BY <1>1, <1>3, <1>4, <1>5 DEF ProcOK, LockCall, CreatePc, ClosePc, InodePc, ReleasePc
<1>7. \A k \in 0 .. OpenFiles : \A x : /\ k = 0 => (Refers(p, k, x)' <=> x = i) /\ ~Refers(p, k, x)
                                       /\ k # 0 => (Refers(p, k, x)' <=> Refers(p, k, x))
  BY <1>3, <1>4, <1>5 DEF Refers
<1>8. Cardinality(References(i)') = Cardinality(References(i)) + 1
  BY <1>4, <1>5, <1>7, ReferencesGrow
<1>9. \A k \in Inode \ {i} : References(k)' = References(k)
  BY <1>4, <1>7, ReferencesSame
<1> QED
  BY <1>1, <1>3, <1>4, <1>6, <1>8, <1>9 DEF TypeOK

LEMMA OpenFileKeeps ==
  ASSUME IInv, NEW p \in Process, OpenFile(p)
  PROVE  IInv'
<1>1. /\ Base /\ TypeOK /\ Running /\ ~hist.raced /\ ProcOK(p) /\ proc[p] \in ProcRecord
      /\ proc[p].pc = "found" /\ proc[p].call = "open" /\ UNCHANGED <<disk, freeMap>>
  BY ProcTypes DEF IInv, Base, Running, OpenFile, At
<1>2. PICK i \in Inode :
        /\ InodeOpen(p, i)
        /\ \/ /\ proc' = [proc EXCEPT ![p] =
                   [Forget(@, "user") EXCEPT !.opened_files = Append(proc[p].opened_files, i)]]
              /\ fsLock' = Nobody
           \/ /\ proc' = [proc EXCEPT ![p] = [@ EXCEPT
                   !.pc = "drop", !.sector = 0, !.inode = i]]
              /\ fsLock' = fsLock
  BY DEF OpenFile
<1>3. CASE /\ proc' = [proc EXCEPT ![p] = [@ EXCEPT !.pc = "drop", !.sector = 0, !.inode = i]]
           /\ fsLock' = fsLock
  <2>1. /\ proc' \in [Process -> ProcRecord] /\ OthersSame(p) /\ fsLock' \in Process \union {Nobody}
        /\ proc'[p].pc = "drop" /\ proc'[p].executable = proc[p].executable /\ ProcOK(p)'
        /\ Cardinality(References(i)') = Cardinality(References(i)) + 1
        /\ \A k \in Inode \ {i} : References(k)' = References(k)
    BY <1>1, <1>3, InHandIs
  <2>2. proc'[p].pc \notin CreatePc \union ClosePc \union {"search", "found"}
    BY <2>1 DEF CreatePc, ClosePc, ReleasePc
  <2> QED
    BY <1>1, <1>2, <1>3, <2>1, <2>2, OpenStep
<1>4. CASE /\ proc' = [proc EXCEPT ![p] =
                [Forget(@, "user") EXCEPT !.opened_files = Append(proc[p].opened_files, i)]]
           /\ fsLock' = Nobody
  <2> DEFINE f == Forget(proc[p], "user")
             files == Append(proc[p].opened_files, i)
             n == Len(proc[p].opened_files)
             r == [f EXCEPT !.opened_files = files]
  <2>1. /\ f \in ProcRecord /\ f.pc = "user" /\ f.call = "none" /\ f.name = NoName
        /\ f.sector = 0 /\ f.data = {} /\ f.inode = Nil
        /\ f.executable = proc[p].executable
    BY <1>1, ForgetIs
  <2>2. proc[p].opened_files \in Seq(Inode) /\ n \in 0 .. OpenFiles /\ n < OpenFiles
    BY <1>1, ProcTypes DEF ProcOK
  <2>3. files \in Seq(Inode) /\ Len(files) = n + 1
    BY <2>2, AppendProperties
  <2>4. \A k \in 1 .. n + 1 : files[k] = IF k <= n THEN proc[p].opened_files[k] ELSE i
    BY <2>2, AppendProperties
  <2>5. n + 1 \in 0 .. OpenFiles /\ OpenFiles \in Nat
    BY <2>2, FileSystemAssumption
  <2>6. files \in UNION { [1 .. m -> Inode] : m \in 0 .. OpenFiles }
    <3>1. Len(files) <= OpenFiles
      BY <2>3, <2>5
    <3> HIDE DEF files
    <3> QED
      BY <2>3, <3>1, FilesAreSeqs
  <2>7. DOMAIN proc[p].opened_files = 1 .. n /\ DOMAIN files = 1 .. n + 1
    BY <2>2, <2>3, LenProperties
  <2>8. proc' = [proc EXCEPT ![p] = r]
    BY <1>4
  <2> HIDE DEF f, files, n
  <2>9. /\ r \in ProcRecord /\ r.pc = "user" /\ r.call = "none" /\ r.name = NoName
        /\ r.sector = 0 /\ r.data = {} /\ r.inode = Nil /\ r.opened_files = files
        /\ r.executable = proc[p].executable
    BY <2>1, <2>6 DEF ProcRecord
  <2> HIDE DEF r
  <2>10. proc' \in [Process -> ProcRecord] /\ OthersSame(p) /\ proc'[p] = r
    BY <1>1, <2>8, <2>9, NewRecord
  <2>11. /\ fsLock' \in Process \union {Nobody} /\ fsLock' # p
         /\ \A q \in Process \ {p} : fsLock' = q <=> fsLock = q
    BY <1>1, <1>4, FileSystemAssumption DEF ProcOK, LockCall
  <2>12. ProcOK(p)'
    BY <2>9, <2>10, <2>11 DEF ProcOK, LockCall, CreatePc, ClosePc, InodePc, ReleasePc
  <2>13. \A k \in 0 .. OpenFiles : \A x :
           /\ Refers(p, k, x) <=> k \in 1 .. n /\ proc[p].opened_files[k] = x
           /\ Refers(p, k, x)' <=> k \in 1 .. n + 1 /\ files[k] = x
    BY <1>1, <2>7, <2>9, <2>10 DEF Refers
  <2>14. ASSUME NEW k \in 0 .. OpenFiles, NEW x
         PROVE  /\ k = n + 1 => (Refers(p, k, x)' <=> x = i) /\ ~Refers(p, k, x)
                /\ k # n + 1 => (Refers(p, k, x)' <=> Refers(p, k, x))
    <3>1. n \in Nat /\ k \in Nat
      BY <2>2, <2>5
    <3>2. CASE k = n + 1
      <4>1. k \in 1 .. n + 1 /\ k \notin 1 .. n /\ ~(k <= n)
        BY <3>1, <3>2
      <4>2. files[k] = i
        BY <2>4, <4>1
      <4> QED
        BY <2>13, <3>2, <4>1, <4>2
    <3>3. CASE k # n + 1
      <4>1. k \in 1 .. n + 1 <=> k \in 1 .. n
        BY <3>1, <3>3
      <4>2. k \in 1 .. n => k <= n
        BY <3>1
      <4> QED
        BY <2>4, <2>13, <3>3, <4>1, <4>2
    <3> QED
      BY <3>2, <3>3
  <2>15. Cardinality(References(i)') = Cardinality(References(i)) + 1
    BY <2>5, <2>10, <2>14, ReferencesGrow
  <2>16. \A k \in Inode \ {i} : References(k)' = References(k)
    BY <2>10, <2>14, ReferencesSame
  <2>17. proc'[p].pc \notin CreatePc \union ClosePc \union {"search", "found"}
    BY <2>9, <2>10 DEF CreatePc, ClosePc, ReleasePc
  <2> QED
    BY <1>1, <1>2, <2>9, <2>10, <2>11, <2>12, <2>15, <2>16, <2>17, OpenStep
<1> QED
  BY <1>2, <1>3, <1>4

LEMMA LoadOpenKeeps ==
  ASSUME IInv, NEW p \in Process, LoadOpen(p)
  PROVE  IInv'
<1>1. /\ ~hist.raced /\ proc[p].pc = "found" /\ proc[p].call = "load"
      /\ UNCHANGED <<disk, freeMap, fsLock>>
  BY DEF LoadOpen, At
<1>2. PICK i \in Inode :
        /\ InodeOpen(p, i)
        /\ proc' = [proc EXCEPT ![p] = [@ EXCEPT !.pc = "loading", !.sector = 0, !.inode = i]]
  BY DEF LoadOpen
<1>3. /\ proc' \in [Process -> ProcRecord] /\ OthersSame(p) /\ fsLock' \in Process \union {Nobody}
      /\ proc'[p].pc = "loading" /\ proc'[p].executable = proc[p].executable /\ ProcOK(p)'
      /\ Cardinality(References(i)') = Cardinality(References(i)) + 1
      /\ \A k \in Inode \ {i} : References(k)' = References(k)
  BY <1>1, <1>2, InHandIs
<1>4. proc'[p].pc \notin CreatePc \union ClosePc \union {"search", "found"}
  BY <1>3 DEF CreatePc, ClosePc, ReleasePc
<1> QED
  BY <1>1, <1>2, <1>3, <1>4, OpenStep

\* The entry of the file goes and the inode becomes an orphan with its sectors.
LEMMA EraseBase ==
  ASSUME IInv, ~hist.raced, NEW p \in Process, proc[p].pc = "found",
         NEW i \in Inode, InodeOpen(p, i), proc[p].call = "remove", TypeOK', freeMap' = freeMap,
         NEW c \in Sector, c = inode'[i].sector,
         disk' = [disk EXCEPT !.dir = { e \in @ : e.sector # c }],
         OthersSame(p), proc'[p].pc = "drop"
  PROVE  Base'
<1>1. Base /\ TypeOK /\ Marked /\ Apart /\ FilesOK /\ hist.clobbered = {}
  BY DEF IInv, Base
<1>2. /\ InodesSame(i) /\ hist'.lost = hist.lost /\ hist'.clobbered = hist.clobbered
      /\ ~Orphan(i) /\ inode'[i].removed /\ Opened(i, p)
      /\ \A q \in Process : proc[q].pc \in ReleasePc => proc[q].inode # i
      /\ inode' \in [Inode -> InodeRecord]
  BY OpenIs
<1>3. /\ disk'.map = disk.map /\ disk'.inode = disk.inode
      /\ disk'.dir = { e \in disk.dir : e.sector # c }
  BY <1>1 DEF TypeOK
<1>4. /\ proc[p].pc \notin CreatePc \union ReleasePc
      /\ proc'[p].pc \notin CreatePc \union ReleasePc
  BY DEF CreatePc, ReleasePc
<1>5. ReleaseOK(p)'
  BY <1>4 DEF ReleaseOK
<1>6. CASE ~inode'[i].live
  <2>1. c = 0
    BY <1>2, <1>6 DEF Opened
  <2>2. \A e \in disk.dir : e.sector # c
    <3> SUFFICES ASSUME NEW e \in disk.dir, e.sector = 0 PROVE FALSE
      BY <2>1
    <3>1. 0 \in Sector /\ InFile(0, e)
      BY SectorNumbers DEF InFile, Sectors
    <3> QED
      BY <1>1, <3>1 DEF Marked, Taken, Reserved, FREE_MAP_SECTOR
  <2>3. disk' = disk
    <3>1. disk'.dir = disk.dir
      BY <1>3, <2>2
    <3> QED
      BY <1>1, <1>3, <3>1 DEF TypeOK
  <2>4. SectorsSame
    BY <1>1, <1>2, <2>3 DEF SectorsSame
  <2>5. InodeOK(i)' /\ ~Orphan(i)'
    BY <1>1, <1>2, <1>6, <2>3, OpenedOK DEF Orphan
  <2> QED
    BY <1>1, <1>2, <1>4, <1>5, <2>4, <2>5, InodeStepBase DEF ReleasePc
<1>7. CASE inode'[i].live
  <2>1. PICK e0 \in disk.dir : e0.sector = c
    BY <1>2, <1>7 DEF Opened
  <2>2. /\ inode'[i].data = disk.inode[c]
        /\ \A k \in Inode \ {i} : Alive(k) => inode[k].sector # c
    BY <1>2, <1>7 DEF Opened
  <2>3. \A e \in disk.dir : e \in disk'.dir <=> e # e0
    <3>1. ASSUME NEW e \in disk.dir, e.sector = c PROVE e = e0
      <4>1. InFile(c, e) /\ InFile(c, e0)
        BY <2>1, <3>1 DEF InFile, Sectors
      <4> QED
        BY <1>1, <4>1 DEF Apart
    <3> QED
      BY <1>3, <2>1, <3>1
  <2>4. \A s, e : InFile(s, e)' <=> InFile(s, e)
    BY <1>3 DEF InFile, Sectors
  <2>5. ASSUME NEW s \in Sector PROVE InOrphan(s, i)' <=> InFile(s, e0)
    <3>1. ~Released(i)'
      BY <1>2, <1>4 DEF Released, OthersSame, ReleasePc
    <3>2. Orphan(i)'
      BY <1>2, <1>7 DEF Orphan
    <3> QED
      BY <2>1, <2>2, <3>1, <3>2 DEF InOrphan, InFile, Sectors
  <2>6. ASSUME NEW s \in Sector, NEW k \in Inode, k # i PROVE InOrphan(s, k)' <=> InOrphan(s, k)
    <3>1. inode'[k] = inode[k]
      BY <1>2, <2>6 DEF InodesSame
    <3> QED
      BY <1>4, <3>1, OrphansStay DEF Orphan, ReleasePc
  <2>7. /\ \A s \in Sector, q \in Process : InDraft(s, q)' <=> InDraft(s, q)
        /\ DraftOK(p)'
    BY <1>4, NoDrafts, DraftsStay
  <2>8. \A s \in Sector : ~InOrphan(s, i)
    BY <1>2 DEF InOrphan
  <2>9. \A s \in Sector : Taken(s)' <=> Taken(s)
    <3> TAKE s \in Sector
    <3>1. (\E e \in disk'.dir : InFile(s, e)') <=> (\E e \in disk.dir : e # e0 /\ InFile(s, e))
      BY <1>3, <2>3, <2>4
    <3>2. (\E k \in Inode : InOrphan(s, k)') <=> InFile(s, e0) \/ \E k \in Inode : InOrphan(s, k)
      BY <2>5, <2>6, <2>8
    <3>3. (\E q \in Process : InDraft(s, q)') <=> (\E q \in Process : InDraft(s, q))
      BY <2>7
    <3> QED
      BY <2>1, <3>1, <3>2, <3>3 DEF Taken
  <2>10. Marked'
    BY <1>1, <1>2, <1>3, <2>9 DEF Marked
  <2>11. Apart'
    <3> SUFFICES ASSUME NEW s \in Sector
                 PROVE  /\ \A e, f \in disk'.dir : InFile(s, e)' /\ InFile(s, f)' => e = f
                        /\ \A k, x \in Inode : InOrphan(s, k)' /\ InOrphan(s, x)' => k = x
                        /\ \A e \in disk'.dir, k \in Inode : ~(InFile(s, e)' /\ InOrphan(s, k)')
                        /\ \A e \in disk'.dir, q \in Process : ~(InFile(s, e)' /\ InDraft(s, q)')
                        /\ \A k \in Inode, q \in Process : ~(InOrphan(s, k)' /\ InDraft(s, q)')
      BY DEF Apart
    <3>1. \A e \in disk'.dir : e \in disk.dir /\ e # e0
      BY <1>3, <2>3
    <3>2. \A e, f \in disk'.dir : InFile(s, e)' /\ InFile(s, f)' => e = f
      BY <1>1, <2>4, <3>1 DEF Apart
    <3>3. \A k, x \in Inode : InOrphan(s, k)' /\ InOrphan(s, x)' => k = x
      BY <1>1, <2>1, <2>5, <2>6 DEF Apart
    <3>4. \A e \in disk'.dir, k \in Inode : ~(InFile(s, e)' /\ InOrphan(s, k)')
      BY <1>1, <2>1, <2>4, <2>5, <2>6, <3>1 DEF Apart
    <3>5. \A e \in disk'.dir, q \in Process : ~(InFile(s, e)' /\ InDraft(s, q)')
      BY <1>1, <2>4, <2>7, <3>1 DEF Apart
    <3>6. \A k \in Inode, q \in Process : ~(InOrphan(s, k)' /\ InDraft(s, q)')
      BY <1>1, <2>1, <2>5, <2>6, <2>7 DEF Apart
    <3> QED
      BY <3>2, <3>3, <3>4, <3>5, <3>6
  <2>12. FilesOK'
    BY <1>1, <1>3 DEF FilesOK
  <2>13. ASSUME NEW q \in Process PROVE DraftOK(q)' /\ ReleaseOK(q)'
    <3>1. DraftOK(q)'
      BY <1>3, <2>7 DEF Base, DraftOK, OthersSame, IInv
    <3>2. ASSUME q # p, proc'[q].pc \in ReleasePc PROVE ReleaseOK(q)'
      <4>1. proc'[q] = proc[q] /\ ReleaseOK(q)
        BY <1>1, <3>2 DEF Base, OthersSame
      <4>2. \A x \in Process : proc'[x].pc \in ReleasePc => proc'[x] = proc[x]
        BY <1>4 DEF OthersSame
      <4>3. proc[q].inode \in Inode /\ inode'[proc[q].inode] = inode[proc[q].inode]
        BY <1>2, <3>2, <4>1 DEF ReleaseOK, InodesSame
      <4> QED
        BY <3>2, <4>1, <4>2, <4>3 DEF ReleaseOK, Orphan
    <3> QED
      BY <1>5, <3>1, <3>2 DEF ReleaseOK
  <2>14. ASSUME NEW k \in Inode PROVE InodeOK(k)'
    <3>1. CASE k = i
      <4>1. c \notin disk.inode[c]
        BY <1>1, <2>1 DEF FilesOK
      <4> QED
        BY <1>2, <1>7, <2>2, <3>1, <4>1 DEF InodeOK, Alive, Orphan
    <3>2. CASE k # i
      <4>1. inode'[k] = inode[k] /\ InodeOK(k)
        BY <1>1, <1>2, <3>2 DEF Base, InodesSame
      <4>2. Alive(k) => \E e \in disk'.dir : e.sector = inode[k].sector
        BY <1>3, <2>2, <3>2, <4>1 DEF InodeOK
      <4>3. \A x \in Inode : x = i \/ inode'[x] = inode[x]
        BY <1>2 DEF InodesSame
      <4> QED
        BY <1>2, <1>3, <1>7, <4>1, <4>2, <4>3 DEF InodeOK, Alive, Orphan
    <3> QED
      BY <3>1, <3>2
  <2> QED
    BY <1>1, <1>2, <2>10, <2>11, <2>12, <2>13, <2>14 DEF Base
<1> QED
  BY <1>6, <1>7

LEMMA RemoveEraseKeeps ==
  ASSUME IInv, NEW p \in Process, RemoveErase(p)
  PROVE  IInv'
<1>1. /\ Base /\ TypeOK /\ Running /\ ~hist.raced /\ ProcOK(p)
      /\ proc[p].pc = "found" /\ proc[p].call = "remove" /\ UNCHANGED <<freeMap, fsLock>>
  BY DEF IInv, Base, Running, RemoveErase, At
<1>2. PICK i \in Inode :
        /\ InodeOpen(p, i)
        /\ disk' = [disk EXCEPT !.dir = { e \in @ : e.sector # inode'[i].sector }]
        /\ proc' = [proc EXCEPT ![p] = [@ EXCEPT !.pc = "drop", !.sector = 0, !.inode = i]]
  BY DEF RemoveErase
<1>3. /\ proc' \in [Process -> ProcRecord] /\ OthersSame(p) /\ fsLock' \in Process \union {Nobody}
      /\ proc'[p].pc = "drop" /\ proc'[p].executable = proc[p].executable /\ ProcOK(p)'
      /\ Cardinality(References(i)') = Cardinality(References(i)) + 1
      /\ \A k \in Inode \ {i} : References(k)' = References(k)
  BY <1>1, <1>2, InHandIs
<1>4. /\ inode' \in [Inode -> InodeRecord] /\ InodesSame(i)
      /\ hist' \in HistRecord /\ hist'.stranded = hist.stranded
      /\ ~hist'.raced =>
           /\ inode'[i].live /\ inode'[i].listed
           /\ inode'[i].open_cnt = inode[i].open_cnt + 1 /\ inode[i].open_cnt >= 0
           /\ inode'[i].deny_write_cnt = inode[i].deny_write_cnt
           /\ \A q \in Process : proc[q].pc \in ClosePc => proc[q].inode # i
  BY <1>1, <1>2, OpenIs
<1>5. PICK c \in Sector : c = inode'[i].sector
  BY <1>4 DEF InodeRecord
<1>6. disk' = [disk EXCEPT !.dir = { e \in @ : e.sector # c }]
  BY <1>2, <1>5
<1>7. TypeOK'
  BY <1>1, <1>3, <1>4, <1>6 DEF TypeOK
<1>8. Base'
  BY <1>1, <1>2, <1>3, <1>5, <1>6, <1>7, EraseBase
<1>9. ASSUME ~hist'.raced PROVE IInv'
  <2>1. FoundOK(p)' /\ UnlinkOK(p)' /\ proc'[p].pc \notin ClosePc
    BY <1>3 DEF FoundOK, UnlinkOK, ClosePc, ReleasePc
  <2>2. \A q \in Process \ {p} : proc[q].pc \notin {"search", "found"}
    <3>1. fsLock = p
      BY <1>1 DEF ProcOK, LockCall
    <3> QED
      BY <1>1, <3>1, LockHolder
  <2>3. ListedOK(i)'
    BY <1>4, <1>9 DEF ListedOK, Alive
  <2>4. ASSUME NEW k \in Inode PROVE CountOK(k)'
    <3>1. CountOK(k) /\ Runners(k)' = Runners(k) /\ hist'.stranded = hist.stranded
      BY <1>1, <1>3, <1>4, RunnersSame DEF Running
    <3>2. CASE k = i
      BY <1>3, <1>4, <1>9, <3>1, <3>2, ReferencesFinite DEF CountOK, ReferencesTo
    <3>3. CASE k # i
      BY <1>3, <1>4, <3>1, <3>3 DEF CountOK, ReferencesTo, InodesSame
    <3> QED
      BY <3>2, <3>3
  <2>5. \A q \in Process \ {p} : fsLock' = q <=> fsLock = q
    BY <1>1
  <2> QED
    BY <1>1, <1>3, <1>4, <1>7, <1>8, <1>9, <2>1, <2>2, <2>3, <2>4, <2>5, InodeStep
<1> QED
  BY <1>8, <1>9 DEF IInv

-------------------------------------------------------------------------------
(***************************************************************************)
(* inode_close, when the file has been removed: the sectors are released.  *)
(***************************************************************************)
LEMMA ReleaseIs ==
  ASSUME TypeOK, NEW S \in SUBSET Sector, Release(S)
  PROVE  /\ freeMap' = freeMap \ S /\ disk'.map = freeMap \ S /\ disk'.dir = disk.dir
         /\ \A s \in Sector : disk'.inode[s] = IF s \in S THEN {} ELSE disk.inode[s]
         /\ disk' \in [ map : SUBSET Sector, dir : SUBSET [name : Name, sector : Sector],
                        inode : [Sector -> SUBSET Sector] ]
<1> DEFINE f == [s \in Sector |-> IF s \in S THEN {} ELSE disk.inode[s]]
           m == freeMap \ S
<1>1. disk' = [disk EXCEPT !.map = m, !.inode = f] /\ freeMap' = m
  BY DEF Release
<1>2. f \in [Sector -> SUBSET Sector] /\ m \in SUBSET Sector
  BY DEF TypeOK
<1>3. \A s \in Sector : f[s] = IF s \in S THEN {} ELSE disk.inode[s]
  OBVIOUS
<1> HIDE DEF f, m
<1>4. /\ disk'.map = m /\ disk'.dir = disk.dir /\ disk'.inode = f
      /\ disk' \in [ map : SUBSET Sector, dir : SUBSET [name : Name, sector : Sector],
                     inode : [Sector -> SUBSET Sector] ]
  BY <1>1, <1>2 DEF TypeOK
<1> QED
  BY <1>1, <1>3, <1>4 DEF m

\* The sectors that go belong to the orphan that p has in hand, and to nobody next.
LEMMA ReleaseBase ==
  ASSUME Base, NEW p \in Process, proc[p].pc \in ReleasePc, TypeOK', OthersSame(p),
         NEW i \in Inode, i = proc[p].inode, InodesSame(i),
         NEW S \in SUBSET Sector, Release(S),
         \A s \in Sector : InOrphan(s, i)' <=> InOrphan(s, i) /\ s \notin S,
         \A s \in S : InOrphan(s, i),
         proc'[p].pc \notin CreatePc, proc'[p].pc \in ReleasePc => proc'[p].inode = i,
         hist' = hist, ReleaseOK(p)', InodeOK(i)', ~Alive(i)'
  PROVE  Base'
<1>1. /\ TypeOK /\ Marked /\ Apart /\ FilesOK /\ hist.clobbered = {}
      /\ ReleaseOK(p) /\ DraftOK(p) /\ Orphan(i)
  BY DEF Base, ReleaseOK
<1>2. /\ freeMap' = freeMap \ S /\ disk'.map = freeMap \ S /\ disk'.dir = disk.dir
      /\ \A s \in Sector : disk'.inode[s] = IF s \in S THEN {} ELSE disk.inode[s]
  BY <1>1, ReleaseIs
<1>3. \A e \in disk.dir : e.sector \in Sector /\ e.sector \notin S /\ disk'.inode[e.sector] = disk.inode[e.sector]
  <2> TAKE e \in disk.dir
  <2>1. InFile(e.sector, e) /\ e.sector \in Sector
    BY <1>1, StateTypes DEF InFile, Sectors
  <2>2. e.sector \notin S
    BY <1>1, <2>1 DEF Apart
  <2> QED
    BY <1>2, <2>1, <2>2
<1>4. \A e \in disk.dir : \A s : InFile(s, e)' <=> InFile(s, e)
  BY <1>3 DEF InFile, Sectors
<1>5. proc[p].pc \notin CreatePc
  BY DEF CreatePc, ReleasePc
<1>6. /\ \A s \in Sector, q \in Process : InDraft(s, q)' <=> InDraft(s, q)
      /\ DraftOK(p)'
  BY <1>5, NoDrafts, DraftsStay
<1>7. ASSUME NEW s \in Sector, NEW k \in Inode \ {i} PROVE InOrphan(s, k)' <=> InOrphan(s, k)
  <2>1. inode'[k] = inode[k]
    BY DEF InodesSame
  <2>2. Released(k)' <=> Released(k)
    BY DEF Released, OthersSame, ReleasePc
  <2> QED
    BY <2>1, <2>2 DEF InOrphan, Orphan
<1>8. ASSUME NEW s \in Sector
      PROVE  /\ Taken(s)' <=> Taken(s) /\ s \notin S
             /\ s \in S => s \notin Reserved
  <2>1. CASE s \in S
    <3>1. InOrphan(s, i) /\ ~InOrphan(s, i)'
      BY <2>1
    <3>2. \A e \in disk.dir : ~InFile(s, e)
      BY <1>1, <3>1 DEF Apart
    <3>3. \A k \in Inode \ {i} : ~InOrphan(s, k)
      BY <1>1, <3>1 DEF Apart
    <3>4. \A q \in Process : ~InDraft(s, q)
      BY <1>1, <3>1 DEF Apart
    <3>5. ~Taken(s)'
      <4>1. \A e \in disk'.dir : ~InFile(s, e)'
        BY <1>2, <1>4, <3>2
      <4>2. \A k \in Inode : ~InOrphan(s, k)'
        BY <1>7, <3>1, <3>3
      <4>3. \A q \in Process : ~InDraft(s, q)'
        BY <1>6, <3>4
      <4> QED
        BY <4>1, <4>2, <4>3 DEF Taken
    <3>6. s \notin Reserved
      BY <1>1, <3>1 DEF Marked, Taken
    <3> QED
      BY <2>1, <3>5, <3>6
  <2>2. CASE s \notin S
    <3>1. (\E e \in disk'.dir : InFile(s, e)') <=> (\E e \in disk.dir : InFile(s, e))
      BY <1>2, <1>4
    <3>2. (\E k \in Inode : InOrphan(s, k)') <=> (\E k \in Inode : InOrphan(s, k))
      <4>1. InOrphan(s, i)' <=> InOrphan(s, i)
        BY <2>2
      <4>2. \A k \in Inode : InOrphan(s, k)' <=> InOrphan(s, k)
        BY <1>7, <4>1
      <4> QED
        BY <4>2
    <3>3. (\E q \in Process : InDraft(s, q)') <=> (\E q \in Process : InDraft(s, q))
      BY <1>6
    <3> QED
      BY <2>2, <3>1, <3>2, <3>3 DEF Taken
  <2> QED
    BY <2>1, <2>2
<1>9. Marked'
  <2>1. Reserved \subseteq Sector
    BY FileSystemAssumption
  <2> QED
    BY <1>1, <1>2, <1>8, <2>1 DEF Marked
<1>10. Apart'
  <2> SUFFICES ASSUME NEW s \in Sector
               PROVE  /\ \A e, f \in disk'.dir : InFile(s, e)' /\ InFile(s, f)' => e = f
                      /\ \A k, x \in Inode : InOrphan(s, k)' /\ InOrphan(s, x)' => k = x
                      /\ \A e \in disk'.dir, k \in Inode : ~(InFile(s, e)' /\ InOrphan(s, k)')
                      /\ \A e \in disk'.dir, q \in Process : ~(InFile(s, e)' /\ InDraft(s, q)')
                      /\ \A k \in Inode, q \in Process : ~(InOrphan(s, k)' /\ InDraft(s, q)')
    BY DEF Apart
  <2>1. \A k \in Inode : InOrphan(s, k)' => InOrphan(s, k)
    BY <1>7
  <2>2. \A e \in disk'.dir : e \in disk.dir /\ (InFile(s, e)' => InFile(s, e))
    BY <1>2, <1>4
  <2>3. \A q \in Process : InDraft(s, q)' => InDraft(s, q)
    BY <1>6
  <2> QED
    BY <1>1, <2>1, <2>2, <2>3 DEF Apart
<1>11. FilesOK'
  BY <1>1, <1>2, <1>3 DEF FilesOK
<1>12. ASSUME NEW q \in Process PROVE DraftOK(q)'
  <2> SUFFICES ASSUME q # p, proc'[q].pc \in CreatePc PROVE DraftOK(q)'
    BY <1>6 DEF DraftOK, CreatePc
  <2>1. proc'[q] = proc[q] /\ DraftOK(q)
    BY DEF OthersSame, Base
  <2>2. proc[q].sector \in Sector /\ InDraft(proc[q].sector, q)
    BY <1>1, <2>1, ProcTypes DEF InDraft
  <2>3. proc[q].sector \notin S
    BY <1>1, <2>2 DEF Apart
  <2> QED
    BY <1>2, <2>1, <2>2, <2>3 DEF DraftOK
<1>13. ASSUME NEW q \in Process PROVE ReleaseOK(q)'
  <2> SUFFICES ASSUME q # p, proc'[q].pc \in ReleasePc PROVE ReleaseOK(q)'
    BY DEF ReleaseOK
  <2>1. proc'[q] = proc[q] /\ ReleaseOK(q)
    BY DEF OthersSame, Base
  <2>2. proc[q].inode \in Inode \ {i}
    BY <1>1, <2>1 DEF ReleaseOK
  <2>3. inode'[proc[q].inode] = inode[proc[q].inode]
    BY <2>2 DEF InodesSame
  <2>4. ASSUME NEW x \in Process, proc'[x].pc \in ReleasePc, proc'[x].inode = proc[q].inode
        PROVE  x = q
    <3>1. x # p
      BY <2>2, <2>4
    <3>2. proc'[x] = proc[x]
      BY <3>1 DEF OthersSame
    <3> QED
      BY <2>1, <2>4, <3>2 DEF ReleaseOK
  <2> QED
    BY <2>1, <2>2, <2>3, <2>4 DEF ReleaseOK, Orphan
<1>14. ASSUME NEW k \in Inode PROVE InodeOK(k)'
  <2> SUFFICES ASSUME k # i PROVE InodeOK(k)'
    OBVIOUS
  <2>1. inode'[k] = inode[k] /\ InodeOK(k)
    BY DEF InodesSame, Base
  <2>2. Alive(k) => /\ \E e \in disk'.dir : e.sector = inode[k].sector
                    /\ inode[k].data = disk'.inode[inode[k].sector]
    BY <1>2, <1>3, <2>1 DEF InodeOK
  <2>3. ASSUME NEW x \in Inode,
               \/ Alive(k)' /\ Alive(x)' /\ inode'[k].sector = inode'[x].sector
               \/ /\ ~inode'[k].live /\ inode'[k].open_cnt > 0
                  /\ ~inode'[x].live /\ inode'[x].open_cnt > 0
        PROVE  k = x
    <3>1. CASE x = i
      BY <2>3, <3>1 DEF InodeOK
    <3>2. CASE x # i
      <4>1. inode'[x] = inode[x]
        BY <3>2 DEF InodesSame
      <4> QED
        BY <2>1, <2>3, <4>1, ZenonT(60) DEF InodeOK, Alive
    <3> QED
      BY <3>1, <3>2
  <2> QED
    BY <2>1, <2>2, <2>3, ZenonT(60) DEF InodeOK, Alive, Orphan
<1> QED
  BY <1>1, <1>9, <1>10, <1>11, <1>12, <1>13, <1>14 DEF Base

\* What is known of p and of its inode while it releases the sectors.
LEMMA ReleaserIs ==
  ASSUME IInv, ~hist.raced, NEW p \in Process, proc[p].pc \in ReleasePc,
         NEW i \in Inode, i = proc[p].inode
  PROVE  /\ Orphan(i) /\ ~inode[i].listed /\ inode[i].open_cnt = 0
         /\ inode[i].deny_write_cnt = 0 /\ inode[i].sector \notin inode[i].data
         /\ ReleaseOK(p) /\ proc[p].call \in {"open", "remove", "close", "exit"}
         /\ \A q \in Process \ {p} : proc[q].pc \in ClosePc => proc[q].inode # i
         /\ \A q \in Process : proc[q].pc = "found" => proc[q].inode # i
<1>1. /\ Base /\ Running /\ ReleaseOK(p) /\ InodeOK(i) /\ CountOK(i) /\ ProcOK(p)
  BY DEF IInv, Base, Running
<1>2. Orphan(i) /\ ~inode[i].listed /\ inode[i].open_cnt = 0
  BY <1>1 DEF ReleaseOK
<1>3. inode[i].deny_write_cnt = 0
  BY <1>1, <1>2, NobodyRunsIt
<1>4. ASSUME NEW q \in Process \ {p}, proc[q].pc \in ClosePc, proc[q].inode = i PROVE FALSE
  BY <1>1, <1>2, <1>4 DEF Running, UnlinkOK, ReleaseOK, ClosePc
<1>5. ASSUME NEW q \in Process, proc[q].pc = "found", proc[q].inode = i PROVE FALSE
  <2>1. i # Nil /\ inode[i] # Freed /\ ~Alive(i)
    BY <1>2, InodesAreNumbers DEF Orphan, Alive, Freed, Nil
  <2> QED
    BY <1>1, <1>5, <2>1 DEF Running, FoundOK
<1>6. proc[p].call \in {"open", "remove", "close", "exit"}
  BY <1>1 DEF ProcOK, ClosePc
<1> QED
  BY <1>1, <1>2, <1>3, <1>4, <1>5, <1>6 DEF InodeOK

LEMMA ReleaseInodeKeeps ==
  ASSUME IInv, NEW p \in Process, ReleaseInode(p)
  PROVE  IInv'
<1>1. /\ Base /\ TypeOK /\ Running /\ ~hist.raced /\ ProcOK(p)
      /\ proc[p].pc = "release_inode" /\ proc[p].pc \in ReleasePc
      /\ UNCHANGED <<inode, fsLock, hist>> /\ Goto(p, "release_data") /\ "release_data" \in Pc
      /\ proc[p].inode \in Inode /\ proc[p].sector = 0 /\ proc[p].data = {}
  BY ProcTypes
     DEF IInv, Base, Running, ProcOK, ReleaseInode, At, ReleasePc, ClosePc, InodePc, CreatePc, Pc
<1>2. PICK i \in Inode : i = proc[p].inode
  BY <1>1
<1> DEFINE S == {inode[i].sector}
<1>3. Release(S) /\ S \in SUBSET Sector
  BY <1>1, <1>2, StateTypes DEF ReleaseInode
<1>4. /\ Orphan(i) /\ ~inode[i].listed /\ inode[i].open_cnt = 0
      /\ inode[i].sector \notin inode[i].data /\ i # Nil
      /\ ReleaseOK(p) /\ proc[p].call \in {"open", "remove", "close", "exit"}
      /\ \A q \in Process \ {p} : proc[q].pc \in ClosePc => proc[q].inode # i
  BY <1>1, <1>2, ReleaserIs, InodesAreNumbers DEF Nil
<1>5. /\ proc' \in [Process -> ProcRecord] /\ OthersSame(p)
      /\ proc'[p].pc = "release_data" /\ proc'[p].call = proc[p].call
      /\ proc'[p].sector = 0 /\ proc'[p].data = {} /\ proc'[p].inode = i
      /\ proc'[p].opened_files = proc[p].opened_files
      /\ proc'[p].executable = proc[p].executable
  BY <1>1, <1>2, GotoIs
<1>6. /\ freeMap' = freeMap \ S /\ disk'.dir = disk.dir
      /\ disk' \in [ map : SUBSET Sector, dir : SUBSET [name : Name, sector : Sector],
                     inode : [Sector -> SUBSET Sector] ]
  BY <1>1, <1>3, ReleaseIs
<1>7. TypeOK'
  BY <1>1, <1>5, <1>6 DEF TypeOK
<1>8. InodesSame(i)
  BY <1>1 DEF InodesSame
<1>9. ~Released(i) /\ Released(i)'
  <2>1. ~Released(i)
    BY <1>1, <1>2, <1>4 DEF Released, ReleaseOK, ReleasePc
  <2>2. Released(i)'
    BY <1>5 DEF Released
  <2> QED
    BY <2>1, <2>2
<1>10. /\ \A s \in Sector : InOrphan(s, i)' <=> InOrphan(s, i) /\ s \notin S
       /\ \A s \in S : InOrphan(s, i)
  BY <1>1, <1>4, <1>9 DEF InOrphan, Orphan
<1>11. ReleaseOK(p)'
  <2>1. ASSUME NEW q \in Process, proc'[q].pc \in ReleasePc, proc'[q].inode = i PROVE q = p
    BY <1>4, <1>5, <2>1 DEF OthersSame, ClosePc
  <2> QED
    BY <1>1, <1>4, <1>5, <2>1 DEF ReleaseOK, Orphan
<1>12. InodeOK(i)' /\ ~Alive(i)'
  BY <1>1, <1>4 DEF InodeOK, Alive, Orphan
<1>13. Base'
  <2>1. proc'[p].pc \notin CreatePc
    BY <1>5 DEF CreatePc
  <2> HIDE DEF S
  <2> QED
    BY <1>1, <1>2, <1>3, <1>5, <1>7, <1>8, <1>10, <1>11, <1>12, <2>1, ReleaseBase
<1>14. ProcOK(p)' /\ FoundOK(p)' /\ UnlinkOK(p)'
  BY <1>1, <1>4, <1>5
     DEF ProcOK, FoundOK, UnlinkOK, LockCall, CreatePc, ClosePc, InodePc, ReleasePc
<1>15. \A q \in Process \ {p} : FoundOK(q)'
  BY <1>1, <1>5, <1>6 DEF Running, FoundOK, OthersSame, Alive
<1>16. ListedOK(i)'
  BY <1>1 DEF Running, ListedOK, Alive
<1>17. \A k \in Inode : CountOK(k)'
  <2>1. {proc[p].pc, proc'[p].pc} \intersect {"loading", "drop"} = {}
    BY <1>1, <1>5
  <2> QED
    BY <1>1, <1>5, <1>8, <2>1, CountsStay
<1>18. \A q \in Process \ {p} : fsLock' = q <=> fsLock = q
  BY <1>1
<1> QED
  BY <1>1, <1>4, <1>5, <1>7, <1>8, <1>13, <1>14, <1>15, <1>16, <1>17, <1>18, InodeStep

LEMMA ReleaseDataKeeps ==
  ASSUME IInv, NEW p \in Process, ReleaseData(p)
  PROVE  IInv'
<1>1. /\ Base /\ TypeOK /\ Running /\ ~hist.raced /\ ProcOK(p)
      /\ proc[p].pc = "release_data" /\ proc[p].pc \in ReleasePc /\ proc[p].pc \in ClosePc
      /\ hist' = hist /\ Return(p) /\ proc[p].inode \in Inode
  BY ProcTypes
     DEF IInv, Base, Running, ProcOK, ReleaseData, At, ReleasePc, ClosePc, InodePc
<1>2. PICK i \in Inode : i = proc[p].inode
  BY <1>1
<1>3. PICK S \in SUBSET Sector : S = inode[i].data
  BY <1>1, StateTypes
<1>4. Release(S) /\ inode' = [inode EXCEPT ![i] = Freed]
  BY <1>2, <1>3 DEF ReleaseData
<1>5. /\ Orphan(i) /\ ~inode[i].listed /\ inode[i].open_cnt = 0
      /\ inode[i].deny_write_cnt = 0
      /\ \A q \in Process \ {p} : proc[q].pc \in ClosePc => proc[q].inode # i
      /\ \A q \in Process : proc[q].pc = "found" => proc[q].inode # i
  BY <1>1, <1>2, ReleaserIs
<1>6. /\ proc' \in [Process -> ProcRecord] /\ OthersSame(p)
      /\ proc'[p].opened_files = proc[p].opened_files
      /\ proc'[p].executable = proc[p].executable
      /\ fsLock' \in Process \union {Nobody}
      /\ \A q \in Process \ {p} : fsLock' = q <=> fsLock = q
  BY <1>1, ReturnIs DEF TypeOK
<1>7. /\ ProcOK(p)' /\ FoundOK(p)' /\ UnlinkOK(p)'
      /\ proc'[p].pc \notin CreatePc \union ClosePc \union {"search", "found"}
      /\ proc'[p].pc \notin {"loading", "drop"}
  BY <1>1, ReturnProcOK, ReturnIs
<1>8. inode' \in [Inode -> InodeRecord] /\ InodesSame(i) /\ inode'[i] = Freed
  BY <1>1, <1>4, SectorNumbers DEF TypeOK, InodeRecord, InodesSame, Freed
<1>9. /\ freeMap' = freeMap \ S /\ disk'.dir = disk.dir
      /\ disk' \in [ map : SUBSET Sector, dir : SUBSET [name : Name, sector : Sector],
                     inode : [Sector -> SUBSET Sector] ]
  BY <1>1, <1>4, ReleaseIs
<1>10. TypeOK'
  BY <1>1, <1>6, <1>8, <1>9 DEF TypeOK
<1>11. /\ \A s \in Sector : InOrphan(s, i)' <=> InOrphan(s, i) /\ s \notin S
       /\ \A s \in S : InOrphan(s, i)
  <2>1. Released(i)
    BY <1>1, <1>2 DEF Released
  <2>2. ~Orphan(i)'
    BY <1>8 DEF Orphan, Freed
  <2> QED
    BY <1>3, <1>5, <2>1, <2>2 DEF InOrphan
<1>12. ReleaseOK(p)' /\ InodeOK(i)' /\ ~Alive(i)'
  BY <1>7, <1>8 DEF ReleaseOK, ClosePc, InodeOK, Alive, Orphan, Freed
<1>13. Base'
  <2>1. proc'[p].pc \notin CreatePc \union ReleasePc
    BY <1>7 DEF ClosePc
  <2> QED
    BY <1>1, <1>2, <1>4, <1>6, <1>8, <1>10, <1>11, <1>12, <2>1, ReleaseBase
<1>14. ASSUME NEW q \in Process \ {p}, proc[q].pc \in {"search", "found"} PROVE FoundOK(q)'
  <2>1. FoundOK(q) /\ proc'[q] = proc[q]
    BY <1>1, <1>6 DEF Running, OthersSame
  <2>2. CASE proc[q].pc = "search"
    BY <1>9, <2>1, <2>2 DEF FoundOK
  <2>3. CASE proc[q].pc = "found"
    <3>1. proc[q].inode # i /\ ~inode'[i].listed
      BY <1>5, <1>8, <2>3 DEF Freed
    <3> QED
      BY <1>1, <1>8, <1>9, <2>1, <2>3, <3>1, ProcTypes DEF FoundOK, Alive, InodesSame, Nil
  <2> QED
    BY <1>14, <2>2, <2>3
<1>15. ListedOK(i)'
  BY <1>8 DEF ListedOK, Alive, Freed
<1>16. \A k \in Inode : CountOK(k)'
  <2>1. {proc[p].pc, proc'[p].pc} \intersect {"loading", "drop"} = {}
    BY <1>1, <1>7
  <2>2. inode'[i].open_cnt = inode[i].open_cnt /\ inode'[i].deny_write_cnt = inode[i].deny_write_cnt
    BY <1>5, <1>8 DEF Freed
  <2> QED
    BY <1>1, <1>6, <1>8, <2>1, <2>2, CountsStay
<1> QED
  BY <1>1, <1>5, <1>6, <1>7, <1>8, <1>10, <1>13, <1>14, <1>15, <1>16, InodeStep

-------------------------------------------------------------------------------
(***************************************************************************)
(* filesys_create.                                                         *)
(***************************************************************************)
LEMMA AllocateIs ==
  ASSUME TypeOK, NEW cnt \in Nat, Allocate(cnt),
         NEW first, first = ScanClear(freeMap, SectorCount, cnt)
  PROVE  /\ first \in Nat /\ Bits(first, cnt) \subseteq Sector
         /\ Bits(first, cnt) \intersect freeMap = {}
         /\ freeMap' = freeMap \union Bits(first, cnt) /\ disk'.map = freeMap'
         /\ disk'.dir = disk.dir /\ disk'.inode = disk.inode
         /\ disk' \in [ map : SUBSET Sector, dir : SUBSET [name : Name, sector : Sector],
                        inode : [Sector -> SUBSET Sector] ]
<1> DEFINE groups == { i \in 0 .. SectorCount - cnt : Bits(i, cnt) \intersect freeMap = {} }
           m == freeMap \union Bits(first, cnt)
<1>1. SectorCount \in Nat
  BY FileSystemAssumption
<1>2. first # BITMAP_ERROR
  BY DEF Allocate
<1>3. groups # {} /\ first = Min(groups)
  BY <1>2 DEF ScanClear
<1>4. first \in groups
  <2>1. groups \in SUBSET Nat
    BY <1>1
  <2> HIDE DEF groups
  <2> QED
    BY <1>3, <2>1, LeastIs
<1>5. /\ first \in Nat /\ first \in 0 .. SectorCount - cnt
      /\ Bits(first, cnt) \intersect freeMap = {}
  BY <1>1, <1>4
<1>6. Bits(first, cnt) \subseteq Sector
  BY <1>1, <1>5 DEF Bits, Sector
<1>7. freeMap' = m /\ disk' = [disk EXCEPT !.map = m]
  BY <1>2 DEF Allocate, FreeMapAllocate, ScanAndSet
<1>8. m \in SUBSET Sector
  BY <1>6 DEF TypeOK
<1> HIDE DEF m
<1>9. /\ disk'.map = m /\ disk'.dir = disk.dir /\ disk'.inode = disk.inode
      /\ disk' \in [ map : SUBSET Sector, dir : SUBSET [name : Name, sector : Sector],
                     inode : [Sector -> SUBSET Sector] ]
  BY <1>7, <1>8 DEF TypeOK
<1> QED
  BY <1>5, <1>6, <1>7, <1>9 DEF m

\* The files there are keep their sectors, and no inode in memory changes.
LEMMA CreateBase ==
  ASSUME Base, NEW p \in Process, TypeOK', OthersSame(p), inode' = inode,
         hist'.clobbered = {},
         proc[p].pc \notin ReleasePc, proc'[p].pc \notin ReleasePc,
         Marked', Apart', FilesOK', \A q \in Process : DraftOK(q)',
         disk.dir \subseteq disk'.dir,
         \A e \in disk.dir : disk'.inode[e.sector] = disk.inode[e.sector]
  PROVE  Base'
<1>1. ASSUME NEW q \in Process PROVE ReleaseOK(q)'
  BY DEF Base, ReleaseOK, OthersSame, Orphan
<1>2. ASSUME NEW k \in Inode PROVE InodeOK(k)'
  <2>1. InodeOK(k)
    BY DEF Base
  <2> QED
    BY <2>1 DEF InodeOK, Alive, Orphan
<1> QED
  BY <1>1, <1>2 DEF Base

\* No other process looks at the disk or at what has been found.
LEMMA CreateStep ==
  ASSUME IInv, ~hist.raced, NEW p \in Process, OthersSame(p), Base', inode' = inode,
         hist'.stranded = hist.stranded,
         \A q \in Process \ {p} : proc[q].pc \notin {"search", "found"},
         \A q \in Process \ {p} : fsLock' = q <=> fsLock = q,
         proc[p].pc \notin InodePc, proc'[p].pc \notin InodePc \union {"search", "found"},
         proc'[p].opened_files = proc[p].opened_files,
         proc'[p].executable = proc[p].executable,
         ProcOK(p)'
  PROVE  IInv'
<1>1. Running
  BY DEF IInv
<1>2. ASSUME NEW q \in Process PROVE ProcOK(q)' /\ FoundOK(q)' /\ UnlinkOK(q)'
  <2>1. ProcOK(q)'
    BY <1>1, OthersProcOK
  <2>2. FoundOK(q)'
    BY DEF FoundOK, OthersSame
  <2>3. UnlinkOK(q)'
    BY <1>1 DEF Running, UnlinkOK, OthersSame, ClosePc, InodePc, Orphan
  <2> QED
    BY <2>1, <2>2, <2>3
<1>3. ASSUME NEW k \in Inode PROVE ListedOK(k)' /\ CountOK(k)'
  <2>1. References(k)' = References(k) /\ Runners(k)' = Runners(k)
    <3>1. \A j \in 0 .. OpenFiles : Refers(p, j, k)' <=> Refers(p, j, k)
      BY DEF Refers, InodePc
    <3> QED
      BY <3>1, ReferencesSame, RunnersSame
  <2> QED
    BY <1>1, <2>1 DEF Running, ListedOK, CountOK, Alive, ReferencesTo
<1> QED
  BY <1>2, <1>3 DEF IInv, Running

\* Free sectors become part of the draft of p.
LEMMA AllocateBase ==
  ASSUME Base, NEW p \in Process, TypeOK', OthersSame(p), inode' = inode,
         NEW S \in SUBSET Sector, S \intersect freeMap = {},
         freeMap' = freeMap \union S, disk'.map = freeMap', disk'.dir = disk.dir,
         disk'.inode = disk.inode, hist'.lost = hist.lost, hist'.clobbered = hist.clobbered,
         proc[p].pc \notin ReleasePc, proc'[p].pc \notin ReleasePc,
         \A s \in Sector : InDraft(s, p)' <=> InDraft(s, p) \/ s \in S,
         DraftOK(p)'
  PROVE  Base'
<1>1. TypeOK /\ Marked /\ Apart /\ FilesOK /\ hist.clobbered = {}
  BY DEF Base
<1>2. \A s \in Sector, i \in Inode : InOrphan(s, i)' <=> InOrphan(s, i)
  BY OrphansStay DEF Orphan, ReleasePc
<1>3. \A s, e : InFile(s, e)' <=> InFile(s, e)
  BY DEF InFile, Sectors
<1>4. \A s \in Sector, q \in Process :
        InDraft(s, q)' <=> InDraft(s, q) \/ (q = p /\ s \in S)
  <2> TAKE s \in Sector, q \in Process
  <2>1. CASE q = p
    BY <2>1
  <2>2. CASE q # p
    BY <2>2 DEF InDraft, OthersSame
  <2> QED
    BY <2>1, <2>2
<1>5. \A s \in Sector : Taken(s)' <=> Taken(s) \/ s \in S
  <2> TAKE s \in Sector
  <2>1. (\E e \in disk'.dir : InFile(s, e)') <=> (\E e \in disk.dir : InFile(s, e))
    BY <1>3
  <2>2. (\E k \in Inode : InOrphan(s, k)') <=> (\E k \in Inode : InOrphan(s, k))
    BY <1>2
  <2>3. (\E q \in Process : InDraft(s, q)') <=> (\E q \in Process : InDraft(s, q)) \/ s \in S
    BY <1>4
  <2> QED
    BY <2>1, <2>2, <2>3 DEF Taken
<1>6. S \intersect Reserved = {}
  BY <1>1 DEF Marked
<1>7. Marked'
  BY <1>1, <1>5, <1>6 DEF Marked
<1>8. Apart'
  <2> SUFFICES ASSUME NEW s \in Sector
               PROVE  /\ \A e, f \in disk'.dir : InFile(s, e)' /\ InFile(s, f)' => e = f
                      /\ \A k, x \in Inode : InOrphan(s, k)' /\ InOrphan(s, x)' => k = x
                      /\ \A e \in disk'.dir, k \in Inode : ~(InFile(s, e)' /\ InOrphan(s, k)')
                      /\ \A e \in disk'.dir, q \in Process : ~(InFile(s, e)' /\ InDraft(s, q)')
                      /\ \A k \in Inode, q \in Process : ~(InOrphan(s, k)' /\ InDraft(s, q)')
    BY DEF Apart
  <2>1. s \in S => ~Taken(s)
    BY <1>1 DEF Marked
  <2>2. \A k \in Inode : InOrphan(s, k)' => InOrphan(s, k) /\ s \notin S
    BY <1>2, <2>1 DEF Taken
  <2>3. \A e \in disk'.dir : e \in disk.dir /\ (InFile(s, e)' => InFile(s, e) /\ s \notin S)
    BY <1>3, <2>1 DEF Taken
  <2>4. \A q \in Process : InDraft(s, q)' => InDraft(s, q) \/ s \in S
    BY <1>4
  <2> QED
    BY <1>1, <2>2, <2>3, <2>4 DEF Apart
<1>9. FilesOK'
  BY <1>1 DEF FilesOK
<1>10. \A q \in Process : DraftOK(q)'
  BY DEF Base, DraftOK, OthersSame
<1> QED
  BY <1>1, <1>7, <1>8, <1>9, <1>10, CreateBase

LEMMA CreateKeeps ==
  ASSUME IInv, NEW p \in Process, NEW n \in Name, Create(p, n)
  PROVE  IInv'
<1>1. /\ Base /\ TypeOK /\ Running /\ ~hist.raced /\ ProcOK(p) /\ proc[p] \in ProcRecord
      /\ proc[p].pc = "user" /\ fsLock = Nobody /\ fsLock' = p /\ inode' = inode
      /\ Allocate(1) /\ hist.clobbered = {}
  BY ProcTypes DEF IInv, Base, Running, Create, At
<1>2. proc[p].call = "none" /\ proc[p].data = {} /\ proc[p].inode = Nil
  BY <1>1 DEF ProcOK, CreatePc, InodePc, ClosePc, ReleasePc
<1> DEFINE s0 == ScanClear(freeMap, SectorCount, 1)
           S == Bits(s0, 1)
           r == [proc[p] EXCEPT !.pc = "create_data", !.call = "create", !.name = n, !.sector = s0]
<1>3. /\ s0 \in Nat /\ S \subseteq Sector /\ S \intersect freeMap = {}
      /\ freeMap' = freeMap \union S /\ disk'.map = freeMap'
      /\ disk'.dir = disk.dir /\ disk'.inode = disk.inode
      /\ disk' \in [ map : SUBSET Sector, dir : SUBSET [name : Name, sector : Sector],
                     inode : [Sector -> SUBSET Sector] ]
  BY <1>1, AllocateIs
<1>4. proc' = [proc EXCEPT ![p] = r]
  BY DEF Create
<1> HIDE DEF s0
<1>5. S = {s0} /\ s0 \in Sector
  BY <1>3 DEF Bits
<1> HIDE DEF S
<1>6. /\ r \in ProcRecord /\ r.pc = "create_data" /\ r.call = "create" /\ r.name = n
      /\ r.sector = s0 /\ r.data = {} /\ r.inode = Nil
      /\ r.opened_files = proc[p].opened_files /\ r.executable = proc[p].executable
  BY <1>1, <1>2, <1>5 DEF ProcRecord, Pc
<1> HIDE DEF r
<1>7. proc' \in [Process -> ProcRecord] /\ OthersSame(p) /\ proc'[p] = r
  BY <1>1, <1>4, <1>6, NewRecord
<1>8. /\ hist' \in HistRecord /\ hist'.lost = hist.lost /\ hist'.clobbered = hist.clobbered
      /\ hist'.stranded = hist.stranded /\ hist'.raced = hist.raced
  <2> DEFINE c == hist.creations + 1
  <2>1. hist' = [hist EXCEPT !.creations = c] /\ hist.creations < Creations
    BY DEF Create
  <2>2. hist \in HistRecord /\ hist.creations \in 0 .. Creations /\ Creations \in Nat
    BY <1>1, FileSystemAssumption DEF TypeOK, HistRecord
  <2>3. c \in 0 .. Creations
    BY <2>1, <2>2
  <2> HIDE DEF c
  <2> QED
    BY <2>1, <2>2, <2>3 DEF HistRecord
<1>9. TypeOK'
  BY <1>1, <1>3, <1>7, <1>8 DEF TypeOK
<1>10. Base'
  <2>1. \A s \in Sector : InDraft(s, p)' <=> InDraft(s, p) \/ s \in S
    BY <1>1, <1>5, <1>6, <1>7 DEF InDraft, CreatePc
  <2>2. DraftOK(p)'
    BY <1>6, <1>7 DEF DraftOK
  <2>3. proc[p].pc \notin ReleasePc /\ proc'[p].pc \notin ReleasePc
    BY <1>1, <1>6, <1>7 DEF ReleasePc
  <2> QED
    BY <1>1, <1>3, <1>7, <1>8, <1>9, <2>1, <2>2, <2>3, AllocateBase
<1>11. ProcOK(p)'
  BY <1>1, <1>2, <1>6, <1>7 DEF ProcOK, LockCall, CreatePc, ClosePc, InodePc, ReleasePc
<1>12. \A q \in Process \ {p} : (fsLock' = q <=> fsLock = q) /\ proc[q].pc \notin {"search", "found"}
  <2> TAKE q \in Process \ {p}
  <2>1. fsLock # q /\ ProcOK(q)
    BY <1>1, FileSystemAssumption DEF Running
  <2> QED
    BY <1>1, <2>1 DEF ProcOK, LockCall
<1>13. proc[p].pc \notin InodePc /\ proc'[p].pc \notin InodePc \union {"search", "found"}
  BY <1>1, <1>6, <1>7 DEF InodePc, ClosePc, ReleasePc
<1> QED
  BY <1>1, <1>6, <1>7, <1>8, <1>10, <1>11, <1>12, <1>13, CreateStep

\* A process in filesys_create holds fs_lock.
LEMMA CreatorIs ==
  ASSUME IInv, ~hist.raced, NEW p \in Process, proc[p].pc \in CreatePc
  PROVE  /\ Base /\ TypeOK /\ Running /\ ProcOK(p) /\ DraftOK(p) /\ hist.clobbered = {}
         /\ proc[p] \in ProcRecord /\ proc[p].call = "create" /\ proc[p].name \in Name
         /\ proc[p].inode = Nil /\ fsLock = p
         /\ proc[p].sector \in Sector /\ proc[p].data \subseteq Sector
         /\ proc[p].sector \notin proc[p].data
         /\ proc[p].pc = "create_data" => proc[p].data = {}
         /\ proc[p].pc = "create_add" => disk.inode[proc[p].sector] = proc[p].data
         /\ \A q \in Process \ {p} : proc[q].pc \notin CreatePc \union {"search", "found"}
         /\ proc[p].pc \notin InodePc \union ReleasePc \union ClosePc
<1>1. Base /\ TypeOK /\ Running /\ ProcOK(p) /\ DraftOK(p) /\ hist.clobbered = {}
  BY DEF IInv, Base, Running
<1>2. proc[p].pc \notin {"search", "found"} \union InodePc \union ReleasePc \union ClosePc
  BY DEF CreatePc, InodePc, ClosePc, ReleasePc
<1>3. proc[p].call = "create" /\ proc[p].name \in Name /\ proc[p].inode = Nil /\ fsLock = p
  BY <1>1, <1>2 DEF ProcOK, LockCall
<1>4. \A q \in Process \ {p} : proc[q].pc \notin CreatePc \union {"search", "found"}
  BY <1>1, <1>3, LockHolder
<1>5. proc[p].pc = "create_data" => proc[p].data = {}
  BY <1>1 DEF ProcOK
<1> QED
  BY <1>1, <1>2, <1>3, <1>4, <1>5, ProcTypes DEF DraftOK

\* A step of filesys_create that fails.
LEMMA CreateFails ==
  ASSUME IInv, ~hist.raced, NEW p \in Process, proc[p].pc \in CreatePc,
         Goto(p, "create_undo"), UNCHANGED <<disk, freeMap, inode, fsLock, hist>>
  PROVE  IInv'
<1>1. /\ Base /\ TypeOK /\ ProcOK(p) /\ DraftOK(p) /\ hist.clobbered = {}
      /\ proc[p].call = "create" /\ proc[p].inode = Nil
      /\ proc[p].pc \notin InodePc \union ReleasePc \union ClosePc
  BY CreatorIs
<1>2. "create_undo" \in Pc
  BY DEF Pc
<1>3. /\ proc' \in [Process -> ProcRecord] /\ OthersSame(p)
      /\ proc'[p].pc = "create_undo" /\ proc'[p].call = proc[p].call
      /\ proc'[p].name = proc[p].name /\ proc'[p].sector = proc[p].sector
      /\ proc'[p].data = proc[p].data /\ proc'[p].inode = proc[p].inode
      /\ proc'[p].opened_files = proc[p].opened_files
      /\ proc'[p].executable = proc[p].executable
  BY <1>1, <1>2, GotoIs
<1>4. TypeOK' /\ SectorsSame
  BY <1>1, <1>3 DEF TypeOK, SectorsSame
<1>5. ProcOK(p)' /\ FoundOK(p)'
  BY <1>1, <1>3
     DEF ProcOK, FoundOK, LockCall, CreatePc, ClosePc, InodePc, ReleasePc
<1>6. (\A s \in Sector : InDraft(s, p)' <=> InDraft(s, p)) /\ DraftOK(p)'
  BY <1>1, <1>3 DEF InDraft, DraftOK, CreatePc
<1>7. \A i \in Inode : ReferencesTo(i)' = ReferencesTo(i) /\ Runners(i)' = Runners(i)
  <2> TAKE i \in Inode
  <2>1. \A k \in 0 .. OpenFiles : Refers(p, k, i)' <=> Refers(p, k, i)
    BY <1>1, <1>3 DEF Refers, InodePc
  <2>2. References(i)' = References(i) /\ Runners(i)' = Runners(i)
    BY <1>3, <2>1, ReferencesSame, RunnersSame
  <2> QED
    BY <2>2 DEF ReferencesTo
<1>8. proc[p].pc \notin ClosePc /\ proc'[p].pc \notin ClosePc
  BY <1>1, <1>3 DEF ClosePc, ReleasePc
<1> QED
  BY <1>3, <1>4, <1>5, <1>6, <1>7, <1>8, ProcStep

LEMMA CreateDataKeeps ==
  ASSUME IInv, NEW p \in Process, CreateData(p)
  PROVE  IInv'
<1>1. /\ ~hist.raced /\ proc[p].pc = "create_data" /\ proc[p].pc \in CreatePc
      /\ UNCHANGED <<inode, fsLock, hist>>
  BY DEF CreateData, At, CreatePc
<1>2. /\ Base /\ TypeOK /\ Running /\ ProcOK(p) /\ DraftOK(p) /\ hist.clobbered = {}
      /\ proc[p] \in ProcRecord /\ proc[p].call = "create" /\ proc[p].name \in Name
      /\ proc[p].inode = Nil /\ fsLock = p /\ proc[p].data = {}
      /\ proc[p].sector \in Sector
      /\ \A q \in Process \ {p} : proc[q].pc \notin CreatePc \union {"search", "found"}
      /\ proc[p].pc \notin InodePc \union ReleasePc \union ClosePc
  BY <1>1, CreatorIs
<1>3. CASE Goto(p, "create_undo") /\ UNCHANGED <<disk, freeMap>>
  BY <1>1, <1>3, CreateFails
<1>4. ASSUME NEW cnt \in FileSectors, Allocate(cnt),
             proc' = [proc EXCEPT ![p] = [@ EXCEPT
               !.pc = "create_write",
               !.data = Bits(ScanClear(freeMap, SectorCount, cnt), cnt)]]
      PROVE  IInv'
  <2> DEFINE S == Bits(ScanClear(freeMap, SectorCount, cnt), cnt)
             r == [proc[p] EXCEPT !.pc = "create_write", !.data = S]
  <2>1. cnt \in Nat
    BY FileSystemAssumption
  <2>2. /\ S \subseteq Sector /\ S \intersect freeMap = {}
        /\ freeMap' = freeMap \union S /\ disk'.map = freeMap'
        /\ disk'.dir = disk.dir /\ disk'.inode = disk.inode
        /\ disk' \in [ map : SUBSET Sector, dir : SUBSET [name : Name, sector : Sector],
                       inode : [Sector -> SUBSET Sector] ]
    BY <1>2, <1>4, <2>1, AllocateIs
  <2>3. proc' = [proc EXCEPT ![p] = r]
    BY <1>4
  <2> HIDE DEF S
  <2>4. /\ r \in ProcRecord /\ r.pc = "create_write" /\ r.call = "create"
        /\ r.name = proc[p].name /\ r.sector = proc[p].sector /\ r.data = S /\ r.inode = Nil
        /\ r.opened_files = proc[p].opened_files /\ r.executable = proc[p].executable
    BY <1>2, <2>2 DEF ProcRecord, Pc
  <2> HIDE DEF r
  <2>5. proc' \in [Process -> ProcRecord] /\ OthersSame(p) /\ proc'[p] = r
    BY <1>2, <2>3, <2>4, NewRecord
  <2>6. TypeOK'
    BY <1>1, <1>2, <2>2, <2>5 DEF TypeOK
  <2>7. Base'
    <3>1. \A s \in Sector : InDraft(s, p)' <=> InDraft(s, p) \/ s \in S
      BY <1>1, <1>2, <2>4, <2>5 DEF InDraft, CreatePc
    <3>2. DraftOK(p)'
      <4>1. InDraft(proc[p].sector, p)
        BY <1>1 DEF InDraft
      <4>2. proc[p].sector \in freeMap
        BY <1>2, <4>1 DEF Base, Marked, Taken
      <4> QED
        BY <2>2, <2>4, <2>5, <4>2 DEF DraftOK
    <3>3. proc[p].pc \notin ReleasePc /\ proc'[p].pc \notin ReleasePc
      BY <1>1, <2>4, <2>5 DEF ReleasePc
    <3> QED
      BY <1>1, <1>2, <2>2, <2>5, <2>6, <3>1, <3>2, <3>3, AllocateBase
  <2>8. ProcOK(p)'
    BY <1>1, <1>2, <2>4, <2>5 DEF ProcOK, LockCall, CreatePc, ClosePc, InodePc, ReleasePc
  <2>9. proc'[p].pc \notin InodePc \union {"search", "found"}
    BY <2>4, <2>5 DEF InodePc, ClosePc, ReleasePc
  <2>10. \A q \in Process \ {p} : (fsLock' = q <=> fsLock = q) /\ proc[q].pc \notin {"search", "found"}
    BY <1>1, <1>2
  <2> QED
    BY <1>1, <1>2, <2>4, <2>5, <2>7, <2>8, <2>9, <2>10, CreateStep
<1> QED
  BY <1>3, <1>4 DEF CreateData

LEMMA CreateWriteKeeps ==
  ASSUME IInv, NEW p \in Process, CreateWrite(p)
  PROVE  IInv'
<1>1. /\ ~hist.raced /\ proc[p].pc = "create_write" /\ proc[p].pc \in CreatePc
      /\ UNCHANGED <<freeMap, inode, fsLock>> /\ Goto(p, "create_add") /\ "create_add" \in Pc
  BY DEF CreateWrite, At, CreatePc, Pc
<1>2. /\ Base /\ TypeOK /\ Running /\ ProcOK(p) /\ DraftOK(p) /\ hist.clobbered = {}
      /\ proc[p].call = "create" /\ proc[p].name \in Name
      /\ proc[p].inode = Nil /\ fsLock = p
      /\ proc[p].sector \in Sector /\ proc[p].data \subseteq Sector
      /\ proc[p].sector \notin proc[p].data
      /\ \A q \in Process \ {p} : proc[q].pc \notin CreatePc \union {"search", "found"}
      /\ proc[p].pc \notin InodePc \union ReleasePc \union ClosePc
  BY <1>1, CreatorIs
<1>3. Marked /\ Apart /\ FilesOK
  BY <1>2 DEF Base
<1>4. PICK c \in Sector, d \in SUBSET Sector : c = proc[p].sector /\ d = proc[p].data
  BY <1>2
<1>5. /\ proc' \in [Process -> ProcRecord] /\ OthersSame(p)
      /\ proc'[p].pc = "create_add" /\ proc'[p].call = "create"
      /\ proc'[p].name = proc[p].name /\ proc'[p].sector = c
      /\ proc'[p].data = d /\ proc'[p].inode = Nil
      /\ proc'[p].opened_files = proc[p].opened_files
      /\ proc'[p].executable = proc[p].executable
  BY <1>1, <1>2, <1>4, GotoIs
<1>6. /\ disk' \in [ map : SUBSET Sector, dir : SUBSET [name : Name, sector : Sector],
                     inode : [Sector -> SUBSET Sector] ]
      /\ disk'.map = disk.map /\ disk'.dir = disk.dir
      /\ \A s \in Sector : disk'.inode[s] = IF s = c THEN d ELSE disk.inode[s]
  <2> DEFINE f == [disk.inode EXCEPT ![c] = d]
  <2>1. disk' = [disk EXCEPT !.inode = f]
    BY <1>4 DEF CreateWrite
  <2>2. f \in [Sector -> SUBSET Sector] /\ \A s \in Sector : f[s] = IF s = c THEN d ELSE disk.inode[s]
    BY <1>2 DEF TypeOK
  <2> HIDE DEF f
  <2> QED
    BY <1>2, <2>1, <2>2 DEF TypeOK
<1>7. \A s \in Sector : s = c \/ s \in d => InDraft(s, p)
  BY <1>1, <1>4 DEF InDraft
<1>8. ASSUME NEW q \in Process, proc[q].executable # Nil,
             inode[proc[q].executable].data \intersect d # {}
      PROVE  FALSE
  <2>1. PICK i \in Inode : i = proc[q].executable
    BY <1>2, <1>8, ProcTypes
  <2>2. inode[i].live
    <3>1. ReferencesTo(i) > 0
      BY <2>1, ReferencesPositive
    <3> QED
      BY <1>1, <3>1, InUseIsOpen
  <2>3. PICK s \in d : s \in inode[i].data
    BY <1>8, <2>1
  <2>4. s \in Sector /\ InDraft(s, p)
    BY <1>7, <2>3
  <2>5. CASE Alive(i)
    <3>1. PICK e \in disk.dir : Owns(i) = Sectors(e)
      BY <1>2, <2>5, OwnsOf
    <3>2. InFile(s, e)
      BY <2>3, <3>1 DEF InFile, Owns
    <3> QED
      BY <1>3, <2>4, <3>2 DEF Apart
  <2>6. CASE Orphan(i)
    <3>1. InOrphan(s, i)
      BY <2>3, <2>6 DEF InOrphan
    <3> QED
      BY <1>3, <2>4, <3>1 DEF Apart
  <2> QED
    BY <2>2, <2>5, <2>6 DEF Alive, Orphan
<1>9. hist' = hist
  <2>1. RunsFrom(d) = {}
    BY <1>8 DEF RunsFrom
  <2>2. hist' = [hist EXCEPT !.clobbered = @ \union RunsFrom(d)]
    BY <1>4 DEF CreateWrite
  <2> QED
    BY <1>2, <2>1, <2>2 DEF TypeOK, HistRecord
<1>10. TypeOK'
  BY <1>1, <1>2, <1>5, <1>6, <1>9 DEF TypeOK
<1>11. \A e \in disk.dir : disk'.inode[e.sector] = disk.inode[e.sector]
  <2> TAKE e \in disk.dir
  <2>1. e.sector \in Sector /\ InFile(e.sector, e)
    BY <1>2, StateTypes DEF InFile, Sectors
  <2>2. e.sector # c
    BY <1>3, <1>7, <2>1 DEF Apart
  <2> QED
    BY <1>6, <2>1, <2>2
<1>12. /\ \A s, e : e \in disk.dir => (InFile(s, e)' <=> InFile(s, e))
       /\ \A s \in Sector, i \in Inode : InOrphan(s, i)' <=> InOrphan(s, i)
       /\ \A s \in Sector, q \in Process : InDraft(s, q)' <=> InDraft(s, q)
  <2>1. \A s, e : e \in disk.dir => (InFile(s, e)' <=> InFile(s, e))
    BY <1>11 DEF InFile, Sectors
  <2>2. \A s \in Sector, i \in Inode : InOrphan(s, i)' <=> InOrphan(s, i)
    BY <1>1, <1>5, OrphansStay DEF Orphan
  <2>3. \A s \in Sector, q \in Process : InDraft(s, q)' <=> InDraft(s, q)
    <3>1. \A s \in Sector : InDraft(s, p)' <=> InDraft(s, p)
      BY <1>1, <1>4, <1>5 DEF InDraft, CreatePc
    <3> QED
      BY <1>5, <3>1, DraftsStay
  <2> QED
    BY <2>1, <2>2, <2>3
<1>13. \A s \in Sector : Taken(s)' <=> Taken(s)
  BY <1>6, <1>12 DEF Taken
<1>14. Base'
  <2>1. Marked'
    BY <1>1, <1>3, <1>6, <1>9, <1>13 DEF Marked
  <2>2. Apart'
    BY <1>3, <1>6, <1>12 DEF Apart
  <2>3. FilesOK'
    BY <1>3, <1>6, <1>11 DEF FilesOK
  <2>4. ASSUME NEW q \in Process PROVE DraftOK(q)'
    <3>1. CASE q = p
      BY <1>2, <1>4, <1>5, <1>6, <3>1 DEF DraftOK
    <3>2. CASE q # p
      <4>1. proc'[q].pc \notin CreatePc
        BY <1>2, <1>5, <3>2 DEF OthersSame
      <4> QED
        BY <4>1 DEF DraftOK, CreatePc
    <3> QED
      BY <3>1, <3>2
  <2>5. proc[p].pc \notin ReleasePc /\ proc'[p].pc \notin ReleasePc
    BY <1>1, <1>5 DEF ReleasePc
  <2> QED
    BY <1>1, <1>2, <1>5, <1>6, <1>9, <1>10, <1>11, <2>1, <2>2, <2>3, <2>4, <2>5, CreateBase
<1>15. ProcOK(p)'
  BY <1>1, <1>2, <1>5 DEF ProcOK, LockCall, CreatePc, ClosePc, InodePc, ReleasePc
<1>16. proc'[p].pc \notin InodePc \union {"search", "found"}
  BY <1>5 DEF InodePc, ClosePc, ReleasePc
<1>17. \A q \in Process \ {p} : (fsLock' = q <=> fsLock = q) /\ proc[q].pc \notin {"search", "found"}
  BY <1>1, <1>2
<1> QED
  BY <1>1, <1>2, <1>5, <1>9, <1>14, <1>15, <1>16, <1>17, CreateStep

\* The draft becomes a file.
LEMMA CreateAddKeeps ==
  ASSUME IInv, NEW p \in Process, CreateAdd(p)
  PROVE  IInv'
<1>1. /\ ~hist.raced /\ proc[p].pc = "create_add" /\ proc[p].pc \in CreatePc
      /\ UNCHANGED <<freeMap, inode, hist>>
  BY DEF CreateAdd, At, CreatePc
<1>2. /\ Base /\ TypeOK /\ Running /\ ProcOK(p) /\ DraftOK(p) /\ hist.clobbered = {}
      /\ proc[p].call = "create" /\ proc[p].name \in Name
      /\ proc[p].inode = Nil /\ fsLock = p
      /\ proc[p].sector \in Sector /\ proc[p].data \subseteq Sector
      /\ proc[p].sector \notin proc[p].data
      /\ disk.inode[proc[p].sector] = proc[p].data
      /\ \A q \in Process \ {p} : proc[q].pc \notin CreatePc \union {"search", "found"}
      /\ proc[p].pc \notin InodePc \union ReleasePc \union ClosePc
  BY <1>1, CreatorIs
<1>3. CASE Goto(p, "create_undo") /\ UNCHANGED <<disk, fsLock>>
  BY <1>1, <1>3, CreateFails
<1>4. ASSUME ~InUse(proc[p].name), Return(p),
             disk' = [disk EXCEPT
               !.dir = @ \union {[name |-> proc[p].name, sector |-> proc[p].sector]}]
      PROVE  IInv'
  <2>1. Marked /\ Apart /\ FilesOK
    BY <1>2 DEF Base
  <2>2. PICK e0 \in [name : Name, sector : Sector] :
          e0 = [name |-> proc[p].name, sector |-> proc[p].sector]
    BY <1>2
  <2>3. e0.name = proc[p].name /\ e0.sector = proc[p].sector
    BY <2>2
  <2>4. disk' = [disk EXCEPT !.dir = @ \union {e0}]
    BY <1>4, <2>2
  <2>5. /\ disk' \in [ map : SUBSET Sector, dir : SUBSET [name : Name, sector : Sector],
                       inode : [Sector -> SUBSET Sector] ]
        /\ disk'.map = disk.map /\ disk'.dir = disk.dir \union {e0}
        /\ disk'.inode = disk.inode
    BY <1>2, <2>4 DEF TypeOK
  <2>6. /\ proc' \in [Process -> ProcRecord] /\ OthersSame(p)
        /\ proc'[p].opened_files = proc[p].opened_files
        /\ proc'[p].executable = proc[p].executable
        /\ fsLock' \in Process \union {Nobody}
        /\ \A q \in Process \ {p} : fsLock' = q <=> fsLock = q
        /\ proc'[p].pc \in {"exit", "user"}
    BY <1>2, <1>4, ReturnIs DEF TypeOK
  <2>7. ProcOK(p)'
    BY <1>1, <1>2, <1>4, ReturnProcOK
  <2>8. TypeOK'
    BY <1>1, <1>2, <2>5, <2>6 DEF TypeOK
  <2>9. \A s, e : InFile(s, e)' <=> InFile(s, e)
    BY <2>5 DEF InFile, Sectors
  <2>10. \A s \in Sector, i \in Inode : InOrphan(s, i)' <=> InOrphan(s, i)
    BY <1>1, <2>6, OrphansStay DEF Orphan
  <2>11. \A s \in Sector, q \in Process : ~InDraft(s, q)'
    BY <1>2, <2>6 DEF InDraft, OthersSame, CreatePc
  <2>12. \A s \in Sector : /\ InDraft(s, p) <=> InFile(s, e0)
                           /\ \A q \in Process : q # p => ~InDraft(s, q)
    BY <1>1, <1>2, <2>3 DEF InDraft, InFile, Sectors
  <2>13. \A s \in Sector : Taken(s)' <=> Taken(s)
    <3> TAKE s \in Sector
    <3>1. (\E e \in disk'.dir : InFile(s, e)') <=> (\E e \in disk.dir : InFile(s, e)) \/ InFile(s, e0)
      BY <2>5, <2>9
    <3>2. (\E k \in Inode : InOrphan(s, k)') <=> (\E k \in Inode : InOrphan(s, k))
      BY <2>10
    <3>3. (\E q \in Process : InDraft(s, q)) <=> InFile(s, e0)
      BY <2>12
    <3> QED
      BY <2>11, <3>1, <3>2, <3>3 DEF Taken
  <2>14. Marked'
    BY <1>1, <2>1, <2>5, <2>13 DEF Marked
  <2>15. Apart'
    <3> SUFFICES ASSUME NEW s \in Sector
                 PROVE  /\ \A e, f \in disk'.dir : InFile(s, e)' /\ InFile(s, f)' => e = f
                        /\ \A k, x \in Inode : InOrphan(s, k)' /\ InOrphan(s, x)' => k = x
                        /\ \A e \in disk'.dir, k \in Inode : ~(InFile(s, e)' /\ InOrphan(s, k)')
      BY <2>11 DEF Apart
    <3>1. \A e \in disk'.dir : InFile(s, e)' => \/ e \in disk.dir /\ InFile(s, e)
                                                \/ e = e0 /\ InDraft(s, p)
      BY <2>5, <2>9, <2>12
    <3>2. \A k \in Inode : InOrphan(s, k)' => InOrphan(s, k)
      BY <2>10
    <3> QED
      BY <2>1, <3>1, <3>2 DEF Apart
  <2>16. FilesOK'
    <3>1. \A e \in disk.dir : e.name # e0.name
      BY <1>4, <2>3 DEF InUse
    <3> QED
      BY <1>2, <2>1, <2>3, <2>5, <3>1 DEF FilesOK
  <2>17. \A q \in Process : DraftOK(q)'
    BY <1>2, <2>6 DEF DraftOK, OthersSame, CreatePc
  <2>18. Base'
    <3>1. proc[p].pc \notin ReleasePc /\ proc'[p].pc \notin ReleasePc
      BY <1>1, <2>6 DEF ReleasePc
    <3> QED
      BY <1>1, <1>2, <2>5, <2>6, <2>8, <2>14, <2>15, <2>16, <2>17, <3>1, CreateBase
  <2>19. proc'[p].pc \notin InodePc \union {"search", "found"}
    BY <2>6 DEF InodePc, ClosePc, ReleasePc
  <2> QED
    BY <1>1, <1>2, <2>6, <2>7, <2>18, <2>19, CreateStep
<1> QED
  BY <1>3, <1>4 DEF CreateAdd

\* The draft goes: its sector is released, and its data is lost.
LEMMA CreateUndoKeeps ==
  ASSUME IInv, NEW p \in Process, CreateUndo(p)
  PROVE  IInv'
<1>1. /\ ~hist.raced /\ proc[p].pc = "create_undo" /\ proc[p].pc \in CreatePc
      /\ inode' = inode /\ Return(p)
  BY DEF CreateUndo, At, CreatePc
<1>2. /\ Base /\ TypeOK /\ Running /\ ProcOK(p) /\ DraftOK(p) /\ hist.clobbered = {}
      /\ proc[p].call = "create" /\ fsLock = p
      /\ proc[p].sector \in Sector /\ proc[p].data \subseteq Sector
      /\ proc[p].sector \notin proc[p].data
      /\ \A q \in Process \ {p} : proc[q].pc \notin CreatePc \union {"search", "found"}
      /\ proc[p].pc \notin InodePc \union ReleasePc \union ClosePc
  BY <1>1, CreatorIs
<1>3. Marked /\ Apart /\ FilesOK
  BY <1>2 DEF Base
<1>4. PICK c \in Sector, d \in SUBSET Sector : c = proc[p].sector /\ d = proc[p].data
  BY <1>2
<1> DEFINE S == {c}
<1>5. Release(S) /\ S \in SUBSET Sector
  BY <1>4 DEF CreateUndo
<1>6. /\ freeMap' = freeMap \ S /\ disk'.map = freeMap \ S /\ disk'.dir = disk.dir
      /\ \A s \in Sector : disk'.inode[s] = IF s \in S THEN {} ELSE disk.inode[s]
      /\ disk' \in [ map : SUBSET Sector, dir : SUBSET [name : Name, sector : Sector],
                     inode : [Sector -> SUBSET Sector] ]
  BY <1>2, <1>5, ReleaseIs
<1>7. /\ hist' \in HistRecord /\ hist'.lost = hist.lost \union d
      /\ hist'.clobbered = hist.clobbered /\ hist'.stranded = hist.stranded
  <2> DEFINE l == hist.lost \union d
  <2>1. hist' = [hist EXCEPT !.lost = l]
    BY <1>4 DEF CreateUndo
  <2>2. hist \in HistRecord
    BY <1>2 DEF TypeOK
  <2>3. l \in SUBSET Sector
    BY <1>2, StateTypes
  <2> HIDE DEF l
  <2>4. hist' \in HistRecord /\ hist'.lost = l
        /\ hist'.clobbered = hist.clobbered /\ hist'.stranded = hist.stranded
    BY <2>1, <2>2, <2>3 DEF HistRecord
  <2> QED
    BY <2>4 DEF l
<1>8. /\ proc' \in [Process -> ProcRecord] /\ OthersSame(p)
      /\ proc'[p].opened_files = proc[p].opened_files
      /\ proc'[p].executable = proc[p].executable
      /\ fsLock' \in Process \union {Nobody}
      /\ \A q \in Process \ {p} : fsLock' = q <=> fsLock = q
      /\ proc'[p].pc \in {"exit", "user"}
  BY <1>1, <1>2, ReturnIs DEF TypeOK
<1>9. ProcOK(p)'
  BY <1>1, <1>2, ReturnProcOK
<1>10. TypeOK'
  BY <1>1, <1>2, <1>6, <1>7, <1>8 DEF TypeOK
<1>11. \A s \in Sector : /\ InDraft(s, p) <=> s = c \/ s \in d
                         /\ \A q \in Process : q # p => ~InDraft(s, q)
  BY <1>1, <1>2, <1>4 DEF InDraft
<1>12. \A e \in disk.dir : disk'.inode[e.sector] = disk.inode[e.sector]
  <2> TAKE e \in disk.dir
  <2>1. e.sector \in Sector /\ InFile(e.sector, e)
    BY <1>2, StateTypes DEF InFile, Sectors
  <2>2. e.sector # c
    BY <1>2, <1>3, <1>11, <2>1 DEF Apart
  <2> QED
    BY <1>6, <2>1, <2>2
<1>13. \A s, e : e \in disk.dir => (InFile(s, e)' <=> InFile(s, e))
  BY <1>12 DEF InFile, Sectors
<1>14. \A s \in Sector, i \in Inode : InOrphan(s, i)' <=> InOrphan(s, i)
  BY <1>1, <1>8, OrphansStay DEF Orphan
<1>15. \A s \in Sector, q \in Process : ~InDraft(s, q)'
  BY <1>2, <1>8 DEF InDraft, OthersSame, CreatePc
<1>16. \A s \in Sector : /\ Taken(s)' => Taken(s) /\ s # c
                         /\ Taken(s) => Taken(s)' \/ s = c \/ s \in d
  <2> TAKE s \in Sector
  <2>1. (\E e \in disk'.dir : InFile(s, e)') <=> (\E e \in disk.dir : InFile(s, e))
    BY <1>6, <1>13
  <2>2. (\E k \in Inode : InOrphan(s, k)') <=> (\E k \in Inode : InOrphan(s, k))
    BY <1>14
  <2>3. (\E q \in Process : InDraft(s, q)) <=> s = c \/ s \in d
    BY <1>11
  <2>4. s = c => ~(\E e \in disk.dir : InFile(s, e)) /\ ~(\E k \in Inode : InOrphan(s, k))
    BY <1>3, <1>11 DEF Apart
  <2> QED
    BY <1>15, <2>1, <2>2, <2>3, <2>4 DEF Taken
<1>17. Marked'
  <2>1. c \notin Reserved
    BY <1>3, <1>11 DEF Marked, Taken
  <2> QED
    BY <1>3, <1>6, <1>7, <1>16, <2>1 DEF Marked
<1>18. Apart'
  BY <1>3, <1>6, <1>13, <1>14, <1>15 DEF Apart
<1>19. FilesOK'
  BY <1>3, <1>6, <1>12 DEF FilesOK
<1>20. \A q \in Process : DraftOK(q)'
  BY <1>2, <1>8 DEF DraftOK, OthersSame, CreatePc
<1>21. Base'
  <2>1. proc[p].pc \notin ReleasePc /\ proc'[p].pc \notin ReleasePc
    BY <1>1, <1>8 DEF ReleasePc
  <2> QED
    BY <1>1, <1>2, <1>6, <1>7, <1>8, <1>10, <1>12, <1>17, <1>18, <1>19, <1>20, <2>1, CreateBase
<1>22. proc'[p].pc \notin InodePc \union {"search", "found"}
  BY <1>8 DEF InodePc, ClosePc, ReleasePc
<1> QED
  BY <1>1, <1>2, <1>7, <1>8, <1>9, <1>21, <1>22, CreateStep

-------------------------------------------------------------------------------
(***************************************************************************)
(* The kernel starts: with a formatted disk, or after a crash.             *)
(***************************************************************************)
Started ==
  /\ proc = [p \in Process |-> Idle] /\ inode = [i \in Inode |-> Freed]
  /\ fsLock = Nobody /\ hist.stranded = Nil

Quiet ==
  /\ proc \in [Process -> ProcRecord] /\ inode \in [Inode -> InodeRecord]
  /\ Running
  /\ \A p \in Process : DraftOK(p) /\ ReleaseOK(p)
  /\ \A i \in Inode : InodeOK(i)
  /\ \A s \in Sector : /\ \A i \in Inode : ~InOrphan(s, i)
                       /\ \A p \in Process : ~InDraft(s, p)

LEMMA StartedIsQuiet == Started => Quiet
<1> SUFFICES ASSUME Started PROVE Quiet
  OBVIOUS
<1>1. /\ \A p \in Process : proc[p] = Idle
      /\ \A i \in Inode : inode[i] = Freed
      /\ fsLock = Nobody /\ hist.stranded = Nil
  BY DEF Started
<1>2. proc \in [Process -> ProcRecord] /\ inode \in [Inode -> InodeRecord]
  <2>1. Freed \in InodeRecord
    BY SectorNumbers DEF Freed, InodeRecord
  <2> QED
    BY <2>1, IdleIs DEF Started
<1>3. ASSUME NEW p \in Process
      PROVE  /\ ProcOK(p) /\ FoundOK(p) /\ UnlinkOK(p) /\ DraftOK(p) /\ ReleaseOK(p)
             /\ \A s \in Sector : ~InDraft(s, p)
  <2>1. /\ proc[p].pc = "none" /\ proc[p].call = "none" /\ proc[p].sector = 0
        /\ proc[p].data = {} /\ proc[p].inode = Nil /\ proc[p].opened_files = <<>>
        /\ proc[p].executable = Nil /\ fsLock # p
    BY <1>1, FileSystemAssumption DEF Idle
  <2> QED
    BY <2>1 DEF ProcOK, FoundOK, UnlinkOK, DraftOK, ReleaseOK, InDraft,
                LockCall, CreatePc, ClosePc, InodePc, ReleasePc
<1>4. ASSUME NEW i \in Inode
      PROVE  /\ ListedOK(i) /\ CountOK(i) /\ InodeOK(i)
             /\ \A s \in Sector : ~InOrphan(s, i)
  <2>1. i # Nil
    BY InodesAreNumbers DEF Nil
  <2>2. \A p \in Process : \A k : ~Refers(p, k, i)
    BY <1>1 DEF Refers, Idle
  <2>3. References(i) = {}
    BY <2>2, ReferencesAre, ReferencesPairs
  <2>4. Runners(i) = {}
    BY <1>1, <2>1 DEF Runners, Idle
  <2>5. ReferencesTo(i) = 0 /\ Cardinality(Runners(i)) = 0
    BY <1>1, <2>1, <2>3, <2>4, FS_EmptySet DEF ReferencesTo
  <2>6. CountOK(i)
    BY <1>1, <2>5 DEF CountOK, Freed
  <2>7. /\ ListedOK(i) /\ InodeOK(i) /\ \A s \in Sector : ~InOrphan(s, i)
    BY <1>1 DEF ListedOK, InodeOK, InOrphan, Orphan, Alive, Freed
  <2> QED
    BY <2>6, <2>7
<1> QED
  BY <1>2, <1>3, <1>4 DEF Quiet, Running

LEMMA InitIInv == Init => IInv
<1> SUFFICES ASSUME Init PROVE IInv
  OBVIOUS
<1>1. PICK n \in Name, size \in FileSectors :
        /\ {2} \union Bits(3, size) \subseteq Sector
        /\ disk = [ map   |-> Reserved \union {2} \union Bits(3, size),
                    dir   |-> {[name |-> n, sector |-> 2]},
                    inode |-> [s \in Sector |-> IF s = 2 THEN Bits(3, size) ELSE {}] ]
        /\ freeMap = Reserved \union {2} \union Bits(3, size)
  BY DEF Init
<1> DEFINE data == Bits(3, size)
           e0 == [name |-> n, sector |-> 2]
           f == [s \in Sector |-> IF s = 2 THEN data ELSE {}]
<1>2. size \in Nat /\ 2 \notin data /\ data \intersect Reserved = {} /\ 2 \notin Reserved
  BY FileSystemAssumption DEF Bits, Reserved, FREE_MAP_SECTOR, ROOT_DIR_SECTOR
<1>3. 2 \in Sector /\ data \subseteq Sector /\ Reserved \subseteq Sector
  BY <1>1, FileSystemAssumption
<1> HIDE DEF data
<1>4. hist = [ raced |-> FALSE, halfOut |-> {}, lost |-> {}, stranded |-> Nil,
               clobbered |-> {}, creations |-> 0 ]
  BY DEF Init
<1>5. Started
  BY <1>4 DEF Started, Init
<1>6. Quiet
  BY <1>5, StartedIsQuiet
<1>7. f \in [Sector -> SUBSET Sector] /\ f[2] = data
  BY <1>3
<1>8. disk = [ map |-> Reserved \union {2} \union data, dir |-> {e0}, inode |-> f ]
  BY <1>1 DEF data
<1> HIDE DEF f
<1>9. /\ disk.map = Reserved \union {2} \union data /\ disk.dir = {e0} /\ disk.inode = f
      /\ freeMap = disk.map
  BY <1>1, <1>8 DEF data
<1>10. e0.sector = 2 /\ e0 \in [name : Name, sector : Sector] /\ e0.name = n
  BY <1>3
<1> HIDE DEF e0
<1>11. TypeOK
  <2>1. hist \in HistRecord
    BY <1>4, FileSystemAssumption DEF HistRecord
  <2>2. disk \in [ map : SUBSET Sector, dir : SUBSET [name : Name, sector : Sector],
                   inode : [Sector -> SUBSET Sector] ]
    BY <1>3, <1>7, <1>8, <1>10
  <2> QED
    BY <1>3, <1>6, <1>9, <2>1, <2>2 DEF TypeOK, Quiet, Init
<1>12. \A s : InFile(s, e0) <=> s = 2 \/ s \in data
  BY <1>7, <1>9, <1>10 DEF InFile, Sectors
<1>13. \A s \in Sector : Taken(s) <=> s = 2 \/ s \in data
  BY <1>6, <1>9, <1>12 DEF Taken, Quiet
<1>14. Marked
  BY <1>2, <1>9, <1>13 DEF Marked
<1>15. Apart
  BY <1>6, <1>9 DEF Apart, Quiet
<1>16. FilesOK
  BY <1>2, <1>7, <1>9, <1>10 DEF FilesOK
<1> QED
  BY <1>4, <1>6, <1>11, <1>14, <1>15, <1>16 DEF IInv, Base, Quiet

LEMMA CrashKeeps ==
  ASSUME IInv, Crash
  PROVE  IInv'
<1>1. Base /\ TypeOK /\ Marked /\ Apart /\ FilesOK
  BY DEF IInv, Base
<1>2. Started'
  <2> DEFINE lost == disk.map \ (Reserved \union Filed)
  <2>1. hist' = [ raced |-> FALSE, halfOut |-> {}, lost |-> lost, stranded |-> Nil,
                  clobbered |-> {}, creations |-> hist.creations ]
    BY DEF Crash
  <2> HIDE DEF lost
  <2> QED
    BY <2>1 DEF Started, Crash
<1>3. Quiet'
  <2>1. (Started => Quiet)'
    BY StartedIsQuiet, PTL
  <2> QED
    BY <1>2, <2>1
<1>4. /\ hist' \in HistRecord /\ hist'.clobbered = {}
      /\ hist'.lost = disk.map \ (Reserved \union Filed)
  <2> DEFINE lost == disk.map \ (Reserved \union Filed)
  <2>1. hist' = [ raced |-> FALSE, halfOut |-> {}, lost |-> lost, stranded |-> Nil,
                  clobbered |-> {}, creations |-> hist.creations ]
    BY DEF Crash
  <2>2. lost \in SUBSET Sector /\ hist.creations \in 0 .. Creations
    BY <1>1, StateTypes DEF TypeOK, HistRecord
  <2> HIDE DEF lost
  <2>3. hist' \in HistRecord /\ hist'.clobbered = {} /\ hist'.lost = lost
    BY <2>1, <2>2 DEF HistRecord
  <2> QED
    BY <2>3 DEF lost
<1>5. /\ freeMap' = disk.map /\ fsLock' = Nobody
      /\ disk'.map = disk.map /\ disk'.dir = disk.dir
      /\ \A e \in disk.dir : disk'.inode[e.sector] = disk.inode[e.sector]
      /\ disk' \in [ map : SUBSET Sector, dir : SUBSET [name : Name, sector : Sector],
                     inode : [Sector -> SUBSET Sector] ]
  <2> DEFINE f == [s \in Sector |-> IF \E e \in disk.dir : e.sector = s THEN disk.inode[s] ELSE {}]
  <2>1. freeMap' = disk.map /\ fsLock' = Nobody /\ disk' = [disk EXCEPT !.inode = f]
    BY DEF Crash
  <2>2. f \in [Sector -> SUBSET Sector]
    BY <1>1, StateTypes
  <2>3. \A e \in disk.dir : f[e.sector] = disk.inode[e.sector]
    BY <1>1, StateTypes
  <2> HIDE DEF f
  <2> QED
    BY <1>1, <2>1, <2>2, <2>3 DEF TypeOK
<1>6. TypeOK'
  BY <1>1, <1>3, <1>4, <1>5 DEF TypeOK, Quiet
<1>7. \A s, e : e \in disk.dir => (InFile(s, e)' <=> InFile(s, e))
  BY <1>5 DEF InFile, Sectors
<1>8. \A s \in Sector : Taken(s)' <=> \E e \in disk.dir : InFile(s, e)
  BY <1>3, <1>5, <1>7 DEF Taken, Quiet
<1>9. \A s : s \in Filed <=> \E e \in disk.dir : InFile(s, e)
  BY DEF Filed, InFile
<1>10. Marked'
  <2>1. \A s \in Sector : Taken(s)' => Taken(s)
    BY <1>8 DEF Taken
  <2> QED
    BY <1>1, <1>4, <1>5, <1>8, <1>9, <2>1 DEF Marked
<1>11. Apart'
  BY <1>1, <1>3, <1>5, <1>7 DEF Apart, Quiet
<1>12. FilesOK'
  BY <1>1, <1>5 DEF FilesOK
<1> QED
  BY <1>3, <1>4, <1>6, <1>10, <1>11, <1>12 DEF IInv, Base, Quiet

-------------------------------------------------------------------------------

LEMMA NextKeepsIInv == IInv /\ [Next]_vars => IInv'
<1> SUFFICES ASSUME IInv, [Next]_vars PROVE IInv'
  OBVIOUS
<1>1. CASE Crash \/ Meet
  BY <1>1, CrashKeeps, MeetKeeps
<1>2. ASSUME NEW p \in Process, NEW n \in Name,
             Create(p, n) \/ Open(p, n) \/ Remove(p, n) \/ Load(p, n)
      PROVE  IInv'
  <2>1. CASE Create(p, n)
    BY <2>1, CreateKeeps
  <2>2. CASE Open(p, n)
    BY <2>2, FindKeeps DEF Open, At
  <2>3. CASE Remove(p, n)
    BY <2>3, FindKeeps DEF Remove, At
  <2>4. CASE Load(p, n)
    BY <2>4, FindKeeps DEF Load, At
  <2> QED
    BY <1>2, <2>1, <2>2, <2>3, <2>4
<1>3. ASSUME NEW p \in Process,
             CreateData(p) \/ CreateWrite(p) \/ CreateAdd(p) \/ CreateUndo(p)
      PROVE  IInv'
  BY <1>3, CreateDataKeeps, CreateWriteKeeps, CreateAddKeeps, CreateUndoKeeps
<1>4. ASSUME NEW p \in Process,
             \/ Search(p)
             \/ OpenFile(p) \/ LoadOpen(p) \/ LoadDone(p) \/ LoadFails(p) \/ RemoveErase(p)
      PROVE  IInv'
  BY <1>4, SearchKeeps, OpenFileKeeps, LoadOpenKeeps, LoadDoneKeeps, LoadFailsKeeps, RemoveEraseKeeps
<1>5. ASSUME NEW p \in Process, NEW k \in DOMAIN proc[p].opened_files, Write(p, k) \/ Close(p, k)
      PROVE  IInv'
  BY <1>5, WriteKeeps, CloseKeeps
<1>6. ASSUME NEW p \in Process,
             Exit(p) \/ ExitFile(p) \/ ExitExecutable(p) \/ ExitDone(p)
      PROVE  IInv'
  BY <1>6, ExitKeeps, ExitFileKeeps, ExitExecutableKeeps, ExitDoneKeeps
<1>7. ASSUME NEW p \in Process,
             Drop(p) \/ Unlink(p) \/ UnlinkDone(p) \/ ReleaseInode(p) \/ ReleaseData(p)
      PROVE  IInv'
  BY <1>7, DropKeeps, UnlinkKeeps, UnlinkDoneKeeps, ReleaseInodeKeeps, ReleaseDataKeeps
<1>8. CASE UNCHANGED vars
  BY <1>8, StutterKeeps
<1> QED
  BY <1>1, <1>2, <1>3, <1>4, <1>5, <1>6, <1>7, <1>8 DEF Next

(***************************************************************************)
(* Whatever create, remove, close and exit do at the same time, and        *)
(* wherever a crash falls, the names in the directory are unique, no two   *)
(* files share a sector, and no sector of a file is free on disk.          *)
(***************************************************************************)
THEOREM DiskIsSound == Spec => []DiskSound
<1>1. Spec => []IInv
  BY InitIInv, NextKeepsIInv, PTL DEF Spec
<1> QED
  BY <1>1, IInvMeans, PTL

(***************************************************************************)
(* Until two processes have met at open_inodes or at a count, and in the   *)
(* state in which they do, an inode that is open keeps its sectors and     *)
(* shares them with no file and no inode but its own, also after           *)
(* dir_remove, and free_map_release finds the sectors of a removed inode   *)
(* marked.                                                                 *)
(***************************************************************************)
THEOREM OpenInodesAreKept == Spec => []OpenIsKept
<1>1. Spec => []IInv
  BY InitIInv, NextKeepsIInv, PTL DEF Spec
<1> QED
  BY <1>1, IInvMeans, PTL

(***************************************************************************)
(* Until two processes have met at open_inodes or at a count, open_cnt is  *)
(* the number of files that are open and deny_write_cnt that of the        *)
(* processes that run the file, and no process writes the file another one *)
(* runs.  The steps of inode_open and inode_close may come between those   *)
(* of others everywhere else.                                              *)
(***************************************************************************)
THEOREM CountsAreExact == Spec => []CountsExact
<1>1. Spec => []IInv
  BY InitIInv, NextKeepsIInv, PTL DEF Spec
<1> QED
  BY <1>1, IInvMeans, PTL

(***************************************************************************)
(* Every sector that is marked belongs to a file, an inode in memory or a  *)
(* create under way, or was lost by a create that failed or by a crash.    *)
(***************************************************************************)
THEOREM OnlyCreateAndCrashLose == Spec => []NothingElseLost
<1>1. Spec => []IInv
  BY InitIInv, NextKeepsIInv, PTL DEF Spec
<1> QED
  BY <1>1, IInvMeans, PTL

================================================================================
