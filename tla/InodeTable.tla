----------------------------- MODULE InodeTable -----------------------------
(***************************************************************************)
(* The life of inodes between the directory and the free map: the list    *)
(* open_inodes of in-memory inodes (inode.c inode_open, inode_reopen,      *)
(* inode_close, inode_remove, inode_deny_write, inode_allow_write), the    *)
(* creation and removal of files (filesys.c filesys_create,                *)
(* filesys_remove, filesys_open) and the release of a removed file's       *)
(* sectors at its last close (inode_deallocate).                           *)
(*                                                                         *)
(* One directory maps names to inode sectors; the directory code is not    *)
(* in this repository and is reduced to that map.  All sectors, the ones   *)
(* holding inode records and the data and index sectors, come from one     *)
(* free map.  Above them sit the file system calls of project3's          *)
(* syscall.c: each process has its opened_file_list of file descriptors   *)
(* and its counter cur->fd, and create, remove, open and close_file run    *)
(* holding the global file_lock.  The constant FileLock = FALSE drops that *)
(* lock, for callers that reach the inode layer concurrently.              *)
(***************************************************************************)
EXTENDS InodeLayout, SequencesExt

CONSTANTS
    Threads,   \* user processes making file system calls
    Names,     \* names in the directory
    Lengths,   \* initial sizes passed to filesys_create
    MemSlots,  \* heap blocks malloc may return for a struct inode
    FileLock,  \* TRUE: every call runs holding the global file_lock
    MaxCreates, \* bound on the number of filesys_create calls
    FdBase,    \* the first fd a process hands out (cur->fd at start)
    MaxFd,     \* bound on cur->fd: opens stop when it is reached
    NoThread   \* model value: file_lock is free

ASSUME /\ Lengths \subseteq Nat
       /\ FileLock \in BOOLEAN
       /\ MaxCreates \in Nat
       /\ FdBase \in Nat /\ MaxFd \in Nat
       /\ NoThread \notin Threads


VARIABLES
    free,        \* free map: the free sectors of fs_device
    idx,         \* idx[s]: the pointer array stored in index sector s
    rec,         \* rec[s]: the struct inode_disk stored in sector s
    dir,         \* dir[n]: inode sector of name n, 0 if none
    mem,         \* mem[m]: the struct inode in heap block m
    open_inodes, \* the list open_inodes, front first, as heap blocks
    pc,          \* pc[t]: where process t is inside the open call
    h,           \* h[t]: the struct inode t's open call has found (0: none)
    target,      \* target[t]: the sector inode_open is opening
    files,       \* files[t]: t's opened_file_list of file_for_process
    fd,          \* fd[t]: cur->fd, the next descriptor t hands out
    flock,       \* holder of file_lock
    panicked,    \* the kernel has panicked
    creates      \* number of filesys_create calls so far

vars == <<free, idx, rec, dir, mem, open_inodes, pc, h, target, files, fd,
          flock, panicked, creates>>

\* The fields of struct inode_disk that the inode layer reads back.
DiskInode == [data_length : 0..MAX_FILE_SIZE,
              dir_index : 0..NUM_INODE_BLOCK_PTRS,
              indir_index : 0..PTRS, doubly_indir_index : 0..PTRS,
              ptrs : [PtrSlots -> SectorRef]]

\* A sector never written reads as zeros.
ZeroDiskInode ==
    [data_length |-> 0, dir_index |-> 0, indir_index |-> 0,
     doubly_indir_index |-> 0, ptrs |-> [i \in PtrSlots |-> Garbage]]

\* struct inode, with `live' false for a heap block that is free.
MemInode == [live : BOOLEAN, sector : {Garbage} \cup DiskSectors,
             open_cnt : Nat, deny_write_cnt : Int, removed : BOOLEAN,
             d : DiskInode]

FreeBlock == [live |-> FALSE, sector |-> Garbage, open_cnt |-> 0,
              deny_write_cnt |-> 0, removed |-> FALSE, d |-> ZeroDiskInode]

\* struct file_for_process: a descriptor, the open file's inode, and
\* whether this struct file has called file_deny_write.
FileForProcess == [fd : Nat, inode : MemSlots, denied : BOOLEAN]

\* The inode layer's view of an on-disk record: pointers and cursors from
\* the record, index blocks and free map from the disk.
AsInode(d) ==
    [data_length |-> d.data_length, dir_index |-> d.dir_index,
     indir_index |-> d.indir_index,
     doubly_indir_index |-> d.doubly_indir_index,
     ptrs |-> d.ptrs, idx |-> idx, free |-> free]

ToDisk(g) ==
    [data_length |-> g.data_length, dir_index |-> g.dir_index,
     indir_index |-> g.indir_index,
     doubly_indir_index |-> g.doubly_indir_index, ptrs |-> g.ptrs]

\* Sectors a file's record points to, data and index.
FileSectors(d) == DataSectors(AsInode(d)) \cup IndexSectors(AsInode(d))

\* Mutant: a search that, finding no inode of sector s, returns the last
\* element it examined rather than NULL.
FirstOpenFallThrough(s) ==
    LET i == SelectInSeq(open_inodes, LAMBDA m : mem[m].sector = s)
    IN  IF i # 0 THEN i ELSE Len(open_inodes)

\* Position of the first inode of sector s in open_inodes, 0 if none.
FirstOpen(s) == SelectInSeq(open_inodes, LAMBDA m : mem[m].sector = s)

\* t may start a call: file_lock is free, or callers do not take it.
MayCall(t) == ~FileLock \/ flock = NoThread

\* What the last close of a removed inode does to the free map fr:
\* free_map_release (inode->sector, 1) and inode_deallocate.
Release(fr, s, d) ==
    LET r == inode_deallocate(AsInode(d))
    IN  [free |-> fr \cup {s} \cup r.released, panic |-> r.panic]

\* The part of the state file_close changes.
Store == [mem |-> mem, free |-> free, rec |-> rec,
          open_inodes |-> open_inodes, panicked |-> panicked]

Init ==
    /\ free = DiskSectors
    /\ idx = [s \in SectorRef |-> GarbageBlock]
    /\ rec = [s \in DiskSectors |-> ZeroDiskInode]
    /\ dir = [n \in Names |-> 0]
    /\ mem = [m \in MemSlots |-> FreeBlock]
    /\ open_inodes = << >>
    /\ pc = [t \in Threads |-> "idle"]
    /\ h = [t \in Threads |-> 0]
    /\ target = [t \in Threads |-> 0]
    /\ files = [t \in Threads |-> << >>]
    /\ fd = [t \in Threads |-> FdBase]
    /\ flock = NoThread
    /\ panicked = FALSE
    /\ creates = 0

-----------------------------------------------------------------------------
\* inode_create (s, length): clamp the length, run inode_allocate's growth
\* from a zero-length inode, block_write the record into sector s.
inode_create(s, length) ==
    LET len == IF length > MAX_FILE_SIZE THEN MAX_FILE_SIZE ELSE length
        g   == inode_grow([EmptyInode EXCEPT !.idx = idx, !.free = free \ {s}], len)
    IN  [idx  |-> g.idx,
         free |-> g.free,
         rec  |-> [rec EXCEPT ![s] = [ToDisk(g) EXCEPT !.data_length = len]]]

(* create (file, size) under file_lock: filesys_create takes a sector for  *)
(* the inode, runs inode_create, then dir_add, which fails if the name     *)
(* exists.  On failure only the inode sector is given back.  A failing     *)
(* free_map_allocate changes nothing and is left out.                      *)
filesys_create(t) ==
    /\ ~panicked
    /\ pc[t] = "idle"
    /\ MayCall(t)
    /\ free # {}
    /\ creates < MaxCreates
    /\ creates' = creates + 1
    /\ \E n \in Names, length \in Lengths :
          LET s == Min(free) IN
          \E c \in {inode_create(s, length)} :
              /\ idx' = c.idx
              /\ rec' = c.rec
              /\ IF dir[n] = 0
                 THEN /\ dir' = [dir EXCEPT ![n] = s]
                      /\ free' = c.free
                 ELSE /\ free' = c.free \cup {s}
                      /\ UNCHANGED dir
    /\ UNCHANGED <<mem, open_inodes, pc, h, target, files, fd, flock, panicked>>

\* Mutant: inode_open without the search of open_inodes.
OpenLookupNoSearch(t) ==
    /\ ~panicked
    /\ pc[t] = "idle"
    /\ MayCall(t)
    /\ fd[t] < MaxFd
    /\ \E n \in Names :
          /\ dir[n] # 0
          /\ pc' = [pc EXCEPT ![t] = "alloc"]
          /\ target' = [target EXCEPT ![t] = dir[n]]
    /\ flock' = IF FileLock THEN t ELSE flock
    /\ UNCHANGED <<free, idx, rec, dir, mem, open_inodes, h, files, fd, panicked, creates>>

\* open (file): file_lock is taken; filesys_open's dir_lookup finds the
\* sector and inode_open searches open_inodes for it.  Found: inode_reopen
\* follows.  Not found: a new struct inode is allocated.
OpenLookup(t) ==
    /\ ~panicked
    /\ pc[t] = "idle"
    /\ MayCall(t)
    /\ fd[t] < MaxFd
    /\ \E n \in Names :
          /\ dir[n] # 0
          /\ LET i == FirstOpen(dir[n]) IN
             IF i # 0
             THEN /\ pc' = [pc EXCEPT ![t] = "reopen"]
                  /\ h' = [h EXCEPT ![t] = open_inodes[i]]
                  /\ UNCHANGED target
             ELSE /\ pc' = [pc EXCEPT ![t] = "alloc"]
                  /\ target' = [target EXCEPT ![t] = dir[n]]
                  /\ UNCHANGED h
    /\ flock' = IF FileLock THEN t ELSE flock
    /\ UNCHANGED <<free, idx, rec, dir, mem, open_inodes, files, fd, panicked, creates>>

\* open of a name the directory does not hold: filesys_open returns NULL
\* and open returns -1.
OpenMissing(t) ==
    /\ ~panicked
    /\ pc[t] = "idle"
    /\ MayCall(t)
    /\ \E n \in Names : dir[n] = 0
    /\ UNCHANGED vars

\* The end of open once filesys_open has returned inode m: a
\* file_for_process with fd = cur->fd is pushed on opened_file_list,
\* cur->fd++, and file_lock is released.
open_fd(t, m) ==
    /\ files' = [files EXCEPT ![t] =
                    Append(@, [fd |-> fd[t], inode |-> m, denied |-> FALSE])]
    /\ fd' = [fd EXCEPT ![t] = @ + 1]
    /\ pc' = [pc EXCEPT ![t] = "idle"]
    /\ h' = [h EXCEPT ![t] = 0]
    /\ flock' = IF FileLock THEN NoThread ELSE flock

\* Mutant: the found inode is returned without inode_reopen.
ReopenUncounted(t) ==
    /\ ~panicked
    /\ pc[t] = "reopen"
    /\ open_fd(t, h[t])
    /\ UNCHANGED <<free, idx, rec, dir, mem, open_inodes, target, panicked, creates>>

\* inode_reopen: open_cnt++ on the inode found in the list.
inode_reopen(t) ==
    /\ ~panicked
    /\ pc[t] = "reopen"
    /\ mem' = [mem EXCEPT ![h[t]].open_cnt = @ + 1]
    /\ open_fd(t, h[t])
    /\ UNCHANGED <<free, idx, rec, dir, open_inodes, target, panicked, creates>>

\* inode_open after a missed search: malloc, list_push_front, initialise
\* open_cnt, deny_write_cnt and removed.  The record is not read yet.
InodeAlloc(t) ==
    /\ ~panicked
    /\ pc[t] = "alloc"
    /\ \E m \in MemSlots :
          /\ ~mem[m].live
          /\ mem' = [mem EXCEPT ![m] = [@ EXCEPT !.live = TRUE,
                                         !.sector = target[t],
                                         !.open_cnt = 1,
                                         !.deny_write_cnt = 0,
                                         !.removed = FALSE]]
          /\ open_inodes' = <<m>> \o open_inodes
          /\ h' = [h EXCEPT ![t] = m]
    /\ pc' = [pc EXCEPT ![t] = "read"]
    /\ UNCHANGED <<free, idx, rec, dir, target, files, fd, flock, panicked, creates>>

\* inode_open: block_read of the record and copy of length, cursors and
\* pointers into the struct inode.
InodeRead(t) ==
    /\ ~panicked
    /\ pc[t] = "read"
    /\ mem' = [mem EXCEPT ![h[t]].d = rec[mem[h[t]].sector]]
    /\ open_fd(t, h[t])
    /\ UNCHANGED <<free, idx, rec, dir, open_inodes, target, panicked, creates>>

\* inode_deny_write through file_deny_write on t's open file at position
\* i, at most once per struct file.
inode_deny_write(t) ==
    /\ ~panicked
    /\ pc[t] = "idle"
    /\ MayCall(t)
    /\ \E i \in DOMAIN files[t] :
          /\ ~files[t][i].denied
          /\ mem' = [mem EXCEPT ![files[t][i].inode].deny_write_cnt = @ + 1]
          /\ files' = [files EXCEPT ![t][i].denied = TRUE]
    /\ UNCHANGED <<free, idx, rec, dir, open_inodes, pc, h, target, fd, flock, panicked, creates>>

\* Mutant: allow_write on a file that has not denied writes.
AllowUnchecked(t) ==
    /\ ~panicked
    /\ pc[t] = "idle"
    /\ MayCall(t)
    /\ \E i \in DOMAIN files[t] :
          /\ mem' = [mem EXCEPT ![files[t][i].inode].deny_write_cnt = @ - 1]
          /\ files' = [files EXCEPT ![t][i].denied = FALSE]
    /\ UNCHANGED <<free, idx, rec, dir, open_inodes, pc, h, target, fd, flock, panicked, creates>>

\* inode_allow_write through file_allow_write, by a file that denied.
inode_allow_write(t) ==
    /\ ~panicked
    /\ pc[t] = "idle"
    /\ MayCall(t)
    /\ \E i \in DOMAIN files[t] :
          /\ files[t][i].denied
          /\ mem' = [mem EXCEPT ![files[t][i].inode].deny_write_cnt = @ - 1]
          /\ files' = [files EXCEPT ![t][i].denied = FALSE]
    /\ UNCHANGED <<free, idx, rec, dir, open_inodes, pc, h, target, fd, flock, panicked, creates>>

\* inode_close of heap block m in store st, whose deny_write_cnt becomes
\* deny: open_cnt--, and at zero list_remove, then either
\* free_map_release of the inode sector and inode_deallocate (removed) or
\* block_write of the record; free (inode).
inode_close(st, m, deny) ==
    LET c == st.mem[m] IN
    IF c.open_cnt - 1 # 0
    THEN [st EXCEPT !.mem[m].open_cnt = @ - 1, !.mem[m].deny_write_cnt = deny]
    ELSE LET r == Release(st.free, c.sector, c.d) IN
         [st EXCEPT !.mem[m] = [@ EXCEPT !.open_cnt = 0, !.live = FALSE,
                                         !.deny_write_cnt = deny],
                    !.open_inodes = SelectSeq(@, LAMBDA x : x # m),
                    !.free = IF c.removed THEN r.free ELSE @,
                    !.panicked = IF c.removed THEN @ \/ r.panic ELSE @,
                    !.rec = IF c.removed THEN @ ELSE [@ EXCEPT ![c.sector] = c.d]]

\* Mutant: file_close goes straight to inode_close without allow_write.
CloseNoAllow(st, e) == inode_close(st, e.inode, st.mem[e.inode].deny_write_cnt)

\* file_close of the struct file of entry e: file_allow_write if it
\* denied writes, then inode_close.
file_close(st, e) ==
    inode_close(st, e.inode, IF e.denied THEN st.mem[e.inode].deny_write_cnt - 1
                             ELSE st.mem[e.inode].deny_write_cnt)

\* Makes store st the next state.
SetStore(st) ==
    /\ mem' = st.mem
    /\ free' = st.free
    /\ rec' = st.rec
    /\ open_inodes' = st.open_inodes
    /\ panicked' = st.panicked

\* close (fd), through close_file, under file_lock: the first
\* file_for_process with that fd is closed, removed and freed; the loop
\* then breaks.  Descriptors are unique, cur->fd only grows.  An fd t
\* does not hold changes nothing and is left out.
close_file(t) ==
    /\ ~panicked
    /\ pc[t] = "idle"
    /\ MayCall(t)
    /\ \E i \in DOMAIN files[t] :
          /\ SetStore(file_close(Store, files[t][i]))
          /\ files' = [files EXCEPT ![t] = RemoveAt(@, i)]
    /\ UNCHANGED <<idx, dir, pc, h, target, fd, flock, creates>>

\* close (-1), through close_file: every file on the list is closed,
\* front first, and the list is emptied.
close_all(t) ==
    /\ ~panicked
    /\ pc[t] = "idle"
    /\ MayCall(t)
    /\ files[t] # << >>
    /\ SetStore(FoldLeft(file_close, Store, files[t]))
    /\ files' = [files EXCEPT ![t] = << >>]
    /\ UNCHANGED <<idx, dir, pc, h, target, fd, flock, creates>>

\* inode_remove: marks the open inode at address a to be deleted on its
\* last close.
inode_remove(m, a) == [m EXCEPT ![a].removed = TRUE]

\* Mutant: removal releases the sectors at once, even if the file is open.
RemoveEager(t) ==
    /\ ~panicked
    /\ pc[t] = "idle"
    /\ MayCall(t)
    /\ \E n \in Names :
          LET s == dir[n]
              i == FirstOpen(s)
          IN  /\ s # 0
              /\ dir' = [dir EXCEPT ![n] = 0]
              /\ \E r \in {Release(free, s, rec[s])} :
                    /\ free' = r.free
                    /\ panicked' = r.panic
              /\ mem' = IF i # 0 THEN inode_remove(mem, open_inodes[i])
                        ELSE mem
    /\ UNCHANGED <<idx, rec, open_inodes, pc, h, target, files, fd, flock, creates>>

\* remove (file) under file_lock: filesys_remove's dir_remove clears the
\* entry and, through inode_open, inode_remove and inode_close, marks the
\* inode removed.  If nobody has it open, that inode_close is the last one
\* and releases the sectors.
filesys_remove(t) ==
    /\ ~panicked
    /\ pc[t] = "idle"
    /\ MayCall(t)
    /\ \E n \in Names :
          LET s == dir[n]
              i == FirstOpen(s)
          IN  /\ s # 0
              /\ dir' = [dir EXCEPT ![n] = 0]
              /\ IF i # 0
                 THEN /\ mem' = inode_remove(mem, open_inodes[i])
                      /\ UNCHANGED <<free, panicked>>
                 ELSE /\ \E r \in {Release(free, s, rec[s])} :
                            /\ free' = r.free
                            /\ panicked' = r.panic
                      /\ UNCHANGED mem
    /\ UNCHANGED <<idx, rec, open_inodes, pc, h, target, files, fd, flock, creates>>

ThreadStep(t) ==
    \/ filesys_create(t)
    \/ OpenLookup(t)
    \/ OpenMissing(t)
    \/ inode_reopen(t)
    \/ InodeAlloc(t)
    \/ InodeRead(t)
    \/ inode_deny_write(t)
    \/ inode_allow_write(t)
    \/ close_file(t)
    \/ close_all(t)
    \/ filesys_remove(t)

Next == \E t \in Threads : ThreadStep(t)

Spec == Init /\ [][Next]_vars

-----------------------------------------------------------------------------
(* Properties.                                                             *)

TypeOK ==
    /\ free \subseteq DiskSectors
    /\ rec \in [DiskSectors -> DiskInode]
    /\ dir \in [Names -> {0} \cup DiskSectors]
    /\ mem \in [MemSlots -> MemInode]
    /\ \A m \in MemSlots : mem[m].deny_write_cnt >= 0
    /\ open_inodes \in Seq(MemSlots)
    /\ pc \in [Threads -> {"idle", "reopen", "alloc", "read"}]
    /\ h \in [Threads -> {0} \cup MemSlots]
    /\ files \in [Threads -> Seq(FileForProcess)]
    /\ fd \in [Threads -> FdBase..MaxFd]
    /\ flock \in Threads \cup {NoThread}
    /\ panicked \in BOOLEAN
    /\ creates \in 0..MaxCreates

\* The open files of all processes, as (process, position) pairs.
Entries == UNION {{<<t, i>> : i \in DOMAIN files[t]} : t \in Threads}

\* The references counted in inode m's open_cnt: the descriptors that
\* name it, and an open call that has allocated it and not yet returned.
Openers(m) ==
    {e \in Entries : files[e[1]][e[2]].inode = m}
    \cup {<<t, 0>> : t \in {x \in Threads : pc[x] = "read" /\ h[x] = m}}

\* At most one struct inode per sector is in open_inodes (spec 3): two
\* openers of a sector share one in-memory inode, whatever the order of
\* their searches, allocations, closes and removals.
OneInodePerSector ==
    \A i, j \in 1..Len(open_inodes) :
        i # j => mem[open_inodes[i]].sector # mem[open_inodes[j]].sector

\* Every in-memory inode's open_cnt is the number of descriptors (and
\* unfinished opens) that refer to it, so the last close, by close (fd)
\* or close (-1), is the one that frees it, and no descriptor refers to
\* a freed struct inode.
OpenCountIsOpeners ==
    /\ \A m \in MemSlots :
          mem[m].live => mem[m].open_cnt = Cardinality(Openers(m))
    /\ \A e \in Entries : mem[files[e[1]][e[2]].inode].live

\* deny_write_cnt counts exactly the open files that denied writes, so
\* it never exceeds open_cnt (the ASSERTs of inode_deny_write and
\* inode_allow_write) and returns to 0 when they have closed.
DenyCountIsDeniers ==
    \A m \in MemSlots :
        mem[m].live =>
            mem[m].deny_write_cnt =
                Cardinality({e \in Openers(m) :
                                e[2] # 0 /\ files[e[1]][e[2]].denied})

\* A file that a descriptor refers to, or that a name refers to, keeps
\* its inode sector and every sector its record points to: removal of an
\* open file defers the release to the last close.
OpenFileNotFreed ==
    /\ \A e \in Entries :
          LET c == mem[files[e[1]][e[2]].inode]
          IN  ({c.sector} \cup FileSectors(c.d)) \cap free = {}
    /\ \A n \in Names :
          dir[n] # 0 => ({dir[n]} \cup FileSectors(rec[dir[n]])) \cap free = {}

\* Sectors in use: the inode sectors named in the directory or held in
\* memory, and the sectors their records point to.
InUse ==
    LET owned == {dir[n] : n \in {x \in Names : dir[x] # 0}}
                 \cup {mem[m].sector : m \in {x \in MemSlots : mem[x].live}}
    IN  UNION {{s} \cup FileSectors(rec[s]) : s \in owned}

\* No sector leaks: every sector the free map has handed out is in use,
\* through creations that fail on an existing name and removals of open
\* and closed files.
NoLeak == DiskSectors \ free = InUse

-----------------------------------------------------------------------------
(* Refinement of FileRegistry.  A name denotes its inode sector (0: no     *)
(* file); a descriptor refers to the sector of its struct inode; the      *)
(* files that exist are the inode sectors the free map has handed out     *)
(* that a name or a struct inode in memory still holds.                   *)

RegHandles ==
    [t \in Threads |->
        [i \in DOMAIN files[t] |->
            [file |-> mem[files[t][i].inode].sector,
             denied |-> files[t][i].denied]]]

RegAlive ==
    {s \in DiskSectors \ free :
        \/ \E n \in Names : dir[n] = s
        \/ \E m \in MemSlots : mem[m].live /\ mem[m].sector = s}

Registry == INSTANCE FileRegistry
                WITH Procs <- Threads, Files <- DiskSectors, NoFile <- 0,
                     names <- dir, handles <- RegHandles, alive <- RegAlive

\* The file system calls behave as FileRegistry says: open (name) gives a
\* descriptor for the file the name denotes at that moment (the search of
\* open_inodes finds that file's struct inode, or a new one is read), no
\* call changes which file a descriptor refers to, and a file ends exactly
\* when its last name is removed and its last descriptor closed, through
\* close (fd), close (-1) or remove, in any order.
RegistryRefinement == Registry!RegSpec

\* Removing a file never halts the kernel: the last close of a removed
\* file releases its sectors and returns.
NoPanic == ~panicked

====
