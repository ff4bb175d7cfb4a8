--------------------------------- MODULE VM ---------------------------------
(***************************************************************************)
(* Virtual memory of project 3: the global frame table (vm/frame.c), each *)
(* process's supplemental page table (vm/page.c), swap slots (vm/swap.c)  *)
(* and the paths of userprog/syscall.c that drive them: check_valid_pte's *)
(* lazy loading and stack growth, mmap and munmap.                         *)
(*                                                                         *)
(* A step of a process is one call, atomic: the only state two processes  *)
(* share is the frame table, touched under ft_lock, and the palloc pool,  *)
(* which has its own lock.  The eviction clock scan is one step per entry *)
(* so that user accesses can set accessed bits between them.  process.c   *)
(* and exception.c are not in this repository: exit only stops a process, *)
(* and loading is driven by check_valid_pte.                               *)
(***************************************************************************)
EXTENDS Integers, FiniteSets, FiniteSetsExt, Functions, SequencesExt, Bitwise

CONSTANTS
    Procs,          \* user processes
    Pages,          \* user virtual page numbers, vaddr / PGSIZE
    Frames,         \* frames of palloc's user pool
    NumSwapSlots,   \* block_size (swap_block) / NUM_SECTORS_PER_PAGE
    MapLens,        \* lengths in pages of the files a process may mmap
    MaxMapId,       \* bound on cur->map_id and on files reopened by mmap
    AllocMayFail,   \* whether malloc and install_page may fail
    NoProc, NoFrame, NoEntry, NoPTE

ASSUME MapLens \subseteq Nat /\ MaxMapId \in Nat /\ AllocMayFail \in BOOLEAN

PHYS_BASE_PAGE == 786432       \* PHYS_BASE = 0xc0000000
STACK_MAX_PAGES == 2048        \* STACK_MAX_SIZE = 8 MB (page.h 8)
Buckets == 0..3                \* frame_table's bucket_cnt below 16 entries
Slots == 0..(NumSwapSlots - 1)
MapIds == 1..MaxMapId

\* struct page_entry, reduced to the fields a step reads; is_pinned is set
\* and cleared inside one step of its own process and only that process's
\* table is read by its evictor, so it is always false when observed.
PageEntry == [type : {"PAGE_SWAP", "PAGE_MMAP"}, is_loaded : BOOLEAN,
              swap_offset : Slots]

\* struct frame_entry.
FrameEntry == [frame_ptr : Frames, vaddr : Pages, tid : Procs]

VARIABLES
    page_table,   \* page_table[p][v]: p's page_entry for v, or NoPTE
    pagedir,      \* pagedir[p][v]: frame mapped at v, or NoFrame
    accessed,     \* the pagedir's accessed bits
    dirty,        \* the pagedir's dirty bits
    user_pool,    \* free frames of the user pool
    frame_table,  \* frame_table[b]: the entry in bucket b, or NoEntry
    swap_bitmap,  \* used swap slots
    ft_lock,      \* holder of ft_lock
    mmap_list,    \* mmap_list[p]: pairs <<map_id, page>> of struct mmap_file
    map_id,       \* cur->map_id
    mfiles,       \* files reopened by mmap and not yet closed
    pc,           \* "run", "evict" (inside evict_frame) or "exited"
    hand,         \* bucket of evict_frame's iterator
    panicked

vars == <<page_table, pagedir, accessed, dirty, user_pool, frame_table,
          swap_bitmap, ft_lock, mmap_list, map_id, mfiles, pc, hand, panicked>>

\* initialize_swap_slot: every slot free; the tables start empty.
Init ==
    /\ page_table = [p \in Procs |-> [v \in Pages |-> NoPTE]]
    /\ pagedir = [p \in Procs |-> [v \in Pages |-> NoFrame]]
    /\ accessed = [p \in Procs |-> [v \in Pages |-> FALSE]]
    /\ dirty = [p \in Procs |-> [v \in Pages |-> FALSE]]
    /\ user_pool = Frames
    /\ frame_table = [b \in Buckets |-> NoEntry]
    /\ swap_bitmap = {}
    /\ ft_lock = NoProc
    /\ mmap_list = [p \in Procs |-> {}]
    /\ map_id = [p \in Procs |-> 0]
    /\ mfiles = [p \in Procs |-> 0]
    /\ pc = [p \in Procs |-> "run"]
    /\ hand = [p \in Procs |-> 0]
    /\ panicked = FALSE

-----------------------------------------------------------------------------
(* The frame table.                                                        *)

\* frame_hash: hash_bytes (FNV-1: hash = hash * 16777619 ^ byte, from
\* 2166136261) over the little-endian bytes of vaddr = v * 4096, reduced to
\* hash & (bucket_cnt - 1).  The low two bits of a product and of a xor
\* depend only on the low two bits of the operands, so it is computed mod 4.
frame_hash(v) ==
    LET Step(h, byte) == ((h * 3) % 4) ^^ (byte % 4)
    IN  FoldLeft(Step, 1, <<0, (v % 16) * 16, (v \div 16) % 256,
                            (v \div 4096) % 256>>)

\* hash_insert with frame_less, which compares frame_a with itself: any two
\* entries of a bucket are equal, so an entry goes in only if its bucket is
\* empty; otherwise hash_insert returns the old one and the new is dropped.
hash_insert_frame(ft, e) ==
    IF ft[frame_hash(e.vaddr)] = NoEntry
    THEN [ft EXCEPT ![frame_hash(e.vaddr)] = e]
    ELSE ft

\* deallocate_frame_entry: the key's vaddr is never set, so hash_find looks
\* in the bucket b of whatever the stack held and deletes its entry, if any.
\* The frame is not given back to palloc.
deallocate_frame_entry(ft, b) == [ft EXCEPT ![b] = NoEntry]

\* The iteration order of evict_frame: buckets in index order, wrapping
\* when size reaches hash_size.
FirstBucket == Min({b \in Buckets : frame_table[b] # NoEntry})
NextBucket(b) ==
    LET later == {c \in Buckets : c > b /\ frame_table[c] # NoEntry}
    IN  IF later # {} THEN Min(later) ELSE FirstBucket

-----------------------------------------------------------------------------
(* Steps of process p.                                                     *)

Live(p) == ~panicked /\ pc[p] = "run"

exit(p) ==
    /\ pc' = [pc EXCEPT ![p] = "exited"]
    /\ UNCHANGED <<page_table, pagedir, accessed, dirty, user_pool,
                   frame_table, swap_bitmap, ft_lock, mmap_list, map_id,
                   mfiles, hand, panicked>>

\* allocate_frame_entry with a free frame f, then install_page of f at v,
\* and on success page_table[p][v] becomes pte.  A failed malloc of the
\* entry returns NULL with ft_lock still held (frame.c 80-81); a failed
\* install_page calls deallocate_frame_entry.  Both make the caller fail,
\* and check_valid_pte then exits.
AllocateAndInstall(p, v, pte) ==
    \E f \in user_pool :
       /\ ft_lock = NoProc
       /\ user_pool' = user_pool \ {f}
       /\ UNCHANGED <<swap_bitmap, mmap_list, map_id, mfiles, hand, panicked>>
       /\ \/ /\ AllocMayFail
             /\ ft_lock' = p
             /\ pc' = [pc EXCEPT ![p] = "exited"]
             /\ UNCHANGED <<page_table, pagedir, accessed, dirty, frame_table>>
          \/ /\ ft_lock' = NoProc
             /\ LET ft == hash_insert_frame(frame_table,
                              [frame_ptr |-> f, vaddr |-> v, tid |-> p])
                IN  \/ /\ page_table' = [page_table EXCEPT ![p][v] = pte]
                       /\ pagedir' = [pagedir EXCEPT ![p][v] = f]
                       /\ accessed' = [accessed EXCEPT ![p][v] = FALSE]
                       /\ dirty' = [dirty EXCEPT ![p][v] = FALSE]
                       /\ frame_table' = ft
                       /\ UNCHANGED pc
                    \/ /\ AllocMayFail
                       /\ \E b \in Buckets :
                             frame_table' = deallocate_frame_entry(ft, b)
                       /\ pc' = [pc EXCEPT ![p] = "exited"]
                       /\ UNCHANGED <<page_table, pagedir, accessed, dirty>>

\* allocate_frame_entry when palloc_get_page fails: ft_lock is taken and
\* evict_frame starts at hash_first.  Pintos's hash_first leaves the
\* iterator on bucket 0's list head, so the code's first hash_cur (frame.c
\* 30) is that sentinel, read as a frame_entry of garbage fields.  The
\* model instead starts at the first entry and panics only on an empty
\* table: it lets the loop run on real entries, which the code never
\* reaches, and every eviction still ends in a panic (frame.c 96).
StartEvict(p) ==
    /\ user_pool = {}
    /\ ft_lock = NoProc
    /\ ft_lock' = p
    /\ IF \A b \in Buckets : frame_table[b] = NoEntry
       THEN /\ panicked' = TRUE
            /\ UNCHANGED <<pc, hand>>
       ELSE /\ pc' = [pc EXCEPT ![p] = "evict"]
            /\ hand' = [hand EXCEPT ![p] = FirstBucket]
            /\ UNCHANGED panicked
    /\ UNCHANGED <<page_table, pagedir, accessed, dirty, user_pool,
                   frame_table, swap_bitmap, mmap_list, map_id, mfiles>>

\* load_file (load_mmap) of p's unloaded page v.
load_file(p, v) ==
    \/ AllocateAndInstall(p, v, [page_table[p][v] EXCEPT !.is_loaded = TRUE])
    \/ StartEvict(p)

\* grow_stack: v within STACK_MAX_SIZE below PHYS_BASE gets a new loaded
\* PAGE_SWAP entry with a frame.  A failed malloc of the entry fails.
grow_stack(p, v) ==
    /\ PHYS_BASE_PAGE - v < STACK_MAX_PAGES
    /\ \/ /\ AllocMayFail
          /\ exit(p)
       \/ AllocateAndInstall(p, v, [type |-> "PAGE_SWAP", is_loaded |-> TRUE,
                                    swap_offset |-> 0])
       \/ StartEvict(p)

\* check_valid_pte for a user pointer into page v.  A present entry that is
\* not loaded is loaded by its type; without an entry the stack grows if
\* the pointer is within 32 bytes below esp (the user's choice), and a
\* failed load exits (as does grow_stack's range check).  A loaded entry
\* needs no step.
\* get_page_entry (vaddr): hash_find of the page (pg_round_down; v is already
\* a page number) in the page_table of the calling thread p, or NULL.
get_page_entry(p, v) == page_table[p][v]

check_valid_pte(p, v) ==
    /\ Live(p)
    /\ LET pte == get_page_entry(p, v)
       IN  \/ /\ pte # NoPTE /\ ~pte.is_loaded /\ pte.type = "PAGE_MMAP"
              /\ load_file(p, v)
           \/ /\ pte = NoPTE
              /\ \/ grow_stack(p, v)
                 \/ exit(p)

\* The user program reads or writes a present page: the MMU sets the
\* accessed bit, and the dirty bit on a write.
Access(p, v, write) ==
    /\ Live(p)
    /\ pagedir[p][v] # NoFrame
    /\ accessed' = [accessed EXCEPT ![p][v] = TRUE]
    /\ dirty' = [dirty EXCEPT ![p][v] = @ \/ write]
    /\ UNCHANGED <<page_table, pagedir, user_pool, frame_table, swap_bitmap,
                   ft_lock, mmap_list, map_id, mfiles, pc, hand, panicked>>

\* swap_frame_out: bitmap_scan_and_flip takes the lowest free slot; with
\* none it returns BITMAP_ERROR and the kernel panics ("Swap slot is full.").
\* The page's sectors are then written to the slot.
BITMAP_ERROR == -1
swap_frame_out(bm) == IF bm = Slots THEN BITMAP_ERROR ELSE Min(Slots \ bm)

\* One pass of evict_frame's loop, at the entry e under the iterator.  Its
\* page_entry is looked up in p's own table (get_page_entry reads
\* thread_current's), its bits in the pagedir of thread e.tid; a NULL
\* entry, or the thread of an exited tid, is dereferenced.  An accessed
\* page gets a second chance.  Otherwise the victim is written back (mmap)
\* or, dirty, swapped out by swap_frame_out, unloaded and unmapped; then
\* deallocate_frame_entry calls lock_acquire (&ft_lock), which p holds,
\* and the ASSERT (!lock_held_by_current_thread (lock)) fails.
evict_frame(p) ==
    LET e == frame_table[hand[p]]
        pte == get_page_entry(p, e.vaddr)
        swap == dirty[e.tid][e.vaddr] /\ pte.type # "PAGE_MMAP"
        slot == swap_frame_out(swap_bitmap)
    IN
    /\ ~panicked
    /\ pc[p] = "evict"
    /\ \/ /\ pc[e.tid] = "exited" \/ pte = NoPTE
          /\ panicked' = TRUE
          /\ UNCHANGED <<page_table, pagedir, accessed, swap_bitmap, hand>>
       \/ /\ pc[e.tid] # "exited" /\ pte # NoPTE
          /\ accessed[e.tid][e.vaddr]
          /\ accessed' = [accessed EXCEPT ![e.tid][e.vaddr] = FALSE]
          /\ hand' = [hand EXCEPT ![p] = NextBucket(hand[p])]
          /\ UNCHANGED <<page_table, pagedir, swap_bitmap, panicked>>
       \/ /\ pc[e.tid] # "exited" /\ pte # NoPTE
          /\ ~accessed[e.tid][e.vaddr]
          /\ IF swap /\ slot = BITMAP_ERROR
             THEN /\ page_table' = [page_table EXCEPT ![p][e.vaddr].type = "PAGE_SWAP"]
                  /\ UNCHANGED <<pagedir, swap_bitmap>>
             ELSE /\ page_table' = [page_table EXCEPT ![p][e.vaddr] =
                         IF swap THEN [@ EXCEPT !.type = "PAGE_SWAP",
                                                !.swap_offset = slot,
                                                !.is_loaded = FALSE]
                         ELSE [@ EXCEPT !.is_loaded = FALSE]]
                  /\ swap_bitmap' = IF swap THEN swap_bitmap \cup {slot}
                                    ELSE swap_bitmap
                  /\ pagedir' = [pagedir EXCEPT ![e.tid][e.vaddr] = NoFrame]
          /\ panicked' = TRUE
          /\ UNCHANGED <<accessed, hand>>
    /\ UNCHANGED <<dirty, user_pool, frame_table, ft_lock, mmap_list, map_id,
                   mfiles, pc>>

\* insert_mmap_in_page_table's first test: page k has no entry yet.
insert_mmap_in_page_table(p, k) == page_table[p][k] = NoPTE

\* An unloaded page_entry of an mmapped file page.
MmapEntry == [type |-> "PAGE_MMAP", is_loaded |-> FALSE, swap_offset |-> 0]

\* The mmap_file records of ml that remove_process_mmap and munmap act on:
\* those of mapid, or every one for -1.
Matching(ml, mapid) == {m \in ml : m[1] = mapid \/ mapid = -1}

\* Mutant: the rollback unlinks the mmap_file records but leaves their
\* pages in the page table (the hash_delete is dropped).
RollbackKeepsPages(pt, ml, mapid) ==
    [page_table |-> pt,
     mmap_list |-> ml \ Matching(ml, mapid),
     closed |-> IF Matching(ml, mapid) # {} THEN 1 ELSE 0]

\* remove_process_mmap (mapid) on p's page table pt and mmap_list ml, as
\* mmap's rollback calls it: the pages it finds were inserted by this mmap
\* and are not loaded, so no frame is freed.  Each matching page leaves
\* the page table, its record leaves the list, and the file is closed at
\* the first match only (closed is 1 or 0).
remove_process_mmap(pt, ml, mapid) ==
    LET mine == {m[2] : m \in Matching(ml, mapid)}
    IN  [page_table |-> [k \in DOMAIN pt |-> IF k \in mine THEN NoPTE ELSE pt[k]],
         mmap_list |-> ml \ Matching(ml, mapid),
         closed |-> IF mine # {} THEN 1 ELSE 0]

\* mmap (fd, addr) of an open file n pages long at page v; the fd lookup and
\* the address checks read only the arguments.  file_reopen gives the
\* mapping its own file, left open when the file is empty.  Otherwise
\* map_id is incremented and insert_mmap_in_page_table runs page by page;
\* at the first page k already in page_table or whose malloc (of the
\* page_entry or the mmap_file) fails, the pages before k are in the page
\* table and mmap_list, and remove_process_mmap (map_id) is called.
mmap(p, v, n) ==
    LET span == {v + i : i \in 0..(n - 1)}
        taken == {k \in span : ~insert_mmap_in_page_table(p, k)}
        stops == {k \in span : (k \in taken \/ AllocMayFail)
                               /\ \A j \in taken : k <= j}
        id == map_id[p] + 1
        Insert(added) == [k \in Pages |-> IF k \in added THEN MmapEntry
                                          ELSE page_table[p][k]]
    IN
    /\ Live(p)
    /\ span \subseteq Pages
    /\ mfiles[p] < MaxMapId
    /\ \/ /\ n = 0
          /\ mfiles' = [mfiles EXCEPT ![p] = @ + 1]
          /\ UNCHANGED <<page_table, mmap_list, map_id>>
       \/ /\ n > 0
          /\ map_id[p] < MaxMapId
          /\ map_id' = [map_id EXCEPT ![p] = id]
          /\ \/ /\ taken = {}
                /\ page_table' = [page_table EXCEPT ![p] = Insert(span)]
                /\ mmap_list' = [mmap_list EXCEPT ![p] =
                                    @ \cup {<<id, k>> : k \in span}]
                /\ mfiles' = [mfiles EXCEPT ![p] = @ + 1]
             \/ \E k \in stops :
                LET added == {j \in span : j < k}
                    rb == remove_process_mmap(Insert(added),
                              mmap_list[p] \cup {<<id, j>> : j \in added}, id)
                IN  /\ page_table' = [page_table EXCEPT ![p] = rb.page_table]
                    /\ mmap_list' = [mmap_list EXCEPT ![p] = rb.mmap_list]
                    /\ mfiles' = [mfiles EXCEPT ![p] = @ + 1 - rb.closed]
    /\ UNCHANGED <<pagedir, accessed, dirty, user_pool, frame_table,
                   swap_bitmap, ft_lock, pc, hand, panicked>>

\* Mutant: the file is closed once per page.
CloseEachPage(n, mine) == n - Cardinality(mine)

\* munmap's file_close: once for all the pages it finds (the close flag).
close_mapped_file(n, mine) == n - 1

\* munmap (map_id), or of every mapping for -1: each loaded page of it is
\* written back if dirty and goes through deallocate_frame_entry, each with
\* its own stack garbage g[k], and pagedir_clear_page; its entry leaves
\* page_table and mmap_list; the file is closed once, at the first match.
munmap(p, id) ==
    LET mine == {m[2] : m \in Matching(mmap_list[p], id)}
        loaded == {k \in mine : page_table[p][k].is_loaded}
    IN
    /\ Live(p)
    /\ mine # {}
    /\ loaded # {} => ft_lock = NoProc
    /\ \E g \in [loaded -> Buckets] :
          frame_table' = FoldFunction(LAMBDA b, ft : deallocate_frame_entry(ft, b),
                                      frame_table, g)
    /\ pagedir' = [pagedir EXCEPT ![p] =
                     [k \in Pages |-> IF k \in loaded THEN NoFrame
                                      ELSE pagedir[p][k]]]
    /\ page_table' = [page_table EXCEPT ![p] =
                        [k \in Pages |-> IF k \in mine THEN NoPTE
                                         ELSE page_table[p][k]]]
    /\ mmap_list' = [mmap_list EXCEPT ![p] = @ \ Matching(@, id)]
    /\ mfiles' = [mfiles EXCEPT ![p] = close_mapped_file(@, mine)]
    /\ UNCHANGED <<accessed, dirty, user_pool, swap_bitmap, ft_lock, map_id,
                   pc, hand, panicked>>

Next ==
    \E p \in Procs :
       \/ \E v \in Pages : check_valid_pte(p, v)
       \/ \E v \in Pages, w \in BOOLEAN : Access(p, v, w)
       \/ evict_frame(p)
       \/ \E v \in Pages, n \in MapLens : mmap(p, v, n)
       \/ \E id \in MapIds \cup {-1} : munmap(p, id)

Spec == Init /\ [][Next]_vars

-----------------------------------------------------------------------------
(* Properties.                                                             *)

TypeOK ==
    /\ page_table \in [Procs -> [Pages -> PageEntry \cup {NoPTE}]]
    /\ pagedir \in [Procs -> [Pages -> Frames \cup {NoFrame}]]
    /\ accessed \in [Procs -> [Pages -> BOOLEAN]]
    /\ dirty \in [Procs -> [Pages -> BOOLEAN]]
    /\ user_pool \subseteq Frames
    /\ frame_table \in [Buckets -> FrameEntry \cup {NoEntry}]
    /\ swap_bitmap \subseteq Slots
    /\ ft_lock \in Procs \cup {NoProc}
    /\ mmap_list \in [Procs -> SUBSET (MapIds \X Pages)]
    /\ map_id \in [Procs -> 0..MaxMapId]
    /\ mfiles \in [Procs -> 0..MaxMapId]
    /\ pc \in [Procs -> {"run", "evict", "exited"}]
    /\ hand \in [Procs -> Buckets]
    /\ panicked \in BOOLEAN

\* Every page an mmap added is a PAGE_MMAP entry of one mmap_file, and
\* every PAGE_MMAP entry belongs to one: munmap and remove_process_mmap,
\* walking mmap_list, reach every mapped page and nothing else.
MmapEntriesTracked ==
    \A p \in Procs, v \in Pages :
       /\ (page_table[p][v] # NoPTE /\ page_table[p][v].type = "PAGE_MMAP")
             <=> \E i \in MapIds : <<i, v>> \in mmap_list[p]
       /\ \A i, j \in MapIds :
             <<i, v>> \in mmap_list[p] /\ <<j, v>> \in mmap_list[p] => i = j

\* Each frame mapped in a pagedir has a frame-table entry, so evict_frame
\* can reach it.  frame_less compares frame_a with itself (frame.c 18), so
\* a second page in a bucket is never inserted.
FrameTableComplete ==
    \A p \in Procs, v \in Pages :
       pagedir[p][v] # NoFrame =>
          \E b \in Buckets : frame_table[b] # NoEntry
                             /\ frame_table[b].frame_ptr = pagedir[p][v]

\* Every file mmap reopened and has not closed belongs to a mapping that
\* munmap can still close.  An empty file (syscall.c 555-558), a first
\* page already mapped (remove_process_mmap finds nothing), and munmap (-1)
\* over several mappings (one close) each leave a file open for good.
MmapFilesClosable ==
    \A p \in Procs :
       mfiles[p] = Cardinality({i \in MapIds : \E v \in Pages : <<i, v>> \in mmap_list[p]})

\* The kernel does not panic.  Every eviction ends in a panic: allocate_frame_entry
\* holds ft_lock across evict_frame, whose deallocate_frame_entry acquires
\* it again (frame.c 70-71, 96).
NoPanic == ~panicked

\* ft_lock is held only by a process inside evict_frame.  A failed malloc in
\* allocate_frame_entry returns with it held (frame.c 79-81), and every
\* later frame-table call of another process waits for ever.
FtLockReleased == ft_lock # NoProc => pc[ft_lock] = "evict"

=============================================================================
