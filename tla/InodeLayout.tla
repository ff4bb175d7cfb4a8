---------------------------- MODULE InodeLayout ----------------------------
(***************************************************************************)
(* The block-pointer layout of an extensible inode (project4 inode.c):     *)
(* how a length is split over the direct, singly-indirect and              *)
(* doubly-indirect tiers (bytes_to_sectors), how a byte offset is          *)
(* translated to a sector (byte_to_sector), and the resumable, tiered      *)
(* growth algorithm (inode_grow and its helpers), as pure operators.       *)
(*                                                                         *)
(* An inode state is a record with the fields of struct inode that the   *)
(* growth touches (data_length, dir_index, indir_index,                    *)
(* doubly_indir_index, inode_block_ptrs), the on-disk contents of index    *)
(* blocks (idx[s] is the pointer array stored in sector s, written with    *)
(* block_write and read back with block_read) and the free map.            *)
(*                                                                         *)
(* The sizes are parameters; the code has BLOCK_SECTOR_SIZE 512,           *)
(* NUM_DIRECT_BLOCKS 4, NUM_INDIRECT_BLOCKS 9 and NUM_INDIRECT_BLOCK_PTRS  *)
(* 128.  size_t arithmetic wraps modulo SIZE_T_MOD.                        *)
(***************************************************************************)
EXTENDS Naturals, FiniteSets, FiniteSetsExt

CONSTANTS
    BLOCK_SECTOR_SIZE,
    NUM_DIRECT_BLOCKS,
    NUM_INDIRECT_BLOCKS,
    NUM_INDIRECT_BLOCK_PTRS,
    NumDiskSectors,   \* data sectors of the device available to the free map
    SIZE_T_MOD        \* 2^(width of size_t); only its exceeding every count matters

ASSUME /\ BLOCK_SECTOR_SIZE \in Nat \ {0}
       /\ NUM_DIRECT_BLOCKS \in Nat \ {0}
       /\ NUM_INDIRECT_BLOCKS \in Nat \ {0}
       /\ NUM_INDIRECT_BLOCK_PTRS \in Nat \ {0}
       /\ NumDiskSectors \in Nat

PTRS == NUM_INDIRECT_BLOCK_PTRS

INDIRECT_BLOCK_IDX        == NUM_DIRECT_BLOCKS
DOUBLY_INDIRECT_BLOCK_IDX == NUM_DIRECT_BLOCKS + NUM_INDIRECT_BLOCKS
NUM_INODE_BLOCK_PTRS      == DOUBLY_INDIRECT_BLOCK_IDX + 1

DIR_BLOCK_SIZE   == BLOCK_SECTOR_SIZE * NUM_DIRECT_BLOCKS
INDIR_BLOCK_SIZE == BLOCK_SECTOR_SIZE * PTRS

\* The tier capacity (inode.h: MAX_FILE_SIZE 8980480 for the code's sizes).
MAX_FILE_SIZE ==
    BLOCK_SECTOR_SIZE * (NUM_DIRECT_BLOCKS + NUM_INDIRECT_BLOCKS * PTRS + PTRS * PTRS)

\* Sector 0 stands for a pointer slot that was never assigned (stack or
\* calloc'd memory); the free map hands out sectors 1..NumDiskSectors.
Garbage     == 0
DiskSectors == 1..NumDiskSectors
SectorRef   == {Garbage} \cup DiskSectors
NoSector    == -1            \* byte_to_sector's "return -1"

PtrSlots   == 0..(NUM_INODE_BLOCK_PTRS - 1)
BlockSlots == 0..(PTRS - 1)

\* An indirect_block that has not been read from disk: uninitialized.
GarbageBlock == [i \in BlockSlots |-> Garbage]

DIV_ROUND_UP(x, y) == (x + y - 1) \div y

-----------------------------------------------------------------------------
\* bytes_to_sectors (size, DIRECT | INDIRECT | DOUBLY_INDIRECT)
bytes_to_sectors(size, type) ==
    CASE type = "DIRECT" -> DIV_ROUND_UP(size, BLOCK_SECTOR_SIZE)
      [] type = "INDIRECT" ->
            IF size <= DIR_BLOCK_SIZE THEN 0
            ELSE DIV_ROUND_UP(size - DIR_BLOCK_SIZE, INDIR_BLOCK_SIZE)
      [] type = "DOUBLY_INDIRECT" ->
            IF size <= DIR_BLOCK_SIZE + INDIR_BLOCK_SIZE * NUM_INDIRECT_BLOCKS
            THEN 0 ELSE 1

\* byte_to_sector: the sector holding byte pos, reading index blocks from
\* the disk as the code does with block_read.
byte_to_sector(g, pos) ==
    IF pos >= g.data_length THEN NoSector
    ELSE IF pos < DIR_BLOCK_SIZE
    THEN g.ptrs[pos \div BLOCK_SECTOR_SIZE]
    ELSE IF pos < DIR_BLOCK_SIZE + INDIR_BLOCK_SIZE * NUM_INDIRECT_BLOCKS
    THEN LET p == pos - DIR_BLOCK_SIZE
             blk == g.idx[g.ptrs[(p \div INDIR_BLOCK_SIZE) + NUM_DIRECT_BLOCKS]]
         IN  blk[(p % INDIR_BLOCK_SIZE) \div BLOCK_SECTOR_SIZE]
    ELSE LET p == pos - (DIR_BLOCK_SIZE + INDIR_BLOCK_SIZE * NUM_INDIRECT_BLOCKS)
             outer == g.idx[g.ptrs[DOUBLY_INDIRECT_BLOCK_IDX]]
             inner == g.idx[outer[p \div INDIR_BLOCK_SIZE]]
         IN  inner[(p % INDIR_BLOCK_SIZE) \div BLOCK_SECTOR_SIZE]

-----------------------------------------------------------------------------
(* free_map_allocate (1, &slot): first-fit; on failure the slot keeps     *)
(* whatever it held.                                                       *)
NewSector(free, old) == IF free = {} THEN old ELSE Min(free)
Take(free)           == IF free = {} THEN free ELSE free \ {Min(free)}

\* Mutant: the fill loop runs while the cursor is <= PTRS (off by one).
RECURSIVE FillBlockPastEnd(_, _, _, _)
FillBlockPastEnd(g, cursor, blk, n) ==
    IF g[cursor] > PTRS THEN [g |-> g, blk |-> blk, n |-> n]
    ELSE LET b2 == [blk EXCEPT ![g[cursor]] = NewSector(g.free, blk[g[cursor]])]
             g2 == [g EXCEPT !.free = Take(g.free), ![cursor] = @ + 1]
         IN  IF n - 1 = 0 THEN [g |-> g2, blk |-> b2, n |-> 0]
             ELSE FillBlockPastEnd(g2, cursor, b2, n - 1)

\* The fill loop shared by inode_grow_indirect_block and
\* inode_grow_doubly_inner_indirect_block: allocate a zeroed data sector
\* into blk[cursor], advance the cursor, stop when the count reaches 0 or
\* the block is full.  `cursor' names the field of g used as index.
RECURSIVE FillBlock(_, _, _, _)
FillBlock(g, cursor, blk, n) ==
    IF g[cursor] >= PTRS THEN [g |-> g, blk |-> blk, n |-> n]
    ELSE LET b2 == [blk EXCEPT ![g[cursor]] = NewSector(g.free, blk[g[cursor]])]
             g2 == [g EXCEPT !.free = Take(g.free), ![cursor] = @ + 1]
         IN  IF n - 1 = 0 THEN [g |-> g2, blk |-> b2, n |-> 0]
             ELSE FillBlock(g2, cursor, b2, n - 1)

\* inode_grow_helper (DIRECT)
GrowDirect(g, n) ==
    [g |-> [g EXCEPT !.ptrs[g.dir_index] = NewSector(g.free, @),
                     !.free = Take(g.free),
                     !.dir_index = @ + 1],
     n |-> n - 1]

\* Mutant: a resumed growth allocates a new indirect block instead of
\* reading back the partially filled one.
GrowIndirectAlwaysFresh(g, n) ==
    LET g1  == [g EXCEPT !.ptrs[g.dir_index] = NewSector(g.free, @),
                         !.free = Take(g.free)]
        r   == FillBlock(g1, "indir_index", GarbageBlock, n)
        g2  == [r.g EXCEPT !.idx[r.g.ptrs[g.dir_index]] = r.blk]
    IN [g |-> IF g2.indir_index = PTRS
              THEN [g2 EXCEPT !.indir_index = 0, !.dir_index = @ + 1]
              ELSE g2,
        n |-> r.n]

\* inode_grow_indirect_block
inode_grow_indirect_block(g, n) ==
    LET fresh == g.indir_index = 0
        g1  == IF fresh
               THEN [g EXCEPT !.ptrs[g.dir_index] = NewSector(g.free, @),
                              !.free = Take(g.free)]
               ELSE g
        blk == IF fresh THEN GarbageBlock ELSE g.idx[g.ptrs[g.dir_index]]
        r   == FillBlock(g1, "indir_index", blk, n)
        g2  == [r.g EXCEPT !.idx[r.g.ptrs[g.dir_index]] = r.blk]
    IN [g |-> IF g2.indir_index = PTRS
              THEN [g2 EXCEPT !.indir_index = 0, !.dir_index = @ + 1]
              ELSE g2,
        n |-> r.n]

\* Mutant: a full inner block resets the inner cursor but does not move
\* on to the next outer slot.
InnerNoAdvance(g, n, outer) ==
    LET fresh  == g.doubly_indir_index = 0
        outer1 == IF fresh
                  THEN [outer EXCEPT ![g.indir_index] = NewSector(g.free, @)]
                  ELSE outer
        g1     == IF fresh THEN [g EXCEPT !.free = Take(g.free)] ELSE g
        inner  == IF fresh THEN GarbageBlock ELSE g.idx[outer[g.indir_index]]
        r      == FillBlock(g1, "doubly_indir_index", inner, n)
        g2     == [r.g EXCEPT !.idx[outer1[g.indir_index]] = r.blk]
    IN [g |-> IF g2.doubly_indir_index = PTRS
              THEN [g2 EXCEPT !.doubly_indir_index = 0]
              ELSE g2,
        outer |-> outer1,
        n |-> r.n]

\* inode_grow_doubly_inner_indirect_block, filling the inner block that
\* outer[indir_index] points to.
inode_grow_doubly_inner_indirect_block(g, n, outer) ==
    LET fresh  == g.doubly_indir_index = 0
        outer1 == IF fresh
                  THEN [outer EXCEPT ![g.indir_index] = NewSector(g.free, @)]
                  ELSE outer
        g1     == IF fresh THEN [g EXCEPT !.free = Take(g.free)] ELSE g
        inner  == IF fresh THEN GarbageBlock ELSE g.idx[outer[g.indir_index]]
        r      == FillBlock(g1, "doubly_indir_index", inner, n)
        g2     == [r.g EXCEPT !.idx[outer1[g.indir_index]] = r.blk]
    IN [g |-> IF g2.doubly_indir_index = PTRS
              THEN [g2 EXCEPT !.doubly_indir_index = 0, !.indir_index = @ + 1]
              ELSE g2,
        outer |-> outer1,
        n |-> r.n]

\* The while loop of inode_grow_doubly_outer_indirect_block.
RECURSIVE OuterLoop(_, _, _)
OuterLoop(g, outer, n) ==
    IF g.indir_index >= PTRS THEN [g |-> g, outer |-> outer, n |-> n]
    ELSE LET r == inode_grow_doubly_inner_indirect_block(g, n, outer)
         IN  IF r.n = 0 THEN r ELSE OuterLoop(r.g, r.outer, r.n)

\* inode_grow_doubly_outer_indirect_block: note the unconditional
\* dir_index++ after writing the outer block back.
inode_grow_doubly_outer_indirect_block(g, n) ==
    LET fresh == g.doubly_indir_index = 0 /\ g.indir_index = 0
        g1    == IF fresh
                 THEN [g EXCEPT !.ptrs[g.dir_index] = NewSector(g.free, @),
                                !.free = Take(g.free)]
                 ELSE g
        outer == IF fresh THEN GarbageBlock ELSE g.idx[g.ptrs[g.dir_index]]
        r     == OuterLoop(g1, outer, n)
    IN [g |-> [r.g EXCEPT !.idx[r.g.ptrs[g.dir_index]] = r.outer,
                          !.dir_index = @ + 1],
        n |-> r.n]

\* inode_grow_helper, dispatched the way inode_grow's three while loops
\* pick the block type from dir_index.
inode_grow_helper(g, n) ==
    IF g.dir_index < INDIRECT_BLOCK_IDX THEN GrowDirect(g, n)
    ELSE IF g.dir_index < DOUBLY_INDIRECT_BLOCK_IDX
    THEN inode_grow_indirect_block(g, n)
    ELSE inode_grow_doubly_outer_indirect_block(g, n)

\* The three while loops of inode_grow: once dir_index has moved past the
\* doubly-indirect slot, no loop runs and data_length is left alone.
RECURSIVE GrowLoop(_, _, _)
GrowLoop(g, n, len) ==
    IF g.dir_index > DOUBLY_INDIRECT_BLOCK_IDX THEN g
    ELSE LET r == inode_grow_helper(g, n)
         IN  IF r.n = 0 THEN [r.g EXCEPT !.data_length = len]
             ELSE GrowLoop(r.g, r.n, len)

\* inode_grow (inode, modified_len); the sector difference is a size_t.
inode_grow(g, len) ==
    LET n == (bytes_to_sectors(len, "DIRECT")
              - bytes_to_sectors(g.data_length, "DIRECT")) % SIZE_T_MOD
    IN  IF n = 0 THEN [g EXCEPT !.data_length = len]
        ELSE GrowLoop(g, n, len)

\* A zero-length inode with every sector free (inode_allocate's start).
EmptyInode ==
    [data_length |-> 0, dir_index |-> 0, indir_index |-> 0,
     doubly_indir_index |-> 0,
     ptrs |-> [i \in PtrSlots |-> Garbage],
     idx  |-> [s \in SectorRef |-> GarbageBlock],
     free |-> DiskSectors]

\* inode_deallocate: the first loop releases the direct data sectors.  The
\* second loop's first block_read is handed indir_blk_ptr, the ADDRESS of
\* the pointer slot, as a sector number; a kernel address is far past the
\* end of fs_device and block_read panics.  A file that reaches the
\* doubly-indirect tier has used the singly-indirect one, so
\* inode_deallocate_doubly_indir_block is never reached.
inode_deallocate(g) ==
    LET direct_sectors   == bytes_to_sectors(g.data_length, "DIRECT")
        indirect_sectors == bytes_to_sectors(g.data_length, "INDIRECT")
        ndirect == IF direct_sectors < INDIRECT_BLOCK_IDX
                   THEN direct_sectors ELSE INDIRECT_BLOCK_IDX
    IN [released |-> {g.ptrs[i] : i \in 0..(ndirect - 1)},
        panic    |-> indirect_sectors > 0]

-----------------------------------------------------------------------------
(* Reference definitions the properties compare against.                   *)

\* The index blocks byte_to_sector reads for byte pos.
IndexPath(g, pos) ==
    IF pos < DIR_BLOCK_SIZE THEN {}
    ELSE IF pos < DIR_BLOCK_SIZE + INDIR_BLOCK_SIZE * NUM_INDIRECT_BLOCKS
    THEN {g.ptrs[((pos - DIR_BLOCK_SIZE) \div INDIR_BLOCK_SIZE) + NUM_DIRECT_BLOCKS]}
    ELSE LET p == pos - (DIR_BLOCK_SIZE + INDIR_BLOCK_SIZE * NUM_INDIRECT_BLOCKS)
             o == g.ptrs[DOUBLY_INDIRECT_BLOCK_IDX]
         IN  {o, g.idx[o][p \div INDIR_BLOCK_SIZE]}

\* First byte of each sector of the file.
SectorStarts(g) ==
    {k * BLOCK_SECTOR_SIZE : k \in 0..(bytes_to_sectors(g.data_length, "DIRECT") - 1)}

DataSectors(g)  == {byte_to_sector(g, p) : p \in SectorStarts(g)}
IndexSectors(g) == UNION {IndexPath(g, p) : p \in SectorStarts(g)}

=============================================================================
