------------------------------- MODULE Inode -------------------------------
(***************************************************************************)
(* Concurrent writers of one open, non-directory inode (inode.c,           *)
(* inode_write_at).  A writer reads data_length WITHOUT the inode lock to  *)
(* decide whether the write extends the file, then takes inode_lock and   *)
(* calls inode_grow with offset + size, releases the lock and copies the   *)
(* bytes sector by sector up to the current data_length; at the end it     *)
(* publishes read_length = data_length.  Readers (inode_read_at) return  *)
(* at once when the offset is not below read_length, and otherwise copy   *)
(* up to inode_length (), i.e. data_length.                               *)
(*                                                                         *)
(* inode_grow runs entirely under inode_lock, and the other writers only   *)
(* read data_length (which it sets last) and the pointers of bytes below   *)
(* data_length (which it never rewrites), so it is one atomic step here.   *)
(* Byte contents are not modelled (BufferCache models them); a write is    *)
(* observed through the number of bytes it reports.                        *)
(***************************************************************************)
EXTENDS InodeLayout

CONSTANTS
    Threads,   \* threads calling inode_write_at and inode_read_at on the inode
    Offsets,   \* offsets the threads use
    Sizes      \* sizes the threads use

ASSUME /\ Offsets \subseteq Nat
       /\ Sizes \subseteq Nat \ {0}

VARIABLES
    inode,     \* the in-memory inode, its index blocks on disk and the free map
    read_length,
    pc,        \* pc[t] \in {"idle", "grow", "copy", "read"}
    wreq,      \* wreq[t]: offset and size of t's current inode_write_at
    rreq       \* rreq[t]: offset and size of t's current inode_read_at

vars == <<inode, read_length, pc, wreq, rreq>>

WriteRequest == [offset : Offsets, size : Sizes]

NoWrite == [offset |-> 0, size |-> 1]

Init ==
    /\ inode = EmptyInode
    /\ read_length = 0
    /\ pc = [t \in Threads |-> "idle"]
    /\ wreq = [t \in Threads |-> NoWrite]
    /\ rreq = [t \in Threads |-> NoWrite]

\* inode_length (): the length of the inode's data.
inode_length(i) == i.data_length

\* Lines 285-296: deny_write_cnt is 0 for this inode; offset + size is
\* compared with inode_length () before inode_lock is taken.
WriteBegin(t) ==
    /\ pc[t] = "idle"
    /\ \E w \in WriteRequest :
          /\ wreq' = [wreq EXCEPT ![t] = w]
          /\ pc' = [pc EXCEPT ![t] =
                      IF w.offset + w.size > inode_length(inode)
                      THEN "grow" ELSE "copy"]
    /\ UNCHANGED <<inode, read_length, rreq>>

\* lock_acquire (&inode->inode_lock); inode_grow (inode, offset + size);
\* lock_release.
WriteGrow(t) ==
    /\ pc[t] = "grow"
    /\ inode' = inode_grow(inode, wreq[t].offset + wreq[t].size)
    /\ pc' = [pc EXCEPT ![t] = "copy"]
    /\ UNCHANGED <<read_length, wreq, rreq>>

\* The number of bytes the copy loop of lines 298-324 writes: it stops at
\* the first sector whose chunk, clamped to inode_length () - offset, is
\* not positive.
BytesWritten(t) ==
    LET w == wreq[t] IN
    IF w.offset >= inode.data_length THEN 0
    ELSE IF w.size < inode.data_length - w.offset THEN w.size
    ELSE inode.data_length - w.offset

\* The copy loop and read_length = inode_length () (line 326).
WriteCopy(t) ==
    /\ pc[t] = "copy"
    /\ read_length' = inode.data_length
    /\ pc' = [pc EXCEPT ![t] = "idle"]
    /\ wreq' = [wreq EXCEPT ![t] = NoWrite]
    /\ UNCHANGED <<inode, rreq>>

\* inode_read_at (lines 237-239): an offset not below read_length returns 0
\* without touching any state, so only a read that goes on is a step.
ReadBegin(t) ==
    /\ pc[t] = "idle"
    /\ \E r \in WriteRequest :
          /\ r.offset < read_length
          /\ rreq' = [rreq EXCEPT ![t] = r]
    /\ pc' = [pc EXCEPT ![t] = "read"]
    /\ UNCHANGED <<inode, read_length, wreq>>

\* The number of bytes the copy loop of lines 241-267 reads: chunks are
\* clamped to inode_length () - offset, not to read_length.
BytesRead(t) ==
    LET r == rreq[t] IN
    IF r.offset >= inode_length(inode) THEN 0
    ELSE IF r.size < inode_length(inode) - r.offset THEN r.size
    ELSE inode_length(inode) - r.offset

\* The copy loop of inode_read_at, with the length it sees at its end.
ReadCopy(t) ==
    /\ pc[t] = "read"
    /\ pc' = [pc EXCEPT ![t] = "idle"]
    /\ rreq' = [rreq EXCEPT ![t] = NoWrite]
    /\ UNCHANGED <<inode, read_length, wreq>>

Next == \E t \in Threads :
            WriteBegin(t) \/ WriteGrow(t) \/ WriteCopy(t) \/ ReadBegin(t) \/ ReadCopy(t)

Spec == Init /\ [][Next]_vars

-----------------------------------------------------------------------------
(* Properties.                                                             *)

TypeOK ==
    /\ inode.data_length \in 0..MAX_FILE_SIZE
    /\ inode.dir_index \in 0..NUM_INODE_BLOCK_PTRS
    /\ inode.indir_index \in 0..PTRS
    /\ inode.doubly_indir_index \in 0..PTRS
    /\ inode.ptrs \in [PtrSlots -> SectorRef]
    /\ inode.idx \in [SectorRef -> [BlockSlots -> SectorRef]]
    /\ inode.free \subseteq DiskSectors
    /\ read_length \in 0..MAX_FILE_SIZE
    /\ pc \in [Threads -> {"idle", "grow", "copy", "read"}]
    /\ wreq \in [Threads -> WriteRequest \cup {NoWrite}]
    /\ rreq \in [Threads -> WriteRequest \cup {NoWrite}]

\* Every sector of the file translates, through the pointer array and the
\* index blocks the growth wrote to disk, to its own allocated sector that
\* is not an index block: resumed growth (cursors carried between calls,
\* partial index blocks read back) never maps two file sectors to one disk
\* sector, to a free sector, or onto an index block.
BlockMapInjective ==
    /\ \A p, q \in SectorStarts(inode) :
          p # q => byte_to_sector(inode, p) # byte_to_sector(inode, q)
    /\ DataSectors(inode) \cap (inode.free \cup {Garbage}) = {}
    /\ DataSectors(inode) \cap IndexSectors(inode) = {}

\* The sectors taken from the free map are exactly the file's data sectors
\* and the index blocks that lead to them: growth allocates nothing that
\* inode_deallocate, which walks the tiers by data_length, would miss.
NoLeak ==
    DiskSectors \ inode.free = DataSectors(inode) \cup IndexSectors(inode)

\* A file never gets shorter: data_length only grows, although writers
\* compare against it before taking inode_lock.
LengthNeverShrinks ==
    [][inode'.data_length >= inode.data_length]_inode

\* A write that fits in MAX_FILE_SIZE writes all its bytes (the growth
\* before the copy loop extends the file to offset + size), when the free
\* map does not run out.
WriteCompletes ==
    [][\A t \in Threads :
          (pc[t] = "copy" /\ pc'[t] = "idle"
           /\ wreq[t].offset + wreq[t].size <= MAX_FILE_SIZE)
          => BytesWritten(t) = wreq[t].size]_vars

\* A read returns only published bytes: inode_read_at tests the offset
\* against read_length, which inode_write_at sets only after its copy loop,
\* so no byte a read returns lies at or past read_length, where a
\* concurrent extending writer has grown the file but not yet copied.
ReadWithinPublished ==
    [][\A t \in Threads :
          (pc[t] = "read" /\ pc'[t] = "idle")
          => rreq[t].offset + BytesRead(t) <= read_length]_vars

=============================================================================
