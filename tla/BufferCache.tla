---------------------------- MODULE BufferCache ----------------------------
(***************************************************************************)
(* The buffer cache of project4/src/filesys/cache.c together with the      *)
(* cache accesses of inode_read_at and inode_write_at (inode.c), which     *)
(* are the only callers that fetch data sectors through the cache.        *)
(*                                                                         *)
(* The cache is the list `buffer_cache' of at most MAX_CACHE_SIZE          *)
(* buffers, guarded by `buffer_cache_lock'.  A thread takes the lock,      *)
(* looks the sector up, on a miss appends a buffer or evicts one with a    *)
(* clock scan, and releases the lock.  It then copies bytes into or out    *)
(* of the buffer WITHOUT the lock, and unpins the buffer (open_count--)    *)
(* and sets its accessed/dirty bits, also without the lock.  A background  *)
(* write-behind thread periodically takes the lock and writes every dirty  *)
(* buffer back, clearing its dirty bit after the (blocking) disk write.    *)
(* A read-ahead thread runs once at boot; as built it only takes and      *)
(* releases the lock.                                                      *)
(*                                                                         *)
(* Data is abstracted to a version number: the n-th write stores n.  The   *)
(* ghost variable `latest' records the value of the last copy into each    *)
(* sector, the value a later read must see.                                *)
(***************************************************************************)
EXTENDS Naturals, Sequences, FiniteSets

CONSTANTS
    Threads,        \* threads calling inode_read_at / inode_write_at
    NumSectors,     \* sectors 1..NumSectors of fs_device
    MAX_CACHE_SIZE, \* cache.c: capacity of the buffer list
    MaxWrites,      \* bound on the number of writes (bounds the versions)
    WriteBehind,    \* TRUE: the cache_write_behind thread runs
    WB,             \* model value: the write-behind thread
    NoHolder        \* model value: buffer_cache_lock is free

ASSUME /\ NumSectors \in Nat \ {0}
       /\ MAX_CACHE_SIZE \in Nat \ {0}
       /\ MaxWrites \in Nat
       /\ WriteBehind \in BOOLEAN
       /\ WB \notin Threads /\ NoHolder \notin Threads \cup {WB}

Sectors == 1..NumSectors
Values  == 0..MaxWrites

VARIABLES
    buffer_cache, \* sequence of buffers [sector, is_dirty, is_accessed, open_count, block]
    lock,         \* holder of buffer_cache_lock
    disk,         \* disk[s]: contents of sector s on fs_device
    pc,           \* pc[t]: where thread t is in its read or write of one sector
    req,          \* req[t]: the sector t accesses and whether it writes it
    buf,          \* buf[t]: index of the buffer t was handed
    hand,         \* hand[t]: position of t's eviction scan in the list
    wb_pc,        \* where the write-behind thread is
    wb_idx,       \* list position of write_cache_to_disk's loop
    ra_pc,        \* where the cache_read_ahead thread is
    latest,       \* ghost: value of the last copy into each sector
    nwrites       \* ghost: number of writes so far

vars == <<buffer_cache, lock, disk, pc, req, buf, hand, wb_pc, wb_idx,
          ra_pc, latest, nwrites>>

Buffer == [sector : Sectors, is_dirty : BOOLEAN, is_accessed : BOOLEAN,
           open_count : Nat, block : Values]

Request == [sector : Sectors, write : BOOLEAN]

\* The request of a thread that is not in the cache (an arbitrary fixed one).
NoRequest == [sector |-> 1, write |-> FALSE]

\* Mutant: a lookup loop that stops before the last buffer of the list.
IndexOfSkipLast(s) ==
    IF \E i \in 1..(Len(buffer_cache) - 1) : buffer_cache[i].sector = s
    THEN CHOOSE i \in 1..(Len(buffer_cache) - 1) : buffer_cache[i].sector = s
    ELSE 0

\* Index of the buffer that holds sector s, 0 if none (the lookup loop).
IndexOf(s) ==
    IF \E i \in 1..Len(buffer_cache) : buffer_cache[i].sector = s
    THEN CHOOSE i \in 1..Len(buffer_cache) : buffer_cache[i].sector = s
    ELSE 0

\* Writes that have started but not yet copied their version in.
PendingWrites ==
    Cardinality({t \in Threads : req[t].write /\ pc[t] \in {"lookup", "evict", "copy"}})

\* The next list position of a scan that wraps back to list_begin.
NextPos(i) == (i % Len(buffer_cache)) + 1

\* A freshly filled buffer: put_buffer_in_cache after block_read.
Filled(s, dirty, count, d) ==
    [sector |-> s, is_dirty |-> dirty, is_accessed |-> TRUE,
     open_count |-> count, block |-> d[s]]

Init ==
    /\ buffer_cache = << >>
    /\ lock = NoHolder
    /\ disk = [s \in Sectors |-> 0]
    /\ pc = [t \in Threads |-> "idle"]
    /\ req = [t \in Threads |-> NoRequest]
    /\ buf = [t \in Threads |-> 0]
    /\ hand = [t \in Threads |-> 0]
    /\ wb_pc = "sleep"
    /\ wb_idx = 0
    /\ ra_pc = "start"
    /\ latest = [s \in Sectors |-> 0]
    /\ nwrites = 0

-----------------------------------------------------------------------------
(* Thread steps.                                                           *)

\* inode_read_at / inode_write_at call get_buffer_from_cache, which blocks
\* on lock_acquire (&buffer_cache_lock).  A write is only started while
\* the version bound allows it.
AcquireCache(t) ==
    /\ pc[t] = "idle"
    /\ lock = NoHolder
    /\ \E s \in Sectors, w \in BOOLEAN :
          /\ w => nwrites + PendingWrites < MaxWrites
          /\ req' = [req EXCEPT ![t] = [sector |-> s, write |-> w]]
    /\ lock' = t
    /\ pc' = [pc EXCEPT ![t] = "lookup"]
    /\ UNCHANGED <<buffer_cache, disk, buf, hand, wb_pc, wb_idx, ra_pc, latest, nwrites>>

\* Cache hit: pin the buffer, mark it accessed, OR in the caller's dirty
\* intent, release the lock.
get_buffer_from_cache(t) ==
    LET i == IndexOf(req[t].sector) IN
    /\ pc[t] = "lookup"
    /\ i # 0
    /\ buffer_cache' = [buffer_cache EXCEPT
                          ![i].open_count = @ + 1,
                          ![i].is_accessed = TRUE,
                          ![i].is_dirty = @ \/ req[t].write]
    /\ lock' = NoHolder
    /\ buf' = [buf EXCEPT ![t] = i]
    /\ pc' = [pc EXCEPT ![t] = "copy"]
    /\ UNCHANGED <<disk, req, hand, wb_pc, wb_idx, ra_pc, latest, nwrites>>

\* Cache miss with room in the list: append a buffer, read the sector
\* into it, release the lock.
put_buffer_in_cache(t) ==
    /\ pc[t] = "lookup"
    /\ IndexOf(req[t].sector) = 0
    /\ Len(buffer_cache) < MAX_CACHE_SIZE
    /\ buffer_cache' = Append(buffer_cache,
                              Filled(req[t].sector, req[t].write, 1, disk))
    /\ lock' = NoHolder
    /\ buf' = [buf EXCEPT ![t] = Len(buffer_cache) + 1]
    /\ pc' = [pc EXCEPT ![t] = "copy"]
    /\ UNCHANGED <<disk, req, hand, wb_pc, wb_idx, ra_pc, latest, nwrites>>

\* Cache miss with a full list: start buffer_evict_from_cache at list_begin.
StartEvict(t) ==
    /\ pc[t] = "lookup"
    /\ IndexOf(req[t].sector) = 0
    /\ Len(buffer_cache) = MAX_CACHE_SIZE
    /\ hand' = [hand EXCEPT ![t] = 1]
    /\ pc' = [pc EXCEPT ![t] = "evict"]
    /\ UNCHANGED <<buffer_cache, lock, disk, req, buf, wb_pc, wb_idx, ra_pc, latest, nwrites>>

\* Mutant: the scan takes a victim without looking at open_count.
EvictIgnoringPins(t) ==
    LET i == hand[t]
        b == buffer_cache[i]
    IN
    /\ pc[t] = "evict"
    /\ \/ /\ b.is_accessed
          /\ buffer_cache' = [buffer_cache EXCEPT ![i].is_accessed = FALSE]
          /\ hand' = [hand EXCEPT ![t] = NextPos(i)]
          /\ UNCHANGED <<lock, disk, buf, pc>>
       \/ /\ ~b.is_accessed
          /\ disk' = IF b.is_dirty THEN [disk EXCEPT ![b.sector] = b.block]
                                   ELSE disk
          /\ buffer_cache' = [buffer_cache EXCEPT
                 ![i] = Filled(req[t].sector, req[t].write, 1, disk')]
          /\ lock' = NoHolder
          /\ buf' = [buf EXCEPT ![t] = i]
          /\ pc' = [pc EXCEPT ![t] = "copy"]
          /\ hand' = [hand EXCEPT ![t] = 0]
    /\ UNCHANGED <<req, wb_pc, wb_idx, ra_pc, latest, nwrites>>

\* Mutant: the second-chance branch skips an accessed buffer without
\* clearing its accessed bit.
EvictNoClear(t) ==
    LET i == hand[t]
        b == buffer_cache[i]
    IN
    /\ pc[t] = "evict"
    /\ \/ /\ b.open_count > 0 \/ b.is_accessed
          /\ hand' = [hand EXCEPT ![t] = NextPos(i)]
          /\ UNCHANGED <<buffer_cache, lock, disk, buf, pc>>
       \/ /\ b.open_count = 0
          /\ ~b.is_accessed
          /\ disk' = IF b.is_dirty THEN [disk EXCEPT ![b.sector] = b.block]
                                   ELSE disk
          /\ buffer_cache' = [buffer_cache EXCEPT
                 ![i] = Filled(req[t].sector, req[t].write, 1, disk')]
          /\ lock' = NoHolder
          /\ buf' = [buf EXCEPT ![t] = i]
          /\ pc' = [pc EXCEPT ![t] = "copy"]
          /\ hand' = [hand EXCEPT ![t] = 0]
    /\ UNCHANGED <<req, wb_pc, wb_idx, ra_pc, latest, nwrites>>

\* One iteration of the clock scan, still holding the lock.  A pinned
\* buffer is skipped, an accessed one loses its accessed bit; the first
\* unpinned, unaccessed buffer is written back if dirty and refilled with
\* the requested sector by put_buffer_in_cache.
buffer_evict_from_cache(t) ==
    LET i == hand[t]
        b == buffer_cache[i]
    IN
    /\ pc[t] = "evict"
    /\ \/ /\ b.open_count > 0
          /\ hand' = [hand EXCEPT ![t] = NextPos(i)]
          /\ UNCHANGED <<buffer_cache, lock, disk, buf, pc>>
       \/ /\ b.open_count = 0
          /\ b.is_accessed
          /\ buffer_cache' = [buffer_cache EXCEPT ![i].is_accessed = FALSE]
          /\ hand' = [hand EXCEPT ![t] = NextPos(i)]
          /\ UNCHANGED <<lock, disk, buf, pc>>
       \/ /\ b.open_count = 0
          /\ ~b.is_accessed
          /\ disk' = IF b.is_dirty THEN [disk EXCEPT ![b.sector] = b.block]
                                   ELSE disk
          /\ buffer_cache' = [buffer_cache EXCEPT
                 ![i] = Filled(req[t].sector, req[t].write, 1, disk')]
          /\ lock' = NoHolder
          /\ buf' = [buf EXCEPT ![t] = i]
          /\ pc' = [pc EXCEPT ![t] = "copy"]
          /\ hand' = [hand EXCEPT ![t] = 0]
    /\ UNCHANGED <<req, wb_pc, wb_idx, ra_pc, latest, nwrites>>

\* inode_read_at: memcpy out of the buffer, then is_accessed = true and
\* open_count-- without the lock.
ReadRelease(t) ==
    LET i == buf[t] IN
    /\ pc[t] = "copy"
    /\ ~req[t].write
    /\ buffer_cache' = [buffer_cache EXCEPT ![i].is_accessed = TRUE,
                                            ![i].open_count = @ - 1]
    /\ pc' = [pc EXCEPT ![t] = "idle"]
    /\ req' = [req EXCEPT ![t] = NoRequest]
    /\ buf' = [buf EXCEPT ![t] = 0]
    /\ UNCHANGED <<lock, disk, hand, wb_pc, wb_idx, ra_pc, latest, nwrites>>

\* inode_write_at: memcpy into the buffer, without the lock.
WriteCopy(t) ==
    LET i == buf[t] IN
    /\ pc[t] = "copy"
    /\ req[t].write
    /\ buffer_cache' = [buffer_cache EXCEPT ![i].block = nwrites + 1]
    /\ latest' = [latest EXCEPT ![req[t].sector] = nwrites + 1]
    /\ nwrites' = nwrites + 1
    /\ pc' = [pc EXCEPT ![t] = "unpin"]
    /\ UNCHANGED <<lock, disk, req, buf, hand, wb_pc, wb_idx, ra_pc>>

\* inode_write_at: buf->open_count-- without the lock.
WriteUnpin(t) ==
    /\ pc[t] = "unpin"
    /\ buffer_cache' = [buffer_cache EXCEPT ![buf[t]].open_count = @ - 1]
    /\ pc' = [pc EXCEPT ![t] = "mark"]
    /\ UNCHANGED <<lock, disk, req, buf, hand, wb_pc, wb_idx, ra_pc, latest, nwrites>>

\* Mutant: the writer releases its pin a second time.
WriteMarkDoubleUnpin(t) ==
    /\ pc[t] = "mark"
    /\ buffer_cache' = [buffer_cache EXCEPT ![buf[t]].is_accessed = TRUE,
                                            ![buf[t]].is_dirty = TRUE,
                                            ![buf[t]].open_count = @ - 1]
    /\ pc' = [pc EXCEPT ![t] = "idle"]
    /\ req' = [req EXCEPT ![t] = NoRequest]
    /\ buf' = [buf EXCEPT ![t] = 0]
    /\ UNCHANGED <<lock, disk, hand, wb_pc, wb_idx, ra_pc, latest, nwrites>>

\* inode_write_at: is_accessed = true; is_dirty = true, after the unpin,
\* on whatever sector the buffer holds by now.
WriteMark(t) ==
    /\ pc[t] = "mark"
    /\ buffer_cache' = [buffer_cache EXCEPT ![buf[t]].is_accessed = TRUE,
                                            ![buf[t]].is_dirty = TRUE]
    /\ pc' = [pc EXCEPT ![t] = "idle"]
    /\ req' = [req EXCEPT ![t] = NoRequest]
    /\ buf' = [buf EXCEPT ![t] = 0]
    /\ UNCHANGED <<lock, disk, hand, wb_pc, wb_idx, ra_pc, latest, nwrites>>

-----------------------------------------------------------------------------
(* The write-behind thread: buffer_cache_write_behind calling              *)
(* write_cache_to_disk (false) after each timer_sleep.                     *)

WBAcquire ==
    /\ WriteBehind
    /\ wb_pc = "sleep"
    /\ lock = NoHolder
    /\ lock' = WB
    /\ wb_idx' = 1
    /\ wb_pc' = "scan"
    /\ UNCHANGED <<ra_pc, buffer_cache, disk, pc, req, buf, hand, latest, nwrites>>

\* One loop iteration: a dirty buffer is handed to block_write (the disk
\* gets the block as it is now); the dirty bit is cleared in a later step,
\* after the blocking write returns.  At list_end the lock is released.
WBScan ==
    /\ wb_pc = "scan"
    /\ \/ /\ wb_idx > Len(buffer_cache)
          /\ lock' = NoHolder
          /\ wb_pc' = "sleep"
          /\ wb_idx' = 0
          /\ UNCHANGED disk
       \/ /\ wb_idx <= Len(buffer_cache)
          /\ buffer_cache[wb_idx].is_dirty
          /\ disk' = [disk EXCEPT ![buffer_cache[wb_idx].sector] =
                                    buffer_cache[wb_idx].block]
          /\ wb_pc' = "clear"
          /\ UNCHANGED <<lock, wb_idx>>
       \/ /\ wb_idx <= Len(buffer_cache)
          /\ ~buffer_cache[wb_idx].is_dirty
          /\ wb_idx' = wb_idx + 1
          /\ UNCHANGED <<lock, disk, wb_pc>>
    /\ UNCHANGED <<ra_pc, buffer_cache, pc, req, buf, hand, latest, nwrites>>

\* buf->is_dirty = false once block_write has returned.
WBClear ==
    /\ wb_pc = "clear"
    /\ buffer_cache' = [buffer_cache EXCEPT ![wb_idx].is_dirty = FALSE]
    /\ wb_idx' = wb_idx + 1
    /\ wb_pc' = "scan"
    /\ UNCHANGED <<ra_pc, lock, disk, pc, req, buf, hand, latest, nwrites>>

-----------------------------------------------------------------------------
(* The read-ahead thread, created by buffer_cache_init.                    *)

\* cache.c's own copy of the static read_ahead_sector of cache.h.  Every
\* file that includes cache.h gets a copy; inode_read_at sets inode.c's
\* copy (inode.c 258), and nothing ever writes cache.c's, so it stays 0.
read_ahead_sector == 0

\* buffer_cache_read_ahead runs once: it takes buffer_cache_lock, reads
\* read_ahead_sector, which is 0, skips the lookup and the fetch, and
\* releases the lock.  Nothing can run between the acquire and the release
\* that the lock would not also exclude, so they are one step.
buffer_cache_read_ahead ==
    /\ ra_pc = "start"
    /\ lock = NoHolder
    /\ read_ahead_sector = 0
    /\ ra_pc' = "done"
    /\ UNCHANGED <<buffer_cache, lock, disk, pc, req, buf, hand, wb_pc, wb_idx,
                   latest, nwrites>>

-----------------------------------------------------------------------------
ThreadStep(t) ==
    \/ AcquireCache(t)
    \/ get_buffer_from_cache(t)
    \/ put_buffer_in_cache(t)
    \/ StartEvict(t)
    \/ buffer_evict_from_cache(t)
    \/ ReadRelease(t)
    \/ WriteCopy(t)
    \/ WriteUnpin(t)
    \/ WriteMark(t)

WBStep == WBAcquire \/ WBScan \/ WBClear

Next == (\E t \in Threads : ThreadStep(t)) \/ WBStep \/ buffer_cache_read_ahead

\* Every thread is scheduled and the timer wakes the write-behind thread:
\* no step that stays enabled is postponed forever.  Starting a new access
\* (AcquireCache) is not required of a thread.
Fairness ==
    /\ \A t \in Threads :
          WF_vars(ThreadStep(t) /\ pc[t] # "idle")
    /\ WF_vars(WBStep)

Spec == Init /\ [][Next]_vars /\ Fairness

-----------------------------------------------------------------------------
(* Properties.                                                             *)

TypeOK ==
    /\ buffer_cache \in Seq(Buffer)
    /\ Len(buffer_cache) <= MAX_CACHE_SIZE
    /\ lock \in Threads \cup {WB, NoHolder}
    /\ disk \in [Sectors -> Values]
    /\ pc \in [Threads -> {"idle", "lookup", "evict", "copy", "unpin", "mark"}]
    /\ req \in [Threads -> Request]
    /\ buf \in [Threads -> 0..MAX_CACHE_SIZE]
    /\ hand \in [Threads -> 0..MAX_CACHE_SIZE]
    /\ wb_pc \in {"sleep", "scan", "clear"}
    /\ ra_pc \in {"start", "done"}
    /\ latest \in [Sectors -> Values]
    /\ nwrites \in 0..MaxWrites

\* Threads between the return of get_buffer_from_cache and their unpin.
Pinning(t) == pc[t] \in {"copy", "unpin"}

\* A buffer a thread still holds pinned (between the return of
\* get_buffer_from_cache and its open_count--) keeps holding the sector the
\* thread asked for: the clock scan never refills it under the thread's
\* unlocked memcpy, however the other threads' lookups, evictions and
\* unlocked releases interleave.
PinnedBufferHoldsSector ==
    \A t \in Threads :
        Pinning(t) => buffer_cache[buf[t]].sector = req[t].sector

\* No sector is held by two buffers: the lookup, append and eviction of
\* get_buffer_from_cache are one critical section of buffer_cache_lock, so
\* two threads missing on the same sector cannot both install it.
OneBufferPerSector ==
    \A i, j \in 1..Len(buffer_cache) :
        i # j => buffer_cache[i].sector # buffer_cache[j].sector

\* What a read of sector s returns: the cached block if s is cached,
\* the disk sector otherwise.
Content(s) ==
    IF IndexOf(s) # 0 THEN buffer_cache[IndexOf(s)].block ELSE disk[s]

\* No write is lost: every sector reads back the value of the last memcpy
\* into it, through evictions that reuse buffers, write-backs of dirty
\* buffers and the write-behind flush that clears dirty bits.
NoLostWrite ==
    \A s \in Sectors : Content(s) = latest[s]

\* A thread that missed on a full cache gets a buffer: the clock scan of
\* buffer_evict_from_cache, which spins holding the lock, terminates once
\* the pinned buffers' holders release them.
FetchCompletes ==
    \A t \in Threads : pc[t] = "evict" ~> pc[t] = "copy"

=============================================================================
