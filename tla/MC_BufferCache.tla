--------------------------- MODULE MC_BufferCache ---------------------------
(* Instantiates BufferCache for TLC: three threads, three sectors and a    *)
(* cache of two buffers, so that misses, evictions of pinned, accessed and *)
(* dirty buffers, and the write-behind flush all happen.                   *)
EXTENDS BufferCache

CONSTANTS t1, t2, t3

MCThreads == {t1, t2, t3}

=============================================================================
