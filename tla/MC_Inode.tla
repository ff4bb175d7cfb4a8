------------------------------ MODULE MC_Inode ------------------------------
(* Instantiates Inode for TLC with a scaled-down layout: 2-byte sectors,   *)
(* 2 direct pointers, 1 indirect block and 2 pointers per index block, so *)
(* a 16-byte file uses every tier: bytes 0..3 are direct, 4..7 go through *)
(* the indirect block and 8..15 through the doubly-indirect block.  The   *)
(* free map has the 12 sectors a full file needs (8 data, 4 index).       *)
EXTENDS Inode

CONSTANTS t1, t2

MCThreads1 == {t1}
MCThreads2 == {t1, t2}
MCOffsets  == 0..15

\* Offsets whose writes stay within MAX_FILE_SIZE (16) for every size.
MCOffsetsInRange == 0..13
MCSizes    == {1, 2, 3}

=============================================================================
