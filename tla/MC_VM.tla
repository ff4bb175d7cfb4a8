------------------------------- MODULE MC_VM -------------------------------
EXTENDS VM, TLC

CONSTANTS p1, p2, f1, f2

MCProcs  == {p1, p2}
MCFrames == {f1, f2}

\* The two top stack pages, 0xbffff000 and 0xbfffe000, fall in one
\* frame_table bucket (frame_hash gives 3 for both).  A mapping of 2 pages
\* at 0xbfffe000 overlaps the stack page above it.
MCPages == {786431, 786430}

\* An empty file, a one-page and a two-page file.
MCMapLens == {0, 1, 2}

MCSymmetry == Permutations(MCProcs) \cup Permutations(MCFrames)
====
