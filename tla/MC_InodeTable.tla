--------------------------- MODULE MC_InodeTable ---------------------------
EXTENDS InodeTable

CONSTANTS t1, t2, n1, n2

MCThreads == {t1, t2}
MCNames   == {n1, n2}
MCSlots   == 1..2

\* The sizes the table's run creates with: no data sector, and the full
\* direct tier (two data sectors).
MCTableLengths == {0, 4}

\* A size that needs the singly-indirect tier.
MCIndirectLengths == {5}
====
