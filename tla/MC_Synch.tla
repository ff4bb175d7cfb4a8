--------------------------- MODULE MC_Synch ---------------------------
EXTENDS Synch

CONSTANTS t1, t2, t3

MCThreads == {t1, t2, t3}

\* Three priorities: a low holder, a middle and a high waiter.
MCPri == [t \in MCThreads |-> CASE t = t1 -> 1 [] t = t2 -> 2 [] t = t3 -> 3]

====
