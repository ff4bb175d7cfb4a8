---------------------------- MODULE AbstractLock ----------------------------
(***************************************************************************)
(* What a Pintos lock promises its callers (synch.c, comment above         *)
(* lock_init): at most one thread holds it; a thread takes it only when    *)
(* nobody holds it, and only the holder gives it back.  Acquisition and    *)
(* release are atomic here; Synch implements them in several steps.        *)
(***************************************************************************)
CONSTANTS Threads, Locks, NoThread

VARIABLE owner   \* owner[l]: the thread holding lock l, or NoThread

Init == owner = [l \in Locks |-> NoThread]

Acquire(t, l) ==
    /\ owner[l] = NoThread
    /\ owner' = [owner EXCEPT ![l] = t]

Release(t, l) ==
    /\ owner[l] = t
    /\ owner' = [owner EXCEPT ![l] = NoThread]

Next == \E t \in Threads, l \in Locks : Acquire(t, l) \/ Release(t, l)

Spec == Init /\ [][Next]_owner
====
