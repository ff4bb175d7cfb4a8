-------------------------------- MODULE Synch --------------------------------
(***************************************************************************)
(* Locks of project1 (threads/synch.c): a lock is a semaphore of value 1   *)
(* plus a holder, and a thread that blocks on a held lock donates its      *)
(* priority to the holder (donate_priority, add_to_donor_list,             *)
(* remove_from_donor_list, update_priority).                               *)
(*                                                                         *)
(* One CPU.  A step of thread t is one stretch of its code that runs       *)
(* without a preemption point: the body of sema_down, sema_try_down and    *)
(* sema_up runs with interrupts off and is one step; lock_acquire and      *)
(* lock_release run with interrupts on, so each of their statements that   *)
(* touches shared state is a step of its own and a timer interrupt may     *)
(* switch threads between them.                                            *)
(*                                                                         *)
(* The scheduler (thread.c, not in this repository) is the priority        *)
(* scheduler the code is written against: thread_block and thread_yield    *)
(* run a ready thread of highest priority; a timer tick may yield to a     *)
(* ready thread of no lower priority; a sleeping thread woken by an        *)
(* interrupt preempts a running thread of lower priority.                  *)
(*                                                                         *)
(* The threads run a client that acquires locks in increasing order (so    *)
(* the clients themselves cannot deadlock), releases them in any order,    *)
(* sleeps, and uses one condition variable under lock CondLock: it waits   *)
(* on it holding only that lock, and only while some other thread is not   *)
(* waiting, and signals or broadcasts it holding the lock.                 *)
(***************************************************************************)
EXTENDS Integers, SequencesExt

CONSTANTS
    Threads,        \* the kernel threads
    NumLocks,       \* locks 1..NumLocks
    Pri,            \* Pri[t]: original_priority of t
    NESTING_DEPTH,  \* synch.c line 35
    NoThread        \* model value: lock->holder == NULL

ASSUME /\ NumLocks \in Nat \ {0}
       /\ Pri \in [Threads -> Nat]
       /\ NESTING_DEPTH \in Nat
       /\ NoThread \notin Threads

Locks  == 1..NumLocks
NoLock == 0            \* waiting_for_lock == NULL
CondLock == 1          \* the lock the condition variable is used with

VARIABLES
    holder,            \* holder[l]: lock->holder
    value,             \* value[l]: lock->semaphore.value
    waiters,           \* waiters[l]: lock->semaphore.waiters, front first
    priority,          \* priority[t]: t->priority
    waiting_for_lock,  \* waiting_for_lock[t]
    donor_list,        \* donor_list[t]: threads linked by donor_elem, front first
    status,            \* status[t]: "running", "ready", "blocked", "sleeping"
    pc,                \* where t is in lock_acquire / lock_release
    arg,               \* arg[t]: the lock t is acquiring or releasing
    panicked,          \* the kernel has faulted (NULL dereference, list corruption)
    cond_waiters,      \* cond->waiters: the threads whose semaphore_elem is linked
    cw_value,          \* cw_value[t]: t's waiter.semaphore.value in cond_wait
    in_wait            \* in_wait[t]: t is inside cond_wait

cond_vars == <<cond_waiters, cw_value, in_wait>>

vars == <<holder, value, waiters, priority, waiting_for_lock, donor_list,
          status, pc, arg, panicked, cond_waiters, cw_value, in_wait>>

\* cond_init: the condition variable starts with no waiters.
cond_init == {}

Init ==
    /\ holder = [l \in Locks |-> NoThread]
    /\ value = [l \in Locks |-> 1]
    /\ waiters = [l \in Locks |-> << >>]
    /\ priority = Pri
    /\ waiting_for_lock = [t \in Threads |-> NoLock]
    /\ donor_list = [t \in Threads |-> << >>]
    /\ \E t0 \in Threads :
          /\ \A u \in Threads : Pri[u] <= Pri[t0]
          /\ status = [t \in Threads |-> IF t = t0 THEN "running" ELSE "ready"]
    /\ pc = [t \in Threads |-> "idle"]
    /\ arg = [t \in Threads |-> NoLock]
    /\ panicked = FALSE
    /\ cond_waiters = cond_init
    /\ cw_value = [t \in Threads |-> 0]
    /\ in_wait = [t \in Threads |-> FALSE]

-----------------------------------------------------------------------------
(* Lists and the scheduler.                                                *)

\* list_insert_ordered (list, t, compare_priority): t goes before the first
\* element of lower priority, after the ones of equal priority.
InsertOrdered(s, t, p) ==
    LET i == SelectInSeq(s, LAMBDA e : p[t] > p[e])
    IN  IF i = 0 THEN Append(s, t) ELSE InsertAt(s, i, t)

\* Ready threads of highest priority under priority function p.
TopReady(st, p) ==
    {u \in Threads : st[u] = "ready" /\ \A v \in Threads : st[v] = "ready" => p[v] <= p[u]}

\* schedule (): the status functions after the running thread has left the
\* CPU (st already records where it went): a top ready thread runs, or the
\* idle thread if none is ready.
Switch(st, p) ==
    IF TopReady(st, p) = {} THEN {st}
    ELSE {[st EXCEPT ![u] = "running"] : u \in TopReady(st, p)}

\* t is thread_current () and may take a step.
Running(t) == ~panicked /\ status[t] = "running"

\* donate_priority, from the blocking thread curr along waiting_for_lock
\* and lock->holder, at most NESTING_DEPTH locks deep.  A lock whose holder
\* is NULL makes curr NULL, and curr->waiting_for_lock faults.
RECURSIVE Donate(_, _, _, _)
Donate(p, curr, lock, depth) ==
    IF lock = NoLock \/ depth >= NESTING_DEPTH THEN [p |-> p, fault |-> FALSE]
    ELSE LET h == holder[lock] IN
         IF h = NoThread THEN [p |-> p, fault |-> TRUE]
         ELSE LET q == IF p[h] < p[curr] THEN [p EXCEPT ![h] = p[curr]] ELSE p
              IN  Donate(q, h, waiting_for_lock[h], depth + 1)

\* update_priority: the original priority, raised to the front donor's.
update_priority(t, dl) ==
    IF dl = << >> \/ priority[Head(dl)] <= Pri[t] THEN Pri[t]
    ELSE priority[Head(dl)]

\* remove_from_donor_list: the donors of t that wait for lock l leave.
remove_from_donor_list(t, l) ==
    SelectSeq(donor_list[t], LAMBDA d : waiting_for_lock[d] # l)

\* lock_held_by_current_thread (l), for thread_current () = t.
lock_held_by_current_thread(t, l) == holder[l] = t

\* sema_try_down on lock l's semaphore when it succeeds: value > 0, value--.
sema_try_down(l) ==
    /\ value[l] > 0
    /\ value' = [value EXCEPT ![l] = @ - 1]

\* t's donor_elem is linked into some donor list.
InSomeDonorList(t) == \E u \in Threads : Contains(donor_list[u], t)

-----------------------------------------------------------------------------
(* lock_acquire.                                                           *)

\* lock_acquire (l), l above every lock t holds, or cond_wait's lock_acquire
\* of CondLock after its sema_down; add_to_donor_list reads lock->holder
\* and, if set, records waiting_for_lock.
lock_acquire(t) ==
    /\ Running(t)
    /\ \E l \in Locks :
          /\ \/ pc[t] = "idle" /\ \A k \in Locks : holder[k] = t => k < l
             \/ pc[t] = "cw_acquire" /\ l = CondLock
          /\ arg' = [arg EXCEPT ![t] = l]
          /\ IF holder[l] # NoThread
             THEN /\ waiting_for_lock' = [waiting_for_lock EXCEPT ![t] = l]
                  /\ pc' = [pc EXCEPT ![t] = "add_insert"]
             ELSE /\ pc' = [pc EXCEPT ![t] = "sema_down"]
                  /\ UNCHANGED waiting_for_lock
    /\ UNCHANGED <<holder, value, waiters, priority, donor_list, status, panicked>>
    /\ UNCHANGED cond_vars

\* add_to_donor_list: list_insert_ordered into lock->holder->donor_list,
\* lock->holder read again.  A NULL holder faults; a donor_elem still
\* linked into another list corrupts both.
add_to_donor_list(t) ==
    LET h == holder[arg[t]] IN
    /\ Running(t)
    /\ pc[t] = "add_insert"
    /\ IF h = NoThread \/ InSomeDonorList(t)
       THEN /\ panicked' = TRUE
            /\ UNCHANGED donor_list
       ELSE /\ donor_list' = [donor_list EXCEPT ![h] = InsertOrdered(@, t, priority)]
            /\ UNCHANGED panicked
    /\ pc' = [pc EXCEPT ![t] = "sema_down"]
    /\ UNCHANGED <<holder, value, waiters, priority, waiting_for_lock, status, arg>>
    /\ UNCHANGED cond_vars
\* Mutant: the decrement without the wait for a positive value.
SemaDownNoCheck(t) ==
    LET l == arg[t] IN
    /\ Running(t)
    /\ pc[t] = "sema_down"
    /\ value' = [value EXCEPT ![l] = @ - 1]
    /\ pc' = [pc EXCEPT ![t] = "set_holder"]
    /\ UNCHANGED <<holder, waiters, priority, waiting_for_lock, donor_list,
                   status, arg, panicked>>
    /\ UNCHANGED cond_vars

\* One pass of sema_down's loop: value 0: donate_priority, insert into the
\* waiters by priority, thread_block; else value--.
sema_down(t) ==
    LET l == arg[t] IN
    /\ Running(t)
    /\ pc[t] = "sema_down"
    /\ \/ /\ value[l] = 0
          /\ \E d \in {Donate(priority, t, waiting_for_lock[t], 0)} :
                IF d.fault
                THEN /\ panicked' = TRUE
                     /\ UNCHANGED <<priority, waiters, status>>
                ELSE /\ priority' = d.p
                     /\ waiters' = [waiters EXCEPT ![l] = InsertOrdered(@, t, d.p)]
                     /\ status' \in Switch([status EXCEPT ![t] = "blocked"], d.p)
                     /\ UNCHANGED panicked
          /\ UNCHANGED <<value, pc>>
       \/ /\ value[l] > 0
          /\ value' = [value EXCEPT ![l] = @ - 1]
          /\ pc' = [pc EXCEPT ![t] = "set_holder"]
          /\ UNCHANGED <<priority, waiters, status, panicked>>
    /\ UNCHANGED <<holder, waiting_for_lock, donor_list, arg>>
    /\ UNCHANGED cond_vars

\* lock_acquire after sema_down, and lock_try_acquire after a successful
\* sema_try_down: lock->holder = thread_current (); waiting_for_lock = NULL.
set_holder(t) ==
    /\ Running(t)
    /\ pc[t] = "set_holder"
    /\ holder' = [holder EXCEPT ![arg[t]] = t]
    /\ waiting_for_lock' = [waiting_for_lock EXCEPT ![t] = NoLock]
    /\ pc' = [pc EXCEPT ![t] = "idle"]
    /\ in_wait' = [in_wait EXCEPT ![t] = FALSE]
    /\ UNCHANGED <<value, waiters, priority, donor_list, status, arg, panicked,
                   cond_waiters, cw_value>>
\* Mutant: sema_try_down reports success without value--.
TryDownNoDecrement(t) ==
    /\ Running(t)
    /\ pc[t] = "idle"
    /\ \E l \in Locks :
          /\ \A k \in Locks : holder[k] = t => k < l
          /\ value[l] > 0
          /\ arg' = [arg EXCEPT ![t] = l]
          /\ pc' = [pc EXCEPT ![t] = "set_holder"]
    /\ UNCHANGED <<holder, value, waiters, priority, waiting_for_lock, donor_list, status, panicked>>
    /\ UNCHANGED cond_vars

\* lock_try_acquire (l) when sema_try_down succeeds; a failing one changes
\* nothing.
lock_try_acquire(t) ==
    /\ Running(t)
    /\ pc[t] = "idle"
    /\ \E l \in Locks :
          /\ \A k \in Locks : holder[k] = t => k < l
          /\ sema_try_down(l)
          /\ arg' = [arg EXCEPT ![t] = l]
          /\ pc' = [pc EXCEPT ![t] = "set_holder"]
    /\ UNCHANGED <<holder, waiters, priority, waiting_for_lock, donor_list, status, panicked>>
    /\ UNCHANGED cond_vars

-----------------------------------------------------------------------------
(* lock_release.                                                           *)

\* lock_release (l) of a lock t holds: remove_from_donor_list.
lock_release(t) ==
    /\ Running(t)
    /\ pc[t] = "idle"
    /\ \E l \in Locks :
          /\ lock_held_by_current_thread(t, l)
          /\ donor_list' = [donor_list EXCEPT ![t] = remove_from_donor_list(t, l)]
          /\ arg' = [arg EXCEPT ![t] = l]
    /\ pc' = [pc EXCEPT ![t] = "clear_holder"]
    /\ UNCHANGED <<holder, value, waiters, priority, waiting_for_lock, status, panicked>>
    /\ UNCHANGED cond_vars
\* Mutant: lock_release without lock->holder = NULL.
ClearHolderMissing(t) ==
    /\ Running(t)
    /\ pc[t] = "clear_holder"
    /\ priority' = [priority EXCEPT ![t] = update_priority(t, donor_list[t])]
    /\ pc' = [pc EXCEPT ![t] = "sema_up"]
    /\ UNCHANGED <<holder, value, waiters, waiting_for_lock, donor_list, status, arg, panicked>>
    /\ UNCHANGED cond_vars

\* lock->holder = NULL; update_priority ().
clear_holder(t) ==
    /\ Running(t)
    /\ pc[t] = "clear_holder"
    /\ holder' = [holder EXCEPT ![arg[t]] = NoThread]
    /\ priority' = [priority EXCEPT ![t] = update_priority(t, donor_list[t])]
    /\ pc' = [pc EXCEPT ![t] = "sema_up"]
    /\ UNCHANGED <<value, waiters, waiting_for_lock, donor_list, status, arg, panicked>>
    /\ UNCHANGED cond_vars

\* The waiter sema_up wakes: list_sort by priority, then list_pop_front,
\* i.e. the first waiter of highest priority.
TopWaiter(s) ==
    LET i == SelectInSeq(s, LAMBDA w : \A j \in 1..Len(s) : priority[s[j]] <= priority[w])
    IN  s[i]
YieldIfOutranked(t, st) ==
    IF \E u \in Threads : st[u] = "ready" /\ priority[t] < priority[u]
    THEN status' \in Switch([st EXCEPT ![t] = "ready"], priority)
    ELSE status' = st

\* sema_up: wake the top waiter, value++, and thread_yield if a ready
\* thread now has a higher priority than the current one.  In cond_wait,
\* lock_release returns to the sema_down of the waiter's semaphore.
sema_up(t) ==
    LET l  == arg[t]
        st == IF waiters[l] = << >> THEN status
              ELSE [status EXCEPT ![TopWaiter(waiters[l])] = "ready"]
    IN
    /\ Running(t)
    /\ pc[t] = "sema_up"
    /\ waiters' = [waiters EXCEPT ![l] = IF @ = << >> THEN @ ELSE Remove(@, TopWaiter(@))]
    /\ value' = [value EXCEPT ![l] = @ + 1]
    /\ YieldIfOutranked(t, st)
    /\ pc' = [pc EXCEPT ![t] = IF in_wait[t] THEN "cw_down" ELSE "idle"]
    /\ UNCHANGED <<holder, priority, waiting_for_lock, donor_list, arg, panicked>>
    /\ UNCHANGED cond_vars

-----------------------------------------------------------------------------
(* Condition variables.                                                    *)

\* sema_init: semaphore t of the family v starts at value x (its waiters
\* list is empty: a thread blocked on it is one whose pc waits there).
sema_init(v, t, x) == [v EXCEPT ![t] = x]

\* cond_wait (cond, CondLock) by the holder of CondLock alone, while some
\* other thread is not waiting: sema_init (&waiter.semaphore, 0), the
\* semaphore_elem linked into cond->waiters, then lock_release's
\* remove_from_donor_list.  list_insert_ordered's compare_sema_priority
\* reads the front of the new, empty waiters list (garbage), so the
\* position is arbitrary; cond->waiters is kept as a set.  Only holders of
\* CondLock read cond->waiters, so the insertion and the first step of
\* lock_release are one step.
cond_wait(t) ==
    /\ Running(t)
    /\ pc[t] = "idle"
    /\ \A k \in Locks : lock_held_by_current_thread(t, k) <=> k = CondLock
    /\ Cardinality({u \in Threads : in_wait[u]}) < Cardinality(Threads) - 1
    /\ cw_value' = sema_init(cw_value, t, 0)
    /\ cond_waiters' = cond_waiters \cup {t}
    /\ in_wait' = [in_wait EXCEPT ![t] = TRUE]
    /\ donor_list' = [donor_list EXCEPT ![t] = remove_from_donor_list(t, CondLock)]
    /\ arg' = [arg EXCEPT ![t] = CondLock]
    /\ pc' = [pc EXCEPT ![t] = "clear_holder"]
    /\ UNCHANGED <<holder, value, waiters, priority, waiting_for_lock, status, panicked>>

\* One pass of sema_down's loop on the waiter's semaphore: block at value 0
\* (donate_priority does nothing, waiting_for_lock is NULL), else value--
\* and on to lock_acquire.
cw_sema_down(t) ==
    /\ Running(t)
    /\ pc[t] = "cw_down"
    /\ \/ /\ cw_value[t] = 0
          /\ status' \in Switch([status EXCEPT ![t] = "blocked"], priority)
          /\ UNCHANGED <<cw_value, pc>>
       \/ /\ cw_value[t] > 0
          /\ cw_value' = [cw_value EXCEPT ![t] = @ - 1]
          /\ pc' = [pc EXCEPT ![t] = "cw_acquire"]
          /\ UNCHANGED status
    /\ UNCHANGED <<holder, value, waiters, priority, waiting_for_lock, donor_list,
                   arg, panicked, cond_waiters, in_wait>>

\* u's waiter.semaphore.waiters holds u: u is blocked in its sema_down.
BlockedOnCond(u) == pc[u] = "cw_down" /\ status[u] = "blocked"

\* The entries list_sort can put first.  compare_sema_priority compares the
\* priorities of the front threads of two semaphores; when each semaphore
\* has its thread, the sort puts a waiter of top priority first.  The
\* waiters list of an entry whose thread has not reached sema_down is
\* empty, list_begin is its tail, and the priority read is garbage: any
\* entry may come first.
SignalCandidates ==
    IF \A v \in cond_waiters : BlockedOnCond(v)
    THEN {u \in cond_waiters : \A v \in cond_waiters : priority[v] <= priority[u]}
    ELSE cond_waiters

\* Mutant: the popped waiter's thread is unblocked without value++.
SignalOneNoIncrement(t) ==
    \E u \in SignalCandidates :
       /\ cond_waiters' = cond_waiters \ {u}
       /\ UNCHANGED cw_value
       /\ YieldIfOutranked(t, IF BlockedOnCond(u) THEN [status EXCEPT ![u] = "ready"]
                                                  ELSE status)

\* The body of cond_signal on a non-empty cond->waiters: list_sort, then
\* sema_up on the popped entry's semaphore (wake its thread if it is
\* blocked there, value++, thread_yield if outranked).
SignalOne(t) ==
    \E u \in SignalCandidates :
       /\ cond_waiters' = cond_waiters \ {u}
       /\ cw_value' = [cw_value EXCEPT ![u] = @ + 1]
       /\ YieldIfOutranked(t, IF BlockedOnCond(u) THEN [status EXCEPT ![u] = "ready"]
                                                  ELSE status)

\* cond_signal (cond, CondLock) by the holder of CondLock, with waiters.
cond_signal(t) ==
    /\ Running(t)
    /\ pc[t] = "idle"
    /\ lock_held_by_current_thread(t, CondLock)
    /\ cond_waiters # {}
    /\ SignalOne(t)
    /\ UNCHANGED <<holder, value, waiters, priority, waiting_for_lock, donor_list,
                   pc, arg, panicked, in_wait>>

\* One test of cond_broadcast's loop: cond_signal while cond->waiters is
\* not empty, then return.  A thread_yield inside sema_up suspends the
\* loop, which goes on when the broadcaster runs again.
cond_broadcast(t) ==
    /\ Running(t)
    /\ \/ pc[t] = "idle" /\ lock_held_by_current_thread(t, CondLock)
       \/ pc[t] = "broadcast"
    /\ \/ /\ cond_waiters # {}
          /\ SignalOne(t)
          /\ pc' = [pc EXCEPT ![t] = "broadcast"]
       \/ /\ cond_waiters = {}
          /\ pc[t] = "broadcast"
          /\ pc' = [pc EXCEPT ![t] = "idle"]
          /\ UNCHANGED <<cond_waiters, cw_value, status>>
    /\ UNCHANGED <<holder, value, waiters, priority, waiting_for_lock, donor_list,
                   arg, panicked, in_wait>>

-----------------------------------------------------------------------------
(* The environment: the client's sleeps, interrupts and the timer.         *)

\* The client blocks outside any lock operation (a sleep or I/O wait).
Sleep(t) ==
    /\ Running(t)
    /\ pc[t] = "idle"
    /\ status' \in Switch([status EXCEPT ![t] = "sleeping"], priority)
    /\ UNCHANGED <<holder, value, waiters, priority, waiting_for_lock,
                   donor_list, pc, arg, panicked>>
    /\ UNCHANGED cond_vars

\* An interrupt unblocks a sleeping thread, which preempts the running
\* one on return from the interrupt if its priority is higher.
Wake(u) ==
    /\ ~panicked
    /\ status[u] = "sleeping"
    /\ LET r == {v \in Threads : status[v] = "running"} IN
       status' = IF r = {} THEN [status EXCEPT ![u] = "running"]
                 ELSE IF \A v \in r : priority[v] < priority[u]
                 THEN [v \in Threads |-> IF v = u THEN "running"
                                         ELSE IF v \in r THEN "ready"
                                         ELSE status[v]]
                 ELSE [status EXCEPT ![u] = "ready"]
    /\ UNCHANGED <<holder, value, waiters, priority, waiting_for_lock,
                   donor_list, pc, arg, panicked>>
    /\ UNCHANGED cond_vars

\* The timer's end of a time slice: thread_yield to a top ready thread of
\* no lower priority.
TimerYield(t) ==
    /\ Running(t)
    /\ \E u \in TopReady(status, priority) :
          /\ priority[u] >= priority[t]
          /\ status' = [status EXCEPT ![t] = "ready", ![u] = "running"]
    /\ UNCHANGED <<holder, value, waiters, priority, waiting_for_lock,
                   donor_list, pc, arg, panicked>>
    /\ UNCHANGED cond_vars

\* A panicked kernel stops.
KernelHalted == panicked /\ UNCHANGED vars

ThreadStep(t) ==
    \/ lock_acquire(t)
    \/ add_to_donor_list(t)
    \/ sema_down(t)
    \/ set_holder(t)
    \/ lock_try_acquire(t)
    \/ lock_release(t)
    \/ clear_holder(t)
    \/ sema_up(t)
    \/ cond_wait(t)
    \/ cw_sema_down(t)
    \/ cond_signal(t)
    \/ cond_broadcast(t)
    \/ Sleep(t)
    \/ Wake(t)
    \/ TimerYield(t)

Next == (\E t \in Threads : ThreadStep(t)) \/ KernelHalted

Spec == Init /\ [][Next]_vars

-----------------------------------------------------------------------------
(* Properties.                                                             *)

\* Every variable holds a value of its C type; value is never negative.
TypeOK ==
    /\ holder \in [Locks -> Threads \cup {NoThread}]
    /\ value \in [Locks -> Nat]
    /\ waiters \in [Locks -> Seq(Threads)]
    /\ priority \in [Threads -> Nat]
    /\ waiting_for_lock \in [Threads -> Locks \cup {NoLock}]
    /\ donor_list \in [Threads -> Seq(Threads)]
    /\ status \in [Threads -> {"running", "ready", "blocked", "sleeping"}]
    /\ pc \in [Threads -> {"idle", "add_insert", "sema_down", "set_holder",
                           "clear_holder", "sema_up", "cw_down", "cw_acquire",
                           "broadcast"}]
    /\ arg \in [Threads -> Locks \cup {NoLock}]
    /\ panicked \in BOOLEAN
    /\ cond_waiters \subseteq Threads
    /\ cw_value \in [Threads -> 0..1]
    /\ in_wait \in [Threads -> BOOLEAN]

\* Threads that own lock l's semaphore: between sema_down and
\* lock->holder = t, while holding, and between lock->holder = NULL and
\* sema_up.
SemaOwners(l) ==
    {t \in Threads : \/ holder[l] = t
                     \/ pc[t] \in {"set_holder", "sema_up"} /\ arg[t] = l}

\* A lock's semaphore value plus the threads that own it is 1: sema_down,
\* sema_try_down, the holder assignment, lock->holder = NULL and sema_up,
\* interleaved with preemption between them, never let two threads own a
\* lock or leave a lock owned by nobody with value 0.
SemaphoreCountsOwner ==
    \A l \in Locks : value[l] + Cardinality(SemaOwners(l)) = 1

PriorityRestored ==
    \A t \in Threads :
        pc[t] = "idle" /\ (\A l \in Locks : holder[l] # t) => priority[t] = Pri[t]

\* A thread blocked on a held lock has donated its priority to the holder
\* (synch.c comment above donate_priority): the holder runs at no lower
\* priority than any waiter of the lock.
NoPriorityInversion ==
    \A l \in Locks, w \in Threads :
        Contains(waiters[l], w) /\ holder[l] # NoThread =>
            priority[holder[l]] >= priority[w]

\* lock_acquire never dereferences a NULL lock->holder (in
\* add_to_donor_list or donate_priority) and never links a donor_elem that
\* is already on a list.
NoFault == ~panicked

\* No lost signal: a thread blocked in cond_wait's sema_down is still on
\* cond->waiters, where a later cond_signal or cond_broadcast reaches it.
\* A signal popped before its waiter reached sema_down leaves the waiter's
\* semaphore at 1, so that sema_down passes; one popped after wakes it.
NoLostSignal ==
    \A t \in Threads : BlockedOnCond(t) => t \in cond_waiters

\* cond_signal wakes a waiter of highest priority: the popped entry's
\* thread has no lower priority than any thread still on cond->waiters
\* (the priority order compare_sema_priority is written to give).
CondSignalWakesHighest ==
    [][\A u \in cond_waiters \ cond_waiters', v \in cond_waiters' :
          priority[u] >= priority[v]]_vars

\* The locks implement AbstractLock: lock->holder, as the abstract owner,
\* changes only by an acquisition of a free lock or a release by its
\* holder, although acquisition is split over sema_down and the holder
\* assignment with preemption between them.
Lock == INSTANCE AbstractLock WITH owner <- holder

LockRefinement == Lock!Spec

====
