------------------------------- MODULE Mutex -------------------------------
(***************************************************************************)
(* The kernel's mutex (src/ipc.c): recursive ownership, a suspend list in  *)
(* priority order, hand-over on release, priority inheritance along chains *)
(* of owners, priority ceilings, timeouts and the deletion of threads.     *)
(*                                                                         *)
(* On one core rt_spin_lock(&mutex->spinlock) is the scheduler lock, so a  *)
(* call runs to its end or to the rt_schedule() at which it blocks: one    *)
(* step each.  A thread that blocked in rt_mutex_take finishes the call in *)
(* a second step, and other threads may run between its wake-up (by        *)
(* hand-over or by the tick interrupt's timeout) and that second step.     *)
(*                                                                         *)
(* Any ready thread may take the next step: that covers every choice of    *)
(* the scheduler, calls that change priorities without an rt_schedule(),   *)
(* and threads that sleep or wait for something else between two calls.    *)
(*                                                                         *)
(* Priorities are numbers, 0 the most urgent; 255 (0xff) means none.       *)
(***************************************************************************)
EXTENDS Naturals, Sequences, FiniteSetsExt, SequencesExt

CONSTANTS
    Threads, Mutexes,
    InitPrio,       \* [Threads -> Nat], init_priority
    Ceilings,       \* priorities rt_mutex_setprioceiling is called with
    MaxHold,        \* RT_MUTEX_HOLD_MAX
    NewPrios,       \* priorities RT_THREAD_CTRL_CHANGE_PRIORITY is used with
    MaxChanges,     \* bound on such changes and on detached mutexes
    None            \* RT_NULL

NoPrio == 255

ASSUME MutexAssumption ==
    /\ InitPrio \in [Threads -> 0..31] /\ Ceilings \subseteq 0..31
    /\ MaxHold \in Nat \ {0} /\ NewPrios \subseteq 0..31 /\ MaxChanges \in Nat
    /\ None \notin Threads \cup Mutexes /\ IsFiniteSet(Threads)

VARIABLES
    owner, hold,    \* of each mutex
    mprio,          \* mutex->priority, that of its first waiter
    ceiling,        \* mutex->ceiling_priority
    susp,           \* mutex->parent.suspend_thread, a sequence of threads
    taken,          \* thread->taken_object_list, a set of mutexes
    curr,           \* current_priority of each thread
    stat,           \* "ready" (or running), "suspended", "closed"
    pending,        \* thread->pending_object
    error,          \* thread->error of the pending take
    call,           \* the mutex of the take a thread is blocked in or back from
    live,           \* the mutexes that are initialised
    plain,          \* history: only takes and releases so far, none timed out
    changes         \* history: how often a priority was changed from outside
                    \* or a mutex detached

vars == <<owner, hold, mprio, ceiling, susp, taken, curr, stat, pending,
          error, call, live, plain, changes>>

-----------------------------------------------------------------------------
(* Helpers *)

\* rt_susp_list_enqueue with RT_IPC_FLAG_PRIO: before the first thread that
\* is less urgent under the priorities c.
Enqueue(list, t, c) ==
    LET i == SelectInSeq(list, LAMBDA u : c[t] < c[u])
    IN  IF i = 0 THEN Append(list, t) ELSE InsertAt(list, i, t)

\* _mutex_update_priority
FirstPrio(list, c) == IF list = <<>> THEN NoPrio ELSE c[Head(list)]

\* _thread_get_mutex_priority: the most urgent of the thread's own priority
\* and the (waiters' and ceiling) priorities of the mutexes it has taken.
MutexPriority(t, mine, mp, ceil) ==
    Min({InitPrio[t]} \cup {mp[m] : m \in mine} \cup {ceil[m] : m \in mine})

\* Mutant: the waiting thread is inserted again and not taken out before.
ChainStepNoRemove(c) ==
    IF ~c.go \/ stat'[c.t] # "suspended" \/ pending'[c.t] = None
    THEN [c EXCEPT !.go = FALSE]
    ELSE LET m    == pending'[c.t]
             list == Enqueue(c.susp[m], c.t, c.curr)
             mp   == [c.mprio EXCEPT ![m] = FirstPrio(list, c.curr)]
             o    == owner'[m]
             p    == MutexPriority(o, taken'[o], mp, ceiling')
         IN  [c EXCEPT !.curr[o] = p, !.susp[m] = list, !.mprio = mp, !.t = o,
                       !.go = p # c.curr[o]]

\* One round of the loop of _thread_update_priority: if the thread whose
\* priority has just changed waits for a mutex, it is put in its new place
\* in the suspend list, and the owner of that mutex is the next to change.
\* The lists of the step's own mutex are in c; stat, pending, owner, taken
\* and ceiling have been written before and are read primed.
ChainStep(c) ==
    IF ~c.go \/ stat'[c.t] # "suspended" \/ pending'[c.t] = None
    THEN [c EXCEPT !.go = FALSE]
    ELSE LET m    == pending'[c.t]
             list == Enqueue(RemoveFirst(c.susp[m], c.t), c.t, c.curr)
             mp   == [c.mprio EXCEPT ![m] = FirstPrio(list, c.curr)]
             o    == owner'[m]
             p    == MutexPriority(o, taken'[o], mp, ceiling')
             more == p # c.curr[o]
         IN  [curr  |-> IF more THEN [c.curr EXCEPT ![o] = p] ELSE c.curr,
              susp  |-> [c.susp EXCEPT ![m] = list],
              mprio |-> mp,
              t     |-> o,
              go    |-> more]

\* Mutant: the priority is lent to the owner only, not along the chain.
UpdatePriorityNoChain(t, p, s, mp) ==
    curr' = [curr EXCEPT ![t] = p] /\ susp' = s /\ mprio' = mp

\* The loop ends within this many rounds: along a chain, and round a cycle of
\* owners, priorities only get more urgent, and a thread that has got the
\* priority the chain has come to does not get it again (MutexProofs, ChainEnds).
Rounds == 32 * (Cardinality(Threads) + 1)

\* _thread_update_priority(t, p) on lists s and mutex priorities mp: what the
\* round in which the loop ends leaves.
UpdatePriority(t, p, s, mp) ==
    LET start == [curr |-> [curr EXCEPT ![t] = p], susp |-> s, mprio |-> mp,
                  t |-> t, go |-> TRUE]
        Chain[i \in 0..Rounds] == IF i = 0 THEN start ELSE ChainStep(Chain[i - 1])
        end == Chain[CHOOSE i \in 0..Rounds : ~Chain[i].go]
    IN  curr' = end.curr /\ susp' = end.susp /\ mprio' = end.mprio

-----------------------------------------------------------------------------
(* _rt_mutex_take *)

TakeFree(t, m) ==
    /\ stat[t] = "ready" /\ call[t] = None /\ owner[m] = None
    /\ owner' = [owner EXCEPT ![m] = t]
    /\ hold' = [hold EXCEPT ![m] = 1]
    /\ mprio' = [mprio EXCEPT ![m] = NoPrio]
    /\ curr' = [curr EXCEPT ![t] = Min({@, ceiling[m]})]
    /\ taken' = [taken EXCEPT ![t] = @ \cup {m}]
    /\ error' = [error EXCEPT ![t] = "EOK"]
    /\ UNCHANGED <<ceiling, susp, stat, pending, call>>

\* Mutant: no limit on the depth.
TakeAgainNoLimit(t, m) ==
    /\ stat[t] = "ready" /\ call[t] = None /\ owner[m] = t
    /\ hold' = [hold EXCEPT ![m] = @ + 1]
    /\ UNCHANGED <<owner, mprio, ceiling, susp, taken, curr, stat, pending,
                   error, call>>

\* Recursive.  A call that fails at once (-RT_EFULL at the limit, -RT_ETIMEOUT
\* for a timeout of 0) writes nothing that is read later.
TakeAgain(t, m) ==
    /\ stat[t] = "ready" /\ call[t] = None /\ owner[m] = t /\ hold[m] < MaxHold
    /\ hold' = [hold EXCEPT ![m] = @ + 1]
    /\ error' = [error EXCEPT ![t] = "EOK"]
    /\ UNCHANGED <<owner, mprio, ceiling, susp, taken, curr, stat, pending,
                   call>>

\* Blocks, and lends its priority to the owner if it is the most urgent
\* waiter.  Every wait may time out; one that does not is also what a wait
\* for ever does.
TakeBlock(t, m) ==
    LET list == [susp EXCEPT ![m] = Enqueue(@, t, curr)]
        first == curr[t] < mprio[m]
        mp == IF first THEN [mprio EXCEPT ![m] = curr[t]] ELSE mprio
    IN  /\ stat[t] = "ready" /\ call[t] = None /\ owner[m] \notin {None, t}
        /\ stat' = [stat EXCEPT ![t] = "suspended"]
        /\ pending' = [pending EXCEPT ![t] = m]
        /\ error' = [error EXCEPT ![t] = "EOK"]
        /\ call' = [call EXCEPT ![t] = m]
        /\ UNCHANGED <<owner, hold, ceiling, taken>>
        /\ IF first /\ curr[t] < curr[owner[m]]
           THEN UpdatePriority(owner[m], curr[t], list, mp)
           ELSE susp' = list /\ mprio' = mp /\ UNCHANGED curr

\* The rest of the call for a thread that was handed the mutex.
TakeDone(t) ==
    /\ stat[t] = "ready" /\ call[t] # None /\ error[t] = "EOK"
    /\ call' = [call EXCEPT ![t] = None]
    /\ UNCHANGED <<owner, hold, mprio, ceiling, susp, taken, curr, stat, pending,
                   error>>

\* Mutant: thread->error is not set, so the take reports success.
TimeoutNoError(t) ==
    /\ stat[t] = "suspended" /\ call[t] # None
    /\ stat' = [stat EXCEPT ![t] = "ready"]
    /\ susp' = [susp EXCEPT ![pending[t]] = RemoveFirst(@, t)]
    /\ UNCHANGED <<owner, hold, mprio, ceiling, taken, curr, pending, error, call>>

\* _thread_timeout, in the tick interrupt: out of the list and ready again.
\* The mutex and its owner keep the priority the thread lent.
Timeout(t) ==
    /\ stat[t] = "suspended" /\ call[t] # None
    /\ stat' = [stat EXCEPT ![t] = "ready"]
    /\ error' = [error EXCEPT ![t] = "ETIMEOUT"]
    /\ susp' = [susp EXCEPT ![pending[t]] = RemoveFirst(@, t)]
    /\ UNCHANGED <<owner, hold, mprio, ceiling, taken, curr, pending, call>>

\* What a waiter that leaves does to the priorities: the end of a failed
\* take and rt_mutex_drop_thread alike.  The owner is reconsidered only if
\* it runs at the leaver's priority.
Leave(t, m, list) ==
    LET mp == [mprio EXCEPT ![m] = FirstPrio(list[m], curr)]
        o  == owner[m]
        p  == MutexPriority(o, taken[o], mp, ceiling)
    IN  IF o # None /\ curr[o] = curr[t] /\ p # curr[o]
        THEN UpdatePriority(o, p, list, mp)
        ELSE mprio' = mp /\ susp' = list /\ UNCHANGED curr

\* The rest of the call for a thread that was not given the mutex.
TakeFailed(t) ==
    /\ stat[t] = "ready" /\ call[t] # None /\ error[t] # "EOK"
    /\ call' = [call EXCEPT ![t] = None]
    /\ pending' = [pending EXCEPT ![t] = None]
    /\ UNCHANGED <<owner, hold, ceiling, taken, stat, error>>
    /\ Leave(t, pending[t], susp)

-----------------------------------------------------------------------------
(* rt_mutex_release *)

ReleaseNested(t, m) ==
    /\ stat[t] = "ready" /\ call[t] = None /\ owner[m] = t /\ hold[m] > 1
    /\ hold' = [hold EXCEPT ![m] = @ - 1]
    /\ UNCHANGED <<owner, mprio, ceiling, susp, taken, curr, stat, pending,
                   error, call>>

\* Mutant: a release gives nothing back.
PrioAfterReleaseKeeps(t, m) == curr[t]

\* _check_and_update_prio: the releasing thread's priority, once m is off
\* its list; reconsidered only if m can have been what raised it.
PrioAfterRelease(t, m) ==
    IF ceiling[m] # NoPrio \/ curr[t] = mprio[m]
    THEN MutexPriority(t, taken[t] \ {m}, mprio, ceiling)
    ELSE curr[t]

\* Mutant: the mutex is left without an owner although threads wait for it.
ReleaseNoHandOver(t, m) ==
    /\ stat[t] = "ready" /\ call[t] = None /\ owner[m] = t /\ hold[m] = 1
    /\ curr' = [curr EXCEPT ![t] = PrioAfterRelease(t, m)]
    /\ owner' = [owner EXCEPT ![m] = None]
    /\ hold' = [hold EXCEPT ![m] = 0]
    /\ mprio' = [mprio EXCEPT ![m] = NoPrio]
    /\ taken' = [taken EXCEPT ![t] = @ \ {m}]
    /\ UNCHANGED <<susp, stat, pending, ceiling, error, call>>

\* The last release: the first waiter becomes the owner at once.  (That
\* rt_sched_thread_ready refuses the waiter, and the next one is tried, takes
\* another core: here the list and the threads' states change together.)
Release(t, m) ==
    /\ stat[t] = "ready" /\ call[t] = None /\ owner[m] = t /\ hold[m] = 1
    /\ curr' = [curr EXCEPT ![t] = PrioAfterRelease(t, m)]
    /\ IF susp[m] = <<>>
       THEN /\ owner' = [owner EXCEPT ![m] = None]
            /\ hold' = [hold EXCEPT ![m] = 0]
            /\ mprio' = [mprio EXCEPT ![m] = NoPrio]
            /\ taken' = [taken EXCEPT ![t] = @ \ {m}]
            /\ UNCHANGED <<susp, stat, pending>>
       ELSE LET u == Head(susp[m])
                rest == Tail(susp[m])
            IN  /\ owner' = [owner EXCEPT ![m] = u]
                /\ mprio' = [mprio EXCEPT ![m] = FirstPrio(rest, curr)]
                /\ taken' = [taken EXCEPT ![t] = @ \ {m}, ![u] = @ \cup {m}]
                /\ susp' = [susp EXCEPT ![m] = rest]
                /\ stat' = [stat EXCEPT ![u] = "ready"]
                /\ pending' = [pending EXCEPT ![u] = None]
                /\ UNCHANGED hold
    /\ UNCHANGED <<ceiling, error, call>>

-----------------------------------------------------------------------------
(* rt_mutex_setprioceiling, by any running thread *)

SetPrioCeiling(m, p) ==
    /\ \E t \in Threads : stat[t] = "ready" /\ call[t] = None
    /\ ceiling' = [ceiling EXCEPT ![m] = p]
    /\ UNCHANGED <<owner, hold, taken, stat, pending, error, call>>
    /\ LET o == owner[m]
           hp == MutexPriority(o, taken[o], mprio, ceiling')
       IN  IF o # None /\ hp # curr[o]
           THEN UpdatePriority(o, hp, susp, mprio)
           ELSE UNCHANGED <<curr, susp, mprio>>

-----------------------------------------------------------------------------
(* Threads: exiting, being deleted, given another priority *)

\* _thread_exit: nothing is done about mutexes.  A thread that deletes itself
\* makes, with interrupts off, one rt_mutex_release for each mutex it has taken
\* and ends: its ReleaseNested and Release steps and then this one, with no
\* step of another thread in between.
Exit(t) ==
    /\ stat[t] = "ready" /\ call[t] = None
    /\ stat' = [stat EXCEPT ![t] = "closed"]
    /\ UNCHANGED <<owner, hold, mprio, ceiling, susp, taken, curr, pending,
                   error, call>>

\* rt_thread_delete(u) by another thread.  _thread_detach_from_mutex takes u
\* off the list it waits in; its rt_mutex_release calls for the mutexes of u
\* are made by the calling thread, which is not their owner, and fail.
DeleteThread(u) ==
    /\ stat[u] # "closed"
    /\ \E t \in Threads \ {u} : stat[t] = "ready" /\ call[t] = None
    /\ stat' = [stat EXCEPT ![u] = "closed"]
    /\ pending' = [pending EXCEPT ![u] = None]
    /\ call' = [call EXCEPT ![u] = None]
    /\ UNCHANGED <<owner, hold, ceiling, taken, error>>
    /\ IF pending[u] = None
       THEN UNCHANGED <<susp, mprio, curr>>
       ELSE Leave(u, pending[u],
                  [susp EXCEPT ![pending[u]] = RemoveFirst(@, u)])

\* rt_thread_control(RT_THREAD_CTRL_CHANGE_PRIORITY): the priority is written,
\* wherever the thread waits and whatever it holds.
ChangePriority(u, p) ==
    /\ changes < MaxChanges /\ stat[u] # "closed"
    /\ \E t \in Threads : stat[t] = "ready" /\ call[t] = None
    /\ curr' = [curr EXCEPT ![u] = p]
    /\ UNCHANGED <<owner, hold, mprio, ceiling, susp, taken, stat, pending,
                   error, call, live>>

-----------------------------------------------------------------------------
(* rt_mutex_detach, by any thread; the object is not used again *)

\* The waiters get an error, the owner loses the mutex and what it was lent
\* for it.  owner and priority stay in the object, and a waiter that runs
\* again looks at them (TakeFailed).
Detach(m) ==
    LET o == owner[m]
        Waiting(t) == Contains(susp[m], t)
    IN  /\ changes < MaxChanges
        /\ \E t \in Threads : stat[t] = "ready" /\ call[t] = None
        /\ live' = live \ {m}
        /\ susp' = [susp EXCEPT ![m] = <<>>]
        /\ stat' = [t \in Threads |-> IF Waiting(t) THEN "ready" ELSE stat[t]]
        /\ error' = [t \in Threads |-> IF Waiting(t) THEN "ERROR" ELSE error[t]]
        /\ IF o = None
           THEN UNCHANGED <<curr, taken>>
           ELSE /\ curr' = [curr EXCEPT ![o] = PrioAfterRelease(o, m)]
                /\ taken' = [taken EXCEPT ![o] = @ \ {m}]
        /\ UNCHANGED <<owner, hold, mprio, ceiling, pending, call>>

-----------------------------------------------------------------------------
Init ==
    /\ owner = [m \in Mutexes |-> None]
    /\ hold = [m \in Mutexes |-> 0]
    /\ mprio = [m \in Mutexes |-> NoPrio]
    /\ ceiling = [m \in Mutexes |-> NoPrio]
    /\ susp = [m \in Mutexes |-> <<>>]
    /\ taken = [t \in Threads |-> {}]
    /\ curr = InitPrio
    /\ stat = [t \in Threads |-> "ready"]
    /\ pending = [t \in Threads |-> None]
    /\ error = [t \in Threads |-> "EOK"]
    /\ call = [t \in Threads |-> None]
    /\ live = Mutexes /\ plain = TRUE /\ changes = 0

\* Calls are made on initialised mutexes only; a call under way may find its
\* mutex detached.
Plain ==
    \/ \E t \in Threads, m \in live :
        \/ TakeFree(t, m) \/ TakeAgain(t, m)
        \/ TakeBlock(t, m) \/ ReleaseNested(t, m) \/ Release(t, m)
    \/ \E t \in Threads : TakeDone(t) \/ TakeFailed(t)

Lasting ==
    \/ \E t \in Threads : Timeout(t) \/ Exit(t) \/ DeleteThread(t)
    \/ \E m \in live, p \in Ceilings : SetPrioCeiling(m, p)

Next ==
    \/ Plain /\ UNCHANGED <<live, plain, changes>>
    \/ Lasting /\ plain' = FALSE /\ UNCHANGED <<live, changes>>
    \/ /\ \/ \E t \in Threads, p \in NewPrios : ChangePriority(t, p)
          \/ \E m \in live : Detach(m)
       /\ plain' = FALSE /\ changes' = changes + 1

Spec == Init /\ [][Next]_vars

-----------------------------------------------------------------------------
(* Properties *)

\* The recursion depth stays within RT_MUTEX_HOLD_MAX and every priority a
\* chain of owners computes is that of a thread or a ceiling.
TypeOK ==
    /\ owner \in [Mutexes -> Threads \cup {None}]
    /\ hold \in [Mutexes -> 0..MaxHold]
    /\ mprio \in [Mutexes -> 0..31 \cup {NoPrio}]
    /\ ceiling \in [Mutexes -> Ceilings \cup {NoPrio}]
    /\ susp \in [Mutexes -> Seq(Threads)]
    /\ taken \in [Threads -> SUBSET Mutexes]
    /\ curr \in [Threads -> 0..31]
    /\ stat \in [Threads -> {"ready", "suspended", "closed"}]
    /\ pending \in [Threads -> Mutexes \cup {None}]
    /\ error \in [Threads -> {"EOK", "ETIMEOUT", "ERROR"}]
    /\ call \in [Threads -> Mutexes \cup {None}]
    /\ live \subseteq Mutexes /\ plain \in BOOLEAN /\ changes \in 0..MaxChanges

\* A mutex in use has an owner exactly while it is held, it is on the list of
\* its owner and on no other, and it is never free while a thread waits for
\* it: no release forgets to hand it over, whatever timed out before, and
\* nobody is left waiting for a mutex that was detached.
OwnershipConsistent ==
    \A m \in Mutexes :
        /\ m \in live => /\ (owner[m] = None) = (hold[m] = 0)
                         /\ \A t \in Threads : (owner[m] = t) = (m \in taken[t])
        /\ owner[m] = None \/ m \notin live => susp[m] = <<>>

\* A thread is in the suspend list of a mutex exactly while it is suspended
\* in a take of it, and in no list twice: chains that re-insert threads
\* neither lose nor duplicate one.
SuspendListsExact ==
    \A m \in Mutexes :
        /\ IsInjective(susp[m])
        /\ \A t \in Threads :
             Contains(susp[m], t) = (stat[t] = "suspended" /\ pending[t] = m)

\* "get mutex successfully: assert(mutex->owner == thread)" and, for a take
\* that failed, "assert(mutex->owner != thread)" (_rt_mutex_take).
TakeResultRight ==
    \A t \in Threads :
        call[t] # None /\ stat[t] = "ready" =>
            (error[t] = "EOK") = (owner[call[t]] = t)

\* Priority inheritance: an owner is never less urgent than a thread waiting
\* for its mutex, directly or through a chain of owners, and a list stays
\* sorted when priorities are lent to waiting threads, so that the first is a
\* most urgent one; as long as no priority was changed from outside.
NoInversion ==
    changes = 0 => \A m \in Mutexes : \A i \in DOMAIN susp[m] :
        /\ curr[owner[m]] <= curr[susp[m][i]]
        /\ \A j \in DOMAIN susp[m] : i < j => curr[susp[m][i]] <= curr[susp[m][j]]

\* A thread that has released all its mutexes is back at its own priority.
PriorityRestored ==
    \A t \in Threads :
        taken[t] = {} /\ stat[t] # "closed" => curr[t] = InitPrio[t]

\* As long as no take timed out, no ceiling was set, no thread ended, no
\* priority was changed from outside and no mutex detached, every thread runs
\* exactly at the most urgent of its own priority and those of the threads
\* waiting, directly or through a chain of owners, for what it holds: nothing
\* more is lent, and everything lent is given back.
PriorityExact ==
    plain => \A t \in Threads :
        curr[t] = Min({InitPrio[t]} \cup
                      {curr[u] : u \in {w \in Threads : pending[w] \in taken[t]}})

\* "free taken mutex after detaching from waiting, so we don't lost mutex
\* just got" (_thread_detach_from_mutex): no mutex is left with a deleted
\* thread.
NoDeadOwner ==
    \A m \in Mutexes : owner[m] # None => stat[owner[m]] # "closed"

=============================================================================
