----------------------------- MODULE ThreadWait -----------------------------
(***************************************************************************)
(* How threads wait on the suspend lists of a kernel object and how they   *)
(* are woken: rt_thread_suspend_to_list, the thread timer, and             *)
(* rt_susp_list_dequeue against the timeout in the tick interrupt.         *)
(*                                                                         *)
(* On one core rt_sched_lock and rt_spin_lock_irqsave disable interrupts,  *)
(* so a call is one step up to the point where it blocks.  The tick        *)
(* interrupt is not: rt_timer_check takes an expired timer off its list,   *)
(* enables interrupts, and only then calls _thread_timeout.  SysTick has   *)
(* the lowest priority (drv_common.c), so other interrupts get in between. *)
(***************************************************************************)
EXTENDS Naturals, Sequences, FiniteSets, SequencesExt

CONSTANTS
    Threads,
    Lists,          \* the suspend lists of the object
    Prio,           \* [Threads -> Nat], current_priority
    Fifo,           \* RT_IPC_FLAG_FIFO, else RT_IPC_FLAG_PRIO
    NestMax,        \* bound: interrupts that get in before one _thread_timeout
    None

ASSUME WaitAssumption ==
    /\ Prio \in [Threads -> Nat] /\ Fifo \in BOOLEAN /\ NestMax \in Nat
    /\ None \notin Threads /\ IsFiniteSet(Threads)

VARIABLES
    susp,           \* suspend lists, each a sequence of threads
    stat,           \* "ready" (or running) or "suspended"
    error,          \* thread->error
    timer,          \* the thread timer is RT_TIMER_FLAG_ACTIVATED
    ttmr,           \* sched_flag_ttmr_set
    firing,         \* the thread whose timer the tick interrupt is processing
    nested,         \* interrupts since it began
    call            \* the blocking call a thread is in, "none" outside

waitVars == <<susp, stat, error, timer, ttmr, firing, nested, call>>

Errors == {"EOK", "EINTR", "ETIMEOUT", "ERROR"}

\* No thread runs during the tick interrupt; another interrupt may.
InThread(t) == firing = None /\ stat[t] = "ready" /\ call[t] = "none"
InInterrupt == firing = None \/ nested < NestMax

\* Counts an interrupt that comes during the tick interrupt.
CountNested == nested' = IF firing = None THEN nested ELSE nested + 1

-----------------------------------------------------------------------------
\* rt_list_remove of the threads in gone: what is left of a list.  (A recursive
\* function, and not SelectSeq, because proofs are made about it.)
Without(list, gone) ==
    LET Kept[i \in 0..Len(list)] ==
            IF i = 0 THEN <<>>
            ELSE IF list[i] \in gone THEN Kept[i - 1] ELSE Append(Kept[i - 1], list[i])
    IN  Kept[Len(list)]

\* rt_susp_list_enqueue
Enqueue(list, t) ==
    LET i == SelectInSeq(list, LAMBDA u : Prio[t] < Prio[u])
    IN  IF Fifo \/ i = 0 THEN Append(list, t) ELSE InsertAt(list, i, t)

\* rt_thread_suspend_to_list, then rt_timer_start if there is a timeout; the
\* caller goes on in op when it runs again.  A flag ttmr left over from an
\* earlier timeout is cleared by "stop thread timer anyway".
SuspendToList(t, l, err, withTimeout, op) ==
    /\ susp' = [susp EXCEPT ![l] = Enqueue(@, t)]
    /\ stat' = [stat EXCEPT ![t] = "suspended"]
    /\ error' = [error EXCEPT ![t] = err]
    /\ timer' = [timer EXCEPT ![t] = withTimeout]
    /\ ttmr' = [ttmr EXCEPT ![t] = withTimeout]
    /\ call' = [call EXCEPT ![t] = op]
    /\ UNCHANGED <<firing, nested>>

\* rt_sched_thread_ready fails: the thread is not suspended, or its timer
\* cannot be stopped because the tick interrupt has already taken it.
Refuses(t) == stat[t] # "suspended" \/ (ttmr[t] /\ ~timer[t])

\* rt_susp_list_dequeue up to most times, or until a thread refuses (then
\* rt_susp_list_resume_all gives up): the threads that are made ready.
Woken(l, most) ==
    LET s == SubSeq(susp[l], 1, most)
        i == SelectInSeq(s, Refuses)
    IN  IF i = 0 THEN s ELSE SubSeq(s, 1, i - 1)

\* Mutant: the timer of a thread that is made ready is not stopped.
ResumeTimerRuns(most, err) ==
    LET w == [l \in Lists |-> Woken(l, most[l])]
        woken == UNION {ToSet(w[l]) : l \in Lists}
    IN  /\ susp' = [l \in Lists |-> SubSeq(susp[l], Len(w[l]) + 1, Len(susp[l]))]
        /\ stat' = [t \in Threads |-> IF t \in woken THEN "ready" ELSE stat[t]]
        /\ error' = [t \in Threads |-> IF t \in woken THEN err ELSE error[t]]
        /\ UNCHANGED <<timer, ttmr, firing>>

\* Up to most[l] threads of each list l.  Their timers are stopped.  A thread
\* that refuses stays where it is, but its flag is cleared: "mask out timer
\* flag no matter stop success or not".
Resume(most, err) ==
    LET w == [l \in Lists |-> Woken(l, most[l])]
        woken == UNION {ToSet(w[l]) : l \in Lists}
        asked == {susp[l][Len(w[l]) + 1] : l \in {k \in Lists : Len(w[k]) < most[k]}}
    IN  /\ susp' = [l \in Lists |-> SubSeq(susp[l], Len(w[l]) + 1, Len(susp[l]))]
        /\ stat' = [t \in Threads |-> IF t \in woken THEN "ready" ELSE stat[t]]
        /\ error' = [t \in Threads |-> IF t \in woken THEN err ELSE error[t]]
        /\ timer' = [t \in Threads |-> timer[t] /\ t \notin woken]
        /\ ttmr' = [t \in Threads |->
                       ttmr[t] /\ t \notin woken /\ ~(t \in asked /\ stat[t] = "suspended")]
        /\ UNCHANGED firing

ResumeFirst(l, err) ==
    Resume([k \in Lists |-> IF k = l /\ susp[k] # <<>> THEN 1 ELSE 0], err)

\* ResumeFirst(l, err) is spent on a thread that refuses it: the callers do not
\* look at the result of rt_susp_list_dequeue, so nobody is woken instead.
InVain(l) == susp[l] # <<>> /\ Refuses(susp[l][1])

ResumeAll(err) == Resume([k \in Lists |-> Len(susp[k])], err)

-----------------------------------------------------------------------------
(* The tick interrupt *)

\* rt_timer_check: an expired timer is taken off the list and interrupts are
\* enabled.  When a timer expires is left open.
TimerExpires(t) ==
    /\ firing = None /\ timer[t]
    /\ timer' = [timer EXCEPT ![t] = FALSE]
    /\ firing' = t /\ nested' = 0
    /\ UNCHANGED <<susp, stat, error, ttmr, call>>

\* _thread_timeout.  RT_ASSERT(rt_sched_thread_is_suspended(thread)) stops
\* the system if it fails.
ThreadTimeout ==
    /\ firing # None /\ stat[firing] = "suspended"
    /\ error' = [error EXCEPT ![firing] = "ETIMEOUT"]
    /\ susp' = [l \in Lists |-> Without(susp[l], {firing})]
    /\ stat' = [stat EXCEPT ![firing] = "ready"]
    /\ firing' = None /\ nested' = 0
    /\ UNCHANGED <<timer, ttmr, call>>

WaitInit ==
    /\ susp = [l \in Lists |-> <<>>]
    /\ stat = [t \in Threads |-> "ready"]
    /\ error = [t \in Threads |-> "EOK"]
    /\ timer = [t \in Threads |-> FALSE] /\ ttmr = [t \in Threads |-> FALSE]
    /\ firing = None /\ nested = 0
    /\ call = [t \in Threads |-> "none"]

WaitTypeOK ==
    /\ susp \in [Lists -> Seq(Threads)]
    /\ stat \in [Threads -> {"ready", "suspended"}]
    /\ error \in [Threads -> Errors]
    /\ timer \in [Threads -> BOOLEAN] /\ ttmr \in [Threads -> BOOLEAN]
    /\ firing \in Threads \cup {None} /\ nested \in 0..NestMax

=============================================================================
