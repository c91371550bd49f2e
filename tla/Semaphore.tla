----------------------------- MODULE Semaphore -----------------------------
(***************************************************************************)
(* The kernel's semaphore (src/ipc.c): take with and without a timeout,    *)
(* release from threads and interrupts, the two control commands, detach   *)
(* (or delete) and a new initialisation of the same storage.               *)
(***************************************************************************)
EXTENDS Integers, IpcObject

CONSTANTS
    SemMax,         \* RT_SEM_VALUE_MAX
    Values          \* values for rt_sem_init and rt_sem_control

ASSUME SemAssumption ==
    SemMax \in Nat \ {0} /\ Values \subseteq 0..SemMax

VARIABLES
    value, max_value,
    credit          \* history: tokens released, less those taken, see below

semVars == <<value, max_value, alive>>
vars == <<waitVars, semVars, credit>>

-----------------------------------------------------------------------------
(* _rt_sem_take *)

TakeNow(t) ==
    /\ InThread(t) /\ alive /\ value > 0
    /\ value' = value - 1 /\ credit' = credit - 1
    /\ UNCHANGED <<waitVars, max_value, alive>>

\* No token: a take with timeout 0 returns and changes nothing, any other
\* one waits.
TakeBlock(t, withTimeout) ==
    /\ InThread(t) /\ alive /\ value = 0
    /\ SuspendToList(t, "suspend_thread", "EINTR", withTimeout, "take")
    /\ UNCHANGED <<semVars, credit>>

\* Back from rt_schedule: thread->error is the result.
TakeReturn(t) ==
    /\ firing = None /\ stat[t] = "ready" /\ call[t] = "take"
    /\ call' = [call EXCEPT ![t] = "none"]
    /\ credit' = IF error[t] = "EOK" THEN credit - 1 ELSE credit
    /\ UNCHANGED <<susp, stat, error, timer, ttmr, firing, nested, semVars>>

-----------------------------------------------------------------------------
(* rt_sem_release *)

\* History: the release of a token counts unless its wake-up is in vain; then
\* the token is gone.
CountToken == credit' = IF InVain("suspend_thread") THEN credit ELSE credit + 1

\* Mutant: the count goes up although a thread was resumed for the token.
ReleaseBoth ==
    IF Waiters # <<>>
    THEN /\ ResumeFirst("suspend_thread", "EOK") /\ value' = value + 1 /\ CountToken
         /\ UNCHANGED <<call, max_value, alive>>
    ELSE /\ value < max_value
         /\ value' = value + 1 /\ credit' = credit + 1
         /\ UNCHANGED <<susp, stat, error, timer, ttmr, firing, call, max_value, alive>>

\* Mutant: no test of the limit.
ReleaseNoLimit ==
    IF Waiters # <<>>
    THEN /\ ResumeFirst("suspend_thread", "EOK") /\ CountToken
         /\ UNCHANGED <<call, semVars>>
    ELSE /\ value' = value + 1 /\ credit' = credit + 1
         /\ UNCHANGED <<susp, stat, error, timer, ttmr, firing, call, max_value, alive>>

\* A waiting thread gets the token, else the count goes up; at the limit the
\* call returns -RT_EFULL and changes nothing.  The result of
\* rt_susp_list_dequeue is not looked at.
Release ==
    IF Waiters # <<>>
    THEN /\ ResumeFirst("suspend_thread", "EOK") /\ CountToken
         /\ UNCHANGED <<call, semVars>>
    ELSE /\ value < max_value
         /\ value' = value + 1 /\ credit' = credit + 1
         /\ UNCHANGED <<susp, stat, error, timer, ttmr, firing, call, max_value, alive>>

ReleaseByThread(t) == InThread(t) /\ alive /\ Release /\ UNCHANGED nested
ReleaseByInterrupt == InInterrupt /\ alive /\ Release /\ CountNested

-----------------------------------------------------------------------------
(* rt_sem_control, rt_sem_detach, rt_sem_init *)

\* The waiting threads that have been given a token already.
Handed == {t \in Threads : call[t] = "take" /\ stat[t] = "ready" /\ error[t] = "EOK"}

\* Mutant: the waiting threads are resumed with RT_EOK.
ResetAsRelease(t, v) ==
    /\ InThread(t) /\ alive
    /\ ResumeAll("EOK")
    /\ value' = v /\ credit' = v + Cardinality(Handed)
    /\ UNCHANGED <<call, nested, max_value, alive>>

\* RT_IPC_CMD_RESET: all waiting threads fail with RT_ERROR.
Reset(t, v) ==
    /\ InThread(t) /\ alive
    /\ ResumeAll("ERROR")
    /\ value' = v /\ credit' = v + Cardinality(Handed)
    /\ UNCHANGED <<call, nested, max_value, alive>>

\* RT_IPC_CMD_SET_VLIMIT: threads would be resumed if there were any while
\* the value is above the new limit.  The value itself is not cut.
SetVlimit(t, v) ==
    /\ InThread(t) /\ alive /\ v >= 1 /\ v # max_value
    /\ IF v < value /\ Waiters # <<>>
       THEN ResumeAll("ERROR") /\ UNCHANGED <<call, nested>>
       ELSE UNCHANGED waitVars
    /\ max_value' = v
    /\ UNCHANGED <<value, alive, credit>>

\* rt_sem_detach and rt_sem_delete.
Detach(t) ==
    /\ InThread(t) /\ alive
    /\ ResumeAll("ERROR")
    /\ alive' = FALSE
    /\ UNCHANGED <<call, nested, value, max_value, credit>>

\* rt_sem_init of a new semaphore in the same storage.
SemInit(t, v) ==
    /\ InThread(t) /\ ~alive
    /\ alive' = TRUE
    /\ susp' = [susp EXCEPT !["suspend_thread"] = <<>>]
    /\ value' = v /\ max_value' = SemMax /\ credit' = v + Cardinality(Handed)
    /\ UNCHANGED <<stat, error, timer, ttmr, firing, nested, call>>

-----------------------------------------------------------------------------
Init ==
    /\ WaitInit
    /\ value \in Values /\ max_value = SemMax
    /\ alive = TRUE /\ credit = value

Next ==
    \/ \E t \in Threads :
        \/ TakeNow(t) \/ TakeReturn(t)
        \/ \E w \in BOOLEAN : TakeBlock(t, w)
        \/ ReleaseByThread(t)
        \/ \E v \in Values : Reset(t, v) \/ SetVlimit(t, v) \/ SemInit(t, v)
        \/ Detach(t)
        \/ TimerExpires(t) /\ UNCHANGED <<semVars, credit>>
    \/ ReleaseByInterrupt
    \/ ThreadTimeout /\ UNCHANGED <<semVars, credit>>

Spec == Init /\ [][Next]_vars

-----------------------------------------------------------------------------
(* Properties *)

\* The count never leaves its 16 bits, whatever the limit is set to meanwhile.
TypeOK ==
    /\ WaitTypeOK
    /\ call \in [Threads -> {"none", "take"}]
    /\ value \in 0..SemMax /\ max_value \in 1..SemMax
    /\ alive \in BOOLEAN
    /\ credit \in Int

\* Tokens are neither lost nor made up: what rt_sem_release reported as done,
\* less what rt_sem_take reported as taken, is in the count or on its way to
\* a thread that will report it.  A timeout or a reset that overtakes a
\* hand-over, or is overtaken by one, must not change that.  The one way to
\* lose a token is a release by an interrupt to a thread whose timeout is
\* being handled.
TokensConserved == alive => credit = value + Cardinality(Handed)

\* No thread sleeps beside a token, and none on a semaphore that is gone.
NobodySleepsBesideToken == value > 0 \/ ~alive => Waiters = <<>>

\* A thread is in the list exactly while it is suspended in a take, and a
\* timer runs only for a thread in the list: no timer of an earlier wait is
\* left to end a later one.
WaitsExact ==
    \A t \in Threads :
        /\ (stat[t] = "suspended") = (\E i \in DOMAIN Waiters : Waiters[i] = t)
        /\ stat[t] = "suspended" => call[t] = "take"
        /\ timer[t] => stat[t] = "suspended" /\ ttmr[t]

\* "resume of the thread and stop of the thread timer should be an atomic
\* operation. So we don't expected that thread had resumed." and the
\* assertion after it (thread.c, _thread_timeout): when the tick interrupt
\* gets to a thread, that thread is still suspended.
TimeoutFindsSuspended == firing # None => stat[firing] = "suspended"

=============================================================================
