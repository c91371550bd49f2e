-------------------------- MODULE IpcObjectProofs --------------------------
(***************************************************************************)
(* The two objects that are a struct rt_ipc_object and no more lists: the  *)
(* semaphore first, then the event.                                        *)
(*                                                                         *)
(* The semaphore, for any number of threads and tokens: its waiting list   *)
(* and timers, its tokens, and how far interrupts during the tick          *)
(* interrupt can go before the assertion in _thread_timeout fails.         *)
(*                                                                         *)
(* The event, for any number of threads and flags.  That what a thread     *)
(* receives is what it asked for, although the sender leaves it there, and *)
(* that nobody waits for flags that are there, but for the thread whose    *)
(* timeout is being handled.                                               *)
(***************************************************************************)
EXTENDS Semaphore, Event, ThreadWaitProofs, FiniteSetTheorems

LEMMA OneList == "suspend_thread" \in Lists /\ \A l \in Lists : l = "suspend_thread"
BY IpcObjectAssumption

-----------------------------------------------------------------------------
(* THE SEMAPHORE *)


\* A thread waits only inside rt_sem_take.
WaitsInTake == \A t \in Threads : stat[t] = "suspended" => call[t] = "take"

\* The flag that keeps a thread from being made ready while its timeout is
\* being handled is there until the first interrupt asks for it.
FlagUntilAsked == firing # None /\ nested = 0 => ttmr[firing]

\* Up to one interrupt, the thread whose timer is being processed sleeps on.
FiringSleeps == NestMax <= 1 => TimeoutFindsSuspended /\ FlagUntilAsked

SemTypeOK ==
    /\ call \in [Threads -> {"none", "take"}]
    /\ value \in 0..SemMax /\ max_value \in 1..SemMax
    /\ alive \in BOOLEAN /\ credit \in Int

IInv ==
    /\ WaitInv /\ SemTypeOK /\ WaitsInTake /\ NobodySleepsBesideToken /\ FiringSleeps

LEMMA HandedFinite ==
    IsFiniteSet(Handed) /\ Cardinality(Handed) \in Nat
<1>1. Handed \subseteq Threads /\ IsFiniteSet(Threads)
    BY WaitAssumption DEF Handed
<1> QED
    BY <1>1, FS_Subset, FS_CardinalityType

-----------------------------------------------------------------------------
(* One lemma per kind of step *)

LEMMA TakeNowKeeps ==
    ASSUME IInv, NEW t \in Threads, TakeNow(t)
    PROVE  IInv'
<1> USE DEF TakeNow, waitVars
<1>1. WaitInv'
    BY DEF IInv, WaitInv, WaitTypeOK, ListedOnce, ListedSuspended, SuspendedListed, TimersRight, On
<1>2. SemTypeOK'
    BY SemAssumption DEF IInv, SemTypeOK
<1>3. WaitsInTake' /\ NobodySleepsBesideToken'
    BY DEF IInv, SemTypeOK, WaitsInTake, NobodySleepsBesideToken, Waiters
<1>4. FiringSleeps'
    BY DEF IInv, FiringSleeps, TimeoutFindsSuspended, FlagUntilAsked
<1> QED
    BY <1>1, <1>2, <1>3, <1>4 DEF IInv

LEMMA TakeBlockKeeps ==
    ASSUME IInv, NEW t \in Threads, NEW w \in BOOLEAN, TakeBlock(t, w)
    PROVE  IInv'
<1> USE DEF TakeBlock
<1>1. WaitInv'
    <2>1. stat[t] = "ready" /\ firing = None /\ "EINTR" \in Errors
        BY DEF InThread, Errors
    <2> QED
        BY <2>1, SuspendKeeps, OneList DEF IInv
<1>2. SemTypeOK'
    BY DEF IInv, SemTypeOK, SuspendToList, semVars
<1>3. WaitsInTake'
    BY DEF IInv, SemTypeOK, WaitsInTake, SuspendToList, WaitInv, WaitTypeOK
<1>4. NobodySleepsBesideToken'
    BY DEF NobodySleepsBesideToken, semVars
<1>5. FiringSleeps'
    BY DEF FiringSleeps, TimeoutFindsSuspended, FlagUntilAsked, SuspendToList, InThread
<1> QED
    BY <1>1, <1>2, <1>3, <1>4, <1>5 DEF IInv

LEMMA TakeReturnKeeps ==
    ASSUME IInv, NEW t \in Threads, TakeReturn(t)
    PROVE  IInv'
<1> USE DEF TakeReturn, semVars
<1>1. WaitInv'
    BY DEF IInv, WaitInv, WaitTypeOK, ListedOnce, ListedSuspended, SuspendedListed, TimersRight, On
<1>2. SemTypeOK'
    BY DEF IInv, SemTypeOK
<1>3. WaitsInTake' /\ NobodySleepsBesideToken'
    BY DEF IInv, SemTypeOK, WaitsInTake, NobodySleepsBesideToken, Waiters
<1>4. FiringSleeps'
    BY DEF IInv, FiringSleeps, TimeoutFindsSuspended, FlagUntilAsked
<1> QED
    BY <1>1, <1>2, <1>3, <1>4 DEF IInv

\* Both a thread's release and an interrupt's.
ReleaseStep == alive /\ InInterrupt /\ Release /\ CountNested

LEMMA ReleaseSteps ==
    ASSUME IInv
    PROVE  /\ ReleaseByInterrupt => ReleaseStep
           /\ \A t \in Threads : ReleaseByThread(t) => ReleaseStep
BY DEF ReleaseByInterrupt, ReleaseByThread, ReleaseStep, InThread, InInterrupt, CountNested

LEMMA ReleaseKeeps ==
    ASSUME IInv, ReleaseStep
    PROVE  IInv'
<1>1. nested' \in 0..NestMax /\ nested' = IF firing = None THEN nested ELSE nested + 1
    BY WaitAssumption DEF ReleaseStep, InInterrupt, CountNested, IInv, WaitInv, WaitTypeOK
<1>2. CASE Waiters # <<>>
    <2>1. ResumeFirst("suspend_thread", "EOK") /\ CountToken /\ UNCHANGED <<call, semVars>>
        BY <1>2 DEF ReleaseStep, Release
    <2>2. "EOK" \in Errors
        BY DEF Errors
    <2>3. WaitInv'
        BY <1>1, <2>1, <2>2, OneList, ResumeFirstWakes DEF IInv
    <2>4. PICK w : WakesUp(w, "EOK")
        BY <1>1, <2>1, <2>2, OneList, ResumeFirstWakes DEF IInv
    <2>5. SemTypeOK'
        BY <2>1 DEF IInv, SemTypeOK, semVars, CountToken
    <2>6. WaitsInTake'
        BY <2>1, <2>4 DEF WakesUp, WaitsInTake, IInv
    <2>7. NobodySleepsBesideToken'
        BY <1>2, <2>1 DEF NobodySleepsBesideToken, semVars, IInv
    <2>8. FiringSleeps'
        <3> SUFFICES ASSUME NestMax <= 1, firing' # None
                     PROVE  stat'[firing'] = "suspended" /\ nested' # 0
            BY DEF FiringSleeps, TimeoutFindsSuspended, FlagUntilAsked
        <3>1. firing' = firing /\ firing \in Threads
            BY <2>4 DEF WakesUp, IInv, WaitInv, WaitTypeOK
        <3>2. nested = 0 /\ nested' = 1
            BY <1>1, <3>1, WaitAssumption DEF IInv, WaitInv, WaitTypeOK
        <3>3. stat[firing] = "suspended" /\ ttmr[firing]
            BY <3>1, <3>2 DEF IInv, FiringSleeps, TimeoutFindsSuspended, FlagUntilAsked
        <3>4. ~timer[firing]
            BY <3>1 DEF IInv, WaitInv, TimersRight
        <3>5. firing \notin w
            BY <3>3, <3>4, <2>4 DEF WakesUp, Refuses
        <3> QED
            BY <2>4, <3>1, <3>2, <3>3, <3>5 DEF WakesUp
    <2> QED
        BY <2>3, <2>5, <2>6, <2>7, <2>8 DEF IInv
<1>3. CASE Waiters = <<>>
    <2>1. /\ value < max_value /\ value' = value + 1 /\ credit' = credit + 1
          /\ UNCHANGED <<susp, stat, error, timer, ttmr, firing, call, max_value, alive>>
        BY <1>3 DEF ReleaseStep, Release
    <2>2. WaitInv'
        BY <1>1, <2>1 DEF IInv, WaitInv, WaitTypeOK, ListedOnce, ListedSuspended, SuspendedListed,
                          TimersRight, On
    <2>3. SemTypeOK'
        BY <2>1, SemAssumption DEF IInv, SemTypeOK
    <2>4. WaitsInTake' /\ NobodySleepsBesideToken'
        BY <1>3, <2>1 DEF IInv, WaitsInTake, NobodySleepsBesideToken, Waiters
    <2>5. FiringSleeps'
        BY <1>1, <2>1, WaitAssumption
           DEF IInv, FiringSleeps, TimeoutFindsSuspended, FlagUntilAsked, WaitInv, WaitTypeOK
    <2> QED
        BY <2>2, <2>3, <2>4, <2>5 DEF IInv
<1> QED
    BY <1>2, <1>3

\* All waiting threads are woken with an error: reset, detach, a new limit.
LEMMA WakeAllKeeps ==
    ASSUME IInv, firing = None, nested' = nested, ResumeAll("ERROR"), call' = call, SemTypeOK'
    PROVE  IInv'
<1>1. "ERROR" \in Errors /\ nested' \in 0..NestMax
    BY DEF Errors, IInv, WaitInv, WaitTypeOK
<1>2. /\ WaitInv' /\ \A l \in Lists : susp'[l] = <<>>
      /\ WakesUp({t \in Threads : stat[t] = "suspended"}, "ERROR")
    BY <1>1, ResumeAllWakes DEF IInv
<1>3. WaitsInTake' /\ NobodySleepsBesideToken'
    BY <1>2, OneList DEF WakesUp, IInv, WaitsInTake, NobodySleepsBesideToken, Waiters
<1>4. FiringSleeps'
    BY <1>2 DEF WakesUp, FiringSleeps, TimeoutFindsSuspended, FlagUntilAsked
<1> QED
    BY <1>2, <1>3, <1>4 DEF IInv

LEMMA ControlKeeps ==
    ASSUME IInv, NEW t \in Threads, NEW v \in Values,
           Reset(t, v) \/ SetVlimit(t, v) \/ SemInit(t, v) \/ Detach(t)
    PROVE  IInv'
<1>1. v \in 0..SemMax /\ v \in Int /\ Cardinality(Handed) \in Int /\ SemMax \in 1..SemMax
    BY SemAssumption, HandedFinite
<1>2. CASE Reset(t, v)
    <2>1. SemTypeOK'
        BY <1>1, <1>2 DEF Reset, SemTypeOK, IInv
    <2> QED
        BY <1>2, <2>1, WakeAllKeeps DEF Reset, InThread
<1>3. CASE SetVlimit(t, v)
    <2>1. SemTypeOK'
        BY <1>1, <1>3 DEF SetVlimit, SemTypeOK, IInv, waitVars
    <2>2. CASE v < value /\ Waiters # <<>>
        BY <1>3, <2>1, <2>2, WakeAllKeeps DEF SetVlimit, InThread
    <2>3. CASE ~(v < value /\ Waiters # <<>>)
        <3>1. UNCHANGED waitVars /\ UNCHANGED <<value, alive>>
            BY <1>3, <2>3 DEF SetVlimit
        <3>2. WaitInv'
            BY <3>1 DEF IInv, WaitInv, WaitTypeOK, ListedOnce, ListedSuspended, SuspendedListed,
                        TimersRight, On, waitVars
        <3>3. WaitsInTake' /\ NobodySleepsBesideToken' /\ FiringSleeps'
            BY <3>1 DEF IInv, WaitsInTake, NobodySleepsBesideToken, FiringSleeps, waitVars,
                        TimeoutFindsSuspended, FlagUntilAsked, Waiters
        <3> QED
            BY <2>1, <3>2, <3>3 DEF IInv
    <2> QED
        BY <2>2, <2>3
<1>4. CASE Detach(t)
    <2>1. SemTypeOK'
        BY <1>4 DEF Detach, SemTypeOK, IInv
    <2> QED
        BY <1>4, <2>1, WakeAllKeeps DEF Detach, InThread
<1>5. CASE SemInit(t, v)
    <2>1. susp["suspend_thread"] = <<>>
        BY <1>5 DEF SemInit, IInv, NobodySleepsBesideToken, Waiters
    <2>2. susp' = susp
        BY <1>5, <2>1, OneList DEF SemInit, IInv, WaitInv, WaitTypeOK
    <2>3. SemTypeOK'
        BY <1>1, <1>5 DEF SemInit, SemTypeOK, IInv
    <2>4. WaitInv'
        <3>1. UNCHANGED <<susp, stat, error, timer, ttmr, firing, nested>>
            BY <1>5, <2>2 DEF SemInit
        <3> QED
            BY <3>1 DEF IInv, WaitInv, WaitTypeOK, ListedOnce, ListedSuspended, SuspendedListed,
                        TimersRight, On
    <2>5. WaitsInTake' /\ NobodySleepsBesideToken' /\ FiringSleeps'
        BY <1>5, <2>1, <2>2 DEF SemInit, IInv, WaitsInTake, NobodySleepsBesideToken, FiringSleeps,
                                TimeoutFindsSuspended, FlagUntilAsked, Waiters
    <2> QED
        BY <2>3, <2>4, <2>5 DEF IInv
<1> QED
    BY <1>2, <1>3, <1>4, <1>5

LEMMA TickKeeps ==
    ASSUME IInv, UNCHANGED <<semVars, credit>>,
           (\E t \in Threads : TimerExpires(t)) \/ ThreadTimeout
    PROVE  IInv'
<1>1. ASSUME NEW t \in Threads, TimerExpires(t)
      PROVE  IInv'
    <2>1. WaitInv'
        BY <1>1, TimerExpiresKeeps DEF IInv
    <2>2. SemTypeOK' /\ WaitsInTake' /\ NobodySleepsBesideToken'
        BY <1>1 DEF TimerExpires, IInv, SemTypeOK, WaitsInTake, NobodySleepsBesideToken, Waiters,
                    semVars
    <2>3. FiringSleeps'
        BY <1>1 DEF TimerExpires, IInv, FiringSleeps, TimeoutFindsSuspended, FlagUntilAsked,
                    WaitInv, TimersRight
    <2> QED
        BY <2>1, <2>2, <2>3 DEF IInv
<1>2. CASE ThreadTimeout
    <2>1. /\ WaitInv'
          /\ \A l \in Lists : \A x : On(susp'[l], x) <=> On(susp[l], x) /\ x # firing
        BY <1>2, ThreadTimeoutKeeps DEF IInv
    <2>2. SemTypeOK'
        BY <1>2 DEF ThreadTimeout, IInv, SemTypeOK, semVars
    <2>3. WaitsInTake'
        BY <1>2 DEF ThreadTimeout, IInv, WaitsInTake, WaitInv, WaitTypeOK
    <2>4. NobodySleepsBesideToken'
        <3> SUFFICES ASSUME value > 0 \/ ~alive
                     PROVE  susp'["suspend_thread"] = <<>>
            BY DEF NobodySleepsBesideToken, Waiters, semVars
        <3>1. susp["suspend_thread"] = <<>>
            BY DEF IInv, NobodySleepsBesideToken, Waiters
        <3>2. susp["suspend_thread"] \in Seq(Threads) /\ susp'["suspend_thread"] \in Seq(Threads)
            BY <2>1, OneList DEF WaitInv, WaitTypeOK, IInv
        <3>3. \A x : ~On(susp["suspend_thread"], x)
            BY <3>1, <3>2, NothingOnEmpty
        <3>4. \A x : ~On(susp'["suspend_thread"], x)
            BY <2>1, <3>3, OneList
        <3> QED
            BY <3>2, <3>4, NothingOnEmpty
    <2>5. FiringSleeps'
        BY <1>2 DEF ThreadTimeout, FiringSleeps, TimeoutFindsSuspended, FlagUntilAsked
    <2> QED
        BY <2>1, <2>2, <2>3, <2>4, <2>5 DEF IInv
<1> QED
    BY <1>1, <1>2

LEMMA StutterKeeps ==
    ASSUME IInv, UNCHANGED vars
    PROVE  IInv'
BY DEF IInv, WaitInv, WaitTypeOK, ListedOnce, ListedSuspended, SuspendedListed, TimersRight, On,
       vars, waitVars, semVars, SemTypeOK, WaitsInTake, NobodySleepsBesideToken, Waiters,
       FiringSleeps, TimeoutFindsSuspended, FlagUntilAsked

LEMMA IInvInit == Init => IInv
<1> SUFFICES ASSUME Init PROVE IInv
    OBVIOUS
<1>1. WaitInv
    BY WaitInvInit DEF Init
<1>2. SemTypeOK
    BY SemAssumption DEF Init, WaitInit, SemTypeOK
<1>3. WaitsInTake /\ NobodySleepsBesideToken /\ FiringSleeps
    BY OneList DEF Init, WaitInit, WaitsInTake, NobodySleepsBesideToken, Waiters, FiringSleeps,
           TimeoutFindsSuspended, FlagUntilAsked
<1> QED
    BY <1>1, <1>2, <1>3 DEF IInv

LEMMA IInvNext == IInv /\ [Next]_vars => IInv'
<1> SUFFICES ASSUME IInv, [Next]_vars PROVE IInv'
    OBVIOUS
<1>1. CASE \E t \in Threads : TakeNow(t) \/ TakeReturn(t) \/ \E w \in BOOLEAN : TakeBlock(t, w)
    BY <1>1, TakeNowKeeps, TakeReturnKeeps, TakeBlockKeeps
<1>2. CASE ReleaseByInterrupt \/ \E t \in Threads : ReleaseByThread(t)
    BY <1>2, ReleaseSteps, ReleaseKeeps
<1>3. CASE \E t \in Threads : \E v \in Values : Reset(t, v) \/ SetVlimit(t, v) \/ SemInit(t, v)
    BY <1>3, ControlKeeps
<1>4. CASE \E t \in Threads : Detach(t)
    <2>1. PICK t \in Threads : Detach(t)
        BY <1>4
    <2>2. SemTypeOK' /\ firing = None /\ nested' = nested /\ ResumeAll("ERROR") /\ call' = call
        BY <2>1 DEF Detach, SemTypeOK, IInv, InThread
    <2> QED
        BY <2>2, WakeAllKeeps
<1>5. CASE UNCHANGED <<semVars, credit>> /\ ((\E t \in Threads : TimerExpires(t)) \/ ThreadTimeout)
    BY <1>5, TickKeeps
<1>6. CASE UNCHANGED vars
    BY <1>6, StutterKeeps
<1> QED
    BY <1>1, <1>2, <1>3, <1>4, <1>5, <1>6 DEF Next

LEMMA Invariance == Spec => []IInv
BY IInvInit, IInvNext, PTL DEF Spec

-----------------------------------------------------------------------------
(* The theorems on waiting *)

\* The types of the semaphore's fields and of the threads' wait state: the
\* count stays within its limit and its 16 bits, whatever rt_sem_control does
\* to limit and value meanwhile.
THEOREM TypeCorrect == Spec => []TypeOK
<1>1. IInv => TypeOK
    BY DEF IInv, WaitInv, SemTypeOK, TypeOK
<1> QED
    BY <1>1, Invariance, PTL

\* rt_sem_release gives a token to a waiting thread before it counts it, and
\* detach leaves nobody behind: no thread ever sleeps beside a token or on a
\* semaphore that is gone, whatever interrupts come during a timeout.
THEOREM NobodySleeps == Spec => []NobodySleepsBesideToken
<1>1. IInv => NobodySleepsBesideToken
    BY DEF IInv
<1> QED
    BY <1>1, Invariance, PTL

\* List, state and timer of every thread agree, through every order of
\* rt_susp_list_enqueue, rt_susp_list_dequeue and _thread_timeout.
THEOREM WaitsStayExact == Spec => []WaitsExact
<1>1. ASSUME IInv
      PROVE  WaitsExact
    <2> SUFFICES ASSUME NEW t \in Threads
                 PROVE  /\ (stat[t] = "suspended") = (\E i \in DOMAIN Waiters : Waiters[i] = t)
                        /\ stat[t] = "suspended" => call[t] = "take"
                        /\ timer[t] => stat[t] = "suspended" /\ ttmr[t]
        BY DEF WaitsExact
    <2>1. DOMAIN Waiters = 1..Len(susp["suspend_thread"]) /\ Waiters = susp["suspend_thread"]
        BY <1>1, OneList DEF Waiters, IInv, WaitInv, WaitTypeOK
    <2>2. stat[t] = "suspended" <=> On(susp["suspend_thread"], t)
        BY <1>1, OneList DEF IInv, WaitInv, SuspendedListed, ListedSuspended, On
    <2>3. (stat[t] = "suspended") = (\E i \in DOMAIN Waiters : Waiters[i] = t)
        BY <2>1, <2>2 DEF On
    <2>4. stat[t] = "suspended" => call[t] = "take"
        BY <1>1 DEF IInv, WaitsInTake
    <2>5. timer[t] => stat[t] = "suspended" /\ ttmr[t]
        BY <1>1 DEF IInv, WaitInv, TimersRight
    <2> QED
        BY <2>3, <2>4, <2>5
<1> QED
    BY <1>1, Invariance, PTL

\* The assertion RT_ASSERT(rt_sched_thread_is_suspended(thread)) of
\* _thread_timeout holds as long as at most one interrupt that releases the
\* semaphore gets in between the end of the timer and the call.  (With two it
\* fails: run semaphore_nested.)
THEOREM OneInterruptIsSafe ==
    ASSUME NestMax <= 1
    PROVE  Spec => []TimeoutFindsSuspended
<1>1. IInv => TimeoutFindsSuspended
    BY DEF IInv, FiringSleeps
<1> QED
    BY <1>1, Invariance, PTL

-----------------------------------------------------------------------------
(* The tokens *)

LEMMA SameHanded ==
    ASSUME TokensConserved, SemTypeOK, \A t \in Threads : t \in Handed <=> t \in Handed', alive' = alive,
           NEW d \in Int, value' = value + d, credit' = credit + d
    PROVE  TokensConserved'
<1>1. Handed' = Handed
    BY DEF Handed
<1>2. Cardinality(Handed') = Cardinality(Handed) /\ Cardinality(Handed) \in Nat
    BY <1>1, HandedFinite
<1>3. value \in Int /\ credit \in Int
    BY SemAssumption DEF SemTypeOK
<1> QED
    BY <1>2, <1>3 DEF TokensConserved

LEMMA SameTokens ==
    ASSUME TokensConserved, SemTypeOK, \A t \in Threads : t \in Handed <=> t \in Handed',
           UNCHANGED <<alive, value, credit>>
    PROVE  TokensConserved'
<1>1. 0 \in Int /\ value' = value + 0 /\ credit' = credit + 0 /\ alive' = alive
    BY SemAssumption DEF SemTypeOK
<1> QED
    BY <1>1, SameHanded

\* A hand-over adds one thread to those that have been given a token.
LEMMA HandOver ==
    ASSUME IInv, ReleaseStep, Waiters # <<>>, ~InVain("suspend_thread")
    PROVE  Cardinality(Handed') = Cardinality(Handed) + 1
<1>1. nested' \in 0..NestMax /\ "EOK" \in Errors /\ ResumeFirst("suspend_thread", "EOK") /\ call' = call
    BY WaitAssumption DEF ReleaseStep, Release, CountNested, InInterrupt, Errors, IInv, WaitInv,
       WaitTypeOK
<1>2. WakesUp({susp["suspend_thread"][1]}, "EOK")
    BY <1>1, OneList, ResumeFirstWakes DEF IInv, Waiters
<1> DEFINE u == susp["suspend_thread"][1]
<1>3. u \in Threads /\ stat[u] = "suspended" /\ call[u] = "take"
    <2>1. 1 \in 1..Len(susp["suspend_thread"])
        BY OneList DEF IInv, WaitInv, WaitTypeOK, Waiters
    <2> QED
        BY <2>1, OneList DEF IInv, WaitInv, WaitTypeOK, ListedSuspended, WaitsInTake
<1> HIDE DEF u
<1>4. u \notin Handed
    BY <1>3 DEF Handed
<1>5. Handed' = Handed \cup {u}
    BY <1>1, <1>2, <1>3 DEF Handed, WakesUp, u
<1> QED
    BY <1>4, <1>5, HandedFinite, FS_AddElement

\* When it is in vain, nobody is given a token.
LEMMA NoHandOver ==
    ASSUME IInv, ReleaseStep, InVain("suspend_thread")
    PROVE  Handed' = Handed
<1>1. nested' \in 0..NestMax /\ "EOK" \in Errors /\ ResumeFirst("suspend_thread", "EOK") /\ call' = call
    BY WaitAssumption DEF ReleaseStep, Release, CountNested, InInterrupt, Errors, IInv, WaitInv,
       WaitTypeOK, InVain, Waiters
<1>2. WakesUp({}, "EOK")
    BY <1>1, OneList, ResumeFirstWakes DEF IInv
<1> QED
    BY <1>1, <1>2 DEF Handed, WakesUp

LEMMA TokensNext == IInv /\ IInv' /\ TokensConserved /\ [Next]_vars => TokensConserved'
<1> SUFFICES ASSUME IInv, IInv', TokensConserved, [Next]_vars PROVE TokensConserved'
    OBVIOUS
<1>1. SemTypeOK' /\ SemTypeOK /\ WaitTypeOK
    BY DEF IInv, WaitInv
<1>2. ASSUME NEW t \in Threads, TakeNow(t)
      PROVE  TokensConserved'
    <2>1. \A u \in Threads : u \in Handed <=> u \in Handed'
        BY <1>2 DEF TakeNow, Handed, waitVars
    <2>2. -1 \in Int /\ value' = value + (-1) /\ credit' = credit + (-1) /\ alive' = alive
        BY <1>1, <1>2, SemAssumption DEF TakeNow, SemTypeOK
    <2> QED
        BY <1>1, <2>1, <2>2, SameHanded
<1>3. ASSUME NEW t \in Threads, NEW w \in BOOLEAN, TakeBlock(t, w)
      PROVE  TokensConserved'
    <2>1. \A u \in Threads : u \in Handed <=> u \in Handed'
        BY <1>1, <1>3 DEF TakeBlock, SuspendToList, Handed, InThread, WaitTypeOK, SemTypeOK
    <2> QED
        BY <1>1, <1>3, <2>1, SameTokens DEF TakeBlock, semVars
<1>4. ASSUME NEW t \in Threads, TakeReturn(t)
      PROVE  TokensConserved'
    <2>1. CASE error[t] = "EOK"
        <3>1. t \in Handed
            BY <1>4, <2>1 DEF TakeReturn, Handed
        <3>2. Handed' = Handed \ {t}
            BY <1>1, <1>4, <2>1 DEF TakeReturn, Handed, SemTypeOK
        <3>3. Cardinality(Handed') = Cardinality(Handed) - 1
            BY <3>1, <3>2, HandedFinite, FS_RemoveElement
        <3>4. credit' = credit - 1 /\ value' = value /\ alive' = alive
            BY <1>4, <2>1 DEF TakeReturn, semVars
        <3> QED
            BY <1>1, <3>3, <3>4, HandedFinite DEF TokensConserved, SemTypeOK
    <2>2. CASE error[t] # "EOK"
        <3>1. \A u \in Threads : u \in Handed <=> u \in Handed'
            BY <1>1, <1>4, <2>2 DEF TakeReturn, Handed, SemTypeOK
        <3> QED
            BY <1>1, <1>4, <2>2, <3>1, SameTokens DEF TakeReturn, semVars
    <2> QED
        BY <2>1, <2>2
<1>5. ASSUME ReleaseStep
      PROVE  TokensConserved'
    <2>1. CASE Waiters # <<>>
        <3>1. CountToken /\ value' = value /\ alive' = alive
            BY <1>5, <2>1 DEF ReleaseStep, Release, semVars
        <3>2. CASE InVain("suspend_thread")
            BY <1>5, <3>1, <3>2, NoHandOver DEF CountToken, TokensConserved
        <3>3. CASE ~InVain("suspend_thread")
            <4>1. Cardinality(Handed') = Cardinality(Handed) + 1
                BY <1>5, <2>1, <3>3, HandOver
            <4> QED
                BY <1>1, <3>1, <3>3, <4>1, HandedFinite DEF TokensConserved, SemTypeOK, CountToken
        <3> QED
            BY <3>2, <3>3
    <2>2. CASE Waiters = <<>>
        <3>1. /\ credit' = credit + 1 /\ value' = value + 1
              /\ UNCHANGED <<stat, error, call, alive>>
            BY <1>5, <2>2 DEF ReleaseStep, Release
        <3>2. \A u \in Threads : u \in Handed <=> u \in Handed'
            BY <3>1 DEF Handed
        <3> QED
            BY <1>1, <3>1, <3>2, SameHanded DEF SemTypeOK
    <2> QED
        BY <2>1, <2>2
<1>6. ASSUME firing = None, nested' = nested, ResumeAll("ERROR"), call' = call
      PROVE  Handed' = Handed
    <2>1. "ERROR" \in Errors /\ nested' \in 0..NestMax
        BY <1>1, <1>6 DEF Errors, WaitTypeOK
    <2>2. WakesUp({t \in Threads : stat[t] = "suspended"}, "ERROR")
        BY <1>6, <2>1, ResumeAllWakes DEF IInv
    <2> QED
        BY <1>6, <2>2 DEF WakesUp, Handed
<1>7. ASSUME NEW t \in Threads, NEW v \in Values, Reset(t, v)
      PROVE  TokensConserved'
    <2>1. Handed' = Handed
        BY <1>6, <1>7 DEF Reset, InThread
    <2>2. value' = v /\ credit' = v + Cardinality(Handed) /\ v \in Int
        BY <1>7, SemAssumption DEF Reset
    <2> QED
        BY <2>1, <2>2, HandedFinite DEF TokensConserved
<1>8. ASSUME NEW t \in Threads, NEW v \in Values, SetVlimit(t, v)
      PROVE  TokensConserved'
    <2>1. \A u \in Threads : u \in Handed <=> u \in Handed'
        <3>1. CASE v < value /\ Waiters # <<>>
            BY <1>6, <1>8, <3>1 DEF SetVlimit, InThread
        <3>2. CASE ~(v < value /\ Waiters # <<>>)
            BY <1>8, <3>2 DEF SetVlimit, Handed, waitVars
        <3> QED
            BY <3>1, <3>2
    <2> QED
        BY <1>1, <1>8, <2>1, SameTokens DEF SetVlimit
<1>9. ASSUME NEW t \in Threads, NEW v \in Values, SemInit(t, v)
      PROVE  TokensConserved'
    <2>1. Handed' = Handed
        BY <1>9 DEF SemInit, Handed
    <2>2. value' = v /\ credit' = v + Cardinality(Handed) /\ v \in Int
        BY <1>9, SemAssumption DEF SemInit
    <2> QED
        BY <2>1, <2>2, HandedFinite DEF TokensConserved
<1>10. ASSUME NEW t \in Threads, Detach(t)
       PROVE  TokensConserved'
    BY <1>10 DEF Detach, TokensConserved
<1>11. ASSUME UNCHANGED <<semVars, credit>>,
              (\E t \in Threads : TimerExpires(t)) \/ ThreadTimeout
       PROVE  TokensConserved'
    <2>1. ASSUME NEW u \in Threads
          PROVE  u \in Handed <=> u \in Handed'
        <3>1. CASE \E t \in Threads : TimerExpires(t)
            BY <3>1 DEF TimerExpires, Handed
        <3>2. CASE ThreadTimeout
            BY <1>1, <3>2 DEF ThreadTimeout, Handed, WaitTypeOK
        <3> QED
            BY <1>11, <3>1, <3>2
    <2> QED
        BY <1>1, <1>11, <2>1, SameTokens DEF semVars
<1>12. CASE UNCHANGED vars
    <2>1. Handed' = Handed
        BY <1>12 DEF vars, waitVars, Handed
    <2> QED
        BY <1>12, <2>1 DEF vars, semVars, TokensConserved
<1>13. CASE ReleaseByInterrupt \/ \E t \in Threads : ReleaseByThread(t)
    BY <1>5, <1>13, ReleaseSteps
<1> QED
    BY <1>2, <1>3, <1>4, <1>7, <1>8, <1>9, <1>10, <1>11, <1>12, <1>13 DEF Next

LEMMA TokensInit == Init => TokensConserved
<1> SUFFICES ASSUME Init PROVE TokensConserved
    OBVIOUS
<1>1. Handed = {}
    BY DEF Init, WaitInit, Handed
<1>2. Cardinality(Handed) = 0
    BY <1>1, FS_EmptySet
<1>3. value \in Int
    BY SemAssumption DEF Init
<1> QED
    BY <1>2, <1>3 DEF Init, TokensConserved

\* Tokens are conserved: what rt_sem_release reported as done, less what
\* rt_sem_take reported as taken, is in the count or on its way, for any
\* number of threads and any interleaving of takes, releases, timeouts, resets
\* and new initialisations, and any number of interrupts between the end of a
\* timer and its _thread_timeout.  A token is lost only by a release to the
\* very thread whose timeout is being handled, and none is ever made up.
THEOREM TokensStay == Spec => []TokensConserved
BY TokensInit, TokensNext, Invariance, PTL DEF Spec

-----------------------------------------------------------------------------
(* THE EVENT *)


EvTypeOK ==
    /\ call \in [Threads -> {"none", "recv"}]
    /\ set \subseteq Flags /\ sent \subseteq Flags /\ alive \in BOOLEAN
    /\ event_set \in [Threads -> SUBSET Flags] /\ want \in [Threads -> SUBSET Flags]
    /\ event_info \in [Threads -> Options]
    /\ recved \in [Threads -> SUBSET Flags]

\* A thread waits only inside rt_event_recv.
WaitsInRecv == \A t \in Threads : stat[t] = "suspended" => call[t] = "recv"

Base == WaitInv /\ EvTypeOK /\ WaitsInRecv

\* What a receive of t that got the flags r should have got.
Got(t, r) ==
    /\ r # {} /\ r \subseteq want[t] \cap sent
    /\ event_info[t].and => r = want[t]

\* A thread that sleeps has what it waits for in its event_set, and it is not
\* there.  If an interrupt has tried to wake it during its timeout, event_set
\* is down to what had come, and still some answer to what it asked.
Sleeping(t) ==
    /\ event_set[t] # {} /\ event_set[t] \subseteq want[t]
    /\ event_info[t].and => event_set[t] = want[t]
    /\ firing # t => event_set[t] = want[t] /\ ~Satisfied(want[t], event_info[t], set)

\* A thread that was served and has not run yet has it in event_set, one that
\* has returned in recved.
Answers ==
    /\ set \subseteq sent
    /\ \A t \in Threads :
        /\ stat[t] = "suspended" => Sleeping(t)
        /\ stat[t] = "ready" /\ call[t] = "recv" /\ error[t] = "EOK" => Got(t, event_set[t])
        /\ call[t] = "none" /\ error[t] = "EOK" /\ want[t] # {} => Got(t, recved[t])

\* More flags satisfy more.
LEMMA SatisfiedMonotonic ==
    ASSUME NEW a, NEW o, NEW A, NEW B, A \subseteq B, Satisfied(a, o, A)
    PROVE  Satisfied(a, o, B)
BY DEF Satisfied

-----------------------------------------------------------------------------
(* rt_event_send *)

\* Making the threads of hit ready, some of which may refuse.
LEMMA ReadyAllKeeps ==
    ASSUME WaitInv, NEW hit \in SUBSET Threads, \A t \in hit : stat[t] = "suspended",
           ReadyAll(hit), nested' \in 0..NestMax
    PROVE  WaitInv'
<1> DEFINE woken == {t \in hit : ~Refuses(t)}
<1>1. /\ susp' = [l \in Lists |-> Without(susp[l], woken)]
      /\ stat' = [t \in Threads |-> IF t \in woken THEN "ready" ELSE stat[t]]
      /\ error' = [t \in Threads |-> IF t \in hit THEN "EOK" ELSE error[t]]
      /\ timer' = [t \in Threads |-> timer[t] /\ t \notin woken]
      /\ ttmr' = [t \in Threads |-> ttmr[t] /\ t \notin hit]
      /\ firing' = firing
    BY DEF ReadyAll
<1>2. \A t \in hit : t \in woken \/ (ttmr[t] /\ ~timer[t])
    BY DEF Refuses
<1>3. woken \subseteq hit
    OBVIOUS
<1> HIDE DEF woken
<1>4. /\ susp' \in [Lists -> Seq(Threads)]
      /\ \A l \in Lists : \A x : On(susp'[l], x) <=> On(susp[l], x) /\ x \notin woken
      /\ ListedOnce'
    BY <1>1, WithoutKeepsLists DEF WaitInv, WaitTypeOK
<1>5. WaitTypeOK'
    <2>1. "EOK" \in Errors /\ "ready" \in {"ready", "suspended"}
        BY DEF Errors
    <2>2. timer' \in [Threads -> BOOLEAN] /\ ttmr' \in [Threads -> BOOLEAN]
        BY <1>1 DEF WaitInv, WaitTypeOK
    <2>3. stat' \in [Threads -> {"ready", "suspended"}] /\ error' \in [Threads -> Errors]
        BY <1>1, <2>1 DEF WaitInv, WaitTypeOK
    <2> QED
        BY <1>1, <1>4, <2>2, <2>3 DEF WaitInv, WaitTypeOK
<1>6. ListedSuspended'
    <2> SUFFICES ASSUME NEW k \in Lists, NEW i \in 1..Len(susp'[k])
                 PROVE  stat'[susp'[k][i]] = "suspended"
        BY DEF ListedSuspended
    <2>1. On(susp'[k], susp'[k][i])
        BY DEF On
    <2>2. On(susp[k], susp'[k][i]) /\ susp'[k][i] \notin woken
        BY <1>4, <2>1
    <2>3. stat[susp'[k][i]] = "suspended" /\ susp'[k][i] \in Threads
        BY <2>2 DEF On, ListedSuspended, WaitInv, WaitTypeOK
    <2> QED
        BY <1>1, <2>2, <2>3
<1>7. SuspendedListed'
    BY <1>1, <1>4 DEF SuspendedListed, WaitInv
<1>8. TimersRight'
    <2> SUFFICES ASSUME NEW t \in Threads
                 PROVE  /\ timer'[t] => stat'[t] = "suspended" /\ ttmr'[t] /\ firing' # t
                        /\ stat'[t] = "suspended" /\ ttmr'[t] /\ ~timer'[t] => firing' = t
        BY DEF TimersRight
    <2>1. CASE t \in woken
        BY <1>1, <2>1
    <2>2. CASE t \notin woken
        BY <1>1, <1>2, <1>3, <2>2 DEF TimersRight, WaitInv
    <2> QED
        BY <2>1, <2>2
<1> QED
    BY <1>4, <1>5, <1>6, <1>7, <1>8 DEF WaitInv

\* The threads a send hits are waiting.
LEMMA HitFacts ==
    ASSUME Base, NEW all
    PROVE  /\ Hit(all) \in SUBSET Threads
           /\ \A t \in Hit(all) : stat[t] = "suspended"
           /\ \A t \in Threads :
                  t \in Hit(all) <=>
                      stat[t] = "suspended" /\ Satisfied(event_set[t], event_info[t], all)
<1>1. /\ susp["suspend_thread"] \in Seq(Threads)
      /\ \A t \in ToSet(susp["suspend_thread"]) : t \in Threads /\ stat[t] = "suspended"
    BY OneList DEF Base, WaitInv, WaitTypeOK, ListedSuspended, ToSet
<1>2. ASSUME NEW t \in Threads, stat[t] = "suspended"
      PROVE  t \in ToSet(susp["suspend_thread"])
    <2>1. On(susp["suspend_thread"], t)
        BY <1>2, OneList DEF Base, WaitInv, SuspendedListed
    <2> QED
        BY <1>1, <2>1 DEF On, ToSet
<1> QED
    BY <1>1, <1>2 DEF Hit, Waiters

\* Both a thread's send and an interrupt's.
SendStep(s) == alive /\ InInterrupt /\ Send(s) /\ CountNested

LEMMA SendSteps ==
    ASSUME NEW s
    PROVE  /\ SendByInterrupt(s) => SendStep(s)
           /\ \A t \in Threads : SendByThread(t, s) => SendStep(s)
BY DEF SendByInterrupt, SendByThread, SendStep, InThread, InInterrupt, CountNested

LEMMA SendKeepsBase ==
    ASSUME Base, NEW s \in FlagSets, SendStep(s)
    PROVE  Base'
<1> DEFINE all == set \cup s
           hit == Hit(all)
<1>1. nested' \in 0..NestMax
    BY WaitAssumption DEF SendStep, InInterrupt, CountNested, Base, WaitInv, WaitTypeOK
<1>2. hit \in SUBSET Threads /\ \A t \in hit : stat[t] = "suspended"
    BY HitFacts
<1>3. /\ event_set' = [t \in Threads |-> IF t \in hit THEN event_set[t] \cap all ELSE event_set[t]]
      /\ set' = all \ UNION {event_set'[t] : t \in {u \in hit : event_info[u].clear}}
      /\ ReadyAll(hit)
      /\ sent' = sent \cup s
      /\ UNCHANGED <<call, event_info, want, recved, alive>>
    BY DEF SendStep, Send
<1>4. all \subseteq Flags /\ s \subseteq Flags
    BY DEF Base, EvTypeOK, FlagSets
<1> HIDE DEF all, hit
<1>5. WaitInv'
    BY <1>1, <1>2, <1>3, ReadyAllKeeps DEF Base
<1>6. EvTypeOK'
    <2>1. event_set' \in [Threads -> SUBSET Flags]
        BY <1>3, <1>4 DEF Base, EvTypeOK
    <2>2. set' \subseteq Flags /\ sent' \subseteq Flags
        BY <1>3, <1>4 DEF Base, EvTypeOK
    <2> QED
        BY <1>3, <2>1, <2>2 DEF Base, EvTypeOK
<1>7. WaitsInRecv'
    BY <1>3 DEF ReadyAll, WaitsInRecv, Base
<1> QED
    BY <1>5, <1>6, <1>7 DEF Base

\* A send serves all it hits, but for the thread whose timeout is being
\* handled: that one may stay where it is.
LEMMA SendServes ==
    ASSUME Base, NEW s \in FlagSets, Send(s)
    PROVE  /\ firing' = firing
           /\ \A t \in Threads :
               /\ t \in Hit(set \cup s) /\ ~Refuses(t) => stat'[t] = "ready" /\ error'[t] = "EOK"
               /\ t \in Hit(set \cup s) /\ Refuses(t) => stat'[t] = "suspended" /\ firing = t
               /\ t \notin Hit(set \cup s) => stat'[t] = stat[t] /\ error'[t] = error[t]
<1>1. ASSUME NEW t \in Threads, t \in Hit(set \cup s)
      PROVE  stat[t] = "suspended" /\ (Refuses(t) => firing = t)
    <2>1. stat[t] = "suspended"
        BY <1>1, HitFacts
    <2> QED
        BY <2>1 DEF Refuses, Base, WaitInv, TimersRight
<1> DEFINE hit == Hit(set \cup s)
           woken == {t \in hit : ~Refuses(t)}
<1>2. /\ stat' = [t \in Threads |-> IF t \in woken THEN "ready" ELSE stat[t]]
      /\ error' = [t \in Threads |-> IF t \in hit THEN "EOK" ELSE error[t]]
      /\ firing' = firing
    BY DEF Send, ReadyAll
<1>3. \A t : t \in woken <=> t \in hit /\ ~Refuses(t)
    OBVIOUS
<1> HIDE DEF woken
<1> QED
    BY <1>1, <1>2, <1>3

LEMMA SendKeepsAnswers ==
    ASSUME Base, Answers, NEW s \in FlagSets, SendStep(s)
    PROVE  Answers'
<1> DEFINE all == set \cup s
           hit == Hit(all)
<1>2. \A t \in Threads :
          t \in hit <=> stat[t] = "suspended" /\ Satisfied(event_set[t], event_info[t], all)
    BY HitFacts
<1>3. /\ firing' = firing
      /\ \A t \in Threads :
          /\ t \in hit /\ ~Refuses(t) => stat'[t] = "ready" /\ error'[t] = "EOK"
          /\ t \in hit /\ Refuses(t) => stat'[t] = "suspended" /\ firing = t
          /\ t \notin hit => stat'[t] = stat[t] /\ error'[t] = error[t]
    BY SendServes DEF SendStep
<1>4. /\ \A t \in Threads : event_set'[t] = IF t \in hit THEN event_set[t] \cap all ELSE event_set[t]
      /\ set' \subseteq all
      /\ sent' = sent \cup s
      /\ UNCHANGED <<call, event_info, want, recved>>
    BY DEF SendStep, Send
<1>5. all \subseteq sent' /\ sent \subseteq sent'
    BY <1>4 DEF Answers
<1> HIDE DEF all, hit
<1>6. set' \subseteq sent'
    BY <1>4, <1>5
<1>7. ASSUME NEW t \in Threads, t \in hit
      PROVE  /\ Got(t, event_set[t])' /\ call'[t] = "recv"
             /\ stat'[t] = "suspended" => Sleeping(t)'
    <2>1. /\ event_set[t] # {} /\ event_set[t] \subseteq want[t]
          /\ event_info[t].and => event_set[t] = want[t]
          /\ Satisfied(event_set[t], event_info[t], all) /\ call[t] = "recv"
        BY <1>2, <1>7 DEF Answers, Sleeping, Base, WaitsInRecv
    <2>2. event_set'[t] = event_set[t] \cap all
        BY <1>4, <1>7, <2>1
    <2>3. event_set'[t] # {} /\ (event_info[t].and => event_set'[t] = want[t])
        BY <2>1, <2>2 DEF Satisfied
    <2>4. event_set'[t] \subseteq want[t] \cap sent'
        BY <1>5, <2>1, <2>2
    <2>5. stat'[t] = "suspended" => firing' = t
        BY <1>3, <1>7
    <2> QED
        BY <1>4, <2>1, <2>3, <2>4, <2>5 DEF Got, Sleeping
<1>8. ASSUME NEW t \in Threads, t \notin hit
      PROVE  /\ stat'[t] = "suspended" => Sleeping(t)'
             /\ stat'[t] = "ready" /\ call'[t] = "recv" /\ error'[t] = "EOK" => Got(t, event_set[t])'
             /\ call'[t] = "none" /\ error'[t] = "EOK" /\ want'[t] # {} => Got(t, recved[t])'
    <2>1. stat'[t] = stat[t] /\ error'[t] = error[t] /\ event_set'[t] = event_set[t]
        BY <1>3, <1>4, <1>8
    <2>2. ASSUME stat[t] = "suspended"
          PROVE  Sleeping(t)'
        <3>1. /\ event_set[t] # {} /\ event_set[t] \subseteq want[t]
              /\ event_info[t].and => event_set[t] = want[t]
              /\ firing # t => event_set[t] = want[t]
            BY <2>2 DEF Answers, Sleeping
        <3>2. firing # t => ~Satisfied(want[t], event_info[t], all)
            BY <1>2, <1>8, <2>2, <3>1
        <3>3. firing # t => ~Satisfied(want[t], event_info[t], set')
            BY <1>4, <3>2, SatisfiedMonotonic
        <3> QED
            BY <1>3, <1>4, <2>1, <3>1, <3>3 DEF Sleeping
    <2>3. ASSUME NEW r, Got(t, r)
          PROVE  r # {} /\ r \subseteq want'[t] \cap sent' /\ (event_info'[t].and => r = want'[t])
        BY <1>4, <1>5, <2>3 DEF Got
    <2>4. stat'[t] = "ready" /\ call'[t] = "recv" /\ error'[t] = "EOK" => Got(t, event_set[t])'
        BY <1>4, <2>1, <2>3 DEF Answers, Got
    <2>5. call'[t] = "none" /\ error'[t] = "EOK" /\ want'[t] # {} => Got(t, recved[t])'
        BY <1>4, <2>1, <2>3 DEF Answers, Got
    <2> QED
        BY <2>1, <2>2, <2>4, <2>5
<1> QED
    BY <1>4, <1>6, <1>7, <1>8 DEF Answers

-----------------------------------------------------------------------------
(* _rt_event_recv *)

LEMMA RecvNowKeeps ==
    ASSUME Base, NEW t \in Threads, NEW s \in FlagSets, NEW option \in Options,
           RecvNow(t, s, option)
    PROVE  Base' /\ (Answers => Answers')
<1>1. WaitInv'
    <2>1. "EOK" \in Errors
        BY DEF Errors
    <2>2. error' \in [Threads -> Errors] /\ nested' \in 0..NestMax
        BY <2>1 DEF RecvNow, Base, WaitInv, WaitTypeOK
    <2> QED
        BY <2>2, StillWaiting DEF RecvNow, Base
<1>2. EvTypeOK'
    BY DEF RecvNow, Base, EvTypeOK, FlagSets
<1>3. WaitsInRecv'
    BY DEF RecvNow, Base, WaitsInRecv
<1>4. ASSUME Answers
      PROVE  Answers'
    <2>1. set' \subseteq set /\ sent' = sent /\ set' \subseteq sent'
        BY <1>4 DEF RecvNow, Answers
    <2>2. stat' = stat /\ call' = call /\ firing' = firing /\ call[t] = "none" /\ stat[t] = "ready"
        BY DEF RecvNow, InThread
    <2>3. ASSUME NEW u \in Threads, u # t
          PROVE  /\ event_set'[u] = event_set[u] /\ want'[u] = want[u] /\ recved'[u] = recved[u]
                 /\ event_info'[u] = event_info[u] /\ error'[u] = error[u]
        BY <2>3 DEF RecvNow, Base, EvTypeOK, WaitInv, WaitTypeOK
    <2>4. ASSUME NEW u \in Threads, u # t, stat[u] = "suspended"
          PROVE  Sleeping(u)'
        <3>1. Sleeping(u)
            BY <1>4, <2>4 DEF Answers
        <3>2. firing # u => ~Satisfied(want[u], event_info[u], set')
            BY <2>1, <3>1, SatisfiedMonotonic DEF Sleeping
        <3> QED
            BY <2>2, <2>3, <2>4, <3>1, <3>2 DEF Sleeping
    <2>5. ASSUME NEW u \in Threads, u # t
          PROVE  /\ stat'[u] = "ready" /\ call'[u] = "recv" /\ error'[u] = "EOK" =>
                        Got(u, event_set[u])'
                 /\ call'[u] = "none" /\ error'[u] = "EOK" /\ want'[u] # {} => Got(u, recved[u])'
        BY <1>4, <2>1, <2>2, <2>3, <2>5 DEF Answers, Got
    <2>6. Got(t, recved[t])'
        <3>1. recved'[t] = set \cap s /\ want'[t] = s /\ event_info'[t] = option
            BY DEF RecvNow, Base, EvTypeOK
        <3>2. Satisfied(s, option, set) /\ set \subseteq sent
            BY <1>4 DEF RecvNow, Answers
        <3>3. s # {}
            BY DEF FlagSets
        <3> QED
            BY <2>1, <3>1, <3>2, <3>3 DEF Got, Satisfied
    <2> QED
        BY <2>1, <2>2, <2>4, <2>5, <2>6 DEF Answers
<1> QED
    BY <1>1, <1>2, <1>3, <1>4 DEF Base

LEMMA RecvWaitKeeps ==
    ASSUME Base, NEW t \in Threads, NEW s \in FlagSets, NEW option \in Options, NEW w \in BOOLEAN,
           RecvWait(t, s, option, w)
    PROVE  Base' /\ (Answers => Answers')
<1>1. WaitInv'
    <2>1. stat[t] = "ready" /\ firing = None /\ "EINTR" \in Errors
        BY DEF RecvWait, InThread, Errors
    <2> QED
        BY <2>1, SuspendKeeps, OneList DEF RecvWait, Base
<1>2. EvTypeOK'
    BY DEF RecvWait, SuspendToList, Base, EvTypeOK, FlagSets
<1>3. WaitsInRecv'
    BY DEF RecvWait, SuspendToList, Base, WaitsInRecv, EvTypeOK, WaitInv, WaitTypeOK
<1>4. ASSUME Answers
      PROVE  Answers'
    <2>1. set' = set /\ sent' = sent /\ recved' = recved /\ firing' = firing
        BY DEF RecvWait, SuspendToList
    <2>2. ASSUME NEW u \in Threads, u # t
          PROVE  /\ event_set'[u] = event_set[u] /\ want'[u] = want[u] /\ stat'[u] = stat[u]
                 /\ event_info'[u] = event_info[u] /\ error'[u] = error[u] /\ call'[u] = call[u]
        BY <2>2 DEF RecvWait, SuspendToList, Base, EvTypeOK, WaitInv, WaitTypeOK
    <2>3. /\ event_set'[t] = s /\ want'[t] = s /\ s # {} /\ stat'[t] = "suspended"
          /\ event_info'[t] = option /\ error'[t] = "EINTR" /\ ~Satisfied(s, option, set)
          /\ call'[t] = "recv"
        <3>1. s # {}
            BY DEF FlagSets
        <3>2. /\ event_set'[t] = s /\ want'[t] = s /\ event_info'[t] = option /\ call'[t] = "recv"
              /\ ~Satisfied(s, option, set)
            BY DEF RecvWait, SuspendToList, Base, EvTypeOK, WaitInv, WaitTypeOK
        <3>3. stat'[t] = "suspended" /\ error'[t] = "EINTR"
            BY DEF RecvWait, SuspendToList, Base, WaitInv, WaitTypeOK
        <3> QED
            BY <3>1, <3>2, <3>3
    <2>4. Sleeping(t)'
        BY <2>1, <2>3 DEF Sleeping
    <2>5. ASSUME NEW u \in Threads, u # t
          PROVE  /\ stat'[u] = "suspended" => Sleeping(u)'
                 /\ stat'[u] = "ready" /\ call'[u] = "recv" /\ error'[u] = "EOK" =>
                        Got(u, event_set[u])'
                 /\ call'[u] = "none" /\ error'[u] = "EOK" /\ want'[u] # {} => Got(u, recved[u])'
        BY <1>4, <2>1, <2>2, <2>5 DEF Answers, Got, Sleeping
    <2>6. set' \subseteq sent'
        BY <1>4, <2>1 DEF Answers
    <2> QED
        BY <2>3, <2>4, <2>5, <2>6 DEF Answers
<1> QED
    BY <1>1, <1>2, <1>3, <1>4 DEF Base

LEMMA RecvBackKeeps ==
    ASSUME Base, NEW t \in Threads, RecvBack(t)
    PROVE  Base' /\ (Answers => Answers')
<1>1. WaitInv'
    <2>1. error' \in [Threads -> Errors] /\ nested' \in 0..NestMax
        BY DEF RecvBack, Base, WaitInv, WaitTypeOK
    <2> QED
        BY <2>1, StillWaiting DEF RecvBack, Base
<1>2. EvTypeOK'
    BY DEF RecvBack, Base, EvTypeOK
<1>3. WaitsInRecv'
    BY DEF RecvBack, Base, WaitsInRecv, EvTypeOK
<1>4. ASSUME Answers
      PROVE  Answers'
    <2>1. /\ UNCHANGED <<stat, error, firing, set, event_set, event_info, want, sent>>
          /\ \A u \in Threads : u # t => call'[u] = call[u] /\ recved'[u] = recved[u]
          /\ call'[t] = "none" /\ call[t] = "recv" /\ stat[t] = "ready"
          /\ error[t] = "EOK" => recved'[t] = event_set[t]
        BY DEF RecvBack, Base, EvTypeOK
    <2>2. ASSUME error[t] = "EOK"
          PROVE  Got(t, recved[t])'
        BY <1>4, <2>1, <2>2 DEF Answers, Got
    <2>3. ASSUME NEW u \in Threads, u # t
          PROVE  /\ stat'[u] = "suspended" => Sleeping(u)'
                 /\ stat'[u] = "ready" /\ call'[u] = "recv" /\ error'[u] = "EOK" =>
                        Got(u, event_set[u])'
                 /\ call'[u] = "none" /\ error'[u] = "EOK" /\ want'[u] # {} => Got(u, recved[u])'
        BY <1>4, <2>1, <2>3 DEF Answers, Got, Sleeping
    <2>4. set' \subseteq sent'
        BY <1>4, <2>1 DEF Answers
    <2> QED
        BY <2>1, <2>2, <2>3, <2>4 DEF Answers
<1> QED
    BY <1>1, <1>2, <1>3, <1>4 DEF Base

-----------------------------------------------------------------------------
(* Reset, detach and the tick interrupt *)

LEMMA EventWakeAllKeeps ==
    ASSUME Base, firing = None, ResumeAll("ERROR"), set' \subseteq set, alive' \in BOOLEAN,
           UNCHANGED <<call, nested, evVars, sent>>
    PROVE  Base' /\ (Answers => Answers')
<1> DEFINE w == {t \in Threads : stat[t] = "suspended"}
<1>1. "ERROR" \in Errors /\ nested' \in 0..NestMax
    BY DEF Errors, Base, WaitInv, WaitTypeOK
<1>2. WaitInv' /\ WakesUp(w, "ERROR")
    BY <1>1, ResumeAllWakes DEF Base
<1>3. \A t \in Threads :
          /\ t \in w => stat'[t] = "ready" /\ error'[t] = "ERROR"
          /\ t \notin w => stat'[t] = stat[t] /\ error'[t] = error[t] /\ stat[t] # "suspended"
    BY <1>2 DEF WakesUp
<1> HIDE DEF w
<1>4. EvTypeOK' /\ WaitsInRecv'
    BY <1>3 DEF Base, EvTypeOK, WaitsInRecv, evVars
<1>5. ASSUME Answers
      PROVE  Answers'
    <2>1. ASSUME NEW u \in Threads
          PROVE  /\ stat'[u] # "suspended"
                 /\ stat'[u] = "ready" /\ call'[u] = "recv" /\ error'[u] = "EOK" =>
                        Got(u, event_set[u])'
                 /\ call'[u] = "none" /\ error'[u] = "EOK" /\ want'[u] # {} => Got(u, recved[u])'
        <3>1. CASE u \in w
            BY <1>3, <3>1
        <3>2. CASE u \notin w
            BY <1>3, <1>5, <3>2 DEF Answers, Got, evVars
        <3> QED
            BY <3>1, <3>2
    <2>2. set' \subseteq sent'
        BY <1>5 DEF Answers
    <2> QED
        BY <2>1, <2>2 DEF Answers
<1> QED
    BY <1>2, <1>4, <1>5 DEF Base

LEMMA EventTickKeeps ==
    ASSUME Base, EventTick
    PROVE  Base' /\ (Answers => Answers')
<1>1. UNCHANGED <<set, evVars, alive, sent, call>>
    BY DEF EventTick, TimerExpires, ThreadTimeout
<1>2. ASSUME NEW t \in Threads, TimerExpires(t)
      PROVE  Base' /\ (Answers => Answers')
    <2>1. WaitInv' /\ UNCHANGED <<stat, error>> /\ \A u \in Threads : firing # u
        BY <1>2, TimerExpiresKeeps, WaitAssumption DEF Base, TimerExpires
    <2>2. Base'
        BY <1>1, <2>1 DEF Base, EvTypeOK, WaitsInRecv, evVars
    <2>3. ASSUME NEW u \in Threads
          PROVE  Sleeping(u) => Sleeping(u)'
        BY <1>1, <2>1 DEF evVars, Sleeping
    <2> QED
        BY <1>1, <2>1, <2>2, <2>3 DEF evVars, Answers, Got
<1>3. CASE ThreadTimeout
    <2>1. WaitInv'
        BY <1>3, ThreadTimeoutKeeps DEF Base
    <2>2. /\ firing \in Threads /\ stat'[firing] = "ready" /\ error'[firing] = "ETIMEOUT"
          /\ \A u \in Threads : u # firing => stat'[u] = stat[u] /\ error'[u] = error[u]
        BY <1>3 DEF ThreadTimeout, Base, WaitInv, WaitTypeOK
    <2>3. EvTypeOK' /\ WaitsInRecv'
        BY <1>1, <2>2 DEF Base, EvTypeOK, WaitsInRecv, evVars
    <2>4. ASSUME Answers
          PROVE  Answers'
        <3>1. ASSUME NEW u \in Threads
              PROVE  /\ stat'[u] = "suspended" => Sleeping(u)'
                     /\ stat'[u] = "ready" /\ call'[u] = "recv" /\ error'[u] = "EOK" =>
                            Got(u, event_set[u])'
                     /\ call'[u] = "none" /\ error'[u] = "EOK" /\ want'[u] # {} =>
                            Got(u, recved[u])'
            <4>1. CASE u = firing
                BY <2>2, <4>1
            <4>2. CASE u # firing
                BY <1>1, <2>2, <2>4, <4>2 DEF Answers, Got, Sleeping, evVars
            <4> QED
                BY <4>1, <4>2
        <3>2. set' \subseteq sent'
            BY <1>1, <2>4 DEF Answers
        <3> QED
            BY <3>1, <3>2 DEF Answers
    <2> QED
        BY <2>1, <2>3, <2>4 DEF Base
<1> QED
    BY <1>2, <1>3 DEF EventTick

-----------------------------------------------------------------------------
(* The theorems *)

LEMMA InvInit == EventInit => Base /\ Answers
<1> SUFFICES ASSUME EventInit PROVE Base /\ Answers
    OBVIOUS
<1>1. WaitInv
    BY WaitInvInit DEF EventInit
<1>2. EvTypeOK /\ WaitsInRecv
    BY DEF EventInit, WaitInit, EvTypeOK, WaitsInRecv, Options
<1>3. Answers
    BY DEF EventInit, WaitInit, Answers
<1> QED
    BY <1>1, <1>2, <1>3 DEF Base

LEMMA InvNext == Base /\ [EventNext]_eventVars => Base' /\ (Answers => Answers')
<1> SUFFICES ASSUME Base, [EventNext]_eventVars PROVE Base' /\ (Answers => Answers')
    OBVIOUS
<1>1. ASSUME NEW s \in FlagSets,
             SendByInterrupt(s) \/ \E t \in Threads : SendByThread(t, s)
      PROVE  Base' /\ (Answers => Answers')
    <2>1. SendStep(s)
        BY <1>1, SendSteps
    <2> QED
        BY <2>1, SendKeepsBase, SendKeepsAnswers
<1>2. ASSUME NEW t \in Threads, NEW s \in FlagSets, NEW option \in Options,
             RecvNow(t, s, option) \/ \E w \in BOOLEAN : RecvWait(t, s, option, w)
      PROVE  Base' /\ (Answers => Answers')
    BY <1>2, RecvNowKeeps, RecvWaitKeeps
<1>3. ASSUME NEW t \in Threads, RecvBack(t)
      PROVE  Base' /\ (Answers => Answers')
    BY <1>3, RecvBackKeeps
<1>4. ASSUME NEW t \in Threads, EventReset(t) \/ EventDetach(t)
      PROVE  Base' /\ (Answers => Answers')
    <2>1. /\ firing = None /\ ResumeAll("ERROR") /\ set' \subseteq set /\ alive' \in BOOLEAN
          /\ UNCHANGED <<call, nested, evVars, sent>>
        BY <1>4 DEF EventReset, EventDetach, InThread, Base, EvTypeOK
    <2> QED
        BY <2>1, EventWakeAllKeeps
<1>5. CASE EventTick
    BY <1>5, EventTickKeeps
<1>6. CASE UNCHANGED eventVars
    <2>1. WaitInv'
        BY <1>6, StillWaiting DEF eventVars, waitVars, Base, WaitInv, WaitTypeOK
    <2> QED
        BY <1>6, <2>1 DEF eventVars, waitVars, evVars, Base, EvTypeOK, WaitsInRecv, Answers, Got, Sleeping
<1> QED
    BY <1>1, <1>2, <1>3, <1>4, <1>5, <1>6 DEF EventNext

LEMMA BaseInvariance == EventSpec => []Base
<1>1. Base /\ [EventNext]_eventVars => Base'
    BY InvNext
<1> QED
    BY <1>1, InvInit, PTL DEF EventSpec

LEMMA AnswersInvariance == EventSpec => [](Base /\ Answers)
<1>1. (Base /\ Answers) /\ [EventNext]_eventVars => (Base /\ Answers)'
    BY InvNext
<1> QED
    BY <1>1, InvInit, PTL DEF EventSpec

\* Types, with the state of every waiting thread, whatever interrupts come
\* during a timeout.
THEOREM EventTypeCorrect == EventSpec => []EventTypeOK
<1>1. Base => EventTypeOK
    BY DEF Base, WaitInv, EvTypeOK, EventTypeOK
<1> QED
    BY <1>1, BaseInvariance, PTL

\* rt_event_send wakes everybody whose flags are there, and rt_event_recv
\* waits only if they are not: no thread waits for what is there, but for the
\* one whose timeout is being handled.
THEOREM NobodyWaits == EventSpec => []NobodyWaitsSatisfied
<1>1. ASSUME Base, Answers
      PROVE  NobodyWaitsSatisfied
    <2> SUFFICES ASSUME NEW t \in ToSet(susp["suspend_thread"]), t # firing
                 PROVE  ~Satisfied(want[t], event_info[t], set)
        BY DEF NobodyWaitsSatisfied, Waiters
    <2>1. t \in Threads /\ stat[t] = "suspended"
        BY <1>1, OneList DEF Base, WaitInv, WaitTypeOK, ListedSuspended, ToSet
    <2> QED
        BY <1>1, <2>1 DEF Answers, Sleeping
<1> QED
    BY <1>1, AnswersInvariance, PTL

\* What rt_event_recv returns is what was asked for and was sent, although it
\* is the sender that leaves it in the thread's event_set and the thread reads
\* it only when it runs again; a send that comes during the thread's timeout
\* leaves nothing there that a later success could return by mistake.
THEOREM ReceivesAsAsked == EventSpec => []ReceivedAsAsked
<1>1. Answers => ReceivedAsAsked
    BY DEF Answers, ReceivedAsAsked, Got
<1> QED
    BY <1>1, AnswersInvariance, PTL

\* A send clears only the flags of threads it serves, or could not serve
\* because of their timeout.
LEMMA SendClears ==
    ASSUME Base, NEW s \in FlagSets, SendStep(s), NEW f \in set \ set'
    PROVE  \E t \in Threads : Clears(t, f) \/ Forfeits(t, f)
<1>2. PICK t \in Hit(set \cup s) : f \in event_set'[t] /\ event_info[t].clear
    BY DEF SendStep, Send
<1>3. t \in Threads /\ stat[t] = "suspended"
    BY HitFacts
<1>4. /\ ~Refuses(t) => stat'[t] = "ready" /\ error'[t] = "EOK"
      /\ Refuses(t) => stat'[t] = "suspended" /\ firing = t
    BY <1>3, SendServes DEF SendStep
<1>5. event_info' = event_info
    BY DEF SendStep, Send
<1>6. CASE ~Refuses(t)
    <2>1. Clears(t, f)
        BY <1>2, <1>3, <1>4, <1>5, <1>6 DEF Clears
    <2> QED
        BY <1>3, <2>1
<1>7. CASE Refuses(t)
    <2>1. Forfeits(t, f)
        BY <1>2, <1>3, <1>4, <1>7 DEF Forfeits
    <2> QED
        BY <1>3, <2>1
<1> QED
    BY <1>6, <1>7

\* A flag goes only when somebody who asked to clear it receives it or misses
\* it by the timeout being handled, or with a reset: serving one thread never
\* takes another's flags away.
THEOREM FlagsAreKept == EventSpec => FlagsStay
<1> DEFINE Kept == \A f \in set \ set' : \E t \in Threads :
                       Clears(t, f) \/ Forfeits(t, f) \/ EventReset(t)
<1>1. ASSUME Base, [EventNext]_eventVars
      PROVE  Kept
    <2>1. ASSUME NEW s \in FlagSets, SendByInterrupt(s) \/ \E t \in Threads : SendByThread(t, s)
          PROVE  Kept
        <3>1. SendStep(s)
            BY <2>1, SendSteps
        <3> QED
            BY <1>1, <3>1, SendClears
    <2>2. ASSUME NEW t \in Threads, NEW s \in FlagSets, NEW option \in Options,
                 RecvNow(t, s, option)
          PROVE  Kept
        <3>1. /\ event_set'[t] = set \cap s /\ event_info'[t] = option
              /\ set' = IF option.clear THEN set \ s ELSE set
            BY <1>1, <2>2 DEF RecvNow, Base, EvTypeOK
        <3>2. ASSUME NEW f \in set \ set'
              PROVE  Clears(t, f)
            <4>1. f \in event_set'[t] /\ event_info'[t].clear
                BY <3>1
            <4> QED
                BY <2>2, <4>1 DEF Clears
        <3> QED
            BY <3>2
    <2>3. CASE \E t \in Threads : EventReset(t)
        BY <2>3
    <2>4. CASE set' = set
        BY <2>4
    <2>5. CASE EventTick \/ UNCHANGED eventVars \/ \E t \in Threads : RecvBack(t) \/ EventDetach(t)
        BY <2>4, <2>5 DEF EventTick, eventVars, RecvBack, EventDetach
    <2>6. ASSUME NEW t \in Threads, NEW s, NEW option, NEW w, RecvWait(t, s, option, w)
          PROVE  Kept
        BY <2>4, <2>6 DEF RecvWait
    <2> HIDE DEF Kept
    <2> QED
        BY <1>1, <2>1, <2>2, <2>3, <2>5, <2>6 DEF EventNext
<1>2. Base /\ [EventNext]_eventVars => [Kept]_eventVars
    BY <1>1
<1>3. EventSpec => [][Kept]_eventVars
    BY <1>2, BaseInvariance, PTL DEF EventSpec
<1> QED
    BY <1>3 DEF FlagsStay

=============================================================================
