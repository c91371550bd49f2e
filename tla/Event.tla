-------------------------------- MODULE Event --------------------------------
(***************************************************************************)
(* The kernel's event (src/ipc.c): a set of flags that threads wait for,   *)
(* for all of some flags or for one of them, clearing what they receive or *)
(* not.  A send wakes every thread it satisfies, and the flags they clear  *)
(* go only after the last of them was served.                              *)
(***************************************************************************)
EXTENDS IpcObject

CONSTANTS Flags

VARIABLES
    set,                        \* event->set
    event_set, event_info,      \* of each thread
    want,                       \* the set a receive was called with
    recved,                     \* the *recved it has filled in
    sent                        \* history: the flags that were ever sent

evVars == <<event_set, event_info, want, recved>>
eventVars == <<waitVars, set, evVars, alive, sent>>

\* RT_EVENT_FLAG_AND or RT_EVENT_FLAG_OR, RT_EVENT_FLAG_CLEAR
Options == [and : BOOLEAN, clear : BOOLEAN]

FlagSets == (SUBSET Flags) \ {{}}

Satisfied(asked, option, flags) ==
    IF option.and THEN asked \subseteq flags ELSE asked \cap flags # {}

\* rt_sched_thread_ready for each thread of hit; thread->error is set even if
\* that fails.
ReadyAll(hit) ==
    LET woken == {t \in hit : ~Refuses(t)}
    IN  /\ susp' = [l \in Lists |-> Without(susp[l], woken)]
        /\ stat' = [t \in Threads |-> IF t \in woken THEN "ready" ELSE stat[t]]
        /\ error' = [t \in Threads |-> IF t \in hit THEN "EOK" ELSE error[t]]
        /\ timer' = [t \in Threads |-> timer[t] /\ t \notin woken]
        /\ ttmr' = [t \in Threads |-> ttmr[t] /\ t \notin hit]
        /\ UNCHANGED firing

-----------------------------------------------------------------------------
(* rt_event_send, by a thread or an interrupt *)

\* The threads a walk of the suspend list wakes when the flags are all.
Hit(all) == {t \in ToSet(Waiters) : Satisfied(event_set[t], event_info[t], all)}

\* Mutant: only the flags being sent are looked at.
SendNewOnly(s) ==
    LET all == set \cup s
        hit == Hit(s)
    IN  /\ event_set' = [t \in Threads |-> IF t \in hit THEN event_set[t] \cap all ELSE event_set[t]]
        /\ set' = all \ UNION {event_set'[t] : t \in {u \in hit : event_info[u].clear}}
        /\ ReadyAll(hit)
        /\ sent' = sent \cup s
        /\ UNCHANGED <<call, event_info, want, recved, alive>>

\* Mutant: the set a thread waited for is not cut down to what has come.
SendNotNarrowed(s) ==
    LET all == set \cup s
        hit == Hit(all)
    IN  /\ set' = all \ UNION {event_set[t] : t \in {u \in hit : event_info[u].clear}}
        /\ ReadyAll(hit)
        /\ sent' = sent \cup s
        /\ UNCHANGED <<call, event_set, event_info, want, recved, alive>>

\* What a woken thread receives is left in its event_set: all it asked for,
\* or that part of it that has come.
Send(s) ==
    LET all == set \cup s
        hit == Hit(all)
    IN  /\ event_set' = [t \in Threads |-> IF t \in hit THEN event_set[t] \cap all ELSE event_set[t]]
        /\ set' = all \ UNION {event_set'[t] : t \in {u \in hit : event_info[u].clear}}
        /\ ReadyAll(hit)
        /\ sent' = sent \cup s
        /\ UNCHANGED <<call, event_info, want, recved, alive>>

SendByThread(t, s) == InThread(t) /\ alive /\ Send(s) /\ UNCHANGED nested
SendByInterrupt(s) == InInterrupt /\ alive /\ Send(s) /\ CountNested

-----------------------------------------------------------------------------
(* _rt_event_recv *)

\* Mutant: all flags are cleared, not those asked for.
RecvNowClearsAll(t, s, option) ==
    /\ InThread(t) /\ alive /\ Satisfied(s, option, set)
    /\ error' = [error EXCEPT ![t] = "EOK"]
    /\ recved' = [recved EXCEPT ![t] = set \cap s]
    /\ event_set' = [event_set EXCEPT ![t] = set \cap s]
    /\ event_info' = [event_info EXCEPT ![t] = option]
    /\ want' = [want EXCEPT ![t] = s]
    /\ set' = IF option.clear THEN {} ELSE set
    /\ UNCHANGED <<susp, stat, timer, ttmr, firing, nested, call, alive, sent>>

RecvNow(t, s, option) ==
    /\ InThread(t) /\ alive /\ Satisfied(s, option, set)
    /\ error' = [error EXCEPT ![t] = "EOK"]
    /\ recved' = [recved EXCEPT ![t] = set \cap s]
    /\ event_set' = [event_set EXCEPT ![t] = set \cap s]
    /\ event_info' = [event_info EXCEPT ![t] = option]
    /\ want' = [want EXCEPT ![t] = s]
    /\ set' = IF option.clear THEN set \ s ELSE set
    /\ UNCHANGED <<susp, stat, timer, ttmr, firing, nested, call, alive, sent>>

\* A call with timeout 0 returns -RT_ETIMEOUT, any other one waits.
RecvWait(t, s, option, withTimeout) ==
    /\ InThread(t) /\ alive /\ ~Satisfied(s, option, set)
    /\ SuspendToList(t, "suspend_thread", "EINTR", withTimeout, "recv")
    /\ event_set' = [event_set EXCEPT ![t] = s]
    /\ event_info' = [event_info EXCEPT ![t] = option]
    /\ want' = [want EXCEPT ![t] = s]
    /\ UNCHANGED <<set, recved, alive, sent>>

\* Back from rt_schedule; *recved is filled in only now.
RecvBack(t) ==
    /\ firing = None /\ stat[t] = "ready" /\ call[t] = "recv"
    /\ call' = [call EXCEPT ![t] = "none"]
    /\ recved' = [recved EXCEPT ![t] = IF error[t] = "EOK" THEN event_set[t] ELSE @]
    /\ UNCHANGED <<susp, stat, error, timer, ttmr, firing, nested, set, event_set, event_info,
                   want, alive, sent>>

-----------------------------------------------------------------------------
\* RT_IPC_CMD_RESET
EventReset(t) ==
    /\ InThread(t) /\ alive
    /\ ResumeAll("ERROR")
    /\ set' = {}
    /\ UNCHANGED <<call, nested, evVars, alive, sent>>

\* rt_event_detach
EventDetach(t) ==
    /\ InThread(t) /\ alive
    /\ ResumeAll("ERROR")
    /\ alive' = FALSE
    /\ UNCHANGED <<call, nested, set, evVars, sent>>

\* rt_event_init
EventInit ==
    /\ WaitInit
    /\ set = {} /\ sent = {} /\ alive = TRUE
    /\ event_set = [t \in Threads |-> {}] /\ want = [t \in Threads |-> {}]
    /\ event_info = [t \in Threads |-> [and |-> FALSE, clear |-> FALSE]]
    /\ recved = [t \in Threads |-> {}]

EventTick ==
    /\ (\E t \in Threads : TimerExpires(t)) \/ ThreadTimeout
    /\ UNCHANGED <<set, evVars, alive, sent>>

EventNext ==
    \/ \E t \in Threads :
        \/ \E s \in FlagSets :
            \/ SendByThread(t, s)
            \/ \E option \in Options :
                \/ RecvNow(t, s, option)
                \/ \E w \in BOOLEAN : RecvWait(t, s, option, w)
        \/ RecvBack(t) \/ EventReset(t) \/ EventDetach(t)
    \/ \E s \in FlagSets : SendByInterrupt(s)
    \/ EventTick

EventSpec == EventInit /\ [][EventNext]_eventVars

-----------------------------------------------------------------------------
(* Properties *)

EventTypeOK ==
    /\ WaitTypeOK
    /\ call \in [Threads -> {"none", "recv"}]
    /\ set \subseteq Flags /\ sent \subseteq Flags /\ alive \in BOOLEAN
    /\ event_set \in [Threads -> SUBSET Flags] /\ want \in [Threads -> SUBSET Flags]
    /\ event_info \in [Threads -> Options]
    /\ recved \in [Threads -> SUBSET Flags]

\* No thread waits for what is there: flags that came one by one, or that
\* others received without clearing them, count together with the last one.
\* Only the thread whose timeout is being handled, which is about to return
\* -RT_ETIMEOUT, may still be in the list when an interrupt sends its flags.
NobodyWaitsSatisfied ==
    \A t \in ToSet(Waiters) \ {firing} : ~Satisfied(want[t], event_info[t], set)

\* A receive that succeeded got all flags it asked for or, with
\* RT_EVENT_FLAG_OR, some of them, and none that was never sent, although it
\* is the sender that leaves them in the thread and other calls and timeouts
\* come in between.
ReceivedAsAsked ==
    \A t \in Threads :
        call[t] = "none" /\ error[t] = "EOK" /\ want[t] # {} =>
            /\ recved[t] # {} /\ recved[t] \subseteq want[t] \cap sent
            /\ event_info[t].and => recved[t] = want[t]

\* This step wakes t with flag f, or is t's own receive that finds f, and t
\* asked to have it cleared.
Clears(t, f) ==
    /\ \/ stat[t] = "suspended" /\ stat'[t] = "ready" /\ error'[t] = "EOK"
       \/ \E s \in FlagSets, option \in Options : RecvNow(t, s, option)
    /\ f \in event_set'[t] /\ event_info'[t].clear

\* This step finds t satisfied with flag f while its timeout is being handled:
\* t cannot be woken any more, but the flag is cleared for it.
Forfeits(t, f) ==
    t = firing /\ Refuses(t) /\ stat'[t] = "suspended" /\ f \in event_set'[t] /\ event_info[t].clear

\* A flag that was sent stays until somebody who asked to clear it receives
\* it, or misses it by the timeout it is in, or the event is reset: a thread
\* that is served never takes another thread's flags away.
FlagsStay ==
    [][\A f \in set \ set' : \E t \in Threads :
            Clears(t, f) \/ Forfeits(t, f) \/ EventReset(t)]_eventVars

=============================================================================
