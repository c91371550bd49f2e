-------------------------------- MODULE Timer --------------------------------
(***************************************************************************)
(* The kernel's timers (src/timer.c) as configured here: hard timers in    *)
(* one list, whose functions the tick interrupt calls, and a tick counter  *)
(* that wraps.                                                             *)
(*                                                                         *)
(* rt_spin_lock_irqsave disables interrupts, so a call is one step.        *)
(* rt_timer_check has interrupts enabled while a timer's function runs:    *)
(* then that function, and the interrupts that come meanwhile, may call    *)
(* anything, on the timer being processed too.  SysTick does not interrupt *)
(* itself: the tick stands still during rt_timer_check.                    *)
(***************************************************************************)
EXTENDS Integers, Sequences, SequencesExt

CONSTANTS
    Timers,
    TickMod,        \* RT_TICK_MAX + 1; rt_tick_t counts modulo this
    Times,          \* the times timers are set to
    Preset,         \* [Timers -> sets of <<init_tick, periodic>>], the first
                    \* settings of each timer
    Managed,        \* the timers that are detached, initialised anew and given
                    \* other settings; the others are started and stopped
    None

Half == (TickMod - 1) \div 2        \* RT_TICK_MAX / 2

\* rt_timer_init and RT_TIMER_CTRL_SET_TIME assert that a time is below Half.
ASSUME TimerAssumption ==
    /\ TickMod \in Nat /\ TickMod > 4 /\ Times \subseteq 0..Half - 1
    /\ Preset \in [Timers -> SUBSET (Times \X BOOLEAN)] /\ Managed \subseteq Timers
    /\ None \notin Timers

VARIABLES
    tick,                           \* rt_tick
    timer_list,                     \* _timer_list[0], a sequence of timers
    list,                           \* the timer on rt_timer_check's local list
    timeout_tick, init_tick,
    activated, periodic, processing,    \* RT_TIMER_FLAG_...
    alive,                          \* initialised and not detached
    phase,                          \* of the tick interrupt: "idle" outside,
                                    \* "enter" before, "locked" in and
                                    \* "callback" inside the loop of the check
    current,                        \* t of rt_timer_check
    started                         \* history: the timers in timer_list, in
                                    \* the order they were started

objVars == <<timeout_tick, init_tick, activated, periodic, processing, alive>>
vars == <<tick, timer_list, list, objVars, phase, current, started>>

Plus(a, b) == (a + b) % TickMod
Minus(a, b) == (a - b) % TickMod

-----------------------------------------------------------------------------
\* Mutant: timeouts are compared as numbers.
LaterAsNumbers(a, b) == a > b

\* Due strictly later, by the test of _timer_start.
Later(a, b) == Minus(a, b) # 0 /\ Minus(a, b) < Half

\* The search of _timer_start, behind the timers due at the same tick.
Insert(queue, t, timeout) ==
    LET i == SelectInSeq(queue, LAMBDA u : Later(timeout_tick[u], timeout))
    IN  IF i = 0 THEN Append(queue, t) ELSE InsertAt(queue, i, t)

\* _timer_start for a timer that is not being processed
StartTimer(t) ==
    /\ timeout_tick' = [timeout_tick EXCEPT ![t] = Plus(tick, init_tick[t])]
    /\ timer_list' = Insert(RemoveFirst(timer_list, t), t, timeout_tick'[t])
    /\ activated' = [activated EXCEPT ![t] = TRUE]
    /\ started' = Append(RemoveFirst(started, t), t)

\* _timer_remove, off whichever list it is on, and RT_TIMER_FLAG_ACTIVATED
StopTimer(t) ==
    /\ timer_list' = RemoveFirst(timer_list, t)
    /\ list' = IF list = t THEN None ELSE list
    /\ activated' = [activated EXCEPT ![t] = FALSE]
    /\ started' = RemoveFirst(started, t)

-----------------------------------------------------------------------------
(* Calls, from threads, interrupts and the timers' functions *)

Callable(t) == alive[t] /\ phase # "locked"

\* -RT_ERROR if the timer is being processed.
Start(t) ==
    /\ Callable(t) /\ ~processing[t]
    /\ StartTimer(t)
    /\ UNCHANGED <<tick, list, init_tick, periodic, processing, alive, phase, current>>

\* -RT_ERROR if it is not activated.
Stop(t) ==
    /\ Callable(t) /\ activated[t]
    /\ StopTimer(t)
    /\ UNCHANGED <<tick, timeout_tick, init_tick, periodic, processing, alive, phase, current>>

\* Mutant: the flag is cleared but the timer stays in the list.
SetTimeStaysInList(t, n) ==
    /\ Callable(t)
    /\ activated' = [activated EXCEPT ![t] = FALSE]
    /\ init_tick' = [init_tick EXCEPT ![t] = n]
    /\ UNCHANGED <<tick, timer_list, list, started, timeout_tick, periodic, processing, alive,
                   phase, current>>

\* RT_TIMER_CTRL_SET_TIME
SetTime(t, n) ==
    /\ Callable(t)
    /\ IF activated[t] THEN StopTimer(t)
                       ELSE UNCHANGED <<timer_list, list, activated, started>>
    /\ init_tick' = [init_tick EXCEPT ![t] = n]
    /\ UNCHANGED <<tick, timeout_tick, periodic, processing, alive, phase, current>>

\* RT_TIMER_CTRL_SET_ONESHOT, RT_TIMER_CTRL_SET_PERIODIC
SetMode(t, p) ==
    /\ Callable(t)
    /\ periodic' = [periodic EXCEPT ![t] = p]
    /\ UNCHANGED <<tick, timer_list, list, timeout_tick, init_tick, activated, processing,
                   alive, phase, current, started>>

\* rt_timer_detach
Detach(t) ==
    /\ Callable(t)
    /\ StopTimer(t)
    /\ alive' = [alive EXCEPT ![t] = FALSE]
    /\ UNCHANGED <<tick, timeout_tick, init_tick, periodic, processing, phase, current>>

\* rt_timer_init; all flags are overwritten.
InitTimer(t, n, p) ==
    /\ ~alive[t] /\ phase # "locked"
    /\ alive' = [alive EXCEPT ![t] = TRUE]
    /\ timeout_tick' = [timeout_tick EXCEPT ![t] = 0]
    /\ init_tick' = [init_tick EXCEPT ![t] = n]
    /\ periodic' = [periodic EXCEPT ![t] = p]
    /\ activated' = [activated EXCEPT ![t] = FALSE]
    /\ processing' = [processing EXCEPT ![t] = FALSE]
    /\ UNCHANGED <<tick, timer_list, list, phase, current, started>>

-----------------------------------------------------------------------------
(* The tick interrupt *)

\* rt_tick_increase up to rt_timer_check
TickIncrease ==
    /\ phase = "idle" /\ phase' = "enter"
    /\ tick' = Plus(tick, 1)
    /\ UNCHANGED <<timer_list, list, objVars, current, started>>

\* The first timer of the list is due.
Due == timer_list # <<>> /\ Minus(tick, timeout_tick[Head(timer_list)]) < Half

\* It is taken off the list and its function is called.
CheckTake ==
    LET t == Head(timer_list)
    IN  /\ phase \in {"enter", "locked"} /\ Due
        /\ timer_list' = Tail(timer_list)
        /\ started' = RemoveFirst(started, t)
        /\ activated' = [activated EXCEPT ![t] = periodic[t] /\ @]
        /\ processing' = [processing EXCEPT ![t] = TRUE]
        /\ list' = t /\ current' = t /\ phase' = "callback"
        /\ UNCHANGED <<tick, timeout_tick, init_tick, periodic, alive>>

\* The function returns.  If the timer is still on the local list, it is taken
\* off, and a periodic one is started again.
CheckReturn ==
    LET t == current
    IN  /\ phase = "callback" /\ phase' = "locked"
        /\ processing' = [processing EXCEPT ![t] = FALSE]
        /\ list' = None /\ current' = None
        /\ IF list # None /\ periodic[t] /\ activated[t]
           THEN StartTimer(t)
           ELSE UNCHANGED <<timeout_tick, timer_list, activated, started>>
        /\ UNCHANGED <<tick, init_tick, periodic, alive>>

CheckEnd ==
    /\ phase \in {"enter", "locked"} /\ ~Due
    /\ phase' = "idle"
    /\ UNCHANGED <<tick, timer_list, list, objVars, current, started>>

-----------------------------------------------------------------------------
\* After rt_timer_init of every timer.
Init ==
    /\ tick = 0 /\ timer_list = <<>> /\ list = None
    /\ timeout_tick = [t \in Timers |-> 0]
    /\ init_tick \in [Timers -> Times] /\ periodic \in [Timers -> BOOLEAN]
    /\ \A t \in Timers : <<init_tick[t], periodic[t]>> \in Preset[t]
    /\ activated = [t \in Timers |-> FALSE]
    /\ processing = [t \in Timers |-> FALSE]
    /\ alive = [t \in Timers |-> TRUE]
    /\ phase = "idle" /\ current = None /\ started = <<>>

Next ==
    \/ \E t \in Timers : Start(t) \/ Stop(t)
    \/ \E t \in Managed :
        \/ Detach(t)
        \/ \E n \in Times : SetTime(t, n)
        \/ \E p \in BOOLEAN : SetMode(t, p)
        \/ \E n \in Times, p \in BOOLEAN : InitTimer(t, n, p)
    \/ TickIncrease \/ CheckTake \/ CheckReturn \/ CheckEnd

Spec == Init /\ [][Next]_vars

-----------------------------------------------------------------------------
(* Properties *)

TypeOK ==
    /\ tick \in 0..TickMod - 1
    /\ timer_list \in Seq(Timers) /\ started \in Seq(Timers)
    /\ list \in Timers \cup {None} /\ current \in Timers \cup {None}
    /\ timeout_tick \in [Timers -> 0..TickMod - 1]
    /\ init_tick \in [Timers -> Times]
    /\ activated \in [Timers -> BOOLEAN] /\ periodic \in [Timers -> BOOLEAN]
    /\ processing \in [Timers -> BOOLEAN] /\ alive \in [Timers -> BOOLEAN]
    /\ phase \in {"idle", "enter", "locked", "callback"}

\* What is left of a timer in the list.  At most one tick overdue, a time is
\* below Half: of the numbers equal to the difference, modulo TickMod, this
\* is the one that is meant.
left ==
    [t \in ToSet(timer_list) |->
        LET d == Minus(timeout_tick[t], tick)
        IN  IF d <= Half THEN d ELSE d - TickMod]

\* A stopped timer is not in the list, and a timer in the list can be stopped
\* (rt_timer_stop only looks at RT_TIMER_FLAG_ACTIVATED) and is there once,
\* whatever the timers' functions call on themselves and on each other.
ListedAreActivated ==
    /\ IsInjective(timer_list)
    /\ \A t \in ToSet(timer_list) : activated[t] /\ alive[t] /\ list # t

CD == INSTANCE Countdown WITH
        time <- init_tick, busy <- current, checking <- phase # "idle",
        again <- list # None /\ activated[list],
        MaxTime <- Half - 1

\* Whatever is called when, and wherever the tick counter wraps, no timer
\* fires early or late or out of order, none is forgotten, and a periodic one
\* goes on until it is stopped.
ImplementsCountdown == CD!Spec

=============================================================================
