------------------------------ MODULE Countdown ------------------------------
(***************************************************************************)
(* What the kernel's timers promise.  A timer that was started fires when  *)
(* its time is up, never earlier, and before the next tick; timers fire in *)
(* the order in which they are due, those due at the same tick in the      *)
(* order in which they were started; a periodic timer starts again by      *)
(* itself unless it was stopped while it fired.  There is no clock here    *)
(* that could wrap: each running timer counts down.                        *)
(***************************************************************************)
EXTENDS Integers, Sequences, SequencesExt

CONSTANTS Timers, None, MaxTime

VARIABLES
    time, periodic,     \* the settings of each timer
    left,               \* ticks left of each running timer
    started,            \* the running timers, in the order they were started
    busy,               \* the timer whose function is being called
    again,              \* busy is periodic and was not stopped since
    checking            \* a tick has come and not all due timers have fired

vars == <<time, periodic, left, started, busy, again, checking>>

Running == DOMAIN left

Put(t, n) ==
    /\ left' = [u \in Running \cup {t} |-> IF u = t THEN n ELSE left[u]]
    /\ started' = Append(RemoveFirst(started, t), t)

Drop(t) ==
    /\ left' = [u \in Running \ {t} |-> left[u]]
    /\ started' = RemoveFirst(started, t)

Init ==
    /\ time \in [Timers -> 0..MaxTime] /\ periodic \in [Timers -> BOOLEAN]
    /\ left = <<>> /\ started = <<>>
    /\ busy = None /\ again = FALSE /\ checking = FALSE

Start(t) == Put(t, time[t]) /\ UNCHANGED <<time, periodic, busy, again, checking>>

\* Also what setting a new time or detaching the timer does.
Stop(t) ==
    /\ Drop(t)
    /\ again' = (again /\ busy # t)
    /\ time' \in {[time EXCEPT ![t] = n] : n \in 0..MaxTime}
    /\ UNCHANGED <<periodic, busy, checking>>

SetMode(t, p) ==
    /\ periodic' = [periodic EXCEPT ![t] = p]
    /\ UNCHANGED <<time, left, started, busy, again, checking>>

\* A detached timer may be initialised anew.
Renew(t, n, p) ==
    /\ t \notin Running /\ ~(again /\ busy = t)
    /\ time' = [time EXCEPT ![t] = n] /\ periodic' = [periodic EXCEPT ![t] = p]
    /\ UNCHANGED <<left, started, busy, again, checking>>

Tick ==
    /\ ~checking /\ checking' = TRUE
    /\ left' = [t \in Running |-> left[t] - 1]
    /\ UNCHANGED <<time, periodic, started, busy, again>>

Place(t) == CHOOSE i \in DOMAIN started : started[i] = t

Fire(t) ==
    /\ checking /\ busy = None /\ t \in Running /\ left[t] <= 0
    /\ \A u \in Running \ {t} :
        left[t] < left[u] \/ (left[t] = left[u] /\ Place(t) < Place(u))
    /\ Drop(t)
    /\ busy' = t /\ again' = periodic[t]
    /\ UNCHANGED <<time, periodic, checking>>

Return ==
    /\ busy # None /\ busy' = None /\ again' = FALSE
    /\ IF again /\ periodic[busy] THEN Put(busy, time[busy])
                                  ELSE UNCHANGED <<left, started>>
    /\ UNCHANGED <<time, periodic, checking>>

EndCheck ==
    /\ checking /\ busy = None /\ \A t \in Running : left[t] > 0
    /\ checking' = FALSE
    /\ UNCHANGED <<time, periodic, left, started, busy, again>>

Next ==
    \/ \E t \in Timers :
        \/ Start(t) \/ Stop(t) \/ Fire(t)
        \/ \E p \in BOOLEAN : SetMode(t, p) \/ \E n \in 0..MaxTime : Renew(t, n, p)
    \/ Tick \/ Return \/ EndCheck

Spec == Init /\ [][Next]_vars

=============================================================================
