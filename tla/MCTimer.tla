------------------------------- MODULE MCTimer -------------------------------
(***************************************************************************)
(* Instances of Timer for TLC.                                             *)
(***************************************************************************)
EXTENDS Timer

CONSTANTS t1, t2, t3

\* One timer that is set to anything, a periodic one with the longest time
\* there is below RT_TICK_MAX / 2 = 3, and a one-shot timer.
MCPreset == t1 :> (Times \X BOOLEAN) @@ t2 :> {<<2, TRUE>>} @@ t3 :> {<<2, FALSE>>}

=============================================================================
