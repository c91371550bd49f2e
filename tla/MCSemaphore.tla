---------------------------- MODULE MCSemaphore ----------------------------
(***************************************************************************)
(* Instances of Semaphore for TLC.                                         *)
(***************************************************************************)
EXTENDS Semaphore, TLC

CONSTANTS t1, t2, t3

\* Two threads of the same priority and one more urgent.
MCPrio == (t1 :> 5) @@ (t2 :> 10) @@ (t3 :> 10)
MCSymmetry == Permutations({t2, t3})

=============================================================================
