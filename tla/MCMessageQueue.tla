--------------------------- MODULE MCMessageQueue ---------------------------
(***************************************************************************)
(* Instances of MessageQueue for TLC.                                      *)
(***************************************************************************)
EXTENDS MessageQueue

CONSTANTS t1, t2, a, b

\* Two threads of the same priority and one more urgent.
MCPrio == (t1 :> 5) @@ (t2 :> 10)
MCSymmetry == Permutations({a, b})

=============================================================================
