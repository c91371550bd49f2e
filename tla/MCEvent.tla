------------------------------- MODULE MCEvent -------------------------------
(***************************************************************************)
(* Instances of Event for TLC.                                             *)
(***************************************************************************)
EXTENDS Event

CONSTANTS t1, t2, t3, f1, f2

MCPrio == [t \in Threads |-> 10]
MCSymmetry == Permutations(Threads) \cup Permutations(Flags)

=============================================================================
