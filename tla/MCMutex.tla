------------------------------ MODULE MCMutex ------------------------------
(***************************************************************************)
(* Instances of Mutex for TLC.                                             *)
(***************************************************************************)
EXTENDS Mutex, TLC

CONSTANTS high, mid, low, m1, m2

ThreePrios == (high :> 5) @@ (mid :> 10) @@ (low :> 15)
TwoMutexSymmetry == Permutations({m1, m2})

=============================================================================
