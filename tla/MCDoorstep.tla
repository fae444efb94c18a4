---------------------------- MODULE MCDoorstep ----------------------------
(* The instances of Doorstep that TLC checks.                              *)
EXTENDS Doorstep, TLC

Symmetry == Permutations(Calls)
=============================================================================
