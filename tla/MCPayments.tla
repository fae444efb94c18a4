---------------------------- MODULE MCPayments ----------------------------
(* The instances of Payments that TLC checks.                              *)
EXTENDS Payments, TLC

Symmetry == Permutations(Orders) \cup Permutations(Calls)
=============================================================================
