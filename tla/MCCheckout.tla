---------------------------- MODULE MCCheckout ----------------------------
(* The instances of Checkout that TLC checks.                              *)
EXTENDS Checkout, TLC

Symmetry == Permutations(Calls) \cup Permutations(Orders) \cup Permutations(Charges)
=============================================================================
