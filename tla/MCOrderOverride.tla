-------------------------- MODULE MCOrderOverride --------------------------
(* The instances of OrderOverride that TLC checks.                         *)
EXTENDS OrderOverride, TLC

Symmetry == Permutations(Riders)
=============================================================================
