--------------------------- MODULE MCSettlement ---------------------------
(* The instances of Settlement that TLC checks.                            *)
EXTENDS Settlement
=============================================================================
