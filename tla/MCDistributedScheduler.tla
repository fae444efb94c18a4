----------------------- MODULE MCDistributedScheduler -----------------------
(* The instance of DistributedScheduler that TLC checks: its configurations *)
(* name the processes and the slots.                                        *)
EXTENDS DistributedScheduler
=============================================================================
