--------------------------- MODULE MCTaskScheduler ---------------------------
(* Instances of TaskScheduler for TLC. *)
EXTENDS TaskScheduler

CONSTANTS t1, t2, t3, o1, p1
=============================================================================
