----------------------------- MODULE MCTaskPool -----------------------------
(* Three workers (http_thread() has two) and three tasks, of which one is     *)
(* pushed with checked_push() and throws, and one throws and is not checked.  *)
EXTENDS TaskPool
=============================================================================
