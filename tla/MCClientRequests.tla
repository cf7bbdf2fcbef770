-------------------------- MODULE MCClientRequests ---------------------------
(* Instances of ClientRequests for TLC. *)
EXTENDS ClientRequests

CONSTANTS s1, s2, c1, c2
=============================================================================
