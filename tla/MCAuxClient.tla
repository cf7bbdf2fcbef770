----------------------------- MODULE MCAuxClient -----------------------------
(* An instance of AuxClient for TLC. *)
EXTENDS AuxClient
=============================================================================
