------------------------------ MODULE MCProbe ------------------------------
(* A small instance of Probe for TLC. *)
EXTENDS Probe
==============================================================================
