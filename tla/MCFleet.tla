------------------------------ MODULE MCFleet ------------------------------
(* A small instance of Fleet for TLC: two actions, of the dashboard or of anybody else. *)
EXTENDS Fleet
==============================================================================
