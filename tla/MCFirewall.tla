------------------------------ MODULE MCFirewall ------------------------------
(* Small instances of Firewall for TLC. *)
EXTENDS Firewall
==============================================================================
