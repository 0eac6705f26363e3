------------------------------ MODULE MCServer ------------------------------
(* Instances of Server for TLC; the cfg files give all constants. *)
EXTENDS Server
=============================================================================
