------------------------------ MODULE MCQueue ------------------------------
(* Instances of Queue for TLC; the cfg files give the constants. *)
EXTENDS Queue
=============================================================================
