---------------------------- MODULE MCHybridSync ----------------------------
(* Instances of HybridSync: two workers, two data planes. *)
EXTENDS HybridSync

CONSTANTS c1, c2, d1, d2
=============================================================================
