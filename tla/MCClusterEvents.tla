-------------------------- MODULE MCClusterEvents --------------------------
(* Instances of ClusterEvents for TLC; the cfg files give the constants.    *)
EXTENDS ClusterEvents
=============================================================================
