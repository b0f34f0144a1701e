---------------------------- MODULE MCEhsmPlugin ----------------------------
(* Instances of EhsmPlugin for TLC.                                        *)
EXTENDS EhsmPlugin, TLC

WorkerSymmetry == Permutations(Workers)
=============================================================================
