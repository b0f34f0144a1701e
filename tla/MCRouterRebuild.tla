-------------------------- MODULE MCRouterRebuild --------------------------
(* Instances of RouterRebuild: a timer and a request, two routes. *)
EXTENDS RouterRebuild

CONSTANTS timer, request
=============================================================================
