--------------------------- MODULE MCReconfigure ---------------------------
(* Instances of Reconfigure: two routes, and configurations between which a *)
(* route changes, another one and the plugin come and go, and the upstream  *)
(* goes or changes.                                                         *)
EXTENDS Reconfigure, TLC

CONSTANTS w1, a, b

ThreeConfigs ==
  {[routes |-> a :> 1 @@ b :> 0, plugin |-> 1, upstream |-> 1],
   [routes |-> a :> 2 @@ b :> 1, plugin |-> 0, upstream |-> 0],
   [routes |-> a :> 1 @@ b :> 0, plugin |-> 1, upstream |-> 2]}

\* Nothing but the upstream changes: no read of a section can be stale.
TwoUpstreams ==
  {[routes |-> a :> 1 @@ b :> 0, plugin |-> 1, upstream |-> u] : u \in {1, 2}}
=============================================================================
