--------------------------- MODULE MCXrayLifecycle ---------------------------
(* Small instances of XrayLifecycle for TLC.                               *)
EXTENDS XrayLifecycle, TLC

CONSTANTS c1, c2

\* One handler that serves every route; two that split the routes.
OneHandler  == c1 :> {"start", "stop", "sync", "health"}
SplitRoutes == c1 :> {"start", "stop"} @@ c2 :> {"sync", "health"}
\* For the liveness runs: the calls that hold or wait for the lifecycle lock.
StartAndStop == c1 :> {"start"} @@ c2 :> {"stop"}
PanelHandler == c1 :> {"start", "stop"}

\* The Panel computed different hashes for the two requests.
DistinctHashes == [r \in Requests |-> r]

\* The two requests differ in something the hashes do not cover.
EqualHashes == [r \in Requests |-> 0]

Symmetry == Permutations(Requests) \cup Permutations(Cores)
==============================================================================
