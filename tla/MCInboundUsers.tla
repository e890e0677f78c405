--------------------------- MODULE MCInboundUsers ---------------------------
(* Instances of InboundUsers for TLC.                                      *)
EXTENDS InboundUsers, TLC

CONSTANTS u1, u2, t1, t2

OneVersion == {1}
TwoVersions == {1, 2}
\* One inbound with one user or two, and one user in one inbound or two.
SingleConfigs == {t1 :> {u1}, t1 :> {u1, u2}}
OneUserConfigs == {t1 :> {u1}, (t1 :> {u1}) @@ (t2 :> {u1})}

\* Connections matter to one run of the core, or several starts to no connection.
ConnectionsOrStarts == connects = 0 \/ starts <= 1

Symmetry == Permutations(Handlers)
=============================================================================
