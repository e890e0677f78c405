----------------------------- MODULE MCPluginSync -----------------------------
(* Small instances of PluginSync for TLC.                                  *)
EXTENDS PluginSync, TLC

CONSTANTS panel, starter, plain, tagged, placed, bad, f1, f2

On(tags, placement) == [enabled |-> TRUE, tags |-> tags, placement |-> placement]

\* One payload without the blocker (but with left-over settings, which the code
\* ignores), two that differ in their tags and in the placement of the rule, and
\* one that is refused.
SampleBlocker ==
  (plain :> [enabled |-> FALSE, tags |-> {}, placement |-> 2])
  @@ (tagged :> On({"t"}, 1))
  @@ (placed :> On({}, 2))
  @@ (bad :> On({}, 1))

SampleFilters ==
  (plain :> << {f1} >>) @@ (tagged :> << {f1}, {f2} >>)
  @@ (placed :> << {f2} >>) @@ (bad :> <<>>)

\* The Panel's handler syncs, clears and stops; starts and polls run beside it.
PanelAndStarter ==
  (panel :> {"sync", "clear", "stop"}) @@ (starter :> {"start", "health"})

\* The Panel also empties the tables.
PanelWithRecreate ==
  (panel :> {"sync", "clear", "stop", "recreate"}) @@ (starter :> {"start", "health"})

==============================================================================
