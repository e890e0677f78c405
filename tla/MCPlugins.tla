----------------------------- MODULE MCPlugins -----------------------------
(***************************************************************************)
(* The two halves of the plugin service in one run: the sync with the      *)
(* lifecycle (PluginSync), and the torrent blocker (TorrentBlocker), the   *)
(* requests of the Panel and the webhooks apart.  Each has a reduced sync  *)
(* of its own in place of the other, so they are explored one at a time:   *)
(* `part` is chosen at the start, the others rest in one initial state.    *)
(***************************************************************************)
EXTENDS MCPluginSync, TorrentBlocker

CONSTANTS addr1, addr2

VARIABLE part

-----------------------------------------------------------------------------
OneSource == [e \in Events |-> addr1]

Blocking == [enabled |-> TRUE, duration |-> 1, ignored |-> {}, whitelist |-> {}, ingress |-> {addr1}]
Ignoring == [enabled |-> TRUE, duration |-> -1, ignored |-> {addr1}, whitelist |-> {addr1}, ingress |-> {}]
Disabled == [enabled |-> FALSE, duration |-> 1, ignored |-> {}, whitelist |-> {addr2}, ingress |-> {addr1}]
AllPayloads == {Blocking, Ignoring, Disabled}

BlockBoth == [op |-> "block", items |-> <<[ip |-> addr1, timeout |-> 0], [ip |-> addr2, timeout |-> 1]>>, payload |-> Nil]
BlockNegative == [op |-> "block", items |-> <<[ip |-> addr1, timeout |-> -1]>>, payload |-> Nil]
UnblockBoth == [op |-> "unblock", items |-> <<[ip |-> addr1], [ip |-> addr2]>>, payload |-> Nil]
Bare(action) == [op |-> action, items |-> <<>>, payload |-> Nil]
SyncOf(p) == [op |-> "sync", items |-> <<>>, payload |-> p]

PanelRequests == {BlockBoth, BlockNegative, UnblockBoth, SyncOf(Disabled), Bare("recreate")}
ReportRequests == {SyncOf(Blocking), SyncOf(Ignoring), Bare("collect"), Bare("stop")}
AllRequests == PanelRequests \cup ReportRequests

\* The Panel's requests, two at a time; and webhooks beside one request at a time,
\* where nftables can be used.
FromPanel ==
  /\ \A e \in Events : hook'[e].pc = "none"
  /\ \A h \in Callers : asking'[h].op \in {"none", "block", "unblock", "recreate"} \/ asking'[h].payload = Disabled
FromWebhooks ==
  /\ available' /\ open' \subseteq {addr1} /\ \E h \in Callers : asking'[h] = Idle
  /\ \A h \in Callers :
       asking'[h].op \in {"none", "collect", "stop"} \/ asking'[h].payload \in {Blocking, Ignoring}

Symmetry == Permutations(Callers) \cup Permutations(Events)

-----------------------------------------------------------------------------
PluginsInit ==
  /\ part \in {"syncs", "panel", "webhooks"}
  /\ Init
  /\ available \in IF part = "panel" THEN BOOLEAN ELSE {TRUE}
  /\ TorrentInit

PluginsNext ==
  \/ /\ part = "syncs" /\ Next
     /\ UNCHANGED <<torrentVars, part>>
  \/ /\ part = "panel" /\ TorrentNext /\ FromPanel
     /\ UNCHANGED <<vars, part>>
  \/ /\ part = "webhooks" /\ TorrentNext /\ FromWebhooks
     /\ UNCHANGED <<vars, part>>

PluginsSpec == PluginsInit /\ [][PluginsNext]_<<vars, torrentVars, part>>

-----------------------------------------------------------------------------
PluginsTypeOK == TypeOK /\ TorrentTypeOK
=============================================================================
