--------------------------- MODULE TorrentBlocker ---------------------------
(***************************************************************************)
(* The torrent blocker: internal/plugin torrent.go, the block, unblock and *)
(* collect routes of service.go, the list of reports of state.go and the   *)
(* torrent and ingress sets of nft_linux.go.                               *)
(*                                                                         *)
(* rw-core reports a torrent connection to a webhook of the agent, which   *)
(* blocks the source address, drops its connections and queues a report.   *)
(* Every test of the stored plugin takes the state's lock anew, so that    *)
(* syncs and stops come between them.  The Panel blocks and unblocks       *)
(* addresses itself and collects the reports.                              *)
(*                                                                         *)
(* Of a sync there is what it does to the settings and the sets;           *)
(* PluginSync has the whole.                                               *)
(***************************************************************************)
EXTENDS Integers, FiniteSets, SequencesExt

CONSTANTS
  Callers,    \* requests of the Panel in progress
  Events,     \* torrent connections that rw-core reports
  IPs,
  Source,     \* of each event: the address
  Payloads,   \* payloads of a sync
  Requests,   \* what the Panel may ask for
  Nil,
  ScriptFails \* whether an nft script may fail

ASSUME SourceOfEvents == Source \in [Events -> IPs]
ASSUME PluginFields == Payloads \subseteq
  [enabled : BOOLEAN, duration : Int, ignored : SUBSET IPs, whitelist : SUBSET IPs, ingress : SUBSET IPs]
ASSUME NilIsNoPlugin == Nil \notin Payloads /\ Nil \notin Callers

\* A block has addresses with timeouts, an unblock addresses.
Items == [ip : IPs, timeout : Int] \cup [ip : IPs]
Ops == {"block", "unblock", "collect", "sync", "stop", "recreate"}
ASSUME RequestFields ==
  /\ Requests \subseteq [op : Ops, items : Seq(Items), payload : Payloads \cup {Nil}]
  /\ \A r \in Requests : r.op = "sync" => r.payload \in Payloads

VARIABLES
  available, \* nftables can be used, decided when the agent starts
  current,   \* the stored plugin
  reports,   \* those that wait to be collected
  collected, \* those that were handed to the Panel
  torrent,   \* of each address: its element of the torrent set
  ingress,   \* the addresses of the ingress set
  open,      \* the addresses with established connections
  hook,      \* of each event: where its webhook is
  asking,    \* of each request: where it is, what it asks for and what is left to do
  touched,   \* of each request: the addresses others have added or removed meanwhile
  spared     \* addresses whose connections were left alone when they were to be dropped

sets == <<torrent, ingress, touched>>
torrentVars == <<available, current, reports, collected, sets, open, hook, asking, spared>>

NoBlocker == [enabled |-> FALSE, duration |-> 0, ignored |-> {}, whitelist |-> {}, ingress |-> {}]

\* configureTorrentBlocker: a section that is not enabled leaves no settings.
BlockerSettings == IF current = Nil \/ ~current.enabled THEN NoBlocker ELSE current
IsWhitelisted(ip) == current # Nil /\ ip \in current.whitelist

Idle == [pc |-> "idle", op |-> "none", items |-> <<>>, payload |-> Nil, asked |-> {}]
At(h, step) == asking[h].pc = step
Go(h, step) == asking' = [asking EXCEPT ![h].pc = step]
HookAt(e, step) == hook[e].pc = step

\* An address of the sets was changed by `who`; every other request sees it touched.
Touch(who, ips) == touched' = [h \in Callers |-> IF h = who THEN touched[h] ELSE touched[h] \cup ips]

TorrentInit ==
  /\ available \in BOOLEAN
  /\ current = Nil /\ reports = <<>> /\ collected = {}
  /\ torrent = [ip \in IPs |-> "absent"] /\ ingress = {}
  /\ open = {} /\ spared = {}
  /\ hook = [e \in Events |-> [pc |-> "none", duration |-> 0, blocked |-> FALSE]]
  /\ asking = [h \in Callers |-> Idle] /\ touched = [h \in Callers |-> {}]

-----------------------------------------------------------------------------
(* The kernel.                                                             *)

\* Mutant: a negative timeout is taken for none.
BlockIPAnyTimeout(who, ip, timeout) ==
  /\ available
  /\ torrent' = [torrent EXCEPT ![ip] = IF timeout > 0 THEN "timed" ELSE "forever"]
  /\ Touch(who, {ip}) /\ UNCHANGED ingress

\* blockIP: an element that is there already keeps its timeout with some kernels.
BlockIP(who, ip, timeout) ==
  /\ available /\ timeout >= 0
  /\ \/ torrent' = [torrent EXCEPT ![ip] = IF timeout > 0 THEN "timed" ELSE "forever"]
     \/ torrent[ip] # "absent" /\ UNCHANGED torrent
  /\ Touch(who, {ip}) /\ UNCHANGED ingress

BlockIPFails(timeout) == (ScriptFails \/ timeout < 0) /\ UNCHANGED sets

\* DropIPs: whitelisted addresses are left alone, a failed kill is only logged.
DropIPs(ip) ==
  \/ ~IsWhitelisted(ip) /\ open' = open \ {ip} /\ spared' = spared \ {ip}
  \/ spared' = spared \cup {ip} /\ UNCHANGED open

\* recreateTables empties all sets in one transaction.
RecreateSets(who) ==
  /\ torrent' = [ip \in IPs |-> "absent"] /\ ingress' = {}
  /\ Touch(who, IPs)

Connect(ip) ==
  /\ torrent[ip] = "absent" /\ ip \notin ingress \cup open
  /\ open' = open \cup {ip} /\ spared' = spared \ {ip}
  /\ UNCHANGED <<available, current, reports, collected, sets, hook, asking>>

Expire(ip) ==
  /\ torrent[ip] = "timed"
  /\ torrent' = [torrent EXCEPT ![ip] = "absent"] /\ Touch(Nil, {ip})
  /\ UNCHANGED <<available, current, reports, collected, ingress, open, hook, asking, spared>>

-----------------------------------------------------------------------------
(* The webhook.                                                            *)

HandleXrayWebhook(e) ==
  /\ HookAt(e, "none")
  /\ hook' = [hook EXCEPT ![e].pc = IF BlockerSettings.enabled THEN "ignored" ELSE "done"]
  /\ UNCHANGED <<available, current, reports, collected, sets, open, asking, spared>>

\* Addresses and users of the ignore lists, and a few fixed addresses, are let go.
CheckIgnored(e) ==
  /\ HookAt(e, "ignored")
  /\ hook' = [hook EXCEPT ![e].pc = IF Source[e] \in BlockerSettings.ignored THEN "done" ELSE "duration"]
  /\ UNCHANGED <<available, current, reports, collected, sets, open, asking, spared>>

TorrentBlockDuration(e) ==
  /\ HookAt(e, "duration")
  /\ hook' = [hook EXCEPT ![e].pc = IF available THEN "block" ELSE "report",
                          ![e].duration = BlockerSettings.duration]
  /\ UNCHANGED <<available, current, reports, collected, sets, open, asking, spared>>

BlockSource(e) ==
  /\ HookAt(e, "block")
  /\ \/ /\ BlockIP(Nil, Source[e], hook[e].duration)
        /\ hook' = [hook EXCEPT ![e].pc = "drop", ![e].blocked = TRUE]
     \/ /\ BlockIPFails(hook[e].duration)
        /\ hook' = [hook EXCEPT ![e].pc = "report"]
  /\ UNCHANGED <<available, current, reports, collected, open, asking, spared>>

DropSource(e) ==
  /\ HookAt(e, "drop") /\ DropIPs(Source[e])
  /\ hook' = [hook EXCEPT ![e].pc = "report"]
  /\ UNCHANGED <<available, current, reports, collected, sets, asking>>

AddReport(e) ==
  /\ HookAt(e, "report")
  /\ reports' = Append(reports, [event |-> e, blocked |-> hook[e].blocked, duration |-> hook[e].duration])
  /\ hook' = [hook EXCEPT ![e].pc = "done"]
  /\ UNCHANGED <<available, current, collected, sets, open, asking, spared>>

-----------------------------------------------------------------------------
(* The requests of the Panel.                                              *)

IPsOf(items) == {items[i].ip : i \in DOMAIN items}

Request(h, r) ==
  /\ At(h, "idle")
  /\ asking' = [asking EXCEPT ![h] = [pc |-> r.op, op |-> r.op, items |-> r.items,
                                    payload |-> r.payload, asked |-> IPsOf(r.items)]]
  /\ touched' = [touched EXCEPT ![h] = {}]
  /\ UNCHANGED <<available, current, reports, collected, torrent, ingress, open, hook, spared>>

Reject(h) == Go(h, "rejected")
Item(h) == Head(asking[h].items)
NextItem(h, step) == asking' = [asking EXCEPT ![h].pc = step, ![h].items = Tail(@)]

\* Mutant: the connections of a blocked address stay.
BlockItemOnly(h) ==
  /\ At(h, "block") /\ asking[h].items # <<>>
  /\ \/ BlockIP(h, Item(h).ip, Item(h).timeout) /\ NextItem(h, "block")
     \/ (BlockIPFails(Item(h).timeout) \/ (~available /\ UNCHANGED sets)) /\ Reject(h)
  /\ UNCHANGED <<available, current, reports, collected, open, hook, spared>>

\* HandleBlockIPs: the first address that cannot be blocked ends the request.
BlockItem(h) ==
  /\ At(h, "block") /\ asking[h].items # <<>>
  /\ \/ BlockIP(h, Item(h).ip, Item(h).timeout) /\ Go(h, "drop")
     \/ (BlockIPFails(Item(h).timeout) \/ (~available /\ UNCHANGED sets)) /\ Reject(h)
  /\ UNCHANGED <<available, current, reports, collected, open, hook, spared>>

DropItem(h) ==
  /\ At(h, "drop")
  /\ DropIPs(Item(h).ip) /\ NextItem(h, "block")
  /\ UNCHANGED <<available, current, reports, collected, sets, hook>>

\* unblockIP: first the torrent set, then the ingress set; an element that is
\* absent is no failure.
UnblockTorrent(h) ==
  /\ At(h, "unblock") /\ asking[h].items # <<>>
  /\ \/ /\ available
        /\ torrent' = [torrent EXCEPT ![Item(h).ip] = "absent"]
        /\ Touch(h, {Item(h).ip}) /\ Go(h, "unblockIngress") /\ UNCHANGED ingress
     \/ (ScriptFails \/ ~available) /\ Reject(h) /\ UNCHANGED sets
  /\ UNCHANGED <<available, current, reports, collected, open, hook, spared>>

\* Mutant: only the torrent set is looked at.
UnblockIngressNot(h) ==
  /\ At(h, "unblockIngress") /\ NextItem(h, "unblock")
  /\ UNCHANGED <<available, current, reports, collected, sets, open, hook, spared>>

UnblockIngress(h) ==
  /\ At(h, "unblockIngress")
  /\ \/ /\ ingress' = ingress \ {Item(h).ip} /\ UNCHANGED torrent
        /\ Touch(h, {Item(h).ip}) /\ NextItem(h, "unblock")
     \/ ScriptFails /\ Reject(h) /\ UNCHANGED sets
  /\ UNCHANGED <<available, current, reports, collected, open, hook, spared>>

Accept(h) ==
  /\ \E step \in {"block", "unblock"} : At(h, step)
  /\ asking[h].items = <<>> /\ Go(h, "accepted")
  /\ UNCHANGED <<available, current, reports, collected, sets, open, hook, spared>>

\* Mutant: the reports are handed out and kept.
FlushReportsKeep == UNCHANGED reports
FlushReports == reports' = <<>>

HandleCollectReports(h) ==
  /\ At(h, "collect")
  /\ collected' = collected \cup {reports[i].event : i \in DOMAIN reports}
  /\ FlushReports /\ Go(h, "accepted")
  /\ UNCHANGED <<available, current, sets, open, hook, spared>>

Reset == current' = Nil /\ reports' = <<>>

\* Mutant: a new plugin begins with an empty list.
UpdateFromSyncForgetting(p) == current' = p /\ reports' = <<>>

\* UpdateFromSync: the reports of the previous plugin stay.
UpdateFromSync(p) == current' = p /\ UNCHANGED reports

\* A sync of the stored plugin changes nothing.
SyncStore(h) ==
  /\ At(h, "sync")
  /\ IF asking[h].payload = current THEN Go(h, "accepted") /\ UNCHANGED <<current, reports>>
     ELSE UpdateFromSync(asking[h].payload) /\ Go(h, IF available THEN "syncTables" ELSE "accepted")
  /\ UNCHANGED <<available, collected, sets, open, hook, spared>>

SyncSets(h) ==
  /\ At(h, "syncTables")
  /\ \/ RecreateSets(h) /\ Go(h, "syncFilters") /\ UNCHANGED <<current, reports>>
     \/ ScriptFails /\ Reset /\ Reject(h) /\ UNCHANGED sets
  /\ UNCHANGED <<available, collected, open, hook, spared>>

\* syncFilters adds the addresses of the payload, which may no longer be stored.
SyncFilters(h) ==
  LET ips == asking[h].payload.ingress IN
  /\ At(h, "syncFilters")
  /\ \/ /\ ingress' = ingress \cup ips /\ Touch(h, ips) /\ UNCHANGED torrent
        /\ Go(h, "accepted") /\ UNCHANGED <<current, reports>>
     \/ ScriptFails /\ Reset /\ Reject(h) /\ UNCHANGED sets
  /\ UNCHANGED <<available, collected, open, hook, spared>>

\* ResetPlugins, of a stop or of a sync without plugin.
ResetPlugins(h) ==
  /\ At(h, "stop") /\ Reset
  /\ Go(h, IF available THEN "recreate" ELSE "accepted")
  /\ UNCHANGED <<available, collected, sets, open, hook, spared>>

HandleRecreateTables(h) ==
  /\ At(h, "recreate")
  /\ \/ available /\ RecreateSets(h) /\ Go(h, "accepted")
     \/ (ScriptFails \/ ~available) /\ Reject(h) /\ UNCHANGED sets
  /\ UNCHANGED <<available, current, reports, collected, open, hook, spared>>

Answer(h) ==
  /\ At(h, "accepted") \/ At(h, "rejected")
  /\ asking' = [asking EXCEPT ![h] = Idle]
  /\ touched' = [touched EXCEPT ![h] = {}]
  /\ UNCHANGED <<available, current, reports, collected, torrent, ingress, open, hook, spared>>

-----------------------------------------------------------------------------
\* The agent ends, gracefully or not, and starts again; it uses nftables when it
\* can create its tables, and leaves alone what is there when it cannot.
Restart ==
  /\ current' = Nil /\ reports' = <<>> /\ collected' = collected
  /\ \/ /\ available' = TRUE
        /\ torrent' = [ip \in IPs |-> "absent"] /\ ingress' = {}
     \/ /\ available' = FALSE
        /\ \/ UNCHANGED <<torrent, ingress>>
           \/ torrent' = [ip \in IPs |-> "absent"] /\ ingress' = {}
  /\ hook' = [e \in Events |-> IF HookAt(e, "none") THEN hook[e] ELSE [hook[e] EXCEPT !.pc = "done"]]
  /\ asking' = [h \in Callers |-> Idle] /\ touched' = [h \in Callers |-> {}]
  /\ open' \in {open, {}} /\ spared' = open'

Webhook(e) ==
  \/ HandleXrayWebhook(e) \/ CheckIgnored(e) \/ TorrentBlockDuration(e)
  \/ BlockSource(e) \/ DropSource(e) \/ AddReport(e)

Handle(h) ==
  \/ \E r \in Requests : Request(h, r)
  \/ BlockItem(h) \/ DropItem(h) \/ UnblockTorrent(h) \/ UnblockIngress(h) \/ Accept(h)
  \/ HandleCollectReports(h)
  \/ SyncStore(h) \/ SyncSets(h) \/ SyncFilters(h)
  \/ ResetPlugins(h) \/ HandleRecreateTables(h) \/ Answer(h)

TorrentNext ==
  \/ \E e \in Events : Webhook(e)
  \/ \E h \in Callers : Handle(h)
  \/ \E ip \in IPs : Connect(ip) \/ Expire(ip)
  \/ Restart

TorrentSpec == TorrentInit /\ [][TorrentNext]_torrentVars

-----------------------------------------------------------------------------
Steps == {"idle", "block", "drop", "unblock", "unblockIngress", "collect", "sync", "syncTables",
          "syncFilters", "stop", "recreate", "accepted", "rejected"}

\* Nobody is about to drop the connections of an address whose timeout was refused.
TorrentTypeOK ==
  /\ available \in BOOLEAN /\ current \in Payloads \cup {Nil}
  /\ reports \in Seq([event : Events, blocked : BOOLEAN, duration : Int]) /\ collected \subseteq Events
  /\ torrent \in [IPs -> {"absent", "timed", "forever"}]
  /\ ingress \subseteq IPs /\ open \subseteq IPs /\ spared \subseteq IPs
  /\ \A e \in Events :
       /\ hook[e].pc \in {"none", "ignored", "duration", "block", "drop", "report", "done"}
       /\ HookAt(e, "drop") => hook[e].duration >= 0
  /\ \A h \in Callers :
       /\ asking[h].pc \in Steps /\ touched[h] \subseteq IPs
       /\ At(h, "drop") => Item(h).timeout >= 0

\* A blocked address has no established connection: a connection opened before the
\* block is dropped after it, and none can be opened in between.  Those left are of
\* addresses that were spared, or whose drop is still to come.
DropPending(ip) ==
  \/ \E e \in Events : HookAt(e, "drop") /\ Source[e] = ip
  \/ \E h \in Callers : At(h, "drop") /\ Item(h).ip = ip
BlockedIsCut ==
  \A ip \in IPs : torrent[ip] # "absent" /\ ip \in open => ip \in spared \/ DropPending(ip)

\* An accepted block has every address in the torrent set, an accepted unblock has
\* none in either set (docs/CHANGELOG.md:17), but for those that others have added
\* or removed since the request came.
AcceptedIsDone ==
  \A h \in Callers : At(h, "accepted") =>
    \A ip \in asking[h].asked \ touched[h] :
      /\ asking[h].op = "block" => torrent[ip] # "absent"
      /\ asking[h].op = "unblock" => torrent[ip] = "absent" /\ ip \notin ingress

Reported == {reports[i].event : i \in DOMAIN reports}

\* The Panel gets a report at most once.
ReportedOnce == Reported \cap collected = {} /\ Cardinality(Reported) = Len(reports)

\* A report leaves the list only for the Panel, or when the plugin is given up: the
\* sync of another plugin does not lose it.
ReportsAreKept == [][Reported \ Reported' \subseteq collected' \/ current' = Nil]_torrentVars
=============================================================================
