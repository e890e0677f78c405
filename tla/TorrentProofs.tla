---------------------------- MODULE TorrentProofs ----------------------------
(***************************************************************************)
(* The torrent blocker, proved for every set of webhooks, requests,        *)
(* addresses and payloads: a blocked address is cut off, an accepted       *)
(* request was carried out, and the Panel gets a report once.  At the end  *)
(* the run that explores both halves of the plugin service.                *)
(***************************************************************************)
EXTENDS MCPlugins, PluginProofs, FiniteSetTheorems, TLAPS

\* What the requests and the webhooks look like.
Askings == [pc : Steps, op : Ops \cup {"none"}, items : Seq(Items),
            payload : Payloads \cup {Nil}, asked : SUBSET IPs]
HookSteps == {"none", "ignored", "duration", "block", "drop", "report", "done"}
Hooks == [pc : HookSteps, duration : Int, blocked : BOOLEAN]

AskingInv == asking \in [Callers -> Askings]
HookInv == hook \in [Events -> Hooks]
SetsInv ==
  /\ touched \in [Callers -> SUBSET IPs]
  /\ torrent \in [IPs -> {"absent", "timed", "forever"}]
  /\ ingress \subseteq IPs /\ open \subseteq IPs /\ spared \subseteq IPs
  /\ available \in BOOLEAN /\ current \in Payloads \cup {Nil}

\* Steps go with operations; there is something to drop, and to look for in the ingress
\* set; a block is carried out with the timeout that was accepted.
StepOK(a) ==
  /\ a.pc \in {"block", "drop"} => a.op = "block"
  /\ a.pc \in {"unblock", "unblockIngress"} => a.op = "unblock"
  /\ a.pc \in {"collect", "sync", "syncTables", "syncFilters", "stop", "recreate"}
       => a.op \notin {"block", "unblock"}
  /\ a.pc \in {"drop", "unblockIngress"} => a.items # <<>>
  /\ a.pc = "drop" => Head(a.items).timeout >= 0
  /\ a.pc \in {"sync", "syncTables", "syncFilters"} => a.payload \in Payloads
StepInv ==
  /\ \A h \in Callers : StepOK(asking[h])
  /\ \A e \in Events : HookAt(e, "drop") => hook[e].duration >= 0

\* Neither set has the address.
Absent(ip) == torrent[ip] = "absent" /\ ip \notin ingress

\* What is left of an accepted or a running block, and of an unblock.
DoneOK(h) ==
  \A ip \in asking[h].asked \ touched[h] :
    /\ asking[h].op = "block" =>
         /\ At(h, "block") => torrent[ip] # "absent" \/ ip \in IPsOf(asking[h].items)
         /\ At(h, "drop") => torrent[ip] # "absent" \/ ip \in IPsOf(Tail(asking[h].items))
         /\ At(h, "accepted") => torrent[ip] # "absent"
    /\ asking[h].op = "unblock" =>
         /\ At(h, "unblock") => Absent(ip) \/ ip \in IPsOf(asking[h].items)
         /\ At(h, "unblockIngress") =>
              \/ torrent[ip] = "absent" /\ (ip \notin ingress \/ ip = Item(h).ip)
              \/ ip \in IPsOf(Tail(asking[h].items))
         /\ At(h, "accepted") => Absent(ip)
DoneInv == \A h \in Callers : DoneOK(h)

\* An event is reported by its own webhook, at its last step.
ReportInv ==
  /\ reports \in Seq([event : Events, blocked : BOOLEAN, duration : Int])
  /\ \A e \in Reported \cup collected : e \in Events /\ HookAt(e, "done")
  /\ Reported \cap collected = {}
  /\ IsFiniteSet(Reported) /\ Cardinality(Reported) = Len(reports)

-----------------------------------------------------------------------------
(* Lemmas about the operators.                                             *)

\* A request that goes on keeps everything but its step.
LEMMA GoFact ==
  ASSUME AskingInv, NEW h \in Callers, NEW step \in Steps, Go(h, step)
  PROVE  /\ AskingInv'
         /\ asking'[h].pc = step /\ asking'[h].op = asking[h].op
         /\ asking'[h].items = asking[h].items /\ asking'[h].payload = asking[h].payload
         /\ asking'[h].asked = asking[h].asked
         /\ \A g \in Callers : g # h => asking'[g] = asking[g]
  BY DEF AskingInv, Go, Askings

\* One that is done with an address has one item less.
LEMMA NextItemFact ==
  ASSUME AskingInv, NEW h \in Callers, NEW step \in Steps, NextItem(h, step),
         asking[h].items # <<>>
  PROVE  /\ AskingInv'
         /\ asking'[h].pc = step /\ asking'[h].op = asking[h].op
         /\ asking'[h].items = Tail(asking[h].items)
         /\ asking'[h].payload = asking[h].payload
         /\ asking'[h].asked = asking[h].asked
         /\ \A g \in Callers : g # h => asking'[g] = asking[g]
<1>1. asking[h] \in Askings
  BY DEF AskingInv
<1>2. Tail(asking[h].items) \in Seq(Items)
  BY <1>1 DEF Askings
<1>3. asking' = [asking EXCEPT ![h] =
                   [asking[h] EXCEPT !.pc = step, !.items = Tail(asking[h].items)]]
  BY <1>1 DEF NextItem, AskingInv, Askings
<1>4. [asking[h] EXCEPT !.pc = step, !.items = Tail(asking[h].items)] \in Askings
  BY <1>1, <1>2 DEF Askings
<1> QED
  BY <1>1, <1>3, <1>4 DEF AskingInv, Askings

\* A new request, and one that has been answered.
LEMMA RequestFact ==
  ASSUME AskingInv, NEW h \in Callers, NEW r \in Requests, Request(h, r)
  PROVE  /\ AskingInv'
         /\ asking'[h].pc = r.op /\ asking'[h].op = r.op /\ asking'[h].items = r.items
         /\ asking'[h].payload = r.payload /\ asking'[h].asked = IPsOf(r.items)
         /\ \A g \in Callers : g # h => asking'[g] = asking[g]
<1> DEFINE new == [pc |-> r.op, op |-> r.op, items |-> r.items,
                   payload |-> r.payload, asked |-> IPsOf(r.items)]
<1>1. r.op \in Ops /\ r.items \in Seq(Items) /\ r.payload \in Payloads \cup {Nil}
  BY RequestFields
<1>2. r.op \in Steps
  BY <1>1 DEF Steps, Ops
<1>3. IPsOf(r.items) \subseteq IPs
  <2>1. \A i \in DOMAIN r.items : r.items[i] \in Items
    BY <1>1
  <2> QED
    BY <2>1 DEF IPsOf, Items
<1>4. new \in Askings
  BY <1>1, <1>2, <1>3 DEF Askings
<1>5. asking' = [asking EXCEPT ![h] = new]
  BY DEF Request
<1> HIDE DEF new
<1>6. asking' \in [Callers -> Askings] /\ asking'[h] = new
      /\ \A g \in Callers : g # h => asking'[g] = asking[g]
  BY <1>4, <1>5 DEF AskingInv
<1> QED
  BY <1>6 DEF AskingInv, new

\* A request that is answered leaves the others as they are.
LEMMA AnswerFact ==
  ASSUME AskingInv, NEW h \in Callers, asking' = [asking EXCEPT ![h] = Idle]
  PROVE  /\ AskingInv'
         /\ asking'[h] = Idle
         /\ \A g \in Callers : g # h => asking'[g] = asking[g]
<1>1. Idle \in Askings
  BY DEF Idle, Askings, Steps
<1> QED
  BY <1>1 DEF AskingInv

\* A webhook that goes on.
LEMMA HookFact ==
  ASSUME HookInv, NEW e \in Events, NEW step \in HookSteps,
         hook' = [hook EXCEPT ![e].pc = step]
  PROVE  /\ HookInv'
         /\ hook'[e].pc = step /\ hook'[e].duration = hook[e].duration
         /\ \A f \in Events : f # e => hook'[f] = hook[f]
  BY DEF HookInv, Hooks

\* The others see what a request has changed.
LEMMA TouchFact ==
  ASSUME SetsInv, NEW who, NEW ips \in SUBSET IPs, Touch(who, ips)
  PROVE  /\ touched' \in [Callers -> SUBSET IPs]
         /\ \A h \in Callers : touched[h] \subseteq touched'[h]
         /\ \A h \in Callers : h # who => ips \subseteq touched'[h]
  BY DEF SetsInv, Touch

\* A block that succeeds.
LEMMA BlockFact ==
  ASSUME SetsInv, NEW who, NEW ip \in IPs, NEW timeout, BlockIP(who, ip, timeout)
  PROVE  /\ torrent' \in [IPs -> {"absent", "timed", "forever"}]
         /\ torrent'[ip] # "absent"
         /\ \A other \in IPs : other # ip => torrent'[other] = torrent[other]
         /\ ingress' = ingress /\ Touch(who, {ip})
  BY DEF SetsInv, BlockIP

\* The first item and the others.
LEMMA HeadTail ==
  ASSUME NEW s \in Seq(Items), s # <<>>
  PROVE  /\ IPsOf(s) = {Head(s).ip} \cup IPsOf(Tail(s))
         /\ Head(s).ip \in IPs
<1>1. Head(s) \in Items /\ 1 \in DOMAIN s /\ s[1] = Head(s)
  OBVIOUS
<1>2. \A i \in DOMAIN Tail(s) : i + 1 \in DOMAIN s /\ Tail(s)[i] = s[i + 1]
  OBVIOUS
<1>3. \A i \in DOMAIN s : i # 1 => i - 1 \in DOMAIN Tail(s) /\ Tail(s)[i - 1] = s[i]
  OBVIOUS
<1>4. ASSUME NEW ip \in IPsOf(s) PROVE ip = Head(s).ip \/ ip \in IPsOf(Tail(s))
  <2>1. PICK i \in DOMAIN s : ip = s[i].ip
    BY DEF IPsOf
  <2> QED
    BY <1>1, <1>3, <2>1 DEF IPsOf
<1>5. ASSUME NEW ip \in IPsOf(Tail(s)) PROVE ip \in IPsOf(s)
  <2>1. PICK i \in DOMAIN Tail(s) : ip = Tail(s)[i].ip
    BY DEF IPsOf
  <2> QED
    BY <1>2, <2>1 DEF IPsOf
<1>6. Head(s).ip \in IPsOf(s)
  BY <1>1 DEF IPsOf
<1>7. Head(s).ip \in IPs
  BY <1>1 DEF Items
<1> QED
  BY <1>4, <1>5, <1>6, <1>7

\* The next item of a request, and the rest.
LEMMA ItemFact ==
  ASSUME AskingInv, NEW h \in Callers, asking[h].items # <<>>
  PROVE  /\ Item(h).ip \in IPs
         /\ IPsOf(asking[h].items) = {Item(h).ip} \cup IPsOf(Tail(asking[h].items))
<1>1. asking[h].items \in Seq(Items)
  BY DEF AskingInv, Askings
<1> QED
  BY <1>1, HeadTail DEF Item

\* The settings that apply.
LEMMA SettingsFact ==
  ASSUME SetsInv
  PROVE  BlockerSettings.enabled \in BOOLEAN /\ BlockerSettings.duration \in Int
<1>1. NoBlocker.enabled \in BOOLEAN /\ NoBlocker.duration \in Int
  BY DEF NoBlocker
<1>2. ASSUME current # Nil PROVE current.enabled \in BOOLEAN /\ current.duration \in Int
  <2>1. current \in [enabled : BOOLEAN, duration : Int, ignored : SUBSET IPs,
                     whitelist : SUBSET IPs, ingress : SUBSET IPs]
    BY <1>2, PluginFields DEF SetsInv
  <2> QED
    BY <2>1
<1> QED
  BY <1>1, <1>2 DEF BlockerSettings

\* What a drop is pending for remains so, and what is cut off remains cut off, while
\* nobody leaves the step that drops connections and no connection is opened.
DropsStay ==
  /\ \A e \in Events : hook[e].pc = "drop" => hook'[e].pc = "drop"
  /\ \A h \in Callers : asking[h].pc = "drop" => asking'[h] = asking[h]
\* A drop that is due stays due until it is carried out.
LEMMA DropsStayFact ==
  ASSUME DropsStay, NEW ip, DropPending(ip)
  PROVE  DropPending(ip)'
  BY DEF DropsStay, DropPending, HookAt, At, Item

\* Steps that block nobody, spare nobody less and open no connection keep blocked
\* addresses cut off.
LEMMA CutKept ==
  ASSUME BlockedIsCut, DropsStay, spared \subseteq spared', open' \subseteq open,
         \A ip \in IPs : torrent'[ip] # "absent" => torrent[ip] # "absent"
  PROVE  BlockedIsCut'
  BY DropsStayFact DEF BlockedIsCut

\* A request that rests is where it was, if the sets changed only where it was touched.
Rests(h) ==
  /\ asking'[h] = asking[h] /\ touched[h] \subseteq touched'[h]
  /\ \A ip \in IPs \ touched'[h] :
       torrent'[ip] = torrent[ip] /\ (ip \in ingress' <=> ip \in ingress)
\* A request that rests was answered right as long as only others touch its addresses.
LEMMA RestsFact ==
  ASSUME AskingInv, NEW h \in Callers, Rests(h), DoneOK(h)
  PROVE  DoneOK(h)'
<1>1. asking[h].asked \subseteq IPs
  BY DEF AskingInv, Askings
<1>2. asking'[h] = asking[h] /\ Item(h)' = Item(h)
  BY DEF Rests, Item
<1> SUFFICES ASSUME NEW ip \in asking[h].asked \ touched'[h]
             PROVE  /\ ip \in asking[h].asked \ touched[h]
                    /\ torrent'[ip] = torrent[ip] /\ (ip \in ingress' <=> ip \in ingress)
  BY <1>2 DEF DoneOK, At, Absent
<1> QED
  BY <1>1 DEF Rests

\* Reports join the list one at a time.
LEMMA AppendReported ==
  ASSUME NEW R, reports \in Seq(R), NEW x \in R, reports' = Append(reports, x)
  PROVE  Reported' = Reported \cup {x.event} /\ Len(reports') = Len(reports) + 1
<1>1. /\ Len(reports') = Len(reports) + 1 /\ reports'[Len(reports) + 1] = x
      /\ \A i \in 1..Len(reports) : reports'[i] = reports[i]
      /\ DOMAIN reports = 1..Len(reports) /\ DOMAIN reports' = 1..(Len(reports) + 1)
      /\ Len(reports) \in Nat
  OBVIOUS
<1>2. 1..(Len(reports) + 1) = (1..Len(reports)) \cup {Len(reports) + 1}
  BY <1>1
<1> QED
  BY <1>1, <1>2 DEF Reported

\* The list of reports rests, or is emptied, into the Panel's hands or not.
LEMMA ReportsRest ==
  ASSUME ReportInv, UNCHANGED <<reports, collected>>,
         \A e \in Events : HookAt(e, "done") => hook'[e].pc = "done"
  PROVE  ReportInv'
<1>1. Reported' = Reported
  BY DEF Reported
<1> QED
  BY <1>1 DEF ReportInv, HookAt

\* The list of reports may be handed over or given up as a whole.
LEMMA ReportsGone ==
  ASSUME ReportInv, reports' = <<>>, collected' \subseteq collected \cup Reported,
         \A e \in Events : HookAt(e, "done") => hook'[e].pc = "done"
  PROVE  ReportInv'
<1>1. Reported' = {} /\ reports' \in Seq([event : Events, blocked : BOOLEAN, duration : Int])
  BY DEF Reported
<1>2. IsFiniteSet({}) /\ Cardinality({}) = 0
  BY FS_EmptySet
<1>3. Len(<<>>) = 0
  OBVIOUS
<1> QED
  BY <1>1, <1>2, <1>3 DEF ReportInv, HookAt

-----------------------------------------------------------------------------
(* Each part is kept by every step.                                        *)

\* Requests keep their shape.
LEMMA AskingNext ==
  ASSUME AskingInv, StepInv, [TorrentNext]_torrentVars
  PROVE  AskingInv'
<1> USE DEF Steps, Reject, StepInv, StepOK, At
<1>1. ASSUME NEW e \in Events, HandleXrayWebhook(e) PROVE AskingInv'
  BY <1>1 DEF HandleXrayWebhook, AskingInv
<1>2. ASSUME NEW e \in Events, CheckIgnored(e) PROVE AskingInv'
  BY <1>2 DEF CheckIgnored, AskingInv
<1>3. ASSUME NEW e \in Events, TorrentBlockDuration(e) PROVE AskingInv'
  BY <1>3 DEF TorrentBlockDuration, AskingInv
<1>4. ASSUME NEW e \in Events, BlockSource(e) PROVE AskingInv'
  BY <1>4 DEF BlockSource, AskingInv
<1>5. ASSUME NEW e \in Events, DropSource(e) PROVE AskingInv'
  BY <1>5 DEF DropSource, AskingInv
<1>6. ASSUME NEW e \in Events, AddReport(e) PROVE AskingInv'
  BY <1>6 DEF AddReport, AskingInv
<1>7. ASSUME NEW h \in Callers, NEW r \in Requests, Request(h, r) PROVE AskingInv'
  BY <1>7, RequestFact DEF Request
<1>8. ASSUME NEW h \in Callers, BlockItem(h) PROVE AskingInv'
  BY <1>8, GoFact, NextItemFact DEF BlockItem
<1>9. ASSUME NEW h \in Callers, DropItem(h) PROVE AskingInv'
  BY <1>9, GoFact, NextItemFact DEF DropItem
<1>10. ASSUME NEW h \in Callers, UnblockTorrent(h) PROVE AskingInv'
  BY <1>10, GoFact, NextItemFact DEF UnblockTorrent
<1>11. ASSUME NEW h \in Callers, UnblockIngress(h) PROVE AskingInv'
  BY <1>11, GoFact, NextItemFact DEF UnblockIngress
<1>12. ASSUME NEW h \in Callers, Accept(h) PROVE AskingInv'
  BY <1>12, GoFact, NextItemFact DEF Accept
<1>13. ASSUME NEW h \in Callers, HandleCollectReports(h) PROVE AskingInv'
  BY <1>13, GoFact, NextItemFact DEF HandleCollectReports
<1>14. ASSUME NEW h \in Callers, SyncStore(h) PROVE AskingInv'
  BY <1>14, GoFact, NextItemFact DEF SyncStore
<1>15. ASSUME NEW h \in Callers, SyncSets(h) PROVE AskingInv'
  BY <1>15, GoFact, NextItemFact DEF SyncSets
<1>16. ASSUME NEW h \in Callers, SyncFilters(h) PROVE AskingInv'
  BY <1>16, GoFact, NextItemFact DEF SyncFilters
<1>17. ASSUME NEW h \in Callers, ResetPlugins(h) PROVE AskingInv'
  BY <1>17, GoFact, NextItemFact DEF ResetPlugins
<1>18. ASSUME NEW h \in Callers, HandleRecreateTables(h) PROVE AskingInv'
  BY <1>18, GoFact, NextItemFact DEF HandleRecreateTables
<1>19. ASSUME NEW h \in Callers, Answer(h) PROVE AskingInv'
  BY <1>19, AnswerFact DEF Answer
<1>20. ASSUME NEW ip \in IPs, Connect(ip) PROVE AskingInv'
  BY <1>20 DEF Connect, AskingInv
<1>21. ASSUME NEW ip \in IPs, Expire(ip) PROVE AskingInv'
  BY <1>21 DEF Expire, AskingInv
<1>22. ASSUME Restart PROVE AskingInv'
  <2>1. Idle \in Askings
    BY DEF Idle, Askings, Steps
  <2> QED
    BY <1>22, <2>1 DEF Restart, AskingInv
<1>23. CASE UNCHANGED torrentVars
  BY <1>23 DEF torrentVars, AskingInv
<1> QED
  BY <1>1, <1>2, <1>3, <1>4, <1>5, <1>6, <1>7, <1>8, <1>9, <1>10, <1>11,
     <1>12, <1>13, <1>14, <1>15, <1>16, <1>17, <1>18, <1>19, <1>20, <1>21,
     <1>22, <1>23
  DEF TorrentNext, Webhook, Handle

\* Webhooks keep their shape.
LEMMA HookNext ==
  ASSUME HookInv, SetsInv, [TorrentNext]_torrentVars
  PROVE  HookInv'
<1> USE DEF HookSteps
<1>1. ASSUME NEW e \in Events, HandleXrayWebhook(e) PROVE HookInv'
  BY <1>1, HookFact DEF HandleXrayWebhook
<1>2. ASSUME NEW e \in Events, CheckIgnored(e) PROVE HookInv'
  BY <1>2, HookFact DEF CheckIgnored
<1>3. ASSUME NEW e \in Events, TorrentBlockDuration(e) PROVE HookInv'
  <2>1. BlockerSettings.duration \in Int
    BY SettingsFact
  <2> QED
    <3>1. PICK step \in HookSteps :
            hook' = [hook EXCEPT ![e] = [hook[e] EXCEPT !.pc = step,
                                                       !.duration = BlockerSettings.duration]]
      BY <1>3 DEF TorrentBlockDuration, HookInv, Hooks
    <3>2. \A next \in HookSteps :
            [hook[e] EXCEPT !.pc = next, !.duration = BlockerSettings.duration] \in Hooks
      BY <2>1 DEF HookInv, Hooks
    <3> QED
      BY <3>1, <3>2 DEF HookInv
<1>4. ASSUME NEW e \in Events, BlockSource(e) PROVE HookInv'
  <2>1. CASE hook' = [hook EXCEPT ![e].pc = "drop", ![e].blocked = TRUE]
    BY <2>1 DEF HookInv, Hooks
  <2>2. CASE hook' = [hook EXCEPT ![e].pc = "report"]
    BY <2>2, HookFact
  <2> QED
    BY <1>4, <2>1, <2>2 DEF BlockSource
<1>5. ASSUME NEW e \in Events, DropSource(e) PROVE HookInv'
  BY <1>5, HookFact DEF DropSource
<1>6. ASSUME NEW e \in Events, AddReport(e) PROVE HookInv'
  BY <1>6, HookFact DEF AddReport
<1>7. ASSUME NEW h \in Callers, NEW r \in Requests, Request(h, r) PROVE HookInv'
  BY <1>7 DEF Request, HookInv
<1>8. ASSUME NEW h \in Callers, BlockItem(h) PROVE HookInv'
  BY <1>8 DEF BlockItem, HookInv
<1>9. ASSUME NEW h \in Callers, DropItem(h) PROVE HookInv'
  BY <1>9 DEF DropItem, HookInv
<1>10. ASSUME NEW h \in Callers, UnblockTorrent(h) PROVE HookInv'
  BY <1>10 DEF UnblockTorrent, HookInv
<1>11. ASSUME NEW h \in Callers, UnblockIngress(h) PROVE HookInv'
  BY <1>11 DEF UnblockIngress, HookInv
<1>12. ASSUME NEW h \in Callers, Accept(h) PROVE HookInv'
  BY <1>12 DEF Accept, HookInv
<1>13. ASSUME NEW h \in Callers, HandleCollectReports(h) PROVE HookInv'
  BY <1>13 DEF HandleCollectReports, HookInv
<1>14. ASSUME NEW h \in Callers, SyncStore(h) PROVE HookInv'
  BY <1>14 DEF SyncStore, HookInv
<1>15. ASSUME NEW h \in Callers, SyncSets(h) PROVE HookInv'
  BY <1>15 DEF SyncSets, HookInv
<1>16. ASSUME NEW h \in Callers, SyncFilters(h) PROVE HookInv'
  BY <1>16 DEF SyncFilters, HookInv
<1>17. ASSUME NEW h \in Callers, ResetPlugins(h) PROVE HookInv'
  BY <1>17 DEF ResetPlugins, HookInv
<1>18. ASSUME NEW h \in Callers, HandleRecreateTables(h) PROVE HookInv'
  BY <1>18 DEF HandleRecreateTables, HookInv
<1>19. ASSUME NEW h \in Callers, Answer(h) PROVE HookInv'
  BY <1>19 DEF Answer, HookInv
<1>20. ASSUME NEW ip \in IPs, Connect(ip) PROVE HookInv'
  BY <1>20 DEF Connect, HookInv
<1>21. ASSUME NEW ip \in IPs, Expire(ip) PROVE HookInv'
  BY <1>21 DEF Expire, HookInv
<1>22. ASSUME Restart PROVE HookInv'
  <2>1. \A e \in Events : [hook[e] EXCEPT !.pc = "done"] \in Hooks
    BY DEF HookInv, Hooks
  <2> QED
    BY <1>22, <2>1 DEF Restart, HookInv
<1>23. CASE UNCHANGED torrentVars
  BY <1>23 DEF torrentVars, HookInv
<1> QED
  BY <1>1, <1>2, <1>3, <1>4, <1>5, <1>6, <1>7, <1>8, <1>9, <1>10, <1>11,
     <1>12, <1>13, <1>14, <1>15, <1>16, <1>17, <1>18, <1>19, <1>20, <1>21,
     <1>22, <1>23
  DEF TorrentNext, Webhook, Handle

\* The sets keep theirs.
LEMMA SetsNext ==
  ASSUME AskingInv, SetsInv, StepInv, [TorrentNext]_torrentVars
  PROVE  SetsInv'
<1>1. ASSUME NEW e \in Events, HandleXrayWebhook(e) PROVE SetsInv'
  BY <1>1 DEF HandleXrayWebhook, SetsInv, sets
<1>2. ASSUME NEW e \in Events, CheckIgnored(e) PROVE SetsInv'
  BY <1>2 DEF CheckIgnored, SetsInv, sets
<1>3. ASSUME NEW e \in Events, TorrentBlockDuration(e) PROVE SetsInv'
  BY <1>3 DEF TorrentBlockDuration, SetsInv, sets
<1>4. ASSUME NEW e \in Events, BlockSource(e) PROVE SetsInv'
  <2>1. Source[e] \in IPs
    BY SourceOfEvents
  <2>2. CASE BlockIP(Nil, Source[e], hook[e].duration)
    <3>1. /\ torrent' \in [IPs -> {"absent", "timed", "forever"}]
          /\ ingress' = ingress /\ Touch(Nil, {Source[e]})
      BY <2>1, <2>2, BlockFact
    <3>2. touched' \in [Callers -> SUBSET IPs]
      BY <2>1, <3>1, TouchFact
    <3> QED
      BY <1>4, <3>1, <3>2 DEF BlockSource, SetsInv
  <2>3. CASE UNCHANGED sets
    BY <1>4, <2>3 DEF BlockSource, SetsInv, sets
  <2> QED
    BY <1>4, <2>2, <2>3 DEF BlockSource, BlockIPFails
<1>5. ASSUME NEW e \in Events, DropSource(e) PROVE SetsInv'
  BY <1>5, SourceOfEvents DEF DropSource, DropIPs, SetsInv, sets
<1>6. ASSUME NEW e \in Events, AddReport(e) PROVE SetsInv'
  BY <1>6 DEF AddReport, SetsInv, sets
<1>7. ASSUME NEW h \in Callers, NEW r \in Requests, Request(h, r) PROVE SetsInv'
  BY <1>7 DEF Request, SetsInv
<1>8. ASSUME NEW h \in Callers, BlockItem(h) PROVE SetsInv'
  <2>1. Item(h).ip \in IPs
    BY <1>8, ItemFact DEF BlockItem
  <2>2. CASE BlockIP(h, Item(h).ip, Item(h).timeout)
    <3>1. /\ torrent' \in [IPs -> {"absent", "timed", "forever"}]
          /\ ingress' = ingress /\ Touch(h, {Item(h).ip})
      BY <2>1, <2>2, BlockFact
    <3>2. touched' \in [Callers -> SUBSET IPs]
      BY <2>1, <3>1, TouchFact
    <3> QED
      BY <1>8, <3>1, <3>2 DEF BlockItem, SetsInv
  <2>3. CASE UNCHANGED sets
    BY <1>8, <2>3 DEF BlockItem, SetsInv, sets
  <2> QED
    BY <1>8, <2>2, <2>3 DEF BlockItem, BlockIPFails
<1>9. ASSUME NEW h \in Callers, DropItem(h) PROVE SetsInv'
  <2>1. Item(h).ip \in IPs
    BY <1>9, ItemFact DEF DropItem, At, StepInv, StepOK
  <2> QED
    BY <1>9, <2>1 DEF DropItem, DropIPs, SetsInv, sets
<1>10. ASSUME NEW h \in Callers, UnblockTorrent(h) PROVE SetsInv'
  <2>1. Item(h).ip \in IPs
    BY <1>10, ItemFact DEF UnblockTorrent
  <2>2. CASE Touch(h, {Item(h).ip})
    BY <1>10, <2>1, <2>2, TouchFact DEF UnblockTorrent, SetsInv, sets
  <2>3. CASE UNCHANGED sets
    BY <1>10, <2>3 DEF UnblockTorrent, SetsInv, sets
  <2> QED
    BY <1>10, <2>2, <2>3 DEF UnblockTorrent
<1>11. ASSUME NEW h \in Callers, UnblockIngress(h) PROVE SetsInv'
  <2>1. Item(h).ip \in IPs
    BY <1>11, ItemFact DEF UnblockIngress, At, StepInv, StepOK
  <2>2. CASE Touch(h, {Item(h).ip})
    BY <1>11, <2>1, <2>2, TouchFact DEF UnblockIngress, SetsInv, sets
  <2>3. CASE UNCHANGED sets
    BY <1>11, <2>3 DEF UnblockIngress, SetsInv, sets
  <2> QED
    BY <1>11, <2>2, <2>3 DEF UnblockIngress
<1>12. ASSUME NEW h \in Callers, Accept(h) PROVE SetsInv'
  BY <1>12 DEF Accept, SetsInv, sets
<1>13. ASSUME NEW h \in Callers, HandleCollectReports(h) PROVE SetsInv'
  BY <1>13 DEF HandleCollectReports, SetsInv, sets
<1>14. ASSUME NEW h \in Callers, SyncStore(h) PROVE SetsInv'
  BY <1>14 DEF SyncStore, UpdateFromSync, SetsInv, StepInv, StepOK, At, sets
<1>15. ASSUME NEW h \in Callers, SyncSets(h) PROVE SetsInv'
  <2>1. CASE RecreateSets(h)
    BY <1>15, <2>1, TouchFact DEF SyncSets, RecreateSets, Reset, SetsInv
  <2>2. CASE UNCHANGED sets
    BY <1>15, <2>2 DEF SyncSets, Reset, SetsInv, sets
  <2> QED
    BY <1>15, <2>1, <2>2 DEF SyncSets
<1>16. ASSUME NEW h \in Callers, SyncFilters(h) PROVE SetsInv'
  <2>1. asking[h].payload.ingress \subseteq IPs
    BY <1>16, PluginFields DEF SyncFilters, StepInv, StepOK, At
  <2>2. CASE Touch(h, asking[h].payload.ingress)
    BY <1>16, <2>1, <2>2, TouchFact DEF SyncFilters, Reset, SetsInv, sets
  <2>3. CASE UNCHANGED sets
    BY <1>16, <2>3 DEF SyncFilters, Reset, SetsInv, sets
  <2> QED
    BY <1>16, <2>2, <2>3 DEF SyncFilters
<1>17. ASSUME NEW h \in Callers, ResetPlugins(h) PROVE SetsInv'
  BY <1>17 DEF ResetPlugins, Reset, SetsInv, sets
<1>18. ASSUME NEW h \in Callers, HandleRecreateTables(h) PROVE SetsInv'
  <2>1. CASE RecreateSets(h)
    BY <1>18, <2>1, TouchFact DEF HandleRecreateTables, RecreateSets, SetsInv
  <2>2. CASE UNCHANGED sets
    BY <1>18, <2>2 DEF HandleRecreateTables, Reset, SetsInv, sets
  <2> QED
    BY <1>18, <2>1, <2>2 DEF HandleRecreateTables
<1>19. ASSUME NEW h \in Callers, Answer(h) PROVE SetsInv'
  BY <1>19 DEF Answer, SetsInv
<1>20. ASSUME NEW ip \in IPs, Connect(ip) PROVE SetsInv'
  BY <1>20 DEF Connect, SetsInv, sets
<1>21. ASSUME NEW ip \in IPs, Expire(ip) PROVE SetsInv'
  BY <1>21, TouchFact DEF Expire, SetsInv
<1>22. ASSUME Restart PROVE SetsInv'
  BY <1>22 DEF Restart, SetsInv
<1>23. CASE UNCHANGED torrentVars
  BY <1>23 DEF torrentVars, SetsInv, sets
<1> QED
  BY <1>1, <1>2, <1>3, <1>4, <1>5, <1>6, <1>7, <1>8, <1>9, <1>10, <1>11,
     <1>12, <1>13, <1>14, <1>15, <1>16, <1>17, <1>18, <1>19, <1>20, <1>21,
     <1>22, <1>23
  DEF TorrentNext, Webhook, Handle

\* Steps go with operations.
LEMMA StepNext ==
  ASSUME AskingInv, HookInv, SetsInv, StepInv, [TorrentNext]_torrentVars
  PROVE  StepInv'
<1> USE DEF StepInv, Steps, Reject, At, HookAt
<1>1. ASSUME NEW e \in Events, HandleXrayWebhook(e) PROVE StepInv'
  BY <1>1, HookFact DEF HandleXrayWebhook, HookInv, HookSteps
<1>2. ASSUME NEW e \in Events, CheckIgnored(e) PROVE StepInv'
  BY <1>2, HookFact DEF CheckIgnored, HookInv, HookSteps
<1>3. ASSUME NEW e \in Events, TorrentBlockDuration(e) PROVE StepInv'
  BY <1>3, SettingsFact DEF TorrentBlockDuration, HookInv, HookSteps
<1>4. ASSUME NEW e \in Events, BlockSource(e) PROVE StepInv'
  <2>1. ASSUME NEW f \in Events, hook'[f].pc = "drop" PROVE hook'[f].duration >= 0
    BY <1>4, <2>1 DEF BlockSource, BlockIP, HookInv, Hooks
  <2> QED
    BY <1>4, <2>1 DEF BlockSource
<1>5. ASSUME NEW e \in Events, DropSource(e) PROVE StepInv'
  BY <1>5, HookFact DEF DropSource, HookInv, HookSteps
<1>6. ASSUME NEW e \in Events, AddReport(e) PROVE StepInv'
  BY <1>6, HookFact DEF AddReport, HookInv, HookSteps
<1>7. ASSUME NEW h \in Callers, NEW r \in Requests, Request(h, r) PROVE StepInv'
  <2>1. /\ asking'[h].pc = r.op /\ asking'[h].op = r.op /\ asking'[h].payload = r.payload
        /\ \A g \in Callers : g # h => asking'[g] = asking[g]
    BY <1>7, RequestFact
  <2>2. r.op \in Ops /\ (r.op = "sync" => r.payload \in Payloads)
    BY RequestFields
  <2>3. StepOK(asking'[h])
    BY <2>1, <2>2 DEF Ops, StepOK
  <2>4. UNCHANGED hook
    BY <1>7 DEF Request
  <2> QED
    BY <2>1, <2>3, <2>4
<1>8. ASSUME NEW h \in Callers, BlockItem(h) PROVE StepInv'
  <2>1. asking[h].op = "block" /\ asking[h].items # <<>> /\ UNCHANGED hook
    BY <1>8 DEF BlockItem, StepOK
  <2>2. CASE Go(h, "drop") /\ Item(h).timeout >= 0
    <3>1. /\ asking'[h].pc = "drop" /\ asking'[h].op = asking[h].op
          /\ asking'[h].items = asking[h].items
          /\ \A g \in Callers : g # h => asking'[g] = asking[g]
      BY <2>2, GoFact
    <3>2. StepOK(asking'[h])
      BY <2>1, <2>2, <3>1 DEF StepOK, Item
    <3> QED
      BY <2>1, <3>1, <3>2
  <2>3. CASE Reject(h)
    <3>1. /\ asking'[h].pc = "rejected"
          /\ \A g \in Callers : g # h => asking'[g] = asking[g]
      BY <2>3, GoFact
    <3>2. StepOK(asking'[h])
      BY <3>1 DEF StepOK
    <3> QED
      BY <2>1, <3>1, <3>2
  <2> QED
    BY <1>8, <2>2, <2>3 DEF BlockItem, BlockIP
<1>9. ASSUME NEW h \in Callers, DropItem(h) PROVE StepInv'
  <2>1. /\ StepOK(asking'[h]) /\ UNCHANGED hook
        /\ \A g \in Callers : g # h => asking'[g] = asking[g]
    BY <1>9, GoFact, NextItemFact DEF DropItem, StepOK
  <2> QED
    BY <2>1
<1>10. ASSUME NEW h \in Callers, UnblockTorrent(h) PROVE StepInv'
  <2>1. /\ StepOK(asking'[h]) /\ UNCHANGED hook
        /\ \A g \in Callers : g # h => asking'[g] = asking[g]
    BY <1>10, GoFact, NextItemFact DEF UnblockTorrent, StepOK
  <2> QED
    BY <2>1
<1>11. ASSUME NEW h \in Callers, UnblockIngress(h) PROVE StepInv'
  <2>1. /\ StepOK(asking'[h]) /\ UNCHANGED hook
        /\ \A g \in Callers : g # h => asking'[g] = asking[g]
    BY <1>11, GoFact, NextItemFact DEF UnblockIngress, StepOK
  <2> QED
    BY <2>1
<1>12. ASSUME NEW h \in Callers, Accept(h) PROVE StepInv'
  <2>1. /\ StepOK(asking'[h]) /\ UNCHANGED hook
        /\ \A g \in Callers : g # h => asking'[g] = asking[g]
    BY <1>12, GoFact, NextItemFact DEF Accept, StepOK
  <2> QED
    BY <2>1
<1>13. ASSUME NEW h \in Callers, HandleCollectReports(h) PROVE StepInv'
  <2>1. /\ StepOK(asking'[h]) /\ UNCHANGED hook
        /\ \A g \in Callers : g # h => asking'[g] = asking[g]
    BY <1>13, GoFact, NextItemFact DEF HandleCollectReports, StepOK
  <2> QED
    BY <2>1
<1>14. ASSUME NEW h \in Callers, SyncStore(h) PROVE StepInv'
  <2>1. /\ StepOK(asking'[h]) /\ UNCHANGED hook
        /\ \A g \in Callers : g # h => asking'[g] = asking[g]
    BY <1>14, GoFact, NextItemFact DEF SyncStore, StepOK
  <2> QED
    BY <2>1
<1>15. ASSUME NEW h \in Callers, SyncSets(h) PROVE StepInv'
  <2>1. /\ StepOK(asking'[h]) /\ UNCHANGED hook
        /\ \A g \in Callers : g # h => asking'[g] = asking[g]
    BY <1>15, GoFact, NextItemFact DEF SyncSets, StepOK
  <2> QED
    BY <2>1
<1>16. ASSUME NEW h \in Callers, SyncFilters(h) PROVE StepInv'
  <2>1. /\ StepOK(asking'[h]) /\ UNCHANGED hook
        /\ \A g \in Callers : g # h => asking'[g] = asking[g]
    BY <1>16, GoFact, NextItemFact DEF SyncFilters, StepOK
  <2> QED
    BY <2>1
<1>17. ASSUME NEW h \in Callers, ResetPlugins(h) PROVE StepInv'
  <2>1. /\ StepOK(asking'[h]) /\ UNCHANGED hook
        /\ \A g \in Callers : g # h => asking'[g] = asking[g]
    BY <1>17, GoFact, NextItemFact DEF ResetPlugins, StepOK
  <2> QED
    BY <2>1
<1>18. ASSUME NEW h \in Callers, HandleRecreateTables(h) PROVE StepInv'
  <2>1. /\ StepOK(asking'[h]) /\ UNCHANGED hook
        /\ \A g \in Callers : g # h => asking'[g] = asking[g]
    BY <1>18, GoFact, NextItemFact DEF HandleRecreateTables, StepOK
  <2> QED
    BY <2>1
<1>19. ASSUME NEW h \in Callers, Answer(h) PROVE StepInv'
  <2>1. /\ StepOK(asking'[h]) /\ UNCHANGED hook
        /\ \A g \in Callers : g # h => asking'[g] = asking[g]
    BY <1>19, AnswerFact DEF Answer, Idle, StepOK
  <2> QED
    BY <2>1
<1>20. ASSUME NEW ip \in IPs, Connect(ip) PROVE StepInv'
  BY <1>20 DEF Connect
<1>21. ASSUME NEW ip \in IPs, Expire(ip) PROVE StepInv'
  BY <1>21 DEF Expire
<1>22. ASSUME Restart PROVE StepInv'
  <2>1. StepOK(Idle)
    BY DEF Idle, StepOK
  <2> QED
    BY <1>22, <2>1 DEF Restart, HookInv, Hooks
<1>23. CASE UNCHANGED torrentVars
  BY <1>23 DEF torrentVars, StepInv
<1> QED
  BY <1>1, <1>2, <1>3, <1>4, <1>5, <1>6, <1>7, <1>8, <1>9, <1>10, <1>11,
     <1>12, <1>13, <1>14, <1>15, <1>16, <1>17, <1>18, <1>19, <1>20, <1>21,
     <1>22, <1>23
  DEF TorrentNext, Webhook, Handle

\* An address that is blocked stays cut off.
LEMMA CutNext ==
  ASSUME AskingInv, HookInv, SetsInv, StepInv, BlockedIsCut, [TorrentNext]_torrentVars
  PROVE  BlockedIsCut'
<1>1. ASSUME NEW e \in Events, HandleXrayWebhook(e) PROVE BlockedIsCut'
  <2>1. DropsStay
    BY <1>1 DEF HandleXrayWebhook, DropsStay, HookAt, HookInv, Hooks
  <2>2. spared \subseteq spared' /\ open' \subseteq open
        /\ \A ip \in IPs : torrent'[ip] # "absent" => torrent[ip] # "absent"
    BY <1>1 DEF HandleXrayWebhook, sets
  <2> QED
    BY <2>1, <2>2, CutKept
<1>2. ASSUME NEW e \in Events, CheckIgnored(e) PROVE BlockedIsCut'
  <2>1. DropsStay
    BY <1>2 DEF CheckIgnored, DropsStay, HookAt, HookInv, Hooks
  <2>2. spared \subseteq spared' /\ open' \subseteq open
        /\ \A ip \in IPs : torrent'[ip] # "absent" => torrent[ip] # "absent"
    BY <1>2 DEF CheckIgnored, sets
  <2> QED
    BY <2>1, <2>2, CutKept
<1>3. ASSUME NEW e \in Events, TorrentBlockDuration(e) PROVE BlockedIsCut'
  <2>1. DropsStay
    BY <1>3 DEF TorrentBlockDuration, DropsStay, HookAt, HookInv, Hooks
  <2>2. spared \subseteq spared' /\ open' \subseteq open
        /\ \A ip \in IPs : torrent'[ip] # "absent" => torrent[ip] # "absent"
    BY <1>3 DEF TorrentBlockDuration, sets
  <2> QED
    BY <2>1, <2>2, CutKept
<1>4. ASSUME NEW e \in Events, BlockSource(e) PROVE BlockedIsCut'
  <2>1. DropsStay
    BY <1>4 DEF BlockSource, DropsStay, HookAt, HookInv, Hooks
  <2>2. open' = open /\ spared' = spared
    BY <1>4 DEF BlockSource
  <2>3. CASE UNCHANGED sets
    BY <2>1, <2>2, <2>3, CutKept DEF sets
  <2>4. CASE BlockIP(Nil, Source[e], hook[e].duration) /\ hook' = [hook EXCEPT ![e].pc = "drop", ![e].blocked = TRUE]
    <3>1. Source[e] \in IPs
      BY <1>4, SourceOfEvents
    <3>2. \A other \in IPs : other # Source[e] => torrent'[other] = torrent[other]
      BY <2>4, <3>1, BlockFact
    <3>3. DropPending(Source[e])'
      BY <1>4, <2>4, SourceOfEvents DEF BlockSource, DropPending, HookAt, HookInv, Hooks
    <3> QED
      BY <2>1, <2>2, <3>2, <3>3, DropsStayFact DEF BlockedIsCut
  <2> QED
    BY <1>4, <2>3, <2>4 DEF BlockSource, BlockIPFails
<1>5. ASSUME NEW e \in Events, DropSource(e) PROVE BlockedIsCut'
  <2>1. torrent' = torrent
    BY <1>5 DEF DropSource, sets
  <2>2. \A other \in IPs : other # Source[e] /\ DropPending(other) => DropPending(other)'
    BY <1>5, HookFact DEF DropSource, DropPending, HookAt, At, Item, HookSteps
  <2>3. CASE open' = open \ {Source[e]} /\ spared' = spared \ {Source[e]}
    BY <2>1, <2>2, <2>3 DEF BlockedIsCut
  <2>4. CASE spared' = spared \cup {Source[e]} /\ UNCHANGED open
    BY <2>1, <2>2, <2>4 DEF BlockedIsCut
  <2> QED
    BY <1>5, <2>3, <2>4 DEF DropSource, DropIPs
<1>6. ASSUME NEW e \in Events, AddReport(e) PROVE BlockedIsCut'
  <2>1. DropsStay
    BY <1>6 DEF AddReport, DropsStay, HookAt, HookInv, Hooks
  <2>2. spared \subseteq spared' /\ open' \subseteq open
        /\ \A ip \in IPs : torrent'[ip] # "absent" => torrent[ip] # "absent"
    BY <1>6 DEF AddReport, sets
  <2> QED
    BY <2>1, <2>2, CutKept
<1>7. ASSUME NEW h \in Callers, NEW r \in Requests, Request(h, r) PROVE BlockedIsCut'
  <2>1. DropsStay
    BY <1>7, RequestFact DEF Request, DropsStay, Reject, At, Steps
  <2>2. spared \subseteq spared' /\ open' \subseteq open
        /\ \A ip \in IPs : torrent'[ip] # "absent" => torrent[ip] # "absent"
    BY <1>7 DEF Request, SetsInv, sets
  <2> QED
    BY <2>1, <2>2, CutKept
<1>8. ASSUME NEW h \in Callers, BlockItem(h) PROVE BlockedIsCut'
  <2>1. DropsStay
    BY <1>8, GoFact DEF BlockItem, DropsStay, Reject, At, Steps
  <2>2. open' = open /\ spared' = spared
    BY <1>8 DEF BlockItem
  <2>3. CASE UNCHANGED sets
    BY <2>1, <2>2, <2>3, CutKept DEF sets
  <2>4. CASE BlockIP(h, Item(h).ip, Item(h).timeout) /\ Go(h, "drop")
    <3>1. Item(h).ip \in IPs
      BY <1>8, ItemFact DEF BlockItem
    <3>2. \A other \in IPs : other # Item(h).ip => torrent'[other] = torrent[other]
      BY <2>4, <3>1, BlockFact
    <3>3. ASSUME NEW ip, ip = Item(h).ip PROVE DropPending(ip)'
      BY <1>8, <2>4, <3>3, GoFact DEF BlockItem, DropPending, At, Item, Steps
    <3> QED
      BY <2>1, <2>2, <3>2, <3>3, DropsStayFact DEF BlockedIsCut
  <2> QED
    BY <1>8, <2>3, <2>4 DEF BlockItem, BlockIPFails
<1>9. ASSUME NEW h \in Callers, DropItem(h) PROVE BlockedIsCut'
  <2>1. torrent' = torrent
    BY <1>9 DEF DropItem, sets
  <2>2. \A other \in IPs : other # Item(h).ip /\ DropPending(other) => DropPending(other)'
    <3>1. UNCHANGED hook /\ \A g \in Callers : g # h => asking'[g] = asking[g]
      BY <1>9, NextItemFact DEF DropItem, StepInv, StepOK, At, Steps
    <3> QED
      BY <3>1 DEF DropPending, HookAt, At, Item
  <2>3. CASE open' = open \ {Item(h).ip} /\ spared' = spared \ {Item(h).ip}
    BY <2>1, <2>2, <2>3 DEF BlockedIsCut
  <2>4. CASE spared' = spared \cup {Item(h).ip} /\ UNCHANGED open
    BY <2>1, <2>2, <2>4 DEF BlockedIsCut
  <2> QED
    BY <1>9, <2>3, <2>4 DEF DropItem, DropIPs
<1>10. ASSUME NEW h \in Callers, UnblockTorrent(h) PROVE BlockedIsCut'
  <2>1. DropsStay
    BY <1>10, GoFact DEF UnblockTorrent, DropsStay, Reject, At, Steps
  <2>2. spared \subseteq spared' /\ open' \subseteq open
        /\ \A ip \in IPs : torrent'[ip] # "absent" => torrent[ip] # "absent"
    BY <1>10 DEF UnblockTorrent, SetsInv, sets
  <2> QED
    BY <2>1, <2>2, CutKept
<1>11. ASSUME NEW h \in Callers, UnblockIngress(h) PROVE BlockedIsCut'
  <2>1. DropsStay
    BY <1>11, GoFact, NextItemFact DEF UnblockIngress, DropsStay, Reject, At, Steps, StepInv, StepOK
  <2>2. spared \subseteq spared' /\ open' \subseteq open
        /\ \A ip \in IPs : torrent'[ip] # "absent" => torrent[ip] # "absent"
    BY <1>11 DEF UnblockIngress, SetsInv, sets
  <2> QED
    BY <2>1, <2>2, CutKept
<1>12. ASSUME NEW h \in Callers, Accept(h) PROVE BlockedIsCut'
  <2>1. DropsStay
    BY <1>12, GoFact DEF Accept, DropsStay, Reject, At, Steps
  <2>2. spared \subseteq spared' /\ open' \subseteq open
        /\ \A ip \in IPs : torrent'[ip] # "absent" => torrent[ip] # "absent"
    BY <1>12 DEF Accept, SetsInv, sets
  <2> QED
    BY <2>1, <2>2, CutKept
<1>13. ASSUME NEW h \in Callers, HandleCollectReports(h) PROVE BlockedIsCut'
  <2>1. DropsStay
    BY <1>13, GoFact DEF HandleCollectReports, DropsStay, Reject, At, Steps
  <2>2. spared \subseteq spared' /\ open' \subseteq open
        /\ \A ip \in IPs : torrent'[ip] # "absent" => torrent[ip] # "absent"
    BY <1>13 DEF HandleCollectReports, SetsInv, sets
  <2> QED
    BY <2>1, <2>2, CutKept
<1>14. ASSUME NEW h \in Callers, SyncStore(h) PROVE BlockedIsCut'
  <2>1. DropsStay
    BY <1>14, GoFact DEF SyncStore, DropsStay, Reject, At, Steps
  <2>2. spared \subseteq spared' /\ open' \subseteq open
        /\ \A ip \in IPs : torrent'[ip] # "absent" => torrent[ip] # "absent"
    BY <1>14 DEF SyncStore, SetsInv, sets, UpdateFromSync
  <2> QED
    BY <2>1, <2>2, CutKept
<1>15. ASSUME NEW h \in Callers, SyncSets(h) PROVE BlockedIsCut'
  <2>1. DropsStay
    BY <1>15, GoFact DEF SyncSets, DropsStay, Reject, At, Steps
  <2>2. spared \subseteq spared' /\ open' \subseteq open
        /\ \A ip \in IPs : torrent'[ip] # "absent" => torrent[ip] # "absent"
    BY <1>15 DEF SyncSets, SetsInv, sets, Reset, RecreateSets
  <2> QED
    BY <2>1, <2>2, CutKept
<1>16. ASSUME NEW h \in Callers, SyncFilters(h) PROVE BlockedIsCut'
  <2>1. DropsStay
    BY <1>16, GoFact DEF SyncFilters, DropsStay, Reject, At, Steps
  <2>2. spared \subseteq spared' /\ open' \subseteq open
        /\ \A ip \in IPs : torrent'[ip] # "absent" => torrent[ip] # "absent"
    BY <1>16 DEF SyncFilters, SetsInv, sets, Reset
  <2> QED
    BY <2>1, <2>2, CutKept
<1>17. ASSUME NEW h \in Callers, ResetPlugins(h) PROVE BlockedIsCut'
  <2>1. DropsStay
    BY <1>17, GoFact DEF ResetPlugins, DropsStay, Reject, At, Steps
  <2>2. spared \subseteq spared' /\ open' \subseteq open
        /\ \A ip \in IPs : torrent'[ip] # "absent" => torrent[ip] # "absent"
    BY <1>17 DEF ResetPlugins, SetsInv, sets, Reset
  <2> QED
    BY <2>1, <2>2, CutKept
<1>18. ASSUME NEW h \in Callers, HandleRecreateTables(h) PROVE BlockedIsCut'
  <2>1. DropsStay
    BY <1>18, GoFact DEF HandleRecreateTables, DropsStay, Reject, At, Steps
  <2>2. spared \subseteq spared' /\ open' \subseteq open
        /\ \A ip \in IPs : torrent'[ip] # "absent" => torrent[ip] # "absent"
    BY <1>18 DEF HandleRecreateTables, SetsInv, sets, RecreateSets
  <2> QED
    BY <2>1, <2>2, CutKept
<1>19. ASSUME NEW h \in Callers, Answer(h) PROVE BlockedIsCut'
  <2>1. DropsStay
    BY <1>19, AnswerFact DEF Answer, DropsStay, Reject, At, Steps
  <2>2. spared \subseteq spared' /\ open' \subseteq open
        /\ \A ip \in IPs : torrent'[ip] # "absent" => torrent[ip] # "absent"
    BY <1>19 DEF Answer, SetsInv, sets
  <2> QED
    BY <2>1, <2>2, CutKept
<1>20. ASSUME NEW ip \in IPs, Connect(ip) PROVE BlockedIsCut'
  <2>1. DropsStay /\ torrent' = torrent
    BY <1>20 DEF Connect, DropsStay, sets
  <2>2. \A other \in IPs : other # ip /\ other \in open' => other \in open
    BY <1>20 DEF Connect
  <2>3. \A other \in IPs : other # ip /\ other \in spared => other \in spared'
    BY <1>20 DEF Connect
  <2>4. torrent[ip] = "absent"
    BY <1>20 DEF Connect
  <2> QED
    BY <2>1, <2>2, <2>3, <2>4, DropsStayFact DEF BlockedIsCut
<1>21. ASSUME NEW ip \in IPs, Expire(ip) PROVE BlockedIsCut'
  <2>1. DropsStay
    BY <1>21 DEF Expire, DropsStay
  <2>2. spared \subseteq spared' /\ open' \subseteq open
        /\ \A other \in IPs : torrent'[other] # "absent" => torrent[other] # "absent"
    BY <1>21 DEF Expire, SetsInv
  <2> QED
    BY <2>1, <2>2, CutKept
<1>22. ASSUME Restart PROVE BlockedIsCut'
  BY <1>22 DEF Restart, BlockedIsCut
<1>23. CASE UNCHANGED torrentVars
  BY <1>23 DEF torrentVars, sets, BlockedIsCut, DropPending, HookAt, At, Item
<1> QED
  BY <1>1, <1>2, <1>3, <1>4, <1>5, <1>6, <1>7, <1>8, <1>9, <1>10, <1>11,
     <1>12, <1>13, <1>14, <1>15, <1>16, <1>17, <1>18, <1>19, <1>20, <1>21,
     <1>22, <1>23
  DEF TorrentNext, Webhook, Handle

\* What a request has done stays done, but for what others have touched.
LEMMA DoneNext ==
  ASSUME AskingInv, SetsInv, StepInv, DoneInv, [TorrentNext]_torrentVars
  PROVE  DoneInv'
<1>1. ASSUME NEW e \in Events, HandleXrayWebhook(e) PROVE DoneInv'
  <2>1. \A g \in Callers : Rests(g)
    BY <1>1 DEF HandleXrayWebhook, Rests, sets
  <2> QED
    BY <2>1, RestsFact DEF DoneInv
<1>2. ASSUME NEW e \in Events, CheckIgnored(e) PROVE DoneInv'
  <2>1. \A g \in Callers : Rests(g)
    BY <1>2 DEF CheckIgnored, Rests, sets
  <2> QED
    BY <2>1, RestsFact DEF DoneInv
<1>3. ASSUME NEW e \in Events, TorrentBlockDuration(e) PROVE DoneInv'
  <2>1. \A g \in Callers : Rests(g)
    BY <1>3 DEF TorrentBlockDuration, Rests, sets
  <2> QED
    BY <2>1, RestsFact DEF DoneInv
<1>4. ASSUME NEW e \in Events, BlockSource(e) PROVE DoneInv'
  <2>1. CASE UNCHANGED sets
    <3>1. \A g \in Callers : Rests(g)
      BY <1>4, <2>1 DEF BlockSource, Rests, sets
    <3> QED
      BY <3>1, RestsFact DEF DoneInv
  <2>2. CASE BlockIP(Nil, Source[e], hook[e].duration)
    <3>1. Source[e] \in IPs
      BY SourceOfEvents
    <3>2. /\ \A ip \in IPs : ip # Source[e] => torrent'[ip] = torrent[ip]
          /\ ingress' = ingress /\ Touch(Nil, {Source[e]})
      BY <2>2, <3>1, BlockFact
    <3>3. \A g \in Callers : touched[g] \subseteq touched'[g] /\ Source[e] \in touched'[g]
      BY <3>1, <3>2, TouchFact, NilIsNoPlugin
    <3>4. \A g \in Callers : Rests(g)
      BY <1>4, <3>2, <3>3 DEF BlockSource, Rests
    <3> QED
      BY <3>4, RestsFact DEF DoneInv
  <2> QED
    BY <1>4, <2>1, <2>2 DEF BlockSource, BlockIPFails
<1>5. ASSUME NEW e \in Events, DropSource(e) PROVE DoneInv'
  <2>1. \A g \in Callers : Rests(g)
    BY <1>5 DEF DropSource, Rests, sets
  <2> QED
    BY <2>1, RestsFact DEF DoneInv
<1>6. ASSUME NEW e \in Events, AddReport(e) PROVE DoneInv'
  <2>1. \A g \in Callers : Rests(g)
    BY <1>6 DEF AddReport, Rests, sets
  <2> QED
    BY <2>1, RestsFact DEF DoneInv
<1>7. ASSUME NEW h \in Callers, NEW r \in Requests, Request(h, r) PROVE DoneInv'
  <2>1. \A g \in Callers : g # h => Rests(g)
    BY <1>7, RequestFact DEF Request, Rests, SetsInv
  <2>2. DoneOK(h)'
    <3>1. /\ asking'[h].pc = r.op /\ asking'[h].op = r.op /\ asking'[h].items = r.items
          /\ asking'[h].asked = IPsOf(r.items)
      BY <1>7, RequestFact
    <3> QED
      BY <3>1 DEF DoneOK, At
  <2> QED
    BY <2>1, <2>2, RestsFact DEF DoneInv
<1>8. ASSUME NEW h \in Callers, BlockItem(h) PROVE DoneInv'
  <2>1. CASE UNCHANGED sets /\ Reject(h)
    <3>1. \A g \in Callers : g # h => Rests(g)
      BY <2>1, GoFact DEF Rests, sets, Steps, Reject
    <3>2. asking'[h].pc = "rejected"
      BY <2>1, GoFact DEF Steps, Reject
    <3> QED
      BY <3>1, <3>2, RestsFact DEF DoneInv, DoneOK, At
  <2>2. CASE BlockIP(h, Item(h).ip, Item(h).timeout) /\ Go(h, "drop")
    <3>1. /\ Item(h).ip \in IPs
          /\ IPsOf(asking[h].items) = {Item(h).ip} \cup IPsOf(Tail(asking[h].items))
      BY <1>8, ItemFact DEF BlockItem
    <3>2. /\ \A ip \in IPs : ip # Item(h).ip => torrent'[ip] = torrent[ip]
          /\ torrent'[Item(h).ip] # "absent"
          /\ ingress' = ingress /\ Touch(h, {Item(h).ip})
      BY <2>2, <3>1, BlockFact
    <3>3. \A g \in Callers : g # h => touched[g] \subseteq touched'[g] /\ Item(h).ip \in touched'[g]
      BY <3>1, <3>2, TouchFact
    <3>4. /\ asking'[h].pc = "drop" /\ asking'[h].op = asking[h].op
          /\ asking'[h].items = asking[h].items /\ asking'[h].asked = asking[h].asked
          /\ \A g \in Callers : g # h => asking'[g] = asking[g]
      BY <2>2, GoFact DEF Steps
    <3>5. \A g \in Callers : g # h => Rests(g)
      BY <3>2, <3>3, <3>4 DEF Rests
    <3>6. touched[h] \subseteq touched'[h] /\ asking[h].asked \subseteq IPs
      BY <3>1, <3>2, TouchFact DEF AskingInv, Askings
    <3>7. DoneOK(h)'
      <4>1. asking[h].op = "block" /\ asking[h].pc = "block"
        BY <1>8 DEF BlockItem, At, StepInv, StepOK
      <4>2. ASSUME NEW ip \in asking[h].asked \ touched'[h]
            PROVE  torrent'[ip] # "absent" \/ ip \in IPsOf(Tail(asking[h].items))
        BY <3>1, <3>2, <3>6, <4>1, <4>2 DEF DoneInv, DoneOK, At
      <4> QED
        BY <3>4, <4>1, <4>2 DEF DoneOK, At
    <3> QED
      BY <3>5, <3>7, RestsFact DEF DoneInv
  <2> QED
    BY <1>8, <2>1, <2>2 DEF BlockItem, BlockIPFails
<1>9. ASSUME NEW h \in Callers, DropItem(h) PROVE DoneInv'
  <2>1. At(h, "drop") /\ NextItem(h, "block") /\ asking[h].items # <<>> /\ asking[h].op = "block"
    BY <1>9 DEF DropItem, At, StepInv, StepOK
  <2>2. /\ asking'[h].pc = "block" /\ asking'[h].op = asking[h].op
        /\ asking'[h].items = Tail(asking[h].items) /\ asking'[h].asked = asking[h].asked
        /\ \A g \in Callers : g # h => asking'[g] = asking[g]
    BY <2>1, NextItemFact DEF Steps
  <2>3. UNCHANGED <<torrent, ingress, touched>>
    BY <1>9 DEF DropItem, sets
  <2>4. \A g \in Callers : g # h => Rests(g)
    BY <2>2, <2>3 DEF Rests
  <2>5. DoneOK(h)'
    BY <2>1, <2>2, <2>3 DEF DoneInv, DoneOK, At
  <2> QED
    BY <2>4, <2>5, RestsFact DEF DoneInv
<1>10. ASSUME NEW h \in Callers, UnblockTorrent(h) PROVE DoneInv'
  <2>1. CASE UNCHANGED sets /\ Reject(h)
    <3>1. \A g \in Callers : g # h => Rests(g)
      BY <2>1, GoFact DEF Rests, sets, Steps, Reject
    <3>2. asking'[h].pc = "rejected"
      BY <2>1, GoFact DEF Steps, Reject
    <3> QED
      BY <3>1, <3>2, RestsFact DEF DoneInv, DoneOK, At
  <2>2. CASE /\ torrent' = [torrent EXCEPT ![Item(h).ip] = "absent"] /\ UNCHANGED ingress
             /\ Touch(h, {Item(h).ip}) /\ Go(h, "unblockIngress")
    <3>1. /\ Item(h).ip \in IPs
          /\ IPsOf(asking[h].items) = {Item(h).ip} \cup IPsOf(Tail(asking[h].items))
      BY <1>10, ItemFact DEF UnblockTorrent
    <3>2. /\ \A ip \in IPs : ip # Item(h).ip => torrent'[ip] = torrent[ip]
          /\ torrent'[Item(h).ip] = "absent"
      BY <2>2, <3>1 DEF SetsInv
    <3>3. \A g \in Callers : g # h => touched[g] \subseteq touched'[g] /\ Item(h).ip \in touched'[g]
      BY <2>2, <3>1, TouchFact
    <3>4. /\ asking'[h].pc = "unblockIngress" /\ asking'[h].op = asking[h].op
          /\ asking'[h].items = asking[h].items /\ asking'[h].asked = asking[h].asked
          /\ \A g \in Callers : g # h => asking'[g] = asking[g]
      BY <2>2, GoFact DEF Steps
    <3>5. \A g \in Callers : g # h => Rests(g)
      BY <2>2, <3>2, <3>3, <3>4 DEF Rests
    <3>6. touched[h] \subseteq touched'[h] /\ asking[h].asked \subseteq IPs
      BY <2>2, <3>1, TouchFact DEF AskingInv, Askings
    <3>7. DoneOK(h)'
      <4>1. asking[h].op = "unblock" /\ asking[h].pc = "unblock" /\ Item(h)' = Item(h)
        BY <1>10, <3>4 DEF UnblockTorrent, At, StepInv, StepOK, Item
      <4>2. ASSUME NEW ip \in asking[h].asked \ touched'[h]
            PROVE  \/ torrent'[ip] = "absent" /\ (ip \notin ingress' \/ ip = Item(h).ip)
                   \/ ip \in IPsOf(Tail(asking[h].items))
        BY <2>2, <3>1, <3>2, <3>6, <4>1, <4>2 DEF DoneInv, DoneOK, At, Absent
      <4> QED
        BY <3>4, <4>1, <4>2 DEF DoneOK, At
    <3> QED
      BY <3>5, <3>7, RestsFact DEF DoneInv
  <2> QED
    BY <1>10, <2>1, <2>2 DEF UnblockTorrent
<1>11. ASSUME NEW h \in Callers, UnblockIngress(h) PROVE DoneInv'
  <2>1. CASE UNCHANGED sets /\ Reject(h)
    <3>1. \A g \in Callers : g # h => Rests(g)
      BY <2>1, GoFact DEF Rests, sets, Steps, Reject
    <3>2. asking'[h].pc = "rejected"
      BY <2>1, GoFact DEF Steps, Reject
    <3> QED
      BY <3>1, <3>2, RestsFact DEF DoneInv, DoneOK, At
  <2>2. CASE /\ ingress' = ingress \ {Item(h).ip} /\ UNCHANGED torrent
             /\ Touch(h, {Item(h).ip}) /\ NextItem(h, "unblock")
    <3>1. asking[h].op = "unblock" /\ asking[h].pc = "unblockIngress" /\ asking[h].items # <<>>
      BY <1>11 DEF UnblockIngress, At, StepInv, StepOK
    <3>2. Item(h).ip \in IPs
      BY <3>1, ItemFact
    <3>3. \A g \in Callers : g # h => touched[g] \subseteq touched'[g] /\ Item(h).ip \in touched'[g]
      BY <2>2, <3>2, TouchFact
    <3>4. /\ asking'[h].pc = "unblock" /\ asking'[h].op = asking[h].op
          /\ asking'[h].items = Tail(asking[h].items) /\ asking'[h].asked = asking[h].asked
          /\ \A g \in Callers : g # h => asking'[g] = asking[g]
      BY <2>2, <3>1, NextItemFact DEF Steps
    <3>5. \A g \in Callers : g # h => Rests(g)
      BY <2>2, <3>3, <3>4 DEF Rests
    <3>6. touched[h] \subseteq touched'[h]
      BY <2>2, <3>2, TouchFact
    <3>7. DoneOK(h)'
      <4>1. ASSUME NEW ip \in asking[h].asked \ touched'[h]
            PROVE  \/ torrent'[ip] = "absent" /\ ip \notin ingress'
                   \/ ip \in IPsOf(Tail(asking[h].items))
        BY <2>2, <3>1, <3>6, <4>1 DEF DoneInv, DoneOK, At
      <4> QED
        BY <3>1, <3>4, <4>1 DEF DoneOK, At, Absent
    <3> QED
      BY <3>5, <3>7, RestsFact DEF DoneInv
  <2> QED
    BY <1>11, <2>1, <2>2 DEF UnblockIngress
<1>12. ASSUME NEW h \in Callers, Accept(h) PROVE DoneInv'
  <2>1. /\ asking[h].items = <<>> /\ Go(h, "accepted") /\ (At(h, "block") \/ At(h, "unblock"))
        /\ UNCHANGED <<torrent, ingress, touched>>
    BY <1>12 DEF Accept, sets
  <2>2. /\ asking'[h].pc = "accepted" /\ asking'[h].op = asking[h].op
        /\ asking'[h].items = asking[h].items /\ asking'[h].asked = asking[h].asked
        /\ \A g \in Callers : g # h => asking'[g] = asking[g]
    BY <2>1, GoFact DEF Steps
  <2>3. \A g \in Callers : g # h => Rests(g)
    BY <2>1, <2>2 DEF Rests
  <2>4. IPsOf(<<>>) = {}
    BY DEF IPsOf
  <2>5. DoneOK(h)'
    BY <2>1, <2>2, <2>4 DEF DoneInv, DoneOK, At, Absent, StepInv, StepOK
  <2> QED
    BY <2>3, <2>5, RestsFact DEF DoneInv
<1>13. ASSUME NEW h \in Callers, HandleCollectReports(h) PROVE DoneInv'
  <2>1. \A g \in Callers : g # h => Rests(g)
    BY <1>13, GoFact DEF HandleCollectReports, Rests, Steps, Reject, At, sets, SetsInv
  <2>2. DoneOK(h)'
    <3>1. asking'[h].op \notin {"block", "unblock"}
      BY <1>13, GoFact DEF HandleCollectReports, Steps, Reject, At, StepInv, StepOK
    <3> QED
      BY <3>1 DEF DoneOK
  <2> QED
    BY <2>1, <2>2, RestsFact DEF DoneInv
<1>14. ASSUME NEW h \in Callers, SyncStore(h) PROVE DoneInv'
  <2>1. \A g \in Callers : g # h => Rests(g)
    BY <1>14, GoFact DEF SyncStore, Rests, Steps, Reject, At, sets, SetsInv
  <2>2. DoneOK(h)'
    <3>1. asking'[h].op \notin {"block", "unblock"}
      BY <1>14, GoFact DEF SyncStore, Steps, Reject, At, StepInv, StepOK
    <3> QED
      BY <3>1 DEF DoneOK
  <2> QED
    BY <2>1, <2>2, RestsFact DEF DoneInv
<1>15. ASSUME NEW h \in Callers, SyncSets(h) PROVE DoneInv'
  <2>1. \A g \in Callers : g # h => Rests(g)
    <3>1. \A g \in Callers : g # h => asking'[g] = asking[g]
      BY <1>15, GoFact DEF SyncSets, Steps, Reject, At
    <3>2. CASE UNCHANGED sets
      BY <3>1, <3>2 DEF Rests, sets
    <3>3. CASE RecreateSets(h)
      <4>1. \A g \in Callers : g # h => touched[g] \subseteq touched'[g] /\ IPs \subseteq touched'[g]
        BY <3>3, TouchFact DEF RecreateSets
      <4> QED
        BY <3>1, <4>1 DEF Rests
    <3> QED
      BY <1>15, <3>2, <3>3 DEF SyncSets
  <2>2. DoneOK(h)'
    <3>1. asking'[h].op \notin {"block", "unblock"}
      BY <1>15, GoFact DEF SyncSets, Steps, Reject, At, StepInv, StepOK
    <3> QED
      BY <3>1 DEF DoneOK
  <2> QED
    BY <2>1, <2>2, RestsFact DEF DoneInv
<1>16. ASSUME NEW h \in Callers, SyncFilters(h) PROVE DoneInv'
  <2>1. \A g \in Callers : g # h => Rests(g)
    <3>1. \A g \in Callers : g # h => asking'[g] = asking[g]
      BY <1>16, GoFact DEF SyncFilters, Steps, Reject, At
    <3>2. CASE UNCHANGED sets
      BY <3>1, <3>2 DEF Rests, sets
    <3>3. CASE /\ ingress' = ingress \cup asking[h].payload.ingress /\ UNCHANGED torrent
               /\ Touch(h, asking[h].payload.ingress)
      <4>1. asking[h].payload.ingress \subseteq IPs
        BY <1>16, PluginFields DEF SyncFilters, StepInv, StepOK, At
      <4>2. \A g \in Callers : g # h =>
              touched[g] \subseteq touched'[g] /\ asking[h].payload.ingress \subseteq touched'[g]
        BY <3>3, <4>1, TouchFact
      <4> QED
        BY <3>1, <3>3, <4>2 DEF Rests
    <3> QED
      BY <1>16, <3>2, <3>3 DEF SyncFilters
  <2>2. DoneOK(h)'
    <3>1. asking'[h].op \notin {"block", "unblock"}
      BY <1>16, GoFact DEF SyncFilters, Steps, Reject, At, StepInv, StepOK
    <3> QED
      BY <3>1 DEF DoneOK
  <2> QED
    BY <2>1, <2>2, RestsFact DEF DoneInv
<1>17. ASSUME NEW h \in Callers, ResetPlugins(h) PROVE DoneInv'
  <2>1. \A g \in Callers : g # h => Rests(g)
    BY <1>17, GoFact DEF ResetPlugins, Rests, Steps, Reject, At, sets, SetsInv
  <2>2. DoneOK(h)'
    <3>1. asking'[h].op \notin {"block", "unblock"}
      BY <1>17, GoFact DEF ResetPlugins, Steps, Reject, At, StepInv, StepOK
    <3> QED
      BY <3>1 DEF DoneOK
  <2> QED
    BY <2>1, <2>2, RestsFact DEF DoneInv
<1>18. ASSUME NEW h \in Callers, HandleRecreateTables(h) PROVE DoneInv'
  <2>1. \A g \in Callers : g # h => Rests(g)
    <3>1. \A g \in Callers : g # h => asking'[g] = asking[g]
      BY <1>18, GoFact DEF HandleRecreateTables, Steps, Reject, At
    <3>2. CASE UNCHANGED sets
      BY <3>1, <3>2 DEF Rests, sets
    <3>3. CASE RecreateSets(h)
      <4>1. \A g \in Callers : g # h => touched[g] \subseteq touched'[g] /\ IPs \subseteq touched'[g]
        BY <3>3, TouchFact DEF RecreateSets
      <4> QED
        BY <3>1, <4>1 DEF Rests
    <3> QED
      BY <1>18, <3>2, <3>3 DEF HandleRecreateTables
  <2>2. DoneOK(h)'
    <3>1. asking'[h].op \notin {"block", "unblock"}
      BY <1>18, GoFact DEF HandleRecreateTables, Steps, Reject, At, StepInv, StepOK
    <3> QED
      BY <3>1 DEF DoneOK
  <2> QED
    BY <2>1, <2>2, RestsFact DEF DoneInv
<1>19. ASSUME NEW h \in Callers, Answer(h) PROVE DoneInv'
  <2>1. \A g \in Callers : g # h => Rests(g)
    BY <1>19, AnswerFact DEF Answer, Rests, SetsInv
  <2>2. DoneOK(h)'
    <3>1. asking'[h] = Idle
      BY <1>19, AnswerFact DEF Answer
    <3> QED
      BY <3>1 DEF DoneOK, Idle
  <2> QED
    BY <2>1, <2>2, RestsFact DEF DoneInv
<1>20. ASSUME NEW ip \in IPs, Connect(ip) PROVE DoneInv'
  <2>1. \A g \in Callers : Rests(g)
    BY <1>20 DEF Connect, Rests, sets
  <2> QED
    BY <2>1, RestsFact DEF DoneInv
<1>21. ASSUME NEW ip \in IPs, Expire(ip) PROVE DoneInv'
  <2>1. \A g \in Callers : touched[g] \subseteq touched'[g] /\ ip \in touched'[g]
    BY <1>21, TouchFact, NilIsNoPlugin DEF Expire
  <2>2. \A g \in Callers : Rests(g)
    BY <1>21, <2>1 DEF Expire, Rests, SetsInv
  <2> QED
    BY <2>2, RestsFact DEF DoneInv
<1>22. ASSUME Restart PROVE DoneInv'
  <2>1. \A h \in Callers : asking'[h].op = "none"
    BY <1>22 DEF Restart, Idle
  <2> QED
    BY <2>1 DEF DoneInv, DoneOK
<1>23. CASE UNCHANGED torrentVars
  BY <1>23 DEF torrentVars, sets, DoneInv, DoneOK, At, Item, Absent
<1> QED
  BY <1>1, <1>2, <1>3, <1>4, <1>5, <1>6, <1>7, <1>8, <1>9, <1>10, <1>11,
     <1>12, <1>13, <1>14, <1>15, <1>16, <1>17, <1>18, <1>19, <1>20, <1>21,
     <1>22, <1>23
  DEF TorrentNext, Webhook, Handle

\* An event is reported once.
LEMMA ReportNext ==
  ASSUME HookInv, ReportInv, [TorrentNext]_torrentVars
  PROVE  ReportInv'
<1>1. ASSUME NEW e \in Events, HandleXrayWebhook(e) PROVE ReportInv'
  <2>1. UNCHANGED <<reports, collected>>
    BY <1>1 DEF HandleXrayWebhook
  <2>2. \A f \in Events : HookAt(f, "done") => hook'[f].pc = "done"
    BY <1>1 DEF HandleXrayWebhook, HookAt, HookInv, Hooks
  <2> QED
    BY <2>1, <2>2, ReportsRest
<1>2. ASSUME NEW e \in Events, CheckIgnored(e) PROVE ReportInv'
  <2>1. UNCHANGED <<reports, collected>>
    BY <1>2 DEF CheckIgnored
  <2>2. \A f \in Events : HookAt(f, "done") => hook'[f].pc = "done"
    BY <1>2 DEF CheckIgnored, HookAt, HookInv, Hooks
  <2> QED
    BY <2>1, <2>2, ReportsRest
<1>3. ASSUME NEW e \in Events, TorrentBlockDuration(e) PROVE ReportInv'
  <2>1. UNCHANGED <<reports, collected>>
    BY <1>3 DEF TorrentBlockDuration
  <2>2. \A f \in Events : HookAt(f, "done") => hook'[f].pc = "done"
    BY <1>3 DEF TorrentBlockDuration, HookAt, HookInv, Hooks
  <2> QED
    BY <2>1, <2>2, ReportsRest
<1>4. ASSUME NEW e \in Events, BlockSource(e) PROVE ReportInv'
  <2>1. UNCHANGED <<reports, collected>>
    BY <1>4 DEF BlockSource
  <2>2. \A f \in Events : HookAt(f, "done") => hook'[f].pc = "done"
    BY <1>4 DEF BlockSource, HookAt, HookInv, Hooks
  <2> QED
    BY <2>1, <2>2, ReportsRest
<1>5. ASSUME NEW e \in Events, DropSource(e) PROVE ReportInv'
  <2>1. UNCHANGED <<reports, collected>>
    BY <1>5 DEF DropSource
  <2>2. \A f \in Events : HookAt(f, "done") => hook'[f].pc = "done"
    BY <1>5 DEF DropSource, HookAt, HookInv, Hooks
  <2> QED
    BY <2>1, <2>2, ReportsRest
<1>6. ASSUME NEW e \in Events, AddReport(e) PROVE ReportInv'
  <2> DEFINE new == [event |-> e, blocked |-> hook[e].blocked, duration |-> hook[e].duration]
  <2> DEFINE R == [event : Events, blocked : BOOLEAN, duration : Int]
  <2>1. new \in R /\ new.event = e
    BY DEF HookInv, Hooks
  <2>2. reports' = Append(reports, new) /\ collected' = collected /\ HookAt(e, "report")
        /\ hook' = [hook EXCEPT ![e].pc = "done"]
    BY <1>6 DEF AddReport
  <2>3. /\ hook'[e].pc = "done"
        /\ \A f \in Events : HookAt(f, "done") => hook'[f].pc = "done"
    BY <2>2 DEF HookAt, HookInv, Hooks
  <2>4. reports \in Seq(R)
    BY DEF ReportInv
  <2> HIDE DEF new, R
  <2>5. Reported' = Reported \cup {e} /\ Len(reports') = Len(reports) + 1
    BY <2>1, <2>2, <2>4, AppendReported
  <2>6. reports' \in Seq(R)
    BY <2>1, <2>2, <2>4
  <2>7. e \notin Reported \cup collected
    BY <2>2 DEF ReportInv, HookAt
  <2>8. IsFiniteSet(Reported') /\ Cardinality(Reported') = Len(reports) + 1
    BY <2>5, <2>7, FS_AddElement DEF ReportInv
  <2> QED
    BY <2>2, <2>3, <2>5, <2>6, <2>7, <2>8 DEF ReportInv, HookAt, R
<1>7. ASSUME NEW h \in Callers, NEW r \in Requests, Request(h, r) PROVE ReportInv'
  <2>1. UNCHANGED <<reports, collected>>
    BY <1>7 DEF Request
  <2>2. \A f \in Events : HookAt(f, "done") => hook'[f].pc = "done"
    BY <1>7 DEF Request, HookAt, HookInv, Hooks
  <2> QED
    BY <2>1, <2>2, ReportsRest
<1>8. ASSUME NEW h \in Callers, BlockItem(h) PROVE ReportInv'
  <2>1. UNCHANGED <<reports, collected>>
    BY <1>8 DEF BlockItem
  <2>2. \A f \in Events : HookAt(f, "done") => hook'[f].pc = "done"
    BY <1>8 DEF BlockItem, HookAt, HookInv, Hooks
  <2> QED
    BY <2>1, <2>2, ReportsRest
<1>9. ASSUME NEW h \in Callers, DropItem(h) PROVE ReportInv'
  <2>1. UNCHANGED <<reports, collected>>
    BY <1>9 DEF DropItem
  <2>2. \A f \in Events : HookAt(f, "done") => hook'[f].pc = "done"
    BY <1>9 DEF DropItem, HookAt, HookInv, Hooks
  <2> QED
    BY <2>1, <2>2, ReportsRest
<1>10. ASSUME NEW h \in Callers, UnblockTorrent(h) PROVE ReportInv'
  <2>1. UNCHANGED <<reports, collected>>
    BY <1>10 DEF UnblockTorrent
  <2>2. \A f \in Events : HookAt(f, "done") => hook'[f].pc = "done"
    BY <1>10 DEF UnblockTorrent, HookAt, HookInv, Hooks
  <2> QED
    BY <2>1, <2>2, ReportsRest
<1>11. ASSUME NEW h \in Callers, UnblockIngress(h) PROVE ReportInv'
  <2>1. UNCHANGED <<reports, collected>>
    BY <1>11 DEF UnblockIngress
  <2>2. \A f \in Events : HookAt(f, "done") => hook'[f].pc = "done"
    BY <1>11 DEF UnblockIngress, HookAt, HookInv, Hooks
  <2> QED
    BY <2>1, <2>2, ReportsRest
<1>12. ASSUME NEW h \in Callers, Accept(h) PROVE ReportInv'
  <2>1. UNCHANGED <<reports, collected>>
    BY <1>12 DEF Accept
  <2>2. \A f \in Events : HookAt(f, "done") => hook'[f].pc = "done"
    BY <1>12 DEF Accept, HookAt, HookInv, Hooks
  <2> QED
    BY <2>1, <2>2, ReportsRest
<1>13. ASSUME NEW h \in Callers, HandleCollectReports(h) PROVE ReportInv'
  BY <1>13, ReportsGone DEF HandleCollectReports, FlushReports, Reported, HookAt
<1>14. ASSUME NEW h \in Callers, SyncStore(h) PROVE ReportInv'
  <2>1. UNCHANGED <<reports, collected>>
    BY <1>14 DEF SyncStore, UpdateFromSync
  <2>2. \A f \in Events : HookAt(f, "done") => hook'[f].pc = "done"
    BY <1>14 DEF SyncStore, HookAt, HookInv, Hooks
  <2> QED
    BY <2>1, <2>2, ReportsRest
<1>15. ASSUME NEW h \in Callers, SyncSets(h) PROVE ReportInv'
  BY <1>15, ReportsRest, ReportsGone DEF SyncSets, Reset, HookAt
<1>16. ASSUME NEW h \in Callers, SyncFilters(h) PROVE ReportInv'
  BY <1>16, ReportsRest, ReportsGone DEF SyncFilters, Reset, HookAt
<1>17. ASSUME NEW h \in Callers, ResetPlugins(h) PROVE ReportInv'
  BY <1>17, ReportsGone DEF ResetPlugins, Reset, HookAt
<1>18. ASSUME NEW h \in Callers, HandleRecreateTables(h) PROVE ReportInv'
  <2>1. UNCHANGED <<reports, collected>>
    BY <1>18 DEF HandleRecreateTables
  <2>2. \A f \in Events : HookAt(f, "done") => hook'[f].pc = "done"
    BY <1>18 DEF HandleRecreateTables, HookAt, HookInv, Hooks
  <2> QED
    BY <2>1, <2>2, ReportsRest
<1>19. ASSUME NEW h \in Callers, Answer(h) PROVE ReportInv'
  <2>1. UNCHANGED <<reports, collected>>
    BY <1>19 DEF Answer
  <2>2. \A f \in Events : HookAt(f, "done") => hook'[f].pc = "done"
    BY <1>19 DEF Answer, HookAt, HookInv, Hooks
  <2> QED
    BY <2>1, <2>2, ReportsRest
<1>20. ASSUME NEW ip \in IPs, Connect(ip) PROVE ReportInv'
  <2>1. UNCHANGED <<reports, collected>>
    BY <1>20 DEF Connect
  <2>2. \A f \in Events : HookAt(f, "done") => hook'[f].pc = "done"
    BY <1>20 DEF Connect, HookAt, HookInv, Hooks
  <2> QED
    BY <2>1, <2>2, ReportsRest
<1>21. ASSUME NEW ip \in IPs, Expire(ip) PROVE ReportInv'
  <2>1. UNCHANGED <<reports, collected>>
    BY <1>21 DEF Expire
  <2>2. \A f \in Events : HookAt(f, "done") => hook'[f].pc = "done"
    BY <1>21 DEF Expire, HookAt, HookInv, Hooks
  <2> QED
    BY <2>1, <2>2, ReportsRest
<1>22. ASSUME Restart PROVE ReportInv'
  <2>1. \A f \in Events : HookAt(f, "done") => hook'[f].pc = "done"
    BY <1>22 DEF Restart, HookAt, HookInv, Hooks
  <2> QED
    BY <1>22, <2>1, ReportsGone DEF Restart
<1>23. CASE UNCHANGED torrentVars
  BY <1>23, ReportsRest DEF torrentVars, HookAt
<1> QED
  BY <1>1, <1>2, <1>3, <1>4, <1>5, <1>6, <1>7, <1>8, <1>9, <1>10, <1>11,
     <1>12, <1>13, <1>14, <1>15, <1>16, <1>17, <1>18, <1>19, <1>20, <1>21,
     <1>22, <1>23
  DEF TorrentNext, Webhook, Handle

\* A step that loses a report hands it out or gives the plugin up.
LEMMA KeptNext ==
  ASSUME HookInv, ReportInv, [TorrentNext]_torrentVars
  PROVE  Reported \ Reported' \subseteq collected' \/ current' = Nil
<1>1. ASSUME NEW e \in Events, HandleXrayWebhook(e) PROVE Reported \ Reported' \subseteq collected' \/ current' = Nil
  BY <1>1 DEF HandleXrayWebhook, Reported
<1>2. ASSUME NEW e \in Events, CheckIgnored(e) PROVE Reported \ Reported' \subseteq collected' \/ current' = Nil
  BY <1>2 DEF CheckIgnored, Reported
<1>3. ASSUME NEW e \in Events, TorrentBlockDuration(e) PROVE Reported \ Reported' \subseteq collected' \/ current' = Nil
  BY <1>3 DEF TorrentBlockDuration, Reported
<1>4. ASSUME NEW e \in Events, BlockSource(e) PROVE Reported \ Reported' \subseteq collected' \/ current' = Nil
  BY <1>4 DEF BlockSource, Reported
<1>5. ASSUME NEW e \in Events, DropSource(e) PROVE Reported \ Reported' \subseteq collected' \/ current' = Nil
  BY <1>5 DEF DropSource, Reported
<1>6. ASSUME NEW e \in Events, AddReport(e) PROVE Reported \ Reported' \subseteq collected' \/ current' = Nil
  <2> DEFINE R == [event : Events, blocked : BOOLEAN, duration : Int]
  <2>1. [event |-> e, blocked |-> hook[e].blocked, duration |-> hook[e].duration] \in R
    BY DEF HookInv, Hooks
  <2>2. reports \in Seq(R)
    BY DEF ReportInv
  <2> HIDE DEF R
  <2> QED
    BY <1>6, <2>1, <2>2, AppendReported DEF AddReport
<1>7. ASSUME NEW h \in Callers, NEW r \in Requests, Request(h, r) PROVE Reported \ Reported' \subseteq collected' \/ current' = Nil
  BY <1>7 DEF Request, Reported
<1>8. ASSUME NEW h \in Callers, BlockItem(h) PROVE Reported \ Reported' \subseteq collected' \/ current' = Nil
  BY <1>8 DEF BlockItem, Reported
<1>9. ASSUME NEW h \in Callers, DropItem(h) PROVE Reported \ Reported' \subseteq collected' \/ current' = Nil
  BY <1>9 DEF DropItem, Reported
<1>10. ASSUME NEW h \in Callers, UnblockTorrent(h) PROVE Reported \ Reported' \subseteq collected' \/ current' = Nil
  BY <1>10 DEF UnblockTorrent, Reported
<1>11. ASSUME NEW h \in Callers, UnblockIngress(h) PROVE Reported \ Reported' \subseteq collected' \/ current' = Nil
  BY <1>11 DEF UnblockIngress, Reported
<1>12. ASSUME NEW h \in Callers, Accept(h) PROVE Reported \ Reported' \subseteq collected' \/ current' = Nil
  BY <1>12 DEF Accept, Reported
<1>13. ASSUME NEW h \in Callers, HandleCollectReports(h) PROVE Reported \ Reported' \subseteq collected' \/ current' = Nil
  BY <1>13 DEF HandleCollectReports, Reported
<1>14. ASSUME NEW h \in Callers, SyncStore(h) PROVE Reported \ Reported' \subseteq collected' \/ current' = Nil
  BY <1>14 DEF SyncStore, UpdateFromSync, Reported
<1>15. ASSUME NEW h \in Callers, SyncSets(h) PROVE Reported \ Reported' \subseteq collected' \/ current' = Nil
  BY <1>15 DEF SyncSets, Reset, Reported
<1>16. ASSUME NEW h \in Callers, SyncFilters(h) PROVE Reported \ Reported' \subseteq collected' \/ current' = Nil
  BY <1>16 DEF SyncFilters, Reset, Reported
<1>17. ASSUME NEW h \in Callers, ResetPlugins(h) PROVE Reported \ Reported' \subseteq collected' \/ current' = Nil
  BY <1>17 DEF ResetPlugins, Reset
<1>18. ASSUME NEW h \in Callers, HandleRecreateTables(h) PROVE Reported \ Reported' \subseteq collected' \/ current' = Nil
  BY <1>18 DEF HandleRecreateTables, Reported
<1>19. ASSUME NEW h \in Callers, Answer(h) PROVE Reported \ Reported' \subseteq collected' \/ current' = Nil
  BY <1>19 DEF Answer, Reported
<1>20. ASSUME NEW ip \in IPs, Connect(ip) PROVE Reported \ Reported' \subseteq collected' \/ current' = Nil
  BY <1>20 DEF Connect, Reported
<1>21. ASSUME NEW ip \in IPs, Expire(ip) PROVE Reported \ Reported' \subseteq collected' \/ current' = Nil
  BY <1>21 DEF Expire, Reported
<1>22. ASSUME Restart PROVE Reported \ Reported' \subseteq collected' \/ current' = Nil
  BY <1>22 DEF Restart
<1>23. CASE UNCHANGED torrentVars
  BY <1>23 DEF torrentVars, Reported
<1> QED
  BY <1>1, <1>2, <1>3, <1>4, <1>5, <1>6, <1>7, <1>8, <1>9, <1>10, <1>11,
     <1>12, <1>13, <1>14, <1>15, <1>16, <1>17, <1>18, <1>19, <1>20, <1>21,
     <1>22, <1>23
  DEF TorrentNext, Webhook, Handle

-----------------------------------------------------------------------------
TorrentInv ==
  /\ AskingInv /\ HookInv /\ SetsInv /\ StepInv
  /\ BlockedIsCut /\ DoneInv /\ ReportInv

\* When the agent starts there are no requests, no webhooks and no reports.
LEMMA InitTorrentInv ==
  ASSUME TorrentInit
  PROVE  TorrentInv
<1>1. Idle \in Askings /\ StepOK(Idle) /\ Idle.op = "none"
  BY DEF Idle, Askings, Steps, StepOK
<1>2. AskingInv /\ HookInv /\ SetsInv
  BY <1>1 DEF TorrentInit, AskingInv, HookInv, SetsInv, Hooks, HookSteps
<1>3. StepInv
  BY <1>1 DEF TorrentInit, StepInv, HookAt
<1>4. BlockedIsCut
  BY DEF TorrentInit, BlockedIsCut
<1>5. DoneInv
  BY <1>1 DEF TorrentInit, DoneInv, DoneOK
<1>6. reports = <<>> /\ collected = {} /\ Reported = {}
  BY DEF TorrentInit, Reported
<1>7. IsFiniteSet({}) /\ Cardinality({}) = 0
  BY FS_EmptySet
<1>8. ReportInv
  BY <1>6, <1>7 DEF ReportInv
<1> QED
  BY <1>2, <1>3, <1>4, <1>5, <1>8 DEF TorrentInv

\* Every step keeps the invariant.
LEMMA NextTorrentInv ==
  ASSUME TorrentInv, [TorrentNext]_torrentVars
  PROVE  TorrentInv'
  BY AskingNext, HookNext, SetsNext, StepNext, CutNext, DoneNext, ReportNext DEF TorrentInv

\* The invariant holds for every set of webhooks, requests and addresses.
THEOREM TorrentInvariant == TorrentSpec => []TorrentInv
  BY InitTorrentInv, NextTorrentInv, PTL DEF TorrentSpec

\* The state keeps its types.
THEOREM TorrentTypeCorrect == TorrentSpec => []TorrentTypeOK
<1>1. TorrentInv => TorrentTypeOK
  <2> SUFFICES ASSUME TorrentInv PROVE TorrentTypeOK
    OBVIOUS
  <2>1. \A h \in Callers : /\ asking[h].pc \in Steps /\ touched[h] \subseteq IPs
                           /\ At(h, "drop") => Item(h).timeout >= 0
    BY DEF TorrentInv, AskingInv, Askings, SetsInv, StepInv, StepOK, At, Item
  <2>2. \A e \in Events : hook[e].pc \in HookSteps /\ (HookAt(e, "drop") => hook[e].duration >= 0)
    BY DEF TorrentInv, HookInv, Hooks, StepInv
  <2>3. collected \subseteq Events
    BY DEF TorrentInv, ReportInv
  <2> QED
    BY <2>1, <2>2, <2>3 DEF TorrentTypeOK, TorrentInv, SetsInv, ReportInv, HookSteps
<1> QED
  BY <1>1, TorrentInvariant, PTL

\* A blocked address has no established connection: one that was open is dropped after
\* the block, whoever blocked, with whatever syncs and stops in between.
THEOREM BlockedIsCutHolds == TorrentSpec => []BlockedIsCut
<1>1. TorrentInv => BlockedIsCut
  BY DEF TorrentInv
<1> QED
  BY <1>1, TorrentInvariant, PTL

\* An accepted block or unblock of the Panel was carried out for every address that
\* nobody else has touched since.
THEOREM AcceptedIsDoneHolds == TorrentSpec => []AcceptedIsDone
<1>1. TorrentInv => AcceptedIsDone
  BY DEF TorrentInv, DoneInv, DoneOK, AcceptedIsDone, Absent
<1> QED
  BY <1>1, TorrentInvariant, PTL

\* The Panel gets a report at most once.
THEOREM ReportedOnceHolds == TorrentSpec => []ReportedOnce
<1>1. TorrentInv => ReportedOnce
  BY DEF TorrentInv, ReportInv, ReportedOnce
<1> QED
  BY <1>1, TorrentInvariant, PTL

\* A report leaves the list only for the Panel, or when the plugin is given up.
THEOREM ReportsAreKeptHolds == TorrentSpec => ReportsAreKept
<1>1. TorrentInv /\ [TorrentNext]_torrentVars
        => [Reported \ Reported' \subseteq collected' \/ current' = Nil]_torrentVars
  BY KeptNext DEF TorrentInv
<1> QED
  BY <1>1, TorrentInvariant, PTL DEF TorrentSpec, ReportsAreKept

-----------------------------------------------------------------------------
(* Both halves of the plugin service, as MCPlugins explores them.          *)

\* A half that is not chosen rests, so what MCPlugins does is what the two modules do.
LEMMA HalvesOfPlugins == PluginsSpec => Spec /\ TorrentSpec
<1>1. PluginsInit => Init /\ TorrentInit
  BY DEF PluginsInit
<1>2. [PluginsNext]_<<vars, torrentVars, part>> => [Next]_vars /\ [TorrentNext]_torrentVars
  BY DEF PluginsNext
<1> QED BY <1>1, <1>2, PTL DEF PluginsSpec, Spec, TorrentSpec

\* Whichever half is chosen, its state, the kernel's sets and the locals of the handlers
\* have their types, for all values of the constants.
THEOREM PluginsTypeCorrect == PluginsSpec => []PluginsTypeOK
<1> QED BY HalvesOfPlugins, PluginTypeCorrect, TorrentTypeCorrect, PTL DEF PluginsTypeOK
=============================================================================
