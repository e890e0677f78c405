------------------------------ MODULE PluginSync ------------------------------
(***************************************************************************)
(* The plugin service: internal/plugin service.go, state.go and the filter *)
(* sets of nft_linux.go, together with what they need of the rw-core       *)
(* lifecycle (internal/xray manager.go, handler.go), reduced to the lock   *)
(* order, the reads of the torrent settings and the core's configuration:  *)
(* a core is there while it can do work, and its exit and the clearing of  *)
(* the manager's fields are one step.  XrayLifecycle has the rest.         *)
(*                                                                         *)
(* No lock spans a sync: it reads the stored plugin, replaces it, reads it *)
(* again, rewrites the kernel's sets and at last restarts the core, while  *)
(* starts, stops and other syncs run.  Each of these is a step.            *)
(*                                                                         *)
(* The stored plugin stands for the hash, the active flag, the whitelist   *)
(* and the torrent settings, which State always replaces together.         *)
(***************************************************************************)
EXTENDS Naturals, Sequences

CONSTANTS
  Handlers,     \* goroutines: HTTP handlers and RestoreOnBoot's
  Serves,       \* the operations each of them runs
  Plugins,      \* payloads of a sync
  Valid,        \* those that ValidatePluginConfig accepts
  Blocker,      \* the torrentBlocker section of each payload
  Filters,      \* the nft scripts of each payload, each a set of elements
  None,         \* nil
  NftAvailable, \* CAP_NET_ADMIN and a working nft
  NftFails      \* whether an nft script may fail later

Elements == UNION {UNION {Filters[p][i] : i \in DOMAIN Filters[p]} : p \in Plugins}
RuleTags == UNION {Blocker[p].tags : p \in Plugins}
Torrents == [enabled : BOOLEAN, tags : SUBSET RuleTags, placement : Nat]

ASSUME NoneAssumption == None \notin Plugins /\ None \notin Torrents /\ None \notin Handlers
ASSUME ServesAssumption ==
  Serves \in [Handlers -> SUBSET {"sync", "clear", "stop", "recreate", "start", "health"}]
ASSUME PluginsAssumption ==
  /\ Valid \subseteq Plugins
  /\ \A p \in Plugins : Filters[p] \in Seq(SUBSET Elements)
  /\ \A p \in Plugins : Blocker[p] \in Torrents
ASSUME NftAssumption == NftAvailable \in BOOLEAN /\ NftFails \in BOOLEAN

VARIABLES
  plugin,      \* the stored plugin
  filters,     \* the elements in the kernel's ingress and egress sets
  recreated,   \* whether the Panel has emptied them since they were made anew
  lifecycleMu, \* the thread holding Manager.lifecycleMu
  startProcessing,
  xrayOnline,
  core,        \* the torrent settings the rw-core process runs with
  pc,
  op,          \* what a thread was called for; "same" if a sync changes nothing
  payload,     \* the plugin of a sync
  seen,        \* the torrent settings a thread has read
  index        \* of the field to read, or of the script to run, next

kernel  == <<filters, recreated>>
manager == <<lifecycleMu, startProcessing, xrayOnline, core>>
locals  == <<op, payload, seen, index>>
vars    == <<plugin, kernel, manager, pc, locals>>

\* The three fields, in the order they are read, each under a lock of its own.
Fields == <<"enabled", "tags", "placement">>

\* Who reads them: a sync before and after the update, and a start.
Reading == {"was", "now", "opt"}

Off == [enabled |-> FALSE, tags |-> {}, placement |-> 0]
Blank == [who \in Reading |-> Off]

Labels == Reading \cup
  {"idle", "update", "tables", "scripts", "discard", "restart", "remove",
   "reset", "reset.tables", "stop.decide", "stop.enter", "stop.kill",
   "stop.unlock", "start.enter", "start.mark", "start.decide", "start.spawn",
   "start.await", "start.finish", "start.unlock"}

TypeOK ==
  /\ plugin \in Plugins \cup {None}
  /\ filters \subseteq Elements
  /\ recreated \in BOOLEAN
  /\ lifecycleMu \in Handlers \cup {None}
  /\ startProcessing \in BOOLEAN
  /\ xrayOnline \in BOOLEAN
  /\ core \in Torrents \cup {None}
  /\ pc \in [Handlers -> Labels]
  /\ op \in [Handlers -> {"none", "sync", "same", "clear", "invalid", "stop"}]
  /\ payload \in [Handlers -> Plugins \cup {None}]
  /\ seen \in [Handlers -> [Reading -> Torrents]]
  /\ index \in [Handlers -> Nat]
  /\ \A t \in Handlers : pc[t] \in Reading => index[t] \in DOMAIN Fields

-----------------------------------------------------------------------------
(* Helpers.                                                                *)

Goto(t, label) == pc' = [pc EXCEPT ![t] = label]

\* The handler has answered; its locals are gone.
Return(t) ==
  /\ Goto(t, "idle")
  /\ op' = [op EXCEPT ![t] = "none"]
  /\ payload' = [payload EXCEPT ![t] = None]
  /\ seen' = [seen EXCEPT ![t] = Blank]
  /\ index' = [index EXCEPT ![t] = 1]

\* configureTorrentBlocker: a section that is not enabled leaves no settings.
Settings(p) == IF p = None \/ ~Blocker[p].enabled THEN Off ELSE Blocker[p]

\* generateAPIConfig adds nothing when the blocker is not enabled.
Configured(options) == IF options.enabled THEN options ELSE Off

\* The filters a completely installed plugin has in the kernel.
Installed(p) == IF p = None THEN {} ELSE UNION {Filters[p][i] : i \in DOMAIN Filters[p]}

\* A blocker that was switched off is taken out of the running core.
Removable(was, now) == was.enabled /\ ~now.enabled /\ now.tags = {}

\* Does a sync from one setting to the other otherwise need a new core?
NeedsRestart(was, now) ==
  \/ was.enabled # now.enabled
  \/ was.enabled /\ now.enabled
     /\ (was.tags # now.tags \/ was.placement # now.placement)

\* Mutant: only the cached flag decides, so that a core that is still starting
\* is left alone.
ShouldStopOnline == xrayOnline

\* StopIfOnline: something runs, or is about to.
ShouldStop == xrayOnline \/ core # None \/ startProcessing

Init ==
  /\ plugin = None
  /\ filters = {}
  /\ recreated = FALSE
  /\ lifecycleMu = None
  /\ startProcessing = FALSE
  /\ xrayOnline = FALSE
  /\ core = None
  /\ pc = [t \in Handlers |-> "idle"]
  /\ op = [t \in Handlers |-> "none"]
  /\ payload = [t \in Handlers |-> None]
  /\ seen = [t \in Handlers |-> Blank]
  /\ index = [t \in Handlers |-> 1]

\* Where a thread continues when it has read all three fields.
AfterReading(who) == CASE who = "was" -> "update"
                       [] who = "now" -> "tables"
                       [] who = "opt" -> "start.decide"

\* One field of the torrent settings.
ReadTorrent(t) ==
  /\ pc[t] \in Reading
  /\ LET f == Fields[index[t]]
     IN seen' = [seen EXCEPT ![t][pc[t]][f] = Settings(plugin)[f]]
  /\ IF index[t] < Len(Fields)
     THEN index' = [index EXCEPT ![t] = @ + 1] /\ UNCHANGED pc
     ELSE index' = [index EXCEPT ![t] = 1] /\ Goto(t, AfterReading(pc[t]))
  /\ UNCHANGED <<plugin, kernel, manager, op, payload>>

-----------------------------------------------------------------------------
(* HandleSync.                                                             *)

\* A payload equal to the stored plugin is answered at once.
SyncCall(t, p) ==
  /\ "sync" \in Serves[t]
  /\ pc[t] = "idle"
  /\ p # plugin
  /\ op' = [op EXCEPT ![t] = IF p \in Valid THEN "sync" ELSE "invalid"]
  /\ payload' = [payload EXCEPT ![t] = p]
  /\ Goto(t, IF p \in Valid THEN "was" ELSE "reset")
  /\ UNCHANGED <<plugin, kernel, manager, seen, index>>

\* UpdateFromSync.  Another sync may have stored the same payload by now.
SyncUpdate(t) ==
  /\ pc[t] = "update"
  /\ plugin' = payload[t]
  /\ op' = [op EXCEPT ![t] = IF plugin = payload[t] THEN "same" ELSE @]
  /\ Goto(t, "now")
  /\ UNCHANGED <<kernel, manager, payload, seen, index>>

\* The tables are deleted and made anew, in one nft transaction, if the plugin
\* changed and nft can be used.
SyncTables(t) ==
  /\ pc[t] = "tables"
  /\ IF op[t] = "sync" /\ NftAvailable
     THEN \/ filters' = {} /\ recreated' = FALSE /\ Goto(t, "scripts")
          \/ NftFails /\ Goto(t, "discard") /\ UNCHANGED kernel
     ELSE Goto(t, "restart") /\ UNCHANGED kernel
  /\ UNCHANGED <<plugin, manager, locals>>

\* syncFilters: one script after the other.
SyncScript(t) ==
  /\ pc[t] = "scripts"
  /\ IF index[t] \in DOMAIN Filters[payload[t]]
     THEN \/ /\ filters' = filters \cup Filters[payload[t]][index[t]]
             /\ index' = [index EXCEPT ![t] = @ + 1]
             /\ UNCHANGED pc
          \/ NftFails /\ Goto(t, "discard") /\ UNCHANGED <<filters, index>>
     ELSE /\ index' = [index EXCEPT ![t] = 1]
          /\ Goto(t, "restart")
          /\ UNCHANGED filters
  /\ UNCHANGED <<plugin, recreated, manager, op, payload, seen>>

\* Mutant: the plugin stays stored although its filters could not be set.
SyncDiscardNothing(t) ==
  /\ pc[t] = "discard"
  /\ Return(t)
  /\ UNCHANGED <<plugin, kernel, manager>>

\* nftables failed: the plugin is forgotten, the core is left alone.
SyncDiscard(t) ==
  /\ pc[t] = "discard"
  /\ plugin' = None
  /\ Return(t)
  /\ UNCHANGED <<kernel, manager>>

\* applyTorrentRestart.
SyncRestart(t) ==
  /\ pc[t] = "restart"
  /\ LET was == seen[t]["was"]  now == seen[t]["now"]
     IN IF Removable(was, now) THEN Goto(t, "remove") /\ UNCHANGED locals
        ELSE IF NeedsRestart(was, now) THEN Goto(t, "stop.decide") /\ UNCHANGED locals
        ELSE Return(t)
  /\ UNCHANGED <<plugin, kernel, manager>>

\* RemoveTorrentBlockerOutbound reached the core, and its answer came back.
SyncRemove(t) ==
  /\ pc[t] = "remove"
  /\ xrayOnline /\ core # None
  /\ core' = Off
  /\ Return(t)
  /\ UNCHANGED <<plugin, kernel, lifecycleMu, startProcessing, xrayOnline>>

\* It failed, or its answer was lost: the core is stopped instead.
SyncRemoveFailed(t) ==
  /\ pc[t] = "remove"
  /\ UNCHANGED core \/ (xrayOnline /\ core # None /\ core' = Off)
  /\ Goto(t, "stop.decide")
  /\ UNCHANGED <<plugin, kernel, lifecycleMu, startProcessing, xrayOnline, locals>>

-----------------------------------------------------------------------------
(* ResetPlugins, for an empty sync, an invalid one, and the Panel's stop.   *)

\* handlePluginClear.
ClearCall(t) ==
  /\ "clear" \in Serves[t]
  /\ pc[t] = "idle"
  /\ plugin # None
  /\ op' = [op EXCEPT ![t] = "clear"]
  /\ Goto(t, "reset")
  /\ UNCHANGED <<plugin, kernel, manager, payload, seen, index>>

\* GET /node/xray/stop.
StopCall(t) ==
  /\ "stop" \in Serves[t]
  /\ pc[t] = "idle"
  /\ op' = [op EXCEPT ![t] = "stop"]
  /\ Goto(t, "reset")
  /\ UNCHANGED <<plugin, kernel, manager, payload, seen, index>>

ResetState(t) ==
  /\ pc[t] = "reset"
  /\ plugin' = None
  /\ Goto(t, "reset.tables")
  /\ UNCHANGED <<kernel, manager, locals>>

\* Only an empty sync gives up when the tables cannot be made anew.
ResetTables(t) ==
  /\ pc[t] = "reset.tables"
  /\ IF NftAvailable THEN filters' = {} /\ recreated' = FALSE ELSE UNCHANGED kernel
  /\ Goto(t, IF op[t] = "stop" THEN "stop.enter" ELSE "stop.decide")
  /\ UNCHANGED <<plugin, manager, locals>>

ResetTablesFailed(t) ==
  /\ pc[t] = "reset.tables"
  /\ NftAvailable /\ NftFails
  /\ \/ op[t] = "stop" /\ Goto(t, "stop.enter") /\ UNCHANGED locals
     \/ op[t] = "invalid" /\ Goto(t, "stop.decide") /\ UNCHANGED locals
     \/ op[t] = "clear" /\ Return(t)
  /\ UNCHANGED <<plugin, kernel, manager>>

\* HandleRecreateTables: the sets are emptied, the stored plugin stays; a repetition
\* of its sync does not fill them again.
RecreateTables(t) ==
  /\ "recreate" \in Serves[t]
  /\ pc[t] = "idle"
  /\ NftAvailable
  /\ filters' = {} /\ recreated' = TRUE
  /\ UNCHANGED <<plugin, manager, pc, locals>>

-----------------------------------------------------------------------------
(* The lifecycle, as far as it matters here.                               *)

\* StopIfOnline reads the three fields before it asks for the lock.
StopDecide(t) ==
  /\ pc[t] = "stop.decide"
  /\ IF ShouldStop THEN Goto(t, "stop.enter") /\ UNCHANGED locals ELSE Return(t)
  /\ UNCHANGED <<plugin, kernel, manager>>

StopLock(t) ==
  /\ pc[t] = "stop.enter"
  /\ lifecycleMu = None
  /\ lifecycleMu' = t
  /\ Goto(t, "stop.kill")
  /\ UNCHANGED <<plugin, kernel, startProcessing, xrayOnline, core, locals>>

\* The core is gone, or killed; when the wait for it timed out the flag stays.
StopKill(t) ==
  /\ pc[t] = "stop.kill"
  /\ core' = None
  /\ xrayOnline' = FALSE \/ (core # None /\ UNCHANGED xrayOnline)
  /\ Goto(t, "stop.unlock")
  /\ UNCHANGED <<plugin, kernel, lifecycleMu, startProcessing, locals>>

StopUnlock(t) ==
  /\ pc[t] = "stop.unlock"
  /\ lifecycleMu' = None
  /\ Return(t)
  /\ UNCHANGED <<plugin, kernel, startProcessing, xrayOnline, core>>

\* A start that finds the lock taken is refused.
StartCall(t) ==
  /\ "start" \in Serves[t]
  /\ pc[t] = "idle"
  /\ lifecycleMu = None
  /\ lifecycleMu' = t
  /\ Goto(t, "start.mark")
  /\ UNCHANGED <<plugin, kernel, startProcessing, xrayOnline, core, locals>>

\* The flag is raised before the torrent settings are read.
StartMark(t) ==
  /\ pc[t] = "start.mark"
  /\ startProcessing' = TRUE
  /\ Goto(t, "opt")
  /\ UNCHANGED <<plugin, kernel, lifecycleMu, xrayOnline, core, locals>>

\* The core answers and the hashes are unchanged: it is kept as it is.
StartKeep(t) ==
  /\ pc[t] = "start.decide"
  /\ xrayOnline /\ core # None
  /\ Goto(t, "start.finish")
  /\ UNCHANGED <<plugin, kernel, manager, locals>>

\* The core loader gives up, or the old core cannot be stopped: then it is
\* killed at least.
StartGiveUp(t) ==
  /\ pc[t] = "start.decide"
  /\ core' \in {core, None}
  /\ xrayOnline' \in {xrayOnline, FALSE}
  /\ Goto(t, "start.finish")
  /\ UNCHANGED <<plugin, kernel, lifecycleMu, startProcessing, locals>>

\* The core is prepared and the old one stopped.
StartReplace(t) ==
  /\ pc[t] = "start.decide"
  /\ core' = None
  /\ xrayOnline' = FALSE
  /\ Goto(t, "start.spawn")
  /\ UNCHANGED <<plugin, kernel, lifecycleMu, startProcessing, locals>>

StartSpawn(t) ==
  /\ pc[t] = "start.spawn"
  /\ \/ core' = Configured(seen[t]["opt"]) /\ Goto(t, "start.await")
     \/ UNCHANGED core /\ Goto(t, "start.finish")
  /\ xrayOnline' = FALSE
  /\ UNCHANGED <<plugin, kernel, lifecycleMu, startProcessing, locals>>

\* The gRPC API answers, or it does not in time and the core is stopped.
StartAwait(t) ==
  /\ pc[t] = "start.await"
  /\ \/ core # None /\ xrayOnline' = TRUE /\ UNCHANGED core
     \/ xrayOnline' = FALSE /\ core' = None
  /\ Goto(t, "start.finish")
  /\ UNCHANGED <<plugin, kernel, lifecycleMu, startProcessing, locals>>

StartFinish(t) ==
  /\ pc[t] = "start.finish"
  /\ startProcessing' = FALSE
  /\ Goto(t, "start.unlock")
  /\ UNCHANGED <<plugin, kernel, lifecycleMu, xrayOnline, core, locals>>

StartUnlock(t) ==
  /\ pc[t] = "start.unlock"
  /\ lifecycleMu' = None
  /\ Return(t)
  /\ UNCHANGED <<plugin, kernel, startProcessing, xrayOnline, core>>

\* Health caches what a ping answered.
Health(t) ==
  /\ "health" \in Serves[t]
  /\ xrayOnline' = FALSE \/ (core # None /\ xrayOnline' = TRUE)
  /\ UNCHANGED <<plugin, kernel, lifecycleMu, startProcessing, core, pc, locals>>

\* The core exits and its monitor clears the manager's fields.
CoreExit ==
  /\ core # None
  /\ core' = None
  /\ xrayOnline' = FALSE
  /\ UNCHANGED <<plugin, kernel, lifecycleMu, startProcessing, pc, locals>>

-----------------------------------------------------------------------------

SyncStep(t) ==
  \/ \E p \in Plugins : SyncCall(t, p)
  \/ SyncUpdate(t) \/ SyncTables(t) \/ SyncScript(t) \/ SyncDiscard(t)
  \/ SyncRestart(t) \/ SyncRemove(t) \/ SyncRemoveFailed(t)

ResetStep(t) ==
  \/ ClearCall(t) \/ StopCall(t) \/ ResetState(t) \/ ResetTables(t)
  \/ ResetTablesFailed(t) \/ RecreateTables(t)

LifecycleStep(t) ==
  \/ StopDecide(t) \/ StopLock(t) \/ StopKill(t) \/ StopUnlock(t)
  \/ StartCall(t) \/ StartMark(t) \/ StartKeep(t) \/ StartGiveUp(t)
  \/ StartReplace(t) \/ StartSpawn(t) \/ StartAwait(t) \/ StartFinish(t)
  \/ StartUnlock(t) \/ Health(t)

Next ==
  \/ \E t \in Handlers : ReadTorrent(t) \/ SyncStep(t) \/ ResetStep(t) \/ LifecycleStep(t)
  \/ CoreExit

Spec == Init /\ [][Next]_vars

-----------------------------------------------------------------------------
(* Properties.                                                             *)

\* No sync, stop or start is under way.
Quiet == \A t \in Handlers : pc[t] = "idle"

\* A stored plugin is completely in the kernel, whatever script failed, unless the
\* Panel has emptied the sets: a repetition of it is answered as unchanged and would
\* not repair it (HandleSync and State.Reset).
StoredIsInstalled ==
  Quiet /\ plugin # None /\ ~recreated => filters = Installed(plugin)

\* A running core has the torrent settings of the stored plugin if that one
\* enables the blocker, whichever start was under way when it was stored
\* (applyTorrentRestart, StopIfOnline and the order of Start's first steps).
EnabledIsServed ==
  Quiet /\ core # None /\ Settings(plugin).enabled => core = Settings(plugin)

\* What applyTorrentRestart's comment promises: no core comes online with an
\* outbound that was disabled while it started.
DisabledIsNotServed ==
  Quiet /\ core # None /\ plugin # None /\ ~Settings(plugin).enabled => core = Off

==============================================================================
