# remnawave-node-lite-go: specification and proofs

`remnanode-lite` is the agent of a Remnawave node. A control panel ("the Panel")
calls it over HTTPS; it supervises one `rw-core` (Xray) process, keeps the set
of users of its inbounds, applies plugins (nftables filters and a torrent
blocker) and answers statistics. This directory holds TLA+ modules that follow
the Go source, the TLC instances that check them and machine-checked proofs.
Paths are relative to the repository root.

## 1. Inventory

| Component (source) | State | Operations | Talks to | What is hard | What makes it correct |
|---|---|---|---|---|---|
| Lifecycle manager (`internal/xray/manager.go`, `persist.go`) | `lifecycleMu`, `mu`, `startProcessing`, `xrayOnline`, `lastStartRequest`, the configuration and its hashes, `process`, `last-start.json` | `Start`, `Stop`, `StopIfOnline`, `Health`, `RestoreOnBoot`, `monitorProcess`, `CurrentConfigJSON` | HTTP handlers, plugin service, rw-core, file | two locks taken in several critical sections, pings between them, a wait on another goroutine with a lock held, crash and reboot, retries racing the Panel | one live core, owned until it exits; a stop leaves nothing running; memory, file and core agree; every call ends |
| Agent process (`cmd/remnanode-lite/main.go`) | context, goroutines | signal, bounded drain, `Stop(false)`, exit | everything | shutdown in the middle of a start | it always exits, and a reboot restores |
| Configuration generation (`xray/apiconfig.go`) | none | merge API inbound, routing rules, torrent rule | Start | position arithmetic on a float | the rule lands inside the list, the API rule stays first |
| Hash state and users (`xray/hashstate.go`, `hashedset.go`, `inbounds.go`, `nodehandler/handler.go`, `xtls/handler.go`) | set of user ids per inbound with its 64-bit hash, tags | add/remove one or many users | rw-core over gRPC, Start | core and hash state change in separate steps, handlers interleave, calls fail | the hashes describe the users the core holds, so that a skipped restart is sound |
| Core loader (`xray/core_loader.go`), download (`artifact/download.go`) | staged file, installed core, link, marker | install, restore stock, point link | disk, network | crash between two steps; stale marker | the link always names a runnable core |
| Geodata (`xray/geodata.go`) | files | group by target, download by a worker pool | disk, network | two assets with one file name | one download per file, failure of one asset does not stop the others |
| Log rotation (`xray/logrotate.go`) | log and `.1` files | ticker and start both rotate | disk | the two interleave | the backup holds the rotated content |
| Plugin service (`plugin/service.go`, `state.go`, `torrent.go`, `nft_linux.go`) | hash, active flag, whitelist, reports, torrent settings; nftables sets | sync, clear, webhook, collect, block, unblock, recreate, reset | nftables, dropper, lifecycle (`StopIfOnline`, outbound removal) | no lock spans a sync; webhooks and resets run in between; nft fails half way | the filters in the kernel are those of the stored plugin; the core follows the torrent settings |
| Plugin parsing (`schema_validate.go`, `objecthash.go`, `cidr.go`, `asn.go`, ...) | none | validation, key order, prefixes | sync | format details | - |
| Dropper (`connections/dropper.go`, `netadmin/*`) | none | kill connections by address or user | kernel, whitelist | - | whitelisted addresses are spared |
| Stats (`stats/handler.go`, `xtls/stats.go`) | none | relay; pool of 50 workers | rw-core | cancellation while the queue is full | every user asked once, no worker left |
| Geocheck (`stats/geocheck.go`) | busy flag | one run at a time with time and output limits | subprocess | the flag on every path | single flight |
| HTTPS server (`httpserver/*`, `auth/jwt.go`, `bodylimit/*`) | none | token, size limit, routes | all handlers | order of the checks, exact limits | nothing runs before the token is accepted |
| Configuration socket (`unixconfig/server.go`) | socket file | get-config, webhook | rw-core | - | token checked |
| Instance lock (`instance/lock_linux.go`) | abstract socket | acquire | other agents | - | one agent |
| Network monitor (`system/network.go`) | last sample | tick, read | `/proc` | counters restart | no negative rate |
| ASN database (`asn/db.go`, `writer.go`) | index and blob | open, look up | plugin parsing | truncated file, empty ranges | the search finds exactly the stored prefixes |
| Secrets, configuration, doctor, scripts | none after start | - | - | - | - |

How the parts meet: HTTP handlers run concurrently and call the manager and the
plugin service directly; the plugin service calls `StopIfOnline` and the gRPC
outbound removal; rw-core, once spawned, polls the configuration socket, which
reads `CurrentConfigJSON`; a monitor goroutine per core reports its exit on a
channel and under `mu`; the only state that survives the agent is on disk
(`last-start.json`, the custom core, geodata) and in the kernel (nftables).

`PROJECT.json` lists all of it under `components`, and under `hazards` what is
hard to test, each at its line.

## 2. Modules

| Module | Models | Checked by | Proofs |
|---|---|---|---|
| `XrayLifecycle` | manager, persisted request, `RestoreOnBoot`, process end | `MCXrayLifecycle` | `XrayLifecycleProofs`, `XrayMemoryProofs` (implements `ManagedNode`) |
| `PluginSync` | syncs against the kernel's filters and against starts | `MCPluginSync`, `MCPlugins` | `PluginProofs` |
| `TorrentBlocker` | webhooks, blocks, reports, the torrent set | `MCPlugins` | `TorrentProofs` |
| `InboundUsers` | user handlers, hash state, skipped starts, dropped connections | `MCInboundUsers` | `UsersProofs` |
| `HashedSet` | the set hash | `MCStatistics` | `StatisticsProofs` |
| `ManagedNode` | what the lifecycle promises the Panel | - | - |
| `CoreSwitch` | what the core loader promises | - | - |
| `CoreLoader` | custom core, link, marker | `MCFiles` | `FilesProofs` (implements `CoreSwitch`) |
| `Download` | `artifact.Download` | `MCFiles` | `FilesProofs` |
| `GeodataLoader` | geodata workers, over `Download` | `MCFiles` | `FilesProofs` |
| `AsnWriter`, `AsnDb` | the AS database, written and searched | `MCFiles` | `FilesProofs` |
| `Subsequence` | what a loop keeps of a slice (used by `AsnWriter`, `GeodataLoader`, `UserIPs`) | `MCFiles`, `MCStatistics` | `SubsequenceProofs` |
| `LogRotation` | one log of rw-core | `MCFiles` | `FilesProofs` |
| `TrafficStats` | traffic counters and the requests that reset them | `MCStatistics` | `StatisticsProofs` |
| `UserIPs` | the worker pool for the users' addresses | `MCStatistics` | `StatisticsProofs` |
| `Geocheck` | the external program and its outputs | `MCStatistics` | `StatisticsProofs` |
| `NetworkMonitor` | rates of the default interface | `MCStatistics` | `StatisticsProofs` |

Every module is parameterised by CONSTANTS with named assumptions and has one
action per step of the code. Nothing in a module that proofs use is recursive: a loop
that keeps some elements of a slice is described by the set of their places
(`Subsequence`), a sort by the rank of each entry, a running sum by a cardinality.
Definitions under a comment "Mutant:" are deliberate faults: each replaces the
definition after it to show that a property notices.

`MCFiles`, `MCStatistics` and `MCPlugins` put several modules into one run. The parts share no state in the code and never call each other, so
a product of them would add states and no behaviour. A variable `part` is
chosen in the initial state; only that part moves, the others rest in one initial
state, and the fairness of a part is that of its module, for its own steps. An
invariant is checked in all parts; it can only fail in its own.

What could come next: the egress tables of nftables, and in `InboundUsers` the fields of an
account of each protocol.

## 3. The core: XrayLifecycle

### Correspondence

A thread is a goroutine: the HTTP handlers (`Callers`), the goroutine of
`RestoreOnBoot` (`Restorer`) and the main goroutine (`Main`). `pc[t]` is the next
step it takes; a step is one critical section of the Manager's `mu`, one call
that waits, or one file operation. `lifecycleMu` and `mu` hold the owner of the
two mutexes; `mu` is only recorded while it is held across a wait (in
`stopProcessLocked`), every other critical section is one action, which requires
`mu = None`. `call`, `site`, `resp` and `attempt` are the locals: the arguments,
the call site of `stopProcessLocked`, `IsStarted`, and the attempt of
`RestoreOnBoot`.

| Code | Actions |
|---|---|
| `Start` (manager.go:185-306) | `StartReject`, `StartLock`, `StartMark`, `StartRead`, `StartPingOk/Failed`, `StartCompare`, `StartSkip`, `StartPrepare`, `StartInstall`, `StartSpawn`, `StartSpawnFailed`, `StartAwaitReady/Failed`, `StartOnline`, `StartRemember`, `StartSave`, `StartAbort`, `StartFinish`, `StartUnlock` |
| `stopProcessLocked` (606-647) | `BeginStop` inside its three callers, `WaitReaped`, `WaitKill`, `WaitTimeout` |
| `Stop`, `StopIfOnline` | `StopCall`, `StopIfOnline`, `StopLock`, `StopFlush`, `StopBegin`, `StopForget`, `StopUnlock` |
| `Health` | `HealthRead`, `HealthWrite` |
| the core, `monitorProcess` | `CoreServe`, `CoreExit`, `MonitorReap`, `MonitorClear` |
| `RestoreOnBoot` | `RestoreLoad`, the Start actions of `Restorer`, `RestoreCheck`, `RestoreRetry`, `RestoreCancel` |
| `main` | `Signal`, `MainStop`, `MainExit`; `Crash` and `Boot` for the machine |

`currentConfig` stands for `currentConfig`, `currentConfigJSON` and the hash
state, which the lifecycle always assigns and clears together. Requests are
opaque; `HashOf` gives their inbound hashes, all that `isNeedRestartCoreLocked`
looks at. Edits of the hash state by user management belong to `InboundUsers`.
A core is a member of `Cores`; an identity may be used again once its monitor
has finished, so the set bounds how many processes coexist and not how many are
spawned (`StartSpawn` would find no identity only if that many coexisted).

Where the environment decides, the model has a choice that is always open: a
ping or the wait for gRPC may fail (timeout, cancelled request context, core
gone), the core loader may refuse, the spawn may fail, a core may exit at any
time or ignore the interrupt for ten seconds, a file operation may fail
(`DiskFails`), the agent may be signalled or crash (`Ends`). No clock is needed.
The second test for a start in progress (manager.go:201) is there, but
`StartFlagIsOwned` shows that its branch is never taken.

Three assumptions about what is outside the code. The service manager that
starts the agent again has ended the cores of the previous run (`Boot`): the
systemd unit leaves the default, which ends the whole control group. OpenRC
does not promise that; a core a crash left behind there is outside the model.
The gRPC socket has a name that `NewManager` draws at random
(manager.go:127-139), so a core of an earlier run does not answer pings. A killed core (SIGKILL) does no more work, though it may take any time to
be reaped.

### Properties

| Property | Says | Run | Proved |
|---|---|---|---|
| `TypeOK` | types, and `RestoreOnBoot` never exceeds its attempts | `xray_handlers` | yes |
| `OneLiveCore` | a core that has not exited is the one the manager owns | `xray_handlers` | yes |
| `OwnedUntilExited` | no step, of a stop or of an old core's monitor, lets go of a process that runs | `xray_handlers` | yes |
| `ServingIsRemembered` | with the lifecycle lock free, a serving core runs a configuration with the stored hashes and the request to restore is the stored one | `xray_persistence` (equal hashes, so that skipped starts swap requests) | yes |
| `ImplementsNode` | every step is a step of `ManagedNode`, below | `xray_handlers` (different hashes) | yes |
| `StopLeavesNothingRunning` | when a stop is about to return no core boots or serves, even one a concurrent start was bringing up, even if the stop timed out | `xray_handlers` | yes |
| `StartFlagIsOwned` | `startProcessing` is never left behind | `xray_handlers` |yes |
| `FileFollowsRequest` | with the lock free and a working disk, the file is the remembered request | `xray_persistence` |yes |
| `DisabledStays` | after a Panel stop with `RestoreOnBoot` over, only a new Panel start writes the file or runs a core, across plugin stops, shutdowns, crashes and reboots | `xray_persistence` |yes, with a working disk |
| `CallsReturn`, `RestoreEnds` | every handler call returns; the retries end | `xray_contention` | liveness |
| `ShutdownCompletes` | a signalled agent exits, whatever it was doing | `xray_shutdown` | liveness |

### The abstract node

`ManagedNode` is what the Panel may rely on, with no thread, lock or monitor in it. Its
state is whether the agent is up, the request of the start in progress, the set of cores
alive (booting or serving), the set of hashes served, the request in memory and the
request saved. A core appears only in a start and when none is alive; it serves the
hashes of that start's request; a request is remembered only if no core is alive or the
core serves its hashes; a start ends with the core down or serving the remembered
request; a request is forgotten, and erased from the disk, only outside a start and with
the core down; what is saved is what is remembered. A core may exit, and the agent may
die, at any step. The mapping reads the start in progress from the owner of
`lifecycleMu` (`StartRequest`); `AliveCores` and `ServedHashes` are sets, so the
refinement also says that there is never a second core. The hash comparison, the
ping, the flags, the two waits for the process, the monitor and the retries are
invisible steps: however they interleave, the promise stands. Its invariant `AtRest`
(between two operations what is served is what a reboot would restore) follows.

### Two disagreements with what the repository says

* `xray_restore_race` (`DisabledHasNoFile`): `RestoreOnBoot` reads the file once.
  A Panel stop that overtakes it removes the file and reports `IsStopped`; the
  pending attempt then starts the core and `persistStartRequest` writes the file
  again. The comment of `Stop` (manager.go:340-342) says the node stays disabled
  after a reboot. `DisabledStays` is therefore stated for stops that come after
  `RestoreOnBoot`.
* `xray_disk_failure` (`DisabledStays` with `DiskFails`): if the file cannot be
  removed, `Stop` logs it and reports success, and the next boot restores the
  node that docs/CHANGELOG.md:213 says stays down.

### Runs and bounds

| Run | Instance | About |
|---|---|---|
| `xray_handlers` | 2 handlers that split the routes, the restorer as the second starter, 2 requests with different hashes, 2 cores, 1 attempt | 0.9 million states |
| `xray_persistence` | 1 handler with every route, 2 requests with equal hashes, 2 attempts, signal, crash and reboot | 1.8 million |
| `xray_contention` | 2 handlers (one starts, one stops), 1 request, 1 core, 2 attempts, failing file operations | liveness |
| `xray_shutdown` | 1 handler, 1 request, 1 core, signal | liveness |
| `xray_restore_race`, `xray_disk_failure` | 1 handler | the two counterexamples |

`xray_persistence` has one handler, because a second one multiplies its states by
the crashes and reboots; the theorems about it are for any number of handlers.
Two handlers and the restorer are three contenders for a mutex, which is enough
for a holder, a waiter and a rejected `TryLock`. Two requests are enough for "the
one the core runs, and another one". Two cores are enough for an
exited one whose monitor still waits for `mu` and a new one; more late monitors
behave like the first. The liveness runs use one core, which only makes a spawn
wait for that monitor. `MaxAttempts` is 1 or 2
instead of 10: after the first attempt the retries are alike. The proofs hold
for all of these at any size.

Symmetry (requests, and cores) is used only in safety runs; `HashOf` is either
injective or constant, so permuting requests is sound.

### Fairness

`Fairness` says that a goroutine that can run is eventually run. It is strong for
the steps of threads and monitors, because they wait for mutexes others take
again and again, and Go's mutex hands over to a waiter that has starved for a
millisecond, and its RWMutex blocks new readers behind a waiting writer. All
waits of the code have timeouts, which are ordinary steps here, so fairness
ends them. Nothing obliges the Panel to call, anyone to signal or crash the
agent or to start it again, and nothing obliges a core to serve or to exit.

## 4. The plugin service: PluginSync

A handler of the Panel runs `HandleSync`, `handlePluginClear`, the stop route or
`HandleRecreateTables`; another thread starts the core and polls its health. One
step is one critical section of `State`, one nft script or one call into the
manager; no lock spans a sync, so everything interleaves. `plugin` stands for the
fields of `State` that are always replaced together; the torrent settings are
nevertheless read field by field (`ReadTorrent`), as the code does, before and
after the update and by `torrentBlockerOptions`. `filters` is what the ingress and
egress sets of the kernel hold. The lifecycle is reduced to the lock, the start
flag, the online flag and `core`, the torrent settings the core runs with (`None`
when there is no core that can work; a core that was killed but not yet reaped
counts as none). A restart because of the request's hashes is a choice.

| Property | Says | Run |
|---|---|---|
| `TypeOK` | types, and the fields are read within bounds | `plugins` (in `PluginsTypeOK`) |
| `StoredIsInstalled` | with nothing under way, a stored plugin is completely in the kernel, whichever script failed; otherwise "unchanged" would be a lie | `plugins` |
| `EnabledIsServed` | with nothing under way, a running core has the torrent settings of a stored plugin that enables the blocker, whatever start was under way when it was stored | `plugins` |
| `DisabledIsNotServed` | the comment of `applyTorrentRestart`, for the opposite direction | `plugin_disable_race`, violated |

`EnabledIsServed` rests on an order that no test covers: a start raises its flag
before it reads the settings, and a sync stores the settings before
`StopIfOnline` reads that flag; so either the start sees the new settings or the
sync sees the start, waits for its lock and stops it. The direction that fails is
the hot removal: while a start with a changed configuration is in progress, the old
core is still online, so the removal succeeds on it and nobody stops the start,
which then brings up a core with the disabled outbound.

Instance: one handler for the Panel and one starter (a second one would be
refused at the lock, which changes nothing), three valid payloads (no blocker, and two
that differ in tags and placement) and an invalid one, at most two scripts per
payload, every script failing or not. With two handlers that sync at once, both
properties fail; the repository does not say that the Panel does that, so it is
listed as a hazard and not as a finding. `HandleRecreateTables` empties the sets and
keeps the plugin, as upstream does, so `StoredIsInstalled` is stated for the time until then (`recreated`).

## 5. The torrent blocker: TorrentBlocker

rw-core tells the agent of a torrent connection (`Events`, each with a source
address). `handleXrayWebhook` tests that the blocker is enabled, then reads the
ignore lists, the duration, blocks the address, drops its connections and queues
a report: a step each, because each takes the state's lock anew
(torrent.go:110-180). Requests of the Panel block, unblock, collect, sync, stop and
recreate the tables. `torrent` is the element of each address in the torrent set
(absent, with a timeout, without end), `open` are the established connections:
a client connects while neither set holds its address.

Environment: an nft script may fail (`ScriptFails`), adding an element that is
there may keep or renew its timeout (kernels differ), elements expire, a
connection may survive a drop (the kill failed, or the address is whitelisted;
both are `spared`), the agent ends and starts again with or without nftables. Of a
sync there is only what it does to the settings and the sets. The ignore lists of
users and addresses are one set, the POST to an external webhook has no state.

| Property | Says |
|---|---|
| `BlockedIsCut` | an address in the torrent set has no established connection, but for those spared or whose drop is the very next step of its blocker: the code blocks first and drops then |
| `AcceptedIsDone` | an accepted block has all its addresses in the set, an accepted unblock has none in either set, but for addresses that others touched since |
| `ReportedOnce`, `ReportsAreKept` | a report is handed to the Panel at most once, and leaves the list only for the Panel or when the plugin is given up |

`PluginsTypeOK` is the type invariant of both plugin modules; it also says that
nobody drops connections for a timeout that was refused. Instance: 2 addresses,
2 requests at a time in the part `panel`; 2 webhooks of one address and one request
at a time, with nftables, in the part `webhooks`. Callers and events are symmetric.

What the code does not ensure: `docs/CHANGELOG.md:191` says that a stop clears the
plugin's state and sets. A webhook in flight across the stop reads a duration of
zero, blocks its address without end and appends its report to the emptied list.
The steps are in the module; no property excludes it.

## 6. Users and hashes: InboundUsers, HashedSet

The Panel sends, with a start, the hash of the users of every inbound; if the
hash state of the manager agrees and the core answers, the core is not
restarted. The four user handlers (and the one that drops connections) edit the
core with an RPC and the hash state under `m.mu`, in separate steps and inbound
after inbound: `AddInboundTag`, `InboundTags`, `RemoveUser`, `RemoveUserFromInboundHash`,
`HandleDropIPs`, `AddSingleUser`, `AddUserToInboundHash`. A UUID is a pair of user and version, and
a hash is the set it is the hash of. A start is `StartCall` to `StartAwait`; a stop,
a poll and an exit of the core are one step each (`XrayLifecycle` has theirs).
Core calls fail before or after the core did its part; kills fail.

| Property | Says | Run |
|---|---|---|
| `HashedIsServed` | the hash state never counts a user the core does not serve | `users_failures` |
| `SkippedStartIsServed` | a start answered without a restart finds in the core every user it asked for, and no other unless a call failed | `users_failures` |
| `CollectedAreGone` | when a user comes back with a new UUID, no connection of the addresses collected before the removal is open | `users_failures` |
| `HashesAgree` | without failures, core and hash state agree on every user whose handlers are through, whichever inbounds lost their last user on the way | `users_concurrent` |
| `HashIsOfMembers` | the incremental hash is a function of the members alone | `statistics` |

`calm` and `faultless` are history: no handler overlapped a start, a stop or a
handler of the same user, and no call failed, since the core was started.
Without `calm` the first three fail: a handler that is under way while a start
replaces the core writes into the new hash state what went into the old core.
Nothing in the repository excludes it or promises otherwise; see the hazards.

`docs/CHANGELOG.md:15` promises more than `CollectedAreGone`: that no old
connection is left. A client that connects from a new address after the
collection and before the removal is not dropped; the module has the steps.

Instances: `users_failures` has one handler, one user with two UUIDs, two
inbounds, two addresses (one whitelisted), 2 calls, 2 starts, one fault, 2
connections (`ConnectionsOrStarts`: connections only within the first run of the
core, since none survives a restart). `users_concurrent` has two handlers of
different users in one inbound, batches included, and no faults. The part `hashes`
of `statistics` has two sets of five short strings with 2 x 16 bits. Two calls are enough for an addition over a
removal and for two handlers that cross; `CHECK_DEADLOCK FALSE` because the bounds
on calls end the behaviour.

## 7. Files: CoreLoader, Download, GeodataLoader, AsnDb, LogRotation

Run `files`; the agent may be killed between any two steps.

* `CoreLoader` (`core_loader.go`): a start brings the link `rw-core` to the core its
  configuration names. Files are records (content, permission, a stamp for size
  and time), every file operation is a step that may fail. `Tamper` changes the
  custom core by hand. `ActiveRuns`: the link always leads to a core that runs.
  `ImplementsSwitch`: the module implements `CoreSwitch`, in which the active core
  changes in one step from the one before to the one asked for, with `core <- Core`
  (what the link leads to) and `touched <- tampers # 0`. An agent without the managed
  layout does nothing here and is left out.
* `Download` (`download.go`): bodies of 0 to 4 chunks at a limit of 2, announced
  or not, that break off, have the digest or not, from a server that fails or not. A
  power loss cuts files that are not synced. `AllOrNothing`: what is under the final
  name is a whole body with its digest, and a failure leaves no temporary file, unless
  another process writes one there again.
* `GeodataLoader` (`geodata.go`): three assets for two files, two workers that take
  groups of one file from an unbuffered channel; the context may end. A step of a
  download is a step of `Download`. `FallbackWorks`: after a `prepare` that was not
  cancelled each file is there if any of its sources delivers, and none that is
  there is replaced. With `AllOrNothing`: two assets of one file never share
  the temporary file. That grouping puts each asset into one group, and only assets of
  one file together, is the lemma `GroupsFacts`. In `MCFiles`
  the first group goes to the first worker, which loses nothing since workers are alike.
* `AsnWriter`, `AsnDb` (`writer.go`, `db.go`): `Written` is the file `Write` makes, `Left`
  what may be left of it; `Open` checks entry after entry, the search is the binary
  search on the open file, which `Replace` may overwrite in place. `AnswerIsListed`:
  in any accepted file the search finds exactly what is listed.
  `WrittenIsAnswered`: what was written is accepted and found, whatever is missing
  at the end. An entry has the rank its number gives it, and its records begin behind
  those of the entries before it. The limit of 65535 prefixes and the masking of addresses are left out.
* `LogRotation` (`logrotate.go`): the ticker and a start copy line by line and
  truncate, while the core appends. `OneRotationLosesNothing`: only lines written
  between copy and truncation are lost, and a full backup is replaced. It is
  stated for rotations that do not overlap: two that do can lose every line (the
  second copies the log the first has emptied over the backup). The two logs are
  rotated alike and independently, so there is one. 5 lines at a size of 2 give two
  rotations and a line in between; one rotation may fail.

`FileWorkEnds`: what is begun ends: `prepare` returns, a search ends (also in a file
that was overwritten by a shorter one), a full log is cut. Fairness: the goroutines
of `prepare` and the search go on (a download ends by its own timers), the ticker
ticks.

## 8. Reports: TrafficStats, UserIPs, Geocheck, NetworkMonitor

Run `statistics`, which also has the hashes of section 6.

* `TrafficStats` (`stats/handler.go`, `xtls/stats.go`): a query reads the counters that
  match and may take them away; the Panel adds up what it receives. Parts `users` and
  `tags`, two requests at once, one failed call, lost answer or restart.
  `EveryByteOnce`: no byte is charged twice, and none is lost by requests that succeed.
  QueryStats matches substrings; a tag whose name makes the pattern of one kind
  match another is outside the model.
* `UserIPs` (`xtls/stats.go:181`): two workers, up to three users, one reported twice.
  `TakenIsListed`: addresses that were taken from the core are in the answer, under
  their user, also when the request ends early.
* `Geocheck` (`stats/geocheck.go`): two requests; outputs with limits 2 and 1 and up to 3
  units written in any pieces; the deadline kills. `ReportIsWhole`: a report is made
  of the whole output. A grandchild that keeps the pipes open after the kill is left
  out (`cmd.Run` would wait for it).
* `NetworkMonitor` (`system/network.go`): counters of 2 bits that start just before
  they wrap, an interface that vanishes and returns, time of 0 to 2 between two
  samples. `RateIsCarried`: no rate shown exceeds what was carried. Without
  `/proc/net/dev` there is no loop and nothing to model.

`ReportingGoesOn`: the request for addresses returns, the geocheck's flag is released
again, a stop ends the monitor, and the monitor follows the counters again after a
wrap. Fairness: goroutines go on, the deadline of a geocheck comes, time passes;
strong fairness for a tick and for the end of the loop, because Go's `select` chooses
at random among channels that are ready again and again.

## 9. Runs

| Run | Module | States | Expected |
|---|---|---|---|
| `xray_handlers` | `MCXrayLifecycle` | 865 000 | pass |
| `xray_persistence` | `MCXrayLifecycle` | 1 770 000 | pass |
| `xray_contention` | `MCXrayLifecycle` | 45 000 | pass |
| `xray_shutdown` | `MCXrayLifecycle` | 73 000 | pass |
| `plugins` | `MCPlugins` | 735 000 | pass |
| `users_failures` | `MCInboundUsers` | 1 120 000 | pass |
| `users_concurrent` | `MCInboundUsers` | 800 000 | pass |
| `files` | `MCFiles` | 232 000 | pass |
| `statistics` | `MCStatistics` | 163 000 | pass |
| `xray_restore_race` | `MCXrayLifecycle` | | `DisabledHasNoFile` violated |
| `xray_disk_failure` | `MCXrayLifecycle` | | `DisabledStays` violated |
| `plugin_disable_race` | `MCPluginSync` | | `DisabledIsNotServed` violated |

## 10. Proofs

TLC checks small instances; the theorems hold for every value of the constants that
satisfies the named assumptions of the modules. Each component has an inductive
invariant, preserved by one lemma or step per action, and its properties follow from
that, which TLC had checked first.

### XrayLifecycleProofs

* `InductiveInvariant`: `Spec => []IInv`, where `IInv` is `TypeOK` and seven parts:
  a retry is only pending below the maximum (`RetryInv`); whoever is between the
  lifecycle lock and its release holds it (`LockInv`); only the holder of `mu`
  waits in `stopProcessLocked`, and has a process to wait for (`MuInv`); a start
  about to spawn owns no process (`SpawnInv`); an agent that is down owns nothing
  (`DownInv`); a live core is owned, and its monitor still waits (`CoreInv`); past
  the wait of a stop no core is alive (`StopInv`).
* `TypeCorrect`, `OneLiveCoreHolds`, `OwnedUntilExitedHolds`,
  `StopLeavesNothingRunningHolds`.

Why each part is needed: `OneLiveCore` alone does not survive `StartSpawn` unless
no process is owned there, which holds only because nobody else changes
`process` between `WaitReaped` and the spawn, which is the mutual exclusion of
`LockInv`; `MonitorClear` preserves it only because a monitor past `MonitorReap`
belongs to an exited core (`CoreInv`); a stop that gave up after its Kill leaves
an owned core that is not alive, hence the second half of `StopInv`.

### XrayMemoryProofs

`MemInv` adds to `IInv` what the agent remembers. The flag of a start is set by the
owner of the lock (`FlagInv`); from the installation to the save the stored
configuration is that of the start (`ConfigInv`); a start that is about to skip has
compared the hashes (`SkipInv`); a core that serves has the stored configuration up to
its hashes unless somebody is ending it, and the request to restore is that
configuration unless a start has yet to remember it (`ServeInv`); the file is the
remembered request unless `StartSave` is next (`FileInv`); once the node is disabled
for good, neither file, memory, core nor thread is left to bring it back
(`SettledInv`). From it `StartFlagIsOwnedHolds`, `ServingIsRememberedHolds`,
`FileFollowsRequestHolds` and `DisabledStaysHolds`. The last one assumes a working
disk (`~DiskFails`), without which `xray_disk_failure` refutes it.

`ImplementsNodeHolds` proves the refinement of `ManagedNode`: the initial states map to
its initial state (`ManagedNode` starts with any saved request), and `NodeNext` has one
step per action. Twenty-eight actions and stutters are invisible (`NodeStays`), the
others are shown to be the abstract action one expects; `StopFlush`, `StopForget` and
`StartSave` may also fail on the disk, and the two ends of a wait forget a request only
in a Panel stop. The facts it uses are those of `IInv` and `MemInv`; `SoleInv` (one core
at most, also while the agent is down and owns none) was added for the cores a crash
leaves behind until the next boot. `AtRestHolds` follows from the refinement and an
induction over `ManagedNode` alone, in which the actions guard themselves.

The hard part is `ServeInv`: a stop, the end of a core and a boot each break one half of
it for a moment, so it has the exceptions `Ending` and `Unremembered`, and the lock
says that at most one thread is in them.

### PluginProofs

`PluginInv` says what a sync knows between its steps: what it has read of the torrent
settings is what is stored (`ReadInv`), the stored plugin is its own until the last
script (`StoredInv`), the sets hold what the scripts so far have added (`ScriptInv`),
an uninstalled plugin has a sync that will install it or give it up (`InstallInv`), and a
core with other settings has somebody on the way to stop it (`ServedInv`).
`StoredIsInstalledHolds` and `EnabledIsServedHolds` have two hypotheses. `OneChanger`: the
operations that replace the plugin or stop the core come one at a time, while starts
and polls run beside them in any number. No lock of the agent ensures that; it relies on
the Panel, and the properties fail without it (section 4). `NftAvailable`, for the
filters: without nftables nothing is installed. `PluginTypeCorrect` needs neither.

### TorrentProofs

`TorrentInv`: the step of each request and webhook fits what it has left to do
(`StepInv`), what is left of a block or unblock covers the addresses that are not yet as
they were accepted to be (`DoneInv`), and only webhooks that are through are reported,
each in one place (`ReportInv`, which counts the list by the set of its events).
`BlockedIsCutHolds`, `AcceptedIsDoneHolds`, `ReportedOnceHolds` and the action property
`ReportsAreKeptHolds`, for any number of requests, webhooks and addresses.

### UsersProofs

`UsersInv` compares, for each user and inbound, what the hash state counts with what the
core serves. For a user no handler is at, counted is served, and without faults the
converse (`RestInv`); for the user a handler is at, `WorkInv` says at each step which
inbounds may differ and how: the one between the core's step and the recording of it,
those still to be visited. `CalmInv` keeps two handlers off one user and handlers off
starts, the condition under which the properties are stated. `HashedIsServedHolds`,
`HashesAgreeHolds`, `SkippedStartIsServedHolds`, `CollectedAreGoneHolds` for any number
of handlers, users, inbounds, calls and faults.

### FilesProofs

* The core loader (`CoreInv`): `LoaderTypeOK`, what holds at each step of an install or a
  restoration (`Progress`), that a marker with the stamp of the custom core describes it
  (`Stamps`, which is why the marker may be believed after crashes and changes by
  hand), and `AcceptedIsExact`. From it `LoaderTypeCorrect`, `ActiveRunsHolds`,
  `AcceptedIsExactHolds` (a prepare that reports no failure has put the requested core in
  place) and `ImplementsSwitchHolds`: the initial states of the loader are those of
  `CoreSwitch` and each of its steps is a step of it or a stutter, however the steps fail.
* The AS database (`AsnInv`): the entries checked so far ascend and lie inside the
  file, and the number searched is not outside `lo..(hi - 1)`; that `Mid` lies between
  them is the lemma `MidInside`. `AnswerIsListedHolds` for every file whose fields are
  numbers, of any size.
* What `Write` left of a database (`WrittenIsAnsweredHolds`), for any number of entries
  and prefixes. The ranks of entries whose numbers differ are `1..n`, each taken once
  and in the order of the numbers, so the index ascends (`SortedFacts`). From one offset
  to the next it is the length of the entry's blob (`Offsets`), so that no record of an
  entry begins where one of another does (`RecordsApart`), `data` has one record at each
  place (`WrittenData`), and the blob of an entry is what was given (`BlobIsGiven`).
  `Open` therefore accepts the whole file (`WrittenIsOk`). The invariant `Decided` says
  that a file which could be read was refused only for a reason in its header or its
  entries, and that one `Open` goes on with has its whole index inside. What the search
  then answers is `AnswerIsListed`. A file cut off keeps its index, so it is refused
  or answers the same.
* Downloads (`DownloadInv`): before each step the temporary file is that of the download
  that makes it, whole once it is synced and exact once it is verified; what has its
  final name was synced before. `AllOrNothingHolds` for any number of processes,
  sources and files, whatever power losses and crashes come between.
* Geodata (`GeoInv`, over `DownloadInv`): two workers never hold assets of one file; a
  worker downloads only what is not there; an asset that was handed out is there, is
  still with a worker, or has a source that does not deliver. `FallbackWorksHolds` and
  `WorkersAllOrNothing`, for any number of workers and assets. What the groups are is
  `GroupsFacts`, from `NthFacts` and `PickedFacts`.
* The log (`LogInv`): a rotation that works alone has in the backup the lines of the
  log up to its offset, and every line is in the log, in the backup or excused.
  `OneRotationLosesNothingHolds`.

### StatisticsProofs

* Geocheck: only the request that claimed the flag is past the claim (`OneClaim`), and
  what a buffer keeps and what room it has are its limit; while it is not full it has
  kept all that was written (`Buffers`). `OneRunHolds`, `ReportIsWholeHolds`.
* Hashes: a hash is the parity of the members' bits (`HashInv`); `DigestAdd` and
  `DigestDelete` are the change of that parity with one member. `HashIsOfMembersHolds`,
  `SameUsersSameHashHolds` (the comparison of a start never restarts in vain) and
  `OneUserApartHolds` (a single lost change is always noticed, unless that user hashes to
  zero).
* Rates (`NetworkInv`): of two samples and the counters each later one follows the
  earlier, so a difference that is not discarded as a wrap was carried.
  `RateIsCarriedHolds` for any width and any first value of the counters.
* Addresses (`AddressInv`): an index is with one worker, its row is empty until it is
  stored, workers that have no job have no index, and rows and workers together have
  exactly what was taken. `TakenIsListedHolds` for any number of workers and users. That a user is asked for
  once although the metrics may name him twice is `UniqueFacts`.
* Traffic (`TrafficInv`): a request has got nothing yet of the kinds it will still ask for,
  and what was received, is on its way and is counted accounts for the traffic. The
  bytes on their way are a set of pairs of request and number, so that their sum is a
  cardinality and needs no recursion. `EveryByteOnceHolds` for any number of requests.

### SubsequenceProofs

`Nth(P, n)` is the element of `P` below or at which there are `n`. For a finite set of
numbers, how many are below or at an element is a bijection onto `1..Cardinality(P)`
that grows (`NthFacts`), and what is picked from a sequence is a sequence of its elements
in their order (`PickedFacts`). With these the loops of the code over slices need no
induction over data.

### The runs of several modules

`MCFiles`, `MCStatistics` and `MCPlugins` let one part move and the others rest. The lemmas
`PartsOfFiles`, `PartsOfStatistics` and `HalvesOfPlugins` say that each of their behaviours
is a behaviour of the modules named there, whose theorems therefore hold in the run, and `FilesTypeCorrect`, `StatisticsTypeCorrect` and `PluginsTypeCorrect` state it
for the type invariants. The geodata loader shares its variables with the downloads of
another part; there `ByPart` says that it is at work or at rest beside them.

### Assumptions

The assumptions on constants are types, bounds and that values are distinct (`None`,
`NoFile` and their like are no member of the sets they are compared with). `FiniteTags`,
`FinitelyMany` and `ByteStrings` say that inbounds, requests and strings are finitely
many, as they are in memory. `AssetsAssumption`: no asset comes with a digest, `geodata.go`
passes none. No assumption says what an operator of the model computes.

### What is only model-checked

* Liveness (`CallsReturn`, `RestoreEnds`, `ShutdownCompletes`, `FileWorkEnds`,
  `ReportingGoesOn`): it rests on fairness and ENABLED, which the prover cannot reach.
* What the violation runs refute.

## 11. Not modelled

The components marked `not_modelled` in `PROJECT.json`, with the reason: parsing and
validation of JSON, keys and environment variables, diagnostics and scripts keep
no state. Of the server, TLS, tokens and body limits work on one request at a time.
The position of the torrent rule is arithmetic on a float. Inside the lifecycle: `refreshVersion`, log output,
`rwCoreExitHint`, `runPreStart` (removes stale files; no state the manager reads),
the text of error answers, the delay and retry intervals.

A start that gets the lifecycle lock after `Stop(false)` and before the process
exits can leave a core behind. The model reaches it (`MainExit` with a live core);
no document says what must happen, and the service manager ends that core.
