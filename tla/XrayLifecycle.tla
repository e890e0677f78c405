---------------------------- MODULE XrayLifecycle ----------------------------
(***************************************************************************)
(* The lifecycle of the supervised rw-core process, as internal/xray       *)
(* manager.go and persist.go implement it.  HTTP handlers, the restore     *)
(* goroutine of RestoreOnBoot and the main goroutine at shutdown are       *)
(* threads that interleave on one Manager: its two locks, its cached       *)
(* online flag, its remembered start request, the configuration it holds   *)
(* and the process it owns.  Each spawned rw-core has a monitor goroutine. *)
(* The agent may crash at any point and is started again; only the         *)
(* persisted request survives.                                             *)
(*                                                                         *)
(* A start request is an opaque value; HashOf gives the inbound hashes the *)
(* Panel computed for it, which is all isNeedRestartCoreLocked looks at.   *)
(* currentConfig stands for the configuration, its JSON and the hash state *)
(* derived with it: the lifecycle assigns and clears the three together.   *)
(* The users added and removed one by one in between edit the hash state   *)
(* and the core alike; here the hashes are those of the request.           *)
(*                                                                         *)
(* A timeout, a cancelled request context and a failed ping are choices    *)
(* that are always open, so no clock appears.                              *)
(***************************************************************************)
EXTENDS Naturals

CONSTANTS
  Callers,          \* HTTP handler goroutines
  Serves,           \* the routes each of them may serve
  Restorer,         \* the goroutine running RestoreOnBoot
  Main,             \* the main goroutine, which stops the core at shutdown
  Requests,         \* start requests
  HashOf,           \* the inbound hashes carried by each request
  Cores,            \* identities of spawned rw-core processes
  None,             \* nil
  MaxAttempts,      \* maxAttempts of RestoreOnBoot (10 in the code)
  DisableHashCheck, \* Options.DisableHashCheck
  DiskFails,        \* whether file operations may fail
  Ends              \* how the agent may end: "signal", "crash"

Threads == Callers \cup {Restorer, Main}

ASSUME ThreadsAssumption ==
  /\ Restorer \notin Callers
  /\ Main \notin Callers
  /\ Restorer # Main
ASSUME NoneAssumption ==
  None \notin Threads /\ None \notin Requests /\ None \notin Cores
ASSUME ServesAssumption ==
  Serves \in [Callers -> SUBSET {"start", "stop", "sync", "health"}]
ASSUME MaxAttemptsAssumption == MaxAttempts \in Nat \ {0}
ASSUME FlagsAssumption == DisableHashCheck \in BOOLEAN /\ DiskFails \in BOOLEAN

VARIABLES
  phase,       \* of the agent process
  lifecycleMu, \* the thread holding Manager.lifecycleMu
  mu,          \* the thread holding Manager.mu across a wait
  startProcessing,
  xrayOnline,
  lastStartRequest,
  currentConfig,
  process,     \* Manager.process
  core,        \* state of each rw-core process
  running,     \* the configuration each rw-core fetched
  monitor,     \* the goroutine running monitorProcess for each rw-core
  file,        \* last-start.json
  pc, call, site, resp, attempt,
  disabled     \* history: the Panel's last completed stop, see below

shared == <<lifecycleMu, mu, startProcessing, xrayOnline, lastStartRequest,
            currentConfig, process>>
cores  == <<core, running, monitor>>
vars   == <<phase, shared, cores, file, pc, call, site, resp, attempt, disabled>>

-----------------------------------------------------------------------------
(* Where a thread stands.  A label is the next step the thread will take.  *)

\* Start between TryLock and the deferred Unlock.
InStart == {"start.mark", "start.read", "start.ping", "start.compare",
            "start.skip", "start.prepare", "start.install", "start.spawn",
            "start.await", "start.online", "start.remember", "start.save",
            "start.abort", "start.finish", "start.unlock"}

\* Stop between Lock and the deferred Unlock.
InStop == {"stop.flush", "stop.begin", "stop.forget", "stop.unlock"}

\* stopProcessLocked waiting for the process, on behalf of Start or of Stop.
Waiting == {"wait", "kill"}

Outside == {"idle", "off", "start.enter", "stop.enter", "health.write",
            "restore.delay", "restore.wait", "restore.check", "restore.done",
            "main.run", "main.drain", "main.exit"}

Labels == InStart \cup InStop \cup Waiting \cup Outside

\* Where stopProcessLocked was called: Start before it spawns, Start after
\* waitForGRPC failed, or Stop.
Sites == {"install", "abort", "stop"}

Calls == [req : Requests \cup {None}, force : BOOLEAN, clear : BOOLEAN]
NoCall == [req |-> None, force |-> FALSE, clear |-> FALSE]
StartOf(r, force) == [req |-> r, force |-> force, clear |-> FALSE]
PanelStop == [req |-> None, force |-> FALSE, clear |-> TRUE]

Running == {"up", "draining"}

TypeOK ==
  /\ phase \in Running \cup {"exited", "crashed"}
  /\ lifecycleMu \in Threads \cup {None}
  /\ mu \in Threads \cup {None}
  /\ startProcessing \in BOOLEAN
  /\ xrayOnline \in BOOLEAN
  /\ lastStartRequest \in Requests \cup {None}
  /\ currentConfig \in Requests \cup {None}
  /\ process \in Cores \cup {None}
  /\ core \in [Cores -> {"none", "booting", "serving", "killed", "exited"}]
  /\ running \in [Cores -> Requests \cup {None}]
  /\ monitor \in [Cores -> {"off", "waiting", "locking"}]
  /\ file \in Requests \cup {None}
  /\ pc \in [Threads -> Labels]
  /\ call \in [Threads -> Calls]
  /\ site \in [Threads -> Sites]
  /\ resp \in [Threads -> BOOLEAN]
  /\ attempt \in 0..MaxAttempts
  /\ disabled \in {"no", "racing", "settled"}

-----------------------------------------------------------------------------
(* Helpers.                                                                *)

Goto(t, label) == pc' = [pc EXCEPT ![t] = label]
Return(t, ok)  == resp' = [resp EXCEPT ![t] = ok]

\* A core process that has not exited, and one that can do work.
Live(c)  == core[c] \in {"booting", "serving", "killed"}
Alive(c) == core[c] \in {"booting", "serving"}

\* PingXrayGRPC can succeed only if some core answers on the socket; it may
\* always fail.
Reachable == \E c \in Cores : core[c] = "serving"

\* Mutant: a start is skipped whatever its hashes.
NeedRestartOnlyWhenEmpty(r) == currentConfig = None

\* isNeedRestartCoreLocked: no stored hashes, or hashes that differ.
NeedRestart(r) == currentConfig = None \/ HashOf[currentConfig] # HashOf[r]

\* Where a thread continues when Start, or Stop, has returned to its caller.
AfterStart(t) == IF t = Restorer THEN "restore.check" ELSE "idle"
AfterStop(t)  == IF t = Main THEN "main.exit" ELSE "idle"

\* The locals of a call are gone once it has returned to the HTTP handler.
Leave(t) ==
  /\ call' = [call EXCEPT ![t] = IF t = Restorer THEN @ ELSE NoCall]
  /\ resp' = [resp EXCEPT ![t] = t = Restorer /\ @]

\* Mutants: the error of stopProcessLocked is ignored before the spawn; every
\* Stop clears the file (the defect release 0.8.25 repaired).
AfterWaitUnchecked(t, where, ok) ==
  IF where = "stop"
  THEN IF call[t].clear THEN "stop.forget" ELSE "stop.unlock"
  ELSE IF where = "install" THEN "start.spawn" ELSE "start.finish"
AfterWaitForget(t, where, ok) ==
  IF where = "stop"
  THEN "stop.forget"
  ELSE IF where = "install" /\ ok THEN "start.spawn" ELSE "start.finish"

\* Where it continues when stopProcessLocked has returned to its call site.
AfterWait(t, where, ok) ==
  IF where = "stop"
  THEN IF call[t].clear THEN "stop.forget" ELSE "stop.unlock"
  ELSE IF where = "install" /\ ok THEN "start.spawn" ELSE "start.finish"

\* savePersistedStart and clearPersistedStart replace the file atomically or
\* leave it as it was.
WriteFile(r) == file' = r \/ (DiskFails /\ UNCHANGED file)

\* A new agent process: the handlers idle, RestoreOnBoot in its delay.
Booted == [t \in Threads |-> IF t = Restorer THEN "restore.delay"
                             ELSE IF t = Main THEN "main.run" ELSE "idle"]

NoCores == [c \in Cores |-> "none"]

Init ==
  /\ phase = "up"
  /\ lifecycleMu = None
  /\ mu = None
  /\ startProcessing = FALSE
  /\ xrayOnline = FALSE
  /\ lastStartRequest = None
  /\ currentConfig = None
  /\ process = None
  /\ core = NoCores
  /\ running = [c \in Cores |-> None]
  /\ monitor = [c \in Cores |-> "off"]
  /\ file \in Requests \cup {None}
  /\ pc = Booted
  /\ call = [t \in Threads |-> NoCall]
  /\ site = [t \in Threads |-> "stop"]
  /\ resp = [t \in Threads |-> FALSE]
  /\ attempt = 0
  /\ disabled = "no"

-----------------------------------------------------------------------------
(* stopProcessLocked, called with mu held at the three sites.              *)

\* The branch for a nil process, and the signal that starts the wait.  A
\* signalled core exits by CoreExit, which is open at any time, or ignores it.
BeginStop(t, where) ==
  IF process = None
  THEN /\ xrayOnline' = FALSE
       /\ Goto(t, AfterWait(t, where, TRUE))
       /\ UNCHANGED <<mu, site>>
  ELSE /\ mu' = t
       /\ site' = [site EXCEPT ![t] = where]
       /\ Goto(t, "wait")
       /\ UNCHANGED xrayOnline

\* The process reported on its done channel: it is forgotten, and at the stop
\* site the configuration (and, for a Panel stop, the request) with it.
WaitReaped(t) ==
  /\ pc[t] \in Waiting
  /\ monitor[process] # "waiting"
  /\ process' = None
  /\ xrayOnline' = FALSE
  /\ currentConfig' = IF site[t] = "stop" THEN None ELSE currentConfig
  /\ lastStartRequest' = IF site[t] = "stop" /\ call[t].clear
                         THEN None ELSE lastStartRequest
  /\ mu' = None
  /\ site' = [site EXCEPT ![t] = "stop"]
  /\ Goto(t, AfterWait(t, site[t], TRUE))
  /\ UNCHANGED <<phase, lifecycleMu, startProcessing, cores, file,
                 call, resp, attempt, disabled>>

\* Mutant: the second wait begins without a Kill.
WaitWithoutKill(t) ==
  /\ pc[t] = "wait"
  /\ Goto(t, "kill")
  /\ UNCHANGED <<phase, shared, cores, file, call, site, resp, attempt, disabled>>

\* Five seconds without an answer: Kill.  A killed core no longer serves.
WaitKill(t) ==
  /\ pc[t] = "wait"
  /\ core' = [c \in Cores |-> IF c = process /\ Live(c) THEN "killed" ELSE core[c]]
  /\ Goto(t, "kill")
  /\ UNCHANGED <<phase, shared, running, monitor, file,
                 call, site, resp, attempt, disabled>>

\* Mutant: the second wait has no timeout.
WaitForever(t) ==
  /\ pc[t] = "kill"
  /\ FALSE

\* Five more seconds: the error return, which leaves process and config alone.
WaitTimeout(t) ==
  /\ pc[t] = "kill"
  /\ xrayOnline' = IF site[t] = "abort" THEN FALSE ELSE xrayOnline
  /\ lastStartRequest' = IF site[t] = "stop" /\ call[t].clear
                         THEN None ELSE lastStartRequest
  /\ mu' = None
  /\ site' = [site EXCEPT ![t] = "stop"]
  /\ Goto(t, AfterWait(t, site[t], FALSE))
  /\ UNCHANGED <<phase, lifecycleMu, startProcessing, currentConfig, process,
                 cores, file, call, resp, attempt, disabled>>

-----------------------------------------------------------------------------
(* Start.                                                                  *)

\* A Panel request reaches the handler.
StartCall(t, r, force) ==
  /\ phase = "up" /\ "start" \in Serves[t]
  /\ pc[t] = "idle"
  /\ call' = [call EXCEPT ![t] = StartOf(r, force)]
  /\ Return(t, FALSE)
  /\ Goto(t, "start.enter")
  /\ UNCHANGED <<phase, shared, cores, file, site, attempt, disabled>>

\* The log directory cannot be made, or TryLock fails: "already in progress".
StartReject(t) ==
  /\ pc[t] = "start.enter"
  /\ lifecycleMu # None \/ DiskFails
  /\ mu = None
  /\ Goto(t, AfterStart(t))
  /\ Leave(t)
  /\ UNCHANGED <<phase, shared, cores, file, site, attempt, disabled>>

\* TryLock succeeds.  From here the Panel wants the node enabled again.
StartLock(t) ==
  /\ pc[t] = "start.enter"
  /\ lifecycleMu = None
  /\ lifecycleMu' = t
  /\ disabled' = IF t \in Callers THEN "no" ELSE disabled
  /\ Goto(t, "start.mark")
  /\ UNCHANGED <<phase, mu, startProcessing, xrayOnline, lastStartRequest,
                 currentConfig, process, cores, file, call, site, resp, attempt>>

StartMark(t) ==
  /\ pc[t] = "start.mark"
  /\ mu = None
  /\ startProcessing' = TRUE
  /\ Goto(t, IF startProcessing THEN "start.unlock" ELSE "start.read")
  /\ UNCHANGED <<phase, lifecycleMu, mu, xrayOnline, lastStartRequest,
                 currentConfig, process, cores, file, call, site, resp,
                 attempt, disabled>>

StartRead(t) ==
  /\ pc[t] = "start.read"
  /\ mu = None
  /\ Goto(t, IF xrayOnline /\ ~DisableHashCheck /\ ~call[t].force
             THEN "start.ping" ELSE "start.prepare")
  /\ UNCHANGED <<phase, shared, cores, file, call, site, resp, attempt, disabled>>

StartPingOk(t) ==
  /\ pc[t] = "start.ping"
  /\ Reachable
  /\ Goto(t, "start.compare")
  /\ UNCHANGED <<phase, shared, cores, file, call, site, resp, attempt, disabled>>

StartPingFailed(t) ==
  /\ pc[t] = "start.ping"
  /\ mu = None
  /\ xrayOnline' = FALSE
  /\ Goto(t, "start.prepare")
  /\ UNCHANGED <<phase, lifecycleMu, mu, startProcessing, lastStartRequest,
                 currentConfig, process, cores, file, call, site, resp,
                 attempt, disabled>>

StartCompare(t) ==
  /\ pc[t] = "start.compare"
  /\ mu = None
  /\ Goto(t, IF NeedRestart(call[t].req) THEN "start.prepare" ELSE "start.skip")
  /\ UNCHANGED <<phase, shared, cores, file, call, site, resp, attempt, disabled>>

\* Mutant: the stored configuration is not replaced either.
StartSkipAll(t) ==
  /\ pc[t] = "start.skip"
  /\ mu = None
  /\ Goto(t, "start.remember")
  /\ UNCHANGED <<phase, shared, cores, file, call, site, resp, attempt, disabled>>

\* The running core is kept; only the stored configuration is replaced.
StartSkip(t) ==
  /\ pc[t] = "start.skip"
  /\ mu = None
  /\ currentConfig' = call[t].req
  /\ Goto(t, "start.remember")
  /\ UNCHANGED <<phase, lifecycleMu, mu, startProcessing, xrayOnline,
                 lastStartRequest, process, cores, file, call, site, resp,
                 attempt, disabled>>

\* The core loader may refuse to go on (no usable stock core).
StartPrepare(t) ==
  /\ pc[t] = "start.prepare"
  /\ Goto(t, "start.install") \/ Goto(t, "start.finish")
  /\ UNCHANGED <<phase, shared, cores, file, call, site, resp, attempt, disabled>>

\* The new configuration is stored and the previous core is told to stop, in
\* one critical section.
StartInstall(t) ==
  /\ pc[t] = "start.install"
  /\ mu = None
  /\ currentConfig' = call[t].req
  /\ BeginStop(t, "install")
  /\ UNCHANGED <<phase, lifecycleMu, startProcessing, lastStartRequest, process,
                 cores, file, call, resp, attempt, disabled>>

StartSpawn(t) ==
  /\ pc[t] = "start.spawn"
  /\ mu = None
  /\ \E c \in Cores :
       /\ core[c] = "none"
       /\ core' = [core EXCEPT ![c] = "booting"]
       /\ monitor' = [monitor EXCEPT ![c] = "waiting"]
       /\ process' = c
  /\ xrayOnline' = FALSE
  /\ Goto(t, "start.await")
  /\ UNCHANGED <<phase, lifecycleMu, mu, startProcessing, lastStartRequest,
                 currentConfig, running, file, call, site, resp, attempt,
                 disabled>>

\* The log files cannot be opened or the binary cannot be run.
StartSpawnFailed(t) ==
  /\ pc[t] = "start.spawn"
  /\ mu = None
  /\ xrayOnline' = FALSE
  /\ Goto(t, "start.finish")
  /\ UNCHANGED <<phase, lifecycleMu, mu, startProcessing, lastStartRequest,
                 currentConfig, process, cores, file, call, site, resp,
                 attempt, disabled>>

StartAwaitReady(t) ==
  /\ pc[t] = "start.await"
  /\ Reachable
  /\ Goto(t, "start.online")
  /\ UNCHANGED <<phase, shared, cores, file, call, site, resp, attempt, disabled>>

\* The core exited, the deadline passed or the context was cancelled.
StartAwaitFailed(t) ==
  /\ pc[t] = "start.await"
  /\ Goto(t, "start.abort")
  /\ UNCHANGED <<phase, shared, cores, file, call, site, resp, attempt, disabled>>

StartOnline(t) ==
  /\ pc[t] = "start.online"
  /\ mu = None
  /\ xrayOnline' = TRUE
  /\ Goto(t, "start.remember")
  /\ UNCHANGED <<phase, lifecycleMu, mu, startProcessing, lastStartRequest,
                 currentConfig, process, cores, file, call, site, resp,
                 attempt, disabled>>

\* persistStartRequest, first in memory and then on disk.
StartRemember(t) ==
  /\ pc[t] = "start.remember"
  /\ mu = None
  /\ lastStartRequest' = call[t].req
  /\ Goto(t, "start.save")
  /\ UNCHANGED <<phase, lifecycleMu, mu, startProcessing, xrayOnline,
                 currentConfig, process, cores, file, call, site, resp,
                 attempt, disabled>>

StartSave(t) ==
  /\ pc[t] = "start.save"
  /\ WriteFile(call[t].req)
  /\ Return(t, TRUE)
  /\ Goto(t, "start.finish")
  /\ UNCHANGED <<phase, shared, cores, call, site, attempt, disabled>>

StartAbort(t) ==
  /\ pc[t] = "start.abort"
  /\ mu = None
  /\ BeginStop(t, "abort")
  /\ UNCHANGED <<phase, lifecycleMu, startProcessing, lastStartRequest,
                 currentConfig, process, cores, file, call, resp, attempt,
                 disabled>>

\* Mutants: the flag is not reset; the lock is kept when the start failed.
StartFinishForgotten(t) ==
  /\ pc[t] = "start.finish"
  /\ Goto(t, "start.unlock")
  /\ UNCHANGED <<phase, shared, cores, file, call, site, resp, attempt, disabled>>
StartUnlockOnSuccess(t) ==
  /\ pc[t] = "start.unlock"
  /\ lifecycleMu' = IF resp[t] THEN None ELSE lifecycleMu
  /\ Goto(t, AfterStart(t))
  /\ Leave(t)
  /\ UNCHANGED <<phase, mu, startProcessing, xrayOnline, lastStartRequest,
                 currentConfig, process, cores, file, site, attempt, disabled>>

\* The two deferred calls, in the order Go runs them.
StartFinish(t) ==
  /\ pc[t] = "start.finish"
  /\ mu = None
  /\ startProcessing' = FALSE
  /\ Goto(t, "start.unlock")
  /\ UNCHANGED <<phase, lifecycleMu, mu, xrayOnline, lastStartRequest,
                 currentConfig, process, cores, file, call, site, resp,
                 attempt, disabled>>

StartUnlock(t) ==
  /\ pc[t] = "start.unlock"
  /\ lifecycleMu' = None
  /\ Goto(t, AfterStart(t))
  /\ Leave(t)
  /\ UNCHANGED <<phase, mu, startProcessing, xrayOnline, lastStartRequest,
                 currentConfig, process, cores, file, site, attempt, disabled>>

StartStep(t) ==
  \/ StartReject(t) \/ StartLock(t) \/ StartMark(t) \/ StartRead(t)
  \/ StartPingOk(t) \/ StartPingFailed(t) \/ StartCompare(t) \/ StartSkip(t)
  \/ StartPrepare(t) \/ StartInstall(t) \/ StartSpawn(t) \/ StartSpawnFailed(t)
  \/ StartAwaitReady(t) \/ StartAwaitFailed(t) \/ StartOnline(t)
  \/ StartRemember(t) \/ StartSave(t) \/ StartAbort(t) \/ StartFinish(t)
  \/ StartUnlock(t)

-----------------------------------------------------------------------------
(* Stop and StopIfOnline.                                                  *)

\* GET /node/xray/stop.
StopCall(t) ==
  /\ phase = "up" /\ "stop" \in Serves[t]
  /\ pc[t] = "idle"
  /\ call' = [call EXCEPT ![t] = PanelStop]
  /\ Goto(t, "stop.enter")
  /\ UNCHANGED <<phase, shared, cores, file, site, resp, attempt, disabled>>

\* StopIfOnline, from a plugin sync: the three fields are read before the lock
\* is requested.  A node with nothing to stop returns at once.
StopIfOnline(t) ==
  /\ phase = "up" /\ "sync" \in Serves[t]
  /\ pc[t] = "idle"
  /\ mu = None
  /\ xrayOnline \/ process # None \/ startProcessing
  /\ call' = [call EXCEPT ![t] = NoCall]
  /\ Goto(t, "stop.enter")
  /\ UNCHANGED <<phase, shared, cores, file, site, resp, attempt, disabled>>

StopLock(t) ==
  /\ pc[t] = "stop.enter"
  /\ lifecycleMu = None
  /\ lifecycleMu' = t
  /\ Goto(t, IF call[t].clear THEN "stop.begin" ELSE "stop.flush")
  /\ UNCHANGED <<phase, mu, startProcessing, xrayOnline, lastStartRequest,
                 currentConfig, process, cores, file, call, site, resp,
                 attempt, disabled>>

\* flushPersistedStart.
StopFlush(t) ==
  /\ pc[t] = "stop.flush"
  /\ mu = None
  /\ IF lastStartRequest = None THEN UNCHANGED file
                                ELSE WriteFile(lastStartRequest)
  /\ Goto(t, "stop.begin")
  /\ UNCHANGED <<phase, shared, cores, call, site, resp, attempt, disabled>>

\* Mutant: the remembered request survives a Panel stop.
StopBeginRemembering(t) ==
  /\ pc[t] = "stop.begin"
  /\ mu = None
  /\ BeginStop(t, "stop")
  /\ currentConfig' = IF process = None THEN None ELSE currentConfig
  /\ UNCHANGED <<phase, lifecycleMu, startProcessing, lastStartRequest, process,
                 cores, file, call, resp, attempt, disabled>>

StopBegin(t) ==
  /\ pc[t] = "stop.begin"
  /\ mu = None
  /\ BeginStop(t, "stop")
  /\ currentConfig' = IF process = None THEN None ELSE currentConfig
  /\ lastStartRequest' = IF process = None /\ call[t].clear
                         THEN None ELSE lastStartRequest
  /\ UNCHANGED <<phase, lifecycleMu, startProcessing, process, cores, file,
                 call, resp, attempt, disabled>>

\* clearPersistedStart.  "settled" records that RestoreOnBoot was over when the
\* Panel disabled the node, "racing" that it was not.
StopForget(t) ==
  /\ pc[t] = "stop.forget"
  /\ WriteFile(None)
  /\ disabled' = IF pc[Restorer] = "restore.done" THEN "settled" ELSE "racing"
  /\ Goto(t, "stop.unlock")
  /\ UNCHANGED <<phase, shared, cores, call, site, resp, attempt>>

StopUnlock(t) ==
  /\ pc[t] = "stop.unlock"
  /\ lifecycleMu' = None
  /\ Goto(t, AfterStop(t))
  /\ Leave(t)
  /\ UNCHANGED <<phase, mu, startProcessing, xrayOnline, lastStartRequest,
                 currentConfig, process, cores, file, site, attempt, disabled>>

StopStep(t) ==
  \/ StopLock(t) \/ StopFlush(t) \/ StopBegin(t) \/ StopForget(t)
  \/ StopUnlock(t) \/ WaitReaped(t) \/ WaitKill(t) \/ WaitTimeout(t)

-----------------------------------------------------------------------------
(* Health: the fields are read and the core is pinged, and only then is the *)
(* answer written to the cached flag.                                      *)

HealthRead(t) ==
  /\ phase = "up" /\ "health" \in Serves[t]
  /\ pc[t] = "idle"
  /\ mu = None
  /\ \E answered \in BOOLEAN :
       /\ answered => (process # None \/ xrayOnline) /\ Reachable
       /\ Return(t, answered)
  /\ Goto(t, "health.write")
  /\ UNCHANGED <<phase, shared, cores, file, call, site, attempt, disabled>>

HealthWrite(t) ==
  /\ pc[t] = "health.write"
  /\ mu = None
  /\ xrayOnline' = resp[t]
  /\ Goto(t, "idle")
  /\ Leave(t)
  /\ UNCHANGED <<phase, lifecycleMu, mu, startProcessing, lastStartRequest,
                 currentConfig, process, cores, file, site, attempt, disabled>>

-----------------------------------------------------------------------------
(* The rw-core process and its monitor goroutine.                          *)

\* The core polls get-config for its configuration and opens its gRPC API.
CoreServe(c) ==
  /\ phase \in Running
  /\ core[c] = "booting"
  /\ mu = None
  /\ currentConfig # None
  /\ core' = [core EXCEPT ![c] = "serving"]
  /\ running' = [running EXCEPT ![c] = currentConfig]
  /\ UNCHANGED <<phase, shared, monitor, file, pc, call, site, resp, attempt,
                 disabled>>

\* It exits by itself, on the interrupt, or because it was killed.
CoreExit(c) ==
  /\ Live(c)
  /\ core' = [core EXCEPT ![c] = "exited"]
  /\ UNCHANGED <<phase, shared, running, monitor, file, pc, call, site, resp,
                 attempt, disabled>>

\* Wait returns: the exit is recorded and sent on the done channel.
MonitorReap(c) ==
  /\ monitor[c] = "waiting"
  /\ core[c] = "exited"
  /\ monitor' = [monitor EXCEPT ![c] = "locking"]
  /\ UNCHANGED <<phase, shared, core, running, file, pc, call, site, resp,
                 attempt, disabled>>

\* Mutant: the monitor clears whatever process the manager owns by now.
MonitorClearAny(c) ==
  /\ monitor[c] = "locking"
  /\ mu = None
  /\ process' = None
  /\ xrayOnline' = FALSE
  /\ core' = [core EXCEPT ![c] = "none"]
  /\ running' = [running EXCEPT ![c] = None]
  /\ monitor' = [monitor EXCEPT ![c] = "off"]
  /\ UNCHANGED <<phase, lifecycleMu, mu, startProcessing, lastStartRequest,
                 currentConfig, file, pc, call, site, resp, attempt, disabled>>

\* Only the process the manager still owns is cleared.  The identity of the
\* exited process may be used again.
MonitorClear(c) ==
  /\ monitor[c] = "locking"
  /\ mu = None
  /\ process' = IF process = c THEN None ELSE process
  /\ xrayOnline' = IF process = c THEN FALSE ELSE xrayOnline
  /\ core' = [core EXCEPT ![c] = "none"]
  /\ running' = [running EXCEPT ![c] = None]
  /\ monitor' = [monitor EXCEPT ![c] = "off"]
  /\ UNCHANGED <<phase, lifecycleMu, mu, startProcessing, lastStartRequest,
                 currentConfig, file, pc, call, site, resp, attempt, disabled>>

-----------------------------------------------------------------------------
(* RestoreOnBoot.                                                          *)

\* The goroutine returns.
RestoreEnd ==
  /\ Goto(Restorer, "restore.done")
  /\ call' = [call EXCEPT ![Restorer] = NoCall]
  /\ Return(Restorer, FALSE)
  /\ attempt' = 0

\* The delay is over: the persisted request is read, once.
RestoreLoad ==
  /\ pc[Restorer] = "restore.delay"
  /\ \/ /\ file # None
        /\ call' = [call EXCEPT ![Restorer] = StartOf(file, FALSE)]
        /\ attempt' = 1
        /\ Goto(Restorer, "start.enter")
        /\ UNCHANGED resp
     \/ (file = None \/ DiskFails) /\ RestoreEnd
  /\ UNCHANGED <<phase, shared, cores, file, site, disabled>>

\* Mutants: one attempt too many; attempts that are not counted.
RestoreCheckLate ==
  /\ pc[Restorer] = "restore.check"
  /\ IF resp[Restorer] \/ attempt > MaxAttempts
     THEN RestoreEnd
     ELSE Goto(Restorer, "restore.wait") /\ UNCHANGED <<call, resp, attempt>>
  /\ UNCHANGED <<phase, shared, cores, file, site, disabled>>
RestoreRetryUncounted ==
  /\ pc[Restorer] = "restore.wait"
  /\ Goto(Restorer, "start.enter")
  /\ UNCHANGED <<phase, shared, cores, file, call, site, resp, attempt, disabled>>

\* Start has answered.
RestoreCheck ==
  /\ pc[Restorer] = "restore.check"
  /\ IF resp[Restorer] \/ attempt = MaxAttempts
     THEN RestoreEnd
     ELSE Goto(Restorer, "restore.wait") /\ UNCHANGED <<call, resp, attempt>>
  /\ UNCHANGED <<phase, shared, cores, file, site, disabled>>

RestoreRetry ==
  /\ pc[Restorer] = "restore.wait"
  /\ attempt' = attempt + 1
  /\ Goto(Restorer, "start.enter")
  /\ UNCHANGED <<phase, shared, cores, file, call, site, resp, disabled>>

\* ctx.Done during the delay or between two attempts.
RestoreCancel ==
  /\ phase = "draining"
  /\ pc[Restorer] \in {"restore.delay", "restore.wait"}
  /\ RestoreEnd
  /\ UNCHANGED <<phase, shared, cores, file, site, disabled>>

RestoreStep == RestoreLoad \/ RestoreCheck \/ RestoreRetry \/ RestoreCancel

-----------------------------------------------------------------------------
(* The agent process: shutdown, crash, and the next start.                 *)

\* SIGINT or SIGTERM cancels the context.
Signal ==
  /\ phase = "up" /\ "signal" \in Ends
  /\ phase' = "draining"
  /\ Goto(Main, "main.drain")
  /\ UNCHANGED <<shared, cores, file, call, site, resp, attempt, disabled>>

\* server.Shutdown has returned, drained or after its ten seconds; the main
\* goroutine calls Stop(false).
MainStop ==
  /\ pc[Main] = "main.drain"
  /\ Goto(Main, "stop.enter")
  /\ UNCHANGED <<phase, shared, cores, file, call, site, resp, attempt, disabled>>

\* Every goroutine and the whole Manager are gone; the file and whatever
\* rw-core is left remain.
Halt(how) ==
  /\ phase' = how
  /\ lifecycleMu' = None /\ mu' = None
  /\ startProcessing' = FALSE /\ xrayOnline' = FALSE
  /\ lastStartRequest' = None /\ currentConfig' = None /\ process' = None
  /\ monitor' = [c \in Cores |-> "off"]
  /\ pc' = [t \in Threads |-> "off"]
  /\ call' = [t \in Threads |-> NoCall]
  /\ site' = [t \in Threads |-> "stop"]
  /\ resp' = [t \in Threads |-> FALSE]
  /\ attempt' = 0
  /\ UNCHANGED <<core, running, file, disabled>>

MainExit == pc[Main] = "main.exit" /\ Halt("exited")

Crash == phase \in Running /\ "crash" \in Ends /\ Halt("crashed")

\* The service manager starts the agent again; it has ended what was left of
\* the service's processes, the cores included.
Boot ==
  /\ phase \notin Running
  /\ phase' = "up"
  /\ pc' = Booted
  /\ core' = NoCores
  /\ running' = [c \in Cores |-> None]
  /\ UNCHANGED <<shared, monitor, file, call, site, resp, attempt, disabled>>

-----------------------------------------------------------------------------

Request(t) ==
  \/ \E r \in Requests, force \in BOOLEAN : StartCall(t, r, force)
  \/ StopCall(t) \/ StopIfOnline(t) \/ HealthRead(t)

ThreadStep(t) == StartStep(t) \/ StopStep(t) \/ HealthWrite(t)

MonitorStep(c) == MonitorReap(c) \/ MonitorClear(c)

Next ==
  \/ \E t \in Callers : Request(t)
  \/ \E t \in Threads : ThreadStep(t)
  \/ \E c \in Cores : CoreServe(c) \/ CoreExit(c) \/ MonitorStep(c)
  \/ RestoreStep \/ Signal \/ MainStop \/ MainExit \/ Crash \/ Boot

Spec == Init /\ [][Next]_vars

\* Every goroutine that can run is eventually run.  Both Go mutexes hand over
\* to a waiter that has starved, hence strong fairness for the steps that take
\* them.  Nobody is obliged to call, to signal, to crash or to start the agent
\* again, and an rw-core is not obliged to serve or to exit.
Fairness ==
  /\ \A t \in Threads : SF_vars(ThreadStep(t))
  /\ \A c \in Cores : SF_vars(MonitorStep(c))
  /\ WF_vars(RestoreStep)
  /\ WF_vars(MainStop)
  /\ WF_vars(MainExit)

FairSpec == Spec /\ Fairness

-----------------------------------------------------------------------------
(* Properties.                                                             *)

\* While the agent runs, an rw-core that has not exited is the one the manager
\* owns: there are never two, and none is lost (Start, stopProcessLocked and
\* monitorProcess together).
OneLiveCore ==
  phase \in Running => \A c \in Cores : Live(c) => process = c

\* The manager lets go of a process only when that process has exited, be it
\* stopProcessLocked or the monitor of an earlier core that does it.
OwnedUntilExited ==
  [][phase' \in Running /\ process # None /\ process' # process
       => core[process] = "exited"]_vars

\* What the Panel may rely on, see ManagedNode.  A start is in progress while
\* the owner of lifecycleMu is in Start, or waits on its behalf.
InProgress(t) == pc[t] \in InStart \/ (pc[t] \in Waiting /\ site[t] # "stop")
StartRequest ==
  IF \E t \in Threads : lifecycleMu = t /\ InProgress(t)
  THEN call[lifecycleMu].req
  ELSE None

AliveCores == {c \in Cores : Alive(c)}
ServedHashes == {HashOf[running[c]] : c \in {d \in Cores : core[d] = "serving"}}

Node == INSTANCE ManagedNode WITH
  up <- phase \in Running, request <- StartRequest,
  alive <- AliveCores, serving <- ServedHashes,
  memory <- lastStartRequest, saved <- file

\* However starts, skips, aborts, stops, restores, monitors, crashes and
\* reboots interleave, each of their steps is one that ManagedNode allows.
ImplementsNode == Node!Spec

\* When Stop or StopIfOnline is about to return, whatever start was in progress
\* when it was called, no core is booting or serving: the plugin sync and the
\* Panel rely on the node being down at that moment.
StopLeavesNothingRunning ==
  \A t \in Threads : pc[t] = "stop.unlock" => \A c \in Cores : ~Alive(c)

\* Between two lifecycle operations a serving core runs a configuration with
\* the stored hashes, and the request that will be restored after a reboot is
\* the stored one: neither a skipped nor a failed start may tear them apart.
ServingIsRemembered ==
  lifecycleMu = None /\ process # None /\ core[process] = "serving"
    => /\ currentConfig # None
       /\ lastStartRequest = currentConfig
       /\ HashOf[running[process]] = HashOf[currentConfig]

\* Between two lifecycle operations the file holds the remembered request, if
\* there is one and the disk works (persistStartRequest and flushPersistedStart).
FileFollowsRequest ==
  ~DiskFails /\ lifecycleMu = None /\ lastStartRequest # None
    => file = lastStartRequest

\* Once the Panel has disabled the node, with RestoreOnBoot over, nothing but a
\* new Panel start writes the file or runs a core: not a plugin stop, not the
\* flush at shutdown, not a reboot (Stop with clearPersist).
DisabledStays ==
  disabled = "settled" /\ lifecycleMu = None
    => file = None /\ \A c \in Cores : ~Alive(c)

\* What manager.go says of Stop(true), with no restriction on when it is called.
DisabledHasNoFile ==
  disabled # "no" /\ lifecycleMu = None => file = None

\* A start in progress is always owned: a flag left behind would make every
\* later start answer "already in progress".
StartFlagIsOwned == startProcessing => lifecycleMu # None

\* Every call of a handler returns, whatever the other threads and the core do.
CallsReturn ==
  \A t \in Callers : pc[t] \notin {"idle", "off"} ~> pc[t] \in {"idle", "off"}

\* RestoreOnBoot gives up or succeeds; it does not retry for ever.
RestoreEnds == pc[Restorer] = "restore.wait" ~> pc[Restorer] \in {"restore.done", "off"}

\* A signalled agent exits, whatever start or stop it finds in progress.
ShutdownCompletes == phase = "draining" ~> phase # "draining"

==============================================================================
