------------------------- MODULE XrayLifecycleProofs -------------------------
(* What is proved of XrayLifecycle for every value of its constants.       *)
EXTENDS XrayLifecycle, TLAPS

\* Every call site of stopProcessLocked continues at a label of Start or Stop.
LEMMA AfterWaitType ==
  ASSUME NEW t \in Threads, NEW where \in Sites, NEW ok \in BOOLEAN, TypeOK
  PROVE  /\ AfterWait(t, where, ok) \in Labels
         /\ where = "install" => AfterWait(t, where, ok) \in {"start.spawn", "start.finish"}
         /\ where = "abort" => AfterWait(t, where, ok) = "start.finish"
         /\ where = "stop" => AfterWait(t, where, ok) \in {"stop.forget", "stop.unlock"}
  BY DEF AfterWait, Labels, InStart, InStop, Waiting, Outside, Sites, TypeOK, Calls

\* A new agent process has its threads at labels outside every lock.
LEMMA BootedType ==
  /\ Booted \in [Threads -> Labels]
  /\ \A t \in Threads : Booted[t] \in {"idle", "restore.delay", "main.run"}
  BY DEF Booted, Labels, Outside

\* The initial state is well typed.
LEMMA TypeInit == Init => TypeOK
<1> SUFFICES ASSUME Init PROVE TypeOK
  OBVIOUS
<1>1. pc \in [Threads -> Labels]
  BY BootedType DEF Init
<1>2. call \in [Threads -> Calls] /\ site \in [Threads -> Sites]
  BY DEF Init, NoCall, Calls, Sites
<1>3. core \in [Cores -> {"none", "booting", "serving", "killed", "exited"}]
  BY DEF Init, NoCores
<1>4. attempt \in 0..MaxAttempts
  BY MaxAttemptsAssumption DEF Init
<1> QED
  BY <1>1, <1>2, <1>3, <1>4 DEF Init, TypeOK, Running

\* stopProcessLocked keeps the types wherever it is called.
LEMMA BeginStopType ==
  ASSUME NEW t \in Threads, NEW where \in Sites, TypeOK, BeginStop(t, where)
  PROVE  /\ mu' \in Threads \cup {None}
         /\ xrayOnline' \in BOOLEAN
         /\ site' \in [Threads -> Sites]
         /\ pc' \in [Threads -> Labels]
<1>1. AfterWait(t, where, TRUE) \in Labels
  BY AfterWaitType
<1>2. "wait" \in Labels
  BY DEF Labels, Waiting
<1> QED
  BY <1>1, <1>2 DEF BeginStop, Goto, TypeOK

\* The state a stopped agent leaves behind is well typed.
LEMMA HaltType ==
  ASSUME NEW how \in {"exited", "crashed"}, TypeOK, Halt(how)
  PROVE  TypeOK'
<1>1. pc' \in [Threads -> Labels]
  BY DEF Halt, Labels, Outside
<1>2. call' \in [Threads -> Calls] /\ site' \in [Threads -> Sites]
  BY DEF Halt, NoCall, Calls, Sites
<1>3. resp' \in [Threads -> BOOLEAN] /\ attempt' \in 0..MaxAttempts
  BY MaxAttemptsAssumption DEF Halt
<1> QED
  BY <1>1, <1>2, <1>3 DEF Halt, TypeOK, Running

\* So does the return of RestoreOnBoot.
LEMMA RestoreEndType ==
  ASSUME TypeOK, RestoreEnd
  PROVE  /\ pc' \in [Threads -> Labels]
         /\ call' \in [Threads -> Calls]
         /\ resp' \in [Threads -> BOOLEAN]
         /\ attempt' \in 0..MaxAttempts
<1>1. NoCall \in Calls /\ "restore.done" \in Labels
  BY DEF NoCall, Calls, Labels, Outside
<1>2. Restorer \in Threads
  BY DEF Threads
<1> QED
  BY <1>1, <1>2, MaxAttemptsAssumption DEF RestoreEnd, TypeOK, Goto, Return

\* RestoreOnBoot waits for another attempt only if one is left.
RetryInv == pc[Restorer] = "restore.wait" => attempt < MaxAttempts

\* Every step keeps the types.
LEMMA TypeNext == TypeOK /\ RetryInv /\ [Next]_vars => TypeOK'
<1> SUFFICES ASSUME TypeOK, RetryInv, [Next]_vars PROVE TypeOK'
  OBVIOUS
<1>0. ASSUME NEW t \in Threads, NEW ok \in BOOLEAN
      PROVE  [pc EXCEPT ![t] = AfterWait(t, site[t], ok)] \in [Threads -> Labels]
  BY AfterWaitType DEF TypeOK
<1> Restorer \in Threads /\ Main \in Threads /\ Callers \subseteq Threads
  BY DEF Threads
<1> USE DEF TypeOK, shared, cores, Goto, Return, Leave, Labels, InStart, InStop,
            Waiting, Outside, Running, AfterStart, AfterStop, NoCall, StartOf,
            PanelStop, Calls, Sites, WriteFile
<1>1. ASSUME NEW t \in Callers, NEW r \in Requests, NEW force \in BOOLEAN,
             StartCall(t, r, force)
      PROVE  TypeOK'
  BY <1>1 DEF StartCall
<1>2. ASSUME NEW t \in Callers, StopCall(t) PROVE TypeOK'
  BY <1>2 DEF StopCall
<1>3. ASSUME NEW t \in Callers, StopIfOnline(t) PROVE TypeOK'
  BY <1>3 DEF StopIfOnline
<1>4. ASSUME NEW t \in Callers, HealthRead(t) PROVE TypeOK'
  BY <1>4 DEF HealthRead
<1>5. ASSUME NEW t \in Threads, StartReject(t) PROVE TypeOK'
  BY <1>5 DEF StartReject
<1>6. ASSUME NEW t \in Threads, StartLock(t) PROVE TypeOK'
  BY <1>6 DEF StartLock
<1>7. ASSUME NEW t \in Threads, StartMark(t) PROVE TypeOK'
  BY <1>7 DEF StartMark
<1>8. ASSUME NEW t \in Threads, StartRead(t) PROVE TypeOK'
  BY <1>8 DEF StartRead
<1>9. ASSUME NEW t \in Threads, StartPingOk(t) PROVE TypeOK'
  BY <1>9 DEF StartPingOk
<1>10. ASSUME NEW t \in Threads, StartPingFailed(t) PROVE TypeOK'
  <2>1. xrayOnline' \in BOOLEAN
    BY <1>10 DEF StartPingFailed
  <2>2. pc' \in [Threads -> Labels]
    BY <1>10 DEF StartPingFailed
  <2>3. UNCHANGED <<phase, lifecycleMu, mu, startProcessing, lastStartRequest,
                  currentConfig, process, cores, file, call, site, resp, attempt,
                  disabled>>
    BY <1>10 DEF StartPingFailed
  <2> QED
    BY <2>1, <2>2, <2>3
<1>11. ASSUME NEW t \in Threads, StartCompare(t) PROVE TypeOK'
  BY <1>11 DEF StartCompare
<1>12. ASSUME NEW t \in Threads, StartSkip(t) PROVE TypeOK'
  BY <1>12 DEF StartSkip
<1>13. ASSUME NEW t \in Threads, StartPrepare(t) PROVE TypeOK'
  BY <1>13 DEF StartPrepare
<1>14. ASSUME NEW t \in Threads, StartInstall(t) PROVE TypeOK'
  BY <1>14, BeginStopType DEF StartInstall
<1>15. ASSUME NEW t \in Threads, StartSpawn(t) PROVE TypeOK'
  <2>1. xrayOnline' \in BOOLEAN
    BY <1>15 DEF StartSpawn
  <2>2. pc' \in [Threads -> Labels]
    BY <1>15 DEF StartSpawn
  <2>3. process' \in Cores
    BY <1>15 DEF StartSpawn
  <2>4. /\ core' \in [Cores -> {"none", "booting", "serving", "killed", "exited"}]
        /\ monitor' \in [Cores -> {"off", "waiting", "locking"}]
    BY <1>15 DEF StartSpawn
  <2>5. UNCHANGED <<phase, lifecycleMu, mu, startProcessing, lastStartRequest,
                  currentConfig, running, file, call, site, resp, attempt,
                  disabled>>
    BY <1>15 DEF StartSpawn
  <2> QED
    BY <2>1, <2>2, <2>3, <2>4, <2>5
<1>16. ASSUME NEW t \in Threads, StartSpawnFailed(t) PROVE TypeOK'
  <2>1. xrayOnline' \in BOOLEAN
    BY <1>16 DEF StartSpawnFailed
  <2>2. pc' \in [Threads -> Labels]
    BY <1>16 DEF StartSpawnFailed
  <2>3. UNCHANGED <<phase, lifecycleMu, mu, startProcessing, lastStartRequest,
                  currentConfig, process, cores, file, call, site, resp, attempt,
                  disabled>>
    BY <1>16 DEF StartSpawnFailed
  <2> QED
    BY <2>1, <2>2, <2>3
<1>17. ASSUME NEW t \in Threads, StartAwaitReady(t) PROVE TypeOK'
  BY <1>17 DEF StartAwaitReady
<1>18. ASSUME NEW t \in Threads, StartAwaitFailed(t) PROVE TypeOK'
  BY <1>18 DEF StartAwaitFailed
<1>19. ASSUME NEW t \in Threads, StartOnline(t) PROVE TypeOK'
  BY <1>19 DEF StartOnline
<1>20. ASSUME NEW t \in Threads, StartRemember(t) PROVE TypeOK'
  BY <1>20 DEF StartRemember
<1>21. ASSUME NEW t \in Threads, StartSave(t) PROVE TypeOK'
  BY <1>21 DEF StartSave
<1>22. ASSUME NEW t \in Threads, StartAbort(t) PROVE TypeOK'
  BY <1>22, BeginStopType DEF StartAbort
<1>23. ASSUME NEW t \in Threads, StartFinish(t) PROVE TypeOK'
  <2>1. startProcessing' \in BOOLEAN
    BY <1>23 DEF StartFinish
  <2>2. pc' \in [Threads -> Labels]
    BY <1>23 DEF StartFinish
  <2>3. UNCHANGED <<phase, lifecycleMu, mu, xrayOnline, lastStartRequest,
                  currentConfig, process, cores, file, call, site, resp, attempt,
                  disabled>>
    BY <1>23 DEF StartFinish
  <2> QED
    BY <2>1, <2>2, <2>3
<1>24. ASSUME NEW t \in Threads, StartUnlock(t) PROVE TypeOK'
  BY <1>24 DEF StartUnlock
<1>25. ASSUME NEW t \in Threads, StopLock(t) PROVE TypeOK'
  BY <1>25 DEF StopLock
<1>26. ASSUME NEW t \in Threads, StopFlush(t) PROVE TypeOK'
  BY <1>26 DEF StopFlush
<1>27. ASSUME NEW t \in Threads, StopBegin(t) PROVE TypeOK'
  BY <1>27, BeginStopType DEF StopBegin
<1>28. ASSUME NEW t \in Threads, StopForget(t) PROVE TypeOK'
  BY <1>28 DEF StopForget
<1>29. ASSUME NEW t \in Threads, StopUnlock(t) PROVE TypeOK'
  BY <1>29 DEF StopUnlock
<1>30. ASSUME NEW t \in Threads, WaitReaped(t) PROVE TypeOK'
  <2>1. pc' = [pc EXCEPT ![t] = AfterWait(t, site[t], TRUE)]
    BY <1>30 DEF WaitReaped
  <2>2. pc' \in [Threads -> Labels]
    BY <1>0, <2>1
  <2>3. /\ site' \in [Threads -> Sites]
        /\ lastStartRequest' \in Requests \cup {None}
    BY <1>30 DEF WaitReaped
  <2> QED
    BY <1>30, <2>2, <2>3 DEF WaitReaped
<1>31. ASSUME NEW t \in Threads, WaitKill(t) PROVE TypeOK'
  BY <1>31 DEF WaitKill
<1>32. ASSUME NEW t \in Threads, WaitTimeout(t) PROVE TypeOK'
  <2>1. pc' = [pc EXCEPT ![t] = AfterWait(t, site[t], FALSE)]
    BY <1>32 DEF WaitTimeout
  <2>2. pc' \in [Threads -> Labels]
    BY <1>0, <2>1
  <2>3. /\ site' \in [Threads -> Sites]
        /\ lastStartRequest' \in Requests \cup {None}
    BY <1>32 DEF WaitTimeout
  <2>4. xrayOnline' \in BOOLEAN /\ mu' = None
    BY <1>32 DEF WaitTimeout
  <2>5. UNCHANGED <<phase, lifecycleMu, startProcessing, currentConfig, process,
                  cores, file, call, resp, attempt, disabled>>
    BY <1>32 DEF WaitTimeout
  <2> QED
    BY <2>2, <2>3, <2>4, <2>5
<1>33. ASSUME NEW t \in Threads, HealthWrite(t) PROVE TypeOK'
  BY <1>33 DEF HealthWrite
<1>34. ASSUME NEW c \in Cores, CoreServe(c) PROVE TypeOK'
  BY <1>34 DEF CoreServe
<1>35. ASSUME NEW c \in Cores, CoreExit(c) PROVE TypeOK'
  BY <1>35 DEF CoreExit
<1>36. ASSUME NEW c \in Cores, MonitorReap(c) PROVE TypeOK'
  BY <1>36 DEF MonitorReap
<1>37. ASSUME NEW c \in Cores, MonitorClear(c) PROVE TypeOK'
  <2>1. xrayOnline' \in BOOLEAN
    BY <1>37 DEF MonitorClear
  <2>2. process' \in Cores \cup {None}
    BY <1>37 DEF MonitorClear
  <2>3. /\ core' \in [Cores -> {"none", "booting", "serving", "killed", "exited"}]
        /\ running' \in [Cores -> Requests \cup {None}]
        /\ monitor' \in [Cores -> {"off", "waiting", "locking"}]
    BY <1>37 DEF MonitorClear
  <2>4. UNCHANGED <<phase, lifecycleMu, mu, startProcessing, lastStartRequest,
                  currentConfig, file, pc, call, site, resp, attempt, disabled>>
    BY <1>37 DEF MonitorClear
  <2> QED
    BY <2>1, <2>2, <2>3, <2>4
<1>38. ASSUME RestoreLoad PROVE TypeOK'
  <2>1. CASE RestoreEnd
    BY <1>38, <2>1, RestoreEndType DEF RestoreLoad
  <2>2. CASE ~RestoreEnd
    <3>1. StartOf(file, FALSE) \in Calls
      OBVIOUS
    <3>2. 1 \in 0..MaxAttempts
      BY MaxAttemptsAssumption
    <3>3. /\ call' = [call EXCEPT ![Restorer] = StartOf(file, FALSE)]
          /\ attempt' = 1
          /\ pc' = [pc EXCEPT ![Restorer] = "start.enter"]
          /\ resp' = resp
      BY <1>38, <2>2 DEF RestoreLoad
    <3>4. call' \in [Threads -> Calls] /\ pc' \in [Threads -> Labels]
      BY <3>1, <3>3
    <3> QED
      BY <1>38, <3>2, <3>3, <3>4 DEF RestoreLoad
  <2> QED
    BY <2>1, <2>2
<1>39. ASSUME RestoreCheck PROVE TypeOK'
  <2>1. CASE resp[Restorer] \/ attempt = MaxAttempts
    <3>1. RestoreEnd
      BY <1>39, <2>1 DEF RestoreCheck
    <3> QED
      BY <1>39, <3>1, RestoreEndType DEF RestoreCheck
  <2>2. CASE ~(resp[Restorer] \/ attempt = MaxAttempts)
    BY <1>39, <2>2 DEF RestoreCheck
  <2> QED
    BY <2>1, <2>2
<1>40. ASSUME RestoreRetry PROVE TypeOK'
  BY <1>40, MaxAttemptsAssumption DEF RestoreRetry, RetryInv
<1>41. ASSUME RestoreCancel PROVE TypeOK'
  BY <1>41, RestoreEndType DEF RestoreCancel
<1>42. ASSUME Signal PROVE TypeOK'
  BY <1>42 DEF Signal
<1>43. ASSUME MainStop PROVE TypeOK'
  BY <1>43 DEF MainStop
<1>44. ASSUME MainExit PROVE TypeOK'
  BY <1>44, HaltType DEF MainExit
<1>45. ASSUME Crash PROVE TypeOK'
  BY <1>45, HaltType DEF Crash
<1>46. ASSUME Boot PROVE TypeOK'
  BY <1>46, BootedType DEF Boot, NoCores
<1>47. CASE UNCHANGED vars
  BY <1>47 DEF vars
<1> QED
  BY <1>1, <1>2, <1>3, <1>4, <1>5, <1>6, <1>7, <1>8, <1>9, <1>10, <1>11,
     <1>12, <1>13, <1>14, <1>15, <1>16, <1>17, <1>18, <1>19, <1>20, <1>21,
     <1>22, <1>23, <1>24, <1>25, <1>26, <1>27, <1>28, <1>29, <1>30, <1>31,
     <1>32, <1>33, <1>34, <1>35, <1>36, <1>37, <1>38, <1>39, <1>40, <1>41,
     <1>42, <1>43, <1>44, <1>45, <1>46, <1>47
  DEF Next, Request, ThreadStep, StartStep, StopStep, MonitorStep, RestoreStep

-----------------------------------------------------------------------------
(* The inductive invariant.                                                *)

Held == InStart \cup InStop \cup Waiting

\* Only the owner of lifecycleMu is inside Start or Stop.
LockInv == \A t \in Threads : pc[t] \in Held => lifecycleMu = t

\* Only the owner of mu waits in stopProcessLocked, and it has a process to
\* wait for.
MuInv == \A t \in Threads : pc[t] \in Waiting => mu = t /\ process # None

\* A start that is about to spawn owns no process.
SpawnInv == \A t \in Threads : pc[t] = "start.spawn" => process = None

\* An agent that is down owns nothing and does nothing.
DownInv == phase \notin Running => process = None /\ \A t \in Threads : pc[t] = "off"

\* The manager owns every core that has not exited, the core it owns was
\* spawned, and the monitor of a live core is still waiting for it.
CoreInv ==
  phase \in Running =>
    /\ \A c \in Cores : Live(c) => process = c /\ monitor[c] = "waiting"
    /\ \A c \in Cores : process = c => core[c] # "none"

\* Past the wait of a Stop no core is alive, and past its Kill the owned one is
\* not.
StopInv ==
  \A t \in Threads :
    /\ pc[t] \in {"stop.forget", "stop.unlock"} => \A c \in Cores : ~Alive(c)
    /\ pc[t] = "kill" => \A c \in Cores : process = c => ~Alive(c)

IInv == /\ TypeOK
        /\ RetryInv
        /\ LockInv
        /\ MuInv
        /\ SpawnInv
        /\ DownInv
        /\ CoreInv
        /\ StopInv

\* Whatever RestoreOnBoot reads or decides, only its own next step changes.
LEMMA RestoreShape ==
  ASSUME RestoreLoad \/ RestoreCheck
  PROVE  /\ \E label \in {"start.enter", "restore.done", "restore.wait"} :
              pc' = [pc EXCEPT ![Restorer] = label]
         /\ phase' = phase /\ lifecycleMu' = lifecycleMu /\ mu' = mu
         /\ process' = process /\ core' = core /\ monitor' = monitor
<1>1. ASSUME RestoreEnd PROVE pc' = [pc EXCEPT ![Restorer] = "restore.done"]
  BY <1>1 DEF RestoreEnd, Goto
<1>2. CASE RestoreLoad
  <2>1. \/ pc' = [pc EXCEPT ![Restorer] = "start.enter"]
        \/ RestoreEnd
    BY <1>2 DEF RestoreLoad, Goto
  <2> QED
    BY <1>1, <1>2, <2>1 DEF RestoreLoad, shared, cores
<1>3. CASE RestoreCheck
  <2>1. \/ pc' = [pc EXCEPT ![Restorer] = "restore.wait"]
        \/ RestoreEnd
    BY <1>3 DEF RestoreCheck, Goto
  <2> QED
    BY <1>1, <1>3, <2>1 DEF RestoreCheck, shared, cores
<1> QED
  BY <1>2, <1>3

\* Every step keeps the lock invariant.
LEMMA LockNext == TypeOK /\ LockInv /\ [Next]_vars => LockInv'
<1> SUFFICES ASSUME TypeOK, LockInv, [Next]_vars PROVE LockInv'
  OBVIOUS
<1>a. Restorer \in Threads /\ Main \in Threads /\ Callers \subseteq Threads
  BY DEF Threads
<1> USE <1>a, NoneAssumption, ThreadsAssumption
    DEF TypeOK, shared, cores, Goto, AfterStart, AfterStop, Held, InStart, InStop, Waiting,
        LockInv
<1>1. ASSUME NEW t \in Callers, NEW r \in Requests, NEW force \in BOOLEAN,
             StartCall(t, r, force)
      PROVE  LockInv'
  BY <1>1 DEF StartCall
<1>2. ASSUME NEW t \in Callers, StopCall(t) PROVE LockInv'
  BY <1>2 DEF StopCall
<1>3. ASSUME NEW t \in Callers, StopIfOnline(t) PROVE LockInv'
  BY <1>3 DEF StopIfOnline
<1>4. ASSUME NEW t \in Callers, HealthRead(t) PROVE LockInv'
  BY <1>4 DEF HealthRead
<1>5. ASSUME NEW t \in Threads, StartReject(t) PROVE LockInv'
  BY <1>5 DEF StartReject
<1>6. ASSUME NEW t \in Threads, StartLock(t) PROVE LockInv'
  BY <1>6 DEF StartLock
<1>7. ASSUME NEW t \in Threads, StartMark(t) PROVE LockInv'
  BY <1>7 DEF StartMark
<1>8. ASSUME NEW t \in Threads, StartRead(t) PROVE LockInv'
  BY <1>8 DEF StartRead
<1>9. ASSUME NEW t \in Threads, StartPingOk(t) PROVE LockInv'
  BY <1>9 DEF StartPingOk
<1>10. ASSUME NEW t \in Threads, StartPingFailed(t) PROVE LockInv'
  BY <1>10 DEF StartPingFailed
<1>11. ASSUME NEW t \in Threads, StartCompare(t) PROVE LockInv'
  BY <1>11 DEF StartCompare
<1>12. ASSUME NEW t \in Threads, StartSkip(t) PROVE LockInv'
  BY <1>12 DEF StartSkip
<1>13. ASSUME NEW t \in Threads, StartPrepare(t) PROVE LockInv'
  BY <1>13 DEF StartPrepare
<1>14. ASSUME NEW t \in Threads, StartInstall(t) PROVE LockInv'
  BY <1>14 DEF StartInstall, BeginStop, AfterWait
<1>15. ASSUME NEW t \in Threads, StartSpawn(t) PROVE LockInv'
  BY <1>15 DEF StartSpawn
<1>16. ASSUME NEW t \in Threads, StartSpawnFailed(t) PROVE LockInv'
  BY <1>16 DEF StartSpawnFailed
<1>17. ASSUME NEW t \in Threads, StartAwaitReady(t) PROVE LockInv'
  BY <1>17 DEF StartAwaitReady
<1>18. ASSUME NEW t \in Threads, StartAwaitFailed(t) PROVE LockInv'
  BY <1>18 DEF StartAwaitFailed
<1>19. ASSUME NEW t \in Threads, StartOnline(t) PROVE LockInv'
  BY <1>19 DEF StartOnline
<1>20. ASSUME NEW t \in Threads, StartRemember(t) PROVE LockInv'
  BY <1>20 DEF StartRemember
<1>21. ASSUME NEW t \in Threads, StartSave(t) PROVE LockInv'
  BY <1>21 DEF StartSave
<1>22. ASSUME NEW t \in Threads, StartAbort(t) PROVE LockInv'
  BY <1>22 DEF StartAbort, BeginStop, AfterWait
<1>23. ASSUME NEW t \in Threads, StartFinish(t) PROVE LockInv'
  BY <1>23 DEF StartFinish
<1>24. ASSUME NEW t \in Threads, StartUnlock(t) PROVE LockInv'
  BY <1>24 DEF StartUnlock
<1>25. ASSUME NEW t \in Threads, StopLock(t) PROVE LockInv'
  BY <1>25 DEF StopLock
<1>26. ASSUME NEW t \in Threads, StopFlush(t) PROVE LockInv'
  BY <1>26 DEF StopFlush
<1>27. ASSUME NEW t \in Threads, StopBegin(t) PROVE LockInv'
  BY <1>27 DEF StopBegin, BeginStop, AfterWait
<1>28. ASSUME NEW t \in Threads, StopForget(t) PROVE LockInv'
  BY <1>28 DEF StopForget
<1>29. ASSUME NEW t \in Threads, StopUnlock(t) PROVE LockInv'
  BY <1>29 DEF StopUnlock
<1>30. ASSUME NEW t \in Threads, WaitReaped(t) PROVE LockInv'
  BY <1>30 DEF WaitReaped, AfterWait
<1>31. ASSUME NEW t \in Threads, WaitKill(t) PROVE LockInv'
  BY <1>31 DEF WaitKill
<1>32. ASSUME NEW t \in Threads, WaitTimeout(t) PROVE LockInv'
  BY <1>32 DEF WaitTimeout, AfterWait
<1>33. ASSUME NEW t \in Threads, HealthWrite(t) PROVE LockInv'
  BY <1>33 DEF HealthWrite
<1>34. ASSUME NEW c \in Cores, CoreServe(c) PROVE LockInv'
  BY <1>34 DEF CoreServe
<1>35. ASSUME NEW c \in Cores, CoreExit(c) PROVE LockInv'
  BY <1>35 DEF CoreExit
<1>36. ASSUME NEW c \in Cores, MonitorReap(c) PROVE LockInv'
  BY <1>36 DEF MonitorReap
<1>37. ASSUME NEW c \in Cores, MonitorClear(c) PROVE LockInv'
  BY <1>37 DEF MonitorClear
<1>38. ASSUME RestoreLoad PROVE LockInv'
  BY <1>38, RestoreShape DEF RestoreLoad
<1>39. ASSUME RestoreCheck PROVE LockInv'
  BY <1>39, RestoreShape DEF RestoreCheck
<1>40. ASSUME RestoreRetry PROVE LockInv'
  BY <1>40 DEF RestoreRetry
<1>41. ASSUME RestoreCancel PROVE LockInv'
  BY <1>41 DEF RestoreCancel, RestoreEnd
<1>42. ASSUME Signal PROVE LockInv'
  BY <1>42 DEF Signal
<1>43. ASSUME MainStop PROVE LockInv'
  BY <1>43 DEF MainStop
<1>44. ASSUME MainExit PROVE LockInv'
  BY <1>44 DEF MainExit, Halt
<1>45. ASSUME Crash PROVE LockInv'
  BY <1>45 DEF Crash, Halt
<1>46. ASSUME Boot PROVE LockInv'
  BY <1>46, BootedType DEF Boot, NoCores
<1>47. CASE UNCHANGED vars
  BY <1>47 DEF vars
<1> QED
  BY <1>1, <1>2, <1>3, <1>4, <1>5, <1>6, <1>7, <1>8, <1>9, <1>10, <1>11,
     <1>12, <1>13, <1>14, <1>15, <1>16, <1>17, <1>18, <1>19, <1>20, <1>21,
     <1>22, <1>23, <1>24, <1>25, <1>26, <1>27, <1>28, <1>29, <1>30, <1>31,
     <1>32, <1>33, <1>34, <1>35, <1>36, <1>37, <1>38, <1>39, <1>40, <1>41,
     <1>42, <1>43, <1>44, <1>45, <1>46, <1>47
  DEF Next, Request, ThreadStep, StartStep, StopStep, MonitorStep, RestoreStep

\* Every step keeps the invariant of mu.
LEMMA MuNext == TypeOK /\ LockInv /\ MuInv /\ [Next]_vars => MuInv'
<1> SUFFICES ASSUME TypeOK, LockInv, MuInv, [Next]_vars PROVE MuInv'
  OBVIOUS
<1>a. Restorer \in Threads /\ Main \in Threads /\ Callers \subseteq Threads
  BY DEF Threads
<1> USE <1>a, NoneAssumption, ThreadsAssumption
    DEF TypeOK, shared, cores, Goto, AfterStart, AfterStop, Held, InStart, InStop, Waiting,
        LockInv, MuInv
<1>1. ASSUME NEW t \in Callers, NEW r \in Requests, NEW force \in BOOLEAN,
             StartCall(t, r, force)
      PROVE  MuInv'
  BY <1>1 DEF StartCall
<1>2. ASSUME NEW t \in Callers, StopCall(t) PROVE MuInv'
  BY <1>2 DEF StopCall
<1>3. ASSUME NEW t \in Callers, StopIfOnline(t) PROVE MuInv'
  BY <1>3 DEF StopIfOnline
<1>4. ASSUME NEW t \in Callers, HealthRead(t) PROVE MuInv'
  BY <1>4 DEF HealthRead
<1>5. ASSUME NEW t \in Threads, StartReject(t) PROVE MuInv'
  BY <1>5 DEF StartReject
<1>6. ASSUME NEW t \in Threads, StartLock(t) PROVE MuInv'
  BY <1>6 DEF StartLock
<1>7. ASSUME NEW t \in Threads, StartMark(t) PROVE MuInv'
  BY <1>7 DEF StartMark
<1>8. ASSUME NEW t \in Threads, StartRead(t) PROVE MuInv'
  BY <1>8 DEF StartRead
<1>9. ASSUME NEW t \in Threads, StartPingOk(t) PROVE MuInv'
  BY <1>9 DEF StartPingOk
<1>10. ASSUME NEW t \in Threads, StartPingFailed(t) PROVE MuInv'
  BY <1>10 DEF StartPingFailed
<1>11. ASSUME NEW t \in Threads, StartCompare(t) PROVE MuInv'
  BY <1>11 DEF StartCompare
<1>12. ASSUME NEW t \in Threads, StartSkip(t) PROVE MuInv'
  BY <1>12 DEF StartSkip
<1>13. ASSUME NEW t \in Threads, StartPrepare(t) PROVE MuInv'
  BY <1>13 DEF StartPrepare
<1>14. ASSUME NEW t \in Threads, StartInstall(t) PROVE MuInv'
  BY <1>14 DEF StartInstall, BeginStop, AfterWait
<1>15. ASSUME NEW t \in Threads, StartSpawn(t) PROVE MuInv'
  BY <1>15 DEF StartSpawn
<1>16. ASSUME NEW t \in Threads, StartSpawnFailed(t) PROVE MuInv'
  BY <1>16 DEF StartSpawnFailed
<1>17. ASSUME NEW t \in Threads, StartAwaitReady(t) PROVE MuInv'
  BY <1>17 DEF StartAwaitReady
<1>18. ASSUME NEW t \in Threads, StartAwaitFailed(t) PROVE MuInv'
  BY <1>18 DEF StartAwaitFailed
<1>19. ASSUME NEW t \in Threads, StartOnline(t) PROVE MuInv'
  BY <1>19 DEF StartOnline
<1>20. ASSUME NEW t \in Threads, StartRemember(t) PROVE MuInv'
  BY <1>20 DEF StartRemember
<1>21. ASSUME NEW t \in Threads, StartSave(t) PROVE MuInv'
  BY <1>21 DEF StartSave
<1>22. ASSUME NEW t \in Threads, StartAbort(t) PROVE MuInv'
  BY <1>22 DEF StartAbort, BeginStop, AfterWait
<1>23. ASSUME NEW t \in Threads, StartFinish(t) PROVE MuInv'
  BY <1>23 DEF StartFinish
<1>24. ASSUME NEW t \in Threads, StartUnlock(t) PROVE MuInv'
  BY <1>24 DEF StartUnlock
<1>25. ASSUME NEW t \in Threads, StopLock(t) PROVE MuInv'
  BY <1>25 DEF StopLock
<1>26. ASSUME NEW t \in Threads, StopFlush(t) PROVE MuInv'
  BY <1>26 DEF StopFlush
<1>27. ASSUME NEW t \in Threads, StopBegin(t) PROVE MuInv'
  BY <1>27 DEF StopBegin, BeginStop, AfterWait
<1>28. ASSUME NEW t \in Threads, StopForget(t) PROVE MuInv'
  BY <1>28 DEF StopForget
<1>29. ASSUME NEW t \in Threads, StopUnlock(t) PROVE MuInv'
  BY <1>29 DEF StopUnlock
<1>30. ASSUME NEW t \in Threads, WaitReaped(t) PROVE MuInv'
  BY <1>30 DEF WaitReaped, AfterWait
<1>31. ASSUME NEW t \in Threads, WaitKill(t) PROVE MuInv'
  BY <1>31 DEF WaitKill
<1>32. ASSUME NEW t \in Threads, WaitTimeout(t) PROVE MuInv'
  BY <1>32 DEF WaitTimeout, AfterWait
<1>33. ASSUME NEW t \in Threads, HealthWrite(t) PROVE MuInv'
  BY <1>33 DEF HealthWrite
<1>34. ASSUME NEW c \in Cores, CoreServe(c) PROVE MuInv'
  BY <1>34 DEF CoreServe
<1>35. ASSUME NEW c \in Cores, CoreExit(c) PROVE MuInv'
  BY <1>35 DEF CoreExit
<1>36. ASSUME NEW c \in Cores, MonitorReap(c) PROVE MuInv'
  BY <1>36 DEF MonitorReap
<1>37. ASSUME NEW c \in Cores, MonitorClear(c) PROVE MuInv'
  BY <1>37 DEF MonitorClear
<1>38. ASSUME RestoreLoad PROVE MuInv'
  BY <1>38, RestoreShape DEF RestoreLoad
<1>39. ASSUME RestoreCheck PROVE MuInv'
  BY <1>39, RestoreShape DEF RestoreCheck
<1>40. ASSUME RestoreRetry PROVE MuInv'
  BY <1>40 DEF RestoreRetry
<1>41. ASSUME RestoreCancel PROVE MuInv'
  BY <1>41 DEF RestoreCancel, RestoreEnd
<1>42. ASSUME Signal PROVE MuInv'
  BY <1>42 DEF Signal
<1>43. ASSUME MainStop PROVE MuInv'
  BY <1>43 DEF MainStop
<1>44. ASSUME MainExit PROVE MuInv'
  BY <1>44 DEF MainExit, Halt
<1>45. ASSUME Crash PROVE MuInv'
  BY <1>45 DEF Crash, Halt
<1>46. ASSUME Boot PROVE MuInv'
  BY <1>46, BootedType DEF Boot, NoCores
<1>47. CASE UNCHANGED vars
  BY <1>47 DEF vars
<1> QED
  BY <1>1, <1>2, <1>3, <1>4, <1>5, <1>6, <1>7, <1>8, <1>9, <1>10, <1>11,
     <1>12, <1>13, <1>14, <1>15, <1>16, <1>17, <1>18, <1>19, <1>20, <1>21,
     <1>22, <1>23, <1>24, <1>25, <1>26, <1>27, <1>28, <1>29, <1>30, <1>31,
     <1>32, <1>33, <1>34, <1>35, <1>36, <1>37, <1>38, <1>39, <1>40, <1>41,
     <1>42, <1>43, <1>44, <1>45, <1>46, <1>47
  DEF Next, Request, ThreadStep, StartStep, StopStep, MonitorStep, RestoreStep

\* Every step keeps the invariant of the spawning start.
LEMMA SpawnNext == TypeOK /\ LockInv /\ SpawnInv /\ [Next]_vars => SpawnInv'
<1> SUFFICES ASSUME TypeOK, LockInv, SpawnInv, [Next]_vars PROVE SpawnInv'
  OBVIOUS
<1>a. Restorer \in Threads /\ Main \in Threads /\ Callers \subseteq Threads
  BY DEF Threads
<1> USE <1>a, NoneAssumption, ThreadsAssumption
    DEF TypeOK, shared, cores, Goto, AfterStart, AfterStop, Held, InStart, InStop, Waiting,
        LockInv, SpawnInv
<1>1. ASSUME NEW t \in Callers, NEW r \in Requests, NEW force \in BOOLEAN,
             StartCall(t, r, force)
      PROVE  SpawnInv'
  BY <1>1 DEF StartCall
<1>2. ASSUME NEW t \in Callers, StopCall(t) PROVE SpawnInv'
  BY <1>2 DEF StopCall
<1>3. ASSUME NEW t \in Callers, StopIfOnline(t) PROVE SpawnInv'
  BY <1>3 DEF StopIfOnline
<1>4. ASSUME NEW t \in Callers, HealthRead(t) PROVE SpawnInv'
  BY <1>4 DEF HealthRead
<1>5. ASSUME NEW t \in Threads, StartReject(t) PROVE SpawnInv'
  BY <1>5 DEF StartReject
<1>6. ASSUME NEW t \in Threads, StartLock(t) PROVE SpawnInv'
  BY <1>6 DEF StartLock
<1>7. ASSUME NEW t \in Threads, StartMark(t) PROVE SpawnInv'
  BY <1>7 DEF StartMark
<1>8. ASSUME NEW t \in Threads, StartRead(t) PROVE SpawnInv'
  BY <1>8 DEF StartRead
<1>9. ASSUME NEW t \in Threads, StartPingOk(t) PROVE SpawnInv'
  BY <1>9 DEF StartPingOk
<1>10. ASSUME NEW t \in Threads, StartPingFailed(t) PROVE SpawnInv'
  BY <1>10 DEF StartPingFailed
<1>11. ASSUME NEW t \in Threads, StartCompare(t) PROVE SpawnInv'
  BY <1>11 DEF StartCompare
<1>12. ASSUME NEW t \in Threads, StartSkip(t) PROVE SpawnInv'
  BY <1>12 DEF StartSkip
<1>13. ASSUME NEW t \in Threads, StartPrepare(t) PROVE SpawnInv'
  BY <1>13 DEF StartPrepare
<1>14. ASSUME NEW t \in Threads, StartInstall(t) PROVE SpawnInv'
  BY <1>14 DEF StartInstall, BeginStop, AfterWait
<1>15. ASSUME NEW t \in Threads, StartSpawn(t) PROVE SpawnInv'
  BY <1>15 DEF StartSpawn
<1>16. ASSUME NEW t \in Threads, StartSpawnFailed(t) PROVE SpawnInv'
  BY <1>16 DEF StartSpawnFailed
<1>17. ASSUME NEW t \in Threads, StartAwaitReady(t) PROVE SpawnInv'
  BY <1>17 DEF StartAwaitReady
<1>18. ASSUME NEW t \in Threads, StartAwaitFailed(t) PROVE SpawnInv'
  BY <1>18 DEF StartAwaitFailed
<1>19. ASSUME NEW t \in Threads, StartOnline(t) PROVE SpawnInv'
  BY <1>19 DEF StartOnline
<1>20. ASSUME NEW t \in Threads, StartRemember(t) PROVE SpawnInv'
  BY <1>20 DEF StartRemember
<1>21. ASSUME NEW t \in Threads, StartSave(t) PROVE SpawnInv'
  BY <1>21 DEF StartSave
<1>22. ASSUME NEW t \in Threads, StartAbort(t) PROVE SpawnInv'
  BY <1>22 DEF StartAbort, BeginStop, AfterWait
<1>23. ASSUME NEW t \in Threads, StartFinish(t) PROVE SpawnInv'
  BY <1>23 DEF StartFinish
<1>24. ASSUME NEW t \in Threads, StartUnlock(t) PROVE SpawnInv'
  BY <1>24 DEF StartUnlock
<1>25. ASSUME NEW t \in Threads, StopLock(t) PROVE SpawnInv'
  BY <1>25 DEF StopLock
<1>26. ASSUME NEW t \in Threads, StopFlush(t) PROVE SpawnInv'
  BY <1>26 DEF StopFlush
<1>27. ASSUME NEW t \in Threads, StopBegin(t) PROVE SpawnInv'
  BY <1>27 DEF StopBegin, BeginStop, AfterWait
<1>28. ASSUME NEW t \in Threads, StopForget(t) PROVE SpawnInv'
  BY <1>28 DEF StopForget
<1>29. ASSUME NEW t \in Threads, StopUnlock(t) PROVE SpawnInv'
  BY <1>29 DEF StopUnlock
<1>30. ASSUME NEW t \in Threads, WaitReaped(t) PROVE SpawnInv'
  BY <1>30 DEF WaitReaped, AfterWait
<1>31. ASSUME NEW t \in Threads, WaitKill(t) PROVE SpawnInv'
  BY <1>31 DEF WaitKill
<1>32. ASSUME NEW t \in Threads, WaitTimeout(t) PROVE SpawnInv'
  BY <1>32 DEF WaitTimeout, AfterWait
<1>33. ASSUME NEW t \in Threads, HealthWrite(t) PROVE SpawnInv'
  BY <1>33 DEF HealthWrite
<1>34. ASSUME NEW c \in Cores, CoreServe(c) PROVE SpawnInv'
  BY <1>34 DEF CoreServe
<1>35. ASSUME NEW c \in Cores, CoreExit(c) PROVE SpawnInv'
  BY <1>35 DEF CoreExit
<1>36. ASSUME NEW c \in Cores, MonitorReap(c) PROVE SpawnInv'
  BY <1>36 DEF MonitorReap
<1>37. ASSUME NEW c \in Cores, MonitorClear(c) PROVE SpawnInv'
  BY <1>37 DEF MonitorClear
<1>38. ASSUME RestoreLoad PROVE SpawnInv'
  BY <1>38, RestoreShape
<1>39. ASSUME RestoreCheck PROVE SpawnInv'
  BY <1>39, RestoreShape
<1>40. ASSUME RestoreRetry PROVE SpawnInv'
  BY <1>40 DEF RestoreRetry
<1>41. ASSUME RestoreCancel PROVE SpawnInv'
  BY <1>41 DEF RestoreCancel, RestoreEnd
<1>42. ASSUME Signal PROVE SpawnInv'
  BY <1>42 DEF Signal
<1>43. ASSUME MainStop PROVE SpawnInv'
  BY <1>43 DEF MainStop
<1>44. ASSUME MainExit PROVE SpawnInv'
  BY <1>44 DEF MainExit, Halt
<1>45. ASSUME Crash PROVE SpawnInv'
  BY <1>45 DEF Crash, Halt
<1>46. ASSUME Boot PROVE SpawnInv'
  BY <1>46, BootedType DEF Boot, NoCores
<1>47. CASE UNCHANGED vars
  BY <1>47 DEF vars
<1> QED
  BY <1>1, <1>2, <1>3, <1>4, <1>5, <1>6, <1>7, <1>8, <1>9, <1>10, <1>11,
     <1>12, <1>13, <1>14, <1>15, <1>16, <1>17, <1>18, <1>19, <1>20, <1>21,
     <1>22, <1>23, <1>24, <1>25, <1>26, <1>27, <1>28, <1>29, <1>30, <1>31,
     <1>32, <1>33, <1>34, <1>35, <1>36, <1>37, <1>38, <1>39, <1>40, <1>41,
     <1>42, <1>43, <1>44, <1>45, <1>46, <1>47
  DEF Next, Request, ThreadStep, StartStep, StopStep, MonitorStep, RestoreStep

\* Every step keeps the invariant of the agent that is down.
LEMMA DownNext == TypeOK /\ DownInv /\ [Next]_vars => DownInv'
<1> SUFFICES ASSUME TypeOK, DownInv, [Next]_vars PROVE DownInv'
  OBVIOUS
<1>a. Restorer \in Threads /\ Main \in Threads /\ Callers \subseteq Threads
  BY DEF Threads
<1> USE <1>a, NoneAssumption, ThreadsAssumption
    DEF TypeOK, shared, cores, Goto, AfterStart, AfterStop, Held, InStart, InStop, Waiting,
        DownInv, Running
<1>1. ASSUME NEW t \in Callers, NEW r \in Requests, NEW force \in BOOLEAN,
             StartCall(t, r, force)
      PROVE  DownInv'
  BY <1>1 DEF StartCall
<1>2. ASSUME NEW t \in Callers, StopCall(t) PROVE DownInv'
  BY <1>2 DEF StopCall
<1>3. ASSUME NEW t \in Callers, StopIfOnline(t) PROVE DownInv'
  BY <1>3 DEF StopIfOnline
<1>4. ASSUME NEW t \in Callers, HealthRead(t) PROVE DownInv'
  BY <1>4 DEF HealthRead
<1>5. ASSUME NEW t \in Threads, StartReject(t) PROVE DownInv'
  BY <1>5 DEF StartReject
<1>6. ASSUME NEW t \in Threads, StartLock(t) PROVE DownInv'
  BY <1>6 DEF StartLock
<1>7. ASSUME NEW t \in Threads, StartMark(t) PROVE DownInv'
  BY <1>7 DEF StartMark
<1>8. ASSUME NEW t \in Threads, StartRead(t) PROVE DownInv'
  BY <1>8 DEF StartRead
<1>9. ASSUME NEW t \in Threads, StartPingOk(t) PROVE DownInv'
  BY <1>9 DEF StartPingOk
<1>10. ASSUME NEW t \in Threads, StartPingFailed(t) PROVE DownInv'
  BY <1>10 DEF StartPingFailed
<1>11. ASSUME NEW t \in Threads, StartCompare(t) PROVE DownInv'
  BY <1>11 DEF StartCompare
<1>12. ASSUME NEW t \in Threads, StartSkip(t) PROVE DownInv'
  BY <1>12 DEF StartSkip
<1>13. ASSUME NEW t \in Threads, StartPrepare(t) PROVE DownInv'
  BY <1>13 DEF StartPrepare
<1>14. ASSUME NEW t \in Threads, StartInstall(t) PROVE DownInv'
  BY <1>14 DEF StartInstall, BeginStop, AfterWait
<1>15. ASSUME NEW t \in Threads, StartSpawn(t) PROVE DownInv'
  BY <1>15 DEF StartSpawn
<1>16. ASSUME NEW t \in Threads, StartSpawnFailed(t) PROVE DownInv'
  BY <1>16 DEF StartSpawnFailed
<1>17. ASSUME NEW t \in Threads, StartAwaitReady(t) PROVE DownInv'
  BY <1>17 DEF StartAwaitReady
<1>18. ASSUME NEW t \in Threads, StartAwaitFailed(t) PROVE DownInv'
  BY <1>18 DEF StartAwaitFailed
<1>19. ASSUME NEW t \in Threads, StartOnline(t) PROVE DownInv'
  BY <1>19 DEF StartOnline
<1>20. ASSUME NEW t \in Threads, StartRemember(t) PROVE DownInv'
  BY <1>20 DEF StartRemember
<1>21. ASSUME NEW t \in Threads, StartSave(t) PROVE DownInv'
  BY <1>21 DEF StartSave
<1>22. ASSUME NEW t \in Threads, StartAbort(t) PROVE DownInv'
  BY <1>22 DEF StartAbort, BeginStop, AfterWait
<1>23. ASSUME NEW t \in Threads, StartFinish(t) PROVE DownInv'
  BY <1>23 DEF StartFinish
<1>24. ASSUME NEW t \in Threads, StartUnlock(t) PROVE DownInv'
  BY <1>24 DEF StartUnlock
<1>25. ASSUME NEW t \in Threads, StopLock(t) PROVE DownInv'
  BY <1>25 DEF StopLock
<1>26. ASSUME NEW t \in Threads, StopFlush(t) PROVE DownInv'
  BY <1>26 DEF StopFlush
<1>27. ASSUME NEW t \in Threads, StopBegin(t) PROVE DownInv'
  BY <1>27 DEF StopBegin, BeginStop, AfterWait
<1>28. ASSUME NEW t \in Threads, StopForget(t) PROVE DownInv'
  BY <1>28 DEF StopForget
<1>29. ASSUME NEW t \in Threads, StopUnlock(t) PROVE DownInv'
  BY <1>29 DEF StopUnlock
<1>30. ASSUME NEW t \in Threads, WaitReaped(t) PROVE DownInv'
  BY <1>30 DEF WaitReaped, AfterWait
<1>31. ASSUME NEW t \in Threads, WaitKill(t) PROVE DownInv'
  BY <1>31 DEF WaitKill
<1>32. ASSUME NEW t \in Threads, WaitTimeout(t) PROVE DownInv'
  BY <1>32 DEF WaitTimeout, AfterWait
<1>33. ASSUME NEW t \in Threads, HealthWrite(t) PROVE DownInv'
  BY <1>33 DEF HealthWrite
<1>34. ASSUME NEW c \in Cores, CoreServe(c) PROVE DownInv'
  BY <1>34 DEF CoreServe
<1>35. ASSUME NEW c \in Cores, CoreExit(c) PROVE DownInv'
  BY <1>35 DEF CoreExit
<1>36. ASSUME NEW c \in Cores, MonitorReap(c) PROVE DownInv'
  BY <1>36 DEF MonitorReap
<1>37. ASSUME NEW c \in Cores, MonitorClear(c) PROVE DownInv'
  BY <1>37 DEF MonitorClear
<1>38. ASSUME RestoreLoad PROVE DownInv'
  BY <1>38, RestoreShape DEF RestoreLoad
<1>39. ASSUME RestoreCheck PROVE DownInv'
  BY <1>39, RestoreShape DEF RestoreCheck
<1>40. ASSUME RestoreRetry PROVE DownInv'
  BY <1>40 DEF RestoreRetry
<1>41. ASSUME RestoreCancel PROVE DownInv'
  BY <1>41 DEF RestoreCancel, RestoreEnd
<1>42. ASSUME Signal PROVE DownInv'
  BY <1>42 DEF Signal
<1>43. ASSUME MainStop PROVE DownInv'
  BY <1>43 DEF MainStop
<1>44. ASSUME MainExit PROVE DownInv'
  BY <1>44 DEF MainExit, Halt
<1>45. ASSUME Crash PROVE DownInv'
  BY <1>45 DEF Crash, Halt
<1>46. ASSUME Boot PROVE DownInv'
  BY <1>46, BootedType DEF Boot, NoCores
<1>47. CASE UNCHANGED vars
  BY <1>47 DEF vars
<1> QED
  BY <1>1, <1>2, <1>3, <1>4, <1>5, <1>6, <1>7, <1>8, <1>9, <1>10, <1>11,
     <1>12, <1>13, <1>14, <1>15, <1>16, <1>17, <1>18, <1>19, <1>20, <1>21,
     <1>22, <1>23, <1>24, <1>25, <1>26, <1>27, <1>28, <1>29, <1>30, <1>31,
     <1>32, <1>33, <1>34, <1>35, <1>36, <1>37, <1>38, <1>39, <1>40, <1>41,
     <1>42, <1>43, <1>44, <1>45, <1>46, <1>47
  DEF Next, Request, ThreadStep, StartStep, StopStep, MonitorStep, RestoreStep

\* Every step keeps the invariant of the cores.
LEMMA CoreNext == TypeOK /\ MuInv /\ SpawnInv /\ DownInv /\ CoreInv /\ [Next]_vars => CoreInv'
<1> SUFFICES ASSUME TypeOK, MuInv, SpawnInv, DownInv, CoreInv, [Next]_vars PROVE CoreInv'
  OBVIOUS
<1>a. Restorer \in Threads /\ Main \in Threads /\ Callers \subseteq Threads
  BY DEF Threads
<1> USE <1>a, NoneAssumption, ThreadsAssumption
    DEF TypeOK, shared, cores, Goto, AfterStart, AfterStop, Held, InStart, InStop, Waiting,
        MuInv, SpawnInv, DownInv, CoreInv, Running, Live
<1>1. ASSUME NEW t \in Callers, NEW r \in Requests, NEW force \in BOOLEAN,
             StartCall(t, r, force)
      PROVE  CoreInv'
  BY <1>1 DEF StartCall
<1>2. ASSUME NEW t \in Callers, StopCall(t) PROVE CoreInv'
  BY <1>2 DEF StopCall
<1>3. ASSUME NEW t \in Callers, StopIfOnline(t) PROVE CoreInv'
  BY <1>3 DEF StopIfOnline
<1>4. ASSUME NEW t \in Callers, HealthRead(t) PROVE CoreInv'
  BY <1>4 DEF HealthRead
<1>5. ASSUME NEW t \in Threads, StartReject(t) PROVE CoreInv'
  BY <1>5 DEF StartReject
<1>6. ASSUME NEW t \in Threads, StartLock(t) PROVE CoreInv'
  BY <1>6 DEF StartLock
<1>7. ASSUME NEW t \in Threads, StartMark(t) PROVE CoreInv'
  BY <1>7 DEF StartMark
<1>8. ASSUME NEW t \in Threads, StartRead(t) PROVE CoreInv'
  BY <1>8 DEF StartRead
<1>9. ASSUME NEW t \in Threads, StartPingOk(t) PROVE CoreInv'
  BY <1>9 DEF StartPingOk
<1>10. ASSUME NEW t \in Threads, StartPingFailed(t) PROVE CoreInv'
  BY <1>10 DEF StartPingFailed
<1>11. ASSUME NEW t \in Threads, StartCompare(t) PROVE CoreInv'
  BY <1>11 DEF StartCompare
<1>12. ASSUME NEW t \in Threads, StartSkip(t) PROVE CoreInv'
  BY <1>12 DEF StartSkip
<1>13. ASSUME NEW t \in Threads, StartPrepare(t) PROVE CoreInv'
  BY <1>13 DEF StartPrepare
<1>14. ASSUME NEW t \in Threads, StartInstall(t) PROVE CoreInv'
  BY <1>14 DEF StartInstall, BeginStop, AfterWait
<1>15. ASSUME NEW t \in Threads, StartSpawn(t) PROVE CoreInv'
  BY <1>15 DEF StartSpawn
<1>16. ASSUME NEW t \in Threads, StartSpawnFailed(t) PROVE CoreInv'
  BY <1>16 DEF StartSpawnFailed
<1>17. ASSUME NEW t \in Threads, StartAwaitReady(t) PROVE CoreInv'
  BY <1>17 DEF StartAwaitReady
<1>18. ASSUME NEW t \in Threads, StartAwaitFailed(t) PROVE CoreInv'
  BY <1>18 DEF StartAwaitFailed
<1>19. ASSUME NEW t \in Threads, StartOnline(t) PROVE CoreInv'
  BY <1>19 DEF StartOnline
<1>20. ASSUME NEW t \in Threads, StartRemember(t) PROVE CoreInv'
  BY <1>20 DEF StartRemember
<1>21. ASSUME NEW t \in Threads, StartSave(t) PROVE CoreInv'
  BY <1>21 DEF StartSave
<1>22. ASSUME NEW t \in Threads, StartAbort(t) PROVE CoreInv'
  BY <1>22 DEF StartAbort, BeginStop, AfterWait
<1>23. ASSUME NEW t \in Threads, StartFinish(t) PROVE CoreInv'
  BY <1>23 DEF StartFinish
<1>24. ASSUME NEW t \in Threads, StartUnlock(t) PROVE CoreInv'
  BY <1>24 DEF StartUnlock
<1>25. ASSUME NEW t \in Threads, StopLock(t) PROVE CoreInv'
  BY <1>25 DEF StopLock
<1>26. ASSUME NEW t \in Threads, StopFlush(t) PROVE CoreInv'
  BY <1>26 DEF StopFlush
<1>27. ASSUME NEW t \in Threads, StopBegin(t) PROVE CoreInv'
  BY <1>27 DEF StopBegin, BeginStop, AfterWait
<1>28. ASSUME NEW t \in Threads, StopForget(t) PROVE CoreInv'
  BY <1>28 DEF StopForget
<1>29. ASSUME NEW t \in Threads, StopUnlock(t) PROVE CoreInv'
  BY <1>29 DEF StopUnlock
<1>30. ASSUME NEW t \in Threads, WaitReaped(t) PROVE CoreInv'
  BY <1>30 DEF WaitReaped, AfterWait
<1>31. ASSUME NEW t \in Threads, WaitKill(t) PROVE CoreInv'
  BY <1>31 DEF WaitKill
<1>32. ASSUME NEW t \in Threads, WaitTimeout(t) PROVE CoreInv'
  BY <1>32 DEF WaitTimeout, AfterWait
<1>33. ASSUME NEW t \in Threads, HealthWrite(t) PROVE CoreInv'
  BY <1>33 DEF HealthWrite
<1>34. ASSUME NEW c \in Cores, CoreServe(c) PROVE CoreInv'
  BY <1>34 DEF CoreServe
<1>35. ASSUME NEW c \in Cores, CoreExit(c) PROVE CoreInv'
  BY <1>35 DEF CoreExit
<1>36. ASSUME NEW c \in Cores, MonitorReap(c) PROVE CoreInv'
  BY <1>36 DEF MonitorReap
<1>37. ASSUME NEW c \in Cores, MonitorClear(c) PROVE CoreInv'
  BY <1>37 DEF MonitorClear
<1>38. ASSUME RestoreLoad PROVE CoreInv'
  BY <1>38, RestoreShape DEF RestoreLoad
<1>39. ASSUME RestoreCheck PROVE CoreInv'
  BY <1>39, RestoreShape DEF RestoreCheck
<1>40. ASSUME RestoreRetry PROVE CoreInv'
  BY <1>40 DEF RestoreRetry
<1>41. ASSUME RestoreCancel PROVE CoreInv'
  BY <1>41 DEF RestoreCancel, RestoreEnd
<1>42. ASSUME Signal PROVE CoreInv'
  BY <1>42 DEF Signal
<1>43. ASSUME MainStop PROVE CoreInv'
  BY <1>43 DEF MainStop
<1>44. ASSUME MainExit PROVE CoreInv'
  BY <1>44 DEF MainExit, Halt
<1>45. ASSUME Crash PROVE CoreInv'
  BY <1>45 DEF Crash, Halt
<1>46. ASSUME Boot PROVE CoreInv'
  BY <1>46, BootedType DEF Boot, NoCores
<1>47. CASE UNCHANGED vars
  BY <1>47 DEF vars
<1> QED
  BY <1>1, <1>2, <1>3, <1>4, <1>5, <1>6, <1>7, <1>8, <1>9, <1>10, <1>11,
     <1>12, <1>13, <1>14, <1>15, <1>16, <1>17, <1>18, <1>19, <1>20, <1>21,
     <1>22, <1>23, <1>24, <1>25, <1>26, <1>27, <1>28, <1>29, <1>30, <1>31,
     <1>32, <1>33, <1>34, <1>35, <1>36, <1>37, <1>38, <1>39, <1>40, <1>41,
     <1>42, <1>43, <1>44, <1>45, <1>46, <1>47
  DEF Next, Request, ThreadStep, StartStep, StopStep, MonitorStep, RestoreStep

\* Every step keeps the invariant of the stopping threads.
LEMMA StopNext == TypeOK /\ LockInv /\ MuInv /\ DownInv /\ CoreInv /\ StopInv /\ [Next]_vars => StopInv'
<1> SUFFICES ASSUME TypeOK, LockInv, MuInv, DownInv, CoreInv, StopInv, [Next]_vars PROVE StopInv'
  OBVIOUS
<1>a. Restorer \in Threads /\ Main \in Threads /\ Callers \subseteq Threads
  BY DEF Threads
<1> USE <1>a, NoneAssumption, ThreadsAssumption
    DEF TypeOK, shared, cores, Goto, AfterStart, AfterStop, Held, InStart, InStop, Waiting,
        LockInv, MuInv, DownInv, CoreInv, StopInv, Running, Live, Alive
<1>1. ASSUME NEW t \in Callers, NEW r \in Requests, NEW force \in BOOLEAN,
             StartCall(t, r, force)
      PROVE  StopInv'
  BY <1>1 DEF StartCall
<1>2. ASSUME NEW t \in Callers, StopCall(t) PROVE StopInv'
  BY <1>2 DEF StopCall
<1>3. ASSUME NEW t \in Callers, StopIfOnline(t) PROVE StopInv'
  BY <1>3 DEF StopIfOnline
<1>4. ASSUME NEW t \in Callers, HealthRead(t) PROVE StopInv'
  BY <1>4 DEF HealthRead
<1>5. ASSUME NEW t \in Threads, StartReject(t) PROVE StopInv'
  BY <1>5 DEF StartReject
<1>6. ASSUME NEW t \in Threads, StartLock(t) PROVE StopInv'
  BY <1>6 DEF StartLock
<1>7. ASSUME NEW t \in Threads, StartMark(t) PROVE StopInv'
  BY <1>7 DEF StartMark
<1>8. ASSUME NEW t \in Threads, StartRead(t) PROVE StopInv'
  BY <1>8 DEF StartRead
<1>9. ASSUME NEW t \in Threads, StartPingOk(t) PROVE StopInv'
  BY <1>9 DEF StartPingOk
<1>10. ASSUME NEW t \in Threads, StartPingFailed(t) PROVE StopInv'
  BY <1>10 DEF StartPingFailed
<1>11. ASSUME NEW t \in Threads, StartCompare(t) PROVE StopInv'
  BY <1>11 DEF StartCompare
<1>12. ASSUME NEW t \in Threads, StartSkip(t) PROVE StopInv'
  BY <1>12 DEF StartSkip
<1>13. ASSUME NEW t \in Threads, StartPrepare(t) PROVE StopInv'
  BY <1>13 DEF StartPrepare
<1>14. ASSUME NEW t \in Threads, StartInstall(t) PROVE StopInv'
  BY <1>14 DEF StartInstall, BeginStop, AfterWait
<1>15. ASSUME NEW t \in Threads, StartSpawn(t) PROVE StopInv'
  BY <1>15 DEF StartSpawn
<1>16. ASSUME NEW t \in Threads, StartSpawnFailed(t) PROVE StopInv'
  BY <1>16 DEF StartSpawnFailed
<1>17. ASSUME NEW t \in Threads, StartAwaitReady(t) PROVE StopInv'
  BY <1>17 DEF StartAwaitReady
<1>18. ASSUME NEW t \in Threads, StartAwaitFailed(t) PROVE StopInv'
  BY <1>18 DEF StartAwaitFailed
<1>19. ASSUME NEW t \in Threads, StartOnline(t) PROVE StopInv'
  BY <1>19 DEF StartOnline
<1>20. ASSUME NEW t \in Threads, StartRemember(t) PROVE StopInv'
  BY <1>20 DEF StartRemember
<1>21. ASSUME NEW t \in Threads, StartSave(t) PROVE StopInv'
  BY <1>21 DEF StartSave
<1>22. ASSUME NEW t \in Threads, StartAbort(t) PROVE StopInv'
  BY <1>22 DEF StartAbort, BeginStop, AfterWait
<1>23. ASSUME NEW t \in Threads, StartFinish(t) PROVE StopInv'
  BY <1>23 DEF StartFinish
<1>24. ASSUME NEW t \in Threads, StartUnlock(t) PROVE StopInv'
  BY <1>24 DEF StartUnlock
<1>25. ASSUME NEW t \in Threads, StopLock(t) PROVE StopInv'
  BY <1>25 DEF StopLock
<1>26. ASSUME NEW t \in Threads, StopFlush(t) PROVE StopInv'
  BY <1>26 DEF StopFlush
<1>27. ASSUME NEW t \in Threads, StopBegin(t) PROVE StopInv'
  BY <1>27 DEF StopBegin, BeginStop, AfterWait
<1>28. ASSUME NEW t \in Threads, StopForget(t) PROVE StopInv'
  BY <1>28 DEF StopForget
<1>29. ASSUME NEW t \in Threads, StopUnlock(t) PROVE StopInv'
  BY <1>29 DEF StopUnlock
<1>30. ASSUME NEW t \in Threads, WaitReaped(t) PROVE StopInv'
  BY <1>30 DEF WaitReaped, AfterWait
<1>31. ASSUME NEW t \in Threads, WaitKill(t) PROVE StopInv'
  BY <1>31 DEF WaitKill
<1>32. ASSUME NEW t \in Threads, WaitTimeout(t) PROVE StopInv'
  BY <1>32 DEF WaitTimeout, AfterWait
<1>33. ASSUME NEW t \in Threads, HealthWrite(t) PROVE StopInv'
  BY <1>33 DEF HealthWrite
<1>34. ASSUME NEW c \in Cores, CoreServe(c) PROVE StopInv'
  BY <1>34 DEF CoreServe
<1>35. ASSUME NEW c \in Cores, CoreExit(c) PROVE StopInv'
  BY <1>35 DEF CoreExit
<1>36. ASSUME NEW c \in Cores, MonitorReap(c) PROVE StopInv'
  BY <1>36 DEF MonitorReap
<1>37. ASSUME NEW c \in Cores, MonitorClear(c) PROVE StopInv'
  BY <1>37 DEF MonitorClear
<1>38. ASSUME RestoreLoad PROVE StopInv'
  BY <1>38, RestoreShape
<1>39. ASSUME RestoreCheck PROVE StopInv'
  BY <1>39, RestoreShape
<1>40. ASSUME RestoreRetry PROVE StopInv'
  BY <1>40 DEF RestoreRetry
<1>41. ASSUME RestoreCancel PROVE StopInv'
  BY <1>41 DEF RestoreCancel, RestoreEnd
<1>42. ASSUME Signal PROVE StopInv'
  BY <1>42 DEF Signal
<1>43. ASSUME MainStop PROVE StopInv'
  BY <1>43 DEF MainStop
<1>44. ASSUME MainExit PROVE StopInv'
  BY <1>44 DEF MainExit, Halt
<1>45. ASSUME Crash PROVE StopInv'
  BY <1>45 DEF Crash, Halt
<1>46. ASSUME Boot PROVE StopInv'
  BY <1>46, BootedType DEF Boot, NoCores
<1>47. CASE UNCHANGED vars
  BY <1>47 DEF vars
<1> QED
  BY <1>1, <1>2, <1>3, <1>4, <1>5, <1>6, <1>7, <1>8, <1>9, <1>10, <1>11,
     <1>12, <1>13, <1>14, <1>15, <1>16, <1>17, <1>18, <1>19, <1>20, <1>21,
     <1>22, <1>23, <1>24, <1>25, <1>26, <1>27, <1>28, <1>29, <1>30, <1>31,
     <1>32, <1>33, <1>34, <1>35, <1>36, <1>37, <1>38, <1>39, <1>40, <1>41,
     <1>42, <1>43, <1>44, <1>45, <1>46, <1>47
  DEF Next, Request, ThreadStep, StartStep, StopStep, MonitorStep, RestoreStep

\* Every step keeps the invariant of the retries.
LEMMA RetryNext == TypeOK /\ RetryInv /\ [Next]_vars => RetryInv'
<1> SUFFICES ASSUME TypeOK, RetryInv, [Next]_vars PROVE RetryInv'
  OBVIOUS
<1>a. Restorer \in Threads /\ Main \in Threads /\ Callers \subseteq Threads
  BY DEF Threads
<1> USE <1>a, NoneAssumption, ThreadsAssumption
    DEF TypeOK, shared, cores, Goto, AfterStart, AfterStop, Held, InStart, InStop, Waiting,
        RetryInv
<1>1. ASSUME NEW t \in Callers, NEW r \in Requests, NEW force \in BOOLEAN,
             StartCall(t, r, force)
      PROVE  RetryInv'
  BY <1>1 DEF StartCall
<1>2. ASSUME NEW t \in Callers, StopCall(t) PROVE RetryInv'
  BY <1>2 DEF StopCall
<1>3. ASSUME NEW t \in Callers, StopIfOnline(t) PROVE RetryInv'
  BY <1>3 DEF StopIfOnline
<1>4. ASSUME NEW t \in Callers, HealthRead(t) PROVE RetryInv'
  BY <1>4 DEF HealthRead
<1>5. ASSUME NEW t \in Threads, StartReject(t) PROVE RetryInv'
  BY <1>5 DEF StartReject
<1>6. ASSUME NEW t \in Threads, StartLock(t) PROVE RetryInv'
  BY <1>6 DEF StartLock
<1>7. ASSUME NEW t \in Threads, StartMark(t) PROVE RetryInv'
  BY <1>7 DEF StartMark
<1>8. ASSUME NEW t \in Threads, StartRead(t) PROVE RetryInv'
  BY <1>8 DEF StartRead
<1>9. ASSUME NEW t \in Threads, StartPingOk(t) PROVE RetryInv'
  BY <1>9 DEF StartPingOk
<1>10. ASSUME NEW t \in Threads, StartPingFailed(t) PROVE RetryInv'
  BY <1>10 DEF StartPingFailed
<1>11. ASSUME NEW t \in Threads, StartCompare(t) PROVE RetryInv'
  BY <1>11 DEF StartCompare
<1>12. ASSUME NEW t \in Threads, StartSkip(t) PROVE RetryInv'
  BY <1>12 DEF StartSkip
<1>13. ASSUME NEW t \in Threads, StartPrepare(t) PROVE RetryInv'
  BY <1>13 DEF StartPrepare
<1>14. ASSUME NEW t \in Threads, StartInstall(t) PROVE RetryInv'
  BY <1>14 DEF StartInstall, BeginStop, AfterWait
<1>15. ASSUME NEW t \in Threads, StartSpawn(t) PROVE RetryInv'
  BY <1>15 DEF StartSpawn
<1>16. ASSUME NEW t \in Threads, StartSpawnFailed(t) PROVE RetryInv'
  BY <1>16 DEF StartSpawnFailed
<1>17. ASSUME NEW t \in Threads, StartAwaitReady(t) PROVE RetryInv'
  BY <1>17 DEF StartAwaitReady
<1>18. ASSUME NEW t \in Threads, StartAwaitFailed(t) PROVE RetryInv'
  BY <1>18 DEF StartAwaitFailed
<1>19. ASSUME NEW t \in Threads, StartOnline(t) PROVE RetryInv'
  BY <1>19 DEF StartOnline
<1>20. ASSUME NEW t \in Threads, StartRemember(t) PROVE RetryInv'
  BY <1>20 DEF StartRemember
<1>21. ASSUME NEW t \in Threads, StartSave(t) PROVE RetryInv'
  BY <1>21 DEF StartSave
<1>22. ASSUME NEW t \in Threads, StartAbort(t) PROVE RetryInv'
  BY <1>22 DEF StartAbort, BeginStop, AfterWait
<1>23. ASSUME NEW t \in Threads, StartFinish(t) PROVE RetryInv'
  BY <1>23 DEF StartFinish
<1>24. ASSUME NEW t \in Threads, StartUnlock(t) PROVE RetryInv'
  BY <1>24 DEF StartUnlock
<1>25. ASSUME NEW t \in Threads, StopLock(t) PROVE RetryInv'
  BY <1>25 DEF StopLock
<1>26. ASSUME NEW t \in Threads, StopFlush(t) PROVE RetryInv'
  BY <1>26 DEF StopFlush
<1>27. ASSUME NEW t \in Threads, StopBegin(t) PROVE RetryInv'
  BY <1>27 DEF StopBegin, BeginStop, AfterWait
<1>28. ASSUME NEW t \in Threads, StopForget(t) PROVE RetryInv'
  BY <1>28 DEF StopForget
<1>29. ASSUME NEW t \in Threads, StopUnlock(t) PROVE RetryInv'
  BY <1>29 DEF StopUnlock
<1>30. ASSUME NEW t \in Threads, WaitReaped(t) PROVE RetryInv'
  BY <1>30 DEF WaitReaped, AfterWait
<1>31. ASSUME NEW t \in Threads, WaitKill(t) PROVE RetryInv'
  BY <1>31 DEF WaitKill
<1>32. ASSUME NEW t \in Threads, WaitTimeout(t) PROVE RetryInv'
  BY <1>32 DEF WaitTimeout, AfterWait
<1>33. ASSUME NEW t \in Threads, HealthWrite(t) PROVE RetryInv'
  BY <1>33 DEF HealthWrite
<1>34. ASSUME NEW c \in Cores, CoreServe(c) PROVE RetryInv'
  BY <1>34 DEF CoreServe
<1>35. ASSUME NEW c \in Cores, CoreExit(c) PROVE RetryInv'
  BY <1>35 DEF CoreExit
<1>36. ASSUME NEW c \in Cores, MonitorReap(c) PROVE RetryInv'
  BY <1>36 DEF MonitorReap
<1>37. ASSUME NEW c \in Cores, MonitorClear(c) PROVE RetryInv'
  BY <1>37 DEF MonitorClear
<1>38. ASSUME RestoreLoad PROVE RetryInv'
  <2>1. CASE RestoreEnd
    BY <2>1 DEF RestoreEnd
  <2>2. CASE ~RestoreEnd
    BY <1>38, <2>2 DEF RestoreLoad
  <2> QED
    BY <2>1, <2>2
<1>39. ASSUME RestoreCheck PROVE RetryInv'
  <2>1. CASE RestoreEnd
    BY <2>1 DEF RestoreEnd
  <2>2. CASE ~RestoreEnd
    <3>1. attempt # MaxAttempts /\ attempt' = attempt
      BY <1>39, <2>2 DEF RestoreCheck
    <3> QED
      BY <3>1, MaxAttemptsAssumption
  <2> QED
    BY <2>1, <2>2
<1>40. ASSUME RestoreRetry PROVE RetryInv'
  BY <1>40 DEF RestoreRetry
<1>41. ASSUME RestoreCancel PROVE RetryInv'
  BY <1>41 DEF RestoreCancel, RestoreEnd
<1>42. ASSUME Signal PROVE RetryInv'
  BY <1>42 DEF Signal
<1>43. ASSUME MainStop PROVE RetryInv'
  BY <1>43 DEF MainStop
<1>44. ASSUME MainExit PROVE RetryInv'
  BY <1>44 DEF MainExit, Halt
<1>45. ASSUME Crash PROVE RetryInv'
  BY <1>45 DEF Crash, Halt
<1>46. ASSUME Boot PROVE RetryInv'
  BY <1>46, BootedType DEF Boot, NoCores
<1>47. CASE UNCHANGED vars
  BY <1>47 DEF vars
<1> QED
  BY <1>1, <1>2, <1>3, <1>4, <1>5, <1>6, <1>7, <1>8, <1>9, <1>10, <1>11,
     <1>12, <1>13, <1>14, <1>15, <1>16, <1>17, <1>18, <1>19, <1>20, <1>21,
     <1>22, <1>23, <1>24, <1>25, <1>26, <1>27, <1>28, <1>29, <1>30, <1>31,
     <1>32, <1>33, <1>34, <1>35, <1>36, <1>37, <1>38, <1>39, <1>40, <1>41,
     <1>42, <1>43, <1>44, <1>45, <1>46, <1>47
  DEF Next, Request, ThreadStep, StartStep, StopStep, MonitorStep, RestoreStep


\* The initial state satisfies the inductive invariant.
LEMMA InitIInv == Init => IInv
<1> SUFFICES ASSUME Init PROVE IInv
  OBVIOUS
<1>1. \A t \in Threads : pc[t] \in {"idle", "restore.delay", "main.run"}
  BY BootedType DEF Init
<1>2. Restorer \in Threads
  BY DEF Threads
<1>3. TypeOK
  BY TypeInit
<1>4. RetryInv
  BY <1>1, <1>2 DEF RetryInv
<1>5. LockInv /\ MuInv /\ SpawnInv /\ StopInv
  BY <1>1 DEF LockInv, MuInv, SpawnInv, StopInv, Held, InStart, InStop, Waiting
<1>6. DownInv
  BY DEF DownInv, Init, Running
<1>7. CoreInv
  BY NoneAssumption DEF CoreInv, Init, NoCores, Live
<1> QED
  BY <1>3, <1>4, <1>5, <1>6, <1>7 DEF IInv

\* Every step keeps it.
LEMMA NextIInv == IInv /\ [Next]_vars => IInv'
  BY TypeNext, RetryNext, LockNext, MuNext, SpawnNext, DownNext, CoreNext,
     StopNext DEF IInv

\* The inductive invariant holds in every reachable state.
THEOREM InductiveInvariant == Spec => []IInv
  BY InitIInv, NextIInv, PTL DEF Spec

-----------------------------------------------------------------------------
(* The theorems.                                                           *)

\* Every reachable state is well typed; RestoreOnBoot never counts more than
\* maxAttempts.
THEOREM TypeCorrect == Spec => []TypeOK
<1>1. IInv => TypeOK
  BY DEF IInv
<1> QED
  BY <1>1, InductiveInvariant, PTL

\* However starts, stops, restores, monitors and crashes interleave, the agent
\* never runs two rw-cores and never loses one that runs.
THEOREM OneLiveCoreHolds == Spec => []OneLiveCore
<1>1. IInv => OneLiveCore
  BY DEF IInv, CoreInv, OneLiveCore
<1> QED
  BY <1>1, InductiveInvariant, PTL

\* No step of any thread or monitor drops a process that has not exited.
THEOREM OwnedUntilExitedHolds == Spec => OwnedUntilExited
<1> DEFINE Owned == phase' \in Running /\ process # None /\ process' # process
                      => core[process] = "exited"
<1>1. ASSUME IInv, [Next]_vars PROVE Owned
  <2> USE DEF shared, cores
  <2> SUFFICES ASSUME phase' \in Running, process # None, process' # process
               PROVE  core[process] = "exited"
    OBVIOUS
  <2>1. phase \in Running /\ process \in Cores
    BY <1>1 DEF IInv, DownInv, TypeOK
  <2>2. ASSUME ~Live(process) PROVE core[process] = "exited"
    BY <1>1, <2>1, <2>2 DEF IInv, CoreInv, TypeOK, Live
  <2>3. ASSUME monitor[process] # "waiting" PROVE core[process] = "exited"
    BY <1>1, <2>1, <2>2, <2>3 DEF IInv, CoreInv
  <2>4. ASSUME NEW t \in Threads, StartSpawn(t) PROVE FALSE
    BY <1>1, <2>4 DEF IInv, SpawnInv, StartSpawn
  <2>5. ASSUME NEW t \in Threads, WaitReaped(t) PROVE core[process] = "exited"
    BY <2>3, <2>5 DEF WaitReaped
  <2>6. ASSUME NEW c \in Cores, MonitorClear(c) PROVE core[process] = "exited"
    BY <2>3, <2>6 DEF MonitorClear
  <2>7. ASSUME NEW how \in {"exited", "crashed"}, Halt(how) PROVE FALSE
    BY <2>7 DEF Halt, Running
  <2>8. ASSUME RestoreStep PROVE FALSE
    BY <2>8 DEF RestoreStep, RestoreLoad, RestoreCheck, RestoreRetry, RestoreCancel
  <2>9. ASSUME NEW t \in Callers, Request(t) PROVE FALSE
    BY <2>9 DEF Request, StartCall, StopCall, StopIfOnline, HealthRead
  <2>10. ASSUME NEW t \in Threads, ThreadStep(t), ~StartSpawn(t), ~WaitReaped(t)
         PROVE  FALSE
    BY <2>10 DEF ThreadStep, StartStep, StopStep, StartReject, StartLock,
       StartMark, StartRead, StartPingOk, StartPingFailed, StartCompare,
       StartSkip, StartPrepare, StartInstall, StartSpawnFailed,
       StartAwaitReady, StartAwaitFailed, StartOnline, StartRemember,
       StartSave, StartAbort, StartFinish, StartUnlock, StopLock, StopFlush,
       StopBegin, StopForget, StopUnlock, WaitKill, WaitTimeout, HealthWrite
  <2>11. ASSUME NEW c \in Cores, CoreServe(c) \/ CoreExit(c) \/ MonitorReap(c)
         PROVE  FALSE
    BY <2>11 DEF CoreServe, CoreExit, MonitorReap
  <2>12. ASSUME Signal \/ MainStop \/ Boot \/ UNCHANGED vars PROVE FALSE
    BY <2>12 DEF Signal, MainStop, Boot, vars
  <2> QED
    BY <1>1, <2>4, <2>5, <2>6, <2>7, <2>8, <2>9, <2>10, <2>11, <2>12
    DEF Next, MainExit, Crash, MonitorStep
<1>2. IInv /\ [Next]_vars => [Owned]_vars
  BY <1>1
<1> QED
  BY <1>2, InductiveInvariant, PTL DEF Spec, OwnedUntilExited

\* A stop that returns leaves nothing running, even one that had to wait for a
\* start in progress and then gave up on the core.
THEOREM StopLeavesNothingRunningHolds == Spec => []StopLeavesNothingRunning
<1>1. IInv => StopLeavesNothingRunning
  BY DEF IInv, StopInv, StopLeavesNothingRunning
<1> QED
  BY <1>1, InductiveInvariant, PTL
==============================================================================
