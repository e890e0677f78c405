--------------------------- MODULE XrayMemoryProofs ---------------------------
(***************************************************************************)
(* What the agent remembers, proved for every set of handlers, requests    *)
(* and cores: the mark of a start in progress is owned, the stored         *)
(* configuration is the one the core serves and the one that is restored   *)
(* after a reboot, the file follows it, and a disabled node stays so.      *)
(* All of it rests on the inductive invariant of XrayLifecycleProofs.      *)
(***************************************************************************)
EXTENDS XrayLifecycleProofs

\* The main goroutine rests until it is told to shut down; it never starts a core.
MainInv ==
  /\ phase = "up" => pc[Main] = "main.run"
  /\ pc[Main] \in {"main.run", "main.drain", "main.exit", "stop.enter", "off"}
                   \cup InStop \cup Waiting
  /\ pc[Main] \in Waiting => site[Main] = "stop"

\* A thread whose Start has set startProcessing and not yet reset it.
Starting(t) ==
  \/ pc[t] \in InStart \ {"start.mark", "start.unlock"}
  \/ pc[t] \in Waiting /\ site[t] # "stop"

\* startProcessing is set by the owner of the lock, on its way to reset it.
FlagInv == startProcessing => \E t \in Threads : lifecycleMu = t /\ Starting(t)

\* Whoever is in Start, or will be again, was given a request.
CallInv ==
  \A t \in Threads :
    \/ pc[t] \in InStart \cup {"start.enter", "restore.check", "restore.wait"}
    \/ pc[t] \in Waiting /\ site[t] # "stop"
    => call[t].req \in Requests

\* From StartInstall on, the stored configuration is that of the start.
ConfigInv ==
  \A t \in Threads :
    \/ pc[t] \in {"start.spawn", "start.await", "start.abort", "start.online",
                  "start.remember", "start.save"}
    \/ pc[t] \in Waiting /\ site[t] = "install"
    => currentConfig = call[t].req

\* The owned core boots only while a start waits for it, or it is being stopped.
BootInv ==
  process # None /\ core[process] = "booting"
    => \E t \in Threads : pc[t] \in {"start.await", "start.abort"} \cup Waiting

\* A start that is about to keep the core has compared the hashes.
SkipInv ==
  \A t \in Threads : pc[t] = "start.skip"
    => currentConfig # None /\ HashOf[currentConfig] = HashOf[call[t].req]

\* A core that serves and is not about to be stopped has the stored configuration, up
\* to its hashes; unless a start has yet to remember it, it is also the request to
\* restore.
Ending == {"start.abort"} \cup Waiting
Unremembered == {"start.await", "start.online", "start.remember"}
ServeInv ==
  process # None /\ core[process] = "serving" =>
    /\ (\A t \in Threads : pc[t] \notin Ending) =>
         currentConfig # None /\ HashOf[running[process]] = HashOf[currentConfig]
    /\ (\A t \in Threads : pc[t] \notin Ending \cup Unremembered) =>
         lastStartRequest = currentConfig

\* A Panel stop forgets the request before it clears the file.
ForgetInv == \A t \in Threads : pc[t] = "stop.forget" => lastStartRequest = None

\* The file has the remembered request, or StartSave is about to write it.
FileInv ==
  /\ \A t \in Threads : pc[t] = "start.save" => lastStartRequest = call[t].req
  /\ ~DiskFails /\ lastStartRequest # None
     => file = lastStartRequest \/ \E t \in Threads : pc[t] = "start.save"

\* Nothing is left from which a disabled node could come back.
SettledInv ==
  ~DiskFails /\ disabled = "settled" =>
    /\ file = None /\ lastStartRequest = None
    /\ \A c \in Cores : ~Alive(c)
    /\ pc[Restorer] \in {"restore.done", "restore.delay", "off"}
    /\ \A t \in Threads : pc[t] \notin InStart /\ (pc[t] \in Waiting => site[t] = "stop")

\* There is one core at most, also when the agent is down and owns none.
SoleInv == \A c, d \in Cores : Live(c) /\ Live(d) => c = d

\* What RestoreLoad and RestoreCheck change and what they leave alone.
LEMMA RestoreFrame ==
  ASSUME TypeOK, RestoreLoad \/ RestoreCheck
  PROVE  /\ \E label \in {"start.enter", "restore.done", "restore.wait"}, q \in Calls :
              /\ pc' = [pc EXCEPT ![Restorer] = label]
              /\ call' = [call EXCEPT ![Restorer] = q]
              /\ label = "start.enter" => q.req \in Requests /\ file # None
              /\ label = "restore.wait"
                   => q = call[Restorer] /\ pc[Restorer] = "restore.check"
         /\ pc[Restorer] \in {"restore.delay", "restore.check"}
         /\ UNCHANGED <<phase, shared, cores, file, site, disabled>>
<1>a. Restorer \in Threads
  BY DEF Threads
<1>b. NoCall \in Calls /\ call[Restorer] \in Calls
  BY <1>a DEF TypeOK, NoCall, Calls
<1>1. ASSUME RestoreEnd
      PROVE  /\ pc' = [pc EXCEPT ![Restorer] = "restore.done"]
             /\ call' = [call EXCEPT ![Restorer] = NoCall]
  BY <1>1 DEF RestoreEnd, Goto
<1>2. CASE RestoreLoad
  <2>1. \/ /\ file # None
           /\ pc' = [pc EXCEPT ![Restorer] = "start.enter"]
           /\ call' = [call EXCEPT ![Restorer] = StartOf(file, FALSE)]
        \/ RestoreEnd
    BY <1>2 DEF RestoreLoad, Goto
  <2>2. /\ pc[Restorer] = "restore.delay"
        /\ UNCHANGED <<phase, shared, cores, file, site, disabled>>
    BY <1>2 DEF RestoreLoad
  <2>3. file # None => StartOf(file, FALSE) \in Calls /\ StartOf(file, FALSE).req \in Requests
    BY DEF TypeOK, StartOf, Calls
  <2>4. CASE RestoreEnd
    BY <1>1, <1>b, <2>2, <2>4
  <2>5. CASE ~RestoreEnd
    BY <2>1, <2>2, <2>3, <2>5
  <2> QED
    BY <2>4, <2>5
<1>3. CASE RestoreCheck
  <2>1. \/ /\ pc' = [pc EXCEPT ![Restorer] = "restore.wait"]
           /\ call' = [call EXCEPT ![Restorer] = call[Restorer]]
        \/ RestoreEnd
    BY <1>3 DEF RestoreCheck, Goto, TypeOK
  <2>2. /\ pc[Restorer] = "restore.check"
        /\ UNCHANGED <<phase, shared, cores, file, site, disabled>>
    BY <1>3 DEF RestoreCheck
  <2>3. CASE RestoreEnd
    BY <1>1, <1>b, <2>2, <2>3
  <2>4. CASE ~RestoreEnd
    BY <1>b, <2>1, <2>2, <2>4
  <2> QED
    BY <2>3, <2>4
<1> QED
  BY <1>2, <1>3

-----------------------------------------------------------------------------
(* Each part is kept by every step.                                        *)

\* Only the signal moves the main goroutine while the agent is up.
LEMMA MainNext ==
  ASSUME TypeOK, MainInv, [Next]_vars
  PROVE  MainInv'
<1>a. Restorer \in Threads /\ Main \in Threads /\ Callers \subseteq Threads
  BY DEF Threads
<1> USE <1>a, NoneAssumption, ThreadsAssumption
    DEF TypeOK, shared, cores, Goto, AfterStart, AfterStop, Held, InStart, InStop, Waiting, MainInv
<1>1. ASSUME NEW t \in Callers, NEW r \in Requests, NEW force \in BOOLEAN, StartCall(t, r, force)
      PROVE  MainInv'
  BY <1>1 DEF StartCall
<1>2. ASSUME NEW t \in Callers, StopCall(t) PROVE MainInv'
  BY <1>2 DEF StopCall
<1>3. ASSUME NEW t \in Callers, StopIfOnline(t) PROVE MainInv'
  BY <1>3 DEF StopIfOnline
<1>4. ASSUME NEW t \in Callers, HealthRead(t) PROVE MainInv'
  BY <1>4 DEF HealthRead
<1>5. ASSUME NEW t \in Threads, StartReject(t) PROVE MainInv'
  BY <1>5 DEF StartReject
<1>6. ASSUME NEW t \in Threads, StartLock(t) PROVE MainInv'
  BY <1>6 DEF StartLock
<1>7. ASSUME NEW t \in Threads, StartMark(t) PROVE MainInv'
  BY <1>7 DEF StartMark
<1>8. ASSUME NEW t \in Threads, StartRead(t) PROVE MainInv'
  BY <1>8 DEF StartRead
<1>9. ASSUME NEW t \in Threads, StartPingOk(t) PROVE MainInv'
  BY <1>9 DEF StartPingOk
<1>10. ASSUME NEW t \in Threads, StartPingFailed(t) PROVE MainInv'
  BY <1>10 DEF StartPingFailed
<1>11. ASSUME NEW t \in Threads, StartCompare(t) PROVE MainInv'
  BY <1>11 DEF StartCompare
<1>12. ASSUME NEW t \in Threads, StartSkip(t) PROVE MainInv'
  BY <1>12 DEF StartSkip
<1>13. ASSUME NEW t \in Threads, StartPrepare(t) PROVE MainInv'
  BY <1>13 DEF StartPrepare
<1>14. ASSUME NEW t \in Threads, StartInstall(t) PROVE MainInv'
  BY <1>14 DEF StartInstall, BeginStop, AfterWait
<1>15. ASSUME NEW t \in Threads, StartSpawn(t) PROVE MainInv'
  BY <1>15 DEF StartSpawn
<1>16. ASSUME NEW t \in Threads, StartSpawnFailed(t) PROVE MainInv'
  BY <1>16 DEF StartSpawnFailed
<1>17. ASSUME NEW t \in Threads, StartAwaitReady(t) PROVE MainInv'
  BY <1>17 DEF StartAwaitReady
<1>18. ASSUME NEW t \in Threads, StartAwaitFailed(t) PROVE MainInv'
  BY <1>18 DEF StartAwaitFailed
<1>19. ASSUME NEW t \in Threads, StartOnline(t) PROVE MainInv'
  BY <1>19 DEF StartOnline
<1>20. ASSUME NEW t \in Threads, StartRemember(t) PROVE MainInv'
  BY <1>20 DEF StartRemember
<1>21. ASSUME NEW t \in Threads, StartSave(t) PROVE MainInv'
  BY <1>21 DEF StartSave
<1>22. ASSUME NEW t \in Threads, StartAbort(t) PROVE MainInv'
  BY <1>22 DEF StartAbort, BeginStop, AfterWait
<1>23. ASSUME NEW t \in Threads, StartFinish(t) PROVE MainInv'
  BY <1>23 DEF StartFinish
<1>24. ASSUME NEW t \in Threads, StartUnlock(t) PROVE MainInv'
  BY <1>24 DEF StartUnlock
<1>25. ASSUME NEW t \in Threads, StopLock(t) PROVE MainInv'
  BY <1>25 DEF StopLock
<1>26. ASSUME NEW t \in Threads, StopFlush(t) PROVE MainInv'
  BY <1>26 DEF StopFlush
<1>27. ASSUME NEW t \in Threads, StopBegin(t) PROVE MainInv'
  BY <1>27 DEF StopBegin, BeginStop, AfterWait
<1>28. ASSUME NEW t \in Threads, StopForget(t) PROVE MainInv'
  BY <1>28 DEF StopForget
<1>29. ASSUME NEW t \in Threads, StopUnlock(t) PROVE MainInv'
  BY <1>29 DEF StopUnlock
<1>30. ASSUME NEW t \in Threads, WaitReaped(t) PROVE MainInv'
  BY <1>30 DEF WaitReaped, AfterWait
<1>31. ASSUME NEW t \in Threads, WaitKill(t) PROVE MainInv'
  BY <1>31 DEF WaitKill
<1>32. ASSUME NEW t \in Threads, WaitTimeout(t) PROVE MainInv'
  BY <1>32 DEF WaitTimeout, AfterWait
<1>33. ASSUME NEW t \in Threads, HealthWrite(t) PROVE MainInv'
  BY <1>33 DEF HealthWrite
<1>34. ASSUME NEW c \in Cores, CoreServe(c) PROVE MainInv'
  BY <1>34 DEF CoreServe
<1>35. ASSUME NEW c \in Cores, CoreExit(c) PROVE MainInv'
  BY <1>35 DEF CoreExit
<1>36. ASSUME NEW c \in Cores, MonitorReap(c) PROVE MainInv'
  BY <1>36 DEF MonitorReap
<1>37. ASSUME NEW c \in Cores, MonitorClear(c) PROVE MainInv'
  BY <1>37 DEF MonitorClear
<1>38. ASSUME RestoreLoad PROVE MainInv'
  BY <1>38, RestoreFrame
<1>39. ASSUME RestoreCheck PROVE MainInv'
  BY <1>39, RestoreFrame
<1>40. ASSUME RestoreRetry PROVE MainInv'
  BY <1>40 DEF RestoreRetry
<1>41. ASSUME RestoreCancel PROVE MainInv'
  BY <1>41 DEF RestoreCancel, RestoreEnd
<1>42. ASSUME Signal PROVE MainInv'
  BY <1>42 DEF Signal
<1>43. ASSUME MainStop PROVE MainInv'
  BY <1>43 DEF MainStop
<1>44. ASSUME MainExit PROVE MainInv'
  BY <1>44 DEF MainExit, Halt
<1>45. ASSUME Crash PROVE MainInv'
  BY <1>45 DEF Crash, Halt
<1>46. ASSUME Boot PROVE MainInv'
  BY <1>46 DEF Boot, Booted
<1>47. CASE UNCHANGED vars
  BY <1>47 DEF vars
<1> QED
  BY <1>1, <1>2, <1>3, <1>4, <1>5, <1>6, <1>7, <1>8, <1>9, <1>10, <1>11,
     <1>12, <1>13, <1>14, <1>15, <1>16, <1>17, <1>18, <1>19, <1>20, <1>21,
     <1>22, <1>23, <1>24, <1>25, <1>26, <1>27, <1>28, <1>29, <1>30, <1>31,
     <1>32, <1>33, <1>34, <1>35, <1>36, <1>37, <1>38, <1>39, <1>40, <1>41,
     <1>42, <1>43, <1>44, <1>45, <1>46, <1>47
  DEF Next, Request, ThreadStep, StartStep, StopStep, MonitorStep, RestoreStep

\* The mark is set and reset by the owner of the lock.
LEMMA FlagNext ==
  ASSUME TypeOK, LockInv, DownInv, MainInv, FlagInv, [Next]_vars
  PROVE  FlagInv'
<1>a. Restorer \in Threads /\ Main \in Threads /\ Callers \subseteq Threads
  BY DEF Threads
<1> USE <1>a, NoneAssumption, ThreadsAssumption
    DEF TypeOK, shared, cores, Goto, AfterStart, AfterStop, Held, InStart, InStop, Waiting,
        LockInv, MainInv, FlagInv, Starting
<1>1. ASSUME NEW t \in Callers, NEW r \in Requests, NEW force \in BOOLEAN, StartCall(t, r, force)
      PROVE  FlagInv'
  BY <1>1 DEF StartCall
<1>2. ASSUME NEW t \in Callers, StopCall(t) PROVE FlagInv'
  BY <1>2 DEF StopCall
<1>3. ASSUME NEW t \in Callers, StopIfOnline(t) PROVE FlagInv'
  BY <1>3 DEF StopIfOnline
<1>4. ASSUME NEW t \in Callers, HealthRead(t) PROVE FlagInv'
  BY <1>4 DEF HealthRead
<1>5. ASSUME NEW t \in Threads, StartReject(t) PROVE FlagInv'
  BY <1>5 DEF StartReject
<1>6. ASSUME NEW t \in Threads, StartLock(t) PROVE FlagInv'
  BY <1>6 DEF StartLock
<1>7. ASSUME NEW t \in Threads, StartMark(t) PROVE FlagInv'
  BY <1>7 DEF StartMark
<1>8. ASSUME NEW t \in Threads, StartRead(t) PROVE FlagInv'
  BY <1>8 DEF StartRead
<1>9. ASSUME NEW t \in Threads, StartPingOk(t) PROVE FlagInv'
  BY <1>9 DEF StartPingOk
<1>10. ASSUME NEW t \in Threads, StartPingFailed(t) PROVE FlagInv'
  BY <1>10 DEF StartPingFailed
<1>11. ASSUME NEW t \in Threads, StartCompare(t) PROVE FlagInv'
  BY <1>11 DEF StartCompare
<1>12. ASSUME NEW t \in Threads, StartSkip(t) PROVE FlagInv'
  BY <1>12 DEF StartSkip
<1>13. ASSUME NEW t \in Threads, StartPrepare(t) PROVE FlagInv'
  BY <1>13 DEF StartPrepare
<1>14. ASSUME NEW t \in Threads, StartInstall(t) PROVE FlagInv'
  BY <1>14 DEF StartInstall, BeginStop, AfterWait
<1>15. ASSUME NEW t \in Threads, StartSpawn(t) PROVE FlagInv'
  BY <1>15 DEF StartSpawn
<1>16. ASSUME NEW t \in Threads, StartSpawnFailed(t) PROVE FlagInv'
  BY <1>16 DEF StartSpawnFailed
<1>17. ASSUME NEW t \in Threads, StartAwaitReady(t) PROVE FlagInv'
  BY <1>17 DEF StartAwaitReady
<1>18. ASSUME NEW t \in Threads, StartAwaitFailed(t) PROVE FlagInv'
  BY <1>18 DEF StartAwaitFailed
<1>19. ASSUME NEW t \in Threads, StartOnline(t) PROVE FlagInv'
  BY <1>19 DEF StartOnline
<1>20. ASSUME NEW t \in Threads, StartRemember(t) PROVE FlagInv'
  BY <1>20 DEF StartRemember
<1>21. ASSUME NEW t \in Threads, StartSave(t) PROVE FlagInv'
  BY <1>21 DEF StartSave
<1>22. ASSUME NEW t \in Threads, StartAbort(t) PROVE FlagInv'
  BY <1>22 DEF StartAbort, BeginStop, AfterWait
<1>23. ASSUME NEW t \in Threads, StartFinish(t) PROVE FlagInv'
  BY <1>23 DEF StartFinish
<1>24. ASSUME NEW t \in Threads, StartUnlock(t) PROVE FlagInv'
  BY <1>24 DEF StartUnlock
<1>25. ASSUME NEW t \in Threads, StopLock(t) PROVE FlagInv'
  BY <1>25 DEF StopLock
<1>26. ASSUME NEW t \in Threads, StopFlush(t) PROVE FlagInv'
  BY <1>26 DEF StopFlush
<1>27. ASSUME NEW t \in Threads, StopBegin(t) PROVE FlagInv'
  BY <1>27 DEF StopBegin, BeginStop, AfterWait
<1>28. ASSUME NEW t \in Threads, StopForget(t) PROVE FlagInv'
  BY <1>28 DEF StopForget
<1>29. ASSUME NEW t \in Threads, StopUnlock(t) PROVE FlagInv'
  BY <1>29 DEF StopUnlock
<1>30. ASSUME NEW t \in Threads, WaitReaped(t) PROVE FlagInv'
  BY <1>30 DEF WaitReaped, AfterWait
<1>31. ASSUME NEW t \in Threads, WaitKill(t) PROVE FlagInv'
  BY <1>31 DEF WaitKill
<1>32. ASSUME NEW t \in Threads, WaitTimeout(t) PROVE FlagInv'
  BY <1>32 DEF WaitTimeout, AfterWait
<1>33. ASSUME NEW t \in Threads, HealthWrite(t) PROVE FlagInv'
  BY <1>33 DEF HealthWrite
<1>34. ASSUME NEW c \in Cores, CoreServe(c) PROVE FlagInv'
  BY <1>34 DEF CoreServe
<1>35. ASSUME NEW c \in Cores, CoreExit(c) PROVE FlagInv'
  BY <1>35 DEF CoreExit
<1>36. ASSUME NEW c \in Cores, MonitorReap(c) PROVE FlagInv'
  BY <1>36 DEF MonitorReap
<1>37. ASSUME NEW c \in Cores, MonitorClear(c) PROVE FlagInv'
  BY <1>37 DEF MonitorClear
<1>38. ASSUME RestoreLoad PROVE FlagInv'
  <2>1. ASSUME NEW t \in Threads, Starting(t) PROVE pc'[t] = pc[t]
    BY <1>38, <2>1, RestoreFrame
  <2>2. site' = site /\ lifecycleMu' = lifecycleMu /\ startProcessing' = startProcessing
    BY <1>38, RestoreFrame
  <2> QED
    BY <2>1, <2>2
<1>39. ASSUME RestoreCheck PROVE FlagInv'
  <2>1. ASSUME NEW t \in Threads, Starting(t) PROVE pc'[t] = pc[t]
    BY <1>39, <2>1, RestoreFrame
  <2>2. site' = site /\ lifecycleMu' = lifecycleMu /\ startProcessing' = startProcessing
    BY <1>39, RestoreFrame
  <2> QED
    BY <2>1, <2>2
<1>40. ASSUME RestoreRetry PROVE FlagInv'
  BY <1>40 DEF RestoreRetry
<1>41. ASSUME RestoreCancel PROVE FlagInv'
  BY <1>41 DEF RestoreCancel, RestoreEnd
<1>42. ASSUME Signal PROVE FlagInv'
  BY <1>42 DEF Signal
<1>43. ASSUME MainStop PROVE FlagInv'
  BY <1>43 DEF MainStop
<1>44. ASSUME MainExit PROVE FlagInv'
  BY <1>44 DEF MainExit, Halt
<1>45. ASSUME Crash PROVE FlagInv'
  BY <1>45 DEF Crash, Halt
<1>46. ASSUME Boot PROVE FlagInv'
  <2>1. \A t \in Threads : pc'[t] \in {"idle", "restore.delay", "main.run"}
    BY <1>46, BootedType DEF Boot
  <2>2. \A t \in Threads : pc[t] = "off"
    BY <1>46 DEF Boot, DownInv
  <2>3. UNCHANGED <<shared, monitor, file, call, site, disabled>>
    BY <1>46 DEF Boot
  <2>4. \A c \in Cores : core'[c] = "none"
    BY <1>46 DEF Boot, NoCores
  <2> QED
    BY <2>1, <2>2, <2>3, <2>4
<1>47. CASE UNCHANGED vars
  BY <1>47 DEF vars
<1> QED
  BY <1>1, <1>2, <1>3, <1>4, <1>5, <1>6, <1>7, <1>8, <1>9, <1>10, <1>11,
     <1>12, <1>13, <1>14, <1>15, <1>16, <1>17, <1>18, <1>19, <1>20, <1>21,
     <1>22, <1>23, <1>24, <1>25, <1>26, <1>27, <1>28, <1>29, <1>30, <1>31,
     <1>32, <1>33, <1>34, <1>35, <1>36, <1>37, <1>38, <1>39, <1>40, <1>41,
     <1>42, <1>43, <1>44, <1>45, <1>46, <1>47
  DEF Next, Request, ThreadStep, StartStep, StopStep, MonitorStep, RestoreStep

\* The request of a start stays until Start has returned.
LEMMA CallNext ==
  ASSUME TypeOK, CallInv, [Next]_vars
  PROVE  CallInv'
<1>a. Restorer \in Threads /\ Main \in Threads /\ Callers \subseteq Threads
  BY DEF Threads
<1> USE <1>a, NoneAssumption, ThreadsAssumption
    DEF TypeOK, shared, cores, Goto, AfterStart, AfterStop, Held, InStart, InStop, Waiting,
        CallInv, Calls, StartOf, NoCall, PanelStop, Leave
<1>1. ASSUME NEW t \in Callers, NEW r \in Requests, NEW force \in BOOLEAN, StartCall(t, r, force)
      PROVE  CallInv'
  BY <1>1 DEF StartCall
<1>2. ASSUME NEW t \in Callers, StopCall(t) PROVE CallInv'
  BY <1>2 DEF StopCall
<1>3. ASSUME NEW t \in Callers, StopIfOnline(t) PROVE CallInv'
  BY <1>3 DEF StopIfOnline
<1>4. ASSUME NEW t \in Callers, HealthRead(t) PROVE CallInv'
  BY <1>4 DEF HealthRead
<1>5. ASSUME NEW t \in Threads, StartReject(t) PROVE CallInv'
  BY <1>5 DEF StartReject
<1>6. ASSUME NEW t \in Threads, StartLock(t) PROVE CallInv'
  BY <1>6 DEF StartLock
<1>7. ASSUME NEW t \in Threads, StartMark(t) PROVE CallInv'
  BY <1>7 DEF StartMark
<1>8. ASSUME NEW t \in Threads, StartRead(t) PROVE CallInv'
  BY <1>8 DEF StartRead
<1>9. ASSUME NEW t \in Threads, StartPingOk(t) PROVE CallInv'
  BY <1>9 DEF StartPingOk
<1>10. ASSUME NEW t \in Threads, StartPingFailed(t) PROVE CallInv'
  BY <1>10 DEF StartPingFailed
<1>11. ASSUME NEW t \in Threads, StartCompare(t) PROVE CallInv'
  BY <1>11 DEF StartCompare
<1>12. ASSUME NEW t \in Threads, StartSkip(t) PROVE CallInv'
  BY <1>12 DEF StartSkip
<1>13. ASSUME NEW t \in Threads, StartPrepare(t) PROVE CallInv'
  BY <1>13 DEF StartPrepare
<1>14. ASSUME NEW t \in Threads, StartInstall(t) PROVE CallInv'
  BY <1>14 DEF StartInstall, BeginStop, AfterWait
<1>15. ASSUME NEW t \in Threads, StartSpawn(t) PROVE CallInv'
  BY <1>15 DEF StartSpawn
<1>16. ASSUME NEW t \in Threads, StartSpawnFailed(t) PROVE CallInv'
  BY <1>16 DEF StartSpawnFailed
<1>17. ASSUME NEW t \in Threads, StartAwaitReady(t) PROVE CallInv'
  BY <1>17 DEF StartAwaitReady
<1>18. ASSUME NEW t \in Threads, StartAwaitFailed(t) PROVE CallInv'
  BY <1>18 DEF StartAwaitFailed
<1>19. ASSUME NEW t \in Threads, StartOnline(t) PROVE CallInv'
  BY <1>19 DEF StartOnline
<1>20. ASSUME NEW t \in Threads, StartRemember(t) PROVE CallInv'
  BY <1>20 DEF StartRemember
<1>21. ASSUME NEW t \in Threads, StartSave(t) PROVE CallInv'
  BY <1>21 DEF StartSave
<1>22. ASSUME NEW t \in Threads, StartAbort(t) PROVE CallInv'
  BY <1>22 DEF StartAbort, BeginStop, AfterWait
<1>23. ASSUME NEW t \in Threads, StartFinish(t) PROVE CallInv'
  BY <1>23 DEF StartFinish
<1>24. ASSUME NEW t \in Threads, StartUnlock(t) PROVE CallInv'
  BY <1>24 DEF StartUnlock
<1>25. ASSUME NEW t \in Threads, StopLock(t) PROVE CallInv'
  BY <1>25 DEF StopLock
<1>26. ASSUME NEW t \in Threads, StopFlush(t) PROVE CallInv'
  BY <1>26 DEF StopFlush
<1>27. ASSUME NEW t \in Threads, StopBegin(t) PROVE CallInv'
  BY <1>27 DEF StopBegin, BeginStop, AfterWait
<1>28. ASSUME NEW t \in Threads, StopForget(t) PROVE CallInv'
  BY <1>28 DEF StopForget
<1>29. ASSUME NEW t \in Threads, StopUnlock(t) PROVE CallInv'
  BY <1>29 DEF StopUnlock
<1>30. ASSUME NEW t \in Threads, WaitReaped(t) PROVE CallInv'
  BY <1>30 DEF WaitReaped, AfterWait
<1>31. ASSUME NEW t \in Threads, WaitKill(t) PROVE CallInv'
  BY <1>31 DEF WaitKill
<1>32. ASSUME NEW t \in Threads, WaitTimeout(t) PROVE CallInv'
  BY <1>32 DEF WaitTimeout, AfterWait
<1>33. ASSUME NEW t \in Threads, HealthWrite(t) PROVE CallInv'
  BY <1>33 DEF HealthWrite
<1>34. ASSUME NEW c \in Cores, CoreServe(c) PROVE CallInv'
  BY <1>34 DEF CoreServe
<1>35. ASSUME NEW c \in Cores, CoreExit(c) PROVE CallInv'
  BY <1>35 DEF CoreExit
<1>36. ASSUME NEW c \in Cores, MonitorReap(c) PROVE CallInv'
  BY <1>36 DEF MonitorReap
<1>37. ASSUME NEW c \in Cores, MonitorClear(c) PROVE CallInv'
  BY <1>37 DEF MonitorClear
<1>38. ASSUME RestoreLoad PROVE CallInv'
  BY <1>38, RestoreFrame
<1>39. ASSUME RestoreCheck PROVE CallInv'
  BY <1>39, RestoreFrame
<1>40. ASSUME RestoreRetry PROVE CallInv'
  BY <1>40 DEF RestoreRetry
<1>41. ASSUME RestoreCancel PROVE CallInv'
  BY <1>41 DEF RestoreCancel, RestoreEnd
<1>42. ASSUME Signal PROVE CallInv'
  BY <1>42 DEF Signal
<1>43. ASSUME MainStop PROVE CallInv'
  BY <1>43 DEF MainStop
<1>44. ASSUME MainExit PROVE CallInv'
  BY <1>44 DEF MainExit, Halt
<1>45. ASSUME Crash PROVE CallInv'
  BY <1>45 DEF Crash, Halt
<1>46. ASSUME Boot PROVE CallInv'
  BY <1>46, BootedType DEF Boot, NoCores
<1>47. CASE UNCHANGED vars
  BY <1>47 DEF vars
<1> QED
  BY <1>1, <1>2, <1>3, <1>4, <1>5, <1>6, <1>7, <1>8, <1>9, <1>10, <1>11,
     <1>12, <1>13, <1>14, <1>15, <1>16, <1>17, <1>18, <1>19, <1>20, <1>21,
     <1>22, <1>23, <1>24, <1>25, <1>26, <1>27, <1>28, <1>29, <1>30, <1>31,
     <1>32, <1>33, <1>34, <1>35, <1>36, <1>37, <1>38, <1>39, <1>40, <1>41,
     <1>42, <1>43, <1>44, <1>45, <1>46, <1>47
  DEF Next, Request, ThreadStep, StartStep, StopStep, MonitorStep, RestoreStep

\* Nobody but the owner of the lock stores a configuration.
LEMMA ConfigNext ==
  ASSUME TypeOK, LockInv, ConfigInv, [Next]_vars
  PROVE  ConfigInv'
<1>a. Restorer \in Threads /\ Main \in Threads /\ Callers \subseteq Threads
  BY DEF Threads
<1> USE <1>a, NoneAssumption, ThreadsAssumption
    DEF TypeOK, shared, cores, Goto, AfterStart, AfterStop, Held, InStart, InStop, Waiting,
        LockInv, ConfigInv, Leave
<1>1. ASSUME NEW t \in Callers, NEW r \in Requests, NEW force \in BOOLEAN, StartCall(t, r, force)
      PROVE  ConfigInv'
  BY <1>1 DEF StartCall
<1>2. ASSUME NEW t \in Callers, StopCall(t) PROVE ConfigInv'
  BY <1>2 DEF StopCall
<1>3. ASSUME NEW t \in Callers, StopIfOnline(t) PROVE ConfigInv'
  BY <1>3 DEF StopIfOnline
<1>4. ASSUME NEW t \in Callers, HealthRead(t) PROVE ConfigInv'
  BY <1>4 DEF HealthRead
<1>5. ASSUME NEW t \in Threads, StartReject(t) PROVE ConfigInv'
  BY <1>5 DEF StartReject
<1>6. ASSUME NEW t \in Threads, StartLock(t) PROVE ConfigInv'
  BY <1>6 DEF StartLock
<1>7. ASSUME NEW t \in Threads, StartMark(t) PROVE ConfigInv'
  BY <1>7 DEF StartMark
<1>8. ASSUME NEW t \in Threads, StartRead(t) PROVE ConfigInv'
  BY <1>8 DEF StartRead
<1>9. ASSUME NEW t \in Threads, StartPingOk(t) PROVE ConfigInv'
  BY <1>9 DEF StartPingOk
<1>10. ASSUME NEW t \in Threads, StartPingFailed(t) PROVE ConfigInv'
  BY <1>10 DEF StartPingFailed
<1>11. ASSUME NEW t \in Threads, StartCompare(t) PROVE ConfigInv'
  BY <1>11 DEF StartCompare
<1>12. ASSUME NEW t \in Threads, StartSkip(t) PROVE ConfigInv'
  BY <1>12 DEF StartSkip
<1>13. ASSUME NEW t \in Threads, StartPrepare(t) PROVE ConfigInv'
  BY <1>13 DEF StartPrepare
<1>14. ASSUME NEW t \in Threads, StartInstall(t) PROVE ConfigInv'
  BY <1>14 DEF StartInstall, BeginStop, AfterWait
<1>15. ASSUME NEW t \in Threads, StartSpawn(t) PROVE ConfigInv'
  BY <1>15 DEF StartSpawn
<1>16. ASSUME NEW t \in Threads, StartSpawnFailed(t) PROVE ConfigInv'
  BY <1>16 DEF StartSpawnFailed
<1>17. ASSUME NEW t \in Threads, StartAwaitReady(t) PROVE ConfigInv'
  BY <1>17 DEF StartAwaitReady
<1>18. ASSUME NEW t \in Threads, StartAwaitFailed(t) PROVE ConfigInv'
  BY <1>18 DEF StartAwaitFailed
<1>19. ASSUME NEW t \in Threads, StartOnline(t) PROVE ConfigInv'
  BY <1>19 DEF StartOnline
<1>20. ASSUME NEW t \in Threads, StartRemember(t) PROVE ConfigInv'
  BY <1>20 DEF StartRemember
<1>21. ASSUME NEW t \in Threads, StartSave(t) PROVE ConfigInv'
  BY <1>21 DEF StartSave
<1>22. ASSUME NEW t \in Threads, StartAbort(t) PROVE ConfigInv'
  BY <1>22 DEF StartAbort, BeginStop, AfterWait
<1>23. ASSUME NEW t \in Threads, StartFinish(t) PROVE ConfigInv'
  BY <1>23 DEF StartFinish
<1>24. ASSUME NEW t \in Threads, StartUnlock(t) PROVE ConfigInv'
  BY <1>24 DEF StartUnlock
<1>25. ASSUME NEW t \in Threads, StopLock(t) PROVE ConfigInv'
  BY <1>25 DEF StopLock
<1>26. ASSUME NEW t \in Threads, StopFlush(t) PROVE ConfigInv'
  BY <1>26 DEF StopFlush
<1>27. ASSUME NEW t \in Threads, StopBegin(t) PROVE ConfigInv'
  BY <1>27 DEF StopBegin, BeginStop, AfterWait
<1>28. ASSUME NEW t \in Threads, StopForget(t) PROVE ConfigInv'
  BY <1>28 DEF StopForget
<1>29. ASSUME NEW t \in Threads, StopUnlock(t) PROVE ConfigInv'
  BY <1>29 DEF StopUnlock
<1>30. ASSUME NEW t \in Threads, WaitReaped(t) PROVE ConfigInv'
  BY <1>30 DEF WaitReaped, AfterWait
<1>31. ASSUME NEW t \in Threads, WaitKill(t) PROVE ConfigInv'
  BY <1>31 DEF WaitKill
<1>32. ASSUME NEW t \in Threads, WaitTimeout(t) PROVE ConfigInv'
  BY <1>32 DEF WaitTimeout, AfterWait
<1>33. ASSUME NEW t \in Threads, HealthWrite(t) PROVE ConfigInv'
  BY <1>33 DEF HealthWrite
<1>34. ASSUME NEW c \in Cores, CoreServe(c) PROVE ConfigInv'
  BY <1>34 DEF CoreServe
<1>35. ASSUME NEW c \in Cores, CoreExit(c) PROVE ConfigInv'
  BY <1>35 DEF CoreExit
<1>36. ASSUME NEW c \in Cores, MonitorReap(c) PROVE ConfigInv'
  BY <1>36 DEF MonitorReap
<1>37. ASSUME NEW c \in Cores, MonitorClear(c) PROVE ConfigInv'
  BY <1>37 DEF MonitorClear
<1>38. ASSUME RestoreLoad PROVE ConfigInv'
  BY <1>38, RestoreFrame
<1>39. ASSUME RestoreCheck PROVE ConfigInv'
  BY <1>39, RestoreFrame
<1>40. ASSUME RestoreRetry PROVE ConfigInv'
  BY <1>40 DEF RestoreRetry
<1>41. ASSUME RestoreCancel PROVE ConfigInv'
  BY <1>41 DEF RestoreCancel, RestoreEnd
<1>42. ASSUME Signal PROVE ConfigInv'
  BY <1>42 DEF Signal
<1>43. ASSUME MainStop PROVE ConfigInv'
  BY <1>43 DEF MainStop
<1>44. ASSUME MainExit PROVE ConfigInv'
  BY <1>44 DEF MainExit, Halt
<1>45. ASSUME Crash PROVE ConfigInv'
  BY <1>45 DEF Crash, Halt
<1>46. ASSUME Boot PROVE ConfigInv'
  BY <1>46, BootedType DEF Boot, NoCores
<1>47. CASE UNCHANGED vars
  BY <1>47 DEF vars
<1> QED
  BY <1>1, <1>2, <1>3, <1>4, <1>5, <1>6, <1>7, <1>8, <1>9, <1>10, <1>11,
     <1>12, <1>13, <1>14, <1>15, <1>16, <1>17, <1>18, <1>19, <1>20, <1>21,
     <1>22, <1>23, <1>24, <1>25, <1>26, <1>27, <1>28, <1>29, <1>30, <1>31,
     <1>32, <1>33, <1>34, <1>35, <1>36, <1>37, <1>38, <1>39, <1>40, <1>41,
     <1>42, <1>43, <1>44, <1>45, <1>46, <1>47
  DEF Next, Request, ThreadStep, StartStep, StopStep, MonitorStep, RestoreStep

\* A start does not return while its core boots.
LEMMA BootNext ==
  ASSUME TypeOK, LockInv, MuInv, DownInv, CoreInv, StopInv, MainInv, BootInv, [Next]_vars
  PROVE  BootInv'
<1>a. Restorer \in Threads /\ Main \in Threads /\ Callers \subseteq Threads
  BY DEF Threads
<1> USE <1>a, NoneAssumption, ThreadsAssumption
    DEF TypeOK, shared, cores, Goto, AfterStart, AfterStop, Held, InStart, InStop, Waiting,
        LockInv, MuInv, DownInv, CoreInv, StopInv, MainInv, BootInv, Running, Live, Alive,
        Reachable
<1>1. ASSUME NEW t \in Callers, NEW r \in Requests, NEW force \in BOOLEAN, StartCall(t, r, force)
      PROVE  BootInv'
  BY <1>1 DEF StartCall
<1>2. ASSUME NEW t \in Callers, StopCall(t) PROVE BootInv'
  BY <1>2 DEF StopCall
<1>3. ASSUME NEW t \in Callers, StopIfOnline(t) PROVE BootInv'
  BY <1>3 DEF StopIfOnline
<1>4. ASSUME NEW t \in Callers, HealthRead(t) PROVE BootInv'
  BY <1>4 DEF HealthRead
<1>5. ASSUME NEW t \in Threads, StartReject(t) PROVE BootInv'
  BY <1>5 DEF StartReject
<1>6. ASSUME NEW t \in Threads, StartLock(t) PROVE BootInv'
  BY <1>6 DEF StartLock
<1>7. ASSUME NEW t \in Threads, StartMark(t) PROVE BootInv'
  BY <1>7 DEF StartMark
<1>8. ASSUME NEW t \in Threads, StartRead(t) PROVE BootInv'
  BY <1>8 DEF StartRead
<1>9. ASSUME NEW t \in Threads, StartPingOk(t) PROVE BootInv'
  BY <1>9 DEF StartPingOk
<1>10. ASSUME NEW t \in Threads, StartPingFailed(t) PROVE BootInv'
  BY <1>10 DEF StartPingFailed
<1>11. ASSUME NEW t \in Threads, StartCompare(t) PROVE BootInv'
  BY <1>11 DEF StartCompare
<1>12. ASSUME NEW t \in Threads, StartSkip(t) PROVE BootInv'
  BY <1>12 DEF StartSkip
<1>13. ASSUME NEW t \in Threads, StartPrepare(t) PROVE BootInv'
  BY <1>13 DEF StartPrepare
<1>14. ASSUME NEW t \in Threads, StartInstall(t) PROVE BootInv'
  BY <1>14 DEF StartInstall, BeginStop, AfterWait
<1>15. ASSUME NEW t \in Threads, StartSpawn(t) PROVE BootInv'
  BY <1>15 DEF StartSpawn
<1>16. ASSUME NEW t \in Threads, StartSpawnFailed(t) PROVE BootInv'
  BY <1>16 DEF StartSpawnFailed
<1>17. ASSUME NEW t \in Threads, StartAwaitReady(t) PROVE BootInv'
  BY <1>17 DEF StartAwaitReady
<1>18. ASSUME NEW t \in Threads, StartAwaitFailed(t) PROVE BootInv'
  BY <1>18 DEF StartAwaitFailed
<1>19. ASSUME NEW t \in Threads, StartOnline(t) PROVE BootInv'
  BY <1>19 DEF StartOnline
<1>20. ASSUME NEW t \in Threads, StartRemember(t) PROVE BootInv'
  BY <1>20 DEF StartRemember
<1>21. ASSUME NEW t \in Threads, StartSave(t) PROVE BootInv'
  BY <1>21 DEF StartSave
<1>22. ASSUME NEW t \in Threads, StartAbort(t) PROVE BootInv'
  BY <1>22 DEF StartAbort, BeginStop, AfterWait
<1>23. ASSUME NEW t \in Threads, StartFinish(t) PROVE BootInv'
  BY <1>23 DEF StartFinish
<1>24. ASSUME NEW t \in Threads, StartUnlock(t) PROVE BootInv'
  BY <1>24 DEF StartUnlock
<1>25. ASSUME NEW t \in Threads, StopLock(t) PROVE BootInv'
  BY <1>25 DEF StopLock
<1>26. ASSUME NEW t \in Threads, StopFlush(t) PROVE BootInv'
  BY <1>26 DEF StopFlush
<1>27. ASSUME NEW t \in Threads, StopBegin(t) PROVE BootInv'
  BY <1>27 DEF StopBegin, BeginStop, AfterWait
<1>28. ASSUME NEW t \in Threads, StopForget(t) PROVE BootInv'
  BY <1>28 DEF StopForget
<1>29. ASSUME NEW t \in Threads, StopUnlock(t) PROVE BootInv'
  BY <1>29 DEF StopUnlock
<1>30. ASSUME NEW t \in Threads, WaitReaped(t) PROVE BootInv'
  BY <1>30 DEF WaitReaped, AfterWait
<1>31. ASSUME NEW t \in Threads, WaitKill(t) PROVE BootInv'
  BY <1>31 DEF WaitKill
<1>32. ASSUME NEW t \in Threads, WaitTimeout(t) PROVE BootInv'
  BY <1>32 DEF WaitTimeout, AfterWait
<1>33. ASSUME NEW t \in Threads, HealthWrite(t) PROVE BootInv'
  BY <1>33 DEF HealthWrite
<1>34. ASSUME NEW c \in Cores, CoreServe(c) PROVE BootInv'
  BY <1>34 DEF CoreServe
<1>35. ASSUME NEW c \in Cores, CoreExit(c) PROVE BootInv'
  BY <1>35 DEF CoreExit
<1>36. ASSUME NEW c \in Cores, MonitorReap(c) PROVE BootInv'
  BY <1>36 DEF MonitorReap
<1>37. ASSUME NEW c \in Cores, MonitorClear(c) PROVE BootInv'
  BY <1>37 DEF MonitorClear
<1>38. ASSUME RestoreLoad PROVE BootInv'
  BY <1>38, RestoreFrame
<1>39. ASSUME RestoreCheck PROVE BootInv'
  BY <1>39, RestoreFrame
<1>40. ASSUME RestoreRetry PROVE BootInv'
  BY <1>40 DEF RestoreRetry
<1>41. ASSUME RestoreCancel PROVE BootInv'
  BY <1>41 DEF RestoreCancel, RestoreEnd
<1>42. ASSUME Signal PROVE BootInv'
  BY <1>42 DEF Signal
<1>43. ASSUME MainStop PROVE BootInv'
  BY <1>43 DEF MainStop
<1>44. ASSUME MainExit PROVE BootInv'
  BY <1>44 DEF MainExit, Halt
<1>45. ASSUME Crash PROVE BootInv'
  BY <1>45 DEF Crash, Halt
<1>46. ASSUME Boot PROVE BootInv'
  BY <1>46, BootedType DEF Boot, NoCores
<1>47. CASE UNCHANGED vars
  BY <1>47 DEF vars
<1> QED
  BY <1>1, <1>2, <1>3, <1>4, <1>5, <1>6, <1>7, <1>8, <1>9, <1>10, <1>11,
     <1>12, <1>13, <1>14, <1>15, <1>16, <1>17, <1>18, <1>19, <1>20, <1>21,
     <1>22, <1>23, <1>24, <1>25, <1>26, <1>27, <1>28, <1>29, <1>30, <1>31,
     <1>32, <1>33, <1>34, <1>35, <1>36, <1>37, <1>38, <1>39, <1>40, <1>41,
     <1>42, <1>43, <1>44, <1>45, <1>46, <1>47
  DEF Next, Request, ThreadStep, StartStep, StopStep, MonitorStep, RestoreStep

\* Between the comparison and the skip nothing is stored.
LEMMA SkipNext ==
  ASSUME TypeOK, LockInv, SkipInv, [Next]_vars
  PROVE  SkipInv'
<1>a. Restorer \in Threads /\ Main \in Threads /\ Callers \subseteq Threads
  BY DEF Threads
<1> USE <1>a, NoneAssumption, ThreadsAssumption
    DEF TypeOK, shared, cores, Goto, AfterStart, AfterStop, Held, InStart, InStop, Waiting,
        LockInv, SkipInv, NeedRestart, Leave
<1>1. ASSUME NEW t \in Callers, NEW r \in Requests, NEW force \in BOOLEAN, StartCall(t, r, force)
      PROVE  SkipInv'
  BY <1>1 DEF StartCall
<1>2. ASSUME NEW t \in Callers, StopCall(t) PROVE SkipInv'
  BY <1>2 DEF StopCall
<1>3. ASSUME NEW t \in Callers, StopIfOnline(t) PROVE SkipInv'
  BY <1>3 DEF StopIfOnline
<1>4. ASSUME NEW t \in Callers, HealthRead(t) PROVE SkipInv'
  BY <1>4 DEF HealthRead
<1>5. ASSUME NEW t \in Threads, StartReject(t) PROVE SkipInv'
  BY <1>5 DEF StartReject
<1>6. ASSUME NEW t \in Threads, StartLock(t) PROVE SkipInv'
  BY <1>6 DEF StartLock
<1>7. ASSUME NEW t \in Threads, StartMark(t) PROVE SkipInv'
  BY <1>7 DEF StartMark
<1>8. ASSUME NEW t \in Threads, StartRead(t) PROVE SkipInv'
  BY <1>8 DEF StartRead
<1>9. ASSUME NEW t \in Threads, StartPingOk(t) PROVE SkipInv'
  BY <1>9 DEF StartPingOk
<1>10. ASSUME NEW t \in Threads, StartPingFailed(t) PROVE SkipInv'
  BY <1>10 DEF StartPingFailed
<1>11. ASSUME NEW t \in Threads, StartCompare(t) PROVE SkipInv'
  BY <1>11 DEF StartCompare
<1>12. ASSUME NEW t \in Threads, StartSkip(t) PROVE SkipInv'
  BY <1>12 DEF StartSkip
<1>13. ASSUME NEW t \in Threads, StartPrepare(t) PROVE SkipInv'
  BY <1>13 DEF StartPrepare
<1>14. ASSUME NEW t \in Threads, StartInstall(t) PROVE SkipInv'
  BY <1>14 DEF StartInstall, BeginStop, AfterWait
<1>15. ASSUME NEW t \in Threads, StartSpawn(t) PROVE SkipInv'
  BY <1>15 DEF StartSpawn
<1>16. ASSUME NEW t \in Threads, StartSpawnFailed(t) PROVE SkipInv'
  BY <1>16 DEF StartSpawnFailed
<1>17. ASSUME NEW t \in Threads, StartAwaitReady(t) PROVE SkipInv'
  BY <1>17 DEF StartAwaitReady
<1>18. ASSUME NEW t \in Threads, StartAwaitFailed(t) PROVE SkipInv'
  BY <1>18 DEF StartAwaitFailed
<1>19. ASSUME NEW t \in Threads, StartOnline(t) PROVE SkipInv'
  BY <1>19 DEF StartOnline
<1>20. ASSUME NEW t \in Threads, StartRemember(t) PROVE SkipInv'
  BY <1>20 DEF StartRemember
<1>21. ASSUME NEW t \in Threads, StartSave(t) PROVE SkipInv'
  BY <1>21 DEF StartSave
<1>22. ASSUME NEW t \in Threads, StartAbort(t) PROVE SkipInv'
  BY <1>22 DEF StartAbort, BeginStop, AfterWait
<1>23. ASSUME NEW t \in Threads, StartFinish(t) PROVE SkipInv'
  BY <1>23 DEF StartFinish
<1>24. ASSUME NEW t \in Threads, StartUnlock(t) PROVE SkipInv'
  BY <1>24 DEF StartUnlock
<1>25. ASSUME NEW t \in Threads, StopLock(t) PROVE SkipInv'
  BY <1>25 DEF StopLock
<1>26. ASSUME NEW t \in Threads, StopFlush(t) PROVE SkipInv'
  BY <1>26 DEF StopFlush
<1>27. ASSUME NEW t \in Threads, StopBegin(t) PROVE SkipInv'
  BY <1>27 DEF StopBegin, BeginStop, AfterWait
<1>28. ASSUME NEW t \in Threads, StopForget(t) PROVE SkipInv'
  BY <1>28 DEF StopForget
<1>29. ASSUME NEW t \in Threads, StopUnlock(t) PROVE SkipInv'
  BY <1>29 DEF StopUnlock
<1>30. ASSUME NEW t \in Threads, WaitReaped(t) PROVE SkipInv'
  BY <1>30 DEF WaitReaped, AfterWait
<1>31. ASSUME NEW t \in Threads, WaitKill(t) PROVE SkipInv'
  BY <1>31 DEF WaitKill
<1>32. ASSUME NEW t \in Threads, WaitTimeout(t) PROVE SkipInv'
  BY <1>32 DEF WaitTimeout, AfterWait
<1>33. ASSUME NEW t \in Threads, HealthWrite(t) PROVE SkipInv'
  BY <1>33 DEF HealthWrite
<1>34. ASSUME NEW c \in Cores, CoreServe(c) PROVE SkipInv'
  BY <1>34 DEF CoreServe
<1>35. ASSUME NEW c \in Cores, CoreExit(c) PROVE SkipInv'
  BY <1>35 DEF CoreExit
<1>36. ASSUME NEW c \in Cores, MonitorReap(c) PROVE SkipInv'
  BY <1>36 DEF MonitorReap
<1>37. ASSUME NEW c \in Cores, MonitorClear(c) PROVE SkipInv'
  BY <1>37 DEF MonitorClear
<1>38. ASSUME RestoreLoad PROVE SkipInv'
  BY <1>38, RestoreFrame
<1>39. ASSUME RestoreCheck PROVE SkipInv'
  BY <1>39, RestoreFrame
<1>40. ASSUME RestoreRetry PROVE SkipInv'
  BY <1>40 DEF RestoreRetry
<1>41. ASSUME RestoreCancel PROVE SkipInv'
  BY <1>41 DEF RestoreCancel, RestoreEnd
<1>42. ASSUME Signal PROVE SkipInv'
  BY <1>42 DEF Signal
<1>43. ASSUME MainStop PROVE SkipInv'
  BY <1>43 DEF MainStop
<1>44. ASSUME MainExit PROVE SkipInv'
  BY <1>44 DEF MainExit, Halt
<1>45. ASSUME Crash PROVE SkipInv'
  BY <1>45 DEF Crash, Halt
<1>46. ASSUME Boot PROVE SkipInv'
  BY <1>46, BootedType DEF Boot, NoCores
<1>47. CASE UNCHANGED vars
  BY <1>47 DEF vars
<1> QED
  BY <1>1, <1>2, <1>3, <1>4, <1>5, <1>6, <1>7, <1>8, <1>9, <1>10, <1>11,
     <1>12, <1>13, <1>14, <1>15, <1>16, <1>17, <1>18, <1>19, <1>20, <1>21,
     <1>22, <1>23, <1>24, <1>25, <1>26, <1>27, <1>28, <1>29, <1>30, <1>31,
     <1>32, <1>33, <1>34, <1>35, <1>36, <1>37, <1>38, <1>39, <1>40, <1>41,
     <1>42, <1>43, <1>44, <1>45, <1>46, <1>47
  DEF Next, Request, ThreadStep, StartStep, StopStep, MonitorStep, RestoreStep

\* Configuration, core and remembered request change together, within one start or stop.
LEMMA ServeNext ==
  ASSUME IInv, MainInv, CallInv, ConfigInv, BootInv, SkipInv, ServeInv, [Next]_vars
  PROVE  ServeInv'
<1>a. Restorer \in Threads /\ Main \in Threads /\ Callers \subseteq Threads
  BY DEF Threads
<1> USE <1>a, NoneAssumption, ThreadsAssumption
    DEF TypeOK, shared, cores, Goto, AfterStart, AfterStop, Held, InStart, InStop, Waiting,
        IInv, LockInv, MuInv, SpawnInv, DownInv, CoreInv, StopInv, MainInv, CallInv, ConfigInv,
        BootInv, SkipInv, ServeInv, Ending, Unremembered, Running, Live, Alive, Leave
<1>1. ASSUME NEW t \in Callers, NEW r \in Requests, NEW force \in BOOLEAN, StartCall(t, r, force)
      PROVE  ServeInv'
  BY <1>1 DEF StartCall
<1>2. ASSUME NEW t \in Callers, StopCall(t) PROVE ServeInv'
  BY <1>2 DEF StopCall
<1>3. ASSUME NEW t \in Callers, StopIfOnline(t) PROVE ServeInv'
  BY <1>3 DEF StopIfOnline
<1>4. ASSUME NEW t \in Callers, HealthRead(t) PROVE ServeInv'
  BY <1>4 DEF HealthRead
<1>5. ASSUME NEW t \in Threads, StartReject(t) PROVE ServeInv'
  BY <1>5 DEF StartReject
<1>6. ASSUME NEW t \in Threads, StartLock(t) PROVE ServeInv'
  BY <1>6 DEF StartLock
<1>7. ASSUME NEW t \in Threads, StartMark(t) PROVE ServeInv'
  BY <1>7 DEF StartMark
<1>8. ASSUME NEW t \in Threads, StartRead(t) PROVE ServeInv'
  BY <1>8 DEF StartRead
<1>9. ASSUME NEW t \in Threads, StartPingOk(t) PROVE ServeInv'
  BY <1>9 DEF StartPingOk
<1>10. ASSUME NEW t \in Threads, StartPingFailed(t) PROVE ServeInv'
  BY <1>10 DEF StartPingFailed
<1>11. ASSUME NEW t \in Threads, StartCompare(t) PROVE ServeInv'
  BY <1>11 DEF StartCompare
<1>12. ASSUME NEW t \in Threads, StartSkip(t) PROVE ServeInv'
  BY <1>12 DEF StartSkip
<1>13. ASSUME NEW t \in Threads, StartPrepare(t) PROVE ServeInv'
  BY <1>13 DEF StartPrepare
<1>14. ASSUME NEW t \in Threads, StartInstall(t) PROVE ServeInv'
  BY <1>14 DEF StartInstall, BeginStop, AfterWait
<1>15. ASSUME NEW t \in Threads, StartSpawn(t) PROVE ServeInv'
  BY <1>15 DEF StartSpawn
<1>16. ASSUME NEW t \in Threads, StartSpawnFailed(t) PROVE ServeInv'
  BY <1>16 DEF StartSpawnFailed
<1>17. ASSUME NEW t \in Threads, StartAwaitReady(t) PROVE ServeInv'
  BY <1>17 DEF StartAwaitReady
<1>18. ASSUME NEW t \in Threads, StartAwaitFailed(t) PROVE ServeInv'
  BY <1>18 DEF StartAwaitFailed
<1>19. ASSUME NEW t \in Threads, StartOnline(t) PROVE ServeInv'
  BY <1>19 DEF StartOnline
<1>20. ASSUME NEW t \in Threads, StartRemember(t) PROVE ServeInv'
  BY <1>20 DEF StartRemember
<1>21. ASSUME NEW t \in Threads, StartSave(t) PROVE ServeInv'
  BY <1>21 DEF StartSave
<1>22. ASSUME NEW t \in Threads, StartAbort(t) PROVE ServeInv'
  BY <1>22 DEF StartAbort, BeginStop, AfterWait
<1>23. ASSUME NEW t \in Threads, StartFinish(t) PROVE ServeInv'
  BY <1>23 DEF StartFinish
<1>24. ASSUME NEW t \in Threads, StartUnlock(t) PROVE ServeInv'
  BY <1>24 DEF StartUnlock
<1>25. ASSUME NEW t \in Threads, StopLock(t) PROVE ServeInv'
  BY <1>25 DEF StopLock
<1>26. ASSUME NEW t \in Threads, StopFlush(t) PROVE ServeInv'
  BY <1>26 DEF StopFlush
<1>27. ASSUME NEW t \in Threads, StopBegin(t) PROVE ServeInv'
  BY <1>27 DEF StopBegin, BeginStop, AfterWait
<1>28. ASSUME NEW t \in Threads, StopForget(t) PROVE ServeInv'
  BY <1>28 DEF StopForget
<1>29. ASSUME NEW t \in Threads, StopUnlock(t) PROVE ServeInv'
  BY <1>29 DEF StopUnlock
<1>30. ASSUME NEW t \in Threads, WaitReaped(t) PROVE ServeInv'
  BY <1>30 DEF WaitReaped, AfterWait
<1>31. ASSUME NEW t \in Threads, WaitKill(t) PROVE ServeInv'
  BY <1>31 DEF WaitKill
<1>32. ASSUME NEW t \in Threads, WaitTimeout(t) PROVE ServeInv'
  BY <1>32 DEF WaitTimeout, AfterWait
<1>33. ASSUME NEW t \in Threads, HealthWrite(t) PROVE ServeInv'
  BY <1>33 DEF HealthWrite
<1>34. ASSUME NEW c \in Cores, CoreServe(c) PROVE ServeInv'
  BY <1>34 DEF CoreServe
<1>35. ASSUME NEW c \in Cores, CoreExit(c) PROVE ServeInv'
  BY <1>35 DEF CoreExit
<1>36. ASSUME NEW c \in Cores, MonitorReap(c) PROVE ServeInv'
  BY <1>36 DEF MonitorReap
<1>37. ASSUME NEW c \in Cores, MonitorClear(c) PROVE ServeInv'
  BY <1>37 DEF MonitorClear
<1>38. ASSUME RestoreLoad PROVE ServeInv'
  BY <1>38, RestoreFrame
<1>39. ASSUME RestoreCheck PROVE ServeInv'
  BY <1>39, RestoreFrame
<1>40. ASSUME RestoreRetry PROVE ServeInv'
  BY <1>40 DEF RestoreRetry
<1>41. ASSUME RestoreCancel PROVE ServeInv'
  BY <1>41 DEF RestoreCancel, RestoreEnd
<1>42. ASSUME Signal PROVE ServeInv'
  BY <1>42 DEF Signal
<1>43. ASSUME MainStop PROVE ServeInv'
  BY <1>43 DEF MainStop
<1>44. ASSUME MainExit PROVE ServeInv'
  BY <1>44 DEF MainExit, Halt
<1>45. ASSUME Crash PROVE ServeInv'
  BY <1>45 DEF Crash, Halt
<1>46. ASSUME Boot PROVE ServeInv'
  BY <1>46, BootedType DEF Boot, NoCores
<1>47. CASE UNCHANGED vars
  BY <1>47 DEF vars
<1> QED
  BY <1>1, <1>2, <1>3, <1>4, <1>5, <1>6, <1>7, <1>8, <1>9, <1>10, <1>11,
     <1>12, <1>13, <1>14, <1>15, <1>16, <1>17, <1>18, <1>19, <1>20, <1>21,
     <1>22, <1>23, <1>24, <1>25, <1>26, <1>27, <1>28, <1>29, <1>30, <1>31,
     <1>32, <1>33, <1>34, <1>35, <1>36, <1>37, <1>38, <1>39, <1>40, <1>41,
     <1>42, <1>43, <1>44, <1>45, <1>46, <1>47
  DEF Next, Request, ThreadStep, StartStep, StopStep, MonitorStep, RestoreStep

\* No start remembers a request before the stop has cleared the file.
LEMMA ForgetNext ==
  ASSUME TypeOK, LockInv, ForgetInv, [Next]_vars
  PROVE  ForgetInv'
<1>a. Restorer \in Threads /\ Main \in Threads /\ Callers \subseteq Threads
  BY DEF Threads
<1> USE <1>a, NoneAssumption, ThreadsAssumption
    DEF TypeOK, shared, cores, Goto, AfterStart, AfterStop, Held, InStart, InStop, Waiting,
        LockInv, ForgetInv, Leave
<1>1. ASSUME NEW t \in Callers, NEW r \in Requests, NEW force \in BOOLEAN, StartCall(t, r, force)
      PROVE  ForgetInv'
  BY <1>1 DEF StartCall
<1>2. ASSUME NEW t \in Callers, StopCall(t) PROVE ForgetInv'
  BY <1>2 DEF StopCall
<1>3. ASSUME NEW t \in Callers, StopIfOnline(t) PROVE ForgetInv'
  BY <1>3 DEF StopIfOnline
<1>4. ASSUME NEW t \in Callers, HealthRead(t) PROVE ForgetInv'
  BY <1>4 DEF HealthRead
<1>5. ASSUME NEW t \in Threads, StartReject(t) PROVE ForgetInv'
  BY <1>5 DEF StartReject
<1>6. ASSUME NEW t \in Threads, StartLock(t) PROVE ForgetInv'
  BY <1>6 DEF StartLock
<1>7. ASSUME NEW t \in Threads, StartMark(t) PROVE ForgetInv'
  BY <1>7 DEF StartMark
<1>8. ASSUME NEW t \in Threads, StartRead(t) PROVE ForgetInv'
  BY <1>8 DEF StartRead
<1>9. ASSUME NEW t \in Threads, StartPingOk(t) PROVE ForgetInv'
  BY <1>9 DEF StartPingOk
<1>10. ASSUME NEW t \in Threads, StartPingFailed(t) PROVE ForgetInv'
  BY <1>10 DEF StartPingFailed
<1>11. ASSUME NEW t \in Threads, StartCompare(t) PROVE ForgetInv'
  BY <1>11 DEF StartCompare
<1>12. ASSUME NEW t \in Threads, StartSkip(t) PROVE ForgetInv'
  BY <1>12 DEF StartSkip
<1>13. ASSUME NEW t \in Threads, StartPrepare(t) PROVE ForgetInv'
  BY <1>13 DEF StartPrepare
<1>14. ASSUME NEW t \in Threads, StartInstall(t) PROVE ForgetInv'
  BY <1>14 DEF StartInstall, BeginStop, AfterWait
<1>15. ASSUME NEW t \in Threads, StartSpawn(t) PROVE ForgetInv'
  BY <1>15 DEF StartSpawn
<1>16. ASSUME NEW t \in Threads, StartSpawnFailed(t) PROVE ForgetInv'
  BY <1>16 DEF StartSpawnFailed
<1>17. ASSUME NEW t \in Threads, StartAwaitReady(t) PROVE ForgetInv'
  BY <1>17 DEF StartAwaitReady
<1>18. ASSUME NEW t \in Threads, StartAwaitFailed(t) PROVE ForgetInv'
  BY <1>18 DEF StartAwaitFailed
<1>19. ASSUME NEW t \in Threads, StartOnline(t) PROVE ForgetInv'
  BY <1>19 DEF StartOnline
<1>20. ASSUME NEW t \in Threads, StartRemember(t) PROVE ForgetInv'
  BY <1>20 DEF StartRemember
<1>21. ASSUME NEW t \in Threads, StartSave(t) PROVE ForgetInv'
  BY <1>21 DEF StartSave
<1>22. ASSUME NEW t \in Threads, StartAbort(t) PROVE ForgetInv'
  BY <1>22 DEF StartAbort, BeginStop, AfterWait
<1>23. ASSUME NEW t \in Threads, StartFinish(t) PROVE ForgetInv'
  BY <1>23 DEF StartFinish
<1>24. ASSUME NEW t \in Threads, StartUnlock(t) PROVE ForgetInv'
  BY <1>24 DEF StartUnlock
<1>25. ASSUME NEW t \in Threads, StopLock(t) PROVE ForgetInv'
  BY <1>25 DEF StopLock
<1>26. ASSUME NEW t \in Threads, StopFlush(t) PROVE ForgetInv'
  BY <1>26 DEF StopFlush
<1>27. ASSUME NEW t \in Threads, StopBegin(t) PROVE ForgetInv'
  BY <1>27 DEF StopBegin, BeginStop, AfterWait
<1>28. ASSUME NEW t \in Threads, StopForget(t) PROVE ForgetInv'
  BY <1>28 DEF StopForget
<1>29. ASSUME NEW t \in Threads, StopUnlock(t) PROVE ForgetInv'
  BY <1>29 DEF StopUnlock
<1>30. ASSUME NEW t \in Threads, WaitReaped(t) PROVE ForgetInv'
  BY <1>30 DEF WaitReaped, AfterWait
<1>31. ASSUME NEW t \in Threads, WaitKill(t) PROVE ForgetInv'
  BY <1>31 DEF WaitKill
<1>32. ASSUME NEW t \in Threads, WaitTimeout(t) PROVE ForgetInv'
  BY <1>32 DEF WaitTimeout, AfterWait
<1>33. ASSUME NEW t \in Threads, HealthWrite(t) PROVE ForgetInv'
  BY <1>33 DEF HealthWrite
<1>34. ASSUME NEW c \in Cores, CoreServe(c) PROVE ForgetInv'
  BY <1>34 DEF CoreServe
<1>35. ASSUME NEW c \in Cores, CoreExit(c) PROVE ForgetInv'
  BY <1>35 DEF CoreExit
<1>36. ASSUME NEW c \in Cores, MonitorReap(c) PROVE ForgetInv'
  BY <1>36 DEF MonitorReap
<1>37. ASSUME NEW c \in Cores, MonitorClear(c) PROVE ForgetInv'
  BY <1>37 DEF MonitorClear
<1>38. ASSUME RestoreLoad PROVE ForgetInv'
  BY <1>38, RestoreFrame
<1>39. ASSUME RestoreCheck PROVE ForgetInv'
  BY <1>39, RestoreFrame
<1>40. ASSUME RestoreRetry PROVE ForgetInv'
  BY <1>40 DEF RestoreRetry
<1>41. ASSUME RestoreCancel PROVE ForgetInv'
  BY <1>41 DEF RestoreCancel, RestoreEnd
<1>42. ASSUME Signal PROVE ForgetInv'
  BY <1>42 DEF Signal
<1>43. ASSUME MainStop PROVE ForgetInv'
  BY <1>43 DEF MainStop
<1>44. ASSUME MainExit PROVE ForgetInv'
  BY <1>44 DEF MainExit, Halt
<1>45. ASSUME Crash PROVE ForgetInv'
  BY <1>45 DEF Crash, Halt
<1>46. ASSUME Boot PROVE ForgetInv'
  BY <1>46, BootedType DEF Boot, NoCores
<1>47. CASE UNCHANGED vars
  BY <1>47 DEF vars
<1> QED
  BY <1>1, <1>2, <1>3, <1>4, <1>5, <1>6, <1>7, <1>8, <1>9, <1>10, <1>11,
     <1>12, <1>13, <1>14, <1>15, <1>16, <1>17, <1>18, <1>19, <1>20, <1>21,
     <1>22, <1>23, <1>24, <1>25, <1>26, <1>27, <1>28, <1>29, <1>30, <1>31,
     <1>32, <1>33, <1>34, <1>35, <1>36, <1>37, <1>38, <1>39, <1>40, <1>41,
     <1>42, <1>43, <1>44, <1>45, <1>46, <1>47
  DEF Next, Request, ThreadStep, StartStep, StopStep, MonitorStep, RestoreStep

\* The file is written after the memory, by the owner of the lock.
LEMMA FileNext ==
  ASSUME TypeOK, LockInv, DownInv, MainInv, ForgetInv, FileInv, [Next]_vars
  PROVE  FileInv'
<1>a. Restorer \in Threads /\ Main \in Threads /\ Callers \subseteq Threads
  BY DEF Threads
<1> USE <1>a, NoneAssumption, ThreadsAssumption
    DEF TypeOK, shared, cores, Goto, AfterStart, AfterStop, Held, InStart, InStop, Waiting,
        LockInv, MainInv, ForgetInv, FileInv, WriteFile, Leave
<1>1. ASSUME NEW t \in Callers, NEW r \in Requests, NEW force \in BOOLEAN, StartCall(t, r, force)
      PROVE  FileInv'
  BY <1>1 DEF StartCall
<1>2. ASSUME NEW t \in Callers, StopCall(t) PROVE FileInv'
  BY <1>2 DEF StopCall
<1>3. ASSUME NEW t \in Callers, StopIfOnline(t) PROVE FileInv'
  BY <1>3 DEF StopIfOnline
<1>4. ASSUME NEW t \in Callers, HealthRead(t) PROVE FileInv'
  BY <1>4 DEF HealthRead
<1>5. ASSUME NEW t \in Threads, StartReject(t) PROVE FileInv'
  BY <1>5 DEF StartReject
<1>6. ASSUME NEW t \in Threads, StartLock(t) PROVE FileInv'
  BY <1>6 DEF StartLock
<1>7. ASSUME NEW t \in Threads, StartMark(t) PROVE FileInv'
  BY <1>7 DEF StartMark
<1>8. ASSUME NEW t \in Threads, StartRead(t) PROVE FileInv'
  BY <1>8 DEF StartRead
<1>9. ASSUME NEW t \in Threads, StartPingOk(t) PROVE FileInv'
  BY <1>9 DEF StartPingOk
<1>10. ASSUME NEW t \in Threads, StartPingFailed(t) PROVE FileInv'
  BY <1>10 DEF StartPingFailed
<1>11. ASSUME NEW t \in Threads, StartCompare(t) PROVE FileInv'
  BY <1>11 DEF StartCompare
<1>12. ASSUME NEW t \in Threads, StartSkip(t) PROVE FileInv'
  BY <1>12 DEF StartSkip
<1>13. ASSUME NEW t \in Threads, StartPrepare(t) PROVE FileInv'
  BY <1>13 DEF StartPrepare
<1>14. ASSUME NEW t \in Threads, StartInstall(t) PROVE FileInv'
  BY <1>14 DEF StartInstall, BeginStop, AfterWait
<1>15. ASSUME NEW t \in Threads, StartSpawn(t) PROVE FileInv'
  BY <1>15 DEF StartSpawn
<1>16. ASSUME NEW t \in Threads, StartSpawnFailed(t) PROVE FileInv'
  BY <1>16 DEF StartSpawnFailed
<1>17. ASSUME NEW t \in Threads, StartAwaitReady(t) PROVE FileInv'
  BY <1>17 DEF StartAwaitReady
<1>18. ASSUME NEW t \in Threads, StartAwaitFailed(t) PROVE FileInv'
  BY <1>18 DEF StartAwaitFailed
<1>19. ASSUME NEW t \in Threads, StartOnline(t) PROVE FileInv'
  BY <1>19 DEF StartOnline
<1>20. ASSUME NEW t \in Threads, StartRemember(t) PROVE FileInv'
  BY <1>20 DEF StartRemember
<1>21. ASSUME NEW t \in Threads, StartSave(t) PROVE FileInv'
  BY <1>21 DEF StartSave
<1>22. ASSUME NEW t \in Threads, StartAbort(t) PROVE FileInv'
  BY <1>22 DEF StartAbort, BeginStop, AfterWait
<1>23. ASSUME NEW t \in Threads, StartFinish(t) PROVE FileInv'
  BY <1>23 DEF StartFinish
<1>24. ASSUME NEW t \in Threads, StartUnlock(t) PROVE FileInv'
  BY <1>24 DEF StartUnlock
<1>25. ASSUME NEW t \in Threads, StopLock(t) PROVE FileInv'
  BY <1>25 DEF StopLock
<1>26. ASSUME NEW t \in Threads, StopFlush(t) PROVE FileInv'
  BY <1>26 DEF StopFlush
<1>27. ASSUME NEW t \in Threads, StopBegin(t) PROVE FileInv'
  BY <1>27 DEF StopBegin, BeginStop, AfterWait
<1>28. ASSUME NEW t \in Threads, StopForget(t) PROVE FileInv'
  BY <1>28 DEF StopForget
<1>29. ASSUME NEW t \in Threads, StopUnlock(t) PROVE FileInv'
  BY <1>29 DEF StopUnlock
<1>30. ASSUME NEW t \in Threads, WaitReaped(t) PROVE FileInv'
  BY <1>30 DEF WaitReaped, AfterWait
<1>31. ASSUME NEW t \in Threads, WaitKill(t) PROVE FileInv'
  BY <1>31 DEF WaitKill
<1>32. ASSUME NEW t \in Threads, WaitTimeout(t) PROVE FileInv'
  BY <1>32 DEF WaitTimeout, AfterWait
<1>33. ASSUME NEW t \in Threads, HealthWrite(t) PROVE FileInv'
  BY <1>33 DEF HealthWrite
<1>34. ASSUME NEW c \in Cores, CoreServe(c) PROVE FileInv'
  BY <1>34 DEF CoreServe
<1>35. ASSUME NEW c \in Cores, CoreExit(c) PROVE FileInv'
  BY <1>35 DEF CoreExit
<1>36. ASSUME NEW c \in Cores, MonitorReap(c) PROVE FileInv'
  BY <1>36 DEF MonitorReap
<1>37. ASSUME NEW c \in Cores, MonitorClear(c) PROVE FileInv'
  BY <1>37 DEF MonitorClear
<1>38. ASSUME RestoreLoad PROVE FileInv'
  BY <1>38, RestoreFrame
<1>39. ASSUME RestoreCheck PROVE FileInv'
  BY <1>39, RestoreFrame
<1>40. ASSUME RestoreRetry PROVE FileInv'
  BY <1>40 DEF RestoreRetry
<1>41. ASSUME RestoreCancel PROVE FileInv'
  BY <1>41 DEF RestoreCancel, RestoreEnd
<1>42. ASSUME Signal PROVE FileInv'
  BY <1>42 DEF Signal
<1>43. ASSUME MainStop PROVE FileInv'
  BY <1>43 DEF MainStop
<1>44. ASSUME MainExit PROVE FileInv'
  BY <1>44 DEF MainExit, Halt
<1>45. ASSUME Crash PROVE FileInv'
  BY <1>45 DEF Crash, Halt
<1>46. ASSUME Boot PROVE FileInv'
  <2>1. \A t \in Threads : pc'[t] \in {"idle", "restore.delay", "main.run"}
    BY <1>46, BootedType DEF Boot
  <2>2. \A t \in Threads : pc[t] = "off"
    BY <1>46 DEF Boot, DownInv
  <2>3. UNCHANGED <<shared, monitor, file, call, site, disabled>>
    BY <1>46 DEF Boot
  <2>4. \A c \in Cores : core'[c] = "none"
    BY <1>46 DEF Boot, NoCores
  <2> QED
    BY <2>1, <2>2, <2>3, <2>4
<1>47. CASE UNCHANGED vars
  BY <1>47 DEF vars
<1> QED
  BY <1>1, <1>2, <1>3, <1>4, <1>5, <1>6, <1>7, <1>8, <1>9, <1>10, <1>11,
     <1>12, <1>13, <1>14, <1>15, <1>16, <1>17, <1>18, <1>19, <1>20, <1>21,
     <1>22, <1>23, <1>24, <1>25, <1>26, <1>27, <1>28, <1>29, <1>30, <1>31,
     <1>32, <1>33, <1>34, <1>35, <1>36, <1>37, <1>38, <1>39, <1>40, <1>41,
     <1>42, <1>43, <1>44, <1>45, <1>46, <1>47
  DEF Next, Request, ThreadStep, StartStep, StopStep, MonitorStep, RestoreStep

\* Only a start of the Panel leads out of a settled stop.
LEMMA SettledNext ==
  ASSUME IInv, MainInv, ForgetInv, SettledInv, [Next]_vars
  PROVE  SettledInv'
<1>a. Restorer \in Threads /\ Main \in Threads /\ Callers \subseteq Threads
  BY DEF Threads
<1> USE <1>a, NoneAssumption, ThreadsAssumption
    DEF TypeOK, shared, cores, Goto, AfterStart, AfterStop, Held, InStart, InStop, Waiting,
        IInv, LockInv, StopInv, CoreInv, MainInv, ForgetInv, SettledInv, WriteFile, Alive, Live, Leave
<1>1. ASSUME NEW t \in Callers, NEW r \in Requests, NEW force \in BOOLEAN, StartCall(t, r, force)
      PROVE  SettledInv'
  BY <1>1 DEF StartCall
<1>2. ASSUME NEW t \in Callers, StopCall(t) PROVE SettledInv'
  BY <1>2 DEF StopCall
<1>3. ASSUME NEW t \in Callers, StopIfOnline(t) PROVE SettledInv'
  BY <1>3 DEF StopIfOnline
<1>4. ASSUME NEW t \in Callers, HealthRead(t) PROVE SettledInv'
  BY <1>4 DEF HealthRead
<1>5. ASSUME NEW t \in Threads, StartReject(t) PROVE SettledInv'
  BY <1>5 DEF StartReject
<1>6. ASSUME NEW t \in Threads, StartLock(t) PROVE SettledInv'
  <2>1. CASE t \in Callers
    BY <1>6, <2>1 DEF StartLock
  <2>2. CASE t \notin Callers /\ disabled # "settled"
    BY <1>6, <2>2 DEF StartLock
  <2>3. CASE t = Restorer /\ disabled = "settled"
    BY <1>6, <2>3 DEF StartLock
  <2>4. CASE t = Main
    BY <1>6, <2>4 DEF StartLock
  <2> QED
    BY <2>1, <2>2, <2>3, <2>4 DEF Threads
<1>7. ASSUME NEW t \in Threads, StartMark(t) PROVE SettledInv'
  BY <1>7 DEF StartMark
<1>8. ASSUME NEW t \in Threads, StartRead(t) PROVE SettledInv'
  BY <1>8 DEF StartRead
<1>9. ASSUME NEW t \in Threads, StartPingOk(t) PROVE SettledInv'
  BY <1>9 DEF StartPingOk
<1>10. ASSUME NEW t \in Threads, StartPingFailed(t) PROVE SettledInv'
  BY <1>10 DEF StartPingFailed
<1>11. ASSUME NEW t \in Threads, StartCompare(t) PROVE SettledInv'
  BY <1>11 DEF StartCompare
<1>12. ASSUME NEW t \in Threads, StartSkip(t) PROVE SettledInv'
  BY <1>12 DEF StartSkip
<1>13. ASSUME NEW t \in Threads, StartPrepare(t) PROVE SettledInv'
  BY <1>13 DEF StartPrepare
<1>14. ASSUME NEW t \in Threads, StartInstall(t) PROVE SettledInv'
  BY <1>14 DEF StartInstall, BeginStop, AfterWait
<1>15. ASSUME NEW t \in Threads, StartSpawn(t) PROVE SettledInv'
  BY <1>15 DEF StartSpawn
<1>16. ASSUME NEW t \in Threads, StartSpawnFailed(t) PROVE SettledInv'
  BY <1>16 DEF StartSpawnFailed
<1>17. ASSUME NEW t \in Threads, StartAwaitReady(t) PROVE SettledInv'
  BY <1>17 DEF StartAwaitReady
<1>18. ASSUME NEW t \in Threads, StartAwaitFailed(t) PROVE SettledInv'
  BY <1>18 DEF StartAwaitFailed
<1>19. ASSUME NEW t \in Threads, StartOnline(t) PROVE SettledInv'
  BY <1>19 DEF StartOnline
<1>20. ASSUME NEW t \in Threads, StartRemember(t) PROVE SettledInv'
  BY <1>20 DEF StartRemember
<1>21. ASSUME NEW t \in Threads, StartSave(t) PROVE SettledInv'
  BY <1>21 DEF StartSave
<1>22. ASSUME NEW t \in Threads, StartAbort(t) PROVE SettledInv'
  BY <1>22 DEF StartAbort, BeginStop, AfterWait
<1>23. ASSUME NEW t \in Threads, StartFinish(t) PROVE SettledInv'
  BY <1>23 DEF StartFinish
<1>24. ASSUME NEW t \in Threads, StartUnlock(t) PROVE SettledInv'
  BY <1>24 DEF StartUnlock
<1>25. ASSUME NEW t \in Threads, StopLock(t) PROVE SettledInv'
  BY <1>25 DEF StopLock
<1>26. ASSUME NEW t \in Threads, StopFlush(t) PROVE SettledInv'
  BY <1>26 DEF StopFlush
<1>27. ASSUME NEW t \in Threads, StopBegin(t) PROVE SettledInv'
  BY <1>27 DEF StopBegin, BeginStop, AfterWait
<1>28. ASSUME NEW t \in Threads, StopForget(t) PROVE SettledInv'
  BY <1>28 DEF StopForget
<1>29. ASSUME NEW t \in Threads, StopUnlock(t) PROVE SettledInv'
  BY <1>29 DEF StopUnlock
<1>30. ASSUME NEW t \in Threads, WaitReaped(t) PROVE SettledInv'
  BY <1>30 DEF WaitReaped, AfterWait
<1>31. ASSUME NEW t \in Threads, WaitKill(t) PROVE SettledInv'
  BY <1>31 DEF WaitKill
<1>32. ASSUME NEW t \in Threads, WaitTimeout(t) PROVE SettledInv'
  BY <1>32 DEF WaitTimeout, AfterWait
<1>33. ASSUME NEW t \in Threads, HealthWrite(t) PROVE SettledInv'
  BY <1>33 DEF HealthWrite
<1>34. ASSUME NEW c \in Cores, CoreServe(c) PROVE SettledInv'
  BY <1>34 DEF CoreServe
<1>35. ASSUME NEW c \in Cores, CoreExit(c) PROVE SettledInv'
  BY <1>35 DEF CoreExit
<1>36. ASSUME NEW c \in Cores, MonitorReap(c) PROVE SettledInv'
  BY <1>36 DEF MonitorReap
<1>37. ASSUME NEW c \in Cores, MonitorClear(c) PROVE SettledInv'
  BY <1>37 DEF MonitorClear
<1>38. ASSUME RestoreLoad PROVE SettledInv'
  BY <1>38, RestoreFrame
<1>39. ASSUME RestoreCheck PROVE SettledInv'
  BY <1>39, RestoreFrame
<1>40. ASSUME RestoreRetry PROVE SettledInv'
  BY <1>40 DEF RestoreRetry
<1>41. ASSUME RestoreCancel PROVE SettledInv'
  BY <1>41 DEF RestoreCancel, RestoreEnd
<1>42. ASSUME Signal PROVE SettledInv'
  BY <1>42 DEF Signal
<1>43. ASSUME MainStop PROVE SettledInv'
  BY <1>43 DEF MainStop
<1>44. ASSUME MainExit PROVE SettledInv'
  BY <1>44 DEF MainExit, Halt
<1>45. ASSUME Crash PROVE SettledInv'
  BY <1>45 DEF Crash, Halt
<1>46. ASSUME Boot PROVE SettledInv'
  <2>1. \A t \in Threads : pc'[t] \in {"idle", "restore.delay", "main.run"}
    BY <1>46, BootedType DEF Boot
  <2>2. \A t \in Threads : pc[t] = "off"
    BY <1>46 DEF Boot, DownInv
  <2>3. UNCHANGED <<shared, monitor, file, call, site, disabled>>
    BY <1>46 DEF Boot
  <2>4. \A c \in Cores : core'[c] = "none"
    BY <1>46 DEF Boot, NoCores
  <2>5. pc'[Restorer] = "restore.delay"
    BY <1>46 DEF Boot, Booted
  <2> QED
    BY <2>1, <2>2, <2>3, <2>4, <2>5
<1>47. CASE UNCHANGED vars
  BY <1>47 DEF vars
<1> QED
  BY <1>1, <1>2, <1>3, <1>4, <1>5, <1>6, <1>7, <1>8, <1>9, <1>10, <1>11,
     <1>12, <1>13, <1>14, <1>15, <1>16, <1>17, <1>18, <1>19, <1>20, <1>21,
     <1>22, <1>23, <1>24, <1>25, <1>26, <1>27, <1>28, <1>29, <1>30, <1>31,
     <1>32, <1>33, <1>34, <1>35, <1>36, <1>37, <1>38, <1>39, <1>40, <1>41,
     <1>42, <1>43, <1>44, <1>45, <1>46, <1>47
  DEF Next, Request, ThreadStep, StartStep, StopStep, MonitorStep, RestoreStep

\* While the agent is down no core appears; while it runs it owns the only one.
LEMMA SoleNext ==
  ASSUME IInv, IInv', SoleInv, [Next]_vars
  PROVE  SoleInv'
<1>1. CASE phase' \in Running
  BY <1>1 DEF IInv, CoreInv, SoleInv
<1>2. CASE phase' \notin Running
  <2> USE DEF shared, cores
  <2>1. ASSUME phase \in Running PROVE core' = core
    <3>1. ASSUME NEW t \in Callers, Request(t) PROVE UNCHANGED phase
      BY <3>1 DEF Request, StartCall, StopCall, StopIfOnline, HealthRead
    <3>2. ASSUME NEW t \in Threads, StartStep(t) PROVE UNCHANGED phase
      BY <3>2 DEF StartStep, StartReject, StartLock, StartMark, StartRead, StartPingOk,
         StartPingFailed, StartCompare, StartSkip, StartPrepare, StartInstall, StartSpawn,
         StartSpawnFailed, StartAwaitReady, StartAwaitFailed, StartOnline, StartRemember,
         StartSave, StartAbort, StartFinish, StartUnlock
    <3>3. ASSUME NEW t \in Threads, StopStep(t) \/ HealthWrite(t) PROVE UNCHANGED phase
      BY <3>3 DEF StopStep, StopLock, StopFlush, StopBegin, StopForget, StopUnlock,
         WaitReaped, WaitKill, WaitTimeout, HealthWrite
    <3>4. ASSUME NEW c \in Cores, CoreServe(c) \/ CoreExit(c) \/ MonitorStep(c)
          PROVE  UNCHANGED phase
      BY <3>4 DEF CoreServe, CoreExit, MonitorStep, MonitorReap, MonitorClear
    <3>5. ASSUME RestoreStep \/ MainStop \/ UNCHANGED vars PROVE UNCHANGED phase
      BY <3>5 DEF RestoreStep, RestoreLoad, RestoreCheck, RestoreRetry, RestoreCancel,
         MainStop, vars
    <3>6. MainExit \/ Crash
      BY <1>2, <2>1, <3>1, <3>2, <3>3, <3>4, <3>5
      DEF Next, ThreadStep, Signal, Boot, Running
    <3> QED
      BY <3>6 DEF MainExit, Crash, Halt
  <2>2. ASSUME phase \notin Running, NEW c \in Cores, Live(c)' PROVE Live(c)
    <3>1. /\ \A t \in Threads : pc[t] = "off"
          /\ \A t \in Callers : pc[t] = "off"
          /\ pc[Restorer] = "off" /\ pc[Main] = "off"
      BY <2>2 DEF IInv, DownInv, Threads
    <3>2. ASSUME NEW t \in Threads PROVE ~ThreadStep(t)
      <4>1. ~StartStep(t)
        BY <3>1 DEF StartStep, StartReject, StartLock, StartMark, StartRead, StartPingOk,
           StartPingFailed, StartCompare, StartSkip, StartPrepare, StartInstall, StartSpawn,
           StartSpawnFailed, StartAwaitReady, StartAwaitFailed, StartOnline, StartRemember,
           StartSave, StartAbort, StartFinish, StartUnlock
      <4>2. ~StopStep(t) /\ ~HealthWrite(t)
        BY <3>1 DEF StopStep, StopLock, StopFlush, StopBegin, StopForget, StopUnlock,
           WaitReaped, WaitKill, WaitTimeout, HealthWrite, Waiting
      <4> QED
        BY <4>1, <4>2 DEF ThreadStep
    <3>3. \A t \in Callers : ~Request(t)
      BY <3>1 DEF Request, StartCall, StopCall, StopIfOnline, HealthRead
    <3>4. \A d \in Cores : ~CoreServe(d)
      BY <2>2 DEF CoreServe
    <3>5. ~RestoreStep /\ ~Signal /\ ~MainStop /\ ~MainExit /\ ~Crash
      BY <2>2, <3>1 DEF RestoreStep, RestoreLoad, RestoreCheck, RestoreRetry, RestoreCancel,
         Signal, MainStop, MainExit, Crash, Running
    <3>6. ~Boot
      BY <1>2 DEF Boot, Running
    <3>7. ASSUME NEW d \in Cores, CoreExit(d) PROVE Live(c)
      BY <2>2, <3>7 DEF CoreExit, Live, IInv, TypeOK
    <3>8. ASSUME NEW d \in Cores, MonitorStep(d) PROVE Live(c)
      BY <2>2, <3>8 DEF MonitorStep, MonitorReap, MonitorClear, Live, IInv, TypeOK
    <3>9. CASE UNCHANGED vars
      BY <2>2, <3>9 DEF vars, Live
    <3> QED
      BY <3>2, <3>3, <3>4, <3>5, <3>6, <3>7, <3>8, <3>9 DEF Next
  <2>3. CASE phase \in Running
    BY <2>1, <2>3 DEF IInv, CoreInv, SoleInv, Live
  <2>4. CASE phase \notin Running
    BY <2>2, <2>4 DEF SoleInv
  <2> QED
    BY <2>3, <2>4
<1> QED
  BY <1>1, <1>2

-----------------------------------------------------------------------------
(* The inductive invariant, with that of XrayLifecycleProofs.              *)

MemInv == /\ MainInv
          /\ FlagInv
          /\ CallInv
          /\ ConfigInv
          /\ BootInv
          /\ SkipInv
          /\ ServeInv
          /\ ForgetInv
          /\ FileInv
          /\ SettledInv
          /\ SoleInv

\* The initial state satisfies it, whatever request the last run of the agent saved.
LEMMA InitMemInv == Init => MemInv
<1> SUFFICES ASSUME Init PROVE MemInv
  OBVIOUS
<1>1. \A t \in Threads : pc[t] \in {"idle", "restore.delay", "main.run"}
  BY BootedType DEF Init
<1>2. Main \in Threads /\ pc[Main] = "main.run"
  BY ThreadsAssumption DEF Init, Booted, Threads
<1>3. /\ process = None /\ lastStartRequest = None
      /\ startProcessing = FALSE /\ disabled = "no"
  BY DEF Init
<1>4. MainInv /\ FlagInv
  BY <1>2, <1>3 DEF MainInv, FlagInv, Waiting
<1>5. CallInv /\ ConfigInv /\ SkipInv /\ ForgetInv
  BY <1>1 DEF CallInv, ConfigInv, SkipInv, ForgetInv, InStart, Waiting
<1>6. BootInv /\ ServeInv /\ SettledInv
  BY <1>3 DEF BootInv, ServeInv, SettledInv
<1>7. FileInv
  BY <1>1, <1>3 DEF FileInv
<1>8. SoleInv
  BY DEF SoleInv, Init, NoCores, Live
<1> QED
  BY <1>4, <1>5, <1>6, <1>7, <1>8 DEF MemInv

\* Every step keeps it.
LEMMA NextMemInv == IInv /\ MemInv /\ [Next]_vars => MemInv'
<1> SUFFICES ASSUME IInv, MemInv, [Next]_vars PROVE MemInv'
  OBVIOUS
<1> USE DEF IInv, MemInv
<1>1. MainInv' /\ FlagInv'
  BY MainNext, FlagNext
<1>2. CallInv' /\ ConfigInv' /\ SkipInv' /\ ForgetInv'
  BY CallNext, ConfigNext, SkipNext, ForgetNext
<1>3. BootInv'
  BY BootNext
<1>4. ServeInv'
  BY ServeNext
<1>5. FileInv'
  BY FileNext
<1>6. SettledInv'
  BY SettledNext
<1>7. SoleInv'
  BY NextIInv, SoleNext
<1> QED
  BY <1>1, <1>2, <1>3, <1>4, <1>5, <1>6, <1>7

\* What the agent remembers is consistent in every reachable state.
THEOREM MemoryInvariant == Spec => [](IInv /\ MemInv)
<1>1. Init => IInv /\ MemInv
  BY InitIInv, InitMemInv
<1>2. IInv /\ MemInv /\ [Next]_vars => (IInv /\ MemInv)'
  BY NextIInv, NextMemInv
<1> QED
  BY <1>1, <1>2, PTL DEF Spec

-----------------------------------------------------------------------------
(* The theorems.                                                           *)

\* startProcessing is never left behind: while it is set, a Start holds
\* lifecycleMu and will reset it, be the start skipped, failed or given up.
THEOREM StartFlagIsOwnedHolds == Spec => []StartFlagIsOwned
<1>1. FlagInv => StartFlagIsOwned
  BY NoneAssumption DEF FlagInv, StartFlagIsOwned
<1> QED
  BY <1>1, MemoryInvariant, PTL DEF MemInv

\* Whatever starts were skipped, failed or aborted: between two lifecycle operations a
\* serving core has the stored hashes, and a reboot would restore its request.
THEOREM ServingIsRememberedHolds == Spec => []ServingIsRemembered
<1>1. IInv /\ MemInv => ServingIsRemembered
  <2> SUFFICES ASSUME IInv, MemInv, lifecycleMu = None, process # None,
                      core[process] = "serving"
               PROVE  /\ currentConfig # None
                      /\ lastStartRequest = currentConfig
                      /\ HashOf[running[process]] = HashOf[currentConfig]
    BY DEF ServingIsRemembered
  <2>1. \A t \in Threads : pc[t] \notin Held
    BY NoneAssumption DEF IInv, LockInv
  <2>2. \A t \in Threads : pc[t] \notin Ending \cup Unremembered
    BY <2>1 DEF Held, InStart, Ending, Unremembered
  <2> QED
    BY <2>2 DEF MemInv, ServeInv
<1> QED
  BY <1>1, MemoryInvariant, PTL

\* With a disk that works, the file follows the remembered request through starts, stops,
\* crashes and reboots.
THEOREM FileFollowsRequestHolds == Spec => []FileFollowsRequest
<1>1. IInv /\ MemInv => FileFollowsRequest
  <2> SUFFICES ASSUME IInv, MemInv, ~DiskFails, lifecycleMu = None,
                      lastStartRequest # None
               PROVE  file = lastStartRequest
    BY DEF FileFollowsRequest
  <2>1. \A t \in Threads : pc[t] # "start.save"
    BY NoneAssumption DEF IInv, LockInv, Held, InStart
  <2> QED
    BY <2>1 DEF MemInv, FileInv
<1> QED
  BY <1>1, MemoryInvariant, PTL

\* With a disk that works, a node the Panel has disabled, RestoreOnBoot being over, runs
\* no core and keeps no file until the Panel starts it: no plugin sync, no flush at
\* shutdown, no crash and no reboot brings it back.
THEOREM DisabledStaysHolds == ASSUME ~DiskFails PROVE Spec => []DisabledStays
<1>1. MemInv => DisabledStays
  BY DEF MemInv, SettledInv, DisabledStays
<1> QED
  BY <1>1, MemoryInvariant, PTL
-----------------------------------------------------------------------------
(* What the Panel may rely on: the steps are steps of ManagedNode.         *)

nodeVars == <<Node!agent, Node!node, lastStartRequest, file>>

\* The thread in Start has the request of the start in progress.
LEMMA RequestIs ==
  ASSUME IInv, NEW t \in Threads, pc[t] \in Held
  PROVE  StartRequest = IF InProgress(t) THEN call[t].req ELSE None
  BY DEF IInv, LockInv, StartRequest

\* The start in progress stays when its thread goes on within Start.
LEMMA RequestStays ==
  ASSUME lifecycleMu' = lifecycleMu,
         \A t \in Threads : lifecycleMu = t =>
           (InProgress(t)' <=> InProgress(t)) /\ (InProgress(t) => call'[t] = call[t])
  PROVE  StartRequest' = StartRequest
  BY DEF StartRequest

\* What is alive and what is served change only with the cores.
LEMMA CoresStay ==
  ASSUME UNCHANGED <<core, running>>
  PROVE  UNCHANGED <<AliveCores, ServedHashes>>
  BY DEF AliveCores, ServedHashes, Alive

\* A step that leaves the cores, what is remembered and the start in progress alone.
LEMMA NodeStays ==
  ASSUME UNCHANGED <<lifecycleMu, core, running, lastStartRequest, file>>,
         phase' \in Running <=> phase \in Running,
         \A t \in Threads : lifecycleMu = t =>
           (InProgress(t)' <=> InProgress(t)) /\ (InProgress(t) => call'[t] = call[t])
  PROVE  UNCHANGED nodeVars
<1>1. StartRequest' = StartRequest
  BY RequestStays
<1> QED
  BY <1>1, CoresStay DEF nodeVars, Node!agent, Node!node

\* What is served is what the only core runs.
LEMMA ServedBySole ==
  ASSUME SoleInv, NEW c \in Cores, Live(c)
  PROVE  /\ AliveCores = IF Alive(c) THEN {c} ELSE {}
         /\ ServedHashes = IF core[c] = "serving" THEN {HashOf[running[c]]} ELSE {}
<1>1. \A d \in Cores : Alive(d) \/ core[d] = "serving" => d = c
  BY DEF SoleInv, Live, Alive
<1>2. AliveCores = IF Alive(c) THEN {c} ELSE {}
  BY <1>1 DEF AliveCores
<1>3. {d \in Cores : core[d] = "serving"} = IF core[c] = "serving" THEN {c} ELSE {}
  BY <1>1
<1> QED
  BY <1>2, <1>3 DEF ServedHashes

\* Nothing alive serves nothing.
LEMMA ServedByNone ==
  ASSUME \A c \in Cores : ~Alive(c)
  PROVE  AliveCores = {} /\ ServedHashes = {}
  BY DEF AliveCores, ServedHashes, Alive

\* A core that nobody waits for or is about to stop serves the stored configuration.
LEMMA ServedIsStored ==
  ASSUME IInv, MemInv, phase \in Running,
         \A t \in Threads : pc[t] \notin Ending \cup {"start.await"}
  PROVE  \/ AliveCores = {}
         \/ /\ currentConfig # None /\ ServedHashes = {HashOf[currentConfig]}
            /\ (\A t \in Threads : pc[t] \notin Unremembered)
                 => lastStartRequest = currentConfig
<1>1. CASE \A c \in Cores : ~Alive(c)
  BY <1>1, ServedByNone
<1>2. ASSUME NEW c \in Cores, Alive(c)
      PROVE  /\ currentConfig # None /\ ServedHashes = {HashOf[currentConfig]}
             /\ (\A t \in Threads : pc[t] \notin Unremembered)
                  => lastStartRequest = currentConfig
  <2>1. Live(c) /\ process = c
    BY <1>2 DEF IInv, CoreInv, Live, Alive
  <2>2. core[c] # "booting"
    BY <2>1, NoneAssumption DEF MemInv, BootInv, Ending
  <2>3. core[c] = "serving"
    BY <1>2, <2>2 DEF Alive
  <2>4. /\ currentConfig # None /\ HashOf[running[c]] = HashOf[currentConfig]
        /\ (\A t \in Threads : pc[t] \notin Unremembered)
             => lastStartRequest = currentConfig
    BY <2>1, <2>3, NoneAssumption DEF MemInv, ServeInv, Ending
  <2> QED
    BY <2>1, <2>3, <2>4, ServedBySole DEF MemInv
<1> QED
  BY <1>1, <1>2

\* Every step of a thread, a core or the agent is a step of the abstract node, or is
\* invisible there.
LEMMA NodeNext ==
  ASSUME IInv, IInv', MemInv, [Next]_vars
  PROVE  [Node!Next]_nodeVars
<1>a. Restorer \in Threads /\ Main \in Threads /\ Callers \subseteq Threads
  BY DEF Threads
<1> DEFINE Hidden == UNCHANGED nodeVars
<1> USE <1>a, NoneAssumption, ThreadsAssumption
    DEF shared, cores, Goto, AfterStart, AfterStop, Held, InStart, InStop, Waiting, InProgress
<1>b. TypeOK
  BY DEF IInv
<1>1. ASSUME NEW t \in Callers, NEW r \in Requests, NEW force \in BOOLEAN, StartCall(t, r, force)
      PROVE  Hidden
  BY <1>1, <1>b, NodeStays DEF TypeOK, StartCall
<1>2. ASSUME NEW t \in Callers, StopCall(t) PROVE Hidden
  BY <1>2, <1>b, NodeStays DEF TypeOK, StopCall
<1>3. ASSUME NEW t \in Callers, StopIfOnline(t) PROVE Hidden
  BY <1>3, <1>b, NodeStays DEF TypeOK, StopIfOnline
<1>4. ASSUME NEW t \in Callers, HealthRead(t) PROVE Hidden
  BY <1>4, <1>b, NodeStays DEF TypeOK, HealthRead
<1>5. ASSUME NEW t \in Threads, StartReject(t) PROVE Hidden
  BY <1>5, <1>b, NodeStays DEF TypeOK, StartReject, Leave
<1>6. ASSUME NEW t \in Threads, StartMark(t) PROVE Hidden
  BY <1>6, <1>b, NodeStays DEF TypeOK, StartMark
<1>7. ASSUME NEW t \in Threads, StartRead(t) PROVE Hidden
  BY <1>7, <1>b, NodeStays DEF TypeOK, StartRead
<1>8. ASSUME NEW t \in Threads, StartPingOk(t) PROVE Hidden
  BY <1>8, <1>b, NodeStays DEF TypeOK, StartPingOk
<1>9. ASSUME NEW t \in Threads, StartPingFailed(t) PROVE Hidden
  BY <1>9, <1>b, NodeStays DEF TypeOK, StartPingFailed
<1>10. ASSUME NEW t \in Threads, StartCompare(t) PROVE Hidden
  BY <1>10, <1>b, NodeStays DEF TypeOK, StartCompare
<1>11. ASSUME NEW t \in Threads, StartSkip(t) PROVE Hidden
  BY <1>11, <1>b, NodeStays DEF TypeOK, StartSkip
<1>12. ASSUME NEW t \in Threads, StartPrepare(t) PROVE Hidden
  BY <1>12, <1>b, NodeStays DEF TypeOK, StartPrepare
<1>13. ASSUME NEW t \in Threads, StartInstall(t) PROVE Hidden
  BY <1>13, <1>b, NodeStays DEF TypeOK, StartInstall, BeginStop, AfterWait
<1>14. ASSUME NEW t \in Threads, StartSpawnFailed(t) PROVE Hidden
  BY <1>14, <1>b, NodeStays DEF TypeOK, StartSpawnFailed
<1>15. ASSUME NEW t \in Threads, StartAwaitReady(t) PROVE Hidden
  BY <1>15, <1>b, NodeStays DEF TypeOK, StartAwaitReady
<1>16. ASSUME NEW t \in Threads, StartAwaitFailed(t) PROVE Hidden
  BY <1>16, <1>b, NodeStays DEF TypeOK, StartAwaitFailed
<1>17. ASSUME NEW t \in Threads, StartOnline(t) PROVE Hidden
  BY <1>17, <1>b, NodeStays DEF TypeOK, StartOnline
<1>18. ASSUME NEW t \in Threads, StartAbort(t) PROVE Hidden
  BY <1>18, <1>b, NodeStays DEF TypeOK, StartAbort, BeginStop, AfterWait
<1>19. ASSUME NEW t \in Threads, StartFinish(t) PROVE Hidden
  BY <1>19, <1>b, NodeStays DEF TypeOK, StartFinish
<1>20. ASSUME NEW t \in Threads, HealthWrite(t) PROVE Hidden
  BY <1>20, <1>b, NodeStays DEF TypeOK, HealthWrite, Leave
<1>21. ASSUME NEW c \in Cores, MonitorReap(c) PROVE Hidden
  BY <1>21, <1>b, NodeStays DEF TypeOK, MonitorReap
<1>22. ASSUME RestoreLoad PROVE Hidden
  <2>1. ASSUME NEW t \in Threads
        PROVE  (InProgress(t)' <=> InProgress(t)) /\ (InProgress(t) => call'[t] = call[t])
    BY <1>22, <1>b, RestoreFrame DEF TypeOK
  <2>2. UNCHANGED <<phase, lifecycleMu, core, running, lastStartRequest, file>>
    BY <1>22, <1>b, RestoreFrame
  <2> QED
    BY <2>1, <2>2, NodeStays
<1>23. ASSUME RestoreCheck PROVE Hidden
  <2>1. ASSUME NEW t \in Threads
        PROVE  (InProgress(t)' <=> InProgress(t)) /\ (InProgress(t) => call'[t] = call[t])
    BY <1>23, <1>b, RestoreFrame DEF TypeOK
  <2>2. UNCHANGED <<phase, lifecycleMu, core, running, lastStartRequest, file>>
    BY <1>23, <1>b, RestoreFrame
  <2> QED
    BY <2>1, <2>2, NodeStays
<1>24. ASSUME RestoreRetry PROVE Hidden
  BY <1>24, <1>b, NodeStays DEF TypeOK, RestoreRetry
<1>25. ASSUME RestoreCancel PROVE Hidden
  BY <1>25, <1>b, NodeStays DEF TypeOK, RestoreCancel, RestoreEnd
<1>26. ASSUME Signal PROVE Hidden
  BY <1>26, <1>b, NodeStays DEF TypeOK, Signal, Running, MemInv, MainInv
<1>27. ASSUME MainStop PROVE Hidden
  BY <1>27, <1>b, NodeStays DEF TypeOK, MainStop
<1>28. ASSUME UNCHANGED vars PROVE Hidden
  BY <1>28, NodeStays DEF vars
<1> USE DEF Node!agent, Node!node
<1>c. ASSUME NEW t \in Threads, pc[t] \in Held PROVE phase \in Running
  BY <1>c DEF IInv, DownInv
<1>29. ASSUME NEW t \in Threads, StopLock(t) PROVE Hidden
  <2>1. StartRequest = None
    BY <1>29 DEF StopLock, StartRequest
  <2>2. StartRequest' = None
    BY <1>29, <1>b DEF StopLock, StartRequest, TypeOK
  <2>3. UNCHANGED <<phase, core, running, lastStartRequest, file>>
    BY <1>29 DEF StopLock
  <2> QED
    BY <2>1, <2>2, <2>3, CoresStay DEF nodeVars
<1>30. ASSUME NEW t \in Threads, StopUnlock(t) PROVE Hidden
  <2>1. StartRequest = None
    BY <1>30, RequestIs DEF StopUnlock
  <2>2. StartRequest' = None
    BY <1>30 DEF StopUnlock, StartRequest
  <2>3. UNCHANGED <<phase, core, running, lastStartRequest, file>>
    BY <1>30 DEF StopUnlock
  <2> QED
    BY <2>1, <2>2, <2>3, CoresStay DEF nodeVars
<1>31. ASSUME NEW t \in Threads, StartLock(t) PROVE Node!Begin
  <2>1. StartRequest = None
    BY <1>31 DEF StartLock, StartRequest
  <2>2. StartRequest' = call[t].req
    BY <1>31, <1>b DEF StartLock, StartRequest, TypeOK
  <2>3. call[t].req \in Requests /\ phase \in Running
    BY <1>31 DEF StartLock, MemInv, CallInv, IInv, DownInv
  <2>4. UNCHANGED <<phase, core, running, lastStartRequest, file>>
    BY <1>31 DEF StartLock
  <2> QED
    BY <2>1, <2>2, <2>3, <2>4, CoresStay DEF Node!Begin
<1>32. ASSUME NEW t \in Threads, StartSpawn(t) PROVE Node!Spawn
  <2>1. StartRequest = call[t].req /\ call[t].req \in Requests
    BY <1>32, RequestIs DEF StartSpawn, MemInv, CallInv
  <2>2. StartRequest' = StartRequest
    BY <1>32, <1>b, RequestStays DEF StartSpawn, TypeOK
  <2>3. \A c \in Cores : ~Live(c)
    BY <1>32, <1>c DEF StartSpawn, IInv, SpawnInv, CoreInv
  <2>4. AliveCores = {} /\ ServedHashes = {}
    BY <2>3, ServedByNone DEF Live, Alive
  <2>5. PICK c \in Cores : core' = [core EXCEPT ![c] = "booting"]
    BY <1>32 DEF StartSpawn
  <2>6. AliveCores' = {c}
    BY <2>3, <2>5, <1>b DEF AliveCores, Alive, Live, TypeOK
  <2>7. ServedHashes' = {}
    BY <2>3, <2>5, <1>b DEF ServedHashes, Live, TypeOK
  <2>8. UNCHANGED <<phase, lastStartRequest, file>>
    BY <1>32 DEF StartSpawn
  <2> QED
    BY <2>1, <2>2, <2>4, <2>6, <2>7, <2>8 DEF Node!Spawn
<1>33. ASSUME NEW c \in Cores, CoreServe(c) PROVE Node!Serve
  <2>1. Live(c) /\ process = c
    BY <1>33 DEF CoreServe, Live, IInv, CoreInv
  <2>2. PICK u \in Threads : pc[u] \in {"start.await", "start.abort"}
    BY <1>33, <2>1 DEF CoreServe, MemInv, BootInv, IInv, MuInv
  <2>3. StartRequest = currentConfig /\ currentConfig # None
    BY <1>33, <2>2, RequestIs DEF CoreServe, MemInv, ConfigInv
  <2>4. StartRequest' = StartRequest
    BY <1>33, RequestStays DEF CoreServe
  <2>5. AliveCores = {c} /\ ServedHashes = {}
    BY <1>33, <2>1, ServedBySole DEF CoreServe, MemInv, Alive
  <2>6. \A d \in Cores : core'[d] \in {"booting", "serving"} <=> d = c
    BY <1>33, <1>b, <2>1 DEF CoreServe, MemInv, SoleInv, Live, TypeOK
  <2>7. core'[c] = "serving" /\ running'[c] = currentConfig
    BY <1>33, <1>b DEF CoreServe, TypeOK
  <2>8. AliveCores' = AliveCores
    BY <2>5, <2>6 DEF AliveCores, Alive
  <2>9. {d \in Cores : core'[d] = "serving"} = {c}
    BY <2>6, <2>7
  <2>10. ServedHashes' = {HashOf[currentConfig]}
    BY <2>7, <2>9 DEF ServedHashes
  <2>11. UNCHANGED <<phase, lastStartRequest, file>>
    BY <1>33 DEF CoreServe
  <2> QED
    BY <2>3, <2>4, <2>5, <2>8, <2>10, <2>11 DEF Node!Serve
<1>34. ASSUME NEW t \in Threads, StartRemember(t) PROVE Node!Remember
  <2>1. StartRequest = call[t].req /\ call[t].req \in Requests
    BY <1>34, RequestIs DEF StartRemember, MemInv, CallInv
  <2>2. StartRequest' = StartRequest
    BY <1>34, <1>b, RequestStays DEF StartRemember, TypeOK
  <2>3. \A u \in Threads : pc[u] \notin Ending \cup {"start.await"}
    BY <1>34 DEF StartRemember, IInv, LockInv, Ending
  <2>4. currentConfig = call[t].req
    BY <1>34 DEF StartRemember, MemInv, ConfigInv
  <2>5. AliveCores = {} \/ ServedHashes = {HashOf[StartRequest]}
    BY <1>34, <1>c, <2>1, <2>3, <2>4, ServedIsStored DEF StartRemember
  <2>6. UNCHANGED <<phase, core, running, file>> /\ lastStartRequest' = call[t].req
    BY <1>34 DEF StartRemember
  <2> QED
    BY <2>1, <2>2, <2>5, <2>6, CoresStay DEF Node!Remember, Node!Served
<1>35. ASSUME NEW t \in Threads, StartSave(t) PROVE Node!Save \/ Hidden
  <2>1. lastStartRequest = call[t].req /\ call[t].req \in Requests
    BY <1>35 DEF StartSave, MemInv, FileInv, CallInv
  <2>2. StartRequest' = StartRequest
    BY <1>35, <1>b, RequestStays DEF StartSave, TypeOK
  <2>3. /\ UNCHANGED <<phase, core, running, lastStartRequest>>
        /\ file' = call[t].req \/ file' = file
    BY <1>35 DEF StartSave, WriteFile
  <2> QED
    BY <2>1, <2>2, <2>3, CoresStay DEF Node!Save, nodeVars
<1>36. ASSUME NEW t \in Threads, StartUnlock(t) PROVE Node!End
  <2>1. StartRequest' = None
    BY <1>36 DEF StartUnlock, StartRequest
  <2>2. \A u \in Threads : pc[u] \notin Ending \cup Unremembered
    BY <1>36 DEF StartUnlock, IInv, LockInv, Ending, Unremembered
  <2>3. \/ AliveCores = {}
        \/ lastStartRequest # None /\ ServedHashes = {HashOf[lastStartRequest]}
    BY <1>36, <1>c, <2>2, ServedIsStored DEF StartUnlock, Unremembered
  <2>4. UNCHANGED <<phase, core, running, lastStartRequest, file>>
    BY <1>36 DEF StartUnlock
  <2> QED
    BY <2>1, <2>3, <2>4, CoresStay DEF Node!End, Node!Served
<1>37. ASSUME NEW t \in Threads, StopFlush(t) PROVE Node!Save \/ Hidden
  <2>1. StartRequest' = StartRequest
    BY <1>37, <1>b, RequestStays DEF StopFlush, TypeOK
  <2>2. /\ UNCHANGED <<phase, core, running, lastStartRequest>>
        /\ file' = file \/ (lastStartRequest # None /\ file' = lastStartRequest)
    BY <1>37 DEF StopFlush, WriteFile
  <2> QED
    BY <2>1, <2>2, CoresStay DEF Node!Save, nodeVars
<1>38. ASSUME NEW t \in Threads, StopBegin(t) PROVE Node!Forget \/ Hidden
  <2>1. StartRequest = None
    BY <1>38, RequestIs DEF StopBegin
  <2>2. StartRequest' = StartRequest
    BY <1>38, <1>b, RequestStays DEF StopBegin, BeginStop, AfterWait, TypeOK
  <2>3. UNCHANGED <<phase, core, running, file>>
    BY <1>38 DEF StopBegin
  <2>4. \/ UNCHANGED lastStartRequest
        \/ process = None /\ lastStartRequest' = None
    BY <1>38 DEF StopBegin
  <2>5. process = None => AliveCores = {}
    BY <1>38, <1>c DEF StopBegin, IInv, CoreInv, Live, Alive, AliveCores
  <2> QED
    BY <2>1, <2>2, <2>3, <2>4, <2>5, CoresStay DEF Node!Forget, nodeVars
<1>39. ASSUME NEW t \in Threads, StopForget(t) PROVE Node!Erase \/ Hidden
  <2>1. StartRequest = None
    BY <1>39, RequestIs DEF StopForget
  <2>2. StartRequest' = StartRequest
    BY <1>39, <1>b, RequestStays DEF StopForget, TypeOK
  <2>3. AliveCores = {} /\ lastStartRequest = None
    BY <1>39, ServedByNone DEF StopForget, IInv, StopInv, MemInv, ForgetInv
  <2>4. /\ UNCHANGED <<phase, core, running, lastStartRequest>>
        /\ file' = None \/ file' = file
    BY <1>39 DEF StopForget, WriteFile
  <2> QED
    BY <2>1, <2>2, <2>3, <2>4, CoresStay DEF Node!Erase, nodeVars
<1>40. ASSUME NEW t \in Threads, WaitReaped(t) PROVE Node!Forget \/ Hidden
  <2>1. site[t] # "stop" => pc'[t] \in {"start.spawn", "start.finish"}
    BY <1>40, <1>b DEF WaitReaped, AfterWait, TypeOK, Sites
  <2>2. site[t] = "stop" => pc'[t] \in {"stop.forget", "stop.unlock"}
    BY <1>40, <1>b DEF WaitReaped, AfterWait, TypeOK, Sites
  <2>3. /\ pc[t] \in Waiting
        /\ \A u \in Threads \ {t} : pc'[u] = pc[u] /\ site'[u] = site[u]
    BY <1>40, <1>b DEF WaitReaped, TypeOK
  <2>4. /\ UNCHANGED <<phase, lifecycleMu, core, running, file, call>>
        /\ UNCHANGED lastStartRequest \/ (site[t] = "stop" /\ lastStartRequest' = None)
    BY <1>40 DEF WaitReaped
  <2>5. \A u \in Threads : InProgress(u)' <=> InProgress(u)
    BY <2>1, <2>2, <2>3
  <2>6. StartRequest' = StartRequest
    BY <2>4, <2>5, RequestStays
  <2>7. site[t] = "stop" => StartRequest = None
    BY <2>3, RequestIs
  <2>8. AliveCores = {}
    BY <1>40, <1>c, <2>3 DEF WaitReaped, IInv, CoreInv, StopInv, Live, Alive, AliveCores
  <2> QED
    BY <2>4, <2>6, <2>7, <2>8, CoresStay DEF Node!Forget, nodeVars
<1>41. ASSUME NEW t \in Threads, WaitTimeout(t) PROVE Node!Forget \/ Hidden
  <2>1. site[t] # "stop" => pc'[t] \in {"start.spawn", "start.finish"}
    BY <1>41, <1>b DEF WaitTimeout, AfterWait, TypeOK, Sites
  <2>2. site[t] = "stop" => pc'[t] \in {"stop.forget", "stop.unlock"}
    BY <1>41, <1>b DEF WaitTimeout, AfterWait, TypeOK, Sites
  <2>3. /\ pc[t] \in Waiting
        /\ \A u \in Threads \ {t} : pc'[u] = pc[u] /\ site'[u] = site[u]
    BY <1>41, <1>b DEF WaitTimeout, TypeOK
  <2>4. /\ UNCHANGED <<phase, lifecycleMu, core, running, file, call>>
        /\ UNCHANGED lastStartRequest \/ (site[t] = "stop" /\ lastStartRequest' = None)
    BY <1>41 DEF WaitTimeout
  <2>5. \A u \in Threads : InProgress(u)' <=> InProgress(u)
    BY <2>1, <2>2, <2>3
  <2>6. StartRequest' = StartRequest
    BY <2>4, <2>5, RequestStays
  <2>7. site[t] = "stop" => StartRequest = None
    BY <2>3, RequestIs
  <2>8. AliveCores = {}
    BY <1>41, <1>c, <2>3 DEF WaitTimeout, IInv, CoreInv, StopInv, Live, Alive, AliveCores
  <2> QED
    BY <2>4, <2>6, <2>7, <2>8, CoresStay DEF Node!Forget, nodeVars
<1>42. ASSUME NEW t \in Threads, WaitKill(t) PROVE Node!Exit
  <2>1. StartRequest' = StartRequest
    BY <1>42, <1>b, RequestStays DEF WaitKill, TypeOK
  <2>2. \A c \in Cores : core'[c] \notin {"booting", "serving"}
    BY <1>42, <1>b, <1>c DEF WaitKill, IInv, CoreInv, Live, TypeOK
  <2>3. AliveCores' = {} /\ ServedHashes' = {}
    BY <2>2 DEF AliveCores, ServedHashes, Alive
  <2>4. UNCHANGED <<phase, lastStartRequest, file>>
    BY <1>42 DEF WaitKill
  <2> QED
    BY <2>1, <2>3, <2>4 DEF Node!Exit
<1>43. ASSUME NEW c \in Cores, CoreExit(c) PROVE Node!Exit
  <2>1. StartRequest' = StartRequest
    BY <1>43, RequestStays DEF CoreExit
  <2>2. \A d \in Cores : core'[d] \notin {"booting", "serving"}
    BY <1>43, <1>b DEF CoreExit, MemInv, SoleInv, Live, TypeOK
  <2>3. AliveCores' = {} /\ ServedHashes' = {}
    BY <2>2 DEF AliveCores, ServedHashes, Alive
  <2>4. UNCHANGED <<phase, lastStartRequest, file>>
    BY <1>43 DEF CoreExit
  <2> QED
    BY <2>1, <2>3, <2>4 DEF Node!Exit
<1>44. ASSUME NEW c \in Cores, MonitorClear(c) PROVE Node!Exit \/ Hidden
  <2>1. StartRequest' = StartRequest
    BY <1>44, RequestStays DEF MonitorClear
  <2>2. UNCHANGED <<phase, lastStartRequest, file>>
    BY <1>44 DEF MonitorClear
  <2>3. CASE Live(c)
    <3>1. \A d \in Cores : core'[d] \notin {"booting", "serving"}
      BY <1>44, <1>b, <2>3 DEF MonitorClear, MemInv, SoleInv, Live, TypeOK
    <3>2. AliveCores' = {} /\ ServedHashes' = {}
      BY <3>1 DEF AliveCores, ServedHashes, Alive
    <3> QED
      BY <2>1, <2>2, <3>2 DEF Node!Exit
  <2>4. CASE ~Live(c)
    <3>1. \A d \in Cores : /\ core'[d] = "booting" <=> core[d] = "booting"
                           /\ core'[d] = "serving" <=> core[d] = "serving"
                           /\ core[d] = "serving" => running'[d] = running[d]
      BY <1>44, <1>b, <2>4 DEF MonitorClear, Live, TypeOK
    <3>2. AliveCores' = AliveCores
      BY <3>1 DEF AliveCores, Alive
    <3>3. ServedHashes' = ServedHashes
      BY <3>1 DEF ServedHashes
    <3> QED
      BY <2>1, <2>2, <3>2, <3>3 DEF nodeVars
  <2> QED
    BY <2>3, <2>4
<1>45. ASSUME NEW how \in {"exited", "crashed"}, Halt(how) PROVE Node!Die
  <2>1. StartRequest' = None
    BY <1>45 DEF Halt, StartRequest
  <2>2. /\ UNCHANGED <<core, running, file>> /\ lastStartRequest' = None
        /\ phase' \notin Running
    BY <1>45 DEF Halt, Running
  <2> QED
    BY <2>1, <2>2, CoresStay DEF Node!Die
<1>46. ASSUME Boot PROVE Node!Boot
  <2>1. /\ phase \notin Running /\ phase' \in Running
        /\ UNCHANGED <<lifecycleMu, lastStartRequest, file, call>>
    BY <1>46 DEF Boot, Running
  <2>2. \A t \in Threads : ~InProgress(t) /\ ~InProgress(t)'
    BY <1>46, BootedType DEF Boot, IInv, DownInv
  <2>3. StartRequest' = StartRequest
    BY <2>1, <2>2, RequestStays
  <2>4. AliveCores' = {} /\ ServedHashes' = {}
    BY <1>46 DEF Boot, NoCores, AliveCores, ServedHashes, Alive
  <2> QED
    BY <2>1, <2>3, <2>4 DEF Node!Boot
<1> HIDE DEF Hidden
<1>d. ASSUME NEW t \in Callers, Request(t) PROVE Hidden
  BY <1>d, <1>1, <1>2, <1>3, <1>4 DEF Request
<1>e. ASSUME NEW t \in Threads, StartStep(t) PROVE Node!Next \/ Hidden
  BY <1>e, <1>5, <1>6, <1>7, <1>8, <1>9, <1>10, <1>11,
     <1>12, <1>13, <1>14, <1>15, <1>16, <1>17, <1>18, <1>19,
     <1>31, <1>32, <1>34, <1>35, <1>36 DEF StartStep, Node!Next
<1>f. ASSUME NEW t \in Threads, StopStep(t) PROVE Node!Next \/ Hidden
  BY <1>f, <1>29, <1>30, <1>37, <1>38, <1>39, <1>40, <1>41, <1>42 DEF StopStep, Node!Next
<1>g. ASSUME NEW c \in Cores, CoreServe(c) \/ CoreExit(c) \/ MonitorStep(c)
      PROVE  Node!Next \/ Hidden
  BY <1>g, <1>21, <1>33, <1>43, <1>44 DEF MonitorStep, Node!Next
<1>h. ASSUME RestoreStep \/ Signal \/ MainStop \/ MainExit \/ Crash \/ Boot
      PROVE  Node!Next \/ Hidden
  BY <1>h, <1>22, <1>23, <1>24, <1>25, <1>26, <1>27, <1>45, <1>46
  DEF RestoreStep, MainExit, Crash, Node!Next
<1>i. Node!Next \/ Hidden
  BY <1>20, <1>28, <1>d, <1>e, <1>f, <1>g, <1>h DEF Next, ThreadStep
<1> QED
  BY <1>i DEF Hidden

\* However the goroutines, the core and the service manager interleave, the agent keeps
\* what it promises the Panel: one core at most, run for a start and with its hashes; a
\* start that ends with the core down or serving what a reboot would restore; nothing
\* forgotten or erased while a core is alive.
THEOREM ImplementsNodeHolds == Spec => ImplementsNode
<1>1. Init => Node!Init
  <2> SUFFICES ASSUME Init PROVE Node!Init
    OBVIOUS
  <2>1. StartRequest = None
    BY NoneAssumption DEF Init, StartRequest
  <2>2. AliveCores = {} /\ ServedHashes = {}
    BY ServedByNone DEF Init, NoCores, Alive
  <2> QED
    BY <2>1, <2>2 DEF Init, Node!Init, Running
<1>2. (IInv /\ MemInv) /\ (IInv /\ MemInv)' /\ [Next]_vars => [Node!Next]_nodeVars
  BY NodeNext
<1> QED
  BY <1>1, <1>2, MemoryInvariant, PTL DEF Spec, ImplementsNode, Node!Spec, nodeVars

\* So between two operations of a running agent, no core is alive or the one that is
\* serves the request that a reboot would restore.
THEOREM AtRestHolds == Spec => []Node!AtRest
<1> USE DEF Node!AtRest, Node!Served
<1>1. Node!Init => Node!AtRest
  BY DEF Node!Init
<1>2. Node!AtRest /\ [Node!Next]_nodeVars => Node!AtRest'
  BY NoneAssumption
  DEF nodeVars, Node!agent, Node!node, Node!Next, Node!Begin, Node!Spawn, Node!Serve,
      Node!Exit, Node!Remember, Node!Save, Node!End, Node!Forget, Node!Erase, Node!Die,
      Node!Boot
<1> QED
  BY <1>1, <1>2, ImplementsNodeHolds, PTL DEF ImplementsNode, Node!Spec, nodeVars

=============================================================================
