------------------------------ MODULE Geocheck ------------------------------
(***************************************************************************)
(* The geocheck of internal/stats/geocheck.go: a request runs an external  *)
(* program, one at a time, for at most 45 seconds, and keeps what it       *)
(* writes to its two outputs up to a limit each.  A report is made of the  *)
(* output only when the program succeeded and all of it was kept.  Sizes   *)
(* are counted in units.                                                   *)
(***************************************************************************)
EXTENDS Naturals

CONSTANTS
  Callers,  \* requests at work at once
  Limits,   \* geocheckMaxOutput and geocheckMaxStderr, of stdout and stderr
  MaxOutput \* bound: what a program writes to each

ASSUME LimitsAssumption == Limits \in [{"stdout", "stderr"} -> Nat] /\ MaxOutput \in Nat

VARIABLES
  running, \* geocheckService.running
  request, \* of each handler: where it is and what it answers
  child,   \* of each handler: the program it runs
  buffer,  \* of each handler: the limitedBuffer of each output
  wrote    \* of each handler: what its program wrote to each output

geocheckVars == <<running, request, child, buffer, wrote>>

Outputs == {"stdout", "stderr"}
NewBuffer(o) == [kept |-> 0, remaining |-> Limits[o], full |-> FALSE]
NoOutput == [o \in Outputs |-> 0]

GeocheckInit ==
  /\ running = FALSE
  /\ request = [h \in Callers |-> [pc |-> "idle", answer |-> "none"]]
  /\ child = [h \in Callers |-> "none"]
  /\ buffer = [h \in Callers |-> [o \in Outputs |-> NewBuffer(o)]]
  /\ wrote = [h \in Callers |-> NoOutput]

Goto(h, pc, answer) == request' = [request EXCEPT ![h] = [pc |-> pc, answer |-> answer]]

\* HandleGetGeocheck up to the claim; a body that is not valid changes nothing.
TakeRequest(h) ==
  /\ request[h].pc = "idle"
  /\ Goto(h, "claim", "none")
  /\ wrote' = [wrote EXCEPT ![h] = NoOutput]
  /\ UNCHANGED <<running, child, buffer>>

\* CompareAndSwap.
Claim(h) ==
  /\ request[h].pc = "claim"
  /\ IF running
     THEN Goto(h, "reply", "busy") /\ UNCHANGED running
     ELSE running' = TRUE /\ Goto(h, "start", "none")
  /\ UNCHANGED <<child, buffer, wrote>>

Start(h) ==
  /\ request[h].pc = "start"
  /\ child' = [child EXCEPT ![h] = "runs"]
  /\ buffer' = [buffer EXCEPT ![h] = [o \in Outputs |-> NewBuffer(o)]]
  /\ Goto(h, "wait", "none")
  /\ UNCHANGED <<running, wrote>>

\* Mutant: the flag stays when the program cannot be run.
StartFailsBusy(h) ==
  /\ request[h].pc = "start"
  /\ Goto(h, "reply", "failed")
  /\ UNCHANGED <<running, child, buffer, wrote>>

\* The program is missing, or the request has already ended.
StartFails(h) ==
  /\ request[h].pc = "start"
  /\ Goto(h, "release", "failed")
  /\ UNCHANGED <<running, child, buffer, wrote>>

\* Mutant: what does not fit is dropped without an error.
WriteDropping(b, n) ==
  LET fits == IF n > b.remaining THEN b.remaining ELSE n
  IN [b EXCEPT !.kept = @ + fits, !.remaining = @ - fits]

\* Mutant: the piece that does not fit is kept whole, beyond the limit.
WriteWhole(b, n) ==
  IF b.full THEN b
  ELSE IF n > b.remaining
       THEN [kept |-> b.kept + n, remaining |-> 0, full |-> TRUE]
       ELSE [b EXCEPT !.kept = @ + n, !.remaining = @ - n]

\* limitedBuffer.Write: the part that fits is kept, and the error stays.
Write(b, n) ==
  IF b.full THEN b
  ELSE IF n > b.remaining
       THEN [kept |-> b.kept + b.remaining, remaining |-> 0, full |-> TRUE]
       ELSE [b EXCEPT !.kept = @ + n, !.remaining = @ - n]

\* The program writes n units; os/exec copies them to the buffer.
Output(h, o, n) ==
  /\ child[h] = "runs" /\ wrote[h][o] + n <= MaxOutput
  /\ wrote' = [wrote EXCEPT ![h][o] = @ + n]
  /\ buffer' = [buffer EXCEPT ![h][o] = Write(@, n)]
  /\ UNCHANGED <<running, request, child>>

\* It ends; after an output was closed on it, it may have failed or not.
Exit(h) ==
  /\ child[h] = "runs"
  /\ \E code \in {"succeeded", "failed"} : child' = [child EXCEPT ![h] = code]
  /\ UNCHANGED <<running, request, buffer, wrote>>

\* The deadline, or the Panel has gone: the program is killed.
Kill(h) ==
  /\ child[h] = "runs"
  /\ child' = [child EXCEPT ![h] = "killed"]
  /\ UNCHANGED <<running, request, buffer, wrote>>

Accepted(h) == child[h] = "succeeded" /\ \A o \in Outputs : ~buffer[h][o].full

\* cmd.Run returns and execute goes on: the output may be no valid report.
Wait(h) ==
  /\ request[h].pc = "wait" /\ child[h] \in {"succeeded", "failed", "killed"}
  /\ \E answer \in IF Accepted(h) THEN {"report", "failed"} ELSE {"failed"} :
       Goto(h, "release", answer)
  /\ child' = [child EXCEPT ![h] = "none"]
  /\ UNCHANGED <<running, buffer, wrote>>

\* The deferred Store.
Release(h) ==
  /\ request[h].pc = "release"
  /\ running' = FALSE /\ Goto(h, "reply", request[h].answer)
  /\ UNCHANGED <<child, buffer, wrote>>

Reply(h) ==
  /\ request[h].pc = "reply"
  /\ Goto(h, "idle", "none")
  /\ buffer' = [buffer EXCEPT ![h] = [o \in Outputs |-> NewBuffer(o)]]
  /\ wrote' = [wrote EXCEPT ![h] = NoOutput]
  /\ UNCHANGED <<running, child>>

Handle(h) == Claim(h) \/ Start(h) \/ StartFails(h) \/ Wait(h) \/ Release(h) \/ Reply(h)

GeocheckNext ==
  \E h \in Callers :
    \/ TakeRequest(h) \/ Handle(h) \/ Exit(h) \/ Kill(h)
    \/ \E o \in Outputs, n \in 1..MaxOutput : Output(h, o, n)

GeocheckSpec == GeocheckInit /\ [][GeocheckNext]_geocheckVars

\* The handlers go on, and the deadline comes.
GeocheckFairSpec == GeocheckSpec /\ \A h \in Callers : WF_geocheckVars(Handle(h)) /\ WF_geocheckVars(Kill(h))

-----------------------------------------------------------------------------
GeocheckTypeOK ==
  /\ running \in BOOLEAN
  /\ request \in [Callers -> [pc : {"idle", "claim", "start", "wait", "release", "reply"},
                               answer : {"none", "busy", "failed", "report"}]]
  /\ child \in [Callers -> {"none", "runs", "succeeded", "failed", "killed"}]
  /\ wrote \in [Callers -> [Outputs -> 0..MaxOutput]]
  /\ \A h \in Callers, o \in Outputs :
       buffer[h][o] \in [kept : 0..Limits[o], remaining : 0..Limits[o], full : BOOLEAN]

\* One program at a time runs, however requests come, fail and are cancelled.
OneRun == \A g, h \in Callers : child[g] = "runs" /\ child[h] = "runs" => g = h

\* A report is made of the whole output, never of the part that was kept of a longer
\* one, and the program had not to be killed for it.
ReportIsWhole ==
  \A h \in Callers :
    request[h].answer = "report" =>
      \A o \in Outputs : buffer[h][o].kept = wrote[h][o] /\ wrote[h][o] <= Limits[o]
=============================================================================
