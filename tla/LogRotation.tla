---------------------------- MODULE LogRotation ----------------------------
(***************************************************************************)
(* The rotation of a log of rw-core, internal/xray/logrotate.go: a log that *)
(* has reached its size is copied over the one backup and truncated.  A    *)
(* ticker and every start of the core rotate, without a lock between them; *)
(* the core appends while the ticker's rotation runs.  A line is its       *)
(* number; sizes are counted in lines.                                     *)
(***************************************************************************)
EXTENDS Naturals, Sequences, Functions

CONSTANTS
  MaxLog,      \* maxLogSize
  MaxLines,    \* bound: the lines that are written
  MaxFailures, \* bound: the rotations that fail
  Hole         \* a part of a file that nobody wrote

ASSUME LogAssumption == MaxLog \in Nat /\ MaxLines \in Nat /\ MaxFailures \in Nat

VARIABLES
  log, backup, \* the two files
  lines,       \* the lines written so far
  core,        \* whether rw-core runs
  rotator,     \* of the ticker and the start: where it is and how far it has copied
  failures,    \* rotations that failed
  excused,     \* lines whose loss the code accepts
  overlapped   \* whether two rotations have been at work at once

logVars == <<log, backup, lines, core, rotator, failures, excused, overlapped>>

Rotators == {"tick", "start"}
NoRotation == [pc |-> "idle", offset |-> 0]

LogInit ==
  /\ log = <<>> /\ backup = <<>> /\ lines = 0 /\ core = TRUE
  /\ rotator = [r \in Rotators |-> NoRotation]
  /\ failures = 0 /\ excused = {} /\ overlapped = FALSE

\* The file with a value written at an offset.
WriteAt(content, offset, value) ==
  [k \in 1..(IF offset < Len(content) THEN Len(content) ELSE offset + 1) |->
     IF k = offset + 1 THEN value ELSE IF k <= Len(content) THEN content[k] ELSE Hole]

\* The core's descriptor appends (startProcessLocked opens it so).
WriteLine ==
  /\ core /\ lines < MaxLines
  /\ lines' = lines + 1
  /\ log' = WriteAt(log, Len(log), lines + 1)
  /\ UNCHANGED <<backup, core, rotator, failures, excused, overlapped>>

\* The core has exited or was stopped by the start.
CoreExits ==
  /\ core
  /\ core' = FALSE
  /\ UNCHANGED <<log, backup, lines, rotator, failures, excused, overlapped>>

\* startProcessLocked: the new core runs when its start has rotated.
CoreStarts ==
  /\ rotator["start"].pc = "rotated"
  /\ core' = TRUE /\ rotator' = [rotator EXCEPT !["start"] = NoRotation]
  /\ UNCHANGED <<log, backup, lines, failures, excused, overlapped>>

Rotated(r) == IF r = "start" THEN [NoRotation EXCEPT !.pc = "rotated"] ELSE NoRotation

AtWork(r) == rotator[r].pc \in {"create", "copy", "truncate"}

\* rotateLogIfNeeded up to the size it reads.
Stat(r) ==
  /\ rotator[r] = NoRotation /\ (r = "start" => ~core)
  /\ rotator' = [rotator EXCEPT ![r] = IF Len(log) < MaxLog THEN Rotated(r)
                                       ELSE [NoRotation EXCEPT !.pc = "create"]]
  /\ overlapped' = (overlapped \/ (Len(log) >= MaxLog /\ \E s \in Rotators : AtWork(s)))
  /\ UNCHANGED <<log, backup, lines, core, failures, excused>>

\* copyFile opens the log and truncates the backup, whose lines a log that is full replaces.
Create(r) ==
  /\ rotator[r].pc = "create"
  /\ backup' = <<>>
  /\ excused' = excused \cup (IF Len(log) >= MaxLog THEN Range(backup) ELSE {})
  /\ rotator' = [rotator EXCEPT ![r].pc = "copy"]
  /\ UNCHANGED <<log, lines, core, failures, overlapped>>

Copy(r) ==
  LET offset == rotator[r].offset IN
  /\ rotator[r].pc = "copy" /\ offset < Len(log)
  /\ backup' = WriteAt(backup, offset, log[offset + 1])
  /\ rotator' = [rotator EXCEPT ![r].offset = @ + 1]
  /\ UNCHANGED <<log, lines, core, failures, excused, overlapped>>

\* The end of the log, as it is now.
CopyEnds(r) ==
  /\ rotator[r].pc = "copy" /\ rotator[r].offset >= Len(log)
  /\ rotator' = [rotator EXCEPT ![r].pc = "truncate"]
  /\ UNCHANGED <<log, backup, lines, core, failures, excused, overlapped>>

\* Mutant: a copy that failed is followed by the truncation.
RotationFailsOn(r) ==
  /\ failures < MaxFailures /\ rotator[r].pc \in {"create", "copy"}
  /\ rotator' = [rotator EXCEPT ![r].pc = "truncate", ![r].offset = Len(log)]
  /\ failures' = failures + 1
  /\ UNCHANGED <<log, backup, lines, core, excused, overlapped>>

\* Opening, reading, writing or truncating fails: the log is left as it is.
RotationFails(r) ==
  /\ failures < MaxFailures /\ AtWork(r)
  /\ rotator' = [rotator EXCEPT ![r] = Rotated(r)]
  /\ failures' = failures + 1
  /\ UNCHANGED <<log, backup, lines, core, excused, overlapped>>

\* Lines that were written after the end of the copy go.
Truncate(r) ==
  /\ rotator[r].pc = "truncate"
  /\ log' = <<>>
  /\ excused' = excused \cup {log[k] : k \in (rotator[r].offset + 1)..Len(log)}
  /\ rotator' = [rotator EXCEPT ![r] = Rotated(r)]
  /\ UNCHANGED <<backup, lines, core, failures, overlapped>>

Rotate(r) == Create(r) \/ Copy(r) \/ CopyEnds(r) \/ Truncate(r)

LogNext ==
  \/ WriteLine \/ CoreExits \/ CoreStarts
  \/ \E r \in Rotators : Stat(r) \/ Rotate(r) \/ RotationFails(r)

LogSpec == LogInit /\ [][LogNext]_logVars

\* The ticker ticks and a rotation goes on.
LogFairSpec == LogSpec /\ WF_logVars(Stat("tick")) /\ \A r \in Rotators : WF_logVars(Rotate(r))

-----------------------------------------------------------------------------
LogTypeOK ==
  /\ Range(log) \subseteq 1..lines /\ Range(backup) \subseteq 1..lines \cup {Hole}
  /\ lines \in 0..MaxLines /\ core \in BOOLEAN /\ failures \in 0..MaxFailures
  /\ rotator \in [Rotators -> [pc : {"idle", "create", "copy", "truncate", "rotated"}, offset : 0..MaxLines]]
  /\ excused \subseteq 1..lines \cup {Hole} /\ overlapped \in BOOLEAN

\* A rotation loses only lines written between its copy and its truncation, and those
\* of a backup that a full log replaces, whatever fails on the way (a failed copy has
\* already replaced the backup).  When the ticker and a start rotate at once, the
\* second may copy what the first has emptied.
Lost == (1..lines) \ (Range(log) \cup Range(backup) \cup excused)
OneRotationLosesNothing == overlapped \/ Lost = {}
=============================================================================
