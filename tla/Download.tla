------------------------------ MODULE Download ------------------------------
(***************************************************************************)
(* artifact.Download, internal/artifact/download.go: a body is copied into *)
(* a temporary file beside the destination and renamed over it only after  *)
(* its size was checked, it was synced and its digest compared.  Several   *)
(* processes may download at once; those that share a destination share    *)
(* the name of the temporary file, too.                                    *)
(*                                                                         *)
(* A body is a number of chunks.  It may break off, stall or never end;    *)
(* with a Content-Length the HTTP library reports a body that breaks off,  *)
(* without one it looks like the end.  Here the core loader downloads one  *)
(* artifact after the other, the digests known; GeodataLoader takes the    *)
(* steps of a download over for its workers, who know no digests.          *)
(***************************************************************************)
EXTENDS Naturals

CONSTANTS
  Procs,   \* those that download
  Files,   \* the destinations
  Sources, \* what a URL stands for
  Digests, \* the sources whose digest the caller gives
  Bodies,  \* the answers of servers that are considered
  NoFile,
  MaxSize  \* chunks; Options.MaxSize

ASSUME SizePositive == MaxSize \in Nat \ {0}
ASSUME NoFileIsNone == NoFile \notin Files \cup Sources
ASSUME BodyFields == Bodies \subseteq
  [size : 0..(MaxSize + 2), announced : BOOLEAN, breaks : BOOLEAN, exact : BOOLEAN, reliable : BOOLEAN]

VARIABLES
  body, \* of each source: its chunks, whether their number is announced, whether it breaks
        \* off, whether it has the digest; a reliable one is not met by any failure
  tmp,  \* of each file: the file's name + ".download"
  path, \* of each file: what is there
  dl    \* of each process: the download it is at

\* A file, with the source and the number of its chunks; synced to disk or not.
Content == [source : Sources, size : 0..(MaxSize + 1), synced : BOOLEAN]
\* What a caller may put where a download failed (GeodataLoader).
Stub == [source |-> NoFile, size |-> 0, synced |-> TRUE]
ASSUME NoFileIsNoContent == NoFile \notin Content
NoDownload == [pc |-> "none", source |-> NoFile, file |-> NoFile, got |-> 0]
DownloadSteps == {"none", "request", "create", "copy", "sync", "verify", "rename", "ok", "failed"}

Download(p, s, f) == dl' = [dl EXCEPT ![p] = [pc |-> "request", source |-> s, file |-> f, got |-> 0]]

At(p, step) == dl[p].pc = step
Step(p, step) == dl' = [dl EXCEPT ![p].pc = step]
MayFail(p) == ~body[dl[p].source].reliable

\* The deferred removal of the temporary file, whoever wrote it.
Abandon(p) == tmp' = [tmp EXCEPT ![dl[p].file] = NoFile] /\ Step(p, "failed")

Announced(p, n) == body[dl[p].source].announced /\ body[dl[p].source].size >= n

\* The temporary file is p's.
Writes(p) == dl[p].pc \in {"copy", "sync", "verify", "rename"}

\* No connection, a redirect to another scheme, a status other than 2xx, or a
\* Content-Length above the limit.
Request(p) ==
  /\ At(p, "request")
  /\ \/ MayFail(p) /\ Step(p, "failed")
     \/ Announced(p, MaxSize + 1) /\ Step(p, "failed")
     \/ ~Announced(p, MaxSize + 1) /\ Step(p, "create")
  /\ UNCHANGED <<body, tmp, path>>

\* A stale temporary file is removed, the new one created exclusively.
CreateTmp(p) ==
  /\ At(p, "create")
  /\ \/ /\ tmp' = [tmp EXCEPT ![dl[p].file] = [source |-> dl[p].source, size |-> 0, synced |-> FALSE]]
        /\ Step(p, "copy")
     \/ MayFail(p) /\ UNCHANGED tmp /\ Step(p, "failed")
  /\ UNCHANGED <<body, path>>

\* Mutant: the reader is not limited.
CopyChunkUnlimited(p) ==
  LET d == dl[p] IN
  /\ At(p, "copy") /\ d.got < body[d.source].size
  /\ dl' = [dl EXCEPT ![p].got = @ + 1]
  /\ tmp' = IF tmp[d.file] # NoFile /\ tmp[d.file].source = d.source
            THEN [tmp EXCEPT ![d.file].size = @ + 1] ELSE tmp
  /\ UNCHANGED <<body, path>>

\* idleReader.Read and copyLimited: a chunk is written, at most one beyond the
\* limit is asked for.  Once the file was unlinked its chunks go nowhere.
CopyChunk(p) ==
  LET d == dl[p] IN
  /\ At(p, "copy") /\ d.got < body[d.source].size /\ d.got < MaxSize + 1
  /\ dl' = [dl EXCEPT ![p].got = @ + 1]
  /\ tmp' = IF tmp[d.file] # NoFile /\ tmp[d.file].source = d.source
            THEN [tmp EXCEPT ![d.file].size = @ + 1] ELSE tmp
  /\ UNCHANGED <<body, path>>

\* The end of the body: too long, empty or short of its announced length it is refused.
CopyEnd(p) ==
  LET d == dl[p] IN
  /\ At(p, "copy") /\ (d.got = body[d.source].size \/ d.got = MaxSize + 1)
  /\ IF d.got = 0 \/ d.got > MaxSize \/ (body[d.source].breaks /\ body[d.source].announced)
     THEN Abandon(p) ELSE Step(p, "sync") /\ UNCHANGED tmp
  /\ UNCHANGED <<body, path>>

\* The idle or the total timer fires, the caller's context ends or a write fails.
CopyFails(p) == At(p, "copy") /\ MayFail(p) /\ Abandon(p) /\ UNCHANGED <<body, path>>

\* Mutant: the file is not synced before it is renamed.
SyncNot(p) ==
  /\ At(p, "sync")
  /\ Step(p, "verify") /\ UNCHANGED <<body, tmp, path>>

Sync(p) ==
  /\ At(p, "sync")
  /\ \/ tmp' = [tmp EXCEPT ![dl[p].file] = IF @ = NoFile THEN @ ELSE [@ EXCEPT !.synced = TRUE]]
        /\ Step(p, "verify")
     \/ MayFail(p) /\ Abandon(p)
  /\ UNCHANGED <<body, path>>

\* Without an expected digest any content is accepted.
Verify(p) ==
  /\ At(p, "verify")
  /\ IF dl[p].source \in Digests /\ ~body[dl[p].source].exact
     THEN Abandon(p) ELSE Step(p, "rename") /\ UNCHANGED tmp
  /\ UNCHANGED <<body, path>>

\* What has the temporary name is moved, whoever wrote it.
Activate(p) ==
  LET f == dl[p].file IN
  /\ At(p, "rename")
  /\ \/ /\ tmp[f] # NoFile
        /\ path' = [path EXCEPT ![f] = tmp[f]]
        /\ tmp' = [tmp EXCEPT ![f] = NoFile]
        /\ Step(p, "ok")
     \/ (tmp[f] = NoFile \/ MayFail(p)) /\ Abandon(p) /\ UNCHANGED path
  /\ UNCHANGED body

DownloadStep(p) ==
  \/ Request(p) \/ CreateTmp(p) \/ CopyChunk(p) \/ CopyEnd(p) \/ CopyFails(p)
  \/ Sync(p) \/ Verify(p) \/ Activate(p)

DownloadInit ==
  /\ body \in [Sources -> Bodies]
  /\ tmp = [f \in Files |-> NoFile] /\ path = [f \in Files |-> NoFile]
  /\ dl = [p \in Procs |-> NoDownload]

\* The process is killed, or the host loses power and with it what is not synced.
CrashFiles ==
  \/ UNCHANGED <<tmp, path>>
  \/ \E left \in 0..MaxSize :
       LET Lose(c) == IF c # NoFile /\ ~c.synced /\ left < c.size THEN [c EXCEPT !.size = left] ELSE c
       IN  /\ tmp' = [f \in Files |-> Lose(tmp[f])]
           /\ path' = [f \in Files |-> Lose(path[f])]

Begin(p) ==
  /\ dl[p].pc \in {"none", "ok", "failed"}
  /\ \E s \in Sources, f \in Files :
       /\ \A q \in Procs \ {p} : dl[q].file # f \/ dl[q].pc \in {"ok", "failed"}
       /\ Download(p, s, f)
  /\ UNCHANGED <<body, tmp, path>>

CrashAll == CrashFiles /\ dl' = [p \in Procs |-> NoDownload] /\ UNCHANGED body

DownloadNext == CrashAll \/ \E p \in Procs : Begin(p) \/ DownloadStep(p)
DownloadSpec == DownloadInit /\ [][DownloadNext]_<<body, tmp, path, dl>>

-----------------------------------------------------------------------------
DownloadTypeOK ==
  /\ tmp \in [Files -> Content \cup {NoFile}] /\ path \in [Files -> Content \cup {NoFile, Stub}]
  /\ dl \in [Procs -> [pc : DownloadSteps, source : Sources \cup {NoFile},
                       file : Files \cup {NoFile}, got : 0..(MaxSize + 1)]]

\* A download is all or nothing, whatever fails.  What it activates is a whole body
\* within the limit that has the digest the caller gave, also after a crash or a power
\* failure (TestDownloadVerifiesDigestAndActivatesAtomically).  One that failed after
\* data came leaves no temporary file, so that failures do not fill the disk: what is
\* left is left by a crash or written by another process since, and gone with the next try.
AllOrNothing ==
  /\ \A f \in Files : path[f] \notin {NoFile, Stub} =>
       LET b == body[path[f].source] IN
       /\ path[f].size = b.size /\ b.size \in 1..MaxSize
       /\ ~(b.breaks /\ b.announced)
       /\ path[f].source \in Digests => b.exact
  /\ \A p \in Procs :
       /\ At(p, "failed") /\ dl[p].got > 0
       /\ \A q \in Procs : dl[q].file = dl[p].file => ~Writes(q)
       => tmp[dl[p].file] = NoFile
=============================================================================
