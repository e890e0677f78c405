--------------------------- MODULE GeodataLoader ---------------------------
(***************************************************************************)
(* The loader of geodata files, internal/xray/geodata.go.  The assets of a *)
(* configuration are grouped by the file they are for; a limited number of *)
(* workers takes groups from a channel and downloads the assets of a group *)
(* one after the other, each a fallback for those before it.  A file whose *)
(* assets all fail gets an empty stub, with which rw-core can start.       *)
(*                                                                         *)
(* The agent may be killed at any step, or the host lose power, which      *)
(* loses what was not synced; a later start prepares the same assets.      *)
(***************************************************************************)
EXTENDS Download, Subsequence, Sequences

CONSTANTS
  Assets \* the assets in their configured order: a sequence of [source, file]

VARIABLES
  main,     \* prepare: where it is, and the next group to hand out
  work,     \* of each worker: where it is and what is left of its group
  cancelled \* the context of the start

geodataVars == <<body, tmp, path, dl, main, work, cancelled>>

Usable(c) == c # NoFile /\ c.size > 0

\* The assets come without digests.
ASSUME AssetsAssumption == Assets \in Seq([source : Sources \ Digests, file : Files])

\* groupGeodataAssets: the first asset of a file opens a group; those of one file stay
\* together and in order.
Firsts == {k \in DOMAIN Assets : \A j \in 1..(k - 1) : Assets[j].file # Assets[k].file}
AssetsOf(f) == Picked(Assets, {k \in DOMAIN Assets : Assets[k].file = f})
Groups == [n \in 1..Cardinality(Firsts) |-> AssetsOf(Assets[Nth(Firsts, n)].file)]

IdleWorker == [pc |-> "receive", group |-> <<>>]
Off == [pc |-> "off", group |-> <<>>]

GeodataInit ==
  /\ DownloadInit
  /\ main = [pc |-> "idle", next |-> 1] /\ work = [p \in Procs |-> Off]
  /\ cancelled = FALSE

\* prepare: the workers are started, not more of them than there are groups.
PrepareGeodata ==
  /\ main.pc = "idle"
  /\ main' = [pc |-> "enqueue", next |-> 1] /\ cancelled' = FALSE
  /\ \E W \in SUBSET Procs :
       /\ Cardinality(W) = IF Cardinality(Procs) < Len(Groups) THEN Cardinality(Procs) ELSE Len(Groups)
       /\ work' = [p \in Procs |-> IF p \in W THEN IdleWorker ELSE Off]
  /\ dl' = [p \in Procs |-> NoDownload]
  /\ UNCHANGED <<body, tmp, path>>

\* jobs <- group: the channel has no buffer, a worker has to receive.
Send ==
  /\ main.pc = "enqueue" /\ main.next <= Len(Groups)
  /\ \E p \in Procs :
       /\ work[p].pc = "receive"
       /\ work' = [work EXCEPT ![p] = [pc |-> "next", group |-> Groups[main.next]]]
  /\ main' = [main EXCEPT !.next = @ + 1]
  /\ UNCHANGED <<body, tmp, path, dl, cancelled>>

\* close(jobs): when all groups are out, or the context has ended.
CloseJobs ==
  /\ main.pc = "enqueue" /\ (main.next > Len(Groups) \/ cancelled)
  /\ main' = [main EXCEPT !.pc = "wait"]
  /\ UNCHANGED <<body, tmp, path, dl, work, cancelled>>

\* wg.Wait: prepare returns when every worker has.
WaitGroup ==
  /\ main.pc = "wait" /\ \A p \in Procs : work[p].pc = "off"
  /\ main' = [main EXCEPT !.pc = "done"]
  /\ UNCHANGED <<body, tmp, path, dl, work, cancelled>>

\* The start goes on; a later one prepares again.
ReturnGeodata ==
  /\ main.pc = "done"
  /\ main' = [main EXCEPT !.pc = "idle"]
  /\ UNCHANGED <<body, tmp, path, dl, work, cancelled>>

\* The range over the closed channel ends, or the context has ended.
WorkerEnds(p) ==
  /\ \/ work[p].pc = "receive" /\ main.pc = "wait"
     \/ work[p].pc = "next" /\ work[p].group # <<>> /\ cancelled
  /\ work' = [work EXCEPT ![p] = Off]
  /\ UNCHANGED <<body, tmp, path, dl, main, cancelled>>

GroupEnds(p) ==
  /\ work[p].pc = "next" /\ work[p].group = <<>>
  /\ work' = [work EXCEPT ![p] = IdleWorker]
  /\ UNCHANGED <<body, tmp, path, dl, main, cancelled>>

\* Mutant: prepareAsset does not look whether the file is there.
PrepareAssetAgain(p) ==
  /\ work[p].pc = "next" /\ work[p].group # <<>> /\ ~cancelled
  /\ LET a == Head(work[p].group) IN Download(p, a.source, a.file)
  /\ work' = [work EXCEPT ![p].pc = "download"]
  /\ UNCHANGED <<body, tmp, path, main, cancelled>>

\* prepareAsset leaves a file that is there and not empty.
PrepareAsset(p) ==
  /\ work[p].pc = "next" /\ work[p].group # <<>> /\ ~cancelled
  /\ LET a == Head(work[p].group) IN
       IF Usable(path[a.file])
       THEN work' = [work EXCEPT ![p].group = Tail(@)] /\ UNCHANGED dl
       ELSE Download(p, a.source, a.file) /\ work' = [work EXCEPT ![p].pc = "download"]
  /\ UNCHANGED <<body, tmp, path, main, cancelled>>

\* The rest of prepareAsset: a failed download leaves a stub where there was nothing.
AssetEnds(p) ==
  /\ work[p].pc = "download" /\ dl[p].pc \in {"ok", "failed"}
  /\ IF At(p, "failed") /\ path[dl[p].file] = NoFile
     THEN path' \in {path, [path EXCEPT ![dl[p].file] = Stub]} ELSE UNCHANGED path
  /\ dl' = [dl EXCEPT ![p] = NoDownload]
  /\ work' = [work EXCEPT ![p] = [pc |-> "next", group |-> Tail(@.group)]]
  /\ UNCHANGED <<body, tmp, main, cancelled>>

Worker(p) ==
  \/ WorkerEnds(p) \/ GroupEnds(p) \/ PrepareAsset(p) \/ AssetEnds(p)
  \/ DownloadStep(p) /\ UNCHANGED <<main, work, cancelled>>

\* The Panel goes away: the request's context ends.
Cancel ==
  /\ main.pc \in {"enqueue", "wait"} /\ ~cancelled
  /\ cancelled' = TRUE
  /\ UNCHANGED <<body, tmp, path, dl, main, work>>

\* The agent is killed, and perhaps the host with it: unsynced chunks are lost.
GeodataCrash ==
  /\ main.pc # "idle"
  /\ CrashFiles
  /\ dl' = [p \in Procs |-> NoDownload] /\ work' = [p \in Procs |-> Off]
  /\ main' = [pc |-> "idle", next |-> 1] /\ cancelled' = FALSE
  /\ UNCHANGED body

Main == PrepareGeodata \/ Send \/ CloseJobs \/ WaitGroup \/ ReturnGeodata
GeodataNext == Main \/ Cancel \/ GeodataCrash \/ \E p \in Procs : Worker(p)

GeodataSpec == GeodataInit /\ [][GeodataNext]_geodataVars

\* prepare and its workers go on, and a download cannot wait forever: its timers
\* or its server end the copy.
GeodataFairSpec == GeodataSpec /\ WF_geodataVars(Main) /\ \A p \in Procs : WF_geodataVars(Worker(p))

-----------------------------------------------------------------------------
GeodataTypeOK ==
  /\ DownloadTypeOK
  /\ main \in [pc : {"idle", "enqueue", "wait", "done"}, next : 1..(Len(Groups) + 1)]
  /\ \A p \in Procs : work[p].pc \in {"off", "receive", "next", "download"}
  /\ cancelled \in BOOLEAN

\* When prepare returns and was not cancelled, a file has been downloaded if any of
\* its sources delivers, in whatever order they are configured and whatever stubs
\* earlier failures left.
Delivers(s) == body[s].reliable /\ body[s].size \in 1..MaxSize /\ ~(body[s].breaks /\ body[s].announced)
FallbackServes ==
  main.pc = "done" /\ ~cancelled =>
    \A i \in DOMAIN Assets : Delivers(Assets[i].source) => Usable(path[Assets[i].file])

\* And while prepare is at work a file that is there is never replaced, by a download
\* or by a stub: a fallback that is not needed does not overwrite the first source's.
FallbackWorks ==
  /\ []FallbackServes
  /\ [][main.pc # "idle" => \A f \in Files : Usable(path[f]) => path'[f] = path[f]]_path
=============================================================================
