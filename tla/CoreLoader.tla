----------------------------- MODULE CoreLoader -----------------------------
(***************************************************************************)
(* The loader of custom cores, internal/xray/core_loader.go.  Before it    *)
(* replaces the core, a start brings the link rw-core to the core that     *)
(* the configuration's geodata.core names: a download that is verified,    *)
(* made executable, tried and moved over xray-custom, or the stock core    *)
(* when there is no such section.  A marker beside the link remembers      *)
(* what was installed, so that the next start need not download it again.  *)
(*                                                                         *)
(* Every file operation is a step.  It may fail, and the agent may be      *)
(* killed after it; the files stay as they are and the next start begins   *)
(* from them.  Starts are serialised by the lifecycle lock.                *)
(***************************************************************************)
EXTENDS Naturals

CONSTANTS
  Specs,     \* URL and digest of a custom core: also the core that has the digest
  Runnable,  \* those whose core answers `version`
  Invalid,   \* a geodata.core that parseCoreSpec rejects
  Stock,     \* no geodata.core; also the stock core
  Regular,   \* a core that is no link of the loader's
  None,
  MaxWrites, \* bound: files written to xray-custom.staged or over xray-custom
  MaxTampers \* bound: changes of xray-custom by hand

ASSUME SpecsDistinct ==
  /\ Runnable \subseteq Specs
  /\ {Invalid, Stock, Regular, None} \cap Specs = {}
  /\ Invalid # Stock /\ Invalid # None /\ Stock # Regular /\ Stock # None /\ Regular # None
ASSUME NoneIsNoFile ==
  /\ None \notin [content : Specs, exec : BOOLEAN, stamp : Nat]
  /\ None \notin [spec : Specs, stamp : Nat]
ASSUME Bounds == MaxWrites \in Nat /\ MaxTampers \in Nat

VARIABLES
  \* the files beside rw-core
  active, \* what rw-core is: a link to the stock or custom core, a file or nothing
  stock,  \* whether the stock core is an executable regular file
  custom, \* xray-custom: content, permission to execute, size and time of change
  staged, \* xray-custom.staged
  marker, \* .rw-core.json: specification, size and time of change
  \* the start in progress
  pc, spec, failed,
  writes, tampers

files == <<active, stock, custom, staged, marker>>
loaderVars == <<files, pc, spec, failed, writes, tampers>>

File == [content : Specs, exec : BOOLEAN, stamp : 1..MaxWrites]
Steps == {"idle", "parsed", "fetch", "chmod", "try", "rename", "link", "mark", "done",
          "unlinkMarker", "unlinkCustom"}

LoaderInit ==
  /\ active \in {"stock", "regular", "none"} /\ stock = (active # "none")
  /\ custom = None /\ staged = None /\ marker = None
  /\ pc = "idle" /\ spec = None /\ failed = FALSE
  /\ writes = 0 /\ tampers = 0

Go(to) == pc' = to /\ UNCHANGED <<spec, failed>>
Fail == pc' = "done" /\ failed' = TRUE /\ UNCHANGED spec

\* The deferred removal of the staged file when install returns.
FailInstall == staged' = None /\ Fail

\* prepare is called with the geodata section of the new configuration.
Prepare(s) ==
  /\ pc = "idle"
  /\ pc' = "parsed" /\ spec' = s /\ failed' = FALSE
  /\ UNCHANGED <<files, writes, tampers>>

\* An invalid section is skipped with a warning.
SkipInvalid == pc = "parsed" /\ spec = Invalid /\ Fail /\ UNCHANGED <<files, writes, tampers>>

IsInstalled(s) ==
  /\ marker # None /\ marker.spec = s
  /\ custom # None /\ custom.exec /\ custom.stamp = marker.stamp
  /\ active = "custom"

SkipInstalled ==
  /\ pc = "parsed" /\ spec \in Specs /\ IsInstalled(spec)
  /\ Go("done")
  /\ UNCHANGED <<files, writes, tampers>>

\* install: a regular file in place of the link is refused, a staged file that
\* an interrupted install left is removed.
InstallBegin ==
  /\ pc = "parsed" /\ spec \in Specs /\ ~IsInstalled(spec)
  /\ IF active = "regular" THEN Fail /\ UNCHANGED staged
     ELSE \/ staged' = None /\ Go("fetch")
          \/ Fail /\ UNCHANGED staged
  /\ UNCHANGED <<active, stock, custom, marker, writes, tampers>>

\* Mutant: the digest is not handed to the download.
FetchUnverified ==
  /\ pc = "fetch"
  /\ \/ /\ writes < MaxWrites
        /\ \E c \in Specs : staged' = [content |-> c, exec |-> FALSE, stamp |-> writes + 1]
        /\ writes' = writes + 1
        /\ Go("chmod")
     \/ Fail /\ UNCHANGED <<staged, writes>>
  /\ UNCHANGED <<active, stock, custom, marker, tampers>>

\* artifact.Download leaves a complete file that has the digest, or no file.
Fetch ==
  /\ pc = "fetch"
  /\ \/ /\ writes < MaxWrites
        /\ staged' = [content |-> spec, exec |-> FALSE, stamp |-> writes + 1]
        /\ writes' = writes + 1
        /\ Go("chmod")
     \/ Fail /\ UNCHANGED <<staged, writes>>
  /\ UNCHANGED <<active, stock, custom, marker, tampers>>

Chmod ==
  /\ pc = "chmod"
  /\ \/ staged' = [staged EXCEPT !.exec = TRUE] /\ Go("try")
     \/ FailInstall
  /\ UNCHANGED <<active, stock, custom, marker, writes, tampers>>

\* The staged core has to answer `version` within three seconds.
ReadCoreVersion ==
  /\ pc = "try"
  /\ \/ staged.content \in Runnable /\ Go("rename") /\ UNCHANGED staged
     \/ FailInstall
  /\ UNCHANGED <<active, stock, custom, marker, writes, tampers>>

\* The rename replaces the core at once when rw-core is linked to xray-custom.
Rename ==
  /\ pc = "rename"
  /\ \/ custom' = staged /\ staged' = None /\ Go("link")
     \/ FailInstall /\ UNCHANGED custom
  /\ UNCHANGED <<active, stock, marker, writes, tampers>>

\* A new link is created beside rw-core and renamed over it.
PointLinkAtCustom ==
  /\ pc = "link"
  /\ \/ active' = "custom" /\ Go("mark")
     \/ Fail /\ UNCHANGED active
  /\ UNCHANGED <<stock, custom, staged, marker, writes, tampers>>

\* The marker is written to a temporary file and renamed.
WriteMarker ==
  /\ pc = "mark"
  /\ \/ custom # None /\ marker' = [spec |-> spec, stamp |-> custom.stamp] /\ Go("done")
     \/ Fail /\ UNCHANGED marker
  /\ UNCHANGED <<active, stock, custom, staged, writes, tampers>>

\* restoreStock: nothing to do when rw-core is no link or the right one already.
RestoreNothing ==
  /\ pc = "parsed" /\ spec = Stock /\ active \in {"none", "regular", "stock"}
  /\ Go("done")
  /\ UNCHANGED <<files, writes, tampers>>

\* Mutant: the link is turned after the custom core is gone.
RestoreStockLast ==
  /\ pc = "parsed" /\ spec = Stock /\ active = "custom"
  /\ IF stock THEN custom' = None /\ Go("unlinkMarker") ELSE Fail /\ UNCHANGED custom
  /\ UNCHANGED <<active, stock, staged, marker, writes, tampers>>

RestoreStock ==
  /\ pc = "parsed" /\ spec = Stock /\ active = "custom"
  /\ \/ stock /\ active' = "stock" /\ Go("unlinkMarker")
     \/ Fail /\ UNCHANGED active
  /\ UNCHANGED <<stock, custom, staged, marker, writes, tampers>>

\* The errors of the two removals are ignored.
UnlinkMarker ==
  /\ pc = "unlinkMarker"
  /\ marker' \in {marker, None}
  /\ Go("unlinkCustom")
  /\ UNCHANGED <<active, stock, custom, staged, writes, tampers>>

UnlinkCustom ==
  /\ pc = "unlinkCustom"
  /\ custom' \in {custom, None}
  /\ Go("done")
  /\ UNCHANGED <<active, stock, staged, marker, writes, tampers>>

\* The start goes on, with the active core whatever install did.
Return ==
  /\ pc = "done"
  /\ pc' = "idle" /\ spec' = None /\ failed' = FALSE
  /\ UNCHANGED <<files, writes, tampers>>

\* The agent is killed and started again.
LoaderCrash ==
  /\ pc # "idle"
  /\ pc' = "idle" /\ spec' = None /\ failed' = FALSE
  /\ UNCHANGED <<files, writes, tampers>>

\* Somebody replaces xray-custom by another core or takes its permission away.
Tamper ==
  /\ pc = "idle" /\ custom # None /\ tampers < MaxTampers
  /\ tampers' = tampers + 1
  /\ \/ /\ writes < MaxWrites
        /\ writes' = writes + 1
        /\ \E c \in Specs \ {custom.content} :
             custom' = [content |-> c, exec |-> TRUE, stamp |-> writes + 1]
     \/ custom' = [custom EXCEPT !.exec = FALSE] /\ UNCHANGED writes
  /\ UNCHANGED <<active, stock, staged, marker, pc, spec, failed>>

LoaderNext ==
  \/ \E s \in Specs \cup {Invalid, Stock} : Prepare(s)
  \/ SkipInvalid \/ SkipInstalled
  \/ InstallBegin \/ Fetch \/ Chmod \/ ReadCoreVersion \/ Rename
  \/ PointLinkAtCustom \/ WriteMarker
  \/ RestoreNothing \/ RestoreStock \/ UnlinkMarker \/ UnlinkCustom
  \/ Return \/ LoaderCrash \/ Tamper

LoaderSpec == LoaderInit /\ [][LoaderNext]_loaderVars

-----------------------------------------------------------------------------
Marker == [spec : Specs, stamp : 1..MaxWrites]

LoaderTypeOK ==
  /\ active \in {"none", "regular", "stock", "custom"} /\ stock \in BOOLEAN
  /\ custom \in File \cup {None} /\ staged \in File \cup {None}
  /\ marker \in Marker \cup {None}
  /\ pc \in Steps /\ spec \in Specs \cup {Invalid, Stock, None} /\ failed \in BOOLEAN
  /\ writes \in 0..MaxWrites /\ tampers \in 0..MaxTampers

\* Wherever an install or a restoration fails or is cut off by a crash, the link
\* rw-core leads to a core that exists, may be executed and answers, as long as
\* nobody else changes xray-custom.
ActiveRuns ==
  tampers = 0 =>
    /\ active = "stock" => stock
    /\ active = "custom" => custom # None /\ custom.exec /\ custom.content \in Runnable

\* A prepare that reports no failure has put the requested core in place, also
\* when it took the marker's word for it after crashes and changes by hand
\* (TestCoreLoaderInstallsOnceAndRestoresStock).
AcceptedIsExact ==
  pc = "done" /\ ~failed =>
    /\ spec \in Specs => active = "custom" /\ custom # None /\ custom.exec /\ custom.content = spec
    /\ spec = Stock => active # "custom"

\* What rw-core runs.
Core == CASE active = "custom"  -> IF custom = None THEN None ELSE custom.content
          [] active = "stock"   -> Stock
          [] active = "regular" -> Regular
          [] active = "none"    -> None

\* A refused, failed or interrupted install keeps the previous core
\* (core_loader.go:90, TestCoreLoaderHashMismatchKeepsStockActive).
Switching == INSTANCE CoreSwitch WITH
  Cores <- Specs \cup {Stock, Regular, None},
  core <- Core,
  wanted <- IF spec = Invalid THEN None ELSE spec,
  touched <- tampers # 0
ImplementsSwitch == Switching!Spec
=============================================================================
