------------------------------ MODULE MCFiles ------------------------------
(***************************************************************************)
(* What the agent keeps in files beside the core: the custom core, one     *)
(* download, the geodata files, the AS database and a log.  The five share *)
(* no state in the code, so one run explores them one at a time: `part` is *)
(* chosen at the start, the others rest in one initial state.              *)
(***************************************************************************)
EXTENDS CoreLoader, GeodataLoader, AsnWriter, LogRotation

CONSTANTS
  good1, good2, bad, \* custom cores
  s1, s2, s3, d1,    \* sources; the caller knows the digest of d1
  f1, f2, p1, p2,    \* geodata files, and those that download
  pre1, pre2         \* prefixes

VARIABLE part
everything == <<loaderVars, geodataVars, asnVars, logVars, part>>

-----------------------------------------------------------------------------
(* Custom cores: two that run, one that does not.                          *)
GoodSpecs == {good1, good2}
AllSpecs == {good1, good2, bad}

(* Downloads: every answer of a server.  Geodata: three assets for two     *)
(* files, two of them for one file and apart in the configuration's order; *)
(* a good answer, one that may fail, one that is too long.                 *)
AllBodies ==
  [size : 0..4, announced : BOOLEAN, breaks : BOOLEAN, exact : BOOLEAN, reliable : BOOLEAN]
Body(n, r) == [size |-> n, announced |-> TRUE, breaks |-> FALSE, exact |-> TRUE, reliable |-> r]
SomeBodies == {Body(2, TRUE), Body(1, FALSE)}
ThreeAssets == <<[source |-> s1, file |-> f1], [source |-> s2, file |-> f2], [source |-> s3, file |-> f1]>>

Usual == [s \in Sources |-> Body(1, FALSE)]
Answers ==
  CASE part = "download" -> {[Usual EXCEPT ![s] = b] : s \in {s1, d1}, b \in {b \in AllBodies : ~b.reliable}}
    [] part = "geodata"  -> {[Usual EXCEPT ![s1] = b, ![s3] = c] : b, c \in SomeBodies}
    [] OTHER -> {Usual}

\* The workers are interchangeable: the first group goes to the first of them.
FirstGoesToFirst == main.next = 1 /\ main'.next = 2 => work'[p1].pc = "next"

\* One process that downloads, from a source whose digest is known and one without.
DownloadAlone ==
  /\ dl'[p2] = NoDownload
  /\ dl'[p1].source \in {NoFile, s1, d1} /\ dl'[p1].file \in {NoFile, f1}

-----------------------------------------------------------------------------
(* Databases in any order, with and without prefixes, two that Write       *)
(* refuses, and files that it never wrote.                                 *)
Entry(n, v4, v6) == [asn |-> n, v4 |-> v4, v6 |-> v6]

SomeDatabases == {
  <<>>,
  <<Entry(5, <<pre1>>, <<pre2, pre1>>), Entry(2, <<>>, <<>>), Entry(3, <<pre2, InvalidPrefix, pre1>>, <<pre2>>)>>,
  <<Entry(4, <<pre1>>, <<>>), Entry(1, <<>>, <<pre2>>), Entry(3, <<pre2>>, <<>>), Entry(5, <<>>, <<>>)>>,
  <<Entry(2, <<pre1>>, <<>>), Entry(2, <<pre2>>, <<>>)>>,
  <<Entry(0, <<pre1>>, <<>>)>>}

Indexed(numbers, offsets, lengths, size) ==
  LET n == Len(numbers)
      From(seq) == [k \in 0..(n - 1) |-> seq[k + 1]]
  IN [header |-> TRUE, count |-> n, size |-> size, asn |-> From(numbers),
      off |-> From(offsets), v4 |-> From(lengths), v6 |-> [k \in 0..(n - 1) |-> 0],
      data |-> [at \in {n * 16 + 16} |-> pre1]]

DamagedFiles ==
  {Indexed(numbers, <<64, off, 64>>, <<1, 1, 0>>, 69) :
     numbers \in [1..3 -> {1, 3, 4}], off \in {63, 64, 65, 100}}
  \cup {[Indexed(<<1>>, <<32>>, <<1>>, 40) EXCEPT !.header = FALSE]}

SomeReplacements ==
  {Written(<<Entry(4, <<pre1>>, <<pre2>>)>>), Written(<<>>)}
  \cup {[Written(<<Entry(1, <<pre2>>, <<>>), Entry(3, <<>>, <<>>)>>) EXCEPT !.size = n] : n \in {0, 40, 53}}

AllFiles == PossibleFiles \cup SomeReplacements

-----------------------------------------------------------------------------
FilesInit ==
  /\ part \in {"core", "download", "geodata", "asn", "log"}
  /\ active \in IF part = "core" THEN {"stock", "regular", "none"} ELSE {"none"}
  /\ LoaderInit
  /\ body \in Answers
  /\ GeodataInit
  /\ file \in IF part = "asn" THEN DbFiles ELSE {Written(<<>>)}
  /\ AsnInit
  /\ LogInit

FilesNext ==
  \/ /\ part = "core" /\ LoaderNext
     /\ UNCHANGED <<geodataVars, asnVars, logVars, part>>
  \/ /\ part = "download" /\ DownloadNext /\ DownloadAlone
     /\ UNCHANGED <<main, work, cancelled, loaderVars, asnVars, logVars, part>>
  \/ /\ part = "geodata" /\ GeodataNext /\ FirstGoesToFirst
     /\ UNCHANGED <<loaderVars, asnVars, logVars, part>>
  \/ /\ part = "asn" /\ (AsnNext \/ (mode = "refused" /\ UNCHANGED asnVars))
     /\ UNCHANGED <<loaderVars, geodataVars, logVars, part>>
  \/ /\ part = "log" /\ LogNext
     /\ UNCHANGED <<loaderVars, geodataVars, asnVars, part>>

\* The fairness of each part is the one its module states.
FilesSpec ==
  /\ FilesInit /\ [][FilesNext]_everything
  /\ WF_geodataVars(part = "geodata" /\ Main)
  /\ \A w \in Procs : WF_geodataVars(part = "geodata" /\ Worker(w))
  /\ WF_asnVars(part = "asn" /\ Search)
  /\ WF_logVars(part = "log" /\ Stat("tick"))
  /\ \A r \in Rotators : WF_logVars(part = "log" /\ Rotate(r))

-----------------------------------------------------------------------------
FilesTypeOK == LoaderTypeOK /\ GeodataTypeOK /\ AsnTypeOK /\ LogTypeOK

\* What is begun on the files ends: prepare returns to the start that waits for it,
\* cancelled or not, whatever the servers do; a search in a database ends, also in one
\* that is overwritten under it; and a log that is full is cut.
AtWorkOnFiles == main.pc \in {"enqueue", "wait"} \/ mode = "searching" \/ Len(log) >= MaxLog
FileWorkEnds == AtWorkOnFiles ~> ~AtWorkOnFiles
=============================================================================
