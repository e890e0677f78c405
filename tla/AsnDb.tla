------------------------------- MODULE AsnDb -------------------------------
(***************************************************************************)
(* The database of AS numbers, internal/asn/db.go: Open reads the index    *)
(* once and refuses a file whose entries are out of order or point outside *)
(* it; PrefixesByASN searches the index on disk and reads the prefixes of  *)
(* the number.  A file is a record of its size, whether its header is      *)
(* right, and the fields of its index; data has the records of prefixes by *)
(* their offset.  The path may be overwritten in place while the file is   *)
(* open: the agent keeps the number of entries it read at the start.       *)
(***************************************************************************)
EXTENDS Integers

CONSTANTS
  DbFiles,      \* what may be at the path: see FileType
  Replacements, \* what may be written over it while it is open
  Numbers,      \* the AS numbers that are asked for
  Unknown       \* bytes that are no record

headerLen == 16
entryLen == 16
v4Record == 5
v6Record == 17

VARIABLES
  file,       \* what is at the path
  replaced,   \* whether it was overwritten after Open
  mode,       \* closed, checking, refused, open, searching or answered
  i,          \* Open: the entries it has found right
  count,      \* DB.count
  asn,        \* PrefixesByASN: the number it searches
  lo, hi,     \* the entries that may have it: lo..(hi - 1)
  readFailed, \* whether a read has failed
  answer      \* its prefixes

asnVars == <<file, replaced, mode, i, count, asn, lo, hi, readFailed, answer>>

FileType(f) ==
  /\ f.header \in BOOLEAN /\ f.size \in Nat /\ f.count \in Nat
  /\ \A field \in {f.asn, f.off, f.v4, f.v6} : field \in [0..(f.count - 1) -> Nat]

ASSUME FilesAssumption == \A f \in DbFiles : FileType(f)
ASSUME ReplacementsAssumption == Replacements \subseteq DbFiles
ASSUME NumbersAssumption == Numbers \subseteq Nat

IndexEnd(f) == headerLen + f.count * entryLen
Length(f, k) == f.v4[k] * v4Record + f.v6[k] * v6Record
Empty == [v4 |-> <<>>, v6 |-> <<>>]

Record(f, at) == IF at \in DOMAIN f.data THEN f.data[at] ELSE Unknown

\* The prefixes an entry points to.
Blob(f, k) ==
  [v4 |-> [n \in 1..f.v4[k] |-> Record(f, f.off[k] + (n - 1) * v4Record)],
   v6 |-> [n \in 1..f.v6[k] |-> Record(f, f.off[k] + f.v4[k] * v4Record + (n - 1) * v6Record)]]

AsnInit ==
  /\ file \in DbFiles /\ replaced = FALSE
  /\ mode = "closed" /\ i = 0 /\ count = 0
  /\ asn = 0 /\ lo = 0 /\ hi = 0 /\ readFailed = FALSE /\ answer = Empty

Open ==
  /\ mode = "closed"
  /\ IF file.header /\ file.size >= headerLen /\ IndexEnd(file) <= file.size
     THEN mode' = "checking" /\ count' = file.count
     ELSE mode' = "refused" /\ UNCHANGED count
  /\ UNCHANGED <<file, replaced, i, asn, lo, hi, readFailed, answer>>

\* Mutant: entries need not be sorted.
EntryOkAnyOrder(f, k) ==
  /\ f.asn[k] # 0
  /\ f.off[k] >= IndexEnd(f) /\ f.off[k] + Length(f, k) <= f.size

\* previous is the number of the entry before.
EntryOk(f, k) ==
  /\ f.asn[k] # 0 /\ (k > 0 => f.asn[k] > f.asn[k - 1])
  /\ f.off[k] >= IndexEnd(f) /\ f.off[k] + Length(f, k) <= f.size

CheckEntry ==
  /\ mode = "checking" /\ i < count
  /\ IF EntryOk(file, i) THEN i' = i + 1 /\ UNCHANGED mode ELSE mode' = "refused" /\ UNCHANGED i
  /\ UNCHANGED <<file, replaced, count, asn, lo, hi, readFailed, answer>>

\* The file cannot be opened or read.
OpenFails ==
  /\ mode \in {"closed", "checking"}
  /\ mode' = "refused" /\ readFailed' = TRUE
  /\ UNCHANGED <<file, replaced, i, count, asn, lo, hi, answer>>

Opened ==
  /\ mode = "checking" /\ i = count
  /\ mode' = "open"
  /\ UNCHANGED <<file, replaced, i, count, asn, lo, hi, readFailed, answer>>

\* Without entries (Available is false) the loop is not entered either.
Ask(n) ==
  /\ mode \in {"open", "answered"}
  /\ mode' = "searching" /\ asn' = n
  /\ lo' = 0 /\ hi' = count /\ readFailed' = FALSE /\ answer' = Empty
  /\ UNCHANGED <<file, replaced, i, count>>

Mid == lo + (hi - lo) \div 2

\* ReadAt of the entry: in a file that was overwritten it may be cut off.
Fits(at, length) == at + length <= file.size
EntryFits == Fits(headerLen + Mid * entryLen, entryLen)

\* Mutant: the entry that was too small is kept.
NarrowNot ==
  /\ mode = "searching" /\ lo < hi /\ EntryFits /\ Mid < file.count
  /\ file.asn[Mid] # asn
  /\ IF file.asn[Mid] < asn
     THEN lo' = Mid /\ UNCHANGED hi
     ELSE hi' = Mid /\ UNCHANGED lo
  /\ UNCHANGED <<file, replaced, mode, i, count, asn, readFailed, answer>>

Narrow ==
  /\ mode = "searching" /\ lo < hi /\ EntryFits /\ Mid < file.count
  /\ file.asn[Mid] # asn
  /\ IF file.asn[Mid] < asn
     THEN lo' = Mid + 1 /\ UNCHANGED hi
     ELSE hi' = Mid /\ UNCHANGED lo
  /\ UNCHANGED <<file, replaced, mode, i, count, asn, readFailed, answer>>

\* The file that was overwritten has fewer entries: bytes of prefixes are read as one.
NarrowUnknown ==
  /\ mode = "searching" /\ lo < hi /\ EntryFits /\ Mid >= file.count
  /\ \/ lo' = Mid + 1 /\ UNCHANGED <<hi, mode, answer>>
     \/ hi' = Mid /\ UNCHANGED <<lo, mode, answer>>
     \/ answer' = [v4 |-> <<Unknown>>, v6 |-> <<>>] /\ mode' = "answered" /\ UNCHANGED <<lo, hi>>
  /\ UNCHANGED <<file, replaced, i, count, asn, readFailed>>

\* readBlob.
Found ==
  /\ mode = "searching" /\ lo < hi /\ EntryFits /\ Mid < file.count
  /\ file.asn[Mid] = asn
  /\ IF Fits(file.off[Mid], Length(file, Mid))
     THEN answer' = Blob(file, Mid) /\ UNCHANGED readFailed
     ELSE answer' = Empty /\ readFailed' = TRUE
  /\ mode' = "answered"
  /\ UNCHANGED <<file, replaced, i, count, asn, lo, hi>>

NotFound ==
  /\ mode = "searching" /\ lo >= hi
  /\ mode' = "answered"
  /\ UNCHANGED <<file, replaced, i, count, asn, lo, hi, readFailed, answer>>

\* The file was overwritten by a shorter one.
ReadPastEnd ==
  /\ mode = "searching" /\ lo < hi /\ ~EntryFits
  /\ mode' = "answered" /\ readFailed' = TRUE /\ answer' = Empty
  /\ UNCHANGED <<file, replaced, i, count, asn, lo, hi>>

\* The disk fails.
ReadFails ==
  /\ mode = "searching" /\ lo < hi
  /\ mode' = "answered" /\ readFailed' = TRUE /\ answer' = Empty
  /\ UNCHANGED <<file, replaced, i, count, asn, lo, hi>>

\* The installer or asn-builder writes another file over the open one.
Replace(f) ==
  /\ ~replaced /\ mode \in {"open", "searching", "answered"}
  /\ file' = f /\ replaced' = TRUE
  /\ UNCHANGED <<mode, i, count, asn, lo, hi, readFailed, answer>>

Search == Narrow \/ NarrowUnknown \/ Found \/ NotFound \/ ReadPastEnd

AsnNext ==
  \/ Open \/ CheckEntry \/ OpenFails \/ Opened
  \/ Search \/ ReadFails
  \/ \E n \in Numbers : Ask(n)
  \/ \E f \in Replacements : Replace(f)

AsnSpec == AsnInit /\ [][AsnNext]_asnVars

\* PrefixesByASN runs on; reads need not fail.
AsnFairSpec == AsnSpec /\ WF_asnVars(Search)

-----------------------------------------------------------------------------
AsnTypeOK ==
  /\ file \in DbFiles /\ replaced \in BOOLEAN
  /\ mode \in {"closed", "checking", "refused", "open", "searching", "answered"}
  /\ i \in Nat /\ count \in Nat /\ asn \in Numbers \cup {0}
  /\ lo \in 0..count /\ hi \in 0..count /\ readFailed \in BOOLEAN

\* In a file that Open accepted, whatever it holds, the search finds the number if
\* and only if some entry has it, and answers the prefixes of that entry, which are
\* inside the file: checking each entry against the one before is enough.
AnswerIsListed ==
  mode = "answered" /\ ~replaced /\ ~readFailed =>
    \/ \E k \in 0..(file.count - 1) : /\ file.asn[k] = asn /\ answer = Blob(file, k)
                                      /\ file.off[k] + Length(file, k) <= file.size
    \/ answer = Empty /\ \A k \in 0..(file.count - 1) : file.asn[k] # asn
=============================================================================
