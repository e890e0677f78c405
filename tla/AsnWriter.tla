----------------------------- MODULE AsnWriter -----------------------------
(***************************************************************************)
(* Write of internal/asn/writer.go, which asn-builder makes the database   *)
(* with, beside the reader: what was written is what is answered, and what *)
(* an interrupted write leaves is refused or answers the same.             *)
(***************************************************************************)
EXTENDS AsnDb, Subsequence, Sequences, Functions

CONSTANTS
  Databases,     \* sequences of entries [asn, v4, v6] given to Write
  InvalidPrefix, \* a prefix that is not valid, or of the other family
  Damaged        \* further files

ASSUME DatabasesAssumption ==
  \A entries \in Databases :
    /\ entries \in Seq(Range(entries))
    /\ \A k \in DOMAIN entries :
         /\ entries[k].asn \in Nat
         /\ entries[k].v4 \in Seq(Range(entries[k].v4)) /\ entries[k].v6 \in Seq(Range(entries[k].v6))

\* Write keeps the valid prefixes of each family, IPv4 before IPv6.
normalizePrefixes(prefixes) == Picked(prefixes, {k \in DOMAIN prefixes : prefixes[k] # InvalidPrefix})

\* The place of an entry after the sort.  It leaves the order of entries of one number
\* open, but those are refused.
Rank(entries, k) ==
  1 + Cardinality({j \in DOMAIN entries : \/ entries[j].asn < entries[k].asn
                                         \/ (entries[j].asn = entries[k].asn /\ j < k)})

Sorted(entries) ==
  [n \in 1..Len(entries) |-> entries[CHOOSE k \in DOMAIN entries : Rank(entries, k) = n]]

\* Write returns an error for these, after it has written the header.
Refused(entries) ==
  \/ \E k \in DOMAIN entries : entries[k].asn = 0
  \/ \E j, k \in DOMAIN entries : j # k /\ entries[j].asn = entries[k].asn

\* Where the prefixes of an entry begin: behind the index and those of the k entries before.
Offset(sorted, k) ==
  LET v4 == UNION {{j} \X DOMAIN normalizePrefixes(sorted[j].v4) : j \in 1..k}
      v6 == UNION {{j} \X DOMAIN normalizePrefixes(sorted[j].v6) : j \in 1..k}
  IN headerLen + Len(sorted) * entryLen + Cardinality(v4) * v4Record + Cardinality(v6) * v6Record

\* Mutant: both families of an entry begin at its offset.
RecordsTogether(e, off) ==
  LET v4 == normalizePrefixes(e.v4)
      v6 == normalizePrefixes(e.v6)
  IN {<<off + (n - 1) * v4Record, v4[n]>> : n \in DOMAIN v4}
     \cup {<<off + (n - 1) * v6Record, v6[n]>> : n \in DOMAIN v6}

\* The records of an entry whose prefixes begin at an offset.
Records(e, off) ==
  LET v4 == normalizePrefixes(e.v4)
      v6 == normalizePrefixes(e.v6)
  IN {<<off + (n - 1) * v4Record, v4[n]>> : n \in DOMAIN v4}
     \cup {<<off + Len(v4) * v4Record + (n - 1) * v6Record, v6[n]>> : n \in DOMAIN v6}

\* The whole file.
Written(entries) ==
  LET s == Sorted(entries)
      n == Len(s)
      records == UNION {Records(s[k], Offset(s, k - 1)) : k \in 1..n}
  IN [header |-> TRUE, count |-> n, size |-> Offset(s, n),
      asn |-> [k \in 0..(n - 1) |-> s[k + 1].asn],
      off |-> [k \in 0..(n - 1) |-> Offset(s, k)],
      v4 |-> [k \in 0..(n - 1) |-> Len(normalizePrefixes(s[k + 1].v4))],
      v6 |-> [k \in 0..(n - 1) |-> Len(normalizePrefixes(s[k + 1].v6))],
      data |-> [at \in {r[1] : r \in records} |-> (CHOOSE r \in records : r[1] = at)[2]]]

\* What may be left: the whole file, or its beginning when Write or the builder was
\* interrupted; after an error of Write, the header alone.
Left(entries) ==
  {[Written(entries) EXCEPT !.size = n] :
     n \in IF Refused(entries) THEN {0, headerLen} ELSE 0..Written(entries).size}

PossibleFiles == UNION {Left(entries) : entries \in Databases} \cup Damaged

-----------------------------------------------------------------------------
\* What a number was given to Write with.
Given(entries, n) ==
  LET of == {k \in DOMAIN entries : entries[k].asn = n}
  IN IF of = {} THEN Empty
     ELSE LET e == entries[CHOOSE k \in of : TRUE]
          IN [v4 |-> normalizePrefixes(e.v4), v6 |-> normalizePrefixes(e.v6)]

\* A number that is looked up in what Write left has the valid prefixes it was given
\* with, in their order, whatever part of the file is missing; and a file that was
\* written whole is refused only when it cannot be read.
WrittenIsAnswered ==
  ~readFailed => \A entries \in Databases :
    /\ mode = "answered" /\ ~replaced /\ file \in Left(entries) => answer = Given(entries, asn)
    /\ mode = "refused" /\ ~Refused(entries) => file # Written(entries)
=============================================================================
