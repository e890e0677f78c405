---------------------------- MODULE FilesProofs ----------------------------
(***************************************************************************)
(* The files the agent keeps, proved one component at a time: the database *)
(* of AS numbers for every set of files, also of damaged ones, and what    *)
(* was written to it; downloads and geodata for any number of processes,   *)
(* sources and files; the rotation of a log of any length; the custom      *)
(* core.  At the end the run that explores all of them.                    *)
(***************************************************************************)
EXTENDS MCFiles, SubsequenceProofs, SequenceTheorems, TLAPS

-----------------------------------------------------------------------------
(* The AS database.                                                        *)

\* What Open knows of the entries it has checked: neighbours in order are all in
\* order, and the prefixes of each are inside the file.
Checked ==
  /\ i <= count
  /\ mode \in {"open", "searching", "answered"} => i = count
  /\ ~replaced =>
       /\ mode \in {"checking", "open", "searching", "answered"} => count = file.count
       /\ count \in {0, file.count}
       /\ \A k \in 0..(i - 1) : file.off[k] + Length(file, k) <= file.size
       /\ \A j, k \in 0..(i - 1) : j < k => file.asn[j] < file.asn[k]

\* What the search knows: the entries outside lo..(hi - 1) have other numbers.
Narrowed ==
  mode = "searching" =>
    /\ answer = Empty
    /\ ~replaced => \A k \in 0..(count - 1) : /\ k < lo => file.asn[k] < asn
                                              /\ k >= hi => asn < file.asn[k]

\* Nothing was opened yet.
Closed ==
  mode = "closed" => i = 0 /\ count = 0 /\ lo = 0 /\ hi = 0

\* The inductive invariant.
AsnInv == AsnTypeOK /\ Closed /\ Checked /\ Narrowed /\ AnswerIsListed

\* The fields of the file at the path.
LEMMA FileFields ==
  ASSUME AsnTypeOK
  PROVE  /\ file.count \in Nat /\ file.size \in Nat /\ file.header \in BOOLEAN
         /\ \A k \in 0..(file.count - 1) :
              /\ file.asn[k] \in Nat /\ file.off[k] \in Nat
              /\ file.v4[k] \in Nat /\ file.v6[k] \in Nat
              /\ Length(file, k) \in Nat
<1>1. FileType(file)
  BY FilesAssumption DEF AsnTypeOK
<1>2. \A field \in {file.asn, file.off, file.v4, file.v6} : field \in [0..(file.count - 1) -> Nat]
  BY <1>1 DEF FileType
<1>3. ASSUME NEW k \in 0..(file.count - 1)
      PROVE  /\ file.asn[k] \in Nat /\ file.off[k] \in Nat
             /\ file.v4[k] \in Nat /\ file.v6[k] \in Nat
  BY <1>2
<1>4. \A k \in 0..(file.count - 1) : Length(file, k) \in Nat
  BY <1>3 DEF Length, v4Record, v6Record
<1> QED BY <1>1, <1>3, <1>4 DEF FileType

\* The middle of a search that goes on is an entry of it.
LEMMA MidInside ==
  ASSUME AsnTypeOK, lo < hi
  PROVE  Mid \in Nat /\ lo <= Mid /\ Mid < hi /\ Mid \in 0..(count - 1)
BY DEF AsnTypeOK, Mid

\* Open, step by step, and the search keep the inductive invariant.
THEOREM AsnInvariant == AsnSpec => []AsnInv
<1>1. AsnInit => AsnInv
  <2> SUFFICES ASSUME AsnInit PROVE AsnInv
    OBVIOUS
  <2>1. /\ file \in DbFiles /\ replaced = FALSE /\ mode = "closed"
        /\ i = 0 /\ count = 0 /\ asn = 0 /\ lo = 0 /\ hi = 0 /\ readFailed = FALSE
    BY DEF AsnInit
  <2>2. AsnTypeOK
    <3>1. i \in Nat /\ count \in Nat /\ lo \in 0..count /\ hi \in 0..count
      BY <2>1
    <3>2. replaced \in BOOLEAN /\ readFailed \in BOOLEAN /\ asn \in Numbers \cup {0}
      BY Zenon, <2>1
    <3> QED BY Zenon, <2>1, <3>1, <3>2 DEF AsnTypeOK
  <2>3. Checked
    BY <2>1 DEF Checked
  <2> QED BY <2>1, <2>2, <2>3 DEF AsnInv, Closed, Narrowed, AnswerIsListed
<1>2. AsnInv /\ [AsnNext]_asnVars => AsnInv'
  <2> SUFFICES ASSUME AsnInv, [AsnNext]_asnVars PROVE AsnInv'
    OBVIOUS
  <2> USE DEF AsnInv
  <2>1. CASE Open
    <3>1. /\ mode' \in {"checking", "refused"} /\ count' \in {count, file.count}
          /\ mode' = "checking" => count' = file.count
          /\ UNCHANGED <<file, replaced, i, asn, lo, hi, readFailed, answer>>
      BY <2>1 DEF Open
    <3>4. i = 0 /\ count = 0 /\ lo = 0 /\ hi = 0
      BY <2>1 DEF Closed, Open
    <3>5. file.count \in Nat
      BY FileFields
    <3>2. AsnTypeOK'
      BY <3>1, <3>4, <3>5 DEF AsnTypeOK
    <3>3. Checked'
      BY <3>1, <3>4, <3>5 DEF Checked
    <3> QED BY <2>1, <3>1, <3>2, <3>3, <3>4 DEF Narrowed, AnswerIsListed, Closed, Open
  <2>2. CASE CheckEntry
    <3>1. AsnTypeOK'
      BY <2>2 DEF AsnTypeOK, CheckEntry
    <3>2. Checked'
      <4>1. CASE ~EntryOk(file, i) \/ replaced
        BY <2>2, <4>1 DEF AsnTypeOK, Checked, CheckEntry, Length
      <4>2. CASE EntryOk(file, i) /\ ~replaced
        <5>1. i' = i + 1 /\ i \in 0..(file.count - 1) /\ UNCHANGED <<file, replaced, count, mode>>
          BY <2>2, <4>2 DEF AsnTypeOK, Checked, CheckEntry
        <5>2. \A k \in 0..i : file.off[k] + Length(file, k) <= file.size
          BY <4>2, <5>1 DEF Checked, EntryOk, AsnTypeOK
        <5>3. ASSUME NEW j \in 0..i, NEW k \in 0..i, j < k
              PROVE  file.asn[j] < file.asn[k]
          <6>1. CASE k < i
            BY <4>2, <5>1, <5>3, <6>1 DEF Checked, AsnTypeOK
          <6>2. CASE k = i
            <7>1. k > 0 /\ file.asn[k - 1] < file.asn[k] /\ k - 1 \in 0..(i - 1)
              BY <4>2, <5>1, <5>3, <6>2 DEF EntryOk, AsnTypeOK
            <7>2. j = k - 1 \/ file.asn[j] < file.asn[k - 1]
              BY <4>2, <5>1, <5>3, <6>2, <7>1 DEF Checked, AsnTypeOK
            <7>3. file.asn[j] \in Nat /\ file.asn[k] \in Nat /\ file.asn[k - 1] \in Nat
              BY <5>1, <5>3, <6>2, <7>1, FileFields DEF AsnTypeOK
            <7> QED BY <7>1, <7>2, <7>3
          <6> QED BY <5>1, <5>3, <6>1, <6>2 DEF AsnTypeOK
        <5>4. i' - 1 = i /\ i' <= count /\ mode = "checking" /\ count = file.count
          BY <2>2, <4>2, <5>1 DEF AsnTypeOK, Checked, CheckEntry
        <5> QED BY <5>1, <5>2, <5>3, <5>4 DEF Checked, Length
      <4> QED BY <4>1, <4>2
    <3> QED BY <2>2, <3>1, <3>2 DEF Closed, Narrowed, AnswerIsListed, CheckEntry
  <2>3. CASE OpenFails
    BY <2>3 DEF Closed, AsnTypeOK, Checked, Narrowed, AnswerIsListed, OpenFails, Length
  <2>4. CASE Opened
    BY <2>4 DEF Closed, AsnTypeOK, Checked, Narrowed, AnswerIsListed, Opened, Length
  <2>5. ASSUME NEW n \in Numbers, Ask(n) PROVE AsnInv'
    <3>1. AsnTypeOK'
      <4>1. lo' \in 0..count' /\ hi' \in 0..count' /\ i' \in Nat /\ count' \in Nat
        BY <2>5 DEF AsnTypeOK, Ask
      <4>2. /\ file' \in DbFiles /\ replaced' \in BOOLEAN /\ readFailed' \in BOOLEAN
            /\ asn' \in Numbers \cup {0} /\ mode' = "searching"
        BY Zenon, <2>5 DEF AsnTypeOK, Ask
      <4> QED BY Zenon, <4>1, <4>2 DEF AsnTypeOK
    <3>2. Checked'
      BY <2>5 DEF Checked, Ask, Length
    <3>3. Narrowed'
      BY <2>5 DEF AsnTypeOK, Checked, Narrowed, Ask
    <3> QED BY <2>5, <3>1, <3>2, <3>3 DEF Closed, AnswerIsListed, Ask
  <2>6. CASE Narrow
    <3>1. Mid \in Nat /\ lo <= Mid /\ Mid < hi /\ Mid \in 0..(count - 1)
      BY <2>6, MidInside DEF Narrow
    <3>2. AsnTypeOK'
      BY <2>6, <3>1 DEF AsnTypeOK, Narrow
    <3>3. Checked'
      BY <2>6 DEF Checked, Narrow, Length
    <3>4. Narrowed'
      <4>1. CASE replaced
        BY <2>6, <4>1 DEF Narrowed, Narrow
      <4>2. CASE ~replaced
        <5>1. count = file.count /\ i = count
          BY <2>6, <4>2 DEF Checked, Narrow
        <5>2. \A k \in 0..(count - 1) : file.asn[k] \in Nat
          BY <5>1, FileFields
        <5>3. asn \in Nat /\ file.asn[Mid] # asn
          <6>1. asn \in Numbers \cup {0} /\ file.asn[Mid] # asn
            BY <2>6 DEF AsnTypeOK, Narrow
          <6> QED BY <6>1, NumbersAssumption
        <5>4. \A j, k \in 0..(count - 1) : j < k => file.asn[j] < file.asn[k]
          BY <4>2, <5>1 DEF Checked
        <5>5. CASE file.asn[Mid] < asn
          <6>1. lo' = Mid + 1 /\ UNCHANGED <<hi, file, mode, count, asn, answer, replaced>>
            BY <2>6, <5>5 DEF Narrow
          <6>2. ASSUME NEW k \in 0..(count - 1), k < Mid + 1 PROVE file.asn[k] < asn
            <7>1. k = Mid \/ file.asn[k] < file.asn[Mid]
              BY <3>1, <5>4, <6>2
            <7> QED BY <3>1, <5>2, <5>3, <5>5, <7>1
          <6> QED BY <2>6, <4>2, <6>1, <6>2 DEF Narrowed, Narrow
        <5>6. CASE ~(file.asn[Mid] < asn)
          <6>1. hi' = Mid /\ UNCHANGED <<lo, file, mode, count, asn, answer, replaced>>
            BY <2>6, <5>6 DEF Narrow
          <6>2. ASSUME NEW k \in 0..(count - 1), k >= Mid PROVE asn < file.asn[k]
            <7>1. asn < file.asn[Mid]
              BY <3>1, <5>2, <5>3, <5>6
            <7>2. k = Mid \/ file.asn[Mid] < file.asn[k]
              BY <3>1, <5>4, <6>2
            <7> QED BY <3>1, <5>2, <5>3, <7>1, <7>2
          <6> QED BY <2>6, <4>2, <6>1, <6>2 DEF Narrowed, Narrow
        <5> QED BY <5>5, <5>6
      <4> QED BY <4>1, <4>2
    <3> QED BY <2>6, <3>2, <3>3, <3>4 DEF Closed, AnswerIsListed, Narrow
  <2>7. CASE NarrowUnknown
    <3>1. Mid \in Nat /\ lo <= Mid /\ Mid < hi /\ Mid \in 0..(count - 1)
      BY <2>7, MidInside DEF NarrowUnknown
    <3>2. replaced
      BY <2>7, <3>1, FileFields DEF Checked, NarrowUnknown, AsnTypeOK
    <3>3. AsnTypeOK'
      BY <2>7, <3>1 DEF AsnTypeOK, NarrowUnknown
    <3> QED BY <2>7, <3>2, <3>3 DEF Closed, Checked, Narrowed, AnswerIsListed, NarrowUnknown
  <2>8. CASE Found
    <3>1. Mid \in 0..(count - 1)
      BY <2>8, MidInside DEF Found
    <3>2. AsnTypeOK' /\ Checked' /\ Narrowed'
      BY <2>8 DEF AsnTypeOK, Checked, Narrowed, Found, Length
    <3>3. AnswerIsListed'
      <4>1. CASE replaced
        BY <2>8, <4>1 DEF Closed, AnswerIsListed, Found
      <4>2. CASE ~replaced
        <5>1. count = file.count /\ i = count
          BY <2>8, <4>2 DEF Checked, Found
        <5>2. Mid \in 0..(file.count - 1) /\ file.off[Mid] + Length(file, Mid) <= file.size
          BY <3>1, <4>2, <5>1 DEF Checked
        <5>3. answer' = Blob(file, Mid) /\ file.asn[Mid] = asn
          BY <2>8, <5>2 DEF Found, Fits
        <5> QED BY <2>8, <5>2, <5>3 DEF Closed, AnswerIsListed, Found, Length, Blob, Record
      <4> QED BY <4>1, <4>2
    <3> QED BY <2>8, <3>2, <3>3 DEF Closed, Found
  <2>9. CASE NotFound
    <3>1. AsnTypeOK' /\ Checked' /\ Narrowed'
      BY <2>9 DEF AsnTypeOK, Checked, Narrowed, NotFound, Length
    <3>2. AnswerIsListed'
      <4>1. CASE replaced
        BY <2>9, <4>1 DEF Closed, AnswerIsListed, NotFound
      <4>2. CASE ~replaced
        <5>1. count = file.count /\ answer = Empty
          BY <2>9, <4>2 DEF Checked, Narrowed, NotFound
        <5>2. ASSUME NEW k \in 0..(file.count - 1) PROVE file.asn[k] # asn
          <6>1. k < lo \/ k >= hi
            BY <2>9, <5>1 DEF NotFound, AsnTypeOK
          <6>2. file.asn[k] < asn \/ asn < file.asn[k]
            BY <2>9, <4>2, <5>1, <6>1 DEF Narrowed, NotFound
          <6>3. file.asn[k] \in Nat /\ asn \in Nat
            BY FileFields, NumbersAssumption DEF AsnTypeOK
          <6> QED BY <6>2, <6>3
        <5> QED BY <2>9, <5>1, <5>2 DEF Closed, AnswerIsListed, NotFound
      <4> QED BY <4>1, <4>2
    <3> QED BY <2>9, <3>1, <3>2 DEF Closed, NotFound
  <2>10. CASE ReadPastEnd
    BY <2>10 DEF Closed, AsnTypeOK, Checked, Narrowed, AnswerIsListed, ReadPastEnd, Length
  <2>11. CASE ReadFails
    BY <2>11 DEF Closed, AsnTypeOK, Checked, Narrowed, AnswerIsListed, ReadFails, Length
  <2>12. ASSUME NEW f \in Replacements, Replace(f) PROVE AsnInv'
    <3>1. AsnTypeOK'
      BY <2>12, ReplacementsAssumption DEF AsnTypeOK, Replace
    <3> QED BY <2>12, <3>1 DEF Closed, Checked, Narrowed, AnswerIsListed, Replace
  <2>13. CASE UNCHANGED asnVars
    BY <2>13 DEF Closed, AsnTypeOK, Checked, Narrowed, AnswerIsListed, asnVars, Length, Blob, Record
  <2> QED BY <2>1, <2>2, <2>3, <2>4, <2>5, <2>6, <2>7, <2>8, <2>9, <2>10, <2>11, <2>12, <2>13
          DEF AsnNext, Search
<1> QED BY <1>1, <1>2, PTL DEF AsnSpec

\* What is answered from a file that Open accepted and nobody overwrote is what the
\* entry of the number points to, or nothing when no entry has it.
THEOREM AnswerIsListedHolds == AsnSpec => []AnswerIsListed
<1>1. AsnInv => AnswerIsListed
  BY DEF AsnInv
<1> QED BY <1>1, AsnInvariant, PTL

\* The bounds of the search stay within the entries that were checked.
THEOREM AsnTypeCorrect == AsnSpec => []AsnTypeOK
<1>1. AsnInv => AsnTypeOK
  BY DEF AsnInv
<1> QED BY <1>1, AsnInvariant, PTL

-----------------------------------------------------------------------------
(* What Write makes of a list of entries, for every list: the sort, the    *)
(* offsets, the places of the records; and what the reader makes of it.    *)

\* Of a list that Write is given, it keeps one.
LEMMA KeptPrefixes ==
  ASSUME NEW list, list \in Seq(Range(list))
  PROVE  \E n \in Nat : /\ DOMAIN normalizePrefixes(list) = 1..n
                        /\ Len(normalizePrefixes(list)) = n
                        /\ normalizePrefixes(list) = [j \in 1..n |-> normalizePrefixes(list)[j]]
<1> DEFINE valid == {k \in DOMAIN list : list[k] # InvalidPrefix}
<1>1. valid \in SUBSET DOMAIN list
  OBVIOUS
<1> HIDE DEF valid
<1>2. Picked(list, valid) \in Seq(Range(list))
  BY <1>1, PickedFacts
<1>3. normalizePrefixes(list) = Picked(list, valid)
  BY DEF normalizePrefixes, valid
<1> QED BY <1>2, <1>3

\* An entry whose number is smaller comes before: ranks of different numbers differ.
LEMMA RankOrder ==
  ASSUME NEW E \in Databases, NEW k \in DOMAIN E, NEW l \in DOMAIN E,
         E[k].asn < E[l].asn
  PROVE  Rank(E, k) < Rank(E, l)
<1> DEFINE Before(m) == {j \in DOMAIN E : \/ E[j].asn < E[m].asn
                                          \/ (E[j].asn = E[m].asn /\ j < m)}
<1>1. IsFiniteSet(DOMAIN E) /\ \A m \in DOMAIN E : E[m].asn \in Nat
  <2>1. DOMAIN E = 1..Len(E) /\ Len(E) \in Nat
    BY DatabasesAssumption
  <2>2. IsFiniteSet(1..Len(E))
    BY <2>1, FS_Interval
  <2> QED BY <2>1, <2>2, DatabasesAssumption
<1>2. Before(k) \subseteq Before(l) /\ k \in Before(l) /\ k \notin Before(k)
  <2>1. DOMAIN E = 1..Len(E) /\ Len(E) \in Nat
    BY DatabasesAssumption
  <2>2. \A m \in DOMAIN E : m \in Nat
    BY <2>1
  <2> QED BY <1>1, <2>2
<1>3. IsFiniteSet(Before(k)) /\ IsFiniteSet(Before(l))
  BY <1>1, FS_Subset
<1> HIDE DEF Before
<1>4. Cardinality(Before(k)) <= Cardinality(Before(l)) /\ Cardinality(Before(k)) # Cardinality(Before(l))
  BY <1>2, <1>3, FS_Subset
<1>5. Cardinality(Before(k)) \in Nat /\ Cardinality(Before(l)) \in Nat
  BY <1>3, FS_CardinalityType
<1>6. Rank(E, k) = 1 + Cardinality(Before(k)) /\ Rank(E, l) = 1 + Cardinality(Before(l))
  BY DEF Rank, Before
<1> QED BY <1>4, <1>5, <1>6

LEMMA RankBound ==
  ASSUME NEW E \in Databases, NEW k \in DOMAIN E
  PROVE  Rank(E, k) \in 1..Len(E)
<1> DEFINE Before == {j \in DOMAIN E : \/ E[j].asn < E[k].asn
                                       \/ (E[j].asn = E[k].asn /\ j < k)}
<1>1. DOMAIN E = 1..Len(E) /\ Len(E) \in Nat /\ E[k].asn \in Nat
  BY DatabasesAssumption
<1>2. IsFiniteSet(DOMAIN E) /\ Cardinality(DOMAIN E) = Len(E)
  <2>1. /\ IsFiniteSet(1..Len(E))
        /\ Cardinality(1..Len(E)) = IF 1 > Len(E) THEN 0 ELSE Len(E) - 1 + 1
    BY <1>1, FS_Interval
  <2>2. Cardinality(1..Len(E)) = Len(E)
    BY <1>1, <2>1
  <2> QED BY <1>1, <2>1, <2>2
<1>3. Before \in SUBSET DOMAIN E /\ k \notin Before
  BY <1>1
<1> HIDE DEF Before
<1>4. /\ Cardinality(Before) \in Nat /\ Cardinality(Before) <= Len(E)
      /\ Cardinality(Before) # Len(E)
  <2>1. IsFiniteSet(Before) /\ Cardinality(Before) <= Cardinality(DOMAIN E)
    BY <1>2, <1>3, FS_Subset
  <2>2. Cardinality(DOMAIN E) = Cardinality(Before) => DOMAIN E = Before
    BY <1>2, <1>3, FS_Subset
  <2> QED BY <1>2, <1>3, <2>1, <2>2, FS_CardinalityType
<1>5. Rank(E, k) = 1 + Cardinality(Before)
  BY DEF Rank, Before
<1> QED BY <1>1, <1>4, <1>5

\* The sort: what is written has the entries that were given, in the order of their numbers.
LEMMA SortedFacts ==
  ASSUME NEW E \in Databases, ~Refused(E)
  PROVE  /\ Len(Sorted(E)) = Len(E) /\ Len(E) \in Nat
         /\ \A n \in 1..Len(E) : \E k \in DOMAIN E : Sorted(E)[n] = E[k]
         /\ \A k \in DOMAIN E : \E n \in 1..Len(E) : Sorted(E)[n] = E[k]
         /\ \A m, n \in 1..Len(E) : m < n => Sorted(E)[m].asn < Sorted(E)[n].asn
<1>1. DOMAIN E = 1..Len(E) /\ Len(E) \in Nat /\ \A k \in DOMAIN E : E[k].asn \in Nat
  BY DatabasesAssumption
<1>2. ASSUME NEW k \in DOMAIN E, NEW l \in DOMAIN E, k # l PROVE E[k].asn # E[l].asn
  BY <1>2 DEF Refused
<1>3. ASSUME NEW k \in DOMAIN E, NEW l \in DOMAIN E, k # l PROVE Rank(E, k) # Rank(E, l)
  <2>1. Rank(E, k) \in Int /\ Rank(E, l) \in Int
    BY RankBound, <1>1
  <2>2. CASE E[k].asn < E[l].asn
    BY <2>1, <2>2, RankOrder
  <2>3. CASE E[l].asn < E[k].asn
    BY <2>1, <2>3, RankOrder
  <2> QED BY <1>1, <1>2, <1>3, <2>2, <2>3
<1> DEFINE f == [k \in DOMAIN E |-> Rank(E, k)]
<1>4. f \in [DOMAIN E -> 1..Len(E)]
  BY RankBound
<1>5. f \in Injection(DOMAIN E, 1..Len(E))
  BY <1>3, <1>4 DEF Injection, IsInjective
<1>6. IsFiniteSet(1..Len(E))
  BY <1>1, FS_Interval
<1>7. f \in Surjection(DOMAIN E, 1..Len(E))
  <2> HIDE DEF f
  <2> QED BY <1>1, <1>5, <1>6, FS_Injection
<1>8. \A n \in 1..Len(E) : \E k \in DOMAIN E : Rank(E, k) = n
  BY <1>7 DEF Surjection
<1> DEFINE place(n) == CHOOSE k \in DOMAIN E : Rank(E, k) = n
<1>9. \A n \in 1..Len(E) : place(n) \in DOMAIN E /\ Rank(E, place(n)) = n
  BY <1>8
<1>10. Sorted(E) = [n \in 1..Len(E) |-> E[place(n)]]
  BY DEF Sorted
<1> HIDE DEF place
<1>11. Len(Sorted(E)) = Len(E) /\ \A n \in 1..Len(E) : Sorted(E)[n] = E[place(n)]
  BY <1>1, <1>10
<1>12. \A k \in DOMAIN E : Rank(E, k) \in 1..Len(E) /\ place(Rank(E, k)) = k
  BY <1>3, <1>9, RankBound
<1>13. ASSUME NEW m \in 1..Len(E), NEW n \in 1..Len(E), m < n
       PROVE  E[place(m)].asn < E[place(n)].asn
  <2>1. place(m) # place(n) /\ place(m) \in DOMAIN E /\ place(n) \in DOMAIN E
    BY <1>9, <1>13
  <2>2. CASE E[place(n)].asn < E[place(m)].asn
    <3>1. Rank(E, place(n)) < Rank(E, place(m))
      BY <2>1, <2>2, RankOrder
    <3> QED BY <1>9, <1>13, <3>1
  <2> QED BY <1>1, <1>2, <2>1, <2>2
<1> QED BY <1>1, <1>9, <1>11, <1>12, <1>13

\* The pairs of an entry among the first k and one of its prefixes.
Counted(c, k) == UNION {{j} \X (1..c[j]) : j \in 1..k}

LEMMA CountedFinite ==
  ASSUME NEW n \in Nat, NEW c \in [1..n -> Nat], NEW k \in 0..n
  PROVE  IsFiniteSet(Counted(c, k)) /\ Cardinality(Counted(c, k)) \in Nat
<1> DEFINE T == {{j} \X (1..c[j]) : j \in 1..k}
           g == [j \in 1..k |-> {j} \X (1..c[j])]
<1>1. g \in Surjection(1..k, T)
  BY DEF Surjection
<1>2. IsFiniteSet(1..k)
  BY FS_Interval
<1>3. ASSUME NEW S \in T PROVE IsFiniteSet(S)
  <2>1. PICK j \in 1..k : S = {j} \X (1..c[j])
    OBVIOUS
  <2>2. c[j] \in Nat
    OBVIOUS
  <2>3. IsFiniteSet({j})
    BY FS_Singleton
  <2>4. IsFiniteSet(1..c[j])
    BY <2>2, FS_Interval
  <2>5. IsFiniteSet({j} \X (1..c[j]))
    BY <2>3, <2>4, FS_Product
  <2> QED BY <2>1, <2>5
<1> HIDE DEF T, g
<1>4. IsFiniteSet(T)
  BY <1>1, <1>2, FS_Surjection
<1>5. IsFiniteSet(UNION T)
  BY <1>3, <1>4, FS_UNION
<1> QED BY <1>5, FS_CardinalityType DEF Counted, T

LEMMA CountedStep ==
  ASSUME NEW n \in Nat, NEW c \in [1..n -> Nat], NEW k \in 1..n
  PROVE  Cardinality(Counted(c, k)) = Cardinality(Counted(c, k - 1)) + c[k]
<1> DEFINE A == Counted(c, k - 1)
           B == {k} \X (1..c[k])
<1>1. Counted(c, k) = A \cup B
  <2>1. 1..k = (1..(k - 1)) \cup {k}
    OBVIOUS
  <2> QED BY <2>1 DEF Counted
<1>2. A \cap B = {}
  BY DEF Counted
<1>3. IsFiniteSet(A) /\ Cardinality(A) \in Nat
  BY CountedFinite
<1>4. c[k] \in Nat
  OBVIOUS
<1>5. IsFiniteSet(B) /\ Cardinality(B) = 1 * c[k]
  <2>1. IsFiniteSet({k}) /\ Cardinality({k}) = 1
    BY FS_Singleton
  <2>2. IsFiniteSet(1..c[k]) /\ Cardinality(1..c[k]) = c[k]
    BY <1>4, UpTo
  <2> DEFINE K == {k}
             C == 1..c[k]
  <2>3. IsFiniteSet(K) /\ IsFiniteSet(C) /\ Cardinality(K) = 1 /\ Cardinality(C) = c[k]
    BY <2>1, <2>2
  <2> HIDE DEF K, C
  <2>4. IsFiniteSet(K \X C) /\ Cardinality(K \X C) = 1 * c[k]
    BY <2>3, FS_Product
  <2> QED BY <2>4 DEF K, C
<1> HIDE DEF A, B
<1>6. Cardinality(A \cup B) = Cardinality(A) + Cardinality(B) - Cardinality(A \cap B)
  BY <1>3, <1>5, FS_Union
<1>7. Cardinality(A \cap B) = 0
  BY <1>2, FS_EmptySet
<1>8. Cardinality(Counted(c, k)) = Cardinality(A) + c[k]
  BY <1>1, <1>3, <1>4, <1>5, <1>6, <1>7
<1> QED BY <1>8 DEF A

LEMMA CountedMonotone ==
  ASSUME NEW n \in Nat, NEW c \in [1..n -> Nat], NEW j \in 0..n, NEW k \in 0..n, j <= k
  PROVE  Cardinality(Counted(c, j)) <= Cardinality(Counted(c, k))
<1>1. Counted(c, j) \subseteq Counted(c, k)
  BY DEF Counted
<1>2. IsFiniteSet(Counted(c, k))
  BY CountedFinite
<1> QED BY <1>1, <1>2, FS_Subset

\* What the loop of Write keeps of each entry, IPv4 and IPv6.
Kept4(s, k) == normalizePrefixes(s[k].v4)
Kept6(s, k) == normalizePrefixes(s[k].v6)

LEMMA KeptFacts ==
  ASSUME NEW E \in Databases, ~Refused(E), NEW k \in 1..Len(E)
  PROVE  LET s == Sorted(E)
         IN /\ Len(Kept4(s, k)) \in Nat /\ DOMAIN Kept4(s, k) = 1..Len(Kept4(s, k))
            /\ Kept4(s, k) = [j \in 1..Len(Kept4(s, k)) |-> Kept4(s, k)[j]]
            /\ Len(Kept6(s, k)) \in Nat /\ DOMAIN Kept6(s, k) = 1..Len(Kept6(s, k))
            /\ Kept6(s, k) = [j \in 1..Len(Kept6(s, k)) |-> Kept6(s, k)[j]]
<1>1. PICK l \in DOMAIN E : Sorted(E)[k] = E[l]
  BY SortedFacts
<1>2. E[l].v4 \in Seq(Range(E[l].v4)) /\ E[l].v6 \in Seq(Range(E[l].v6))
  BY DatabasesAssumption
<1> QED BY <1>1, <1>2, KeptPrefixes DEF Kept4, Kept6

\* The offsets: the first entry's prefixes begin behind the index, the others' behind
\* those of the entry before.
LEMMA Offsets ==
  ASSUME NEW E \in Databases, ~Refused(E)
  PROVE  LET s == Sorted(E)
         IN /\ \A k \in 0..Len(E) : Offset(s, k) \in Nat /\ Offset(s, k) >= headerLen + Len(E) * entryLen
            /\ \A k \in 1..Len(E) :
                 Offset(s, k) = Offset(s, k - 1) + Len(Kept4(s, k)) * v4Record + Len(Kept6(s, k)) * v6Record
            /\ \A j, k \in 0..Len(E) : j <= k => Offset(s, j) <= Offset(s, k)
<1> DEFINE s == Sorted(E)
           n == Len(E)
           c4 == [k \in 1..n |-> Len(Kept4(s, k))]
           c6 == [k \in 1..n |-> Len(Kept6(s, k))]
<1>1. n \in Nat /\ Len(s) = n
  BY SortedFacts
<1>2. c4 \in [1..n -> Nat] /\ c6 \in [1..n -> Nat]
  BY KeptFacts
<1>3. ASSUME NEW k \in 0..n
      PROVE  Offset(s, k) = headerLen + n * entryLen + Cardinality(Counted(c4, k)) * v4Record
                            + Cardinality(Counted(c6, k)) * v6Record
  <2>1. \A j \in 1..k : DOMAIN Kept4(s, j) = 1..c4[j] /\ DOMAIN Kept6(s, j) = 1..c6[j]
    BY <1>1, KeptFacts
  <2>2. Counted(c4, k) = UNION {{j} \X DOMAIN normalizePrefixes(s[j].v4) : j \in 1..k}
    BY <2>1 DEF Counted, Kept4
  <2>3. Counted(c6, k) = UNION {{j} \X DOMAIN normalizePrefixes(s[j].v6) : j \in 1..k}
    BY <2>1 DEF Counted, Kept6
  <2> QED BY <1>1, <2>2, <2>3 DEF Offset
<1> HIDE DEF c4, c6, s, n
<1>4. \A k \in 0..n : Cardinality(Counted(c4, k)) \in Nat /\ Cardinality(Counted(c6, k)) \in Nat
  BY <1>1, <1>2, CountedFinite
<1>5. ASSUME NEW k \in 0..n PROVE Offset(s, k) \in Nat /\ Offset(s, k) >= headerLen + n * entryLen
  <2> DEFINE x == Cardinality(Counted(c4, k))
             y == Cardinality(Counted(c6, k))
  <2>1. x \in Nat /\ y \in Nat
    BY <1>4
  <2>2. Offset(s, k) = headerLen + n * entryLen + x * v4Record + y * v6Record
    BY <1>3
  <2> HIDE DEF x, y
  <2> QED BY <1>1, <2>1, <2>2 DEF headerLen, entryLen, v4Record, v6Record
<1>6. ASSUME NEW k \in 1..n
      PROVE  Offset(s, k) = Offset(s, k - 1) + c4[k] * v4Record + c6[k] * v6Record
  <2>1. /\ Cardinality(Counted(c4, k)) = Cardinality(Counted(c4, k - 1)) + c4[k]
        /\ Cardinality(Counted(c6, k)) = Cardinality(Counted(c6, k - 1)) + c6[k]
    BY <1>1, <1>2, CountedStep
  <2>2. k \in 0..n /\ k - 1 \in 0..n /\ c4[k] \in Nat /\ c6[k] \in Nat
    BY <1>1, <1>2
  <2> DEFINE x == Cardinality(Counted(c4, k - 1))
             y == Cardinality(Counted(c6, k - 1))
             a == c4[k]
             b == c6[k]
  <2>3. x \in Nat /\ y \in Nat /\ a \in Nat /\ b \in Nat
    BY <1>4, <2>2
  <2>4. /\ Offset(s, k - 1) = headerLen + n * entryLen + x * v4Record + y * v6Record
        /\ Offset(s, k) = headerLen + n * entryLen + (x + a) * v4Record + (y + b) * v6Record
    BY <1>3, <2>1, <2>2
  <2> HIDE DEF x, y, a, b
  <2>5. Offset(s, k) = Offset(s, k - 1) + a * v4Record + b * v6Record
    BY <1>1, <2>3, <2>4 DEF headerLen, entryLen, v4Record, v6Record
  <2> QED BY <2>5 DEF a, b
<1>7. ASSUME NEW j \in 0..n, NEW k \in 0..n, j <= k PROVE Offset(s, j) <= Offset(s, k)
  <2>1. /\ Cardinality(Counted(c4, j)) <= Cardinality(Counted(c4, k))
        /\ Cardinality(Counted(c6, j)) <= Cardinality(Counted(c6, k))
    BY <1>1, <1>2, <1>7, CountedMonotone
  <2> DEFINE x == Cardinality(Counted(c4, j))
             y == Cardinality(Counted(c6, j))
             u == Cardinality(Counted(c4, k))
             v == Cardinality(Counted(c6, k))
  <2>2. x \in Nat /\ y \in Nat /\ u \in Nat /\ v \in Nat /\ x <= u /\ y <= v
    BY <1>4, <2>1
  <2>3. /\ Offset(s, j) = headerLen + n * entryLen + x * v4Record + y * v6Record
        /\ Offset(s, k) = headerLen + n * entryLen + u * v4Record + v * v6Record
    BY <1>3
  <2> HIDE DEF x, y, u, v
  <2> QED BY <1>1, <2>2, <2>3 DEF headerLen, entryLen, v4Record, v6Record
<1>8. \A k \in 1..n : c4[k] = Len(Kept4(s, k)) /\ c6[k] = Len(Kept6(s, k))
  BY DEF c4, c6
<1> QED BY <1>5, <1>6, <1>7, <1>8 DEF s, n

\* The records of an entry are between its offset and the next, each at a place of its own.
LEMMA EntryRecords ==
  ASSUME NEW E \in Databases, ~Refused(E), NEW k \in 1..Len(E)
  PROVE  LET R == Records(Sorted(E)[k], Offset(Sorted(E), k - 1))
         IN /\ \A r \in R : r[1] \in Nat /\ Offset(Sorted(E), k - 1) <= r[1] /\ r[1] < Offset(Sorted(E), k)
            /\ \A r, t \in R : r[1] = t[1] => r = t
<1> DEFINE s == Sorted(E)
           off == Offset(s, k - 1)
           R4 == {<<off + (n - 1) * v4Record, Kept4(s, k)[n]>> : n \in 1..Len(Kept4(s, k))}
           R6 == {<<off + Len(Kept4(s, k)) * v4Record + (n - 1) * v6Record, Kept6(s, k)[n]>> :
                    n \in 1..Len(Kept6(s, k))}
           l4 == Len(Kept4(s, k))
           l6 == Len(Kept6(s, k))
<1>1. /\ l4 \in Nat /\ DOMAIN Kept4(s, k) = 1..l4
      /\ l6 \in Nat /\ DOMAIN Kept6(s, k) = 1..l6
  BY KeptFacts
<1>2. Records(s[k], off) = R4 \cup R6
  BY <1>1 DEF Records, Kept4, Kept6
<1>3. off \in Nat /\ Offset(s, k) = off + l4 * v4Record + l6 * v6Record
  <2>1. k - 1 \in 0..Len(E)
    BY SortedFacts
  <2> QED BY <2>1, Offsets
<1>4. ASSUME NEW r \in R4 PROVE \E n \in 1..l4 : r[1] = off + (n - 1) * v4Record /\ r[2] = Kept4(s, k)[n] /\ r = <<r[1], r[2]>>
  OBVIOUS
<1>5. ASSUME NEW r \in R6
      PROVE  \E n \in 1..l6 : /\ r[1] = off + l4 * v4Record + (n - 1) * v6Record
                              /\ r[2] = Kept6(s, k)[n] /\ r = <<r[1], r[2]>>
  OBVIOUS
<1> HIDE DEF off, R4, R6, l4, l6
<1>6. ASSUME NEW r \in R4
      PROVE  r[1] \in Nat /\ off <= r[1] /\ r[1] < off + l4 * v4Record
  <2>1. PICK n \in 1..l4 : r[1] = off + (n - 1) * v4Record
    BY <1>4
  <2> QED BY <1>1, <1>3, <2>1 DEF v4Record
<1>7. ASSUME NEW r \in R6
      PROVE  r[1] \in Nat /\ off + l4 * v4Record <= r[1] /\ r[1] < Offset(s, k)
  <2>1. PICK n \in 1..l6 : r[1] = off + l4 * v4Record + (n - 1) * v6Record
    BY <1>5
  <2> QED BY <1>1, <1>3, <2>1 DEF v4Record, v6Record
<1>8. \A r \in R4 : r[1] < Offset(s, k)
  BY <1>1, <1>3, <1>6 DEF v4Record, v6Record
<1>9. \A r \in R6 : off <= r[1]
  BY <1>1, <1>3, <1>7 DEF v4Record, v6Record
<1>10. ASSUME NEW r \in R4, NEW t \in R4, r[1] = t[1] PROVE r = t
  <2>1. PICK m \in 1..l4 : r[1] = off + (m - 1) * v4Record /\ r[2] = Kept4(s, k)[m] /\ r = <<r[1], r[2]>>
    BY <1>4
  <2>2. PICK n \in 1..l4 : t[1] = off + (n - 1) * v4Record /\ t[2] = Kept4(s, k)[n] /\ t = <<t[1], t[2]>>
    BY <1>4
  <2>3. m = n
    <3>1. off + (m - 1) * v4Record = off + (n - 1) * v4Record
      BY <1>10, <2>1, <2>2
    <3>2. off \in Nat /\ m \in Int /\ n \in Int
      BY <1>1, <1>3
    <3> QED BY <3>1, <3>2 DEF v4Record
  <2> QED BY <1>10, <2>1, <2>2, <2>3
<1>11. ASSUME NEW r \in R6, NEW t \in R6, r[1] = t[1] PROVE r = t
  <2> DEFINE at == off + l4 * v4Record
  <2>1. PICK m \in 1..l6 : r[1] = at + (m - 1) * v6Record /\ r[2] = Kept6(s, k)[m] /\ r = <<r[1], r[2]>>
    BY <1>5
  <2>2. PICK n \in 1..l6 : t[1] = at + (n - 1) * v6Record /\ t[2] = Kept6(s, k)[n] /\ t = <<t[1], t[2]>>
    BY <1>5
  <2>3. at \in Nat
    BY <1>1, <1>3 DEF v4Record
  <2> HIDE DEF at
  <2>4. m = n
    <3>1. at + (m - 1) * v6Record = at + (n - 1) * v6Record
      BY <1>11, <2>1, <2>2
    <3>2. m \in Int /\ n \in Int
      BY <1>1
    <3> QED BY <2>3, <3>1, <3>2 DEF v6Record
  <2> QED BY <1>11, <2>1, <2>2, <2>4
<1>12. ASSUME NEW r \in R4, NEW t \in R6 PROVE r[1] # t[1]
  <2>1. r[1] \in Nat /\ r[1] < off + l4 * v4Record /\ t[1] \in Nat /\ off + l4 * v4Record <= t[1]
    BY <1>6, <1>7
  <2> QED BY <1>1, <1>3, <2>1 DEF v4Record
<1>13. \A r \in R4 \cup R6 : r[1] \in Nat /\ off <= r[1] /\ r[1] < Offset(s, k)
  BY <1>6, <1>7, <1>8, <1>9
<1>14. \A r, t \in R4 \cup R6 : r[1] = t[1] => r = t
  BY <1>10, <1>11, <1>12
<1> QED BY <1>2, <1>13, <1>14 DEF off

AllRecords(E) == UNION {Records(Sorted(E)[k], Offset(Sorted(E), k - 1)) : k \in 1..Len(Sorted(E))}

\* Two records of the file are never at one place.
LEMMA RecordsApart ==
  ASSUME NEW E \in Databases, ~Refused(E), NEW r \in AllRecords(E), NEW t \in AllRecords(E), r[1] = t[1]
  PROVE  r = t
<1> DEFINE s == Sorted(E)
           R(k) == Records(s[k], Offset(s, k - 1))
<1>1. Len(s) = Len(E) /\ Len(E) \in Nat
  BY SortedFacts
<1>2. PICK k \in 1..Len(E) : r \in R(k)
  BY <1>1 DEF AllRecords
<1>3. PICK l \in 1..Len(E) : t \in R(l)
  BY <1>1 DEF AllRecords
<1>4. /\ r[1] \in Nat /\ Offset(s, k - 1) <= r[1] /\ r[1] < Offset(s, k)
      /\ t[1] \in Nat /\ Offset(s, l - 1) <= t[1] /\ t[1] < Offset(s, l)
  BY <1>2, <1>3, EntryRecords
<1>5. /\ k \in 0..Len(E) /\ k - 1 \in 0..Len(E) /\ l \in 0..Len(E) /\ l - 1 \in 0..Len(E)
      /\ (k < l => k <= l - 1) /\ (l < k => l <= k - 1) /\ (k = l \/ k < l \/ l < k)
  BY <1>1
<1>6. /\ Offset(s, k) \in Nat /\ Offset(s, k - 1) \in Nat /\ Offset(s, l) \in Nat /\ Offset(s, l - 1) \in Nat
      /\ (k < l => Offset(s, k) <= Offset(s, l - 1)) /\ (l < k => Offset(s, l) <= Offset(s, k - 1))
  BY <1>5, Offsets
<1>7. k = l
  <2> HIDE DEF s
  <2>1. ~(k < l)
    BY <1>4, <1>6
  <2>2. ~(l < k)
    BY <1>4, <1>6
  <2> QED BY <1>5, <2>1, <2>2
<1> QED BY <1>2, <1>3, <1>7, EntryRecords

\* Where the index says, there are the prefixes.
LEMMA WrittenData ==
  ASSUME NEW E \in Databases, ~Refused(E), NEW r \in AllRecords(E)
  PROVE  r[1] \in DOMAIN Written(E).data /\ Written(E).data[r[1]] = r[2]
<1>1. Written(E).data = [at \in {t[1] : t \in AllRecords(E)} |->
                           (CHOOSE t \in AllRecords(E) : t[1] = at)[2]]
  BY DEF Written, AllRecords
<1>2. (CHOOSE t \in AllRecords(E) : t[1] = r[1]) = r
  BY RecordsApart
<1> DEFINE places == {t[1] : t \in AllRecords(E)}
           at(p) == (CHOOSE t \in AllRecords(E) : t[1] = p)[2]
<1>3. r[1] \in places
  OBVIOUS
<1>4. at(r[1]) = r[2]
  BY <1>2
<1>5. Written(E).data = [p \in places |-> at(p)]
  BY <1>1
<1> HIDE DEF places, at
<1> QED BY <1>3, <1>4, <1>5

\* What Write makes.
LEMMA WrittenFields ==
  ASSUME NEW E \in Databases, ~Refused(E)
  PROVE  /\ Written(E).header = TRUE /\ Written(E).count = Len(E)
         /\ Written(E).size = Offset(Sorted(E), Len(E))
<1>1. Len(Sorted(E)) = Len(E)
  BY SortedFacts
<1> QED BY <1>1 DEF Written

LEMMA WrittenEntry ==
  ASSUME NEW E \in Databases, ~Refused(E), NEW k \in 0..(Len(E) - 1)
  PROVE  /\ Written(E).asn[k] = Sorted(E)[k + 1].asn
         /\ Written(E).off[k] = Offset(Sorted(E), k)
         /\ Written(E).v4[k] = Len(Kept4(Sorted(E), k + 1))
         /\ Written(E).v6[k] = Len(Kept6(Sorted(E), k + 1))
<1>1. Len(Sorted(E)) = Len(E)
  BY SortedFacts
<1> QED BY <1>1 DEF Written, Kept4, Kept6

\* The whole file is as Open wants it: its entries are in the order of their numbers, and
\* the prefixes of each are behind the index and end where those of the next begin.
LEMMA WrittenIsOk ==
  ASSUME NEW E \in Databases, ~Refused(E)
  PROVE  LET f == Written(E)
         IN /\ f.header /\ f.size \in Nat /\ f.size >= headerLen /\ IndexEnd(f) <= f.size
            /\ \A k \in 0..(f.count - 1) : EntryOk(f, k)
<1> DEFINE f == Written(E)
           s == Sorted(E)
           n == Len(E)
<1>1. f.size = Offset(s, n) /\ n \in Nat
  BY SortedFacts, WrittenFields
<1>2. /\ f.header /\ f.count = n
      /\ \A k \in 0..(n - 1) : /\ f.asn[k] = s[k + 1].asn /\ f.off[k] = Offset(s, k)
                               /\ f.v4[k] = Len(Kept4(s, k + 1)) /\ f.v6[k] = Len(Kept6(s, k + 1))
  <2>1. f.header /\ f.count = n
    BY WrittenFields
  <2>2. ASSUME NEW k \in 0..(Len(E) - 1)
        PROVE  /\ f.asn[k] = s[k + 1].asn /\ f.off[k] = Offset(s, k)
               /\ f.v4[k] = Len(Kept4(s, k + 1)) /\ f.v6[k] = Len(Kept6(s, k + 1))
    BY WrittenEntry
  <2> QED BY <2>1, <2>2
<1>3. f.size \in Nat /\ f.size >= headerLen + n * entryLen
  BY <1>1, Offsets
<1> HIDE DEF f, n
<1>4. f.size >= headerLen /\ IndexEnd(f) <= f.size
  BY <1>1, <1>2, <1>3 DEF IndexEnd, headerLen, entryLen
<1>5. ASSUME NEW k \in 0..(n - 1) PROVE EntryOk(f, k)
  <2>1. k \in 0..n /\ k + 1 \in 1..n /\ k + 1 \in 0..n /\ n \in 0..n /\ k + 1 <= n /\ (k + 1) - 1 = k
    BY <1>1
  <2>2. f.off[k] >= IndexEnd(f)
    BY <1>2, <2>1, Offsets DEF IndexEnd, n
  <2>3. f.off[k] + Length(f, k) <= f.size
    <3>1. Offset(s, k + 1) = Offset(s, k) + Len(Kept4(s, k + 1)) * v4Record + Len(Kept6(s, k + 1)) * v6Record
      BY <2>1, Offsets DEF n
    <3>2. Offset(s, k + 1) <= Offset(s, n)
      BY <2>1, Offsets DEF n
    <3>3. /\ Offset(s, k) \in Nat /\ Len(Kept4(s, k + 1)) \in Nat /\ Len(Kept6(s, k + 1)) \in Nat
      BY <2>1, Offsets, KeptFacts DEF n
    <3>4. Length(f, k) = Len(Kept4(s, k + 1)) * v4Record + Len(Kept6(s, k + 1)) * v6Record
      BY <1>2 DEF Length
    <3>5. f.off[k] = Offset(s, k)
      BY <1>2
    <3> HIDE DEF s
    <3> QED BY <1>1, <3>1, <3>2, <3>3, <3>4, <3>5 DEF v4Record, v6Record
  <2>4. f.asn[k] # 0
    <3>1. PICK l \in DOMAIN E : s[k + 1] = E[l]
      BY <2>1, SortedFacts DEF n
    <3> QED BY <1>2, <3>1 DEF Refused
  <2>5. k > 0 => f.asn[k] > f.asn[k - 1]
    <3>1. CASE k > 0
      <4>1. k \in 1..n /\ k < k + 1 /\ k - 1 \in 0..(n - 1) /\ (k - 1) + 1 = k
        BY <1>1, <3>1
      <4>2. s[k].asn < s[k + 1].asn
        BY <2>1, <4>1, SortedFacts DEF n
      <4>3. f.asn[k - 1] = s[k].asn /\ f.asn[k] = s[k + 1].asn
        BY <1>2, <4>1
      <4> QED BY <4>2, <4>3
    <3> QED BY <3>1
  <2> QED BY <2>2, <2>3, <2>4, <2>5 DEF EntryOk
<1> QED BY <1>2, <1>3, <1>4, <1>5 DEF f

\* The prefixes an entry points to are the ones that were given.
LEMMA BlobIsGiven ==
  ASSUME NEW E \in Databases, ~Refused(E), NEW k \in 0..(Len(E) - 1), NEW f,
         f.off = Written(E).off, f.v4 = Written(E).v4, f.v6 = Written(E).v6,
         f.data = Written(E).data
  PROVE  Blob(f, k) = [v4 |-> Kept4(Sorted(E), k + 1), v6 |-> Kept6(Sorted(E), k + 1)]
<1> DEFINE s == Sorted(E)
           l4 == Len(Kept4(s, k + 1))
           l6 == Len(Kept6(s, k + 1))
           off == Offset(s, k)
<1>1. Len(E) \in Nat /\ Len(s) = Len(E)
  BY SortedFacts
<1>2. k + 1 \in 1..Len(E) /\ (k + 1) - 1 = k
  BY <1>1
<1>3. f.off[k] = off /\ f.v4[k] = l4 /\ f.v6[k] = l6 /\ f.data = Written(E).data
  <2>1. /\ Written(E).off[k] = off
        /\ Written(E).v4[k] = l4 /\ Written(E).v6[k] = l6
    BY WrittenEntry
  <2> QED BY <2>1
<1>4. /\ DOMAIN Kept4(s, k + 1) = 1..l4 /\ Kept4(s, k + 1) = [j \in 1..l4 |-> Kept4(s, k + 1)[j]]
      /\ DOMAIN Kept6(s, k + 1) = 1..l6 /\ Kept6(s, k + 1) = [j \in 1..l6 |-> Kept6(s, k + 1)[j]]
  BY <1>2, KeptFacts
<1>5. Records(s[k + 1], off) \subseteq AllRecords(E)
  BY <1>1, <1>2 DEF AllRecords
<1>6. ASSUME NEW j \in 1..l4 PROVE Record(f, off + (j - 1) * v4Record) = Kept4(s, k + 1)[j]
  <2> DEFINE r == <<off + (j - 1) * v4Record, Kept4(s, k + 1)[j]>>
  <2>1. r \in Records(s[k + 1], off)
    BY <1>4 DEF Records, Kept4
  <2>2. r[1] \in DOMAIN Written(E).data /\ Written(E).data[r[1]] = r[2]
    BY <1>5, <2>1, WrittenData
  <2> QED BY <1>3, <2>2 DEF Record
<1>7. ASSUME NEW j \in 1..l6
      PROVE  Record(f, off + l4 * v4Record + (j - 1) * v6Record) = Kept6(s, k + 1)[j]
  <2> DEFINE r == <<off + l4 * v4Record + (j - 1) * v6Record, Kept6(s, k + 1)[j]>>
  <2>1. r \in Records(s[k + 1], off)
    BY <1>4 DEF Records, Kept4, Kept6
  <2>2. r[1] \in DOMAIN Written(E).data /\ Written(E).data[r[1]] = r[2]
    BY <1>5, <2>1, WrittenData
  <2> QED BY <1>3, <2>2 DEF Record
<1> HIDE DEF s, l4, l6, off
<1>8. /\ [j \in 1..l4 |-> Record(f, off + (j - 1) * v4Record)] = Kept4(s, k + 1)
      /\ [j \in 1..l6 |-> Record(f, off + l4 * v4Record + (j - 1) * v6Record)] = Kept6(s, k + 1)
  BY <1>4, <1>6, <1>7
<1>9. Blob(f, k) = [v4 |-> [j \in 1..l4 |-> Record(f, off + (j - 1) * v4Record)],
                    v6 |-> [j \in 1..l6 |-> Record(f, off + l4 * v4Record + (j - 1) * v6Record)]]
  BY <1>3 DEF Blob
<1> QED BY <1>8, <1>9 DEF s

\* What Open has decided: it goes on with a file whose index is inside it, and refuses
\* only one whose header, index or some entry is wrong, or that it cannot read.
Decided ==
  /\ mode \in {"closed", "checking", "refused"} => ~replaced
  /\ mode \in {"checking", "open", "searching", "answered"} /\ ~replaced => IndexEnd(file) <= file.size
  /\ mode = "refused" /\ ~readFailed =>
       \/ ~file.header \/ file.size < headerLen \/ IndexEnd(file) > file.size
       \/ \E k \in 0..(file.count - 1) : ~EntryOk(file, k)

LEMMA DecidedInvariant == AsnSpec => []Decided
<1>1. AsnInit => Decided
  BY DEF AsnInit, Decided
<1>2. AsnInv /\ Decided /\ [AsnNext]_asnVars => Decided'
  <2> SUFFICES ASSUME AsnInv, Decided, [AsnNext]_asnVars PROVE Decided'
    OBVIOUS
  <2> USE DEF AsnInv, Decided
  <2>1. CASE Open
    <3>1. file.size \in Nat /\ IndexEnd(file) \in Nat
      BY FileFields DEF IndexEnd, headerLen, entryLen
    <3>2. /\ ~replaced /\ UNCHANGED <<file, replaced, readFailed>>
          /\ \/ mode' = "checking" /\ IndexEnd(file) <= file.size
             \/ mode' = "refused" /\ ~(file.header /\ file.size >= headerLen /\ IndexEnd(file) <= file.size)
      BY <2>1 DEF Open
    <3> QED BY <3>1, <3>2 DEF headerLen, IndexEnd, EntryOk
  <2>2. CASE CheckEntry
    <3>1. /\ mode = "checking" /\ UNCHANGED <<file, replaced, readFailed>>
          /\ mode' \in {"checking", "refused"} /\ (mode' = "refused" => ~EntryOk(file, i) /\ i \in 0..(count - 1))
      BY <2>2 DEF CheckEntry, AsnTypeOK
    <3>2. ~replaced => count = file.count
      BY <3>1 DEF Checked
    <3> QED BY <3>1, <3>2 DEF IndexEnd, EntryOk
  <2>3. CASE OpenFails
    BY <2>3 DEF OpenFails
  <2>4. CASE Opened \/ Search \/ ReadFails \/ UNCHANGED asnVars
    <3>1. /\ UNCHANGED <<file, replaced>>
          /\ \/ UNCHANGED <<mode, readFailed>>
             \/ /\ mode \in {"checking", "open", "searching", "answered"}
                /\ mode' \in {"open", "searching", "answered"}
      BY <2>4 DEF Opened, Search, Narrow, NarrowUnknown, Found, NotFound, ReadPastEnd, ReadFails, asnVars
    <3> QED BY <3>1, <2>4 DEF IndexEnd, EntryOk, Opened
  <2>5. ASSUME NEW n \in Numbers, Ask(n) PROVE Decided'
    BY <2>5 DEF Ask, IndexEnd, EntryOk
  <2>6. ASSUME NEW f \in Replacements, Replace(f) PROVE Decided'
    <3>1. mode' \in {"open", "searching", "answered"} /\ replaced'
      BY <2>6 DEF Replace
    <3> QED BY <3>1
  <2> QED BY <2>1, <2>2, <2>3, <2>4, <2>5, <2>6 DEF AsnNext
<1> QED BY <1>1, <1>2, AsnInvariant, PTL DEF AsnSpec

\* What is answered from a file that Write left, whole or not.
LEMMA AnswerIsGiven ==
  ASSUME AsnInv, Decided, NEW E \in Databases,
         mode = "answered", ~replaced, ~readFailed, file \in Left(E)
  PROVE  answer = Given(E, asn)
<1> DEFINE s == Sorted(E)
           of == {k \in DOMAIN E : E[k].asn = asn}
<1>1. PICK m : file = [Written(E) EXCEPT !.size = m] /\ (Refused(E) => m \in {0, headerLen})
  BY DEF Left
<1>2. /\ file.size = m /\ file.header = TRUE /\ file.count = Len(s)
      /\ file.asn = Written(E).asn /\ file.off = Written(E).off
      /\ file.v4 = Written(E).v4 /\ file.v6 = Written(E).v6 /\ file.data = Written(E).data
  BY <1>1 DEF Written
<1>3. /\ DOMAIN E = 1..Len(E) /\ Len(E) \in Nat /\ Len(s) = Len(E)
  BY DatabasesAssumption DEF Sorted
<1>4. ~Refused(E)
  <2>1. 16 + Len(E) * 16 <= m
    BY <1>2, <1>3 DEF Decided, IndexEnd, headerLen, entryLen
  <2>2. Len(E) = 0 => ~Refused(E)
    BY <1>3 DEF Refused
  <2>3. CASE Refused(E)
    <3>1. m = 0 \/ m = 16
      BY <1>1, <2>3 DEF headerLen
    <3>2. Len(E) = 0
      BY <1>3, <2>1, <3>1
    <3> QED BY <2>2, <3>2
  <2> QED BY <2>3
<1>5. \A k \in 0..(Len(E) - 1) : file.asn[k] = s[k + 1].asn
  <2>1. \A k \in 0..(Len(E) - 1) : Written(E).asn[k] = s[k + 1].asn
    BY <1>4, WrittenEntry
  <2> QED BY <1>2, <2>1
<1>6. CASE \E k \in 0..(Len(E) - 1) : file.asn[k] = asn /\ answer = Blob(file, k)
  <2>1. PICK k \in 0..(Len(E) - 1) : file.asn[k] = asn /\ answer = Blob(file, k)
    BY <1>6
  <2>2. k + 1 \in 1..Len(E)
    BY <1>3
  <2>3. PICK l \in DOMAIN E : s[k + 1] = E[l]
    BY <1>4, <2>2, SortedFacts
  <2>4. of = {l}
    BY <1>4, <1>5, <2>1, <2>3 DEF Refused
  <2>5. Given(E, asn) = [v4 |-> normalizePrefixes(E[l].v4), v6 |-> normalizePrefixes(E[l].v6)]
    BY <2>4 DEF Given
  <2>6. answer = [v4 |-> Kept4(s, k + 1), v6 |-> Kept6(s, k + 1)]
    BY <1>2, <1>4, <2>1, BlobIsGiven
  <2> QED BY <2>3, <2>5, <2>6 DEF Kept4, Kept6
<1>7. CASE answer = Empty /\ \A k \in 0..(Len(E) - 1) : file.asn[k] # asn
  <2>1. ASSUME NEW l \in of PROVE FALSE
    <3>1. PICK n \in 1..Len(E) : s[n] = E[l]
      BY <1>4, SortedFacts
    <3>2. n - 1 \in 0..(Len(E) - 1) /\ (n - 1) + 1 = n
      BY <1>3
    <3> QED BY <1>5, <1>7, <2>1, <3>1, <3>2
  <2> QED BY <1>7, <2>1 DEF Given
<1> QED BY <1>2, <1>3, <1>6, <1>7 DEF AsnInv, AnswerIsListed

\* A number that is looked up in what Write left has the valid prefixes it was given with,
\* in their order, however the entries were given and whatever part of the file is missing;
\* a file that was written whole is refused only when it cannot be read.
THEOREM WrittenIsAnsweredHolds == AsnSpec => []WrittenIsAnswered
<1>1. AsnInv /\ Decided => WrittenIsAnswered
  <2> SUFFICES ASSUME AsnInv, Decided, ~readFailed, NEW E \in Databases
               PROVE  /\ mode = "answered" /\ ~replaced /\ file \in Left(E) => answer = Given(E, asn)
                      /\ mode = "refused" /\ ~Refused(E) => file # Written(E)
    BY DEF WrittenIsAnswered
  <2>1. mode = "answered" /\ ~replaced /\ file \in Left(E) => answer = Given(E, asn)
    BY AnswerIsGiven
  <2>2. ASSUME mode = "refused", ~Refused(E), file = Written(E) PROVE FALSE
    <3>1. /\ file.header /\ file.size \in Nat /\ file.size >= headerLen /\ IndexEnd(file) <= file.size
          /\ \A k \in 0..(file.count - 1) : EntryOk(file, k)
      BY <2>2, WrittenIsOk
    <3>2. file.count \in Nat
      BY FilesAssumption DEF AsnInv, AsnTypeOK, FileType
    <3> QED BY <2>2, <3>1, <3>2 DEF Decided, IndexEnd, headerLen, entryLen
  <2> QED BY <2>1, <2>2
<1> QED BY <1>1, AsnInvariant, DecidedInvariant, PTL

-----------------------------------------------------------------------------
(* Downloads.                                                              *)

Active(p) == dl[p].pc \in {"request", "create", "copy", "sync", "verify", "rename"}

\* A whole body within the limit.
Whole(s, n) == n = body[s].size /\ n \in 1..MaxSize /\ ~(body[s].breaks /\ body[s].announced)
Exact(s) == s \in Digests => body[s].exact

\* What a download knows of the temporary file before each of its steps.
Sound(d, t) ==
  /\ d.pc \in {"request", "create", "copy", "sync", "verify", "rename"} => d.source \in Sources /\ d.file \in Files
  /\ d.pc \in {"request", "create"} => d.got = 0
  /\ d.pc \in {"copy", "sync", "verify", "rename"} => t # NoFile /\ t.source = d.source /\ t.size = d.got
  /\ d.pc \in {"sync", "verify", "rename"} => Whole(d.source, d.got)
  /\ d.pc \in {"verify", "rename"} => t.synced
  /\ d.pc = "rename" => Exact(d.source)

TypeInv == DownloadTypeOK /\ body \in [Sources -> Bodies]
\* Nobody else uses the name of a download that goes on.
AloneInv == \A p, q \in Procs : Active(p) /\ Active(q) /\ dl[p].file = dl[q].file => p = q
SoundInv == \A p \in Procs : Sound(dl[p], tmp[dl[p].file])
\* What has its final name was synced before, so that no crash cuts it.
PathInv ==
  \A f \in Files : path[f] \notin {NoFile, Stub} =>
    path[f].synced /\ Whole(path[f].source, path[f].size) /\ Exact(path[f].source)
\* A download that failed has left nothing, unless somebody writes there again.
LeftInv ==
  \A p \in Procs :
    /\ At(p, "failed") /\ dl[p].got > 0
    /\ \A q \in Procs : dl[q].file = dl[p].file => ~Writes(q)
    => tmp[dl[p].file] = NoFile
DownloadInv == TypeInv /\ AloneInv /\ SoundInv /\ PathInv /\ LeftInv

Downloads == [pc : DownloadSteps, source : Sources \cup {NoFile}, file : Files \cup {NoFile}, got : 0..(MaxSize + 1)]

\* A step of one download, to the record d, that leaves t under the temporary name.
StepTo(p, d, t) ==
  /\ d \in Downloads /\ dl' = [dl EXCEPT ![p] = d] /\ d.file = dl[p].file /\ d.pc # "none"
  /\ t \in Content \cup {NoFile} /\ tmp' = [tmp EXCEPT ![dl[p].file] = t]
  /\ Sound(d, t)
  /\ d.pc \in {"request", "create"} => ~Writes(p) /\ t = tmp[dl[p].file]
  /\ d.pc \in {"ok", "failed"} => t = NoFile \/ (~Writes(p) /\ t = tmp[dl[p].file] /\ d.got = 0)

\* A process that takes one step of its own, with what it and its temporary file become,
\* keeps the invariant.
LEMMA OneStep ==
  ASSUME DownloadInv, NEW p \in Procs, Active(p), UNCHANGED body, NEW d, NEW t, StepTo(p, d, t),
         path' \in [Files -> Content \cup {NoFile, Stub}], PathInv'
  PROVE  DownloadInv'
<1> USE DEF StepTo
<1>0. /\ TypeInv /\ AloneInv /\ SoundInv /\ LeftInv
      /\ dl \in [Procs -> Downloads] /\ tmp \in [Files -> Content \cup {NoFile}]
  BY DEF DownloadInv, TypeInv, DownloadTypeOK, Downloads
<1>1. dl[p].file \in Files
  BY <1>0 DEF SoundInv, Sound, Active
<1>2. /\ dl'[p] = d /\ \A q \in Procs : q # p => dl'[q] = dl[q]
      /\ tmp'[dl[p].file] = t /\ \A f \in Files : f # dl[p].file => tmp'[f] = tmp[f]
      /\ dl' \in [Procs -> Downloads] /\ tmp' \in [Files -> Content \cup {NoFile}]
  BY <1>0, <1>1
<1>3. TypeInv'
  BY <1>0, <1>2 DEF TypeInv, DownloadTypeOK, Downloads
<1>4. AloneInv'
  BY <1>0, <1>2 DEF AloneInv, Active
<1>5. SoundInv'
  <2>1. ASSUME NEW q \in Procs, q # p PROVE Sound(dl[q], tmp[dl[q].file])'
    <3>1. Sound(dl[q], tmp[dl[q].file]) /\ dl'[q] = dl[q]
      BY <1>0, <1>2, <2>1 DEF SoundInv
    <3>2. CASE Active(q)
      <4>1. dl[q].file \in Files /\ dl[q].file # dl[p].file
        BY <1>0, <2>1, <3>1, <3>2 DEF AloneInv, Sound, Active
      <4> QED BY <1>2, <3>1, <4>1 DEF Sound, Whole, Exact
    <3>3. CASE ~Active(q)
      BY <3>1, <3>3 DEF Sound, Active
    <3> QED BY <3>2, <3>3
  <2>2. Sound(dl[p], tmp[dl[p].file])'
    BY <1>2 DEF Sound, Whole, Exact
  <2> QED BY <2>1, <2>2 DEF SoundInv
<1>6. LeftInv'
  <2> SUFFICES ASSUME NEW q \in Procs, At(q, "failed")', dl'[q].got > 0,
                      \A r \in Procs : dl'[r].file = dl'[q].file => ~Writes(r)'
               PROVE  tmp'[dl'[q].file] = NoFile
    BY DEF LeftInv
  <2>1. CASE q = p
    BY <1>2, <2>1 DEF At
  <2>2. CASE q # p
    <3>1. dl'[q] = dl[q] /\ At(q, "failed") /\ dl[q].got > 0
      BY <1>2, <2>2 DEF At
    <3>2. CASE dl[q].file = dl[p].file
      <4>1. d.pc \notin {"copy", "sync", "verify", "rename"}
        BY <1>2, <3>1, <3>2 DEF Writes
      <4>2. d.pc \in {"request", "create", "ok", "failed"}
        BY <4>1 DEF Downloads, DownloadSteps
      <4>3. CASE t = NoFile
        BY <1>2, <3>1, <3>2, <4>3
      <4>4. CASE ~Writes(p) /\ t = tmp[dl[p].file]
        <5>1. \A r \in Procs : dl[r].file = dl[q].file => ~Writes(r)
          BY <1>2, <3>1, <4>4 DEF Writes
        <5>2. tmp[dl[q].file] = NoFile
          BY <1>0, <3>1, <5>1 DEF LeftInv
        <5> QED BY <1>2, <3>1, <3>2, <4>4, <5>2
      <4> QED BY <4>2, <4>3, <4>4
    <3>3. CASE dl[q].file # dl[p].file
      <4>1. \A r \in Procs : dl[r].file = dl[q].file => ~Writes(r)
        BY <1>2, <3>1, <3>3 DEF Writes
      <4>2. tmp[dl[q].file] = NoFile
        BY <1>0, <3>1, <4>1 DEF LeftInv
      <4> QED BY <1>0, <1>2, <3>1, <3>3, <4>2
    <3> QED BY <3>2, <3>3
  <2> QED BY <2>1, <2>2
<1> QED
  BY <1>3, <1>4, <1>5, <1>6 DEF DownloadInv

\* The end of a download, with nothing left under the temporary name.
LEMMA EndStep ==
  ASSUME DownloadInv, NEW p \in Procs, Active(p), UNCHANGED body,
         NEW step \in {"ok", "failed"}, dl' = [dl EXCEPT ![p] = [dl[p] EXCEPT !.pc = step]],
         tmp' = [tmp EXCEPT ![dl[p].file] = NoFile],
         path' \in [Files -> Content \cup {NoFile, Stub}], PathInv'
  PROVE  DownloadInv'
<1> DEFINE d == [dl[p] EXCEPT !.pc = step]
<1>1. dl[p] \in Downloads
  BY DEF DownloadInv, TypeInv, DownloadTypeOK, Downloads
<1>2. d \in Downloads /\ d.file = dl[p].file /\ d.pc = step /\ dl' = [dl EXCEPT ![p] = d]
  BY <1>1 DEF Downloads, DownloadSteps
<1> HIDE DEF d
<1>3. d.pc = "ok" \/ d.pc = "failed"
  BY <1>2
<1>4. Sound(d, NoFile)
  BY <1>3 DEF Sound
<1>5. NoFile \in Content \cup {NoFile}
  OBVIOUS
<1>6. d.pc # "none" /\ d.pc \notin {"request", "create"}
  BY <1>3
<1>7. StepTo(p, d, NoFile)
  BY <1>2, <1>4, <1>5, <1>6 DEF StepTo
<1> QED
  BY <1>7, OneStep

\* What is active is still right when no process activates a file.
LEMMA KeptPath == ASSUME DownloadInv, UNCHANGED <<body, path>>
  PROVE  path' \in [Files -> Content \cup {NoFile, Stub}] /\ PathInv'
  BY DEF DownloadInv, TypeInv, DownloadTypeOK, PathInv, Whole, Exact

\* Every step of one download keeps the invariant.
LEMMA DownloadStepInv ==
  ASSUME DownloadInv, NEW p \in Procs, DownloadStep(p)
  PROVE  DownloadInv'
<1> DEFINE f == dl[p].file
           s == dl[p].source
<1>0. /\ TypeInv /\ AloneInv /\ SoundInv /\ PathInv /\ LeftInv
      /\ dl \in [Procs -> Downloads] /\ tmp \in [Files -> Content \cup {NoFile}]
      /\ path \in [Files -> Content \cup {NoFile, Stub}]
      /\ Sound(dl[p], tmp[f]) /\ dl[p] \in Downloads
      /\ UNCHANGED body
  BY DEF DownloadInv, TypeInv, SoundInv, DownloadTypeOK, Downloads, DownloadStep, Request, CreateTmp,
         CopyChunk, CopyEnd, CopyFails, Sync, Verify, Activate
<1>1. Active(p)
  BY DEF DownloadStep, Request, CreateTmp, CopyChunk, CopyEnd, CopyFails, Sync, Verify, Activate, At, Active
<1>2. /\ f \in Files /\ s \in Sources /\ tmp[f] \in Content \cup {NoFile} /\ body[s] \in Bodies
      /\ body[s].size \in Nat /\ body[s].announced \in BOOLEAN /\ body[s].breaks \in BOOLEAN
      /\ dl[p].got \in 0..(MaxSize + 1) /\ MaxSize \in Nat \ {0}
  BY <1>0, <1>1, BodyFields, SizePositive DEF Sound, Active, TypeInv, Downloads
<1>3. ASSUME NEW step \in DownloadSteps, Step(p, step)
      PROVE  /\ dl' = [dl EXCEPT ![p] = [dl[p] EXCEPT !.pc = step]]
             /\ [dl[p] EXCEPT !.pc = step] \in Downloads
             /\ [dl[p] EXCEPT !.pc = step].pc = step
             /\ [dl[p] EXCEPT !.pc = step].source = s /\ [dl[p] EXCEPT !.pc = step].file = f
             /\ [dl[p] EXCEPT !.pc = step].got = dl[p].got
  BY <1>0, <1>3 DEF Step, Downloads
\* The next step of a download that leaves the files as they are.
<1>4. ASSUME NEW step \in {"create", "failed", "sync", "rename"}, Step(p, step), UNCHANGED <<tmp, path>>,
             Sound([dl[p] EXCEPT !.pc = step], tmp[f]),
             step \in {"create", "failed"} => ~Writes(p) /\ dl[p].got = 0
      PROVE  DownloadInv'
  <2> DEFINE d == [dl[p] EXCEPT !.pc = step]
  <2>1. /\ dl' = [dl EXCEPT ![p] = d] /\ d \in Downloads /\ d.file = f /\ d.pc = step /\ d.got = dl[p].got
    BY <1>3, <1>4 DEF DownloadSteps
  <2>2. tmp' = [tmp EXCEPT ![f] = tmp[f]]
    BY <1>0, <1>2, <1>4
  <2>3. path' \in [Files -> Content \cup {NoFile, Stub}] /\ PathInv'
    BY <1>0, <1>4, KeptPath
  <2>4. Sound(d, tmp[f])
    BY <1>4
  <2> HIDE DEF d
  <2>5. StepTo(p, d, tmp[f])
    BY <1>2, <1>4, <2>1, <2>2, <2>4 DEF StepTo
  <2> QED BY <1>0, <1>1, <2>3, <2>5, OneStep
\* A download is given up after data came.
<1>5. ASSUME Abandon(p), UNCHANGED path PROVE DownloadInv'
  <2>1. dl' = [dl EXCEPT ![p] = [dl[p] EXCEPT !.pc = "failed"]] /\ tmp' = [tmp EXCEPT ![f] = NoFile]
    BY <1>3, <1>5 DEF DownloadSteps, Abandon
  <2>2. path' \in [Files -> Content \cup {NoFile, Stub}] /\ PathInv'
    BY <1>0, <1>5, KeptPath
  <2> QED BY <1>0, <1>1, <2>1, <2>2, EndStep
<1>6. CASE Request(p)
  <2>1. ~Writes(p) /\ dl[p].got = 0 /\ UNCHANGED <<tmp, path>>
    BY <1>0, <1>6 DEF Request, At, Writes, Sound
  <2>2. PICK step \in {"failed", "create"} : Step(p, step)
    BY <1>6 DEF Request
  <2>3. Sound([dl[p] EXCEPT !.pc = step], tmp[f])
    BY <1>0, <1>2, <2>1, <2>2 DEF Sound, Downloads
  <2> QED BY <1>4, <2>1, <2>2, <2>3
<1>7. CASE CreateTmp(p)
  <2>1. ~Writes(p) /\ dl[p].got = 0 /\ UNCHANGED path
    BY <1>0, <1>7 DEF CreateTmp, At, Writes, Sound
  <2>2. CASE UNCHANGED tmp /\ Step(p, "failed")
    <3>1. Sound([dl[p] EXCEPT !.pc = "failed"], tmp[f])
      BY <1>0, <1>2, <2>1, <2>2 DEF Sound, Downloads
    <3> QED BY <1>4, <2>1, <2>2, <3>1
  <2>3. CASE tmp' = [tmp EXCEPT ![f] = [source |-> s, size |-> 0, synced |-> FALSE]] /\ Step(p, "copy")
    <3> DEFINE d == [dl[p] EXCEPT !.pc = "copy"]
               t == [source |-> s, size |-> 0, synced |-> FALSE]
    <3>1. /\ dl' = [dl EXCEPT ![p] = d] /\ d \in Downloads /\ d.file = f /\ d.pc = "copy"
          /\ d.source = s /\ d.got = 0
      BY <1>3, <2>1, <2>3 DEF DownloadSteps
    <3>2. t \in Content /\ t.source = s /\ t.size = 0
      BY <1>2 DEF Content
    <3>3. tmp' = [tmp EXCEPT ![f] = t]
      BY <2>3
    <3> HIDE DEF d, t
    <3>4. Sound(d, t)
      BY <1>2, <3>1, <3>2, NoFileIsNoContent DEF Sound
    <3>5. path' \in [Files -> Content \cup {NoFile, Stub}] /\ PathInv'
      BY <1>0, <2>1, KeptPath
    <3>6. StepTo(p, d, t)
      BY <3>1, <3>2, <3>3, <3>4 DEF StepTo
    <3> QED BY <1>0, <1>1, <3>5, <3>6, OneStep
  <2> QED BY <1>7, <2>2, <2>3 DEF CreateTmp
<1>8. CASE CopyChunk(p)
  <2> DEFINE d == [dl[p] EXCEPT !.got = dl[p].got + 1]
             t == [tmp[f] EXCEPT !.size = tmp[f].size + 1]
  <2>1. /\ dl[p].pc = "copy" /\ dl[p].got < MaxSize + 1 /\ UNCHANGED path
        /\ tmp[f] # NoFile /\ tmp[f].source = s /\ tmp[f].size = dl[p].got
    BY <1>0, <1>8 DEF CopyChunk, At, Sound
  <2>2. dl' = [dl EXCEPT ![p] = d] /\ tmp' = [tmp EXCEPT ![f] = t]
    BY <1>8, <2>1 DEF CopyChunk
  <2>3. d \in Downloads /\ d.pc = "copy" /\ d.file = f /\ d.source = s /\ d.got = dl[p].got + 1
    BY <1>0, <1>2, <2>1 DEF Downloads
  <2>4. t \in Content /\ t.source = s /\ t.size = dl[p].got + 1
    BY <1>2, <2>1 DEF Content
  <2> HIDE DEF d, t
  <2>5. Sound(d, t)
    BY <1>2, <2>3, <2>4, NoFileIsNoContent DEF Sound
  <2>6. path' \in [Files -> Content \cup {NoFile, Stub}] /\ PathInv'
    BY <1>0, <2>1, KeptPath
  <2>7. StepTo(p, d, t)
    BY <2>2, <2>3, <2>4, <2>5 DEF StepTo
  <2> QED BY <1>0, <1>1, <2>6, <2>7, OneStep
<1>9. CASE CopyEnd(p)
  <2>1. dl[p].pc = "copy" /\ UNCHANGED path /\ (dl[p].got = body[s].size \/ dl[p].got = MaxSize + 1)
    BY <1>9 DEF CopyEnd, At
  <2>2. CASE Abandon(p)
    BY <1>5, <2>1, <2>2
  <2>3. CASE /\ Step(p, "sync") /\ UNCHANGED tmp
             /\ ~(dl[p].got = 0 \/ dl[p].got > MaxSize \/ (body[s].breaks /\ body[s].announced))
    <3>1. Whole(s, dl[p].got)
      BY <1>2, <2>1, <2>3 DEF Whole
    <3>2. Sound([dl[p] EXCEPT !.pc = "sync"], tmp[f])
      BY <1>0, <1>2, <2>1, <3>1 DEF Sound, Downloads
    <3> QED BY <1>4, <2>1, <2>3, <3>2
  <2> QED BY <1>9, <2>2, <2>3 DEF CopyEnd
<1>10. CASE CopyFails(p)
  BY <1>5, <1>10 DEF CopyFails
<1>11. CASE Sync(p)
  <2>1. /\ dl[p].pc = "sync" /\ UNCHANGED path
        /\ tmp[f] # NoFile /\ tmp[f].source = s /\ tmp[f].size = dl[p].got /\ Whole(s, dl[p].got)
    BY <1>0, <1>11 DEF Sync, At, Sound
  <2>2. CASE Abandon(p)
    BY <1>5, <2>1, <2>2
  <2>3. CASE /\ tmp' = [tmp EXCEPT ![f] = IF @ = NoFile THEN @ ELSE [@ EXCEPT !.synced = TRUE]]
             /\ Step(p, "verify")
    <3> DEFINE d == [dl[p] EXCEPT !.pc = "verify"]
               t == [tmp[f] EXCEPT !.synced = TRUE]
    <3>1. /\ dl' = [dl EXCEPT ![p] = d] /\ d \in Downloads /\ d.file = f /\ d.pc = "verify"
          /\ d.source = s /\ d.got = dl[p].got
      BY <1>3, <2>3 DEF DownloadSteps
    <3>2. t \in Content /\ t.source = s /\ t.size = dl[p].got /\ t.synced
      BY <1>2, <2>1 DEF Content
    <3>3. tmp' = [tmp EXCEPT ![f] = t]
      BY <2>1, <2>3
    <3> HIDE DEF d, t
    <3>4. Sound(d, t)
      BY <1>2, <2>1, <3>1, <3>2, NoFileIsNoContent DEF Sound
    <3>5. path' \in [Files -> Content \cup {NoFile, Stub}] /\ PathInv'
      BY <1>0, <2>1, KeptPath
    <3>6. StepTo(p, d, t)
      BY <3>1, <3>2, <3>3, <3>4 DEF StepTo
    <3> QED BY <1>0, <1>1, <3>5, <3>6, OneStep
  <2> QED BY <1>11, <2>2, <2>3 DEF Sync
<1>12. CASE Verify(p)
  <2>1. dl[p].pc = "verify" /\ UNCHANGED path
    BY <1>12 DEF Verify, At
  <2>2. CASE Abandon(p)
    BY <1>5, <2>1, <2>2
  <2>3. CASE Step(p, "rename") /\ UNCHANGED tmp /\ ~(s \in Digests /\ ~body[s].exact)
    <3>1. Sound([dl[p] EXCEPT !.pc = "rename"], tmp[f])
      BY <1>0, <1>2, <2>1, <2>3 DEF Sound, Downloads, Exact
    <3> QED BY <1>4, <2>1, <2>3, <3>1
  <2> QED BY <1>12, <2>2, <2>3 DEF Verify
<1>13. CASE Activate(p)
  <2>1. /\ dl[p].pc = "rename" /\ tmp[f] # NoFile /\ tmp[f].source = s /\ tmp[f].size = dl[p].got
        /\ Whole(s, dl[p].got) /\ tmp[f].synced /\ Exact(s)
    BY <1>0, <1>13 DEF Activate, At, Sound
  <2>2. CASE Abandon(p) /\ UNCHANGED path
    BY <1>5, <2>2
  <2>3. CASE path' = [path EXCEPT ![f] = tmp[f]] /\ tmp' = [tmp EXCEPT ![f] = NoFile] /\ Step(p, "ok")
    <3>1. dl' = [dl EXCEPT ![p] = [dl[p] EXCEPT !.pc = "ok"]]
      BY <1>3, <2>3 DEF DownloadSteps
    <3>2. path' \in [Files -> Content \cup {NoFile, Stub}]
      BY <1>0, <1>2, <2>1, <2>3
    <3>3. PathInv'
      <4>1. path'[f] = tmp[f] /\ \A g \in Files : g # f => path'[g] = path[g]
        BY <1>0, <1>2, <2>3
      <4> QED BY <1>0, <2>1, <4>1 DEF PathInv, Whole, Exact
    <3> QED BY <1>0, <1>1, <2>3, <3>1, <3>2, <3>3, EndStep
  <2> QED BY <1>13, <2>2, <2>3 DEF Activate
<1> QED
  BY <1>6, <1>7, <1>8, <1>9, <1>10, <1>11, <1>12, <1>13 DEF DownloadStep

\* A download that begins keeps the invariant: no other process has its file.
LEMMA BeginInv == ASSUME DownloadInv, NEW p \in Procs, Begin(p) PROVE DownloadInv'
<1>0. /\ TypeInv /\ AloneInv /\ SoundInv /\ PathInv /\ LeftInv
      /\ dl \in [Procs -> Downloads] /\ tmp \in [Files -> Content \cup {NoFile}]
  BY DEF DownloadInv, TypeInv, DownloadTypeOK, Downloads
<1>1. PICK s \in Sources, f \in Files :
        /\ \A q \in Procs \ {p} : dl[q].file # f \/ dl[q].pc \in {"ok", "failed"}
        /\ dl' = [dl EXCEPT ![p] = [pc |-> "request", source |-> s, file |-> f, got |-> 0]]
  BY DEF Begin, Download
<1>2. UNCHANGED <<body, tmp, path>> /\ dl[p].pc \in {"none", "ok", "failed"}
  BY DEF Begin
<1>3. /\ dl' \in [Procs -> Downloads]
      /\ dl'[p] = [pc |-> "request", source |-> s, file |-> f, got |-> 0]
      /\ \A q \in Procs : q # p => dl'[q] = dl[q]
  BY <1>0, <1>1, SizePositive DEF Downloads, DownloadSteps
<1>4. TypeInv' /\ PathInv'
  BY <1>0, <1>2, <1>3 DEF TypeInv, DownloadTypeOK, Downloads, PathInv, Whole, Exact
<1>5. AloneInv'
  BY <1>0, <1>1, <1>3 DEF AloneInv, Active
<1>6. SoundInv'
  <2>1. ASSUME NEW q \in Procs PROVE Sound(dl[q], tmp[dl[q].file])'
    <3>1. CASE q = p
      BY <1>3, <3>1 DEF Sound
    <3>2. CASE q # p
      BY <1>0, <1>2, <1>3, <3>2 DEF SoundInv, Sound, Whole, Exact
    <3> QED BY <3>1, <3>2
  <2> QED BY <2>1 DEF SoundInv
<1>7. LeftInv'
  <2> SUFFICES ASSUME NEW q \in Procs, At(q, "failed")', dl'[q].got > 0,
                      \A r \in Procs : dl'[r].file = dl'[q].file => ~Writes(r)'
               PROVE  tmp'[dl'[q].file] = NoFile
    BY DEF LeftInv
  <2>1. dl'[q] = dl[q] /\ At(q, "failed")
    BY <1>3 DEF At
  <2>2. \A r \in Procs : dl[r].file = dl[q].file => ~Writes(r)
    BY <1>2, <1>3, <2>1 DEF Writes
  <2> QED BY <1>0, <1>2, <2>1, <2>2 DEF LeftInv
<1> QED
  BY <1>4, <1>5, <1>6, <1>7 DEF DownloadInv

\* A crash of the agent or of the machine cuts what was not synced: no file that has its
\* final name.
LEMMA CrashKeepsFiles ==
  ASSUME DownloadInv, CrashFiles
  PROVE  tmp' \in [Files -> Content \cup {NoFile}] /\ path' = path
<1>0. /\ PathInv /\ tmp \in [Files -> Content \cup {NoFile}] /\ path \in [Files -> Content \cup {NoFile, Stub}]
  BY DEF DownloadInv, TypeInv, DownloadTypeOK
<1>1. CASE UNCHANGED <<tmp, path>>
  BY <1>0, <1>1
<1>2. ASSUME NEW left \in 0..MaxSize,
             tmp' = [f \in Files |-> IF tmp[f] # NoFile /\ ~tmp[f].synced /\ left < tmp[f].size
                                     THEN [tmp[f] EXCEPT !.size = left] ELSE tmp[f]],
             path' = [f \in Files |-> IF path[f] # NoFile /\ ~path[f].synced /\ left < path[f].size
                                      THEN [path[f] EXCEPT !.size = left] ELSE path[f]]
      PROVE  tmp' \in [Files -> Content \cup {NoFile}] /\ path' = path
  <2>1. ASSUME NEW f \in Files
        PROVE  (IF tmp[f] # NoFile /\ ~tmp[f].synced /\ left < tmp[f].size
                THEN [tmp[f] EXCEPT !.size = left] ELSE tmp[f]) \in Content \cup {NoFile}
    BY <1>0, SizePositive DEF Content
  <2>2. ASSUME NEW f \in Files PROVE path[f] # NoFile => path[f].synced
    BY <1>0 DEF PathInv, Stub
  <2> QED BY <1>0, <1>2, <2>1, <2>2
<1> QED BY <1>1, <1>2 DEF CrashFiles

\* A crash ends the downloads and keeps their invariant.
LEMMA CrashInv == ASSUME DownloadInv, CrashAll PROVE DownloadInv'
<1>0. /\ TypeInv /\ PathInv /\ path \in [Files -> Content \cup {NoFile, Stub}]
  BY DEF DownloadInv, TypeInv, DownloadTypeOK
<1>1. dl' = [p \in Procs |-> NoDownload] /\ UNCHANGED body /\ CrashFiles
  BY DEF CrashAll
<1>2. tmp' \in [Files -> Content \cup {NoFile}] /\ path' = path
  BY <1>1, CrashKeepsFiles
<1>3. \A p \in Procs : dl'[p] = NoDownload /\ dl'[p].pc = "none"
  BY <1>1 DEF NoDownload
<1>4. dl' \in [Procs -> [pc : DownloadSteps, source : Sources \cup {NoFile},
                         file : Files \cup {NoFile}, got : 0..(MaxSize + 1)]]
  BY <1>1, SizePositive DEF NoDownload, DownloadSteps
<1>5. TypeInv' /\ PathInv'
  BY <1>0, <1>1, <1>2, <1>4 DEF TypeInv, DownloadTypeOK, PathInv, Whole, Exact
<1>6. AloneInv' /\ SoundInv' /\ LeftInv'
  BY <1>3 DEF AloneInv, Active, SoundInv, Sound, LeftInv, At
<1> QED
  BY <1>5, <1>6 DEF DownloadInv

\* The invariant holds at the start.
LEMMA InitDownloadInv == ASSUME DownloadInit PROVE DownloadInv
<1>1. \A p \in Procs : dl[p] = NoDownload /\ dl[p].pc = "none"
  BY Zenon DEF DownloadInit, NoDownload
<1>2. dl \in [Procs -> [pc : DownloadSteps, source : Sources \cup {NoFile},
                        file : Files \cup {NoFile}, got : 0..(MaxSize + 1)]]
  BY SizePositive DEF DownloadInit, NoDownload, DownloadSteps
<1>3. TypeInv /\ PathInv
  BY <1>2 DEF DownloadInit, TypeInv, DownloadTypeOK, PathInv
<1>4. AloneInv /\ SoundInv /\ LeftInv
  BY <1>1 DEF AloneInv, Active, SoundInv, Sound, LeftInv, At
<1> QED
  BY <1>3, <1>4 DEF DownloadInv

\* What changes nothing of the downloads keeps their invariant.
LEMMA SameDownloads == ASSUME DownloadInv, UNCHANGED <<body, tmp, path, dl>> PROVE DownloadInv'
  BY DEF DownloadInv, TypeInv, DownloadTypeOK, AloneInv, SoundInv, PathInv, LeftInv, Sound, Whole, Exact,
         Active, At, Writes

LEMMA DownloadKeeps == ASSUME DownloadInv, [DownloadNext]_<<body, tmp, path, dl>> PROVE DownloadInv'
<1>1. CASE UNCHANGED <<body, tmp, path, dl>>
  BY <1>1, SameDownloads
<1> QED BY <1>1, BeginInv, DownloadStepInv, CrashInv DEF DownloadNext

\* The inductive invariant, for any number of processes, files and bodies.
THEOREM DownloadInvariant == DownloadSpec => []DownloadInv
<1> QED BY DownloadKeeps, InitDownloadInv, PTL DEF DownloadSpec

\* What the downloads keep says that they are all or nothing.
LEMMA InvIsAllOrNothing == DownloadInv => AllOrNothing
  BY DEF DownloadInv, PathInv, LeftInv, Whole, Exact, AllOrNothing

\* The active file of internal/artifact/download.go is a whole body or what was there
\* before, and a failed download leaves no temporary file of its own, for any number of
\* processes.
THEOREM AllOrNothingHolds == DownloadSpec => []AllOrNothing
<1> QED BY InvIsAllOrNothing, DownloadInvariant, PTL

-----------------------------------------------------------------------------
(* The loader of geodata.                                                  *)

\* The loader waits for its workers, so that when it returns they have, and without a
\* cancellation it has handed out every group.
StageInv ==
  /\ main \in [pc : {"idle", "enqueue", "wait", "done"}, next : 1..(Len(Groups) + 1)]
  /\ cancelled \in BOOLEAN
  /\ main.pc \in {"idle", "done"} => \A p \in Procs : work[p].pc = "off"
  /\ main.pc \in {"wait", "done"} /\ ~cancelled => main.next > Len(Groups)

Works == [pc : {"off", "receive", "next", "download"}, group : Seq(Range(Assets))]

In(e, group) == \E k \in DOMAIN group : group[k] = e
Held(p, e) == In(e, work[p].group)

\* A worker's group was handed out, and no file is with two workers.
ShareInv ==
  /\ \A p \in Procs, e \in Range(Assets) :
       Held(p, e) => \E n \in DOMAIN Groups : n < main.next /\ In(e, Groups[n])
  /\ \A p, q \in Procs : \A e, g \in Range(Assets) :
       Held(p, e) /\ Held(q, g) /\ e.file = g.file => p = q

\* A worker downloads the head of its group, which was not there before; when the
\* download fails its source does not deliver.
Task(p) ==
  /\ work[p].pc \in {"off", "receive"} => work[p].group = <<>>
  /\ work[p].pc # "download" => dl[p] = NoDownload
  /\ work[p].pc = "download" =>
       /\ work[p].group # <<>> /\ dl[p].pc # "none"
       /\ dl[p].source = Head(work[p].group).source /\ dl[p].file = Head(work[p].group).file
  /\ Active(p) => ~Usable(path[dl[p].file])
  /\ dl[p].pc = "copy" => dl[p].got <= body[dl[p].source].size
  /\ dl[p].pc = "ok" => Usable(path[dl[p].file])
  /\ dl[p].pc = "failed" => ~Delivers(dl[p].source)
TaskInv == work \in [Procs -> Works] /\ \A p \in Procs : Task(p)

\* What was handed out is with a worker still, is there, or has no source that delivers.
Served(e) == Delivers(e.source) => Usable(path[e.file])
ServedInv ==
  main.pc # "idle" /\ ~cancelled =>
    \A n \in DOMAIN Groups : n < main.next => \A e \in Range(Assets) :
      In(e, Groups[n]) => Served(e) \/ \E p \in Procs : Held(p, e)

GeoInv == DownloadInv /\ StageInv /\ ShareInv /\ TaskInv /\ ServedInv

\* groupGeodataAssets: each asset is in a group, those of one group are for one file,
\* those of two for different ones.
LEMMA GroupsFacts ==
  /\ Groups \in Seq(Seq(Range(Assets)))
  /\ \A n, m \in DOMAIN Groups : \A k \in DOMAIN Groups[n], l \in DOMAIN Groups[m] :
       Groups[n][k].file = Groups[m][l].file <=> n = m
  /\ \A k \in DOMAIN Assets : \E n \in DOMAIN Groups : \E m \in DOMAIN Groups[n] :
       Groups[n][m] = Assets[k]
<1> DEFINE N == Cardinality(Firsts)
           places(f) == {k \in DOMAIN Assets : Assets[k].file = f}
           fileOf(n) == Assets[Nth(Firsts, n)].file
<1>1. DOMAIN Assets = 1..Len(Assets) /\ Len(Assets) \in Nat /\ Assets \in Seq(Range(Assets))
  BY AssetsAssumption DEF Range
<1>2. /\ Firsts \in SUBSET DOMAIN Assets /\ N \in Nat
      /\ \A n \in 1..N : Nth(Firsts, n) \in Firsts
      /\ \A k \in Firsts : \E n \in 1..N : Nth(Firsts, n) = k
      /\ \A m, n \in 1..N : m < n => Nth(Firsts, m) < Nth(Firsts, n)
  <2>1. Firsts \in SUBSET DOMAIN Assets
    BY DEF Firsts
  <2> QED BY <1>1, <2>1, PickedFacts
<1>3. \A j, k \in Firsts : Assets[j].file = Assets[k].file => j = k
  BY <1>1 DEF Firsts
<1>4. ASSUME NEW m \in 1..N, NEW n \in 1..N, m # n PROVE fileOf(m) # fileOf(n)
  <2>1. Nth(Firsts, m) # Nth(Firsts, n)
    BY <1>1, <1>2, <1>4
  <2> QED BY <1>2, <1>3, <2>1
<1>5. ASSUME NEW f
      PROVE  /\ AssetsOf(f) \in Seq(Range(Assets)) /\ Cardinality(places(f)) \in Nat
             /\ \A m \in DOMAIN AssetsOf(f) : AssetsOf(f)[m].file = f
             /\ \A k \in places(f) : \E m \in DOMAIN AssetsOf(f) : AssetsOf(f)[m] = Assets[k]
  <2>1. places(f) \in SUBSET DOMAIN Assets /\ AssetsOf(f) = Picked(Assets, places(f))
    BY DEF AssetsOf
  <2>2. /\ Cardinality(places(f)) \in Nat
        /\ AssetsOf(f) \in Seq(Range(Assets)) /\ Len(AssetsOf(f)) = Cardinality(places(f))
        /\ \A m \in 1..Len(AssetsOf(f)) : Nth(places(f), m) \in places(f) /\ AssetsOf(f)[m] = Assets[Nth(places(f), m)]
        /\ \A k \in places(f) : \E m \in 1..Len(AssetsOf(f)) : Nth(places(f), m) = k
    <3> HIDE DEF places
    <3> QED BY <1>1, <2>1, PickedFacts
  <2>3. DOMAIN AssetsOf(f) = 1..Len(AssetsOf(f))
    BY <2>2
  <2> QED BY <2>2, <2>3
<1>6. ASSUME NEW k \in DOMAIN Assets PROVE \E n \in 1..N : fileOf(n) = Assets[k].file
  <2> DEFINE P == places(Assets[k].file)
             j == Nth(P, 1)
  <2>1. P \in SUBSET DOMAIN Assets /\ k \in P
    OBVIOUS
  <2>2. /\ Cardinality(P) \in Nat
        /\ \A n \in 1..Cardinality(P) : Nth(P, n) \in P
        /\ \A l \in P : \E n \in 1..Cardinality(P) : Nth(P, n) = l
        /\ \A m, n \in 1..Cardinality(P) : m < n => Nth(P, m) < Nth(P, n)
    <3> HIDE DEF P
    <3> QED BY <1>1, <2>1, PickedFacts
  <2>3. j \in P /\ \A l \in P : l = j \/ j < l
    <3> HIDE DEF P
    <3>1. 1 \in 1..Cardinality(P)
      BY <2>1, <2>2
    <3>2. ASSUME NEW l \in P PROVE l = j \/ j < l
      <4>1. PICK n \in 1..Cardinality(P) : Nth(P, n) = l
        BY <2>2
      <4>2. n = 1 \/ 1 < n
        BY <2>2
      <4> QED BY <2>2, <3>1, <4>1, <4>2
    <3> QED BY <2>2, <3>1, <3>2
  <2>4. j \in Firsts
    <3>1. j \in DOMAIN Assets /\ j \in Nat /\ Assets[j].file = Assets[k].file
      BY <1>1, <2>3
    <3>2. ASSUME NEW l \in 1..(j - 1), Assets[l].file = Assets[j].file PROVE FALSE
      <4>1. l \in DOMAIN Assets /\ l < j /\ l \in Nat
        BY <1>1, <3>1
      <4>2. l \in P
        BY <3>1, <3>2, <4>1
      <4> HIDE DEF P, j
      <4> QED BY <2>3, <3>1, <4>1, <4>2
    <3> QED BY <3>1, <3>2 DEF Firsts
  <2>5. Assets[j].file = Assets[k].file
    BY <2>3
  <2> HIDE DEF j
  <2> QED BY <1>2, <2>4, <2>5
<1> HIDE DEF N, places, fileOf
<1>7. Groups = [n \in 1..N |-> AssetsOf(fileOf(n))]
  BY DEF Groups, N, fileOf
<1>8. DOMAIN Groups = 1..N /\ \A n \in 1..N : Groups[n] = AssetsOf(fileOf(n))
  BY <1>7
<1>9. Groups \in Seq(Seq(Range(Assets)))
  <2> DEFINE T == Seq(Range(Assets))
  <2>1. N \in Nat /\ \A n \in 1..N : AssetsOf(fileOf(n)) \in T
    BY <1>2, <1>5 DEF N
  <2> HIDE DEF T
  <2>2. Groups \in Seq(T)
    BY <1>7, <2>1
  <2> QED BY <2>2 DEF T
<1>10. ASSUME NEW n \in DOMAIN Groups, NEW m \in DOMAIN Groups, NEW k \in DOMAIN Groups[n],
              NEW l \in DOMAIN Groups[m]
       PROVE  Groups[n][k].file = Groups[m][l].file <=> n = m
  <2>1. Groups[n][k].file = fileOf(n) /\ Groups[m][l].file = fileOf(m)
    BY <1>5, <1>8
  <2> QED BY <1>4, <1>8, <2>1
<1>11. ASSUME NEW k \in DOMAIN Assets
       PROVE  \E n \in DOMAIN Groups : \E m \in DOMAIN Groups[n] : Groups[n][m] = Assets[k]
  <2>1. PICK n \in 1..N : fileOf(n) = Assets[k].file
    BY <1>6
  <2>2. k \in places(fileOf(n))
    BY <2>1 DEF places
  <2> DEFINE f == fileOf(n)
  <2>3. \A l \in places(f) : \E m \in DOMAIN AssetsOf(f) : AssetsOf(f)[m] = Assets[l]
    BY <1>5
  <2>4. PICK m \in DOMAIN AssetsOf(f) : AssetsOf(f)[m] = Assets[k]
    BY <2>2, <2>3
  <2>5. n \in DOMAIN Groups /\ Groups[n] = AssetsOf(f)
    BY <1>8
  <2> QED BY <2>4, <2>5
<1> QED BY <1>9, <1>10, <1>11

\* What an asset is, and that two groups are for different files.
LEMMA AssetFacts ==
  /\ Groups \in Seq(Seq(Range(Assets)))
  /\ \A e \in Range(Assets) : e.source \in Sources \ Digests /\ e.file \in Files
  /\ \A n, m \in DOMAIN Groups : \A e, g \in Range(Assets) :
       In(e, Groups[n]) /\ In(g, Groups[m]) /\ e.file = g.file => n = m
<1>1. Groups \in Seq(Seq(Range(Assets)))
  BY GroupsFacts
<1>2. \A e \in Range(Assets) : e.source \in Sources \ Digests /\ e.file \in Files
  <2>1. DOMAIN Assets = 1..Len(Assets)
    BY AssetsAssumption
  <2>2. \A k \in DOMAIN Assets : Assets[k] \in [source : Sources \ Digests, file : Files]
    BY <2>1, AssetsAssumption, ElementOfSeq
  <2> QED BY <2>2 DEF Range
<1>3. ASSUME NEW n \in DOMAIN Groups, NEW m \in DOMAIN Groups, NEW e, NEW g,
             In(e, Groups[n]), In(g, Groups[m]), e.file = g.file
      PROVE  n = m
  BY <1>3, GroupsFacts DEF In
<1> QED BY <1>1, <1>2, <1>3

\* The members of a group are its head and those of its tail.
LEMMA TailMembers ==
  ASSUME NEW group \in Seq(Range(Assets)), group # <<>>
  PROVE  /\ Tail(group) \in Seq(Range(Assets)) /\ Head(group) \in Range(Assets)
         /\ In(Head(group), group)
         /\ \A e : In(e, group) <=> e = Head(group) \/ In(e, Tail(group))
<1>1. /\ Len(group) \in Nat /\ Len(group) >= 1 /\ DOMAIN group = 1..Len(group)
      /\ Tail(group) \in Seq(Range(Assets)) /\ Head(group) = group[1] /\ group[1] \in Range(Assets)
  BY EmptySeq, HeadTailProperties
<1>2. /\ DOMAIN Tail(group) = 1..(Len(group) - 1)
      /\ \A k \in DOMAIN Tail(group) : Tail(group)[k] = group[k + 1]
  BY <1>1, HeadTailProperties
<1>3. In(Head(group), group)
  BY <1>1 DEF In
<1>4. ASSUME NEW e, In(e, Tail(group)) PROVE In(e, group)
  <2>1. PICK k \in DOMAIN Tail(group) : Tail(group)[k] = e
    BY <1>4 DEF In
  <2>2. k + 1 \in DOMAIN group /\ group[k + 1] = e
    BY <1>1, <1>2, <2>1
  <2> QED BY <2>2 DEF In
<1>5. ASSUME NEW e, In(e, group), e # Head(group) PROVE In(e, Tail(group))
  <2>1. PICK k \in DOMAIN group : group[k] = e
    BY <1>5 DEF In
  <2>2. k - 1 \in DOMAIN Tail(group) /\ Tail(group)[k - 1] = e
    BY <1>1, <1>2, <1>5, <2>1
  <2> QED BY <2>2 DEF In
<1> QED BY <1>1, <1>3, <1>4, <1>5

\* Nothing is in an empty group.
LEMMA NoMembers == \A e : ~In(e, <<>>)
  BY DEF In

\* What a step of one download does to it and to the files: only a download that is
\* complete touches a file, and one fails only when its source does not deliver.
LEMMA DownloadMove ==
  ASSUME GeoInv, NEW p \in Procs, DownloadStep(p)
  PROVE  /\ Active(p) /\ dl[p].file \in Files /\ UNCHANGED body
         /\ \A q \in Procs : q # p => dl'[q] = dl[q]
         /\ dl'[p].source = dl[p].source /\ dl'[p].file = dl[p].file /\ dl'[p].pc # "none"
         /\ \A f \in Files : path'[f] # path[f] => f = dl[p].file /\ dl'[p].pc = "ok"
         /\ dl'[p].pc = "copy" => dl'[p].got <= body[dl[p].source].size
         /\ dl'[p].pc = "ok" => Usable(path'[dl[p].file])
         /\ dl'[p].pc = "failed" => ~Delivers(dl[p].source)
<1> DEFINE f == dl[p].file
           s == dl[p].source
<1>0. /\ Sound(dl[p], tmp[f]) /\ Task(p) /\ UNCHANGED body
      /\ dl \in [Procs -> Downloads] /\ tmp \in [Files -> Content \cup {NoFile}]
      /\ path \in [Files -> Content \cup {NoFile, Stub}] /\ dl[p] \in Downloads
  BY DEF GeoInv, TaskInv, DownloadInv, TypeInv, SoundInv, DownloadTypeOK, Downloads, DownloadStep, Request,
         CreateTmp, CopyChunk, CopyEnd, CopyFails, Sync, Verify, Activate
<1>1. Active(p)
  BY DEF DownloadStep, Request, CreateTmp, CopyChunk, CopyEnd, CopyFails, Sync, Verify, Activate, At, Active
<1>2. /\ f \in Files /\ s \in Sources /\ body[s] \in Bodies
      /\ body[s].size \in Nat /\ dl[p].got \in 0..(MaxSize + 1) /\ MaxSize \in Nat \ {0}
  BY <1>0, <1>1, BodyFields, SizePositive DEF Sound, Active, TypeInv, DownloadInv, GeoInv, Downloads
<1>3. s \notin Digests
  <2>1. work[p].pc = "download" /\ work[p].group # <<>> /\ s = Head(work[p].group).source
    BY <1>0, <1>1 DEF Task, NoDownload, Active
  <2>2. work[p].group \in Seq(Range(Assets))
    BY DEF GeoInv, TaskInv, Works
  <2> QED BY <2>1, <2>2, TailMembers, AssetFacts
<1>4. MayFail(p) => ~Delivers(s)
  BY DEF MayFail, Delivers
\* A step that leaves the files under their final names.
<1>5. ASSUME NEW step \in {"create", "copy", "sync", "verify", "rename", "failed"}, Step(p, step), UNCHANGED path,
             step = "copy" => dl[p].got = 0, step = "failed" => ~Delivers(s)
      PROVE  /\ \A q \in Procs : q # p => dl'[q] = dl[q]
             /\ dl'[p].source = s /\ dl'[p].file = f /\ dl'[p].pc # "none"
             /\ \A g \in Files : path'[g] # path[g] => g = f /\ dl'[p].pc = "ok"
             /\ dl'[p].pc = "copy" => dl'[p].got <= body[s].size
             /\ dl'[p].pc = "ok" => Usable(path'[f])
             /\ dl'[p].pc = "failed" => ~Delivers(s)
  <2>1. /\ \A q \in Procs : q # p => dl'[q] = dl[q]
        /\ dl'[p].source = s /\ dl'[p].file = f /\ dl'[p].pc = step /\ dl'[p].got = dl[p].got
    BY <1>0, <1>5 DEF Step, Downloads
  <2> QED BY <1>2, <1>5, <2>1
<1>6. CASE Request(p)
  <2>1. UNCHANGED path
    BY <1>6 DEF Request
  <2>2. PICK step \in {"create", "failed"} : Step(p, step) /\ (step = "failed" => MayFail(p) \/ Announced(p, MaxSize + 1))
    BY <1>6 DEF Request
  <2>3. Announced(p, MaxSize + 1) => ~Delivers(s)
    BY <1>2 DEF Announced, Delivers
  <2> QED BY <1>0, <1>1, <1>2, <1>4, <1>5, <2>1, <2>2, <2>3
<1>7. CASE CreateTmp(p)
  <2>1. UNCHANGED path /\ dl[p].got = 0
    BY <1>0, <1>7 DEF CreateTmp, At, Sound
  <2>2. PICK step \in {"copy", "failed"} : Step(p, step) /\ (step = "failed" => MayFail(p))
    BY <1>7 DEF CreateTmp
  <2> QED BY <1>0, <1>1, <1>2, <1>4, <1>5, <2>1, <2>2
<1>8. CASE CopyChunk(p)
  <2>1. /\ dl[p].pc = "copy" /\ UNCHANGED path /\ dl[p].got < body[s].size
        /\ dl' = [dl EXCEPT ![p] = [dl[p] EXCEPT !.got = dl[p].got + 1]]
    BY <1>8 DEF CopyChunk, At
  <2>2. /\ \A q \in Procs : q # p => dl'[q] = dl[q]
        /\ dl'[p].source = s /\ dl'[p].file = f /\ dl'[p].pc = "copy" /\ dl'[p].got = dl[p].got + 1
    BY <1>0, <2>1 DEF Downloads
  <2> QED BY <1>0, <1>1, <1>2, <2>1, <2>2
<1>9. CASE CopyEnd(p)
  <2>1. /\ dl[p].pc = "copy" /\ UNCHANGED path /\ (dl[p].got = body[s].size \/ dl[p].got = MaxSize + 1)
        /\ dl[p].got <= body[s].size
    BY <1>0, <1>9 DEF CopyEnd, At, Task
  <2>2. CASE /\ Step(p, "failed")
             /\ dl[p].got = 0 \/ dl[p].got > MaxSize \/ (body[s].breaks /\ body[s].announced)
    <3>1. ~Delivers(s)
      BY <1>2, <2>1, <2>2 DEF Delivers
    <3> QED BY <1>0, <1>1, <1>2, <1>5, <2>1, <2>2, <3>1
  <2>3. CASE Step(p, "sync")
    BY <1>0, <1>1, <1>2, <1>5, <2>1, <2>3
  <2> QED BY <1>9, <2>2, <2>3 DEF CopyEnd, Abandon
<1>10. CASE CopyFails(p)
  BY <1>0, <1>1, <1>2, <1>4, <1>5, <1>10 DEF CopyFails, Abandon
<1>11. CASE Sync(p)
  <2>1. PICK step \in {"verify", "failed"} : Step(p, step) /\ (step = "failed" => MayFail(p))
    BY <1>11 DEF Sync, Abandon
  <2>2. UNCHANGED path
    BY <1>11 DEF Sync
  <2> QED BY <1>0, <1>1, <1>2, <1>4, <1>5, <2>1, <2>2
<1>12. CASE Verify(p)
  BY <1>0, <1>1, <1>2, <1>3, <1>5, <1>12 DEF Verify
<1>13. CASE Activate(p)
  <2>1. dl[p].pc = "rename" /\ tmp[f] # NoFile /\ tmp[f].size = dl[p].got /\ dl[p].got \in 1..MaxSize
    BY <1>0, <1>13 DEF Activate, At, Sound, Whole
  <2>2. CASE MayFail(p) /\ Abandon(p) /\ UNCHANGED path
    BY <1>0, <1>1, <1>2, <1>4, <1>5, <2>2 DEF Abandon
  <2>3. CASE path' = [path EXCEPT ![f] = tmp[f]] /\ Step(p, "ok")
    <3>1. path'[f] = tmp[f] /\ \A g \in Files : g # f => path'[g] = path[g]
      BY <1>0, <1>2, <2>3
    <3>2. /\ \A q \in Procs : q # p => dl'[q] = dl[q]
          /\ dl'[p].source = s /\ dl'[p].file = f /\ dl'[p].pc = "ok"
      BY <1>0, <2>3 DEF Step, Downloads
    <3>3. Usable(path'[f])
      BY <1>2, <2>1, <3>1 DEF Usable
    <3> QED BY <1>0, <1>1, <1>2, <3>1, <3>2, <3>3
  <2> QED BY <1>13, <2>1, <2>2, <2>3 DEF Activate
<1> QED
  BY <1>6, <1>7, <1>8, <1>9, <1>10, <1>11, <1>12, <1>13 DEF DownloadStep

\* The parts of the invariant, for the steps below.
LEMMA GeoParts ==
  ASSUME GeoInv
  PROVE  /\ DownloadInv /\ StageInv /\ ShareInv /\ TaskInv /\ ServedInv
         /\ work \in [Procs -> Works] /\ \A p \in Procs : Task(p) /\ work[p].group \in Seq(Range(Assets))
         /\ dl \in [Procs -> Downloads] /\ path \in [Files -> Content \cup {NoFile, Stub}]
         /\ main.pc \in {"idle", "enqueue", "wait", "done"} /\ main.next \in 1..(Len(Groups) + 1)
         /\ main \in [pc : {"idle", "enqueue", "wait", "done"}, next : 1..(Len(Groups) + 1)]
<1>1. DownloadInv /\ StageInv /\ ShareInv /\ TaskInv /\ ServedInv
  BY DEF GeoInv
<1>2. work \in [Procs -> Works] /\ \A p \in Procs : Task(p) /\ work[p].group \in Seq(Range(Assets))
  BY <1>1 DEF TaskInv, Works
<1>3. dl \in [Procs -> Downloads] /\ path \in [Files -> Content \cup {NoFile, Stub}]
  BY <1>1 DEF DownloadInv, TypeInv, DownloadTypeOK, Downloads
<1> QED BY <1>1, <1>2, <1>3 DEF StageInv

\* Two workers download different files.
LEMMA FilesApart ==
  ASSUME GeoInv, NEW p \in Procs, NEW q \in Procs, work[p].pc = "download", work[q].pc = "download",
         dl[p].file = dl[q].file
  PROVE  p = q
<1>1. /\ Held(p, Head(work[p].group)) /\ Head(work[p].group) \in Range(Assets)
      /\ Held(q, Head(work[q].group)) /\ Head(work[q].group) \in Range(Assets)
      /\ Head(work[p].group).file = Head(work[q].group).file
  BY GeoParts, TailMembers DEF Task, Held
<1> QED BY <1>1, GeoParts DEF ShareInv

\* A worker that takes a step and keeps of its group all but what is served, or is
\* cancelled, keeps the invariant.
LEMMA WorkerMove ==
  ASSUME GeoInv, NEW p \in Procs, UNCHANGED <<body, main, cancelled>>, main.pc \notin {"idle", "done"},
         NEW w \in Works, work' = [work EXCEPT ![p] = w], DownloadInv', Task(p)',
         \A q \in Procs : q # p => dl'[q] = dl[q],
         \A f \in Files : path'[f] # path[f] => work[p].pc = "download" /\ f = dl[p].file /\ ~Usable(path[f]),
         \A e \in Range(Assets) : In(e, w.group) => Held(p, e),
         \A e \in Range(Assets) : Held(p, e) => In(e, w.group) \/ cancelled \/ Served(e)'
  PROVE  GeoInv'
<1>1. work'[p] = w /\ work' \in [Procs -> Works] /\ \A q \in Procs : q # p => work'[q] = work[q]
  BY GeoParts
<1>2. \A q \in Procs, e \in Range(Assets) : Held(q, e)' => Held(q, e)
  BY <1>1 DEF Held, In
<1>3. StageInv'
  BY <1>1, GeoParts DEF StageInv
<1>4. ShareInv'
  BY <1>2, GeoParts DEF ShareInv, In
<1>5. TaskInv'
  <2>1. ASSUME NEW q \in Procs, q # p PROVE Task(q)'
    <3>1. work'[q] = work[q] /\ dl'[q] = dl[q] /\ Task(q)
      BY <1>1, <2>1, GeoParts
    <3>2. CASE work[q].pc = "download"
      <4>1. dl[q].file \in Files
        BY <3>1, <3>2, GeoParts, TailMembers, AssetFacts DEF Task
      <4>2. path'[dl[q].file] = path[dl[q].file]
        BY <2>1, <3>2, <4>1, FilesApart
      <4> QED BY <3>1, <4>2 DEF Task, Active, Usable, Delivers
    <3>3. CASE work[q].pc # "download"
      BY <3>1, <3>3 DEF Task, NoDownload, Active
    <3> QED BY <3>2, <3>3
  <2> QED BY <1>1, <2>1 DEF TaskInv
<1>6. ServedInv'
  <2> SUFFICES ASSUME main.pc # "idle", ~cancelled, NEW n \in DOMAIN Groups, n < main.next,
                      NEW e \in Range(Assets), In(e, Groups[n])
               PROVE  Served(e)' \/ \E q \in Procs : Held(q, e)'
    BY DEF ServedInv, In
  <2>1. CASE Served(e)
    <3>1. e.file \in Files
      BY AssetFacts
    <3> QED BY <2>1, <3>1 DEF Served, Delivers, Usable
  <2>2. ASSUME NEW q \in Procs, Held(q, e) PROVE Served(e)' \/ \E r \in Procs : Held(r, e)'
    <3>1. CASE q = p
      BY <1>1, <2>2, <3>1 DEF Held
    <3>2. CASE q # p
      BY <1>1, <2>2, <3>2 DEF Held
    <3> QED BY <3>1, <3>2
  <2> QED BY <2>1, <2>2, GeoParts DEF ServedInv
<1> QED
  BY <1>3, <1>4, <1>5, <1>6 DEF GeoInv

\* The steps of a download leave the loader's part of the state alone.
LEMMA WorkerDownloadsInv ==
  ASSUME GeoInv, NEW p \in Procs, DownloadStep(p), UNCHANGED <<main, work, cancelled>>
  PROVE  GeoInv'
<1>1. DownloadInv'
  BY GeoParts, DownloadStepInv
<1>2. /\ Active(p) /\ dl[p].file \in Files /\ UNCHANGED body
      /\ \A q \in Procs : q # p => dl'[q] = dl[q]
      /\ dl'[p].source = dl[p].source /\ dl'[p].file = dl[p].file /\ dl'[p].pc # "none"
      /\ \A f \in Files : path'[f] # path[f] => f = dl[p].file /\ dl'[p].pc = "ok"
      /\ dl'[p].pc = "copy" => dl'[p].got <= body[dl[p].source].size
      /\ dl'[p].pc = "ok" => Usable(path'[dl[p].file])
      /\ dl'[p].pc = "failed" => ~Delivers(dl[p].source)
  BY DownloadMove
<1>3. work[p].pc = "download" /\ ~Usable(path[dl[p].file]) /\ Task(p)
  BY <1>2, GeoParts DEF Task, NoDownload, Active
<1>4. main.pc \notin {"idle", "done"}
  BY <1>3, GeoParts DEF StageInv
<1>5. work[p] \in Works /\ work' = [work EXCEPT ![p] = work[p]]
  BY GeoParts
<1>6. Task(p)'
  BY <1>2, <1>3 DEF Task, Active, Delivers, Usable
<1> QED BY <1>1, <1>2, <1>3, <1>4, <1>5, <1>6, WorkerMove DEF Held

\* A worker that ends, when nothing will come or the start was cancelled.
LEMMA WorkerEndsInv == ASSUME GeoInv, NEW p \in Procs, WorkerEnds(p) PROVE GeoInv'
<1>1. /\ work' = [work EXCEPT ![p] = Off] /\ UNCHANGED <<body, tmp, path, dl, main, cancelled>>
      /\ work[p].pc \in {"receive", "next"} /\ (work[p].pc = "receive" \/ cancelled)
  BY DEF WorkerEnds
<1>2. Off \in Works /\ Off.pc = "off" /\ Off.group = <<>>
  BY DEF Off, Works
<1>3. main.pc \notin {"idle", "done"}
  BY <1>1, GeoParts DEF StageInv
<1>4. DownloadInv'
  BY <1>1, GeoParts, SameDownloads
<1>5. work'[p] = Off /\ Task(p)
  BY <1>1, GeoParts
<1>6. Task(p)'
  BY <1>1, <1>2, <1>5 DEF Task, NoDownload, Active
<1>7. \A e \in Range(Assets) : Held(p, e) => cancelled
  BY <1>1, <1>5, NoMembers DEF Task, Held
<1> QED BY <1>1, <1>2, <1>3, <1>4, <1>6, <1>7, WorkerMove, NoMembers

\* A worker whose group is done waits for the next.
LEMMA GroupEndsInv == ASSUME GeoInv, NEW p \in Procs, GroupEnds(p) PROVE GeoInv'
<1>1. /\ work' = [work EXCEPT ![p] = IdleWorker] /\ UNCHANGED <<body, tmp, path, dl, main, cancelled>>
      /\ work[p].pc = "next" /\ work[p].group = <<>>
  BY DEF GroupEnds
<1>2. IdleWorker \in Works /\ IdleWorker.pc = "receive" /\ IdleWorker.group = <<>>
  BY DEF IdleWorker, Works
<1>3. main.pc \notin {"idle", "done"}
  BY <1>1, GeoParts DEF StageInv
<1>4. DownloadInv'
  BY <1>1, GeoParts, SameDownloads
<1>5. work'[p] = IdleWorker /\ Task(p)
  BY <1>1, GeoParts
<1>6. Task(p)'
  BY <1>1, <1>2, <1>5 DEF Task, NoDownload, Active
<1>7. \A e \in Range(Assets) : ~Held(p, e)
  BY <1>1, NoMembers DEF Held
<1> QED BY <1>1, <1>2, <1>3, <1>4, <1>6, <1>7, WorkerMove, NoMembers

\* A worker leaves a file that is there, or begins to download it: nobody else is at it.
LEMMA PrepareAssetInv == ASSUME GeoInv, NEW p \in Procs, PrepareAsset(p) PROVE GeoInv'
<1>1. /\ UNCHANGED <<body, tmp, path, main, cancelled>>
      /\ work[p].pc = "next" /\ work[p].group # <<>> /\ ~cancelled
  BY DEF PrepareAsset
<1>2. PICK a \in Range(Assets) :
      /\ a = Head(work[p].group) /\ a.file \in Files /\ a.source \in Sources /\ Held(p, a)
      /\ work[p].group \in Seq(Range(Assets)) /\ Tail(work[p].group) \in Seq(Range(Assets))
      /\ work[p] \in Works
  BY <1>1, GeoParts, TailMembers, AssetFacts DEF Held
<1>3. main.pc \notin {"idle", "done"}
  BY <1>1, GeoParts DEF StageInv
<1>4. Task(p) /\ dl[p] = NoDownload
  BY <1>1, GeoParts DEF Task
<1>5. CASE Usable(path[a.file]) /\ work' = [work EXCEPT ![p].group = Tail(@)] /\ UNCHANGED dl
  <2> DEFINE w == [work[p] EXCEPT !.group = Tail(work[p].group)]
  <2>1. w \in Works /\ w.pc = "next" /\ w.group = Tail(work[p].group)
    BY <1>1, <1>2 DEF Works
  <2>2. work' = [work EXCEPT ![p] = w] /\ work'[p] = w
    BY <1>5, GeoParts
  <2> HIDE DEF w
  <2>3. DownloadInv'
    BY <1>1, <1>5, GeoParts, SameDownloads
  <2>4. Task(p)'
    BY <1>1, <1>4, <1>5, <2>1, <2>2 DEF Task, NoDownload, Active
  <2>5. \A e \in Range(Assets) : Held(p, e) <=> e = a \/ In(e, w.group)
    BY <1>1, <1>2, <2>1, TailMembers DEF Held
  <2>6. Served(a)'
    BY <1>1, <1>5 DEF Served, Usable
  <2> QED BY <1>1, <1>3, <1>5, <2>1, <2>2, <2>3, <2>4, <2>5, <2>6, WorkerMove
<1>6. CASE ~Usable(path[a.file]) /\ Download(p, a.source, a.file) /\ work' = [work EXCEPT ![p].pc = "download"]
  <2> DEFINE w == [work[p] EXCEPT !.pc = "download"]
  <2>1. w \in Works /\ w.pc = "download" /\ w.group = work[p].group
    BY <1>2 DEF Works
  <2>2. work' = [work EXCEPT ![p] = w] /\ work'[p] = w
    BY <1>6, GeoParts
  <2> HIDE DEF w
  <2>3. ASSUME NEW q \in Procs \ {p} PROVE dl[q].file # a.file
    <3>1. CASE work[q].pc = "download"
      <4>1. Held(q, Head(work[q].group)) /\ Head(work[q].group) \in Range(Assets)
        BY <3>1, GeoParts, TailMembers DEF Task, Held
      <4> QED BY <1>2, <2>3, <3>1, <4>1, GeoParts DEF Task, ShareInv
    <3>2. CASE work[q].pc # "download"
      BY <1>2, <3>2, GeoParts, NoFileIsNone DEF Task, NoDownload
    <3> QED BY <3>1, <3>2
  <2>4. Begin(p)
    BY <1>1, <1>2, <1>4, <1>6, <2>3 DEF Begin, NoDownload
  <2>5. DownloadInv'
    BY <2>4, GeoParts, BeginInv
  <2>6. /\ dl'[p] = [pc |-> "request", source |-> a.source, file |-> a.file, got |-> 0]
        /\ \A q \in Procs : q # p => dl'[q] = dl[q]
    BY <1>6, GeoParts DEF Download
  <2>7. Task(p)'
    <3>1. /\ work'[p].pc = "download" /\ work'[p].group = work[p].group
          /\ dl'[p].pc = "request" /\ dl'[p].source = a.source /\ dl'[p].file = a.file
          /\ path' = path
      BY <1>1, <2>1, <2>2, <2>6
    <3> QED BY <1>1, <1>2, <1>6, <3>1 DEF Task, Active, Usable
  <2> QED BY <1>1, <1>3, <2>1, <2>2, <2>5, <2>6, <2>7, WorkerMove DEF Held
<1> QED BY <1>2, <1>5, <1>6 DEF PrepareAsset

\* A worker that goes on after a download: the file is there, or the source does not
\* deliver.  A stub is written only where nothing is.
LEMMA AssetEndsInv == ASSUME GeoInv, NEW p \in Procs, AssetEnds(p) PROVE GeoInv'
<1> DEFINE w == [pc |-> "next", group |-> Tail(work[p].group)]
<1>1. /\ UNCHANGED <<body, tmp, main, cancelled>> /\ dl' = [dl EXCEPT ![p] = NoDownload]
      /\ work[p].pc = "download" /\ dl[p].pc \in {"ok", "failed"} /\ work' = [work EXCEPT ![p] = w]
  BY DEF AssetEnds
<1>2. PICK a \in Range(Assets) :
      /\ a = Head(work[p].group) /\ a.file \in Files /\ work[p].group # <<>>
      /\ dl[p].source = a.source /\ dl[p].file = a.file
      /\ Tail(work[p].group) \in Seq(Range(Assets))
  BY <1>1, GeoParts, TailMembers, AssetFacts DEF Task
<1>3. main.pc \notin {"idle", "done"}
  BY <1>1, GeoParts DEF StageInv
<1>4. /\ w \in Works /\ w.pc = "next" /\ w.group = Tail(work[p].group) /\ work'[p] = w
      /\ dl'[p] = NoDownload /\ \A q \in Procs : q # p => dl'[q] = dl[q]
  BY <1>1, <1>2, GeoParts DEF Works
<1>5. \/ path' = path
      \/ dl[p].pc = "failed" /\ path[a.file] = NoFile /\ path' = [path EXCEPT ![a.file] = Stub]
  BY <1>2 DEF AssetEnds, At
<1> HIDE DEF w
<1>6. \A f \in Files : path'[f] # path[f] => dl[p].pc = "failed" /\ f = a.file /\ path[f] = NoFile /\ path'[f] = Stub
  BY <1>2, <1>5, GeoParts
<1>7. DownloadInv'
  <2>1. DownloadInv /\ path' \in [Files -> Content \cup {NoFile, Stub}]
    BY <1>5, GeoParts
  <2>2. dl' \in [Procs -> Downloads]
    BY <1>1, GeoParts, SizePositive DEF NoDownload, Downloads, DownloadSteps
  <2>3. TypeInv' /\ PathInv'
    BY <1>1, <1>6, <2>1, <2>2 DEF DownloadInv, TypeInv, DownloadTypeOK, PathInv, Whole, Exact, Downloads
  <2>4. \A q \in Procs : q # p => dl'[q] = dl[q]
    BY <1>4
  <2>5. AloneInv' /\ SoundInv'
    BY <1>1, <1>4, <2>1, <2>4 DEF DownloadInv, AloneInv, SoundInv, Sound, Active, Whole, Exact, NoDownload
  <2>6. LeftInv'
    <3> SUFFICES ASSUME NEW q \in Procs, dl'[q].pc = "failed", dl'[q].got > 0,
                        \A r \in Procs : dl'[r].file = dl'[q].file => ~Writes(r)'
                 PROVE  tmp'[dl'[q].file] = NoFile
      BY DEF LeftInv, At
    <3>1. q # p /\ dl'[q] = dl[q]
      BY <1>4 DEF NoDownload
    <3>2. ~Writes(p) /\ \A r \in Procs : dl[r].file = dl[q].file => ~Writes(r)
      BY <1>1, <1>4, <3>1 DEF Writes
    <3> QED BY <1>1, <2>1, <3>1, <3>2 DEF DownloadInv, LeftInv, At
  <2> QED BY <2>3, <2>5, <2>6 DEF DownloadInv
<1>8. Task(p)'
  BY <1>4 DEF Task, NoDownload, Active
<1>9. \A f \in Files : path'[f] # path[f] => f = dl[p].file /\ ~Usable(path[f])
  BY <1>2, <1>6 DEF Usable
<1>10. \A e \in Range(Assets) : Held(p, e) <=> e = a \/ In(e, w.group)
  BY <1>2, <1>4, GeoParts, TailMembers DEF Held
<1>11. Served(a)'
  <2>1. Task(p)
    BY GeoParts
  <2>2. CASE dl[p].pc = "ok"
    BY <1>1, <1>2, <1>6, <2>1, <2>2 DEF Task, Served, Usable
  <2>3. CASE dl[p].pc = "failed"
    BY <1>1, <1>2, <2>1, <2>3 DEF Task, Served, Delivers
  <2> QED BY <1>1, <2>2, <2>3
<1> QED BY <1>1, <1>3, <1>4, <1>7, <1>8, <1>9, <1>10, <1>11, WorkerMove

\* The loader goes on, or its context ends, and the workers stand still.
LEMMA LoaderMove ==
  ASSUME GeoInv, UNCHANGED <<body, tmp, path, dl, work>>, main'.next = main.next, StageInv',
         main'.pc # "idle" /\ ~cancelled' => main.pc # "idle" /\ ~cancelled
  PROVE  GeoInv'
<1>1. DownloadInv'
  BY GeoParts, SameDownloads
<1>2. ShareInv'
  BY GeoParts DEF ShareInv, Held, In
<1>3. TaskInv'
  BY GeoParts DEF TaskInv, Task, Active, Usable, Delivers
<1>4. ServedInv'
  BY GeoParts DEF ServedInv, Served, Usable, Delivers, Held, In
<1> QED BY <1>1, <1>2, <1>3, <1>4 DEF GeoInv

\* A start with the files as they are, or as a crash has left them.
LEMMA FreshStart ==
  ASSUME GeoInv, CrashAll, main'.next = 1, StageInv', work' \in [Procs -> {IdleWorker, Off}]
  PROVE  GeoInv'
<1>1. DownloadInv'
  BY GeoParts, CrashInv
<1>2. \A p \in Procs : work'[p].group = <<>> /\ work'[p].pc \in {"off", "receive"}
  BY DEF IdleWorker, Off
<1>3. ShareInv'
  BY <1>2 DEF ShareInv, Held, In
<1>4. TaskInv'
  <2>1. IdleWorker \in Works /\ Off \in Works
    BY DEF IdleWorker, Off, Works
  <2>2. \A p \in Procs : dl'[p] = NoDownload
    BY DEF CrashAll
  <2>3. \A p \in Procs : Task(p)'
    BY <1>2, <2>2 DEF Task, NoDownload, Active
  <2> QED BY <2>1, <2>3 DEF TaskInv
<1>5. ServedInv'
  <2>1. \A n \in DOMAIN Groups : ~(n < 1)
    BY AssetFacts
  <2> QED BY <2>1 DEF ServedInv
<1> QED BY <1>1, <1>3, <1>4, <1>5 DEF GeoInv

\* A group that is handed out: none of its files is with another worker.
LEMMA SendInv == ASSUME GeoInv, Send PROVE GeoInv'
<1>1. PICK p \in Procs :
        /\ work[p].pc = "receive"
        /\ work' = [work EXCEPT ![p] = [pc |-> "next", group |-> Groups[main.next]]]
  BY DEF Send
<1>2. /\ UNCHANGED <<body, tmp, path, dl, cancelled>> /\ main.pc = "enqueue" /\ main.next <= Len(Groups)
      /\ main' = [main EXCEPT !.next = main.next + 1]
  BY DEF Send
<1>3. /\ Len(Groups) \in Nat /\ DOMAIN Groups = 1..Len(Groups) /\ main.next \in DOMAIN Groups
      /\ Groups[main.next] \in Seq(Range(Assets))
  BY <1>2, GeoParts, AssetFacts
<1>4. main'.pc = "enqueue" /\ main'.next = main.next + 1 /\ main' \in [pc : {"idle", "enqueue", "wait", "done"}, next : 1..(Len(Groups) + 1)]
  BY <1>2, <1>3, GeoParts
<1>5. /\ work'[p].pc = "next" /\ work'[p].group = Groups[main.next]
      /\ \A q \in Procs : q # p => work'[q] = work[q]
      /\ work' \in [Procs -> Works]
  BY <1>1, <1>3, GeoParts DEF Works
<1>6. StageInv'
  BY <1>2, <1>4, GeoParts DEF StageInv
<1>7. ShareInv'
  <2>1. \A e : Held(p, e)' <=> In(e, Groups[main.next])
    BY <1>5 DEF Held, In
  <2>2. \A q \in Procs : q # p => \A e : Held(q, e)' <=> Held(q, e)
    BY <1>5 DEF Held, In
  <2>3. ASSUME NEW q \in Procs, NEW e \in Range(Assets), Held(q, e)'
        PROVE  \E n \in DOMAIN Groups : n < main'.next /\ In(e, Groups[n])
    <3>1. CASE q = p
      BY <1>3, <1>4, <2>1, <2>3, <3>1
    <3>2. CASE q # p
      <4>1. PICK n \in DOMAIN Groups : n < main.next /\ In(e, Groups[n])
        BY <2>2, <2>3, <3>2, GeoParts DEF ShareInv
      <4> QED BY <1>3, <1>4, <4>1
    <3> QED BY <3>1, <3>2
  <2>4. ASSUME NEW q \in Procs, NEW e \in Range(Assets), NEW g \in Range(Assets), q # p,
               Held(p, e)', Held(q, g)', e.file = g.file
        PROVE  FALSE
    <3>1. PICK n \in DOMAIN Groups : n < main.next /\ In(g, Groups[n])
      BY <2>2, <2>4, GeoParts DEF ShareInv
    <3>2. n = main.next
      BY <1>3, <2>1, <2>4, <3>1, AssetFacts
    <3> QED BY <1>3, <3>1, <3>2
  <2>5. ASSUME NEW q \in Procs, NEW r \in Procs, NEW e \in Range(Assets), NEW g \in Range(Assets),
               Held(q, e)', Held(r, g)', e.file = g.file
        PROVE  q = r
    <3>1. CASE q # p /\ r # p
      BY <2>2, <2>5, <3>1, GeoParts DEF ShareInv
    <3> QED BY <2>4, <2>5, <3>1
  <2> QED BY <2>3, <2>5 DEF ShareInv, In
<1>8. TaskInv'
  <2>1. ASSUME NEW q \in Procs PROVE Task(q)'
    <3>1. Task(q)
      BY GeoParts
    <3>2. CASE q = p
      BY <1>1, <1>2, <1>5, <3>1, <3>2 DEF Task, NoDownload, Active
    <3>3. CASE q # p
      BY <1>2, <1>5, <3>1, <3>3 DEF Task, Active, Usable, Delivers
    <3> QED BY <3>2, <3>3
  <2> QED BY <1>5, <2>1 DEF TaskInv
<1>9. ServedInv'
  <2> SUFFICES ASSUME ~cancelled, NEW n \in DOMAIN Groups, n < main.next + 1,
                      NEW e \in Range(Assets), In(e, Groups[n])
               PROVE  Served(e)' \/ \E q \in Procs : Held(q, e)'
    BY <1>2, <1>4 DEF ServedInv, In
  <2>1. CASE n = main.next
    BY <1>5, <2>1 DEF Held
  <2>2. CASE n < main.next
    <3>1. CASE Served(e)
      BY <1>2, <3>1 DEF Served, Delivers, Usable
    <3>2. ASSUME NEW q \in Procs, Held(q, e) PROVE Held(q, e)'
      <4>1. q # p
        BY <1>1, <3>2, GeoParts, NoMembers DEF Task, Held
      <4> QED BY <1>5, <3>2, <4>1 DEF Held
    <3> QED BY <1>2, <2>2, <3>1, <3>2, GeoParts DEF ServedInv
  <2> QED BY <1>3, <2>1, <2>2, GeoParts
<1>10. DownloadInv'
  BY <1>2, GeoParts, SameDownloads
<1> QED BY <1>6, <1>7, <1>8, <1>9, <1>10 DEF GeoInv

\* Where prepare is when it begins.
LEMMA FreshMain ==
  \A step \in {"idle", "enqueue"} :
    [pc |-> step, next |-> 1] \in [pc : {"idle", "enqueue", "wait", "done"}, next : 1..(Len(Groups) + 1)]
<1>1. 1 \in 1..(Len(Groups) + 1)
  BY AssetFacts
<1> QED BY <1>1

\* The steps of prepare itself, the end of its context and a crash.
LEMMA LoaderInv == ASSUME GeoInv, Main \/ Cancel \/ GeodataCrash PROVE GeoInv'
<1>0. StageInv /\ Len(Groups) \in Nat /\ work \in [Procs -> Works]
  BY GeoParts, AssetFacts
<1>1. CASE PrepareGeodata
  <2>1. /\ main.pc = "idle" /\ main' = [pc |-> "enqueue", next |-> 1] /\ cancelled' = FALSE
        /\ dl' = [p \in Procs |-> NoDownload] /\ UNCHANGED <<body, tmp, path>>
    BY <1>1 DEF PrepareGeodata
  <2>2. PICK W \in SUBSET Procs : work' = [p \in Procs |-> IF p \in W THEN IdleWorker ELSE Off]
    BY <1>1 DEF PrepareGeodata
  <2>3. StageInv' /\ main'.next = 1
    BY <1>0, <2>1, FreshMain DEF StageInv
  <2>4. CrashAll /\ work' \in [Procs -> {IdleWorker, Off}]
    BY <2>1, <2>2 DEF CrashAll, CrashFiles
  <2> QED BY <2>3, <2>4, FreshStart
<1>2. CASE GeodataCrash
  <2>1. /\ main' = [pc |-> "idle", next |-> 1] /\ cancelled' = FALSE
        /\ work' = [p \in Procs |-> Off] /\ CrashAll
    BY <1>2 DEF GeodataCrash, CrashAll
  <2>2. StageInv' /\ main'.next = 1
    BY <1>0, <2>1, FreshMain DEF StageInv, Off
  <2> QED BY <2>1, <2>2, FreshStart
<1>3. CASE Send
  BY <1>3, SendInv
<1>4. CASE CloseJobs
  <2>1. /\ main.pc = "enqueue" /\ (main.next > Len(Groups) \/ cancelled)
        /\ main' = [main EXCEPT !.pc = "wait"] /\ UNCHANGED <<body, tmp, path, dl, work, cancelled>>
    BY <1>4 DEF CloseJobs
  <2>2. StageInv' /\ main'.next = main.next
    BY <1>0, <2>1 DEF StageInv
  <2> QED BY <2>1, <2>2, LoaderMove
<1>5. CASE WaitGroup
  <2>1. /\ main.pc = "wait" /\ \A p \in Procs : work[p].pc = "off"
        /\ main' = [main EXCEPT !.pc = "done"] /\ UNCHANGED <<body, tmp, path, dl, work, cancelled>>
    BY <1>5 DEF WaitGroup
  <2>2. StageInv' /\ main'.next = main.next
    BY <1>0, <2>1 DEF StageInv
  <2> QED BY <2>1, <2>2, LoaderMove
<1>6. CASE ReturnGeodata
  <2>1. /\ main.pc = "done"
        /\ main' = [main EXCEPT !.pc = "idle"] /\ UNCHANGED <<body, tmp, path, dl, work, cancelled>>
    BY <1>6 DEF ReturnGeodata
  <2>2. StageInv' /\ main'.next = main.next
    BY <1>0, <2>1 DEF StageInv
  <2> QED BY <2>1, <2>2, LoaderMove
<1>7. CASE Cancel
  <2>1. cancelled' = TRUE /\ UNCHANGED <<body, tmp, path, dl, main, work>>
    BY <1>7 DEF Cancel
  <2>2. StageInv' /\ main'.next = main.next
    BY <1>0, <2>1 DEF StageInv
  <2> QED BY <2>1, <2>2, LoaderMove
<1> QED
  BY <1>1, <1>2, <1>3, <1>4, <1>5, <1>6, <1>7 DEF Main

\* A state that does not change.
LEMMA GeoStutters == ASSUME GeoInv, UNCHANGED geodataVars PROVE GeoInv'
<1>1. StageInv'
  BY GeoParts DEF StageInv, geodataVars
<1> QED BY <1>1, LoaderMove DEF geodataVars

\* Nothing is under way when the agent starts.
LEMMA GeodataInitInv == GeodataInit => GeoInv
<1> SUFFICES ASSUME GeodataInit PROVE GeoInv
  OBVIOUS
<1>1. DownloadInv /\ main = [pc |-> "idle", next |-> 1] /\ work = [p \in Procs |-> Off] /\ cancelled = FALSE
  BY InitDownloadInv DEF GeodataInit
<1>2. \A p \in Procs : work[p].pc = "off" /\ work[p].group = <<>> /\ dl[p] = NoDownload
  BY <1>1 DEF Off, GeodataInit, DownloadInit
<1>3. StageInv
  BY <1>1, <1>2, FreshMain DEF StageInv
<1>4. ShareInv /\ ServedInv
  BY <1>1, <1>2 DEF ShareInv, ServedInv, Held, In
<1>5. TaskInv
  <2>1. Off \in Works
    BY DEF Off, Works
  <2> QED BY <1>1, <1>2, <2>1 DEF TaskInv, Task, NoDownload, Active
<1> QED BY <1>1, <1>3, <1>4, <1>5 DEF GeoInv

LEMMA GeodataStep == ASSUME GeoInv, [GeodataNext]_geodataVars PROVE GeoInv'
<1>1. CASE Main \/ Cancel \/ GeodataCrash
  BY <1>1, LoaderInv
<1>2. ASSUME NEW p \in Procs, Worker(p) PROVE GeoInv'
  BY <1>2, WorkerEndsInv, GroupEndsInv, PrepareAssetInv, AssetEndsInv, WorkerDownloadsInv DEF Worker
<1>3. CASE UNCHANGED geodataVars
  BY <1>3, GeoStutters
<1> QED BY <1>1, <1>2, <1>3 DEF GeodataNext

\* While prepare runs, its workers share no file, what they handed over was handed out,
\* and each file that was asked for is there, still to be tried or without a source that
\* delivers: inductive for any number of workers, assets and answers.
THEOREM GeodataInvariant == GeodataSpec => []GeoInv
<1> QED BY GeodataInitInv, GeodataStep, PTL DEF GeodataSpec

LEMMA GeoIsTyped == GeoInv => GeodataTypeOK
<1> SUFFICES ASSUME GeoInv PROVE GeodataTypeOK
  OBVIOUS
<1>1. DownloadTypeOK
  BY GeoParts DEF DownloadInv, TypeInv
<1>2. \A p \in Procs : work[p].pc \in {"off", "receive", "next", "download"}
  BY GeoParts DEF Works
<1> QED BY <1>1, <1>2, GeoParts DEF GeodataTypeOK, StageInv

\* The state of prepare, its workers and their downloads has its type.
THEOREM GeodataTypeCorrect == GeodataSpec => []GeodataTypeOK
<1> QED BY GeoIsTyped, GeodataInvariant, PTL

\* prepare of internal/xray/geodata.go: when it returns uncancelled, every file with a
\* source that delivers is there; and while it runs no step, nor a crash, replaces a file
\* that is there.
THEOREM FallbackWorksHolds == GeodataSpec => FallbackWorks
<1>1. GeoInv => FallbackServes
  <2> SUFFICES ASSUME GeoInv, main.pc = "done", ~cancelled, NEW k \in DOMAIN Assets, Delivers(Assets[k].source)
               PROVE  Usable(path[Assets[k].file])
    BY DEF FallbackServes
  <2>1. Assets[k] \in Range(Assets)
    BY DEF Range
  <2>2. PICK n \in DOMAIN Groups : In(Assets[k], Groups[n])
    BY GroupsFacts DEF In
  <2>3. n < main.next
    BY <2>2, GeoParts, AssetFacts DEF StageInv
  <2>4. \A p \in Procs : ~Held(p, Assets[k])
    BY GeoParts, NoMembers DEF StageInv, Task, Held
  <2> QED BY <2>1, <2>2, <2>3, <2>4, GeoParts DEF ServedInv, Served
<1>2. GeoInv /\ [GeodataNext]_geodataVars =>
        [main.pc # "idle" => \A f \in Files : Usable(path[f]) => path'[f] = path[f]]_path
  <2> SUFFICES ASSUME GeoInv, GeodataNext, main.pc # "idle", NEW f \in Files, Usable(path[f])
               PROVE  path'[f] = path[f]
    BY DEF geodataVars
  <2>1. CASE Main \/ Cancel
    BY <2>1 DEF Main, PrepareGeodata, Send, CloseJobs, WaitGroup, ReturnGeodata, Cancel
  <2>2. CASE GeodataCrash
    BY <2>2, GeoParts, CrashKeepsFiles DEF GeodataCrash
  <2>3. ASSUME NEW p \in Procs, Worker(p) PROVE path'[f] = path[f]
    <3>1. CASE DownloadStep(p)
      BY <3>1, DownloadMove, GeoParts DEF Task
    <3>2. CASE AssetEnds(p)
      <4>1. path' = path \/ (path[dl[p].file] = NoFile /\ path' = [path EXCEPT ![dl[p].file] = Stub])
        BY <3>2 DEF AssetEnds
      <4>2. path \in [Files -> Content \cup {NoFile, Stub}]
        BY GeoParts
      <4>3. CASE path[dl[p].file] = NoFile /\ path' = [path EXCEPT ![dl[p].file] = Stub]
        <5>1. f # dl[p].file
          BY <4>3 DEF Usable
        <5> QED BY <4>2, <4>3, <5>1
      <4> QED BY <4>1, <4>3
    <3>3. CASE WorkerEnds(p) \/ GroupEnds(p) \/ PrepareAsset(p)
      BY <3>3 DEF WorkerEnds, GroupEnds, PrepareAsset
    <3> QED BY <2>3, <3>1, <3>2, <3>3 DEF Worker
  <2> QED BY <2>1, <2>2, <2>3 DEF GeodataNext
<1> QED BY <1>1, <1>2, GeodataInvariant, PTL DEF GeodataSpec, FallbackWorks

\* The workers' downloads, too, are all or nothing, with the stubs and a crash between.
THEOREM WorkersAllOrNothing == GeodataSpec => []AllOrNothing
<1>1. GeoInv => AllOrNothing
  BY GeoParts, InvIsAllOrNothing
<1> QED BY <1>1, GeodataInvariant, PTL

-----------------------------------------------------------------------------
(* The rotation of a log.                                                  *)

\* The two files are sequences of lines, and the ends of the copies lie in the log.
LogBase ==
  /\ log \in Seq(1..lines) /\ Len(log) <= lines
  /\ backup \in Seq((1..lines) \cup {Hole})
  /\ lines \in 0..MaxLines /\ core \in BOOLEAN /\ failures \in 0..MaxFailures
  /\ rotator \in [Rotators -> [pc : {"idle", "create", "copy", "truncate", "rotated"}, offset : 0..MaxLines]]
  /\ excused \subseteq (1..lines) \cup {Hole} /\ overlapped \in BOOLEAN

\* A rotation that works alone: until the backup is created the log is full, and from
\* then on the backup holds the lines of the log up to the offset.
Copied(r) ==
  /\ rotator[r].pc = "create" => Len(log) >= MaxLog /\ rotator[r].offset = 0
  /\ rotator[r].pc \in {"copy", "truncate"} =>
       /\ Len(backup) = rotator[r].offset /\ rotator[r].offset <= Len(log)
       /\ \A k \in 1..rotator[r].offset : backup[k] = log[k]
RotatedAlone ==
  overlapped \/ /\ \A r, s \in Rotators : AtWork(r) /\ AtWork(s) => r = s
                /\ \A r \in Rotators : Copied(r)
                /\ \A l \in 1..lines : l \in Range(log) \cup Range(backup) \cup excused

LogInv == LogBase /\ RotatedAlone

\* What has the domain of a sequence is one.
LEMMA FunctionIsSeq ==
  ASSUME NEW S, NEW n \in Nat, NEW w \in [1..n -> S]
  PROVE  w \in Seq(S) /\ Len(w) = n
<1>1. w \in Seq(S)
  BY SeqDef
<1>2. Len(w) \in Nat /\ 1..Len(w) = 1..n
  <2>1. DOMAIN w = 1..n
    OBVIOUS
  <2> QED BY <1>1, <2>1, LenProperties
<1>3. ASSUME NEW m \in Nat, 1..m = 1..n PROVE m = n
  <2>1. (m \in 1..m \/ m = 0) /\ (n \in 1..n \/ n = 0)
    OBVIOUS
  <2> QED BY <1>3, <2>1
<1> QED
  BY <1>1, <1>2, <1>3

\* The file w is the file c with v written at o.
IsWritten(w, c, o, v, S) ==
  /\ w \in Seq(S)
  /\ Len(w) = IF o < Len(c) THEN Len(c) ELSE o + 1
  /\ \A k \in 1..Len(w) : w[k] = IF k = o + 1 THEN v ELSE IF k <= Len(c) THEN c[k] ELSE Hole

\* A write within a file, at its end or behind it.
LEMMA WriteAtFact ==
  ASSUME NEW S, NEW c \in Seq(S), NEW o \in Nat, NEW v \in S, o <= Len(c) \/ Hole \in S
  PROVE  IsWritten(WriteAt(c, o, v), c, o, v, S)
<1> DEFINE n == IF o < Len(c) THEN Len(c) ELSE o + 1
           w == WriteAt(c, o, v)
<1>1. Len(c) \in Nat /\ \A k \in 1..Len(c) : c[k] \in S
  BY LenProperties
<1>2. n \in Nat /\ (o < Len(c) => n = Len(c)) /\ (~(o < Len(c)) => n = o + 1)
  BY <1>1
<1>3. /\ w = [k \in 1..n |-> w[k]]
      /\ \A k \in 1..n : w[k] = IF k = o + 1 THEN v ELSE IF k <= Len(c) THEN c[k] ELSE Hole
  BY DEF WriteAt
<1> HIDE DEF w, n
<1>4. ASSUME NEW k \in 1..n PROVE w[k] \in S
  <2>1. CASE k = o + 1
    BY <1>3, <2>1
  <2>2. CASE k # o + 1 /\ k <= Len(c)
    <3>1. k \in 1..Len(c)
      BY <1>1, <1>2, <2>2
    <3> QED BY <1>1, <1>3, <2>2, <3>1
  <2>3. CASE k # o + 1 /\ k > Len(c)
    <3>1. Hole \in S
      BY <1>1, <1>2, <2>3
    <3> QED BY <1>1, <1>3, <2>3, <3>1
  <2> QED BY <1>1, <2>1, <2>2, <2>3
<1>5. w \in [1..n -> S]
  BY <1>3, <1>4
<1>6. w \in Seq(S) /\ Len(w) = n
  BY <1>2, <1>5, FunctionIsSeq
<1>7. \A k \in 1..Len(w) : w[k] = IF k = o + 1 THEN v ELSE IF k <= Len(c) THEN c[k] ELSE Hole
  BY <1>3, <1>6
<1> QED
  BY <1>6, <1>7 DEF w, n, IsWritten

\* The lines of a file.
LEMMA RangeFact ==
  ASSUME NEW S, NEW c \in Seq(S)
  PROVE  Range(c) = {c[k] : k \in 1..Len(c)} /\ Range(c) \subseteq S
<1>1. DOMAIN c = 1..Len(c) /\ \A k \in 1..Len(c) : c[k] \in S
  BY LenProperties
<1> QED
  BY <1>1 DEF Range

\* The lengths of the two files and the number of the last line are natural numbers.
LEMMA LogLengths == ASSUME LogBase PROVE Len(log) \in Nat /\ Len(backup) \in Nat /\ lines \in Nat
  BY LenProperties, LogAssumption DEF LogBase

\* A line is appended: what was copied stays, and the line is in the log.
LEMMA WriteLineStep ==
  ASSUME LogInv, WriteLine PROVE LogInv'
<1> DEFINE S == 1..(lines + 1)
<1>0. LogBase /\ RotatedAlone /\ lines \in Nat /\ Len(log) \in Nat
  BY LogLengths DEF LogInv
<1>1. /\ lines' = lines + 1 /\ lines < MaxLines /\ log' = WriteAt(log, Len(log), lines + 1)
      /\ UNCHANGED <<backup, core, rotator, failures, excused, overlapped>>
  BY DEF WriteLine
<1>2. log \in Seq(S) /\ backup \in Seq(S \cup {Hole}) /\ lines + 1 \in S
  <2>1. (1..lines) \subseteq S /\ (1..lines) \cup {Hole} \subseteq S \cup {Hole}
    BY <1>0
  <2> QED
    BY <1>0, <2>1, SeqMonotonic DEF LogBase
<1>3. /\ log' \in Seq(S) /\ Len(log') = Len(log) + 1
      /\ \A k \in 1..Len(log) : log'[k] = log[k]
      /\ log'[Len(log) + 1] = lines + 1
  <2> HIDE DEF S
  <2> DEFINE w == WriteAt(log, Len(log), lines + 1)
             n == Len(log)
  <2>1. n \in Nat /\ n <= Len(log) /\ ~(n < Len(log))
    BY <1>0
  <2>2. IsWritten(w, log, n, lines + 1, S)
    BY <1>2, <2>1, WriteAtFact
  <2>3. w \in Seq(S) /\ Len(w) = n + 1
    BY <2>1, <2>2 DEF IsWritten
  <2>4. \A k \in 1..Len(w) : w[k] = IF k = n + 1 THEN lines + 1 ELSE IF k <= Len(log) THEN log[k] ELSE Hole
    BY <2>2 DEF IsWritten
  <2> HIDE DEF w, n
  <2>5. log' = w
    BY <1>1 DEF w
  <2>6. /\ \A k \in 1..n : w[k] = log[k]
        /\ w[n + 1] = lines + 1
    BY <2>1, <2>3, <2>4 DEF n
  <2> QED
    BY <2>3, <2>5, <2>6 DEF n
<1>4. LogBase'
  BY <1>0, <1>1, <1>2, <1>3, LogAssumption DEF LogBase
<1>5. Range(log) \cup {lines + 1} \subseteq Range(log')
  <2> HIDE DEF S
  <2>1. Range(log) = {log[k] : k \in 1..Len(log)} /\ Range(log') = {log'[k] : k \in 1..Len(log')}
    BY <1>2, <1>3, RangeFact
  <2>2. \A k \in 1..Len(log) : k \in 1..Len(log') /\ log[k] = log'[k]
    BY <1>0, <1>3
  <2>3. Len(log) + 1 \in 1..Len(log')
    BY <1>0, <1>3
  <2> QED
    BY <1>3, <2>1, <2>2, <2>3
<1>6. ASSUME ~overlapped
      PROVE  RotatedAlone'
  <2>1. \A r \in Rotators : Copied(r)'
    <3> TAKE r \in Rotators
    <3>1. Copied(r) /\ rotator[r].offset \in Nat
      BY <1>0, <1>6, LogAssumption DEF RotatedAlone, LogBase
    <3> QED BY <1>0, <1>1, <1>3, <3>1, LogAssumption DEF Copied
  <2>2. \A l \in 1..lines' : l \in Range(log') \cup Range(backup) \cup excused
    BY <1>0, <1>1, <1>5, <1>6 DEF RotatedAlone
  <2> QED
    BY <1>0, <1>1, <1>6, <2>1, <2>2 DEF RotatedAlone, AtWork
<1> QED
  BY <1>1, <1>4, <1>6 DEF LogInv, RotatedAlone

\* A block is copied: the backup of a rotation that works alone grows by that line.
LEMMA CopyStep ==
  ASSUME LogInv, NEW r \in Rotators, Copy(r) PROVE LogInv'
<1> DEFINE S == (1..lines) \cup {Hole}
           o == rotator[r].offset
           v == log[o + 1]
<1>0. LogBase /\ RotatedAlone /\ lines \in Nat /\ Len(log) \in Nat /\ Len(backup) \in Nat
  BY LogLengths DEF LogInv
<1>1. /\ rotator[r].pc = "copy" /\ o < Len(log) /\ backup' = WriteAt(backup, o, v)
      /\ rotator' = [rotator EXCEPT ![r] = [rotator[r] EXCEPT !.offset = o + 1]]
      /\ UNCHANGED <<log, lines, core, failures, excused, overlapped>>
  BY DEF Copy
<1>2. o \in Nat /\ backup \in Seq(S) /\ v \in S
  <2>1. o \in Nat /\ backup \in Seq(S)
    BY <1>0, LogAssumption DEF LogBase
  <2>2. log \in Seq(1..lines) /\ o + 1 \in 1..Len(log)
    BY <1>0, <1>1, <2>1 DEF LogBase
  <2> QED
    BY <2>1, <2>2, ElementOfSeq
<1>3. /\ backup' \in Seq(S)
      /\ Len(backup') = IF o < Len(backup) THEN Len(backup) ELSE o + 1
      /\ \A k \in 1..Len(backup') :
           backup'[k] = IF k = o + 1 THEN v ELSE IF k <= Len(backup) THEN backup[k] ELSE Hole
  <2>1. Hole \in S
    OBVIOUS
  <2> HIDE DEF S, o, v
  <2>2. IsWritten(WriteAt(backup, o, v), backup, o, v, S)
    BY <1>2, <2>1, WriteAtFact
  <2> QED
    BY <1>1, <2>2 DEF IsWritten
<1>4. /\ o + 1 \in 0..MaxLines
      /\ rotator' \in [Rotators -> [pc : {"idle", "create", "copy", "truncate", "rotated"}, offset : 0..MaxLines]]
      /\ rotator'[r].pc = "copy" /\ rotator'[r].offset = o + 1
      /\ \A s \in Rotators : s # r => rotator'[s] = rotator[s]
  <2>1. o + 1 \in 0..MaxLines
    BY <1>0, <1>1, <1>2, LogAssumption DEF LogBase
  <2> QED
    BY <1>0, <1>1, <2>1 DEF LogBase
<1>5. LogBase'
  BY <1>0, <1>1, <1>3, <1>4 DEF LogBase
<1>6. ASSUME ~overlapped
      PROVE  RotatedAlone'
  <2>1. Len(backup) = o /\ \A k \in 1..o : backup[k] = log[k]
    BY <1>0, <1>1, <1>6 DEF RotatedAlone, Copied
  <2>2. Len(backup') = o + 1
    BY <1>2, <1>3, <2>1
  <2>3. \A k \in 1..(o + 1) : backup'[k] = log[k]
    <3> HIDE DEF o
    <3> TAKE k \in 1..(o + 1)
    <3>1. CASE k = o + 1
      BY <1>2, <1>3, <2>2, <3>1
    <3>2. CASE k # o + 1
      <4>1. k \in 1..o /\ k <= Len(backup) /\ k \in 1..Len(backup')
        BY <1>2, <2>1, <2>2, <3>2
      <4> QED BY <1>3, <2>1, <3>2, <4>1
    <3> QED BY <3>1, <3>2
  <2>4. Range(backup) \subseteq Range(backup')
    <3>1. Range(backup) = {backup[k] : k \in 1..o} /\ Range(backup') = {backup'[k] : k \in 1..(o + 1)}
      <4> HIDE DEF S, o
      <4> QED BY <1>2, <1>3, <2>1, <2>2, RangeFact
    <3>2. \A k \in 1..o : k \in 1..(o + 1) /\ backup'[k] = backup[k]
      BY <1>2, <2>1, <2>3
    <3> QED BY <3>1, <3>2
  <2>5. \A s \in Rotators : AtWork(s) => s = r
    BY <1>0, <1>1, <1>6 DEF RotatedAlone, AtWork
  <2>6. \A s \in Rotators : Copied(s)'
    <3> TAKE s \in Rotators
    <3>1. CASE s = r
      BY <1>0, <1>1, <1>2, <1>4, <2>2, <2>3, <3>1 DEF Copied
    <3>2. CASE s # r
      BY <1>4, <2>5, <3>2 DEF Copied, AtWork
    <3> QED BY <3>1, <3>2
  <2>7. \A s \in Rotators : AtWork(s)' => s = r
    BY <1>4, <2>5 DEF AtWork
  <2> QED
    BY <1>0, <1>1, <1>6, <2>4, <2>6, <2>7 DEF RotatedAlone
<1> QED
  BY <1>1, <1>5, <1>6 DEF LogInv, RotatedAlone

\* The backup is emptied: a log that works alone is full, so the loss is excused.
LEMMA CreateStep ==
  ASSUME LogInv, NEW r \in Rotators, Create(r) PROVE LogInv'
<1>0. LogBase /\ RotatedAlone /\ lines \in Nat /\ Len(log) \in Nat
  BY LogLengths DEF LogInv
<1>1. /\ rotator[r].pc = "create" /\ backup' = <<>>
      /\ excused' = excused \cup (IF Len(log) >= MaxLog THEN Range(backup) ELSE {})
      /\ rotator' = [rotator EXCEPT ![r] = [rotator[r] EXCEPT !.pc = "copy"]]
      /\ UNCHANGED <<log, lines, core, failures, overlapped>>
  BY DEF Create
<1>2. <<>> \in Seq((1..lines) \cup {Hole}) /\ Len(<<>>) = 0
  BY EmptySeq
<1>3. Range(backup) \subseteq (1..lines) \cup {Hole}
  BY <1>0, RangeFact DEF LogBase
<1>4. /\ rotator' \in [Rotators -> [pc : {"idle", "create", "copy", "truncate", "rotated"}, offset : 0..MaxLines]]
      /\ rotator'[r].pc = "copy" /\ rotator'[r].offset = rotator[r].offset
      /\ \A s \in Rotators : s # r => rotator'[s] = rotator[s]
  BY <1>0, <1>1 DEF LogBase
<1>5. LogBase'
  BY <1>0, <1>1, <1>2, <1>3, <1>4 DEF LogBase
<1>6. ASSUME ~overlapped
      PROVE  RotatedAlone'
  <2>1. \A s \in Rotators : AtWork(s) => s = r
    BY <1>0, <1>1, <1>6 DEF RotatedAlone, AtWork
  <2>2. Len(log) >= MaxLog /\ rotator[r].offset = 0
    BY <1>0, <1>1, <1>6 DEF RotatedAlone, Copied
  <2>3. \A s \in Rotators : Copied(s)'
    <3> TAKE s \in Rotators
    <3>1. CASE s = r
      BY <1>0, <1>1, <1>2, <1>4, <2>2, <3>1 DEF Copied
    <3>2. CASE s # r
      BY <1>4, <2>1, <3>2 DEF Copied, AtWork
    <3> QED BY <3>1, <3>2
  <2>4. \A s \in Rotators : AtWork(s)' => s = r
    BY <1>4, <2>1 DEF AtWork
  <2> QED
    BY <1>0, <1>1, <1>6, <2>2, <2>3, <2>4 DEF RotatedAlone
<1> QED
  BY <1>1, <1>5, <1>6 DEF LogInv, RotatedAlone

\* The log is cut: a copy that worked alone has what was in it up to the offset.
LEMMA TruncateStep ==
  ASSUME LogInv, NEW r \in Rotators, Truncate(r) PROVE LogInv'
<1>0. LogBase /\ RotatedAlone /\ lines \in Nat /\ Len(log) \in Nat /\ Len(backup) \in Nat
  BY LogLengths DEF LogInv
<1>1. /\ rotator[r].pc = "truncate" /\ log' = <<>>
      /\ excused' = excused \cup {log[k] : k \in (rotator[r].offset + 1)..Len(log)}
      /\ rotator' = [rotator EXCEPT ![r] = Rotated(r)]
      /\ UNCHANGED <<backup, lines, core, failures, overlapped>>
  BY DEF Truncate
<1>2. <<>> \in Seq(1..lines) /\ Len(<<>>) = 0
  BY EmptySeq
<1>3. rotator[r].offset \in Nat /\ log \in Seq(1..lines)
  BY <1>0, LogAssumption DEF LogBase
<1>4. {log[k] : k \in (rotator[r].offset + 1)..Len(log)} \subseteq 1..lines
  <2>1. \A k \in (rotator[r].offset + 1)..Len(log) : k \in 1..Len(log)
    BY <1>0, <1>3
  <2> QED BY <1>3, <2>1, ElementOfSeq
<1>5. Rotated(r) \in [pc : {"idle", "rotated"}, offset : {0}]
  BY DEF Rotated, NoRotation
<1>6. /\ rotator' \in [Rotators -> [pc : {"idle", "create", "copy", "truncate", "rotated"}, offset : 0..MaxLines]]
      /\ rotator'[r].pc \in {"idle", "rotated"}
      /\ \A s \in Rotators : s # r => rotator'[s] = rotator[s]
  BY <1>0, <1>1, <1>5, LogAssumption DEF LogBase
<1>7. LogBase'
  <2>1. log' \in Seq(1..lines') /\ Len(log') <= lines'
    BY <1>0, <1>1, <1>2
  <2>2. excused' \subseteq (1..lines') \cup {Hole}
    BY <1>0, <1>1, <1>4 DEF LogBase
  <2> QED
    BY <1>0, <1>1, <1>6, <2>1, <2>2 DEF LogBase
<1>8. ASSUME ~overlapped
      PROVE  RotatedAlone'
  <2>1. \A s \in Rotators : AtWork(s) => s = r
    BY <1>0, <1>1, <1>8 DEF RotatedAlone, AtWork
  <2>2. /\ Len(backup) = rotator[r].offset /\ rotator[r].offset <= Len(log)
        /\ \A k \in 1..rotator[r].offset : backup[k] = log[k]
    BY <1>0, <1>1, <1>8 DEF RotatedAlone, Copied
  <2>3. \A s \in Rotators : ~AtWork(s)'
    BY <1>6, <2>1 DEF AtWork
  <2>4. Range(log) \subseteq Range(backup) \cup excused'
    <3>0. backup \in Seq((1..lines) \cup {Hole})
      BY <1>0 DEF LogBase
    <3>1. Range(log) = {log[k] : k \in 1..Len(log)} /\ Range(backup) = {backup[k] : k \in 1..Len(backup)}
      BY <1>3, <3>0, RangeFact
    <3>2. ASSUME NEW k \in 1..Len(log) PROVE log[k] \in Range(backup) \cup excused'
      <4>1. CASE k <= rotator[r].offset
        <5>1. k \in 1..Len(backup) /\ backup[k] = log[k]
          BY <1>0, <1>3, <2>2, <4>1
        <5> QED BY <3>1, <5>1
      <4>2. CASE ~(k <= rotator[r].offset)
        <5>1. k \in (rotator[r].offset + 1)..Len(log)
          BY <1>0, <1>3, <4>2
        <5> QED BY <1>1, <5>1
      <4> QED BY <4>1, <4>2
    <3> QED BY <3>1, <3>2
  <2>5. \A l \in 1..lines : l \in Range(backup) \cup excused'
    BY <1>0, <1>1, <1>8, <2>4 DEF RotatedAlone
  <2> QED
    BY <1>1, <1>8, <2>3, <2>5 DEF RotatedAlone, AtWork, Copied
<1> QED
  BY <1>1, <1>7, <1>8 DEF LogInv, RotatedAlone

\* Every other step changes at most where one rotation is.
LEMMA RotatorStep ==
  ASSUME LogInv, NEW r \in Rotators, UNCHANGED <<log, backup, lines, excused>>,
         Stat(r) \/ CopyEnds(r) \/ RotationFails(r)
  PROVE  LogInv'
<1>0. LogBase /\ RotatedAlone /\ lines \in Nat /\ Len(log) \in Nat
  BY LogLengths DEF LogInv
<1>1. ASSUME NEW step, rotator' = [rotator EXCEPT ![r] = step], core' = core,
             step \in [pc : {"idle", "create", "copy", "truncate", "rotated"}, offset : 0..MaxLines],
             failures' \in 0..MaxFailures, overlapped' \in BOOLEAN,
             overlapped => overlapped',
             step.pc = "create" => ~AtWork(r),
             step.pc = "create" /\ ~overlapped' => \A s \in Rotators : ~AtWork(s),
             step.pc = "create" => Len(log) >= MaxLog /\ step.offset = 0,
             step.pc \in {"copy", "truncate"} => rotator[r].pc = "copy" /\ step.offset = rotator[r].offset
      PROVE  LogInv'
  <2>1. /\ rotator' \in [Rotators -> [pc : {"idle", "create", "copy", "truncate", "rotated"}, offset : 0..MaxLines]]
        /\ rotator'[r] = step /\ \A s \in Rotators : s # r => rotator'[s] = rotator[s]
    BY <1>0, <1>1 DEF LogBase
  <2>2. LogBase'
    BY <1>0, <1>1, <2>1 DEF LogBase
  <2>3. ASSUME ~overlapped' PROVE RotatedAlone'
    <3>1. \A s \in Rotators : Copied(s)'
      BY <1>0, <1>1, <2>1, <2>3 DEF RotatedAlone, Copied
    <3>2. \A s, t \in Rotators : AtWork(s)' /\ AtWork(t)' => s = t
      BY <1>0, <1>1, <2>1, <2>3 DEF RotatedAlone, AtWork
    <3> QED BY <1>0, <1>1, <2>3, <3>1, <3>2 DEF RotatedAlone
  <2> QED BY <2>2, <2>3 DEF LogInv, RotatedAlone
<1>2. /\ rotator[r] \in [pc : {"idle", "create", "copy", "truncate", "rotated"}, offset : 0..MaxLines]
      /\ failures \in 0..MaxFailures /\ overlapped \in BOOLEAN /\ 0 \in 0..MaxLines
  BY <1>0, LogAssumption DEF LogBase
<1>3. Rotated(r) \in [pc : {"idle", "rotated"}, offset : {0}]
  BY DEF Rotated, NoRotation
<1>4. CASE Stat(r)
  <2>1. CASE Len(log) < MaxLog
    BY <1>0, <1>1, <1>2, <1>3, <1>4, <2>1, LogAssumption DEF Stat
  <2>2. CASE ~(Len(log) < MaxLog)
    <3> DEFINE step == [pc |-> "create", offset |-> 0]
    <3>1. rotator' = [rotator EXCEPT ![r] = step] /\ core' = core /\ failures' = failures
      <4>1. [NoRotation EXCEPT !.pc = "create"] = step
        BY DEF NoRotation
      <4> HIDE DEF step
      <4> QED BY <1>4, <2>2, <4>1 DEF Stat
    <3>2. overlapped' = (overlapped \/ \E s \in Rotators : AtWork(s))
      BY <1>0, <1>4, <2>2, LogAssumption DEF Stat
    <3>3. ~AtWork(r)
      BY <1>4 DEF Stat, NoRotation, AtWork
    <3>4. step \in [pc : {"idle", "create", "copy", "truncate", "rotated"}, offset : 0..MaxLines]
      BY <1>2
    <3>5. Len(log) >= MaxLog /\ step.pc = "create" /\ step.offset = 0
      BY <1>0, <2>2, LogAssumption
    <3> HIDE DEF step
    <3> QED BY <1>1, <1>2, <3>1, <3>2, <3>3, <3>4, <3>5
  <2> QED BY <2>1, <2>2
<1>5. CASE CopyEnds(r)
  <2> DEFINE step == [rotator[r] EXCEPT !.pc = "truncate"]
  <2>1. /\ rotator' = [rotator EXCEPT ![r] = step] /\ rotator[r].pc = "copy"
        /\ UNCHANGED <<core, failures, overlapped>>
    BY <1>5 DEF CopyEnds
  <2>2. /\ step \in [pc : {"idle", "create", "copy", "truncate", "rotated"}, offset : 0..MaxLines]
        /\ step.pc = "truncate" /\ step.offset = rotator[r].offset
    BY <1>2
  <2> HIDE DEF step
  <2> QED BY <1>1, <1>2, <2>1, <2>2
<1>6. CASE RotationFails(r)
  <2>1. /\ rotator' = [rotator EXCEPT ![r] = Rotated(r)] /\ failures' = failures + 1 /\ failures < MaxFailures
        /\ UNCHANGED <<core, overlapped>>
    BY <1>6 DEF RotationFails
  <2>2. failures' \in 0..MaxFailures
    BY <1>2, <2>1, LogAssumption
  <2> QED BY <1>1, <1>2, <1>3, <2>1, <2>2
<1> QED
  BY <1>4, <1>5, <1>6

\* Every step keeps the invariant.
LEMMA NextLogInv == ASSUME LogInv, [LogNext]_logVars PROVE LogInv'
<1>1. ASSUME NEW r \in Rotators, Stat(r) \/ Rotate(r) \/ RotationFails(r) PROVE LogInv'
  BY <1>1, CreateStep, CopyStep, TruncateStep, RotatorStep DEF Rotate, Stat, CopyEnds, RotationFails
<1>2. CASE CoreExits
  BY <1>2 DEF CoreExits, LogInv, LogBase, RotatedAlone, AtWork, Copied
<1>3. CASE CoreStarts
  <2>1. /\ rotator["start"].pc = "rotated" /\ core' = TRUE /\ rotator' = [rotator EXCEPT !["start"] = NoRotation]
        /\ UNCHANGED <<log, backup, lines, failures, excused, overlapped>> /\ "start" \in Rotators
    BY <1>3 DEF CoreStarts, Rotators
  <2>2. /\ rotator' \in [Rotators -> [pc : {"idle", "create", "copy", "truncate", "rotated"}, offset : 0..MaxLines]]
        /\ rotator'["start"].pc = "idle"
        /\ \A s \in Rotators : s # "start" => rotator'[s] = rotator[s]
    BY <2>1, LogAssumption DEF LogInv, LogBase, NoRotation
  <2>3. LogBase'
    BY <2>1, <2>2 DEF LogInv, LogBase
  <2> QED BY <2>1, <2>2, <2>3 DEF LogInv, RotatedAlone, AtWork, Copied
<1>4. CASE UNCHANGED logVars
  BY <1>4 DEF logVars, LogInv, LogBase, RotatedAlone, AtWork, Copied
<1> QED
  BY <1>1, <1>2, <1>3, <1>4, WriteLineStep DEF LogNext

\* The invariant holds at the start.
LEMMA InitLogInv == ASSUME LogInit PROVE LogInv
<1>1. \A S : <<>> \in Seq(S) /\ Len(<<>>) = 0
  BY EmptySeq
<1>2. rotator \in [Rotators -> [pc : {"idle", "create", "copy", "truncate", "rotated"}, offset : 0..MaxLines]]
  BY LogAssumption DEF LogInit, NoRotation
<1>3. log \in Seq(1..lines) /\ Len(log) = 0 /\ backup \in Seq((1..lines) \cup {Hole})
  BY <1>1 DEF LogInit
<1>4. LogBase
  <2>1. lines = 0 /\ core \in BOOLEAN /\ failures = 0 /\ excused = {} /\ overlapped \in BOOLEAN
    BY DEF LogInit
  <2> QED BY <1>2, <1>3, <2>1, LogAssumption DEF LogBase
<1>5. \A r \in Rotators : rotator[r].pc = "idle"
  BY DEF LogInit, NoRotation
<1>6. RotatedAlone
  <2>1. \A r \in Rotators : ~AtWork(r) /\ Copied(r)
    BY <1>5 DEF AtWork, Copied
  <2>2. 1..lines = {}
    BY DEF LogInit
  <2> QED BY <2>1, <2>2 DEF RotatedAlone
<1> QED
  BY <1>4, <1>6 DEF LogInv

\* The inductive invariant of the rotations.
THEOREM LogInvariant == LogSpec => []LogInv
  BY InitLogInv, NextLogInv, PTL DEF LogSpec

\* Every reachable state of the log and its rotations is well typed.
THEOREM LogTypeCorrect == LogSpec => []LogTypeOK
<1>1. LogInv => LogTypeOK
  <2> SUFFICES ASSUME LogInv PROVE LogTypeOK
    OBVIOUS
  <2>1. Range(log) \subseteq 1..lines /\ Range(backup) \subseteq (1..lines) \cup {Hole}
    BY RangeFact DEF LogInv, LogBase
  <2> QED BY <2>1 DEF LogInv, LogBase, LogTypeOK
<1> QED BY <1>1, LogInvariant, PTL

\* The rotation of internal/xray/log_rotate.go, as long as only one runs at a time, loses
\* no line but those written while it works.
THEOREM OneRotationLosesNothingHolds == LogSpec => []OneRotationLosesNothing
<1>1. LogInv => OneRotationLosesNothing
  BY DEF LogInv, RotatedAlone, OneRotationLosesNothing, Lost
<1> QED BY <1>1, LogInvariant, PTL

-----------------------------------------------------------------------------
(* Custom cores, for every set of specifications.  What a prepare accepts  *)
(* is exact whoever changes xray-custom between the starts; the other two  *)
(* theorems promise nothing once somebody has.                             *)

\* What an install has achieved at each of its steps.
Progress ==
  /\ pc \in {"fetch", "chmod", "try", "rename", "link", "mark"} => spec \in Specs
  /\ pc \in {"chmod", "try", "rename"} => staged # None /\ staged.content = spec
  /\ pc \in {"try", "rename"} => staged.exec
  /\ pc = "rename" => staged.content \in Runnable
  /\ pc \in {"link", "mark"} => /\ custom # None /\ custom.exec
                                /\ custom.content = spec /\ spec \in Runnable
  /\ pc = "mark" => active = "custom"
  /\ pc \in {"unlinkMarker", "unlinkCustom"} => active = "stock" /\ spec = Stock

\* Size and time of change tell files apart: a file in place that has those of
\* the marker is the one the marker was written for.
Stamps ==
  /\ \A f \in {custom, staged} : f # None => f.stamp <= writes
  /\ marker # None => marker.stamp <= writes
  /\ custom # None /\ staged # None => custom.stamp # staged.stamp
  /\ marker # None /\ staged # None => marker.stamp # staged.stamp
  /\ marker # None /\ custom # None /\ marker.stamp = custom.stamp => marker.spec = custom.content

\* The inductive invariant.
CoreInv == LoaderTypeOK /\ Progress /\ Stamps /\ AcceptedIsExact

\* Init and every step of Next establish and keep the inductive invariant.
THEOREM CoreInvariant == LoaderSpec => []CoreInv
<1> USE SpecsDistinct, NoneIsNoFile, Bounds
<1>1. LoaderInit => CoreInv
  <2> SUFFICES ASSUME LoaderInit PROVE CoreInv
    OBVIOUS
  <2>1. stock \in BOOLEAN
    BY Zenon DEF LoaderInit
  <2>2. writes \in 0..MaxWrites /\ tampers \in 0..MaxTampers
    BY DEF LoaderInit
  <2>3. /\ active \in {"none", "regular", "stock", "custom"}
        /\ pc \in Steps /\ spec \in Specs \cup {Invalid, Stock, None} /\ failed \in BOOLEAN
    BY DEF LoaderInit, Steps
  <2>4. /\ custom \in File \cup {None} /\ staged \in File \cup {None}
        /\ marker \in Marker \cup {None}
    BY DEF LoaderInit
  <2>5. LoaderTypeOK
    BY Zenon, <2>1, <2>2, <2>3, <2>4 DEF LoaderTypeOK
  <2> QED BY <2>5 DEF LoaderInit, CoreInv, Progress, Stamps, AcceptedIsExact
<1>2. CoreInv /\ [LoaderNext]_loaderVars => CoreInv'
  <2> SUFFICES ASSUME CoreInv, [LoaderNext]_loaderVars PROVE CoreInv'
    OBVIOUS
  <2> USE DEF CoreInv
  <2>1. ASSUME NEW s \in Specs \cup {Invalid, Stock}, Prepare(s) PROVE CoreInv'
    <3>1. LoaderTypeOK'
      BY <2>1 DEF LoaderTypeOK, File, Marker, Steps, Prepare, files
    <3>2. Progress'
      BY <2>1 DEF LoaderTypeOK, Progress, File, Prepare, files
    <3>3. Stamps'
      BY <2>1 DEF LoaderTypeOK, Progress, Stamps, File, Marker, Prepare, files
    <3>4. AcceptedIsExact'
      BY <2>1 DEF LoaderTypeOK, Progress, Stamps, AcceptedIsExact, File, Prepare, files
    <3> QED BY <3>1, <3>2, <3>3, <3>4
  <2>2. CASE SkipInvalid
    <3>1. LoaderTypeOK'
      BY <2>2 DEF LoaderTypeOK, File, Marker, Steps, SkipInvalid, Fail, files
    <3>2. Progress'
      BY <2>2 DEF LoaderTypeOK, Progress, File, SkipInvalid, Fail, files
    <3>3. Stamps'
      BY <2>2 DEF LoaderTypeOK, Progress, Stamps, File, Marker, SkipInvalid, Fail, files
    <3>4. AcceptedIsExact'
      BY <2>2 DEF LoaderTypeOK, Progress, Stamps, AcceptedIsExact, File, SkipInvalid, Fail, files
    <3> QED BY <3>1, <3>2, <3>3, <3>4
  <2>3. CASE SkipInstalled
    <3>1. LoaderTypeOK'
      BY <2>3 DEF LoaderTypeOK, File, Marker, Steps, SkipInstalled, IsInstalled, Go, files
    <3>2. Progress'
      BY <2>3 DEF LoaderTypeOK, Progress, File, SkipInstalled, IsInstalled, Go, files
    <3>3. Stamps'
      BY <2>3 DEF LoaderTypeOK, Progress, Stamps, File, Marker, SkipInstalled, IsInstalled, Go, files
    <3>4. AcceptedIsExact'
      BY <2>3 DEF LoaderTypeOK, Progress, Stamps, AcceptedIsExact, File, SkipInstalled, IsInstalled, Go, files
    <3> QED BY <3>1, <3>2, <3>3, <3>4
  <2>4. CASE InstallBegin
    <3>1. LoaderTypeOK'
      BY <2>4 DEF LoaderTypeOK, File, Marker, Steps, InstallBegin, Fail, Go
    <3>2. Progress'
      BY <2>4 DEF LoaderTypeOK, Progress, File, InstallBegin, Fail, Go
    <3>3. Stamps'
      BY <2>4 DEF LoaderTypeOK, Progress, Stamps, File, Marker, InstallBegin, Fail, Go
    <3>4. AcceptedIsExact'
      BY <2>4 DEF LoaderTypeOK, Progress, Stamps, AcceptedIsExact, File, InstallBegin, Fail, Go
    <3> QED BY <3>1, <3>2, <3>3, <3>4
  <2>5. CASE Fetch
    <3> DEFINE f == [content |-> spec, exec |-> FALSE, stamp |-> writes + 1]
    <3>a. spec \in Specs /\ writes \in Nat
      BY <2>5 DEF LoaderTypeOK, Progress, Fetch
    <3>c. f # None
      <4>1. f \in [content : Specs, exec : BOOLEAN, stamp : Nat]
        BY <3>a
      <4> QED BY Zenon, <4>1, NoneIsNoFile
    <3>b. writes < MaxWrites => f \in File
      BY <3>a DEF File
    <3>e. \/ writes < MaxWrites /\ staged' = f /\ writes' = writes + 1
          \/ UNCHANGED <<staged, writes>>
      BY <2>5 DEF Fetch
    <3>f. writes \in 0..MaxWrites /\ staged \in File \cup {None}
      BY DEF LoaderTypeOK
    <3> HIDE DEF f
    <3>d. staged' \in File \cup {None} /\ writes' \in 0..MaxWrites
      BY <3>b, <3>e, <3>f
    <3> USE DEF f
    <3>1. LoaderTypeOK'
      BY <2>5, <3>d DEF LoaderTypeOK, Steps, Fetch, Fail, Go
    <3>2. Progress'
      BY <2>5, <3>a, <3>c DEF LoaderTypeOK, Progress, Fetch, Fail, Go
    <3>3. Stamps'
      BY <2>5 DEF LoaderTypeOK, Progress, Stamps, File, Marker, Fetch, Fail, Go
    <3>4. AcceptedIsExact'
      BY <2>5 DEF LoaderTypeOK, Progress, Stamps, AcceptedIsExact, File, Fetch, Fail, Go
    <3> QED BY <3>1, <3>2, <3>3, <3>4
  <2>6. CASE Chmod
    <3>a. staged \in File /\ spec \in Specs
      BY <2>6 DEF LoaderTypeOK, Progress, Chmod
    <3> DEFINE f == [staged EXCEPT !.exec = TRUE]
    <3>b. /\ f \in File /\ f.exec
          /\ f.content = staged.content /\ f.stamp = staged.stamp
      BY <3>a DEF File
    <3>c. f # None
      <4>1. f \in [content : Specs, exec : BOOLEAN, stamp : Nat]
        BY <3>b DEF File
      <4> QED BY Zenon, <4>1, NoneIsNoFile
    <3>1. LoaderTypeOK'
      BY <2>6, <3>b DEF LoaderTypeOK, Steps, Chmod, FailInstall, Fail, Go
    <3>2. Progress'
      BY <2>6, <3>b, <3>c DEF LoaderTypeOK, Progress, Chmod, FailInstall, Fail, Go
    <3>3. Stamps'
      BY <2>6 DEF LoaderTypeOK, Progress, Stamps, File, Marker, Chmod, FailInstall, Fail, Go
    <3>4. AcceptedIsExact'
      BY <2>6 DEF LoaderTypeOK, Progress, Stamps, AcceptedIsExact, File, Chmod, FailInstall, Fail, Go
    <3> QED BY <3>1, <3>2, <3>3, <3>4
  <2>7. CASE ReadCoreVersion
    <3>1. LoaderTypeOK'
      BY <2>7 DEF LoaderTypeOK, File, Marker, Steps, ReadCoreVersion, FailInstall, Fail, Go
    <3>2. Progress'
      BY <2>7 DEF LoaderTypeOK, Progress, File, ReadCoreVersion, FailInstall, Fail, Go
    <3>3. Stamps'
      BY <2>7 DEF LoaderTypeOK, Progress, Stamps, File, Marker, ReadCoreVersion, FailInstall, Fail, Go
    <3>4. AcceptedIsExact'
      BY <2>7 DEF LoaderTypeOK, Progress, Stamps, AcceptedIsExact, File, ReadCoreVersion, FailInstall, Fail, Go
    <3> QED BY <3>1, <3>2, <3>3, <3>4
  <2>8. CASE Rename
    <3>1. LoaderTypeOK'
      BY <2>8 DEF LoaderTypeOK, File, Marker, Steps, Rename, FailInstall, Fail, Go
    <3>2. Progress'
      BY <2>8 DEF LoaderTypeOK, Progress, File, Rename, FailInstall, Fail, Go
    <3>3. Stamps'
      BY <2>8 DEF LoaderTypeOK, Progress, Stamps, File, Marker, Rename, FailInstall, Fail, Go
    <3>4. AcceptedIsExact'
      BY <2>8 DEF LoaderTypeOK, Progress, Stamps, AcceptedIsExact, File, Rename, FailInstall, Fail, Go
    <3> QED BY <3>1, <3>2, <3>3, <3>4
  <2>9. CASE PointLinkAtCustom
    <3>1. LoaderTypeOK'
      BY <2>9 DEF LoaderTypeOK, File, Marker, Steps, PointLinkAtCustom, Fail, Go
    <3>2. Progress'
      BY <2>9 DEF LoaderTypeOK, Progress, File, PointLinkAtCustom, Fail, Go
    <3>3. Stamps'
      BY <2>9 DEF LoaderTypeOK, Progress, Stamps, File, Marker, PointLinkAtCustom, Fail, Go
    <3>4. AcceptedIsExact'
      BY <2>9 DEF LoaderTypeOK, Progress, Stamps, AcceptedIsExact, File, PointLinkAtCustom, Fail, Go
    <3> QED BY <3>1, <3>2, <3>3, <3>4
  <2>10. CASE WriteMarker
    <3>a. custom \in File /\ spec \in Specs
      BY <2>10 DEF LoaderTypeOK, Progress, WriteMarker
    <3>b. [spec |-> spec, stamp |-> custom.stamp] \in Marker
      BY <3>a DEF File, Marker
    <3>1. LoaderTypeOK'
      BY <2>10, <3>b DEF LoaderTypeOK, Steps, WriteMarker, Fail, Go
    <3>2. Progress'
      BY <2>10 DEF LoaderTypeOK, Progress, File, WriteMarker, Fail, Go
    <3>3. Stamps'
      BY <2>10 DEF LoaderTypeOK, Progress, Stamps, File, Marker, WriteMarker, Fail, Go
    <3>4. AcceptedIsExact'
      BY <2>10 DEF LoaderTypeOK, Progress, Stamps, AcceptedIsExact, File, WriteMarker, Fail, Go
    <3> QED BY <3>1, <3>2, <3>3, <3>4
  <2>11. CASE RestoreNothing
    <3>1. LoaderTypeOK'
      BY <2>11 DEF LoaderTypeOK, File, Marker, Steps, RestoreNothing, Go, files
    <3>2. Progress'
      BY <2>11 DEF LoaderTypeOK, Progress, File, RestoreNothing, Go, files
    <3>3. Stamps'
      BY <2>11 DEF LoaderTypeOK, Progress, Stamps, File, Marker, RestoreNothing, Go, files
    <3>4. AcceptedIsExact'
      BY <2>11 DEF LoaderTypeOK, Progress, Stamps, AcceptedIsExact, File, RestoreNothing, Go, files
    <3> QED BY <3>1, <3>2, <3>3, <3>4
  <2>12. CASE RestoreStock
    <3>1. LoaderTypeOK'
      BY <2>12 DEF LoaderTypeOK, File, Marker, Steps, RestoreStock, Fail, Go
    <3>2. Progress'
      BY <2>12 DEF LoaderTypeOK, Progress, File, RestoreStock, Fail, Go
    <3>3. Stamps'
      BY <2>12 DEF LoaderTypeOK, Progress, Stamps, File, Marker, RestoreStock, Fail, Go
    <3>4. AcceptedIsExact'
      BY <2>12 DEF LoaderTypeOK, Progress, Stamps, AcceptedIsExact, File, RestoreStock, Fail, Go
    <3> QED BY <3>1, <3>2, <3>3, <3>4
  <2>13. CASE UnlinkMarker
    <3>1. LoaderTypeOK'
      BY <2>13 DEF LoaderTypeOK, File, Marker, Steps, UnlinkMarker, Go
    <3>2. Progress'
      BY <2>13 DEF LoaderTypeOK, Progress, File, UnlinkMarker, Go
    <3>3. Stamps'
      BY <2>13 DEF LoaderTypeOK, Progress, Stamps, File, Marker, UnlinkMarker, Go
    <3>4. AcceptedIsExact'
      BY <2>13 DEF LoaderTypeOK, Progress, Stamps, AcceptedIsExact, File, UnlinkMarker, Go
    <3> QED BY <3>1, <3>2, <3>3, <3>4
  <2>14. CASE UnlinkCustom
    <3>1. LoaderTypeOK'
      BY <2>14 DEF LoaderTypeOK, File, Marker, Steps, UnlinkCustom, Go
    <3>2. Progress'
      BY <2>14 DEF LoaderTypeOK, Progress, File, UnlinkCustom, Go
    <3>3. Stamps'
      BY <2>14 DEF LoaderTypeOK, Progress, Stamps, File, Marker, UnlinkCustom, Go
    <3>4. AcceptedIsExact'
      BY <2>14 DEF LoaderTypeOK, Progress, Stamps, AcceptedIsExact, File, UnlinkCustom, Go
    <3> QED BY <3>1, <3>2, <3>3, <3>4
  <2>15. CASE Return
    <3>1. LoaderTypeOK'
      BY <2>15 DEF LoaderTypeOK, File, Marker, Steps, Return, files
    <3>2. Progress'
      BY <2>15 DEF LoaderTypeOK, Progress, File, Return, files
    <3>3. Stamps'
      BY <2>15 DEF LoaderTypeOK, Progress, Stamps, File, Marker, Return, files
    <3>4. AcceptedIsExact'
      BY <2>15 DEF LoaderTypeOK, Progress, Stamps, AcceptedIsExact, File, Return, files
    <3> QED BY <3>1, <3>2, <3>3, <3>4
  <2>16. CASE LoaderCrash
    <3>1. LoaderTypeOK'
      BY <2>16 DEF LoaderTypeOK, File, Marker, Steps, LoaderCrash, files
    <3>2. Progress'
      BY <2>16 DEF LoaderTypeOK, Progress, File, LoaderCrash, files
    <3>3. Stamps'
      BY <2>16 DEF LoaderTypeOK, Progress, Stamps, File, Marker, LoaderCrash, files
    <3>4. AcceptedIsExact'
      BY <2>16 DEF LoaderTypeOK, Progress, Stamps, AcceptedIsExact, File, LoaderCrash, files
    <3> QED BY <3>1, <3>2, <3>3, <3>4
  <2>17. CASE Tamper
    <3>a. custom \in File
      BY <2>17 DEF LoaderTypeOK, Tamper
    <3>b. [custom EXCEPT !.exec = FALSE] \in File
      BY <3>a DEF File
    <3>c. writes < MaxWrites =>
            \A c \in Specs : [content |-> c, exec |-> TRUE, stamp |-> writes + 1] \in File
      <4>1. writes \in Nat
        BY DEF LoaderTypeOK
      <4> QED BY <4>1 DEF File
    <3>d. writes \in Nat /\ tampers \in Nat
      BY DEF LoaderTypeOK
    <3>e. custom' \in File \cup {None}
      BY <2>17, <3>b, <3>c DEF Tamper
    <3>f. writes' \in 0..MaxWrites /\ tampers' \in 0..MaxTampers
      BY <2>17, <3>d DEF Tamper, LoaderTypeOK
    <3>1. LoaderTypeOK'
      BY <2>17, <3>e, <3>f DEF LoaderTypeOK, Tamper
    <3>2. Progress'
      BY <2>17 DEF LoaderTypeOK, Progress, File, Tamper
    <3>3. Stamps'
      BY <2>17 DEF LoaderTypeOK, Progress, Stamps, File, Marker, Tamper
    <3>4. AcceptedIsExact'
      BY <2>17 DEF LoaderTypeOK, Progress, Stamps, AcceptedIsExact, File, Tamper
    <3> QED BY <3>1, <3>2, <3>3, <3>4
  <2>18. CASE UNCHANGED loaderVars
    BY <2>18 DEF loaderVars, files, LoaderTypeOK, Progress, Stamps, AcceptedIsExact
  <2> QED BY <2>1, <2>2, <2>3, <2>4, <2>5, <2>6, <2>7, <2>8, <2>9, <2>10, <2>11, <2>12, <2>13, <2>14, <2>15, <2>16, <2>17, <2>18 DEF LoaderNext
<1> QED BY <1>1, <1>2, PTL DEF LoaderSpec

\* Every reachable state is well typed.
THEOREM LoaderTypeCorrect == LoaderSpec => []LoaderTypeOK
<1>1. CoreInv => LoaderTypeOK
  BY DEF CoreInv
<1> QED BY <1>1, CoreInvariant, PTL

\* A prepare that reports no failure has the requested core in place, whatever
\* crashes and changes by hand came before.
THEOREM AcceptedIsExactHolds == LoaderSpec => []AcceptedIsExact
<1>1. CoreInv => AcceptedIsExact
  BY DEF CoreInv
<1> QED BY <1>1, CoreInvariant, PTL

\* While nobody else changes xray-custom, rw-core leads to a core that runs at
\* every moment, those inside an install and after a crash included.
THEOREM ActiveRunsHolds == LoaderSpec => []ActiveRuns
<1>1. LoaderInit => ActiveRuns
  BY SpecsDistinct DEF LoaderInit, ActiveRuns
<1>2. CoreInv /\ ActiveRuns /\ [LoaderNext]_loaderVars => ActiveRuns'
  <2> SUFFICES ASSUME CoreInv, ActiveRuns, [LoaderNext]_loaderVars PROVE ActiveRuns'
    OBVIOUS
  <2> USE DEF CoreInv, ActiveRuns
  <2>1. ASSUME NEW s \in Specs \cup {Invalid, Stock}, Prepare(s) PROVE ActiveRuns'
    BY <2>1 DEF Prepare, files
  <2>2. CASE SkipInvalid
    BY <2>2 DEF SkipInvalid, Fail, files
  <2>3. CASE SkipInstalled
    BY <2>3 DEF SkipInstalled, Go, files
  <2>4. CASE InstallBegin
    BY <2>4 DEF InstallBegin, Fail, Go
  <2>5. CASE Fetch
    BY <2>5 DEF Fetch, Fail, Go
  <2>6. CASE Chmod
    BY <2>6 DEF Chmod, FailInstall, Fail, Go
  <2>7. CASE ReadCoreVersion
    BY <2>7 DEF ReadCoreVersion, FailInstall, Fail, Go
  <2>8. CASE Rename
    BY <2>8 DEF Rename, FailInstall, Fail, Go, Progress
  <2>9. CASE PointLinkAtCustom
    BY <2>9 DEF PointLinkAtCustom, Fail, Go, Progress
  <2>10. CASE WriteMarker
    BY <2>10 DEF WriteMarker, Fail, Go
  <2>11. CASE RestoreNothing
    BY <2>11 DEF RestoreNothing, Go, files
  <2>12. CASE RestoreStock
    BY <2>12 DEF RestoreStock, Fail, Go
  <2>13. CASE UnlinkMarker
    BY <2>13 DEF UnlinkMarker, Go
  <2>14. CASE UnlinkCustom
    BY <2>14 DEF UnlinkCustom, Go, Progress
  <2>15. CASE Return
    BY <2>15 DEF Return, files
  <2>16. CASE LoaderCrash
    BY <2>16 DEF LoaderCrash, files
  <2>17. CASE Tamper
    BY <2>17 DEF Tamper, LoaderTypeOK
  <2>18. CASE UNCHANGED loaderVars
    BY <2>18 DEF loaderVars, files
  <2> QED BY <2>1, <2>2, <2>3, <2>4, <2>5, <2>6, <2>7, <2>8, <2>9, <2>10, <2>11, <2>12, <2>13, <2>14, <2>15, <2>16, <2>17, <2>18 DEF LoaderNext
<1> QED BY <1>1, <1>2, CoreInvariant, PTL DEF LoaderSpec

\* The loader implements CoreSwitch: rw-core changes only into the requested
\* core and in one step, or keeps the previous one.
THEOREM ImplementsSwitchHolds == LoaderSpec => ImplementsSwitch
<1> DEFINE wanted == IF spec = Invalid THEN None ELSE spec
           touched == tampers # 0
           Cores  == Specs \cup {Stock, Regular, None}
<1> USE SpecsDistinct
<1>1. LoaderInit => Switching!Init
  BY DEF LoaderInit, Switching!Init, Core
<1>2. CoreInv /\ CoreInv' /\ [LoaderNext]_loaderVars => [Switching!Next]_<<Core, wanted, touched>>
  <2> SUFFICES ASSUME CoreInv, CoreInv', [LoaderNext]_loaderVars
               PROVE  \/ Switching!Ask \/ Switching!Switch \/ Switching!Touch
                      \/ UNCHANGED <<Core, wanted, touched>>
    BY DEF Switching!Next
  <2> USE DEF CoreInv, Switching!Ask, Switching!Switch
  <2>0. wanted' \in Cores
    BY DEF LoaderTypeOK
  <2>a. UNCHANGED <<active, custom>> => UNCHANGED Core
    BY DEF Core
  <2>1. ASSUME NEW s \in Specs \cup {Invalid, Stock}, Prepare(s)
       PROVE  Switching!Ask
    BY <2>1, <2>0, <2>a DEF Prepare, files
  <2>2. CASE SkipInvalid
    BY <2>2, <2>a DEF SkipInvalid, Fail, files
  <2>3. CASE SkipInstalled
    BY <2>3, <2>a DEF SkipInstalled, Go, files
  <2>4. CASE InstallBegin
    BY <2>4, <2>a DEF InstallBegin, Fail, Go
  <2>5. CASE Fetch
    BY <2>5, <2>a DEF Fetch, Fail, Go
  <2>6. CASE Chmod
    BY <2>6, <2>a DEF Chmod, FailInstall, Fail, Go
  <2>7. CASE ReadCoreVersion
    BY <2>7, <2>a DEF ReadCoreVersion, FailInstall, Fail, Go
  <2>8. CASE Rename
    BY <2>8 DEF Rename, FailInstall, Fail, Go, Progress, Core, LoaderTypeOK, File
  <2>9. CASE PointLinkAtCustom
    BY <2>9 DEF PointLinkAtCustom, Fail, Go, Progress, Core, LoaderTypeOK, File
  <2>10. CASE WriteMarker
    BY <2>10, <2>a DEF WriteMarker, Fail, Go
  <2>11. CASE RestoreNothing
    BY <2>11, <2>a DEF RestoreNothing, Go, files
  <2>12. CASE RestoreStock
    BY <2>12 DEF RestoreStock, Fail, Go, Progress, Core, LoaderTypeOK, File
  <2>13. CASE UnlinkMarker
    BY <2>13, <2>a DEF UnlinkMarker, Go
  <2>14. CASE UnlinkCustom
    BY <2>14 DEF UnlinkCustom, Go, Progress, Core, LoaderTypeOK, File
  <2>15. CASE Return
    BY <2>15, <2>0, <2>a DEF Return, files
  <2>16. CASE LoaderCrash
    BY <2>16, <2>0, <2>a DEF LoaderCrash, files
  <2>17. CASE Tamper
    <3>1. touched' = TRUE
      BY <2>17 DEF Tamper, LoaderTypeOK
    <3>2. Core' \in Cores
      BY DEF Core, LoaderTypeOK, File
    <3> QED BY <2>0, <3>1, <3>2 DEF Switching!Touch
  <2>18. CASE UNCHANGED loaderVars
    BY <2>18, <2>a DEF loaderVars, files
  <2> QED BY <2>1, <2>2, <2>3, <2>4, <2>5, <2>6, <2>7, <2>8, <2>9, <2>10, <2>11, <2>12, <2>13, <2>14, <2>15, <2>16, <2>17, <2>18 DEF LoaderNext
<1> QED BY <1>1, <1>2, CoreInvariant, PTL DEF LoaderSpec, ImplementsSwitch, Switching!Spec

-----------------------------------------------------------------------------
(* The five together, as MCFiles explores them.                            *)

\* A part that is not chosen rests, so what MCFiles does is what the modules do.  The
\* downloads of the geodata and those of the part "download" are the same variables.
LEMMA PartsOfFiles == FilesSpec => LoaderSpec /\ AsnSpec /\ LogSpec
<1>1. FilesInit => LoaderInit /\ AsnInit /\ LogInit
  BY DEF FilesInit
<1>2. [FilesNext]_everything => [LoaderNext]_loaderVars /\ [AsnNext]_asnVars /\ [LogNext]_logVars
  BY DEF FilesNext, everything
<1> QED BY <1>1, <1>2, PTL DEF FilesSpec, LoaderSpec, AsnSpec, LogSpec

\* The loader of geodata, at work or at rest beside a download.
Resting == main = [pc |-> "idle", next |-> 1] /\ work = [p \in Procs |-> Off] /\ cancelled = FALSE
ByPart == DownloadInv /\ IF part = "geodata" THEN GeoInv ELSE Resting

LEMMA ByPartHolds == FilesSpec => []ByPart
<1>1. FilesInit => ByPart
  BY GeodataInitInv, GeoParts DEF FilesInit, GeodataInit, ByPart, Resting
<1>2. ASSUME ByPart, [FilesNext]_everything PROVE ByPart'
  <2>1. part' = part
    BY <1>2 DEF FilesNext, everything
  <2>2. CASE part = "geodata"
    <3>1. [GeodataNext]_geodataVars
      BY <1>2, <2>2 DEF FilesNext, everything
    <3>2. GeoInv'
      BY <1>2, <2>2, <3>1, GeodataStep DEF ByPart
    <3>3. DownloadInv'
      BY <3>2 DEF GeoInv
    <3> QED BY <2>1, <2>2, <3>2, <3>3 DEF ByPart
  <2>3. CASE part # "geodata"
    <3>1. [DownloadNext]_<<body, tmp, path, dl>> /\ UNCHANGED <<main, work, cancelled>>
      BY <1>2, <2>3 DEF FilesNext, everything, geodataVars
    <3>2. DownloadInv'
      BY <1>2, <3>1, DownloadKeeps DEF ByPart
    <3>3. Resting'
      BY <1>2, <2>3, <3>1 DEF ByPart, Resting
    <3> QED BY <2>1, <2>3, <3>2, <3>3 DEF ByPart
  <2> QED BY <2>2, <2>3
<1> QED BY <1>1, <1>2, PTL DEF FilesSpec

\* Whatever part is chosen, every state of the files, of those who write them and of
\* those who read them has its type, for all values of the constants.
THEOREM FilesTypeCorrect == FilesSpec => []FilesTypeOK
<1>1. ByPart => GeodataTypeOK
  <2>1. GeoInv => GeodataTypeOK
    BY GeoIsTyped
  <2>2. DownloadInv /\ Resting => GeodataTypeOK
    <3> SUFFICES ASSUME DownloadInv, Resting PROVE GeodataTypeOK
      OBVIOUS
    <3>1. DownloadTypeOK
      BY DEF DownloadInv, TypeInv
    <3>2. main \in [pc : {"idle", "enqueue", "wait", "done"}, next : 1..(Len(Groups) + 1)]
      <4>1. Len(Groups) \in Nat
        BY GroupsFacts
      <4>2. 1 \in 1..(Len(Groups) + 1)
        BY <4>1
      <4> QED BY <4>2 DEF Resting
    <3>3. \A p \in Procs : work[p].pc = "off"
      BY DEF Resting, Off
    <3> QED BY <3>1, <3>2, <3>3 DEF Resting, GeodataTypeOK
  <2> QED BY <2>1, <2>2 DEF ByPart
<1> QED BY <1>1, PartsOfFiles, ByPartHolds, LoaderTypeCorrect, AsnTypeCorrect, LogTypeCorrect, PTL DEF FilesTypeOK
=============================================================================
