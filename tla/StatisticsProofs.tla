-------------------------- MODULE StatisticsProofs --------------------------
(***************************************************************************)
(* What the agent and the Panel tell each other, proved one component at a *)
(* time: geochecks for any number of requests and any limits; the hash of  *)
(* a set for all strings and every width; the rates of an interface for    *)
(* every counter width; the addresses of the users for any number of       *)
(* workers; the traffic for any number of overlapping requests.            *)
(***************************************************************************)
EXTENDS MCStatistics, SubsequenceProofs,
        SequenceTheorems, TLAPS

-----------------------------------------------------------------------------
(* Geocheck.                                                               *)

\* The handlers between the claim and the release.
Claimed(h) == request[h].pc \in {"start", "wait", "release"}

\* The flag is theirs, and a program is run only by the one that waits for it.
OneClaim ==
  /\ \A h \in Callers : Claimed(h) => running
  /\ \A g, h \in Callers : Claimed(g) /\ Claimed(h) => g = h
  /\ \A h \in Callers : child[h] # "none" => request[h].pc = "wait"

\* A buffer that is not full has all that was written.
Kept(h, o) ==
  /\ buffer[h][o].kept + buffer[h][o].remaining = Limits[o]
  /\ ~buffer[h][o].full => buffer[h][o].kept = wrote[h][o]

Buffers ==
  \A h \in Callers :
    /\ request[h].pc \in {"claim", "start"} => wrote[h] = NoOutput
    /\ request[h].pc = "wait" => \A o \in Outputs : Kept(h, o)
    /\ \A o \in Outputs : buffer[h][o].kept + buffer[h][o].remaining = Limits[o]

\* The types the proofs need.
GeocheckTypes ==
  /\ running \in BOOLEAN
  /\ request \in [Callers -> [pc : {"idle", "claim", "start", "wait", "release", "reply"},
                               answer : {"none", "busy", "failed", "report"}]]
  /\ child \in [Callers -> {"none", "runs", "succeeded", "failed", "killed"}]
  /\ wrote \in [Callers -> [Outputs -> 0..MaxOutput]]
  /\ buffer \in [Callers -> [Outputs -> [kept : Nat, remaining : Nat, full : BOOLEAN]]]

\* A report that is being answered is whole.
WholeReports ==
  \A h \in Callers :
    request[h].answer = "report" =>
      /\ request[h].pc \in {"release", "reply"}
      /\ \A o \in Outputs : buffer[h][o].kept = wrote[h][o] /\ wrote[h][o] <= Limits[o]

\* The inductive invariant.
GeocheckInv == GeocheckTypes /\ OneClaim /\ Buffers /\ WholeReports

\* A write keeps a buffer one of its limit.
LEMMA WriteKeeps ==
  ASSUME NEW b \in [kept : Nat, remaining : Nat, full : BOOLEAN], NEW n \in Nat
  PROVE  /\ Write(b, n) \in [kept : Nat, remaining : Nat, full : BOOLEAN]
         /\ Write(b, n).kept + Write(b, n).remaining = b.kept + b.remaining
         /\ ~Write(b, n).full => ~b.full /\ Write(b, n).kept = b.kept + n
<1>1. CASE b.full
  BY <1>1 DEF Write
<1>2. CASE ~b.full /\ n > b.remaining
  BY <1>2 DEF Write
<1>3. CASE ~b.full /\ ~(n > b.remaining)
  <2>1. Write(b, n) = [kept |-> b.kept + n, remaining |-> b.remaining - n, full |-> b.full]
    BY <1>3 DEF Write
  <2>2. b.remaining - n \in Nat /\ b.kept + n \in Nat
    BY <1>3
  <2> QED BY <1>3, <2>1, <2>2
<1> QED BY <1>1, <1>2, <1>3

\* A new buffer has room for its limit.
LEMMA NewBuffers ==
  /\ NoOutput \in [Outputs -> 0..MaxOutput]
  /\ [o \in Outputs |-> NewBuffer(o)] \in [Outputs -> [kept : Nat, remaining : Nat, full : BOOLEAN]]
  /\ \A o \in Outputs : NewBuffer(o).kept + NewBuffer(o).remaining = Limits[o]
<1>1. \A o \in Outputs : NewBuffer(o) \in [kept : Nat, remaining : Nat, full : BOOLEAN]
  BY LimitsAssumption DEF NewBuffer, Outputs
<1>2. \A o \in Outputs : NewBuffer(o).kept + NewBuffer(o).remaining = Limits[o]
  BY LimitsAssumption DEF NewBuffer, Outputs
<1> QED BY <1>1, <1>2, LimitsAssumption DEF NoOutput

\* Every step of a handler and of a program keeps the inductive invariant.
THEOREM GeocheckInvariant == GeocheckSpec => []GeocheckInv
<1>1. GeocheckInit => GeocheckInv
  <2> SUFFICES ASSUME GeocheckInit PROVE GeocheckInv
    OBVIOUS
  <2>1. GeocheckTypes
    BY NewBuffers DEF GeocheckInit, GeocheckTypes
  <2> QED BY <2>1, NewBuffers DEF GeocheckInit, GeocheckInv, OneClaim, Claimed, Buffers, WholeReports
<1>2. GeocheckInv /\ [GeocheckNext]_geocheckVars => GeocheckInv'
  <2> SUFFICES ASSUME GeocheckInv, [GeocheckNext]_geocheckVars PROVE GeocheckInv'
    OBVIOUS
  <2> USE DEF GeocheckInv
  <2>1. ASSUME NEW h \in Callers, TakeRequest(h) PROVE GeocheckInv'
    <3>1. GeocheckTypes'
      BY <2>1, NewBuffers DEF GeocheckTypes, TakeRequest, Goto
    <3>2. OneClaim'
      BY <2>1 DEF GeocheckTypes, OneClaim, Claimed, TakeRequest, Goto
    <3>3. Buffers'
      BY <2>1 DEF GeocheckTypes, Buffers, Kept, TakeRequest, Goto
    <3>4. WholeReports'
      BY <2>1 DEF GeocheckTypes, WholeReports, TakeRequest, Goto
    <3> QED BY <3>1, <3>2, <3>3, <3>4
  <2>2. ASSUME NEW h \in Callers, Claim(h) PROVE GeocheckInv'
    <3>1. request[h].pc = "claim" /\ UNCHANGED <<child, buffer, wrote>>
      BY <2>2 DEF Claim
    <3>2. CASE running
      <4>1. /\ request' = [request EXCEPT ![h] = [pc |-> "reply", answer |-> "busy"]]
            /\ UNCHANGED running
        BY Zenon, <2>2, <3>2 DEF Claim, Goto
      <4>2. GeocheckTypes'
        BY <3>1, <4>1 DEF GeocheckTypes
      <4>3. OneClaim'
        BY <3>1, <4>1 DEF GeocheckTypes, OneClaim, Claimed
      <4>4. Buffers' /\ WholeReports'
        BY <3>1, <4>1 DEF GeocheckTypes, Buffers, WholeReports, Kept
      <4> QED BY <4>2, <4>3, <4>4
    <3>3. CASE ~running
      <4>1. /\ request' = [request EXCEPT ![h] = [pc |-> "start", answer |-> "none"]]
            /\ running' = TRUE
        BY Zenon, <2>2, <3>3 DEF Claim, Goto
      <4>2. GeocheckTypes'
        BY <3>1, <4>1 DEF GeocheckTypes
      <4>3. \A g \in Callers : ~Claimed(g)
        BY Zenon, <3>3 DEF OneClaim
      <4>4. OneClaim'
        BY <3>1, <4>1, <4>3 DEF GeocheckTypes, OneClaim, Claimed
      <4>5. Buffers' /\ WholeReports'
        BY <3>1, <4>1 DEF GeocheckTypes, Buffers, WholeReports, Kept
      <4> QED BY <4>2, <4>4, <4>5
    <3> QED BY <3>2, <3>3
  <2>3. ASSUME NEW h \in Callers, Start(h) PROVE GeocheckInv'
    <3>1. GeocheckTypes'
      BY <2>3, NewBuffers DEF GeocheckTypes, Start, Goto
    <3>2. OneClaim'
      BY <2>3 DEF GeocheckTypes, OneClaim, Claimed, Start, Goto
    <3>3. Buffers'
      <4>1. \A o \in Outputs : Kept(h, o)'
        <5>1. ASSUME NEW o \in Outputs PROVE buffer'[h][o] = NewBuffer(o) /\ wrote'[h][o] = 0
          BY <2>3, <5>1 DEF GeocheckTypes, Buffers, Start, NoOutput
        <5> QED BY <5>1, LimitsAssumption DEF Kept, NewBuffer, Outputs
      <4>2. \A g \in Callers \ {h} :
              buffer'[g] = buffer[g] /\ request'[g] = request[g] /\ wrote'[g] = wrote[g]
        BY <2>3 DEF GeocheckTypes, Start, Goto
      <4>3. request'[h].pc = "wait"
        BY <2>3 DEF GeocheckTypes, Start, Goto
      <4> QED BY <4>1, <4>2, <4>3 DEF Buffers, Kept
    <3>4. WholeReports'
      BY <2>3 DEF GeocheckTypes, WholeReports, Start, Goto
    <3> QED BY <3>1, <3>2, <3>3, <3>4
  <2>4. ASSUME NEW h \in Callers, StartFails(h) PROVE GeocheckInv'
    <3>1. GeocheckTypes'
      BY <2>4 DEF GeocheckTypes, StartFails, Goto
    <3>2. OneClaim'
      BY <2>4 DEF GeocheckTypes, OneClaim, Claimed, StartFails, Goto
    <3>3. Buffers'
      BY <2>4 DEF GeocheckTypes, Buffers, Kept, StartFails, Goto
    <3>4. WholeReports'
      BY <2>4 DEF GeocheckTypes, WholeReports, StartFails, Goto
    <3> QED BY <3>1, <3>2, <3>3, <3>4
  <2>5. ASSUME NEW h \in Callers, NEW o \in Outputs, NEW n \in 1..MaxOutput, Output(h, o, n)
        PROVE GeocheckInv'
    <3>1. /\ n \in Nat /\ wrote[h][o] \in Nat
          /\ buffer[h][o] \in [kept : Nat, remaining : Nat, full : BOOLEAN]
      BY <2>5, LimitsAssumption DEF GeocheckTypes
    <3>2. wrote' = [wrote EXCEPT ![h] = [wrote[h] EXCEPT ![o] = wrote[h][o] + n]]
      BY <2>5 DEF Output
    <3>3. buffer' = [buffer EXCEPT ![h] = [buffer[h] EXCEPT ![o] = Write(buffer[h][o], n)]]
      BY <2>5 DEF Output
    <3>4. UNCHANGED <<running, request, child>> /\ wrote[h][o] + n <= MaxOutput /\ child[h] = "runs"
      BY <2>5 DEF Output
    <3>5. request[h].pc = "wait"
      BY <3>4 DEF OneClaim
    <3>6. GeocheckTypes'
      <4>1. wrote' \in [Callers -> [Outputs -> 0..MaxOutput]]
        BY <3>1, <3>2, <3>4, LimitsAssumption DEF GeocheckTypes
      <4>2. buffer' \in [Callers -> [Outputs -> [kept : Nat, remaining : Nat, full : BOOLEAN]]]
        BY <3>1, <3>3, WriteKeeps DEF GeocheckTypes
      <4> QED BY <3>4, <4>1, <4>2 DEF GeocheckTypes
    <3>7. OneClaim'
      BY <3>4 DEF OneClaim, Claimed
    <3>8. Buffers'
      <4>1. ASSUME NEW p \in Outputs PROVE Kept(h, p)'
        <5>1. CASE p = o
          <6>1. Kept(h, o)
            BY <3>5 DEF Buffers
          <6>2. buffer'[h][o] = Write(buffer[h][o], n) /\ wrote'[h][o] = wrote[h][o] + n
            BY <3>2, <3>3 DEF GeocheckTypes
          <6>3. PICK w : w = Write(buffer[h][o], n)
            OBVIOUS
          <6>4. /\ w.kept + w.remaining = buffer[h][o].kept + buffer[h][o].remaining
                /\ ~w.full => ~buffer[h][o].full /\ w.kept = buffer[h][o].kept + n
            BY <3>1, <6>3, WriteKeeps
          <6>5. buffer'[h][o] = w
            BY <6>2, <6>3
          <6> QED BY <5>1, <6>1, <6>2, <6>4, <6>5 DEF Kept
        <5>2. CASE p # o
          <6>1. buffer'[h][p] = buffer[h][p] /\ wrote'[h][p] = wrote[h][p]
            BY <3>2, <3>3, <5>2 DEF GeocheckTypes
          <6>2. Kept(h, p)
            BY <3>5 DEF Buffers
          <6> QED BY <6>1, <6>2 DEF Kept
        <5> QED BY <5>1, <5>2
      <4>2. \A g \in Callers \ {h} : buffer'[g] = buffer[g] /\ wrote'[g] = wrote[g]
        BY <3>2, <3>3 DEF GeocheckTypes
      <4> QED BY <3>4, <3>5, <4>1, <4>2 DEF Buffers, Kept
    <3>9. WholeReports'
      BY <3>2, <3>3, <3>4, <3>5 DEF GeocheckTypes, WholeReports
    <3> QED BY <3>6, <3>7, <3>8, <3>9
  <2>6. ASSUME NEW h \in Callers, Exit(h) \/ Kill(h) PROVE GeocheckInv'
    <3>1. GeocheckTypes'
      BY <2>6 DEF GeocheckTypes, Exit, Kill
    <3>2. OneClaim'
      BY <2>6 DEF GeocheckTypes, OneClaim, Claimed, Exit, Kill
    <3>3. Buffers' /\ WholeReports'
      BY <2>6 DEF GeocheckTypes, Buffers, WholeReports, Kept, Exit, Kill
    <3> QED BY <3>1, <3>2, <3>3
  <2>7. ASSUME NEW h \in Callers, Wait(h) PROVE GeocheckInv'
    <3>1. PICK answer \in IF Accepted(h) THEN {"report", "failed"} ELSE {"failed"} :
            request' = [request EXCEPT ![h] = [pc |-> "release", answer |-> answer]]
      BY <2>7 DEF Wait, Goto
    <3>2. /\ child' = [child EXCEPT ![h] = "none"] /\ UNCHANGED <<running, buffer, wrote>>
          /\ request[h].pc = "wait"
      BY <2>7 DEF Wait
    <3>3. GeocheckTypes'
      BY <3>1, <3>2 DEF GeocheckTypes
    <3>4. OneClaim'
      BY <3>1, <3>2 DEF GeocheckTypes, OneClaim, Claimed
    <3>5. Buffers'
      BY <3>1, <3>2 DEF GeocheckTypes, Buffers, Kept
    <3>6. WholeReports'
      <4>1. ASSUME answer = "report", NEW o \in Outputs
            PROVE  buffer[h][o].kept = wrote[h][o] /\ wrote[h][o] <= Limits[o]
        <5>1. ~buffer[h][o].full
          BY <3>1, <4>1 DEF Accepted
        <5>2. Kept(h, o)
          BY <3>2 DEF Buffers
        <5>3. buffer[h][o].kept \in Nat /\ buffer[h][o].remaining \in Nat /\ Limits[o] \in Nat
          BY LimitsAssumption DEF GeocheckTypes, Outputs
        <5> QED BY <5>1, <5>2, <5>3 DEF Kept
      <4> QED BY <3>1, <3>2, <4>1 DEF GeocheckTypes, WholeReports
    <3> QED BY <3>3, <3>4, <3>5, <3>6
  <2>8. ASSUME NEW h \in Callers, Release(h) PROVE GeocheckInv'
    <3>1. GeocheckTypes'
      BY <2>8 DEF GeocheckTypes, Release, Goto
    <3>2. OneClaim'
      BY <2>8 DEF GeocheckTypes, OneClaim, Claimed, Release, Goto
    <3>3. Buffers' /\ WholeReports'
      BY <2>8 DEF GeocheckTypes, Buffers, WholeReports, Kept, Release, Goto
    <3> QED BY <3>1, <3>2, <3>3
  <2>9. ASSUME NEW h \in Callers, Reply(h) PROVE GeocheckInv'
    <3>1. GeocheckTypes'
      BY <2>9, NewBuffers DEF GeocheckTypes, Reply, Goto
    <3>2. OneClaim'
      BY <2>9 DEF GeocheckTypes, OneClaim, Claimed, Reply, Goto
    <3>3. Buffers'
      BY <2>9, NewBuffers DEF GeocheckTypes, Buffers, Kept, Reply, Goto
    <3>4. WholeReports'
      BY <2>9 DEF GeocheckTypes, WholeReports, Reply, Goto
    <3> QED BY <3>1, <3>2, <3>3, <3>4
  <2>10. CASE UNCHANGED geocheckVars
    BY <2>10 DEF geocheckVars, GeocheckTypes, OneClaim, Claimed, Buffers, Kept, WholeReports
  <2> QED BY <2>1, <2>2, <2>3, <2>4, <2>5, <2>6, <2>7, <2>8, <2>9, <2>10 DEF GeocheckNext, Handle
<1> QED BY <1>1, <1>2, PTL DEF GeocheckSpec

\* The requests, their programs and their buffers have their types: no buffer exceeds its
\* limit.
THEOREM GeocheckTypeCorrect == GeocheckSpec => []GeocheckTypeOK
<1>1. GeocheckInv => GeocheckTypeOK
  <2> SUFFICES ASSUME GeocheckInv, NEW h \in Callers, NEW o \in Outputs
               PROVE  buffer[h][o] \in [kept : 0..Limits[o], remaining : 0..Limits[o], full : BOOLEAN]
    BY DEF GeocheckInv, GeocheckTypes, GeocheckTypeOK
  <2>1. /\ buffer[h][o] \in [kept : Nat, remaining : Nat, full : BOOLEAN]
        /\ buffer[h][o].kept + buffer[h][o].remaining = Limits[o]
    BY DEF GeocheckInv, GeocheckTypes, Buffers
  <2> QED BY <2>1
<1> QED BY <1>1, GeocheckInvariant, PTL

\* At most one program runs, whatever the number of requests.
THEOREM OneRunHolds == GeocheckSpec => []OneRun
<1>1. GeocheckInv => OneRun
  BY DEF GeocheckInv, OneClaim, Claimed, OneRun
<1> QED BY <1>1, GeocheckInvariant, PTL

\* A report is never made of an output that was cut, whatever the limits.
THEOREM ReportIsWholeHolds == GeocheckSpec => []ReportIsWhole
<1>1. GeocheckInv => ReportIsWhole
  BY DEF GeocheckInv, WholeReports, ReportIsWhole
<1> QED BY <1>1, GeocheckInvariant, PTL

-----------------------------------------------------------------------------
(* HashedSet: the incremental hash is a function of the members alone.     *)

\* The hash a set of members stands for.
Digest(S) == {b \in AllBits : Cardinality(Carriers(S, b)) % 2 = 1}

\* The inductive invariant.
HashInv ==
  /\ members \in [Sides -> SUBSET Values]
  /\ hash \in [Sides -> SUBSET AllBits]
  /\ \A s \in Sides : hash[s] = Digest(members[s])

\* The hash of a string has only bits below the width.
LEMMA BitsInRange == \A value \in Values : djb2Dual(value) \subseteq AllBits
<1> SUFFICES ASSUME NEW value \in Values, NEW b \in djb2Dual(value) PROVE b \in AllBits
  OBVIOUS
<1>1. Width \in Nat \ {0}
  BY WidthPositive
<1>2. CASE b \in Bits(High(value))
  BY <1>1, <1>2 DEF Bits, AllBits
<1>3. CASE b \in {Width + c : c \in Bits(Low(value))}
  <2>1. PICK c \in Bits(Low(value)) : b = Width + c
    BY <1>3
  <2>2. c \in 0..(Width - 1)
    BY <2>1 DEF Bits
  <2> QED BY <1>1, <2>1, <2>2 DEF AllBits
<1> QED BY <1>2, <1>3 DEF djb2Dual

\* The members of a finite set that have a bit are finitely many.
LEMMA CarriersFinite ==
  ASSUME NEW S \in SUBSET Values, NEW b
  PROVE  IsFiniteSet(Carriers(S, b)) /\ Cardinality(Carriers(S, b)) \in Nat
<1>1. Carriers(S, b) \in SUBSET Values
  BY DEF Carriers
<1>2. IsFiniteSet(Carriers(S, b))
  BY <1>1, ByteStrings, FS_Subset
<1> QED BY <1>2, FS_CardinalityType

\* Adding a value flips exactly the bits of its hash.
LEMMA DigestAdd ==
  ASSUME NEW S \in SUBSET Values, NEW value \in Values, value \notin S
  PROVE  Digest(S \cup {value}) = Xor(Digest(S), djb2Dual(value))
<1> DEFINE T == S \cup {value}
<1>1. ASSUME NEW b \in AllBits
      PROVE  b \in Digest(T) <=> b \in Xor(Digest(S), djb2Dual(value))
  <2>1. IsFiniteSet(Carriers(S, b)) /\ Cardinality(Carriers(S, b)) \in Nat
    BY CarriersFinite
  <2>2. CASE b \in djb2Dual(value)
    <3>1. Carriers(T, b) = Carriers(S, b) \cup {value} /\ value \notin Carriers(S, b)
      BY <2>2 DEF Carriers
    <3>2. Cardinality(Carriers(T, b)) = Cardinality(Carriers(S, b)) + 1
      BY <2>1, <3>1, FS_AddElement
    <3>3. Cardinality(Carriers(T, b)) % 2 = 1 <=> Cardinality(Carriers(S, b)) % 2 # 1
      BY <2>1, <3>2
    <3> QED BY <1>1, <2>2, <3>3 DEF Digest, Xor
  <2>3. CASE b \notin djb2Dual(value)
    <3>1. Carriers(T, b) = Carriers(S, b)
      BY <2>3 DEF Carriers
    <3> QED BY <1>1, <2>3, <3>1 DEF Digest, Xor
  <2> QED BY <2>2, <2>3
<1>2. Digest(T) \subseteq AllBits /\ Xor(Digest(S), djb2Dual(value)) \subseteq AllBits
  BY BitsInRange DEF Digest, Xor
<1> QED BY <1>1, <1>2

\* Deleting undoes adding.
LEMMA DigestDelete ==
  ASSUME NEW S \in SUBSET Values, NEW value \in S
  PROVE  Digest(S \ {value}) = Xor(Digest(S), djb2Dual(value))
<1> DEFINE R == S \ {value}
<1>1. R \in SUBSET Values /\ value \in Values /\ value \notin R /\ R \cup {value} = S
  OBVIOUS
<1>2. Digest(S) = Xor(Digest(R), djb2Dual(value))
  BY <1>1, DigestAdd
<1> QED BY <1>2 DEF Xor

\* The empty set hashes to zero.
LEMMA DigestEmpty == Digest({}) = {}
<1>1. \A b : Carriers({}, b) = {}
  BY DEF Carriers
<1>2. Cardinality({}) = 0
  BY FS_EmptySet
<1> QED BY <1>1, <1>2 DEF Digest

\* HashInv holds initially and every step keeps it.
THEOREM HashedSetInvariant == SetSpec => []HashInv
<1>1. SetInit => HashInv
  BY DigestEmpty DEF SetInit, HashInv
<1>2. HashInv /\ [SetNext]_setVars => HashInv'
  <2> SUFFICES ASSUME HashInv, [SetNext]_setVars PROVE HashInv'
    OBVIOUS
  <2> USE DEF HashInv
  <2>1. CASE UNCHANGED setVars
    BY <2>1 DEF setVars
  <2>2. ASSUME NEW s \in Sides, NEW value \in Values, Add(s, value) PROVE HashInv'
    <3>1. hash'[s] = Digest(members'[s])
      BY <2>2, DigestAdd DEF Add
    <3>2. hash'[s] \subseteq AllBits
      BY <3>1 DEF Digest
    <3> QED BY <2>2, <3>1, <3>2 DEF Add
  <2>3. ASSUME NEW s \in Sides, NEW value \in Values, Delete(s, value) PROVE HashInv'
    <3>1. hash'[s] = Digest(members'[s])
      BY <2>3, DigestDelete DEF Delete
    <3>2. hash'[s] \subseteq AllBits
      BY <3>1 DEF Digest
    <3> QED BY <2>3, <3>1, <3>2 DEF Delete
  <2>4. ASSUME NEW s \in Sides, NewHashedSet(s) PROVE HashInv'
    BY <2>4, DigestEmpty DEF NewHashedSet
  <2> QED BY <2>1, <2>2, <2>3, <2>4 DEF SetNext
<1> QED BY <1>1, <1>2, PTL DEF SetSpec

\* The hash of a set is its digest, for all strings, widths and histories: an
\* interleaved sequence of user handlers and starts cannot make it drift.
THEOREM HashIsOfMembersHolds == SetSpec => []HashIsOfMembers
<1>1. HashInv => HashIsOfMembers
  BY DEF HashInv, HashIsOfMembers, Digest
<1> QED BY <1>1, HashedSetInvariant, PTL

\* Equal users give equal hashes: the comparison of isNeedRestartCoreLocked never
\* asks for a restart when the users are those of the Panel.
THEOREM SameUsersSameHashHolds == SetSpec => []SameUsersSameHash
<1>1. HashInv => SameUsersSameHash
  BY DEF HashInv, SameUsersSameHash
<1> QED BY <1>1, HashedSetInvariant, PTL

\* Two sets one user apart differ in exactly the bits of that user's hash.
THEOREM OneUserApartHolds == SetSpec => []OneUserApart
<1>1. HashInv => OneUserApart
  <2> SUFFICES ASSUME HashInv, NEW s \in Sides, NEW t \in Sides, NEW value \in Values,
                      value \notin members[s], members[t] = members[s] \cup {value},
                      djb2Dual(value) # {}
               PROVE  hash[s] # hash[t]
    BY DEF OneUserApart
  <2>1. hash[t] = Xor(hash[s], djb2Dual(value))
    BY DigestAdd DEF HashInv
  <2> QED BY <2>1 DEF Xor
<1> QED BY <1>1, HashedSetInvariant, PTL

-----------------------------------------------------------------------------
(* The rates of the network monitor.                                       *)

\* What has been counted since a sample was carried since then.
Follows(s, bytes, at) == \A d \in RxTx : s.at[d] <= at[d] /\ bytes[d] - s.bytes[d] <= at[d] - s.at[d]

\* Of two samples and the counters, each later one follows the earlier.
SampleInv ==
  /\ previous # NoSample => Follows(previous, netCounters, carried)
  /\ sample # NoSample => Follows(sample, netCounters, carried)
  /\ previous # NoSample /\ sample # NoSample => Follows(previous, sample.bytes, sample.at)
MovedInv == current # NoSample => current.moved \in [RxTx -> Int]
NetworkInv == NetworkTypeOK /\ MovedInv /\ SampleInv /\ RateIsCarried

\* The counter after one more byte.
LEMMA CounterStep ==
  ASSUME NEW n \in 0..(Modulus - 1)
  PROVE  (n + 1) % Modulus \in 0..(Modulus - 1) /\ (n + 1) % Modulus <= n + 1
<1> DEFINE m == Modulus
<1>1. m \in Nat \ {0} /\ n \in 0..(m - 1)
  BY CountersAssumption
<1> HIDE DEF m
<1>2. (n + 1) % m \in 0..(m - 1) /\ (n + 1) % m <= n + 1
  BY <1>1
<1> QED
  BY <1>2 DEF m

\* A rate times the time is at most what was counted.
LEMMA RateBound ==
  ASSUME NEW x \in 0..(Modulus - 1), NEW t \in Nat \ {0}
  PROVE  Rate(x, t) \in 0..(Modulus - 1) /\ Rate(x, t) * t <= x
<1> DEFINE m == Modulus
<1>1. m \in Nat \ {0} /\ x \in 0..(m - 1)
  BY CountersAssumption
<1> HIDE DEF m
<1>2. x \div t \in 0..(m - 1) /\ (x \div t) * t <= x
  BY <1>1
<1> QED
  BY <1>2 DEF m, Rate

\* A read of /proc/net/dev gives counters that the invariant relates to the bytes
\* carried.
LEMMA ReadFact ==
  ASSUME NetworkTypeOK, ReadProcNetDev # NoSample
  PROVE  /\ ReadProcNetDev \in Sample
         /\ ReadProcNetDev.bytes = netCounters /\ ReadProcNetDev.at = carried
  BY DEF NetworkTypeOK, ReadProcNetDev, Sample

\* What tick shows when it finds the samples usable.
LEMMA RatesFact ==
  ASSUME NetworkTypeOK, SampleInv, Usable
  PROVE  /\ Rates.rate \in [RxTx -> 0..(Modulus - 1)] /\ Rates.total \in [RxTx -> 0..(Modulus - 1)]
         /\ Rates.elapsed \in 1..MaxAge /\ Rates.moved \in [RxTx -> Int]
         /\ \A d \in RxTx : Rates.rate[d] * Rates.elapsed <= Rates.moved[d]
<1>1. /\ sample \in Sample /\ previous \in Sample /\ age \in 1..MaxAge
      /\ sample # NoSample /\ previous # NoSample
  BY BoundsAssumption DEF NetworkTypeOK, Usable
<1>2. ASSUME NEW d \in RxTx
      PROVE  /\ sample.bytes[d] \in 0..(Modulus - 1) /\ previous.bytes[d] \in 0..(Modulus - 1)
             /\ sample.at[d] \in 0..MaxCarried /\ previous.at[d] \in 0..MaxCarried
             /\ sample.bytes[d] >= previous.bytes[d]
             /\ sample.bytes[d] - previous.bytes[d] <= sample.at[d] - previous.at[d]
  BY <1>1 DEF Sample, Usable, SampleInv, Follows
<1>3. ASSUME NEW d \in RxTx
      PROVE  /\ Minus(sample.bytes[d], previous.bytes[d]) \in 0..(Modulus - 1)
             /\ Minus(sample.bytes[d], previous.bytes[d]) <= sample.at[d] - previous.at[d]
  <2> DEFINE m == Modulus
  <2>1. m \in Nat \ {0} /\ sample.bytes[d] \in 0..(m - 1) /\ previous.bytes[d] \in 0..(m - 1)
    BY <1>2, CountersAssumption
  <2>2. Minus(sample.bytes[d], previous.bytes[d]) = sample.bytes[d] - previous.bytes[d]
    BY <1>2 DEF Minus
  <2> HIDE DEF m
  <2>3. sample.bytes[d] - previous.bytes[d] \in 0..(m - 1)
    BY <1>2, <2>1
  <2> QED
    BY <1>2, <2>2, <2>3 DEF m
<1>4. ASSUME NEW d \in RxTx
      PROVE  /\ Rates.rate[d] \in 0..(Modulus - 1)
             /\ Rates.rate[d] * Rates.elapsed <= Rates.moved[d]
  <2> DEFINE x == Minus(sample.bytes[d], previous.bytes[d])
             r == Rate(x, age)
  <2>1. Rates.rate[d] = r /\ Rates.elapsed = age /\ Rates.moved[d] = sample.at[d] - previous.at[d]
    BY DEF Rates
  <2>2. x \in 0..(Modulus - 1) /\ x <= sample.at[d] - previous.at[d]
    BY <1>3
  <2> HIDE DEF x
  <2>3. r \in 0..(Modulus - 1) /\ r * age <= x
    BY <1>1, <2>2, RateBound
  <2> HIDE DEF r
  <2>4. r * age \in Int /\ x \in Int /\ sample.at[d] - previous.at[d] \in Int
    <3>1. r \in Int /\ x \in Int
      BY <2>2, <2>3, CountersAssumption
    <3> QED BY <1>1, <1>2, <3>1, BoundsAssumption
  <2> QED
    BY <2>1, <2>2, <2>3, <2>4
<1>5. Rates.rate \in [RxTx -> 0..(Modulus - 1)]
  <2>1. Rates.rate = [d \in RxTx |-> Rate(Minus(sample.bytes[d], previous.bytes[d]), age)]
    BY DEF Rates
  <2> QED BY <1>4, <2>1
<1>6. Rates.moved \in [RxTx -> Int]
  BY <1>2, BoundsAssumption DEF Rates
<1> QED
  BY <1>1, <1>4, <1>5, <1>6 DEF Rates, Sample

\* A sample that is taken, and one that is kept, is followed by the counters.
LEMMA NextNetworkInv ==
  ASSUME NetworkInv, [NetworkNext]_networkVars
  PROVE  NetworkInv'
<1>0. NetworkTypeOK /\ MovedInv /\ SampleInv /\ RateIsCarried
  BY DEF NetworkInv
<1>1. ASSUME NEW d \in RxTx, Carry(d) PROVE NetworkInv'
  <2> DEFINE n == (netCounters[d] + 1) % Modulus
  <2>1. n \in 0..(Modulus - 1) /\ n <= netCounters[d] + 1
    BY <1>0, CounterStep DEF NetworkTypeOK
  <2>2. /\ carried' = [carried EXCEPT ![d] = carried[d] + 1]
        /\ netCounters' = [netCounters EXCEPT ![d] = n]
        /\ carried[d] < MaxCarried
        /\ UNCHANGED <<hasDefault, present, previous, age, sample, current, loop, stop>>
    BY <1>1 DEF Carry
  <2> HIDE DEF n
  <2>3. /\ carried' \in [RxTx -> 0..MaxCarried] /\ netCounters' \in [RxTx -> 0..(Modulus - 1)]
        /\ \A e \in RxTx : /\ carried[e] \in 0..MaxCarried /\ netCounters[e] \in Int /\ n \in Int
                           /\ carried'[e] = IF e = d THEN carried[e] + 1 ELSE carried[e]
                           /\ netCounters'[e] = IF e = d THEN n ELSE netCounters[e]
    BY <1>0, <2>1, <2>2, BoundsAssumption, CountersAssumption DEF NetworkTypeOK
  <2>4. ASSUME NEW s \in Sample, Follows(s, netCounters, carried)
        PROVE  Follows(s, netCounters', carried')
    <3>1. \A e \in RxTx : s.at[e] \in Int /\ s.bytes[e] \in Int
      BY BoundsAssumption, CountersAssumption DEF Sample
    <3> QED BY <2>1, <2>3, <2>4, <3>1 DEF Follows
  <2>5. NetworkTypeOK'
    BY <1>0, <2>2, <2>3 DEF NetworkTypeOK, Sample
  <2>6. SampleInv'
    BY <1>0, <2>2, <2>4 DEF NetworkTypeOK, SampleInv, Follows
  <2>7. MovedInv' /\ RateIsCarried'
    BY <1>0, <2>2 DEF MovedInv, RateIsCarried
  <2> QED BY <2>5, <2>6, <2>7 DEF NetworkInv
<1>2. ASSUME Return PROVE NetworkInv'
  <2>1. /\ netCounters' \in {netCounters, [d \in RxTx |-> 0]} /\ present' = TRUE
        /\ UNCHANGED <<hasDefault, carried, previous, age, sample, current, loop, stop>>
    BY <1>2 DEF Return
  <2>2. netCounters' \in [RxTx -> 0..(Modulus - 1)]
    BY <1>0, <2>1, CountersAssumption DEF NetworkTypeOK
  <2>3. ASSUME NEW s \in Sample, Follows(s, netCounters, carried)
        PROVE  Follows(s, netCounters', carried)
    <3>1. \A e \in RxTx : s.at[e] \in Int /\ s.bytes[e] \in Nat /\ carried[e] \in Int
      BY <1>0, BoundsAssumption, CountersAssumption DEF Sample, NetworkTypeOK
    <3> QED BY <2>1, <2>3, <3>1 DEF Follows
  <2>4. NetworkTypeOK'
    BY <1>0, <2>1, <2>2 DEF NetworkTypeOK, Sample
  <2>5. SampleInv'
    BY <1>0, <2>1, <2>3 DEF NetworkTypeOK, SampleInv, Follows
  <2>6. MovedInv' /\ RateIsCarried'
    BY <1>0, <2>1 DEF MovedInv, RateIsCarried
  <2> QED BY <2>4, <2>5, <2>6 DEF NetworkInv
<1>3. ASSUME Tick PROVE NetworkInv'
  <2>1. /\ sample' = ReadProcNetDev /\ loop' = "read"
        /\ UNCHANGED <<hasDefault, present, netCounters, carried, previous, age, current, stop>>
    BY <1>3 DEF Tick
  <2>2. sample' # NoSample =>
          sample' \in Sample /\ sample'.bytes = netCounters /\ sample'.at = carried
    BY <1>0, <2>1, ReadFact
  <2>3. NetworkTypeOK'
    BY <1>0, <2>1, <2>2 DEF NetworkTypeOK, Sample
  <2>4. \A e \in RxTx : carried[e] \in Int /\ netCounters[e] \in Int
    BY <1>0, BoundsAssumption, CountersAssumption DEF NetworkTypeOK
  <2>5. SampleInv'
    BY <1>0, <2>1, <2>2, <2>4 DEF SampleInv, Follows
  <2>6. MovedInv' /\ RateIsCarried'
    BY <1>0, <2>1 DEF MovedInv, RateIsCarried
  <2> QED BY <2>3, <2>5, <2>6 DEF NetworkInv
<1>4. ASSUME Apply PROVE NetworkInv'
  <2>1. /\ current' = IF Usable THEN Rates ELSE current
        /\ \/ sample # NoSample /\ previous' = sample /\ age' = 0
           \/ sample = NoSample /\ UNCHANGED <<previous, age>>
        /\ sample' = NoSample /\ loop' = "wait"
        /\ UNCHANGED <<hasDefault, present, netCounters, carried, stop>>
    BY <1>4 DEF Apply
  <2>2. Usable => /\ Rates.rate \in [RxTx -> 0..(Modulus - 1)] /\ Rates.total \in [RxTx -> 0..(Modulus - 1)]
                  /\ Rates.elapsed \in 1..MaxAge /\ Rates.moved \in [RxTx -> Int]
                  /\ \A d \in RxTx : Rates.rate[d] * Rates.elapsed <= Rates.moved[d]
    BY <1>0, RatesFact
  <2>3. NetworkTypeOK'
    BY <1>0, <2>1, <2>2, BoundsAssumption DEF NetworkTypeOK, Sample
  <2>4. SampleInv'
    BY <1>0, <2>1 DEF SampleInv, Follows
  <2>5. MovedInv' /\ RateIsCarried'
    BY <1>0, <2>1, <2>2 DEF MovedInv, RateIsCarried
  <2> QED BY <2>3, <2>4, <2>5 DEF NetworkInv
<1>5. ASSUME TimePasses PROVE NetworkInv'
  <2>1. NetworkTypeOK'
    BY <1>0, <1>5, BoundsAssumption DEF NetworkTypeOK, Sample, TimePasses
  <2> QED BY <1>0, <1>5, <2>1 DEF NetworkInv, MovedInv, SampleInv, RateIsCarried, Follows, TimePasses
<1>6. ASSUME Vanish \/ Stop \/ LoopEnds \/ UNCHANGED networkVars PROVE NetworkInv'
  <2>1. /\ UNCHANGED <<hasDefault, netCounters, carried, previous, age, sample, current>>
        /\ present' \in BOOLEAN /\ stop' \in BOOLEAN /\ loop' \in {"wait", "read", "ended"}
    BY <1>0, <1>6 DEF Vanish, Stop, LoopEnds, networkVars, NetworkTypeOK
  <2> QED BY <1>0, <2>1 DEF NetworkInv, NetworkTypeOK, Sample, MovedInv, SampleInv, RateIsCarried, Follows
<1> QED
  BY <1>1, <1>2, <1>3, <1>4, <1>5, <1>6 DEF NetworkNext

\* The invariant holds at the start.
LEMMA InitNetworkInv == ASSUME NetworkInit PROVE NetworkInv
<1>1. netCounters \in [RxTx -> 0..(Modulus - 1)] /\ carried = [d \in RxTx |-> 0]
  BY CountersAssumption DEF NetworkInit
<1>2. previous # NoSample =>
        previous \in Sample /\ previous.bytes = netCounters /\ previous.at = carried
  BY <1>1, BoundsAssumption DEF NetworkInit, ReadProcNetDev, Sample
<1>3. NetworkTypeOK
  <2>1. /\ carried \in [RxTx -> 0..MaxCarried] /\ age \in 0..MaxAge
        /\ previous \in Sample \cup {NoSample}
    BY <1>1, <1>2, BoundsAssumption DEF NetworkInit
  <2> QED BY <1>1, <2>1 DEF NetworkInit, NetworkTypeOK
<1>4. SampleInv
  <2>1. \A d \in RxTx : netCounters[d] \in Int /\ carried[d] \in Int
    BY <1>1, CountersAssumption
  <2> QED BY <1>2, <2>1 DEF NetworkInit, SampleInv, Follows
<1> QED
  BY <1>3, <1>4 DEF NetworkInv, NetworkInit, MovedInv, RateIsCarried

\* The types and the samples, for every width of the counters.
THEOREM NetworkInvariant == NetworkSpec => []NetworkInv
  BY InitNetworkInv, NextNetworkInv, PTL DEF NetworkSpec

\* The monitor's state has its type.
THEOREM NetworkTypeCorrect == NetworkSpec => []NetworkTypeOK
<1>1. NetworkInv => NetworkTypeOK
  BY DEF NetworkInv
<1> QED BY <1>1, NetworkInvariant, PTL

\* No rate that is shown exceeds what was carried between its samples: however often a
\* counter wraps between two of them and whatever the interface that returns counts.
THEOREM RateIsCarriedHolds == NetworkSpec => []RateIsCarried
<1>1. NetworkInv => RateIsCarried
  BY DEF NetworkInv
<1> QED
  BY <1>1, NetworkInvariant, PTL

-----------------------------------------------------------------------------
(* The addresses of the users.                                             *)

WorkerSteps == [pc : {"off", "receive", "ask", "store"}, index : Nat, got : SUBSET Addresses]

\* A worker that has an index, and what it has taken from the core and not yet stored.
Busy(w) == worker[w].pc \in {"ask", "store"}
Row(i) == {users[i]} \X results[i]
Held(w) == IF worker[w].pc = "store" THEN {users[worker[w].index]} \X worker[w].got ELSE {}

\* The pool: each index is handed out once, and its row is empty until it is stored.
PoolInv ==
  /\ online \in [Users -> SUBSET Addresses]
  /\ main \in [pc : {"idle", "enqueue", "wait", "done"}, next : Nat]
  /\ users \in {us \in Seq(Users) : IsInjective(us)}
  /\ results \in [DOMAIN users -> SUBSET Addresses]
  /\ worker \in [Workers -> WorkerSteps] /\ ctx \in BOOLEAN
  /\ main.pc = "idle" => users = <<>>
  /\ main.pc \in {"idle", "done"} => \A w \in Workers : worker[w] = Off
  /\ main.next \in 1..(Len(users) + 1)
  /\ \A i \in DOMAIN users : i >= main.next => results[i] = {}
  /\ \A w \in Workers : Busy(w) => /\ worker[w].index \in 1..(main.next - 1)
                                   /\ results[worker[w].index] = {}
  /\ \A w \in Workers : ~Busy(w) => worker[w].index = 0
  /\ \A v, w \in Workers : Busy(v) /\ Busy(w) /\ worker[v].index = worker[w].index => v = w

\* What the calls were answered with is listed, or about to be stored.
TakenInv == taken = AddressesListed \cup UNION {Held(w) : w \in Workers}

AddressInv == PoolInv /\ TakenInv

\* The indices in use are indices of users.
LEMMA Lengths ==
  ASSUME PoolInv
  PROVE  /\ Len(users) \in Nat /\ DOMAIN users = 1..Len(users)
         /\ \A i \in DOMAIN users : users[i] \in Users
         /\ \A w \in Workers : Busy(w) => worker[w].index \in DOMAIN users
         /\ \A w \in Workers : worker[w] \in WorkerSteps
         /\ main.next \in Nat
<1>1. /\ Len(users) \in Nat /\ DOMAIN users = 1..Len(users)
      /\ \A i \in DOMAIN users : users[i] \in Users
  BY LenProperties DEF PoolInv
<1> QED
  BY <1>1 DEF PoolInv

\* A step that changes neither the rows nor what is held keeps what is taken.
LEMMA SameTaken ==
  ASSUME AddressInv, UNCHANGED <<users, results, taken>>,
         \A w \in Workers : Held(w)' = Held(w)
  PROVE  TakenInv'
  BY DEF AddressInv, TakenInv, AddressesListed

\* A worker changes where it is.
LEMMA WorkerFact ==
  ASSUME PoolInv, NEW w \in Workers, NEW j \in WorkerSteps, worker' = [worker EXCEPT ![w] = j]
  PROVE  /\ worker' \in [Workers -> WorkerSteps] /\ worker'[w] = j
         /\ \A v \in Workers : v # w => worker'[v] = worker[v]
  BY DEF PoolInv

\* A worker that waits and one that is off hold nothing.
LEMMA ReadyFact == /\ Ready \in WorkerSteps /\ Ready.pc = "receive" /\ Ready.index = 0
                   /\ Off \in WorkerSteps /\ Off.pc = "off" /\ Off.index = 0
  BY DEF Ready, Off, WorkerSteps

\* A worker that waits, fails or ends.
LEMMA IdleWorker ==
  ASSUME AddressInv, NEW w \in Workers, NEW j \in {Ready, Off}, worker' = [worker EXCEPT ![w] = j],
         worker[w].pc # "store", main.pc \in {"enqueue", "wait"},
         UNCHANGED <<main, users, results, ctx, taken>>, online' \in [Users -> SUBSET Addresses]
  PROVE  AddressInv'
<1>1. /\ worker' \in [Workers -> WorkerSteps] /\ worker'[w] = j
      /\ j.pc \in {"receive", "off"} /\ j.index = 0
      /\ \A v \in Workers : v # w => worker'[v] = worker[v]
  BY WorkerFact, ReadyFact DEF AddressInv
<1>2. PoolInv'
  BY <1>1 DEF AddressInv, PoolInv, Busy
<1>3. \A v \in Workers : Held(v)' = Held(v)
  BY <1>1 DEF Held
<1>4. TakenInv'
  BY <1>3, SameTaken
<1> QED BY <1>2, <1>4 DEF AddressInv

\* The addresses a call takes from the core are held by its worker.
LEMMA AskStep == ASSUME AddressInv, NEW w \in Workers, Ask(w) PROVE AddressInv'
<1> DEFINE u == users[worker[w].index]
           got == online[u]
           j == [worker[w] EXCEPT !.pc = "store", !.got = got]
<1>0. PoolInv /\ TakenInv /\ worker[w] \in WorkerSteps
  BY Lengths DEF AddressInv
<1>1. /\ worker[w].pc = "ask" /\ worker' = [worker EXCEPT ![w] = j]
      /\ taken' = taken \cup ({u} \X got) /\ online' = [online EXCEPT ![u] = {}]
      /\ UNCHANGED <<main, users, results, ctx>>
  BY DEF Ask
<1>2. worker[w].index \in DOMAIN users /\ u \in Users /\ got \in SUBSET Addresses
  <2>1. worker[w].index \in DOMAIN users /\ u \in Users
    BY <1>0, <1>1, Lengths DEF Busy
  <2> QED BY <1>0, <2>1 DEF PoolInv
<1>3. j \in WorkerSteps /\ j.pc = "store" /\ j.index = worker[w].index /\ j.got = got
  BY <1>0, <1>2 DEF WorkerSteps
<1> HIDE DEF j, got, u
<1>4. /\ worker' \in [Workers -> WorkerSteps] /\ worker'[w] = j
      /\ \A v \in Workers : v # w => worker'[v] = worker[v]
  BY <1>0, <1>1, <1>3, WorkerFact
<1>5. PoolInv'
  <2>1. online' \in [Users -> SUBSET Addresses]
    BY <1>0, <1>1 DEF PoolInv
  <2>2. main.pc \notin {"idle", "done"}
    BY <1>0, <1>1, ReadyFact DEF PoolInv
  <2>3. \A v \in Workers : Busy(v)' <=> Busy(v)
    BY <1>1, <1>3, <1>4 DEF Busy
  <2>4. \A v \in Workers : worker'[v].index = worker[v].index
    BY <1>3, <1>4
  <2> QED BY <1>0, <1>1, <1>4, <2>1, <2>2, <2>3, <2>4 DEF PoolInv
<1>6. TakenInv'
  <2>1. Held(w) = {} /\ Held(w)' = {u} \X got
    BY <1>1, <1>3, <1>4 DEF Held, u
  <2>2. \A v \in Workers : v # w => Held(v)' = Held(v)
    BY <1>1, <1>4 DEF Held
  <2>3. AddressesListed' = AddressesListed
    BY <1>1 DEF AddressesListed
  <2> QED BY <1>0, <1>1, <2>1, <2>2, <2>3 DEF TakenInv
<1> QED BY <1>5, <1>6 DEF AddressInv

\* Nothing is paired with the elements of the empty set.
LEMMA NoPairs == ASSUME NEW S PROVE S \X {} = {}
  OBVIOUS

\* The addresses a worker holds become the row of its index, which was empty.
LEMMA StoreStep == ASSUME AddressInv, NEW w \in Workers, Store(w) PROVE AddressInv'
<1> PICK i : i = worker[w].index
  OBVIOUS
<1>0. PoolInv /\ TakenInv
  BY DEF AddressInv
<1>1. /\ worker[w].pc = "store" /\ worker' = [worker EXCEPT ![w] = Ready]
      /\ results' = [results EXCEPT ![i] = worker[w].got]
      /\ UNCHANGED <<online, main, users, ctx, taken>>
  BY DEF Store
<1>2. i \in DOMAIN users /\ results[i] = {} /\ i < main.next /\ i \in Nat /\ main.next \in Nat
      /\ worker[w].got \in SUBSET Addresses /\ DOMAIN results = DOMAIN users
  BY <1>0, <1>1, Lengths DEF PoolInv, Busy, WorkerSteps
<1>3. /\ worker' \in [Workers -> WorkerSteps] /\ worker'[w] = Ready
      /\ \A v \in Workers : v # w => worker'[v] = worker[v]
  BY <1>0, <1>1, ReadyFact, WorkerFact
<1>4. /\ results' \in [DOMAIN users -> SUBSET Addresses] /\ results'[i] = worker[w].got
      /\ \A k \in DOMAIN users : k # i => results'[k] = results[k]
  BY <1>0, <1>1, <1>2 DEF PoolInv
<1>5. PoolInv'
  <2>1. \A v \in Workers : Busy(v)' => Busy(v) /\ v # w /\ worker'[v] = worker[v]
    BY <1>3, ReadyFact DEF Busy
  <2>2. \A v \in Workers : Busy(v)' => /\ worker'[v].index \in 1..(main.next - 1)
                                       /\ results'[worker'[v].index] = {}
    <3> SUFFICES ASSUME NEW v \in Workers, Busy(v)'
                 PROVE  worker'[v].index \in 1..(main.next - 1) /\ results'[worker'[v].index] = {}
      OBVIOUS
    <3>1. Busy(v) /\ v # w /\ worker'[v] = worker[v]
      BY <2>1
    <3>2. worker[v].index # i /\ worker[v].index \in DOMAIN users
      BY <1>0, <1>1, <3>1, Lengths DEF PoolInv, Busy
    <3>3. worker[v].index \in 1..(main.next - 1) /\ results[worker[v].index] = {}
      BY <1>0, <3>1 DEF PoolInv
    <3> QED BY <1>4, <3>1, <3>2, <3>3
  <2>3. \A k \in DOMAIN users : k >= main.next => results'[k] = {}
    <3> SUFFICES ASSUME NEW k \in DOMAIN users, k >= main.next PROVE results'[k] = {}
      OBVIOUS
    <3>1. k # i
      BY <1>2
    <3> QED BY <1>0, <1>4, <3>1 DEF PoolInv
  <2>4. main.pc \notin {"idle", "done"}
    BY <1>0, <1>1, ReadyFact DEF PoolInv
  <2>5. \A v \in Workers : ~Busy(v)' => worker'[v].index = 0
    BY <1>0, <1>3, ReadyFact DEF PoolInv, Busy
  <2> QED BY <1>0, <1>1, <1>3, <1>4, <2>1, <2>2, <2>3, <2>4, <2>5 DEF PoolInv
<1>6. TakenInv'
  <2>1. Held(w) = {users[i]} \X worker[w].got /\ Held(w)' = {}
    BY <1>1, <1>3, ReadyFact DEF Held
  <2>2. \A v \in Workers : v # w => Held(v)' = Held(v)
    BY <1>1, <1>3 DEF Held
  <2>3. Row(i) = {} /\ Row(i)' = Held(w)
    <3>2. Row(i) = {}
      BY <1>2, NoPairs DEF Row
    <3>3. Row(i)' = {users[i]} \X worker[w].got
      BY <1>1, <1>4 DEF Row
    <3> QED BY <2>1, <3>2, <3>3
  <2>4. \A k \in DOMAIN users : k # i => Row(k)' = Row(k)
    BY <1>1, <1>4 DEF Row
  <2>5. AddressesListed = UNION {Row(k) : k \in DOMAIN users}
    BY DEF AddressesListed, Row
  <2>6. AddressesListed' = UNION {Row(k)' : k \in DOMAIN users}
    BY <1>1 DEF AddressesListed, Row
  <2>7. AddressesListed' = AddressesListed \cup Held(w)
    <3>1. ASSUME NEW x \in AddressesListed' PROVE x \in AddressesListed \cup Held(w)
      <4>1. PICK k \in DOMAIN users : x \in Row(k)'
        BY <2>6, <3>1
      <4>2. CASE k = i
        BY <2>3, <4>1, <4>2
      <4>3. CASE k # i
        BY <2>4, <2>5, <4>1, <4>3
      <4> QED BY <4>2, <4>3
    <3>2. ASSUME NEW x \in AddressesListed PROVE x \in AddressesListed'
      <4>1. PICK k \in DOMAIN users : x \in Row(k)
        BY <2>5, <3>2
      <4>2. k # i
        BY <2>3, <4>1
      <4> QED BY <2>4, <2>6, <4>1, <4>2
    <3>3. Held(w) \subseteq AddressesListed'
      BY <1>2, <2>3, <2>6
    <3> QED BY <3>1, <3>2, <3>3
  <2> QED BY <1>0, <1>1, <2>1, <2>2, <2>7 DEF TakenInv
<1> QED BY <1>5, <1>6 DEF AddressInv

\* A new index goes to one worker, and its row is empty.
LEMMA SendStep == ASSUME AddressInv, Send PROVE AddressInv'
<1> DEFINE n == main.next
           j == [pc |-> "ask", index |-> n, got |-> {}]
<1>0. PoolInv /\ TakenInv /\ n \in Nat /\ Len(users) \in Nat /\ DOMAIN users = 1..Len(users)
  BY Lengths DEF AddressInv
<1>1. /\ main.pc = "enqueue" /\ n <= Len(users)
      /\ main' = [main EXCEPT !.next = n + 1]
      /\ UNCHANGED <<online, users, results, ctx, taken>>
  BY DEF Send
<1>2. PICK w \in Workers : worker[w].pc = "receive" /\ worker' = [worker EXCEPT ![w] = j]
  BY DEF Send
<1>3. j \in WorkerSteps /\ j.pc = "ask" /\ j.index = n
  BY <1>0 DEF WorkerSteps
<1>4. main' \in [pc : {"idle", "enqueue", "wait", "done"}, next : Nat]
      /\ main'.pc = "enqueue" /\ main'.next = n + 1
  BY <1>0, <1>1 DEF PoolInv
<1> HIDE DEF j
<1>5. /\ worker' \in [Workers -> WorkerSteps] /\ worker'[w] = j
      /\ \A v \in Workers : v # w => worker'[v] = worker[v]
  BY <1>0, <1>2, <1>3, WorkerFact
<1>6. n \in DOMAIN users /\ n >= 1 /\ results[n] = {}
  BY <1>0, <1>1 DEF PoolInv
<1>7. ASSUME NEW v \in Workers, Busy(v)'
      PROVE  \/ v = w /\ worker'[v].index = n
             \/ v # w /\ Busy(v) /\ worker'[v] = worker[v] /\ worker[v].index \in 1..(n - 1)
                /\ results[worker[v].index] = {}
  BY <1>0, <1>3, <1>5, <1>7 DEF Busy, PoolInv
<1>8. PoolInv'
  <2>1. \A v \in Workers : Busy(v)' => /\ worker'[v].index \in 1..(main'.next - 1)
                                       /\ results'[worker'[v].index] = {}
    <3> SUFFICES ASSUME NEW v \in Workers, Busy(v)'
                 PROVE  worker'[v].index \in 1..n /\ results'[worker'[v].index] = {}
      BY <1>0, <1>4
    <3>1. \A k \in 1..(n - 1) : k \in 1..n
      BY <1>0
    <3>2. n \in 1..n
      BY <1>0, <1>6
    <3> HIDE DEF n
    <3> QED BY <1>1, <1>6, <1>7, <3>1, <3>2
  <2>2. \A v, u \in Workers : Busy(v)' /\ Busy(u)' /\ worker'[v].index = worker'[u].index => v = u
    <3> SUFFICES ASSUME NEW v \in Workers, NEW u \in Workers, Busy(v)', Busy(u)',
                        worker'[v].index = worker'[u].index
                 PROVE  v = u
      OBVIOUS
    <3>1. CASE v = w \/ u = w
      BY <1>0, <1>7, <3>1
    <3>2. CASE v # w /\ u # w
      BY <1>0, <1>7, <3>2 DEF PoolInv
    <3> QED BY <3>1, <3>2
  <2>3. main'.next \in 1..(Len(users') + 1)
    BY <1>0, <1>1, <1>4, <1>6
  <2>4. \A i \in DOMAIN users' : i >= main'.next => results'[i] = {}
    BY <1>0, <1>1, <1>4 DEF PoolInv
  <2>5. ASSUME NEW v \in Workers, ~Busy(v)' PROVE worker'[v].index = 0
    <3>1. j.pc = "ask" /\ worker'[w].pc = "ask"
      BY <1>3, <1>5
    <3>2. v # w /\ worker'[v] = worker[v]
      BY <1>5, <2>5, <3>1 DEF Busy
    <3> QED BY <1>0, <2>5, <3>2 DEF PoolInv, Busy
  <2> QED BY <1>0, <1>1, <1>4, <1>5, <2>1, <2>2, <2>3, <2>4, <2>5 DEF PoolInv
<1>9. \A v \in Workers : Held(v)' = Held(v)
  BY <1>1, <1>2, <1>3, <1>5 DEF Held
<1>10. TakenInv'
  BY <1>1, <1>9, SameTaken
<1> QED BY <1>8, <1>10 DEF AddressInv

\* UniqueOnlineUserIDs: what it keeps of an answer are users, each of them once.
LEMMA UniqueFacts ==
  ASSUME NEW metrics \in Metrics
  PROVE  UniqueOnlineUserIDs(metrics) \in {us \in Seq(Users) : IsInjective(us)}
<1> DEFINE P == {k \in DOMAIN metrics : /\ metrics[k] # OtherForm
                                        /\ \A j \in 1..(k - 1) : metrics[j] # metrics[k]}
           us == Picked(metrics, P)
<1>1. metrics \in Seq(Users \cup {OtherForm})
  BY MetricsAssumption
<1>2. P \in SUBSET DOMAIN metrics /\ \A k \in P : metrics[k] \in Users /\ k \in Nat
  BY <1>1
<1>3. ASSUME NEW k \in P, NEW l \in P, k < l PROVE metrics[k] # metrics[l]
  <2>1. k \in 1..Len(metrics) /\ l \in 1..Len(metrics) /\ Len(metrics) \in Nat
    BY <1>1
  <2>2. k \in 1..(l - 1)
    BY <1>3, <2>1
  <2> QED BY <2>2
<1> HIDE DEF P
<1>4. /\ Cardinality(P) \in Nat /\ Len(us) = Cardinality(P) /\ us \in Seq(Users \cup {OtherForm})
      /\ \A n \in 1..Len(us) : Nth(P, n) \in P /\ us[n] = metrics[Nth(P, n)]
      /\ \A m, n \in 1..Len(us) : m < n => Nth(P, m) < Nth(P, n)
  BY <1>1, <1>2, PickedFacts
<1> HIDE DEF us
<1>5. DOMAIN us = 1..Len(us) /\ \A n \in 1..Len(us) : us[n] \in Users
  BY <1>2, <1>4
<1>6. us \in Seq(Users)
  BY <1>4, <1>5
<1>7. ASSUME NEW m \in 1..Len(us), NEW n \in 1..Len(us), m < n PROVE us[m] # us[n]
  BY <1>3, <1>4, <1>7
<1>8. ASSUME NEW m \in 1..Len(us), NEW n \in 1..Len(us), us[m] = us[n] PROVE m = n
  <2>1. ~(m < n) /\ ~(n < m)
    BY <1>7, <1>8
  <2> QED BY <1>4, <2>1
<1>9. IsInjective(us)
  BY <1>5, <1>8 DEF IsInjective
<1> QED BY <1>6, <1>9 DEF us, P, UniqueOnlineUserIDs

\* A request begins with empty rows and all workers waiting.
LEMMA BeginStep == ASSUME AddressInv, GetUsersIPList PROVE AddressInv'
<1>0. PoolInv /\ TakenInv /\ main.pc = "idle" /\ ctx' = TRUE /\ taken' = {} /\ online' = online
  BY DEF AddressInv, GetUsersIPList
<1>1. PICK metrics \in Metrics :
        LET us == UniqueOnlineUserIDs(metrics) IN
        IF us = <<>>
        THEN UNCHANGED <<main, users, worker, results>>
        ELSE /\ users' = us /\ results' = [i \in DOMAIN us |-> {}]
             /\ main' = [pc |-> "enqueue", next |-> 1]
             /\ worker' = [w \in Workers |-> Ready]
  BY DEF GetUsersIPList
<1> DEFINE us == UniqueOnlineUserIDs(metrics)
<1>2. us \in {s \in Seq(Users) : IsInjective(s)}
  BY UniqueFacts
<1>3. CASE UNCHANGED <<main, users, worker, results>>
  <2>1. PoolInv'
    BY <1>0, <1>3 DEF PoolInv, Busy
  <2>2. users' = <<>> /\ DOMAIN users' = {}
    <3>1. users = <<>> /\ DOMAIN users = 1..Len(users)
      BY <1>0, Lengths DEF PoolInv
    <3>2. Len(users) = 0
      BY <3>1, EmptySeq
    <3> QED BY <1>3, <3>1, <3>2
  <2>3. \A w \in Workers : Held(w)' = {}
    BY <1>0, <1>3, ReadyFact DEF PoolInv, Held
  <2>4. AddressesListed' = {}
    BY <2>2 DEF AddressesListed
  <2> QED BY <1>0, <2>1, <2>3, <2>4 DEF AddressInv, TakenInv
<1>4. CASE /\ users' = us /\ results' = [i \in DOMAIN us |-> {}]
           /\ main' = [pc |-> "enqueue", next |-> 1]
           /\ worker' = [w \in Workers |-> Ready]
  <2> HIDE DEF us
  <2>1. Len(users') \in Nat /\ users' \in {s \in Seq(Users) : IsInjective(s)}
    <3>1. Len(us) \in Nat
      BY <1>2, LenProperties
    <3> QED BY <1>2, <1>4, <3>1
  <2>2. \A w \in Workers : worker'[w] = Ready /\ worker'[w].pc = "receive" /\ worker'[w].index = 0
    BY <1>4, ReadyFact
  <2>3. worker' \in [Workers -> WorkerSteps]
    BY <1>4, ReadyFact
  <2>4. /\ results' \in [DOMAIN users' -> SUBSET Addresses]
        /\ \A i \in DOMAIN users' : results'[i] = {}
    BY <1>4
  <2>5. /\ main' \in [pc : {"idle", "enqueue", "wait", "done"}, next : Nat]
        /\ main'.pc = "enqueue" /\ main'.next = 1 /\ main'.next \in 1..(Len(users') + 1)
    BY <1>4, <2>1
  <2>6. PoolInv'
    BY <1>0, <2>1, <2>2, <2>3, <2>4, <2>5 DEF PoolInv, Busy
  <2>7. AddressesListed' = {}
    <3>1. \A i \in DOMAIN users' : {users'[i]} \X results'[i] = {}
      BY <2>4
    <3> QED BY <3>1 DEF AddressesListed
  <2>8. \A w \in Workers : Held(w)' = {}
    BY <2>2 DEF Held
  <2> QED BY <1>0, <2>6, <2>7, <2>8 DEF AddressInv, TakenInv
<1> QED BY <1>1, <1>3, <1>4

\* The steps of GetUsersIPList itself that leave the pool alone.
LEMMA MainStep ==
  ASSUME AddressInv, CloseJobs \/ WaitGroup PROVE AddressInv'
<1>0. PoolInv /\ TakenInv
  BY DEF AddressInv
<1>1. /\ UNCHANGED <<online, users, worker, results, ctx, taken>> /\ main'.next = main.next
      /\ main' \in [pc : {"idle", "enqueue", "wait", "done"}, next : Nat]
      /\ \/ main'.pc = "wait"
         \/ main'.pc = "done" /\ \A w \in Workers : worker[w] = Off
  BY <1>0 DEF CloseJobs, WaitGroup, PoolInv
<1>2. PoolInv'
  BY <1>0, <1>1 DEF PoolInv, Busy
<1>3. \A w \in Workers : Held(w)' = Held(w)
  BY <1>1 DEF Held
<1> QED BY <1>1, <1>2, <1>3, SameTaken DEF AddressInv

\* The answer is written; nothing is left of the request.
Blank ==
  /\ online \in [Users -> SUBSET Addresses] /\ main = [pc |-> "idle", next |-> 1]
  /\ users = <<>> /\ results = <<>> /\ taken = {} /\ ctx = TRUE
  /\ worker = [w \in Workers |-> Off]

\* Nothing is taken, held or listed when no request runs.
LEMMA NothingLeft == Blank => AddressInv
<1> SUFFICES ASSUME Blank PROVE AddressInv
  OBVIOUS
<1> USE DEF Blank
<1>1. /\ users \in Seq(Users) /\ Len(users) = 0 /\ DOMAIN users = {} /\ DOMAIN results = {}
  <2>1. users \in Seq(Users) /\ Len(users) = 0
    BY EmptySeq
  <2>2. DOMAIN users = 1..Len(users)
    BY <2>1, LenProperties
  <2> QED BY <2>1, <2>2
<1>2. users \in {us \in Seq(Users) : IsInjective(us)}
  <2>1. IsInjective(users)
    BY <1>1 DEF IsInjective
  <2> QED BY <1>1, <2>1
<1>3. results \in [DOMAIN users -> SUBSET Addresses]
  BY <1>1
<1>4. \A w \in Workers : worker[w] = Off /\ worker[w].pc = "off" /\ worker[w].index = 0
  BY ReadyFact
<1>5. worker \in [Workers -> WorkerSteps]
  BY ReadyFact
<1>6. main \in [pc : {"idle", "enqueue", "wait", "done"}, next : Nat] /\ main.pc = "idle"
      /\ main.next = 1
  OBVIOUS
<1>7. PoolInv
  BY <1>1, <1>2, <1>3, <1>4, <1>5, <1>6 DEF PoolInv, Busy
<1>8. AddressesListed = {}
  BY <1>1 DEF AddressesListed
<1>9. \A w \in Workers : Held(w) = {}
  BY <1>4 DEF Held
<1> QED BY <1>7, <1>8, <1>9 DEF AddressInv, TakenInv

\* The invariant holds at the start.
LEMMA InitAddressInv == AddressInit => AddressInv
<1> SUFFICES ASSUME AddressInit PROVE AddressInv
  OBVIOUS
<1> QED BY NothingLeft DEF AddressInit, Blank

\* Every step keeps the invariant.
LEMMA NextAddressInv == AddressInv /\ [AddressNext]_addressVars => AddressInv'
<1> SUFFICES ASSUME AddressInv, [AddressNext]_addressVars PROVE AddressInv'
  OBVIOUS
<1>0. PoolInv /\ TakenInv /\ online \in [Users -> SUBSET Addresses]
  BY DEF AddressInv, PoolInv
<1>1. CASE GetUsersIPList
  BY <1>1, BeginStep
<1>2. CASE Send
  BY <1>2, SendStep
<1>3. CASE CloseJobs \/ WaitGroup
  BY <1>3, MainStep
<1>4. CASE ReplyWithList
  <2>1. Blank'
    BY <1>0, <1>4 DEF ReplyWithList, Blank, Off
  <2> QED BY <2>1, NothingLeft, PTL
<1>5. ASSUME UNCHANGED <<main, users, worker, results, taken>>,
             online' \in [Users -> SUBSET Addresses], ctx' \in BOOLEAN
      PROVE  AddressInv'
  <2>1. PoolInv'
    BY <1>0, <1>5 DEF PoolInv, Busy
  <2>2. \A w \in Workers : Held(w)' = Held(w)
    BY <1>5 DEF Held
  <2> QED BY <1>5, <2>1, <2>2, SameTaken DEF AddressInv
<1>6. CASE UNCHANGED addressVars
  BY <1>0, <1>5, <1>6 DEF addressVars, PoolInv
<1>7. CASE Cancel
  BY <1>0, <1>5, <1>7 DEF Cancel
<1>8. ASSUME NEW u \in Users, TakeElsewhere(u) PROVE AddressInv'
  BY <1>0, <1>5, <1>8 DEF TakeElsewhere, PoolInv
<1>9. ASSUME NEW u \in Users, NEW a \in Addresses, See(u, a) PROVE AddressInv'
  BY <1>0, <1>5, <1>9 DEF See, PoolInv
<1>10. ASSUME NEW w \in Workers, AskFails(w) PROVE AddressInv'
  <2>1. main.pc \in {"enqueue", "wait"} /\ worker[w].pc = "ask"
    BY <1>0, <1>10, ReadyFact DEF AskFails, PoolInv
  <2> QED BY <1>0, <1>10, <2>1, IdleWorker DEF AskFails
<1>11. ASSUME NEW w \in Workers, WorkerEnds(w) PROVE AddressInv'
  BY <1>0, <1>11, IdleWorker DEF WorkerEnds
<1>12. ASSUME NEW w \in Workers, Ask(w) PROVE AddressInv'
  BY <1>12, AskStep
<1>13. ASSUME NEW w \in Workers, Store(w) PROVE AddressInv'
  BY <1>13, StoreStep
<1> QED
  BY <1>1, <1>2, <1>3, <1>4, <1>6, <1>7, <1>8, <1>9, <1>10, <1>11, <1>12, <1>13
  DEF AddressNext, Main, Worker

\* For any number of workers, users and addresses: the rows and the workers of
\* GetUsersIPList have all that the calls took.
THEOREM AddressInvariant == AddressSpec => []AddressInv
  BY InitAddressInv, NextAddressInv, PTL DEF AddressSpec

\* When all workers are off, nothing is held any more.
LEMMA InvTakenIsListed == AddressInv => TakenIsListed
<1> SUFFICES ASSUME AddressInv, main.pc = "done" PROVE AddressesListed = taken
  BY DEF TakenIsListed
<1>1. \A w \in Workers : Held(w) = {}
  BY ReadyFact DEF AddressInv, PoolInv, Held
<1> QED BY <1>1 DEF AddressInv, TakenInv

\* The pool, its indices and what was taken have their types.
THEOREM AddressTypeCorrect == AddressSpec => []AddressTypeOK
<1>1. AddressInv => AddressTypeOK
  <2> SUFFICES ASSUME AddressInv PROVE AddressTypeOK
    OBVIOUS
  <2>1. PoolInv /\ TakenInv
    BY DEF AddressInv
  <2>2. ASSUME NEW w \in Workers
        PROVE  worker[w] \in [pc : {"off", "receive", "ask", "store"}, index : 0..Len(users), got : SUBSET Addresses]
    <3>1. worker[w].index \in 0..Len(users)
      BY <2>1, Lengths DEF PoolInv
    <3> QED BY <2>1, <3>1 DEF PoolInv, WorkerSteps
  <2>3. \A w \in Workers : Held(w) \subseteq Users \X Addresses
    BY <2>1, Lengths DEF Held, Busy, WorkerSteps
  <2>4. AddressesListed \subseteq Users \X Addresses
    BY <2>1, Lengths DEF AddressesListed, PoolInv
  <2>5. taken \subseteq Users \X Addresses
    BY <2>1, <2>3, <2>4 DEF TakenInv
  <2> QED BY <2>1, <2>2, <2>5 DEF PoolInv, AddressTypeOK
<1> QED BY <1>1, AddressInvariant, PTL

\* The answer of GetUsersIPList lists all addresses its calls took from the core, also
\* when the request ends early.
THEOREM TakenIsListedHolds == AddressSpec => []TakenIsListed
  BY AddressInvariant, InvTakenIsListed, PTL

-----------------------------------------------------------------------------
(* The traffic.                                                            *)

TrafficTypes ==
  /\ counter \in [Counters -> Nat] /\ received \in [Counters -> Nat]
  /\ generated \in [Counters -> 0..MaxBytes]
  /\ handler \in [Handlers -> [pc : Kinds \cup {"idle", "answer"}, op : Requests \cup {None},
                               tag : Tags \cup {None}, reset : BOOLEAN,
                               got : [Counters -> 0..MaxBytes]]]
  /\ spoilt \subseteq Kinds /\ faults \in 0..MaxFaults

\* A request has got nothing yet of the kind it is about to ask for, nor of the kind it
\* asks for last, and never anything of a kind it does not ask for.
Fresh(r) ==
  /\ r.pc = "idle" => r = Idle
  /\ r.pc # "idle" => r.op \in Ops
  /\ r.pc \in Kinds => /\ r.pc \in KindsOf(r.op)
                       /\ \A c \in Counters : c.kind \in {r.pc, "outbound"} => r.got[c] = 0
  /\ \A c \in Counters : r.got[c] # 0 => c.kind \in KindsOf(r.op)
FreshInv == \A h \in Handlers : Fresh(handler[h])

TrafficInv == TrafficTypes /\ FreshInv /\ EveryByteOnce

\* The bytes of one request that the core no longer has, and those of the others.
Amount(h, c) == IF handler[h].reset THEN handler[h].got[c] ELSE 0
Others(h, c) == {b \in OnTheirWay(c) : b[1] # h}
SplitUp ==
  \A h \in Handlers, c \in Counters :
    /\ Cardinality(Others(h, c)) \in Nat /\ Amount(h, c) \in 0..MaxBytes
    /\ Taken(c) = Cardinality(Others(h, c)) + Amount(h, c)

\* As many pairs as numbers.
LEMMA Column ==
  ASSUME NEW h, NEW n \in Nat
  PROVE  IsFiniteSet({h} \X (1..n)) /\ Cardinality({h} \X (1..n)) = n
<1>1. IsFiniteSet({h}) /\ Cardinality({h}) = 1
  BY FS_Singleton
<1>2. IsFiniteSet(1..n) /\ Cardinality(1..n) = n
  BY FS_Interval
<1>3. /\ IsFiniteSet({h} \X (1..n))
      /\ Cardinality({h} \X (1..n)) = Cardinality({h}) * Cardinality(1..n)
  BY <1>1, <1>2, FS_Product, Zenon
<1>4. 1 * n = n
  OBVIOUS
<1> QED BY <1>1, <1>2, <1>3, <1>4, Zenon

\* Finitely many bytes are on their way.
LEMMA TakenNat == \A c : IsFiniteSet(OnTheirWay(c)) /\ Taken(c) \in Nat
<1> SUFFICES ASSUME NEW c PROVE IsFiniteSet(OnTheirWay(c)) /\ Taken(c) \in Nat
  OBVIOUS
<1>1. IsFiniteSet(1..MaxBytes)
  BY Bounds, FS_Interval
<1>2. IsFiniteSet(Handlers \X (1..MaxBytes))
  BY <1>1, FinitelyMany, FS_Product
<1>3. IsFiniteSet(OnTheirWay(c))
  BY <1>2, FS_Subset DEF OnTheirWay
<1> QED BY <1>3, FS_CardinalityType DEF Taken

\* What is on its way is what one request has and what the others have.
LEMMA Split == TrafficTypes => SplitUp
<1> SUFFICES ASSUME TrafficTypes, NEW h \in Handlers, NEW c \in Counters
             PROVE  /\ Cardinality(Others(h, c)) \in Nat /\ Amount(h, c) \in 0..MaxBytes
                    /\ Taken(c) = Cardinality(Others(h, c)) + Amount(h, c)
  BY DEF SplitUp
<1> DEFINE own == {h} \X (1..Amount(h, c))
<1>1. MaxBytes \in Nat /\ Amount(h, c) \in 0..MaxBytes /\ Amount(h, c) \in Nat
  BY Bounds DEF TrafficTypes, Amount
<1>2. IsFiniteSet(OnTheirWay(c))
  BY TakenNat
<1>3. IsFiniteSet(Others(h, c)) /\ Cardinality(Others(h, c)) \in Nat
  BY <1>2, FS_Subset, FS_CardinalityType DEF Others
<1>4. IsFiniteSet(own) /\ Cardinality(own) = Amount(h, c)
  BY <1>1, Column
<1>5. OnTheirWay(c) = Others(h, c) \cup own
  <2>1. ASSUME NEW b \in OnTheirWay(c), b[1] = h PROVE b \in own
    BY <1>1, <2>1 DEF OnTheirWay, Amount, TrafficTypes
  <2>2. ASSUME NEW b \in own PROVE b \in OnTheirWay(c)
    <3>1. PICK k \in 1..Amount(h, c) : b = <<h, k>>
      OBVIOUS
    <3>2. k \in 1..MaxBytes /\ handler[h].reset /\ k <= handler[h].got[c]
      BY <1>1 DEF Amount, TrafficTypes
    <3> QED BY <3>1, <3>2 DEF OnTheirWay
  <2> QED BY <2>1, <2>2 DEF Others
<1>6. Others(h, c) \cap own = {}
  BY DEF Others
<1>7. Cardinality({}) = 0
  BY FS_EmptySet
<1> HIDE DEF own
<1> QED BY <1>1, <1>3, <1>4, <1>5, <1>6, <1>7, FS_Union DEF Taken

\* When one request changes, what is on its way changes by what that one has.
LEMMA TakenChange ==
  ASSUME TrafficTypes, TrafficTypes', NEW h \in Handlers, NEW c \in Counters,
         \A g \in Handlers : g # h => handler'[g] = handler[g]
  PROVE  /\ Taken(c) \in Nat /\ Taken(c)' \in Nat
         /\ Taken(c)' + Amount(h, c) = Taken(c) + Amount(h, c)'
         /\ Amount(h, c) \in Nat /\ Amount(h, c)' \in Nat /\ Amount(h, c) <= Taken(c)
<1>1. SplitUp
  BY Split
<1>2. SplitUp'
  BY Split, PTL
<1>3. Others(h, c)' = Others(h, c)
  BY DEF Others, OnTheirWay
<1>4. /\ Cardinality(Others(h, c)) \in Nat /\ Amount(h, c) \in 0..MaxBytes
      /\ Taken(c) = Cardinality(Others(h, c)) + Amount(h, c)
  BY <1>1 DEF SplitUp
<1>5. /\ Amount(h, c)' \in 0..MaxBytes
      /\ Taken(c)' = Cardinality(Others(h, c))' + Amount(h, c)'
  BY <1>2 DEF SplitUp
<1> QED BY <1>3, <1>4, <1>5, Bounds

\* What a kind is, and what is of a kind.
LEMMA KindFact ==
  /\ \A op \in Ops : Kind(op) \in Kinds /\ KindsOf(op) \subseteq Kinds /\ Kind(op) \in KindsOf(op)
  /\ \A op \in Ops : KindsOf(op) = IF op = "combined" THEN {"inbound", "outbound"} ELSE {Kind(op)}
  /\ \A op \in Ops : op = "combined" => Kind(op) = "inbound"
  /\ \A c \in Counters : /\ c.kind \in Kinds /\ c.tag \in Tags /\ c.dir \in Directions
                         /\ c = [kind |-> c.kind, tag |-> c.tag, dir |-> c.dir]
<1>1. \A op \in Ops : /\ Kind(op) \in Kinds /\ KindsOf(op) \subseteq Kinds /\ Kind(op) \in KindsOf(op)
                      /\ KindsOf(op) = IF op = "combined" THEN {"inbound", "outbound"} ELSE {Kind(op)}
                      /\ op = "combined" => Kind(op) = "inbound"
  BY OpsAreRequests DEF Requests, Kinds, Kind, KindsOf
<1>2. \A c \in Counters : /\ c.kind \in UNION {KindsOf(op) : op \in Ops} /\ c.tag \in Tags
                          /\ c.dir \in Directions
                          /\ c = [kind |-> c.kind, tag |-> c.tag, dir |-> c.dir]
  BY DEF Counters
<1> QED BY <1>1, <1>2

Records == [pc : Kinds \cup {"idle", "answer"}, op : Requests \cup {None},
            tag : Tags \cup {None}, reset : BOOLEAN, got : [Counters -> 0..MaxBytes]]

\* A request that waits has got nothing.
LEMMA IdleFact == Idle \in Records /\ Fresh(Idle) /\ Idle.reset = FALSE
                  /\ \A c \in Counters : Idle.got[c] = 0
<1>1. Nothing \in [Counters -> 0..MaxBytes] /\ \A c \in Counters : Nothing[c] = 0
  BY Bounds DEF Nothing
<1>2. Idle \in Records /\ Idle.pc = "idle" /\ Idle.got = Nothing /\ Idle.reset = FALSE
  BY <1>1 DEF Idle, Records
<1>3. "idle" \notin Kinds
  BY DEF Kinds
<1> QED BY <1>1, <1>2, <1>3 DEF Fresh

\* A step of one request, which becomes r.
RequestStep(h, r) ==
  /\ r \in Records /\ Fresh(r) /\ handler' = [handler EXCEPT ![h] = r]
  /\ counter' \in [Counters -> Nat] /\ received' \in [Counters -> Nat]
  /\ generated' = generated /\ spoilt \subseteq spoilt' /\ spoilt' \subseteq Kinds
  /\ faults' \in 0..MaxFaults

\* A step of one request keeps the invariant when no byte is won, and none lost but of a
\* spoilt kind.
LEMMA OneRequest ==
  ASSUME TrafficInv, NEW h \in Handlers, NEW r \in Records, RequestStep(h, r),
         \A c \in Counters :
           LET own == IF r.reset THEN r.got[c] ELSE 0
           IN  /\ received'[c] + own + counter'[c] <= received[c] + Amount(h, c) + counter[c]
               /\ \/ c.kind \in spoilt'
                  \/ received'[c] + own + counter'[c] = received[c] + Amount(h, c) + counter[c]
  PROVE  TrafficInv'
<1>0. TrafficTypes /\ FreshInv /\ EveryByteOnce
  BY DEF TrafficInv
<1>1. /\ handler'[h] = r /\ handler' \in [Handlers -> Records]
      /\ \A g \in Handlers : g # h => handler'[g] = handler[g]
  BY <1>0 DEF TrafficTypes, RequestStep, Records
<1>2. TrafficTypes'
  BY <1>0, <1>1 DEF TrafficTypes, RequestStep, Records
<1>3. FreshInv'
  <2> SUFFICES ASSUME NEW g \in Handlers PROVE Fresh(handler'[g])
    BY DEF FreshInv, Fresh
  <2> QED BY <1>0, <1>1 DEF FreshInv, RequestStep
<1>4. EveryByteOnce'
  <2> SUFFICES ASSUME NEW c \in Counters
               PROVE  /\ received'[c] + Taken(c)' + counter'[c] <= generated'[c]
                      /\ c.kind \notin spoilt' =>
                           received'[c] + Taken(c)' + counter'[c] = generated'[c]
    BY DEF EveryByteOnce
  <2>1. /\ Taken(c) \in Nat /\ Taken(c)' \in Nat
        /\ Taken(c)' + Amount(h, c) = Taken(c) + Amount(h, c)'
        /\ Amount(h, c) \in Nat /\ Amount(h, c)' \in Nat
    BY <1>0, <1>1, <1>2, TakenChange
  <2>2. Amount(h, c)' = IF r.reset THEN r.got[c] ELSE 0
    BY <1>1 DEF Amount
  <2>3. /\ received'[c] + Amount(h, c)' + counter'[c] <= received[c] + Amount(h, c) + counter[c]
        /\ \/ c.kind \in spoilt'
           \/ received'[c] + Amount(h, c)' + counter'[c] = received[c] + Amount(h, c) + counter[c]
    BY <2>2
  <2>4. /\ received[c] + Taken(c) + counter[c] <= generated[c]
        /\ c.kind \notin spoilt => received[c] + Taken(c) + counter[c] = generated[c]
    BY <1>0 DEF EveryByteOnce
  <2>5. /\ counter[c] \in Nat /\ counter'[c] \in Nat /\ received[c] \in Nat /\ received'[c] \in Nat
        /\ generated'[c] = generated[c] /\ generated[c] \in Int
        /\ (c.kind \in spoilt => c.kind \in spoilt')
    BY <1>0, Bounds DEF TrafficTypes, RequestStep
  <2> HIDE DEF Amount, Taken
  <2> QED BY <2>1, <2>3, <2>4, <2>5
<1> QED BY <1>2, <1>3, <1>4 DEF TrafficInv

\* What a request and the core have.
LEMMA RequestFact ==
  ASSUME TrafficInv, NEW h \in Handlers
  PROVE  /\ handler[h] \in Records /\ Fresh(handler[h])
         /\ \A c \in Counters : /\ counter[c] \in 0..MaxBytes /\ received[c] \in Nat
                                /\ handler[h].got[c] \in 0..MaxBytes /\ handler[h].got[c] \in Nat
<1>1. /\ handler[h] \in Records /\ Fresh(handler[h])
      /\ counter \in [Counters -> Nat] /\ received \in [Counters -> Nat]
      /\ generated \in [Counters -> 0..MaxBytes] /\ MaxBytes \in Nat
  BY Bounds DEF TrafficInv, TrafficTypes, FreshInv, Records
<1>2. ASSUME NEW c \in Counters PROVE counter[c] \in 0..MaxBytes
  <2>1. Taken(c) \in Nat /\ received[c] + Taken(c) + counter[c] <= generated[c]
    BY TakenNat DEF TrafficInv, EveryByteOnce
  <2>2. counter[c] \in Nat /\ received[c] \in Nat /\ generated[c] \in 0..MaxBytes
    BY <1>1
  <2>3. \A n, t, r, g \in Nat : r + t + n <= g /\ g <= MaxBytes => n \in 0..MaxBytes
    BY <1>1
  <2>4. generated[c] \in Nat /\ generated[c] <= MaxBytes
    BY <1>1, <2>2
  <2> QED BY <2>1, <2>2, <2>3, <2>4
<1> QED BY <1>1, <1>2 DEF Records

\* A request begins.
LEMMA ReceiveInv ==
  ASSUME TrafficInv, NEW h \in Handlers, NEW op \in Ops, NEW tag \in Tags \cup {None},
         NEW reset \in BOOLEAN, Receive(h, op, tag, reset)
  PROVE  TrafficInv'
<1> DEFINE r == [pc |-> Kind(op), op |-> op, tag |-> tag, reset |-> reset, got |-> Nothing]
<1>1. Nothing \in [Counters -> 0..MaxBytes] /\ \A c \in Counters : Nothing[c] = 0
  BY Bounds DEF Nothing
<1>2. Kind(op) \in Kinds /\ Kind(op) \in KindsOf(op) /\ op \in Requests
  BY KindFact, OpsAreRequests
<1>3. r \in Records /\ r.got = Nothing /\ r.pc = Kind(op) /\ r.op = op /\ r.reset = reset
  BY <1>1, <1>2 DEF Records
<1>4. Fresh(r)
  BY <1>1, <1>2, <1>3 DEF Fresh, Kinds
<1>5. handler' = [handler EXCEPT ![h] = r] /\ UNCHANGED <<counter, generated, received, spoilt, faults>>
      /\ handler[h] = Idle
  BY RequestFact DEF Receive, Fresh
<1> HIDE DEF r
<1>6. RequestStep(h, r)
  BY <1>3, <1>4, <1>5 DEF RequestStep, TrafficInv, TrafficTypes
<1>7. \A c \in Counters : Amount(h, c) = 0 /\ (IF r.reset THEN r.got[c] ELSE 0) = 0
  BY <1>1, <1>3, <1>5, IdleFact DEF Amount
<1> QED BY <1>3, <1>5, <1>6, <1>7, OneRequest, RequestFact

\* What a query takes from the core is what the request gets, and it has got nothing of it.
LEMMA QueryOkInv == ASSUME TrafficInv, NEW h \in Handlers, QueryOk(h) PROVE TrafficInv'
<1> PICK q : q = handler[h]
  OBVIOUS
<1> DEFINE C == Pattern(q.pc, q.tag)
           got == Joined(q.got, Parsed(C))
           pc == IF q.op = "combined" /\ q.pc = "inbound" THEN "outbound" ELSE "answer"
           r == [q EXCEPT !.pc = pc, !.got = got]
<1>1. /\ q \in Records /\ Fresh(q) /\ MaxBytes \in Nat
      /\ \A c \in Counters : /\ counter[c] \in 0..MaxBytes /\ counter[c] \in Nat /\ received[c] \in Nat
                             /\ q.got[c] \in 0..MaxBytes /\ q.got[c] \in Nat
  BY RequestFact, Bounds
<1>2. /\ q.pc \in Kinds /\ QueryStats(C, q.reset) /\ handler' = [handler EXCEPT ![h] = r]
      /\ UNCHANGED <<generated, received, spoilt, faults>>
  BY DEF QueryOk, TrafficInv, TrafficTypes
<1>3. q.op \in Ops /\ q.pc \in KindsOf(q.op) /\ \A c \in Counters : c.kind \in {q.pc, "outbound"} => q.got[c] = 0
  BY <1>1, <1>2 DEF Fresh, Kinds
<1>4. ASSUME NEW c \in Counters
      PROVE  /\ c \in C => c.kind = q.pc /\ q.got[c] = 0 /\ got[c] = counter[c]
             /\ c \notin C => got[c] = q.got[c]
  BY <1>1, <1>3 DEF Pattern, Joined, Parsed
<1>5. got \in [Counters -> 0..MaxBytes]
  <2>1. got = [c \in Counters |-> got[c]]
    BY DEF Joined
  <2>2. \A c \in Counters : got[c] \in 0..MaxBytes
    BY <1>1, <1>4
  <2> HIDE DEF got
  <2> QED BY <2>1, <2>2
<1> HIDE DEF got
<1>6. r \in Records /\ r.pc = pc /\ r.got = got /\ r.op = q.op /\ r.reset = q.reset
  BY <1>1, <1>5 DEF Records, Kinds
<1>7. Fresh(r)
  <2>1. pc \in {"outbound", "answer"} /\ pc \notin {"idle"}
    OBVIOUS
  <2>2. pc = "outbound" => /\ "outbound" \in KindsOf(q.op)
                           /\ \A c \in Counters : c.kind = "outbound" => got[c] = 0
    BY <1>3, <1>4, KindFact
  <2>3. "answer" \notin Kinds
    BY DEF Kinds
  <2>4. \A c \in Counters : got[c] # 0 => c.kind \in KindsOf(q.op)
    BY <1>1, <1>3, <1>4 DEF Fresh
  <2> HIDE DEF pc
  <2> QED BY <1>3, <1>6, <2>1, <2>2, <2>3, <2>4 DEF Fresh
<1>8. \A c \in Counters : counter'[c] = IF q.reset /\ c \in C THEN 0 ELSE counter[c]
  BY <1>2 DEF QueryStats
<1>9. counter' \in [Counters -> Nat]
  BY <1>1, <1>2 DEF QueryStats, TrafficInv, TrafficTypes
<1> HIDE DEF r, C
<1>10. RequestStep(h, r)
  BY <1>2, <1>6, <1>7, <1>9 DEF RequestStep, TrafficInv, TrafficTypes
<1>11. \A c \in Counters : Amount(h, c) = IF q.reset THEN q.got[c] ELSE 0
  BY DEF Amount
<1>12. ASSUME NEW c \in Counters
       PROVE  /\ (IF r.reset THEN r.got[c] ELSE 0) + counter'[c] = Amount(h, c) + counter[c]
              /\ received'[c] = received[c] /\ counter'[c] \in Nat /\ Amount(h, c) \in Nat
              /\ (IF r.reset THEN r.got[c] ELSE 0) \in Nat
  BY <1>1, <1>2, <1>4, <1>6, <1>8, <1>11
<1>13. ASSUME NEW c \in Counters
       PROVE  LET own == IF r.reset THEN r.got[c] ELSE 0
              IN  received'[c] + own + counter'[c] = received[c] + Amount(h, c) + counter[c]
  <2> DEFINE own == IF r.reset THEN r.got[c] ELSE 0
  <2>1. /\ own + counter'[c] = Amount(h, c) + counter[c] /\ received'[c] = received[c]
        /\ counter'[c] \in Nat /\ Amount(h, c) \in Nat /\ own \in Nat
        /\ received[c] \in Nat /\ counter[c] \in Nat
    BY <1>1, <1>12
  <2> HIDE DEF own
  <2>2. received'[c] + own + counter'[c] = received[c] + Amount(h, c) + counter[c]
    BY <2>1
  <2> QED BY <2>2 DEF own
<1>14. \A c \in Counters : received[c] + Amount(h, c) + counter[c] \in Int
  BY <1>1, <1>12
<1> QED BY <1>6, <1>10, <1>13, <1>14, OneRequest

\* What ends without an answer loses bytes of the kinds it asked for, and no others.
LEMMA LostInv ==
  ASSUME TrafficInv, NEW h \in Handlers, QueryFails(h) \/ AnswerLost(h) PROVE TrafficInv'
<1> PICK q : q = handler[h]
  OBVIOUS
<1>1. /\ q \in Records /\ Fresh(q) /\ MaxBytes \in Nat
      /\ \A c \in Counters : /\ counter[c] \in Nat /\ received[c] \in Nat
                             /\ q.got[c] \in Nat
  BY RequestFact, Bounds
<1>2. q.pc # "idle" /\ q.op \in Ops /\ (q.pc \in Kinds => q.pc \in KindsOf(q.op))
  BY <1>1 DEF QueryFails, AnswerLost, Fresh, Kinds
<1>3. /\ handler' = [handler EXCEPT ![h] = Idle] /\ UNCHANGED <<generated, received>>
      /\ spoilt' = spoilt \cup KindsOf(q.op) /\ faults < MaxFaults /\ faults' = faults + 1
      /\ \/ counter' = counter
         \/ q.pc \in Kinds /\ QueryStats(Pattern(q.pc, q.tag), q.reset)
  BY DEF QueryFails, AnswerLost
<1>4. /\ counter' \in [Counters -> Nat]
      /\ \A c \in Counters : \/ counter'[c] = counter[c]
                             \/ counter'[c] = 0 /\ c.kind \in KindsOf(q.op)
  BY <1>1, <1>2, <1>3 DEF QueryStats, Pattern, TrafficInv, TrafficTypes
<1>5. RequestStep(h, Idle)
  BY <1>2, <1>3, <1>4, IdleFact, KindFact, Bounds DEF RequestStep, TrafficInv, TrafficTypes
<1>6. \A c \in Counters : /\ Amount(h, c) \in Nat
                          /\ Amount(h, c) # 0 => c.kind \in KindsOf(q.op)
  BY <1>1 DEF Amount, Fresh
<1>7. ASSUME NEW c \in Counters
      PROVE  LET own == IF Idle.reset THEN Idle.got[c] ELSE 0
             IN  /\ received'[c] + own + counter'[c] <= received[c] + Amount(h, c) + counter[c]
                 /\ \/ c.kind \in spoilt'
                    \/ received'[c] + own + counter'[c] = received[c] + Amount(h, c) + counter[c]
  BY <1>1, <1>3, <1>4, <1>6, IdleFact
<1> QED BY <1>5, <1>7, IdleFact, OneRequest

\* An answer lists all that its request has got.
LEMMA AnswerInv == ASSUME TrafficInv, NEW h \in Handlers, Answer(h) PROVE TrafficInv'
<1> PICK q : q = handler[h]
  OBVIOUS
<1>1. /\ q \in Records /\ MaxBytes \in Nat
      /\ \A c \in Counters : /\ counter[c] \in Nat /\ received[c] \in Nat
                             /\ q.got[c] \in Nat
  BY RequestFact, Bounds
<1>2. /\ received' = IF q.reset THEN Joined(received, Listed(q)) ELSE received
      /\ handler' = [handler EXCEPT ![h] = Idle]
      /\ UNCHANGED <<counter, generated, spoilt, faults>>
  BY DEF Answer
<1>3. ASSUME NEW c \in Counters PROVE Listed(q)[c] = q.got[c]
  <2>1. [c EXCEPT !.dir = c.dir] = c /\ c.dir \in Directions
    BY KindFact
  <2>2. (\A d \in Directions : q.got[[c EXCEPT !.dir = d]] = 0) => q.got[c] = 0
    BY <2>1
  <2> QED BY <2>2 DEF Listed
<1>4. \A c \in Counters : Amount(h, c) \in Nat /\ received'[c] = received[c] + Amount(h, c)
  BY <1>1, <1>2, <1>3 DEF Amount, Joined
<1>5. received' \in [Counters -> Nat]
  <2>1. CASE q.reset
    BY <1>1, <1>2, <1>3, <2>1 DEF Joined
  <2>2. CASE ~q.reset
    BY <1>2, <2>2 DEF TrafficInv, TrafficTypes
  <2> QED BY <2>1, <2>2
<1>6. RequestStep(h, Idle)
  BY <1>2, <1>5, IdleFact DEF RequestStep, TrafficInv, TrafficTypes
<1>7. ASSUME NEW c \in Counters
      PROVE  LET own == IF Idle.reset THEN Idle.got[c] ELSE 0
             IN  /\ received'[c] + own + counter'[c] <= received[c] + Amount(h, c) + counter[c]
                 /\ received'[c] + own + counter'[c] = received[c] + Amount(h, c) + counter[c]
  BY <1>1, <1>2, <1>4, IdleFact
<1> QED BY <1>6, <1>7, IdleFact, OneRequest

\* Traffic, and a core that counts from zero.
LEMMA CoreInv ==
  ASSUME TrafficInv, CoreRestart \/ \E c \in Counters : Traffic(c)
  PROVE  TrafficInv'
<1>1. /\ handler' = handler /\ received' = received /\ MaxBytes \in Nat /\ MaxFaults \in Nat
      /\ \A c \in Counters : Taken(c)' = Taken(c)
      /\ TrafficTypes /\ EveryByteOnce
  BY Bounds DEF CoreRestart, Traffic, TrafficInv, Taken, OnTheirWay
<1>2. ASSUME NEW c \in Counters PROVE Taken(c) \in Nat /\ counter[c] \in Nat /\ received[c] \in Nat
  BY <1>1, TakenNat DEF TrafficTypes
<1>3. FreshInv'
  BY <1>1 DEF TrafficInv, FreshInv, Fresh
<1>4. CASE CoreRestart
  <2>1. \A c \in Counters : counter'[c] = 0 /\ counter' \in [Counters -> Nat] /\ c.kind \in Kinds
    BY <1>4, KindFact DEF CoreRestart, Nothing
  <2>2. generated' = generated /\ spoilt' = Kinds /\ faults' \in 0..MaxFaults
        /\ counter' \in [Counters -> Nat]
    BY <1>1, <1>4 DEF CoreRestart, TrafficTypes, Nothing
  <2>3. TrafficTypes'
    BY <1>1, <2>2 DEF TrafficTypes
  <2>4. \A c \in Counters : generated[c] \in Int
    BY <1>1 DEF TrafficTypes
  <2>5. EveryByteOnce'
    BY <1>1, <1>2, <2>1, <2>2, <2>4 DEF EveryByteOnce
  <2> QED BY <1>3, <2>3, <2>5 DEF TrafficInv
<1>5. ASSUME NEW d \in Counters, Traffic(d) PROVE TrafficInv'
  <2>1. /\ counter' = [counter EXCEPT ![d] = @ + 1] /\ generated' = [generated EXCEPT ![d] = @ + 1]
        /\ UNCHANGED <<spoilt, faults>> /\ generated[d] < MaxBytes
    BY <1>5 DEF Traffic
  <2>2. TrafficTypes'
    BY <1>1, <2>1 DEF TrafficTypes
  <2>3. ASSUME NEW c \in Counters
        PROVE  \/ counter'[c] = counter[c] /\ generated'[c] = generated[c]
               \/ counter'[c] = counter[c] + 1 /\ generated'[c] = generated[c] + 1
    BY <1>1, <2>1 DEF TrafficTypes
  <2>4. \A c \in Counters : generated[c] \in Int
    BY <1>1 DEF TrafficTypes
  <2>5. EveryByteOnce'
    BY <1>1, <1>2, <2>1, <2>3, <2>4 DEF EveryByteOnce
  <2> QED BY <1>3, <2>2, <2>5 DEF TrafficInv
<1> QED BY <1>4, <1>5

\* The invariant holds at the start.
LEMMA InitTrafficInv == TrafficInit => TrafficInv
<1> SUFFICES ASSUME TrafficInit PROVE TrafficInv
  OBVIOUS
<1>1. /\ counter = Nothing /\ generated = Nothing /\ received = Nothing
      /\ handler = [h \in Handlers |-> Idle] /\ spoilt = {} /\ faults = 0
  BY DEF TrafficInit
<1>2. Nothing \in [Counters -> 0..MaxBytes] /\ Nothing \in [Counters -> Nat]
      /\ \A c \in Counters : Nothing[c] = 0
  BY Bounds DEF Nothing
<1>3. TrafficTypes
  BY <1>1, <1>2, IdleFact, Bounds DEF TrafficTypes, Records
<1>4. FreshInv
  BY <1>1, IdleFact DEF FreshInv
<1>5. \A c \in Counters : Taken(c) = 0
  BY <1>1, IdleFact, FS_EmptySet DEF Taken, OnTheirWay
<1>6. EveryByteOnce
  BY <1>1, <1>2, <1>5 DEF EveryByteOnce
<1> QED BY <1>3, <1>4, <1>6 DEF TrafficInv

\* For any number of requests, tags, faults and bytes: what requests have got, of which
\* kinds, and where every byte is.
THEOREM TrafficInvariant == TrafficSpec => []TrafficInv
<1>1. TrafficInv /\ [TrafficNext]_trafficVars => TrafficInv'
  <2> SUFFICES ASSUME TrafficInv, [TrafficNext]_trafficVars PROVE TrafficInv'
    OBVIOUS
  <2>1. CASE UNCHANGED trafficVars
    BY <2>1 DEF trafficVars, TrafficInv, TrafficTypes, FreshInv, Fresh, EveryByteOnce, Taken, OnTheirWay
  <2> QED BY <2>1, ReceiveInv, QueryOkInv, LostInv, AnswerInv, CoreInv DEF TrafficNext
<1> QED BY <1>1, InitTrafficInv, PTL DEF TrafficSpec

\* The counters, the requests and what was received have their types.
THEOREM TrafficTypeCorrect == TrafficSpec => []TrafficTypeOK
<1>1. TrafficInv => TrafficTypeOK
  <2> SUFFICES ASSUME TrafficInv PROVE TrafficTypeOK
    OBVIOUS
  <2>1. TrafficTypes /\ EveryByteOnce
    BY DEF TrafficInv
  <2>2. ASSUME NEW c \in Counters
        PROVE  counter[c] \in 0..MaxBytes /\ received[c] \in 0..MaxBytes
    <3>1. Taken(c) \in Nat
      BY TakenNat
    <3>2. counter[c] \in Nat /\ received[c] \in Nat /\ generated[c] \in 0..MaxBytes /\ MaxBytes \in Nat
      BY <2>1, Bounds DEF TrafficTypes
    <3>3. received[c] + Taken(c) + counter[c] <= generated[c]
      BY <2>1 DEF EveryByteOnce
    <3> QED BY <3>1, <3>2, <3>3
  <2>3. counter \in [Counters -> 0..MaxBytes] /\ received \in [Counters -> 0..MaxBytes]
    BY <2>1, <2>2 DEF TrafficTypes
  <2> QED BY <2>1, <2>3 DEF TrafficTypes, TrafficTypeOK
<1> QED BY <1>1, TrafficInvariant, PTL

\* No byte of the traffic that the handlers of internal/stats report is charged twice, and
\* none is lost by requests that succeed.
THEOREM EveryByteOnceHolds == TrafficSpec => []EveryByteOnce
<1>1. TrafficInv => EveryByteOnce
  BY DEF TrafficInv
<1> QED BY <1>1, TrafficInvariant, PTL

-----------------------------------------------------------------------------
(* The five together, as MCStatistics explores them.                       *)

\* A part that is not chosen rests, so what MCStatistics does is what the modules do.
LEMMA PartsOfStatistics ==
  StatisticsSpec => TrafficSpec /\ AddressSpec /\ GeocheckSpec /\ NetworkSpec /\ SetSpec
<1>1. StatisticsInit => TrafficInit /\ AddressInit /\ GeocheckInit /\ NetworkInit /\ SetInit
  BY DEF StatisticsInit
<1>2. ASSUME [StatisticsNext]_everything
      PROVE  /\ [TrafficNext]_trafficVars /\ [AddressNext]_addressVars
             /\ [GeocheckNext]_geocheckVars /\ [NetworkNext]_networkVars /\ [SetNext]_setVars
  BY <1>2 DEF StatisticsNext, everything
<1> QED BY <1>1, <1>2, PTL DEF StatisticsSpec, TrafficSpec, AddressSpec, GeocheckSpec, NetworkSpec, SetSpec

\* Whatever part is chosen, the counters, requests, rows, buffers and samples have their
\* types, for all values of the constants.
THEOREM StatisticsTypeCorrect == StatisticsSpec => []StatisticsTypeOK
<1> QED BY PartsOfStatistics, TrafficTypeCorrect, AddressTypeCorrect, GeocheckTypeCorrect, NetworkTypeCorrect, PTL
        DEF StatisticsTypeOK
=============================================================================
