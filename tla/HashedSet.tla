------------------------------ MODULE HashedSet ------------------------------
(***************************************************************************)
(* The set of users of an inbound as internal/xray/hashedset.go keeps it:  *)
(* its members and, beside them, the exclusive or of the hashes of all     *)
(* members, brought up to date with every addition and deletion.  The      *)
(* Panel keeps such a set too and sends its hash; the node restarts the    *)
(* core when the hashes differ.  Two sets therefore have to have the same  *)
(* hash whenever they have the same members, whatever additions, repeated  *)
(* additions and deletions led to them, in whatever order.                 *)
(*                                                                         *)
(* A hash is the set of its bits that are one, an exclusive or of hashes   *)
(* the symmetric difference.  Width is 32 in the code, smaller for TLC.    *)
(***************************************************************************)
EXTENDS Integers, FiniteSets, SequencesExt

CONSTANTS
  Sides,  \* the sets that are compared: the node's and the Panel's
  Values, \* strings, as sequences of bytes
  Width   \* bits of each of the two hashes

ASSUME ByteStrings == Values \subseteq Seq(0..255) /\ IsFiniteSet(Values)
ASSUME WidthPositive == Width \in Nat \ {0}

VARIABLES members, hash
setVars == <<members, hash>>

Bits(n) == {b \in 0..(Width - 1) : (n \div 2^b) % 2 = 1}

High(value) == FoldLeft(LAMBDA h, c : (h * 33 + c) % 2^Width, 5381 % 2^Width, value)
Low(value) == FoldLeft(LAMBDA h, c : (h * 65 + c * 37) % 2^Width, 5387 % 2^Width, value)

\* Bits 0 and up are those of the high hash, bits Width and up those of the low one.
djb2Dual(value) == Bits(High(value)) \cup {Width + b : b \in Bits(Low(value))}

Xor(x, y) == (x \ y) \cup (y \ x)

SetInit ==
  /\ members = [s \in Sides |-> {}]
  /\ hash = [s \in Sides |-> {}]

Add(s, value) ==
  /\ value \notin members[s]
  /\ members' = [members EXCEPT ![s] = @ \cup {value}]
  /\ hash' = [hash EXCEPT ![s] = Xor(@, djb2Dual(value))]

Delete(s, value) ==
  /\ value \in members[s]
  /\ members' = [members EXCEPT ![s] = @ \ {value}]
  /\ hash' = [hash EXCEPT ![s] = Xor(@, djb2Dual(value))]

\* Mutant: the members are replaced and the hash goes on.
NewHashedSetStale(s) ==
  /\ members' = [members EXCEPT ![s] = {}]
  /\ UNCHANGED hash

\* NewHashedSet: a start forgets the set; the clients of its configuration are
\* added one after the other.
NewHashedSet(s) ==
  /\ members' = [members EXCEPT ![s] = {}]
  /\ hash' = [hash EXCEPT ![s] = {}]

SetNext == \E s \in Sides :
  \/ \E value \in Values : Add(s, value) \/ Delete(s, value)
  \/ NewHashedSet(s)

SetSpec == SetInit /\ [][SetNext]_setVars

-----------------------------------------------------------------------------
AllBits == 0..(2 * Width - 1)

\* Two sets with the same members have the same hash: a start whose users are
\* those of the core is not answered with a restart (isNeedRestartCoreLocked).
SameUsersSameHash ==
  \A s, t \in Sides : members[s] = members[t] => hash[s] = hash[t]

\* What the incremental hash amounts to: a bit is one when an odd number of
\* members have it.  No order and no history of additions enters into it.
Carriers(S, b) == {v \in S : b \in djb2Dual(v)}
HashIsOfMembers ==
  \A s \in Sides : hash[s] = {b \in AllBits : Cardinality(Carriers(members[s], b)) % 2 = 1}

\* Sets that differ in one member, as after one user handler that was lost, have
\* different hashes, unless that member hashes to zero.
OneUserApart ==
  \A s, t \in Sides, value \in Values :
    /\ value \notin members[s] /\ members[t] = members[s] \cup {value}
    /\ djb2Dual(value) # {}
    => hash[s] # hash[t]
=============================================================================
