---------------------------- MODULE TrafficStats ----------------------------
(***************************************************************************)
(* The traffic the Panel collects: the handlers of internal/stats and the  *)
(* queries of internal/xtls/stats.go behind them.  rw-core counts the      *)
(* bytes of users, inbounds and outbounds.  A query reads the counters     *)
(* that match and, when it is to reset, takes what it read away from them; *)
(* from then on the bytes exist only in the answer.  Several requests run  *)
(* at once; calls fail before or after the core has done its part, answers *)
(* get lost, the core restarts.                                            *)
(*                                                                         *)
(* Bytes are counted one by one.  What the Panel has received is kept only *)
(* to state what must not happen to it.                                    *)
(***************************************************************************)
EXTENDS Integers, FiniteSets

CONSTANTS
  Handlers, \* requests in progress
  Tags,     \* users, inbounds and outbounds by name
  Ops,      \* the requests that are considered
  None,
  MaxBytes, \* bound: bytes of a counter
  MaxFaults \* bound: failed calls, lost answers and restarts of the core

ASSUME Bounds == MaxBytes \in Nat /\ MaxFaults \in Nat
ASSUME FinitelyMany == IsFiniteSet(Handlers)

Kinds == {"user", "inbound", "outbound"}
Directions == {"uplink", "downlink"}
Requests == {"users", "inbound", "outbound", "inbounds", "outbounds", "combined"}
ASSUME OpsAreRequests == Ops \subseteq Requests

Kind(op) == CASE op = "users" -> "user"
              [] op \in {"inbound", "inbounds", "combined"} -> "inbound"
              [] op \in {"outbound", "outbounds"} -> "outbound"

\* The kinds a request takes; a combined one goes on with the outbounds.
KindsOf(op) == {Kind(op)} \cup IF op = "combined" THEN {"outbound"} ELSE {}

\* Counters no request asks for are left out.
Counters == [kind : UNION {KindsOf(op) : op \in Ops}, tag : Tags, dir : Directions]

VARIABLES
  counter,   \* the counters of rw-core
  handler,   \* of each request: where it is, what it asks for and what it has got
  generated, \* every byte that was counted
  received,  \* what the Panel added up from answers to requests that reset
  spoilt,    \* the kinds of which a call failed or an answer was lost
  faults

trafficVars == <<counter, handler, generated, received, spoilt, faults>>

Nothing == [c \in Counters |-> 0]
Idle == [pc |-> "idle", op |-> None, tag |-> None, reset |-> FALSE, got |-> Nothing]

TrafficInit ==
  /\ counter = Nothing /\ generated = Nothing /\ received = Nothing
  /\ handler = [h \in Handlers |-> Idle]
  /\ spoilt = {} /\ faults = 0

\* Traffic flows through rw-core.
Traffic(c) ==
  /\ generated[c] < MaxBytes
  /\ counter' = [counter EXCEPT ![c] = @ + 1]
  /\ generated' = [generated EXCEPT ![c] = @ + 1]
  /\ UNCHANGED <<handler, received, spoilt, faults>>

\* The counters a query of a kind matches; with a tag only those of the tag.
Pattern(kind, tag) == {c \in Counters : c.kind = kind /\ (tag # None => c.tag = tag)}

\* The request is decoded.  Without a tag an inbound or outbound is refused.
Receive(h, op, tag, reset) ==
  /\ handler[h].pc = "idle"
  /\ tag # None => op \in {"inbound", "outbound"}
  /\ ~(op \in {"inbound", "outbound"} /\ tag = None)
  /\ handler' = [handler EXCEPT ![h] =
       [pc |-> Kind(op), op |-> op, tag |-> tag, reset |-> reset, got |-> Nothing]]
  /\ UNCHANGED <<counter, generated, received, spoilt, faults>>

\* The core's side of QueryStats.
QueryStats(C, reset) ==
  counter' = IF reset THEN [c \in Counters |-> IF c \in C THEN 0 ELSE counter[c]] ELSE counter

\* What the parsers make of the answer: the values by tag and direction, in
\* whatever order the statistics come.
Parsed(C) == [c \in Counters |-> IF c \in C THEN counter[c] ELSE 0]

Joined(x, y) == [c \in Counters |-> x[c] + y[c]]

\* Mutant: the second query of a combined request overwrites the first.
QueryOkLast(h) ==
  LET r == handler[h]
      C == Pattern(r.pc, r.tag)
  IN  /\ r.pc \in Kinds
      /\ QueryStats(C, r.reset)
      /\ handler' = [handler EXCEPT
           ![h].pc = IF r.op = "combined" /\ r.pc = "inbound" THEN "outbound" ELSE "answer",
           ![h].got = Parsed(C)]
      /\ UNCHANGED <<generated, received, spoilt, faults>>

\* A call that succeeds.  A combined request goes on with the outbounds.
QueryOk(h) ==
  LET r == handler[h]
      C == Pattern(r.pc, r.tag)
  IN  /\ r.pc \in Kinds
      /\ QueryStats(C, r.reset)
      /\ handler' = [handler EXCEPT
           ![h].pc = IF r.op = "combined" /\ r.pc = "inbound" THEN "outbound" ELSE "answer",
           ![h].got = Joined(@, Parsed(C))]
      /\ UNCHANGED <<generated, received, spoilt, faults>>

\* A call that fails, before or after the core has reset what it counts.  The
\* request is answered with an error, and what it has got is dropped.
QueryFails(h) ==
  LET r == handler[h] IN
  /\ r.pc \in Kinds /\ faults < MaxFaults
  /\ \/ UNCHANGED counter
     \/ QueryStats(Pattern(r.pc, r.tag), r.reset)
  /\ handler' = [handler EXCEPT ![h] = Idle]
  /\ spoilt' = spoilt \cup KindsOf(handler[h].op) /\ faults' = faults + 1
  /\ UNCHANGED <<generated, received>>

\* Users without traffic are left out of the answer.
Listed(r) == [c \in Counters |->
  IF r.op = "users" /\ \A d \in Directions : r.got[[c EXCEPT !.dir = d]] = 0 THEN 0 ELSE r.got[c]]

Answer(h) ==
  LET r == handler[h] IN
  /\ r.pc = "answer"
  /\ received' = IF r.reset THEN Joined(received, Listed(r)) ELSE received
  /\ handler' = [handler EXCEPT ![h] = Idle]
  /\ UNCHANGED <<counter, generated, spoilt, faults>>

\* The Panel has gone away.
AnswerLost(h) ==
  /\ handler[h].pc = "answer" /\ faults < MaxFaults
  /\ handler' = [handler EXCEPT ![h] = Idle]
  /\ spoilt' = spoilt \cup KindsOf(handler[h].op) /\ faults' = faults + 1
  /\ UNCHANGED <<counter, generated, received>>

\* A new core counts from zero.
CoreRestart ==
  /\ faults < MaxFaults
  /\ counter' = Nothing
  /\ spoilt' = Kinds /\ faults' = faults + 1
  /\ UNCHANGED <<handler, generated, received>>

TrafficNext ==
  \/ \E c \in Counters : Traffic(c)
  \/ \E h \in Handlers :
       \/ \E op \in Ops, tag \in Tags \cup {None}, reset \in BOOLEAN : Receive(h, op, tag, reset)
       \/ QueryOk(h) \/ QueryFails(h) \/ Answer(h) \/ AnswerLost(h)
  \/ CoreRestart

TrafficSpec == TrafficInit /\ [][TrafficNext]_trafficVars

-----------------------------------------------------------------------------
TrafficTypeOK ==
  /\ counter \in [Counters -> 0..MaxBytes] /\ generated \in [Counters -> 0..MaxBytes]
  /\ received \in [Counters -> 0..MaxBytes]
  /\ \A h \in Handlers :
       /\ handler[h].pc \in Kinds \cup {"idle", "answer"}
       /\ handler[h].op \in Requests \cup {None} /\ handler[h].tag \in Tags \cup {None}
       /\ handler[h].reset \in BOOLEAN /\ handler[h].got \in [Counters -> 0..MaxBytes]
  /\ spoilt \in SUBSET Kinds /\ faults \in 0..MaxFaults

\* The bytes that answers on their way hold and the core no longer has, each with its
\* request, and how many they are.
OnTheirWay(c) ==
  {b \in Handlers \X (1..MaxBytes) : handler[b[1]].reset /\ b[2] <= handler[b[1]].got[c]}
Taken(c) == Cardinality(OnTheirWay(c))

\* No byte is charged twice, however requests overlap, fail and are repeated: what
\* was received, what is on its way and what is still counted never exceed the traffic.
\* And none is lost by requests that succeed: only a failed call, a lost answer or a
\* restarted core can take bytes of its kinds.  A combined request whose second query
\* fails has lost the inbounds' bytes of its first.
EveryByteOnce ==
  \A c \in Counters :
    LET accounted == received[c] + Taken(c) + counter[c]
    IN  accounted <= generated[c] /\ (c.kind \notin spoilt => accounted = generated[c])
=============================================================================
