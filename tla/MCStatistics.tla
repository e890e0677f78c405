---------------------------- MODULE MCStatistics ----------------------------
(***************************************************************************)
(* What the agent and the Panel tell each other: the traffic rw-core       *)
(* counted, the addresses of its users, a geocheck, the rates of the       *)
(* network interface, and the hash of a set of users.  The five share no   *)
(* state in the code, so one run explores them one at a time: `part` is    *)
(* chosen at the start, the others rest in one initial state.              *)
(***************************************************************************)
EXTENDS TrafficStats, UserIPs, Geocheck, NetworkMonitor, HashedSet

CONSTANTS
  u1, u2, u3, \* users
  h1, h2, addr

VARIABLE part
everything == <<trafficVars, addressVars, geocheckVars, networkVars, setVars, part>>

-----------------------------------------------------------------------------
(* Traffic: of users in both directions, or in one direction of tags by    *)
(* combined requests beside one for a single outbound.  Requests are       *)
(* interchangeable: a new one is the first that is free.                   *)
OpsOf(p) == IF p = "users" THEN {"users"} ELSE {"combined", "outbound"}
CountersOf(p) ==
  IF p = "users" THEN {c \in Counters : c.kind = "user"}
  ELSE {c \in Counters : c.kind # "user" /\ c.dir = "uplink"}
TrafficOf(p) ==
  /\ \A h \in Handlers : handler'[h].op \in OpsOf(p) \cup {None}
  /\ \A c \in Counters : generated'[c] > 0 => c \in CountersOf(p)
  /\ handler[h2] = Idle /\ handler'[h2] # Idle => handler[h1] # Idle

(* Addresses: a user that is reported twice, a metric of another form,     *)
(* more users than workers, nobody.                                        *)
SomeMetrics == {<<u1, u2, u1, OtherForm, u3>>, <<u2, u2>>, <<>>}

(* Geocheck: programs that write less than, exactly and more than what is  *)
(* kept of each output, in one or several writes.                          *)
SmallLimits == [stdout |-> 2, stderr |-> 1]

(* Network: counters that the bytes which are carried wrap; those that are *)
(* sent stand still, but for a new interface.                              *)
ReceivedOnly == carried'["tx"] = 0
NearWrap == {[rx |-> Modulus - 1, tx |-> Modulus - 2]}

(* Hashes: five short strings, two of them of the same characters.         *)
ShortStrings == {<<48>>, <<49>>, <<48, 49>>, <<49, 48>>, <<97, 45, 97>>}

-----------------------------------------------------------------------------
StatisticsInit ==
  /\ part \in {"users", "tags", "addresses", "geocheck", "network", "hashes"}
  /\ TrafficInit
  /\ online \in IF part = "addresses" THEN [Users -> SUBSET Addresses] ELSE {[u \in Users |-> {}]}
  /\ AddressInit
  /\ GeocheckInit
  /\ hasDefault \in BOOLEAN /\ present \in BOOLEAN
  /\ part # "network" => ~hasDefault /\ present
  /\ NetworkInit
  /\ SetInit

StatisticsNext ==
  \/ /\ part \in {"users", "tags"} /\ TrafficNext /\ TrafficOf(part)
     /\ UNCHANGED <<addressVars, geocheckVars, networkVars, setVars, part>>
  \/ /\ part = "addresses" /\ AddressNext
     /\ UNCHANGED <<trafficVars, geocheckVars, networkVars, setVars, part>>
  \/ /\ part = "geocheck" /\ GeocheckNext
     /\ UNCHANGED <<trafficVars, addressVars, networkVars, setVars, part>>
  \/ /\ part = "network" /\ NetworkNext /\ ReceivedOnly
     /\ UNCHANGED <<trafficVars, addressVars, geocheckVars, setVars, part>>
  \/ /\ part = "hashes" /\ SetNext
     /\ UNCHANGED <<trafficVars, addressVars, geocheckVars, networkVars, part>>

\* The fairness of each part is the one its module states.
StatisticsSpec ==
  /\ StatisticsInit /\ [][StatisticsNext]_everything
  /\ WF_addressVars(part = "addresses" /\ Main)
  /\ \A w \in Workers : WF_addressVars(part = "addresses" /\ Worker(w))
  /\ \A h \in Callers : /\ WF_geocheckVars(part = "geocheck" /\ Handle(h))
                        /\ WF_geocheckVars(part = "geocheck" /\ Kill(h))
  /\ WF_networkVars(part = "network" /\ TimePasses)
  /\ WF_networkVars(part = "network" /\ Apply)
  /\ SF_networkVars(part = "network" /\ Tick /\ age = MaxAge)
  /\ SF_networkVars(part = "network" /\ LoopEnds)

-----------------------------------------------------------------------------
StatisticsTypeOK == TrafficTypeOK /\ AddressTypeOK /\ GeocheckTypeOK /\ NetworkTypeOK

\* What is begun for a report ends: GetUsersIPList returns, whatever calls fail and
\* whenever the Panel goes away; a geocheck that hangs or cannot be run does not keep
\* later ones away; and a stop ends the network monitor, whatever else is ready, which
\* until then follows the counters again after every wrap.
Reporting == main.pc \in {"enqueue", "wait"} \/ running \/ (stop /\ loop # "ended")
ReportingGoesOn == (Reporting ~> ~Reporting) /\ CatchesUp
=============================================================================
