--------------------------- MODULE NetworkMonitor ---------------------------
(***************************************************************************)
(* The rates of the default interface, internal/system/network.go: a loop  *)
(* reads the counters of the kernel, and the difference to the sample      *)
(* before is the rate.  The counters wrap, the interface may be made anew, *)
(* vanish and come back.  Samples of other interfaces are kept but never   *)
(* used, so the model has the default one only.                            *)
(***************************************************************************)
EXTENDS Integers

CONSTANTS
  CounterBits, \* bits of a counter
  Starts,      \* the counters when the agent starts
  MaxCarried,  \* bound: the bytes carried in each direction
  MaxAge,      \* bound: the longest time between two samples that is told apart
  NoSample

VARIABLES
  hasDefault,  \* whether there was a default route, and so an interface, at the start
  present,     \* whether the interface is there
  netCounters, \* its counters
  carried,     \* the bytes it has carried in all
  previous,    \* the sample before: the counters, and what had been carried
  age,         \* the time since previous.timestamp
  sample,      \* tick: what readProcNetDev has read
  current,     \* the rates that GetDefaultInterface copies
  loop,        \* the loop: waiting, reading or ended
  stop         \* whether the stop channel is closed

networkVars == <<hasDefault, present, netCounters, carried, previous, age, sample, current, loop, stop>>

RxTx == {"rx", "tx"}
Modulus == 2 ^ CounterBits

ASSUME CountersAssumption == Modulus \in Nat \ {0} /\ Starts \subseteq [RxTx -> 0..(Modulus - 1)]
ASSUME BoundsAssumption == MaxCarried \in Nat /\ MaxAge \in Nat

\* readProcNetDev: nothing of an interface that is not there.
ReadProcNetDev == IF present THEN [bytes |-> netCounters, at |-> carried] ELSE NoSample

NetworkInit ==
  /\ hasDefault \in BOOLEAN /\ present \in BOOLEAN
  /\ netCounters \in Starts
  /\ carried = [d \in RxTx |-> 0]
  /\ previous = ReadProcNetDev
  /\ age = 0 /\ sample = NoSample /\ current = NoSample
  /\ loop = "wait" /\ stop = FALSE

Carry(d) ==
  /\ present /\ carried[d] < MaxCarried
  /\ carried' = [carried EXCEPT ![d] = @ + 1]
  /\ netCounters' = [netCounters EXCEPT ![d] = (@ + 1) % Modulus]
  /\ UNCHANGED <<hasDefault, present, previous, age, sample, current, loop, stop>>

\* The interface is removed.
Vanish ==
  /\ present
  /\ present' = FALSE
  /\ UNCHANGED <<hasDefault, netCounters, carried, previous, age, sample, current, loop, stop>>

\* It is made anew, with counters at zero, or was only renamed.
Return ==
  /\ ~present
  /\ present' = TRUE /\ netCounters' \in {netCounters, [d \in RxTx |-> 0]}
  /\ UNCHANGED <<hasDefault, carried, previous, age, sample, current, loop, stop>>

TimePasses ==
  /\ age < MaxAge
  /\ age' = age + 1
  /\ UNCHANGED <<hasDefault, present, netCounters, carried, previous, sample, current, loop, stop>>

\* The ticker fires; when the stop channel is closed too, either may be taken.
Tick ==
  /\ loop = "wait"
  /\ sample' = ReadProcNetDev /\ loop' = "read"
  /\ UNCHANGED <<hasDefault, present, netCounters, carried, previous, age, current, stop>>

\* Mutant: a counter that went back is subtracted all the same.
UsableAlways == hasDefault /\ sample # NoSample /\ previous # NoSample /\ age > 0

\* A counter that went back has wrapped or is that of a new interface.
Usable ==
  /\ hasDefault /\ sample # NoSample /\ previous # NoSample /\ age > 0
  /\ \A d \in RxTx : sample.bytes[d] >= previous.bytes[d]

\* The difference of unsigned numbers.
Minus(x, y) == IF x >= y THEN x - y ELSE x + Modulus - y

\* A float divided by zero becomes the least integer.
Rate(bytes, elapsed) == IF elapsed = 0 THEN -Modulus ELSE bytes \div elapsed

Rates ==
  [rate |-> [d \in RxTx |-> Rate(Minus(sample.bytes[d], previous.bytes[d]), age)],
   total |-> sample.bytes,
   elapsed |-> age,
   moved |-> [d \in RxTx |-> sample.at[d] - previous.at[d]]]

\* The rest of tick, under the lock.
Apply ==
  /\ loop = "read"
  /\ current' = IF Usable THEN Rates ELSE current
  /\ IF sample # NoSample THEN previous' = sample /\ age' = 0 ELSE UNCHANGED <<previous, age>>
  /\ sample' = NoSample /\ loop' = "wait"
  /\ UNCHANGED <<hasDefault, present, netCounters, carried, stop>>

\* Stop, of any number of callers.
Stop ==
  /\ stop' = TRUE
  /\ UNCHANGED <<hasDefault, present, netCounters, carried, previous, age, sample, current, loop>>

LoopEnds ==
  /\ loop = "wait" /\ stop
  /\ loop' = "ended"
  /\ UNCHANGED <<hasDefault, present, netCounters, carried, previous, age, sample, current, stop>>

NetworkNext ==
  \/ \E d \in RxTx : Carry(d)
  \/ Vanish \/ Return \/ TimePasses
  \/ Tick \/ Apply \/ Stop \/ LoopEnds

NetworkSpec == NetworkInit /\ [][NetworkNext]_networkVars

\* Time passes and the loop runs.  A tick comes again and again at a time when the
\* clock has moved; of two channels that are ready again and again, each is taken.
NetworkFairSpec ==
  /\ NetworkSpec
  /\ WF_networkVars(TimePasses) /\ WF_networkVars(Apply)
  /\ SF_networkVars(Tick /\ age = MaxAge) /\ SF_networkVars(LoopEnds)

-----------------------------------------------------------------------------
Sample == [bytes : [RxTx -> 0..(Modulus - 1)], at : [RxTx -> 0..MaxCarried]]

NetworkTypeOK ==
  /\ hasDefault \in BOOLEAN /\ present \in BOOLEAN /\ stop \in BOOLEAN
  /\ netCounters \in [RxTx -> 0..(Modulus - 1)] /\ carried \in [RxTx -> 0..MaxCarried]
  /\ previous \in Sample \cup {NoSample} /\ sample \in Sample \cup {NoSample}
  /\ age \in 0..MaxAge /\ loop \in {"wait", "read", "ended"}
  /\ current # NoSample =>
       /\ current.rate \in [RxTx -> 0..(Modulus - 1)] /\ current.total \in [RxTx -> 0..(Modulus - 1)]
       /\ current.elapsed \in 1..MaxAge

\* A rate that is shown was carried: neither a counter that wraps nor an interface
\* that is made anew between two samples makes it larger than the traffic was.
RateIsCarried ==
  current # NoSample => \A d \in RxTx : current.rate[d] * current.elapsed <= current.moved[d]

\* After a wrap, or a time without the interface, the rates are followed again: when
\* it stays there and the monitor is not stopped, the totals shown become its counters.
CatchesUp ==
  hasDefault /\ <>[](present /\ ~stop) => <>[](current # NoSample /\ current.total = netCounters)
=============================================================================
