----------------------------- MODULE ManagedNode -----------------------------
(***************************************************************************)
(* What the agent promises the Panel about rw-core, whatever its           *)
(* goroutines, the core and the service manager do: one core at most, run  *)
(* for a start and serving what that start asked for; a start ends with    *)
(* the core down, or serving the request that a reboot would restore; a    *)
(* request is forgotten, and erased from the disk, only once the core is   *)
(* down.                                                                   *)
(***************************************************************************)
CONSTANTS
  Requests, \* start requests
  HashOf,   \* the inbound hashes carried by each request
  Cores,    \* identities of rw-core processes
  None      \* no request

VARIABLES
  up,      \* whether the agent runs
  request, \* the request of the start in progress
  alive,   \* the cores that boot or serve
  serving, \* the hashes of what is served
  memory,  \* the request the agent would flush to the disk
  saved    \* the request a new agent would restore

agent == <<up, request>>
node  == <<alive, serving>>

\* What is served is what the request asks for.
Served(r) == serving = {HashOf[r]}

Init ==
  /\ up = TRUE /\ request = None
  /\ alive = {} /\ serving = {}
  /\ memory = None /\ saved \in Requests \cup {None}

Begin == /\ up /\ request = None
         /\ request' \in Requests
         /\ UNCHANGED <<up, node, memory, saved>>

Spawn == /\ request # None /\ alive = {}
         /\ \E c \in Cores : alive' = {c}
         /\ UNCHANGED <<agent, serving, memory, saved>>

Serve == /\ request # None /\ alive # {} /\ serving = {}
         /\ serving' = {HashOf[request]}
         /\ UNCHANGED <<agent, alive, memory, saved>>

\* By itself, by the agent, or by the service manager.
Exit == /\ alive' = {} /\ serving' = {}
        /\ UNCHANGED <<agent, memory, saved>>

Remember == /\ request # None
            /\ alive = {} \/ Served(request)
            /\ memory' = request
            /\ UNCHANGED <<agent, node, saved>>

Save == /\ memory # None
        /\ saved' = memory
        /\ UNCHANGED <<agent, node, memory>>

End == /\ alive = {} \/ (memory # None /\ Served(memory))
       /\ request' = None
       /\ UNCHANGED <<up, node, memory, saved>>

\* A stop, outside every start.
Forget == /\ request = None /\ alive = {}
          /\ memory' = None
          /\ UNCHANGED <<agent, node, saved>>

Erase == /\ request = None /\ alive = {} /\ memory = None
         /\ saved' = None
         /\ UNCHANGED <<agent, node, memory>>

\* The agent exits or crashes, even with a start in progress.
Die == /\ up' = FALSE
       /\ request' = None /\ memory' = None
       /\ UNCHANGED <<node, saved>>

Boot == /\ ~up
        /\ up' = TRUE
        /\ alive' = {} /\ serving' = {}
        /\ UNCHANGED <<request, memory, saved>>

Next == Begin \/ Spawn \/ Serve \/ Exit \/ Remember \/ Save \/ End
        \/ Forget \/ Erase \/ Die \/ Boot

Spec == Init /\ [][Next]_<<agent, node, memory, saved>>

\* Between two operations what is served is what a reboot would restore.
AtRest == up /\ request = None => alive = {} \/ (memory # None /\ Served(memory))
=============================================================================
