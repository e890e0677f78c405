---------------------------- MODULE CoreSwitch -----------------------------
(***************************************************************************)
(* What the custom core loader promises, seen from the start that runs     *)
(* rw-core afterwards: a core is in place, and it changes only into the    *)
(* one the Panel asks for, in one step, or not at all.  Once somebody has  *)
(* changed the files by hand, nothing is promised any more.                *)
(***************************************************************************)
CONSTANTS
  Cores, \* what rw-core may be: a core of a specification or one of the host's
  None   \* no request in progress

VARIABLES
  core,   \* what the path rw-core runs
  wanted, \* the core the request in progress asks for
  touched \* whether somebody has changed the files by hand

Init == core \in Cores /\ wanted = None /\ touched = FALSE

Ask == wanted' \in Cores \cup {None} /\ UNCHANGED <<core, touched>>

Switch == wanted # None /\ core' = wanted /\ UNCHANGED <<wanted, touched>>

Touch == touched' = TRUE /\ core' \in Cores /\ wanted' \in Cores \cup {None}

Next == Ask \/ Switch \/ Touch

Spec == Init /\ [][Next]_<<core, wanted, touched>>
=============================================================================
