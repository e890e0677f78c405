------------------------------ MODULE UserIPs ------------------------------
(***************************************************************************)
(* The addresses of all users, as GetUsersIPList of internal/xtls/stats.go *)
(* collects them: it asks rw-core who is online, hands the users to a pool *)
(* of workers over a channel without buffer and waits for them.  A worker  *)
(* asks for the addresses of a user, which takes them away from the core,  *)
(* and stores them under the user's index.  The request may end while      *)
(* users are handed out, and other requests (the addresses of one user,    *)
(* those to disconnect) take addresses from the core at the same time.     *)
(***************************************************************************)
EXTENDS Subsequence, Sequences, Functions

CONSTANTS
  Workers, \* min(50, number of users) in the code
  Users,
  Metrics, \* what GetAllOnlineUsers may answer: sequences of users and OtherForm
  Addresses,
  OtherForm

VARIABLES
  online,  \* of each user: the addresses seen since they were last taken from the core
  main,    \* GetUsersIPList: where it is and the index it hands out next
  users,   \* the users it asks for
  worker,  \* of each worker: where it is and its index
  results, \* of each index: the addresses stored
  ctx,     \* whether the request's context is alive
  taken    \* the users and addresses its calls were answered with

addressVars == <<online, main, users, worker, results, ctx, taken>>

Off == [pc |-> "off", index |-> 0, got |-> {}]
Ready == [pc |-> "receive", index |-> 0, got |-> {}]

AddressInit ==
  /\ online \in [Users -> SUBSET Addresses]
  /\ main = [pc |-> "idle", next |-> 1] /\ users = <<>>
  /\ worker = [w \in Workers |-> Off]
  /\ results = <<>> /\ ctx = TRUE /\ taken = {}

\* A client of the user is seen at an address.
See(u, a) ==
  /\ a \notin online[u]
  /\ online' = [online EXCEPT ![u] = @ \cup {a}]
  /\ UNCHANGED <<main, users, worker, results, ctx, taken>>

\* Another request takes the addresses of a user.
TakeElsewhere(u) ==
  /\ online[u] # {}
  /\ online' = [online EXCEPT ![u] = {}]
  /\ UNCHANGED <<main, users, worker, results, ctx, taken>>

ASSUME MetricsAssumption == Metrics \subseteq Seq(Users \cup {OtherForm})

\* A metric of another form is skipped, a user reported again, too.
UniqueOnlineUserIDs(metrics) ==
  Picked(metrics, {k \in DOMAIN metrics : /\ metrics[k] # OtherForm
                                          /\ \A j \in 1..(k - 1) : metrics[j] # metrics[k]})

\* The request begins.  Without users, or when the call fails, it is over at once.
GetUsersIPList ==
  /\ main.pc = "idle"
  /\ ctx' = TRUE /\ taken' = {}
  /\ \E metrics \in Metrics :
       LET us == UniqueOnlineUserIDs(metrics) IN
       IF us = <<>>
       THEN UNCHANGED <<main, users, worker, results>>
       ELSE /\ users' = us /\ results' = [i \in DOMAIN us |-> {}]
            /\ main' = [pc |-> "enqueue", next |-> 1]
            /\ worker' = [w \in Workers |-> Ready]
  /\ UNCHANGED online

Send ==
  /\ main.pc = "enqueue" /\ main.next <= Len(users)
  /\ \E w \in Workers :
       /\ worker[w].pc = "receive"
       /\ worker' = [worker EXCEPT ![w] = [pc |-> "ask", index |-> main.next, got |-> {}]]
  /\ main' = [main EXCEPT !.next = @ + 1]
  /\ UNCHANGED <<online, users, results, ctx, taken>>

CloseJobs ==
  /\ main.pc = "enqueue" /\ (main.next > Len(users) \/ ~ctx)
  /\ main' = [main EXCEPT !.pc = "wait"]
  /\ UNCHANGED <<online, users, worker, results, ctx, taken>>

\* The call fails, as it does when the context has ended, before or after the core
\* has given the addresses up: the worker goes on with the next user.
AskFails(w) ==
  /\ worker[w].pc = "ask"
  /\ worker' = [worker EXCEPT ![w] = Ready]
  /\ online' \in {online, [online EXCEPT ![users[worker[w].index]] = {}]}
  /\ UNCHANGED <<main, users, results, ctx, taken>>

\* GetUserIPList with reset.
Ask(w) ==
  LET u == users[worker[w].index] IN
  /\ worker[w].pc = "ask"
  /\ worker' = [worker EXCEPT ![w].pc = "store", ![w].got = online[u]]
  /\ taken' = taken \cup ({u} \X online[u])
  /\ online' = [online EXCEPT ![u] = {}]
  /\ UNCHANGED <<main, users, results, ctx>>

Store(w) ==
  /\ worker[w].pc = "store"
  /\ results' = [results EXCEPT ![worker[w].index] = worker[w].got]
  /\ worker' = [worker EXCEPT ![w] = Ready]
  /\ UNCHANGED <<online, main, users, ctx, taken>>

\* The channel is closed and empty.
WorkerEnds(w) ==
  /\ worker[w].pc = "receive" /\ main.pc = "wait"
  /\ worker' = [worker EXCEPT ![w] = Off]
  /\ UNCHANGED <<online, main, users, results, ctx, taken>>

\* Mutant: the results are read when the channel is closed.
WaitGroupNot ==
  /\ main.pc = "wait"
  /\ main' = [main EXCEPT !.pc = "done"]
  /\ UNCHANGED <<online, users, worker, results, ctx, taken>>

WaitGroup ==
  /\ main.pc = "wait" /\ \A w \in Workers : worker[w] = Off
  /\ main' = [main EXCEPT !.pc = "done"]
  /\ UNCHANGED <<online, users, worker, results, ctx, taken>>

\* HandleGetUsersIPList answers; users without addresses are left out.
ReplyWithList ==
  /\ main.pc = "done"
  /\ main' = [pc |-> "idle", next |-> 1]
  /\ users' = <<>> /\ results' = <<>> /\ taken' = {} /\ ctx' = TRUE
  /\ worker' = [w \in Workers |-> Off]
  /\ UNCHANGED online

\* The Panel goes away.
Cancel ==
  /\ main.pc # "idle" /\ ctx
  /\ ctx' = FALSE
  /\ UNCHANGED <<online, main, users, worker, results, taken>>

Main == GetUsersIPList \/ Send \/ CloseJobs \/ WaitGroup \/ ReplyWithList
Worker(w) == AskFails(w) \/ Ask(w) \/ Store(w) \/ WorkerEnds(w)

AddressNext ==
  \/ Main \/ Cancel
  \/ \E w \in Workers : Worker(w)
  \/ \E u \in Users : TakeElsewhere(u) \/ \E a \in Addresses : See(u, a)

AddressSpec == AddressInit /\ [][AddressNext]_addressVars

\* The goroutines go on, and a call of the core ends: the server's timeouts end the
\* request's context if nothing else does.
AddressFairSpec == AddressSpec /\ WF_addressVars(Main) /\ \A w \in Workers : WF_addressVars(Worker(w))

-----------------------------------------------------------------------------
AddressTypeOK ==
  /\ online \in [Users -> SUBSET Addresses]
  /\ main \in [pc : {"idle", "enqueue", "wait", "done"}, next : 1..(Len(users) + 1)]
  /\ users \in Seq(Users) /\ IsInjective(users) /\ DOMAIN results = DOMAIN users
  /\ worker \in [Workers -> [pc : {"off", "receive", "ask", "store"}, index : 0..Len(users),
                             got : SUBSET Addresses]]
  /\ ctx \in BOOLEAN /\ taken \subseteq Users \X Addresses

\* What the answer lists.
AddressesListed == UNION {{users[i]} \X results[i] : i \in DOMAIN users}

\* Addresses that the calls of this request took from the core are in its answer,
\* under their user, also when the request ends while users are handed out: nobody
\* else can report them any more.
TakenIsListed == main.pc = "done" => AddressesListed = taken
=============================================================================
